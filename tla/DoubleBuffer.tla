---------------------------- MODULE DoubleBuffer ----------------------------
(***************************************************************************)
(* What one DMA channel promises to the rest of the daemon, with every     *)
(* detail of control blocks, bus addresses and time left out.              *)
(*                                                                         *)
(* The channel keeps two complete settings of its pulse train ("update     *)
(* control blocks that aren't active", DMAChannel.cc:137).  The hardware   *)
(* repeats the one that is shown.  The program prepares the spare one,     *)
(* commits it, and from then on leaves both alone until the hardware has   *)
(* flipped at the end of a round.                                          *)
(***************************************************************************)
CONSTANT Frame      \* the settings a bank of control blocks can hold

VARIABLES
  shown,            \* the setting the hardware loads control blocks from
  spare,            \* the setting the program may write
  pending           \* a commit that the hardware has not obeyed yet

vars == <<shown, spare, pending>>

Init ==
  /\ shown \in Frame
  /\ spare = shown
  /\ pending = FALSE

(* Any part of the spare setting is rewritten. *)
Prepare ==
  /\ ~pending
  /\ spare' \in Frame
  /\ UNCHANGED <<shown, pending>>

(* The program asks for the spare setting to be shown. *)
Commit ==
  /\ ~pending
  /\ pending' = TRUE
  /\ UNCHANGED <<shown, spare>>

(* The hardware reaches the end of a round and obeys. *)
Flip ==
  /\ pending
  /\ shown' = spare
  /\ spare' = shown
  /\ pending' = FALSE

Next == Prepare \/ Commit \/ Flip

(* A setting being shown changes by a flip, as a whole, or not at all. *)
SafeSpec == Init /\ [][Next]_vars

Spec == SafeSpec /\ WF_vars(Flip)
=============================================================================
