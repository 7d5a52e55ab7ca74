------------------------------ MODULE LineQueue ------------------------------
(***************************************************************************)
(* What a client may expect of /dev/servo_fifo (README.md:37): every line  *)
(* it writes is taken for one line, and the lines are answered one at a    *)
(* time in the order they were written.  Once a stop line was answered     *)
(* nothing more is promised.                                               *)
(***************************************************************************)
EXTENDS Sequences

CONSTANTS
  Meaning,     \* what lines ask for
  Nothing,     \* the meaning of a line that asks for nothing
  IsStop(_)    \* the meanings that stop the daemon

VARIABLES
  pending,     \* meanings of the lines written and not answered
  answered,    \* meaning of the line answered last
  stopped

vars == <<pending, answered, stopped>>

Init == pending = <<>> /\ answered = Nothing /\ ~stopped

Write ==
  /\ \E m \in Meaning : pending' = Append(pending, m)
  /\ UNCHANGED <<answered, stopped>>

Answer ==
  /\ pending # <<>>
  /\ answered' = Head(pending)
  /\ pending' = Tail(pending)
  /\ stopped' = IsStop(Head(pending))

Next == ~stopped /\ (Write \/ Answer)

(* In this order, and each line once. *)
InOrder == Init /\ [][Next \/ (stopped /\ stopped')]_vars

(* If the clients pause, the queue is emptied. *)
Drains == []<>(pending = <<>> \/ stopped)
=============================================================================
