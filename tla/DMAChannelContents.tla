-------------------------- MODULE DMAChannelContents --------------------------
(***************************************************************************)
(* Proof that the daemon is back at its select only when the engine takes  *)
(* its blocks from a bank that holds the location of every servo.  The     *)
(* timing proof says which bank that is; this module says what is in it.   *)
(***************************************************************************)
EXTENDS DMAChannelTiming

(* Bank b has the location of every servo in slots lo up to hi - 1. *)
Holds(b, hi) == \A s \in Servo : s < hi => onTics[b][s] = location[s]

(* Which bank has the locations: the active one, from the end of a swap to *)
(* the first line that moves a servo; the inactive one from the end of the *)
(* rewriting to the swap; in between, the slots setNewLocation has passed. *)
ContentInv ==
  /\ ~Rewriting /\ ~Fresh => Holds(lastCBStart, NumSlots)
  /\ ~Rewriting /\ Fresh => Holds(Inactive, NumSlots)
  /\ pc = "writeOn" => Holds(Inactive, timeSlice)
  /\ pc = "writeOff" => Holds(Inactive, timeSlice + 1)
  /\ pc = "writeWrap" => Holds(Inactive, NumSlots)
-----------------------------------------------------------------------------
LEMMA ContentInit == Init => ContentInv
<1> SUFFICES ASSUME Init PROVE ContentInv
  OBVIOUS
<1>1. lastCBStart \in Bank /\ ~Rewriting /\ ~Fresh /\ pc = "start"
  BY DEF Init, Bank, Rewriting, Fresh
<1>2. \A s \in Servo : onTics[lastCBStart][s] = location[s]
  BY <1>1, SlotFacts DEF Init, PulseTics
<1> QED
  BY <1>1, <1>2 DEF ContentInv, Holds

(* A servo's slot lies below NumSlots. *)
LEMMA ServoSlot == \A s \in Servo : s \in Slot /\ s \in Nat /\ s < NumSlots
BY ConstantsAssumption, SMT DEF ConstantsAssumption, Servo, Slot

LEMMA ContentStep ==
  ASSUME ~BlindSwaps, TypeOK, LinkInv, ContentInv, [Next]_vars
  PROVE  ContentInv'
<1>1. ASSUME UNCHANGED <<onTics, location, lastCBStart, timeSlice, pc, lines>>
      PROVE  ContentInv'
  BY <1>1 DEF ContentInv, Holds, Fresh, Rewriting, Inactive
<1>2. ASSUME UNCHANGED <<onTics, location, lastCBStart>>,
             ~Fresh, ~Fresh', ~Rewriting, ~Rewriting'
      PROVE  ContentInv'
  BY <1>2 DEF ContentInv, Holds, Rewriting, Inactive
<1>3. CASE \E s \in Servo, l \in Location : SetNewLocation(s, l)
  <2>1. pc' = "writeOn" /\ timeSlice' = 0
    BY <1>3 DEF SetNewLocation
  <2>2. Holds(Inactive, timeSlice)'
    BY <2>1, ServoSlot, SMT DEF Holds
  <2> QED
    BY <2>1, <2>2 DEF ContentInv, Rewriting
<1>4. CASE WriteOn
  <2>1. /\ pc = "writeOn" /\ pc' = "writeOff" /\ Inactive' = Inactive
        /\ onTics' = [onTics EXCEPT ![Inactive][timeSlice]
                                       = PulseTics(timeSlice)]
        /\ UNCHANGED <<location, timeSlice>>
    BY <1>4 DEF WriteOn, Inactive
  <2>2. ASSUME NEW s \in Servo, s < timeSlice + 1
        PROVE  onTics'[Inactive][s] = location[s]
    <3>1. Inactive \in Bank /\ timeSlice \in Slot /\ s \in Slot
      BY Shape, ServoSlot DEF Bank
    <3>2. CASE s = timeSlice
      BY <2>1, <3>1, <3>2 DEF PulseTics, TypeOK, MemoryTypes
    <3>3. CASE s # timeSlice
      <4>1. s < timeSlice
        BY <2>2, <3>1, <3>3, SlotFacts, SMT
      <4>2. onTics[Inactive][s] = location[s]
        BY <2>1, <4>1 DEF ContentInv, Holds
      <4> QED
        BY <2>1, <3>1, <3>3, <4>2 DEF TypeOK, MemoryTypes
    <3> QED
      BY <3>2, <3>3
  <2> QED
    BY <2>1, <2>2 DEF ContentInv, Holds, Rewriting
<1>5. CASE WriteOff
  <2>1. /\ pc = "writeOff" /\ UNCHANGED <<onTics, location>>
        /\ Inactive' = Inactive
        /\ \/ timeSlice = LastSlot /\ pc' = "writeWrap"
           \/ pc' = "writeOn" /\ timeSlice' = timeSlice + 1
    BY <1>5 DEF WriteOff, Inactive
  <2>2. Holds(Inactive, timeSlice + 1)
    BY <2>1 DEF ContentInv
  <2>3. CASE pc' = "writeOn" /\ timeSlice' = timeSlice + 1
    BY <2>1, <2>2, <2>3 DEF ContentInv, Holds, Rewriting
  <2>4. CASE timeSlice = LastSlot /\ pc' = "writeWrap"
    <3>1. timeSlice + 1 = NumSlots
      BY <2>4, SlotFacts, SMT DEF LastSlot
    <3> QED
      BY <2>1, <2>2, <2>4, <3>1 DEF ContentInv, Holds, Rewriting
  <2> QED
    BY <2>1, <2>3, <2>4
<1>6. CASE WriteWrap
  <2>1. /\ pc = "writeWrap" /\ pc' = "parse" /\ Fresh'
        /\ UNCHANGED <<onTics, location>> /\ Inactive' = Inactive
    BY <1>6 DEF WriteWrap, Inactive, Fresh
  <2> QED
    BY <2>1 DEF ContentInv, Holds, Rewriting
<1>7. CASE SwapDMACBs
  <2>1. /\ pc = "parse" /\ pc' = "sleep" /\ Fresh /\ ~Fresh'
        /\ lastCBStart' = Inactive /\ UNCHANGED <<onTics, location>>
    BY <1>7 DEF SwapDMACBs, Inactive, Fresh, Rewriting
  <2> QED
    BY <2>1 DEF ContentInv, Holds, Rewriting
<1>8. CASE DmaStart
  <2>1. /\ pc = "start" /\ pc' = "select"
        /\ UNCHANGED <<onTics, location>>
    BY <1>8 DEF DmaStart
  <2>2. lastCBStart' = lastCBStart
    BY <1>8 DEF DmaStart, LinkInv
  <2> QED
    BY <1>2, <2>1, <2>2 DEF Rewriting, Fresh
<1>9. CASE ReadBatch \/ EndBatch \/ SwapDone \/ Leaving
  <2>1. /\ ~Rewriting /\ ~Rewriting' /\ ~Fresh /\ ~Fresh'
        /\ UNCHANGED <<onTics, location, lastCBStart>>
    BY <1>9
    DEF ReadBatch, EndBatch, SwapDone, Leaving, LeaveLoop, NoPulse, Drained,
        DmaEnd, memoryVars, Rewriting, Fresh
  <2> QED
    BY <1>2, <2>1
<1>10. CASE Interrupt
  <2>1. /\ UNCHANGED <<onTics, location, lastCBStart, lines, timeSlice>>
        /\ pc' = pc \/ (pc \in {"sleep", "drain"} /\ pc' \in {"select", "end"})
    BY <1>10 DEF Interrupt, memoryVars
  <2> QED
    BY <1>1, <1>2, <2>1 DEF Fresh, Rewriting
<1>11. CASE StopLine \/ Engine \/ Tic \/ UNCHANGED vars
  BY <1>1, <1>11
  DEF StopLine, Engine, LoadOn, LoadDelayOn, LoadOff, LoadDelayOff, Tic, vars,
      programVars, memoryVars
<1> QED
  BY <1>3, <1>4, <1>5, <1>6, <1>7, <1>8, <1>9, <1>10, <1>11
  DEF Next, Writing, Terminated

-----------------------------------------------------------------------------
(* Whenever the daemon is back to waiting for lines and goes on, the pulse *)
(* of every servo in the bank the engine follows is the last location      *)
(* written for it (README.md:37), under the conditions of the timing proof.*)
THEOREM LocationsArePlayed == Roomy => (Spec => []PlaysLocations)
<1> SUFFICES ASSUME Roomy PROVE Spec => []PlaysLocations
  OBVIOUS
<1>1. Init => ContentInv
  BY ContentInit
<1>2. ASSUME Inv, ContentInv, [Next]_vars
      PROVE  ContentInv'
  BY <1>2, ContentStep DEF Inv, Roomy, TimingInv
<1>3. ASSUME Inv, ContentInv PROVE PlaysLocations
  <2> SUFFICES ASSUME pc = "select", stayInLoop, NEW s \in Servo
               PROVE  onTics[dma.next][s] = location[s]
    BY DEF PlaysLocations
  <2>1. dma.next = lastCBStart
    BY <1>3 DEF Inv, TimingInv, PendingInv
  <2>2. Holds(lastCBStart, NumSlots)
    BY <1>3 DEF ContentInv, Rewriting, Fresh
  <2> QED
    BY <2>1, <2>2, ServoSlot DEF Holds
<1> QED
  BY <1>1, <1>2, <1>3, Inductive, PTL DEF Spec
=============================================================================
