-------------------------- MODULE DMAChannelTiming --------------------------
(***************************************************************************)
(* Proof that usleep(PERIOD) at the end of swapDMACBs is long enough: when *)
(* the program next writes, the engine has obeyed the swap.  It rests on   *)
(* two conditions the code does not state.  Every swap follows a rewrite   *)
(* of the inactive bank, and the last slot of the channel is vacant: the   *)
(* engine reads nextCB when it starts the last block, and only in a vacant *)
(* slot is the time until that instant the same in every round.            *)
(***************************************************************************)
EXTENDS DMAChannelProofs

Roomy == ~BlindSwaps /\ NumServos < NumSlots

Rewriting == pc \in {"writeOn", "writeOff", "writeWrap"}

(* The inactive bank was rewritten since the last swap: a line of the      *)
(* batch in hand has moved a servo.                                        *)
Fresh == lines /\ (pc = "parse" \/ Rewriting)

(* The engine has read nextCB of the last block of its round. *)
AtWrap == dma.slot = LastSlot /\ dma.block = "delayOff"

(* Tics until the engine next reads the nextCB of a last block. *)
FlipIn == IF AtWrap THEN dma.left + ToLast(0) + EmptyTics
                    ELSE ToLast(dma.slot) + EmptyTics - age

(* What the last blocks say.  Wherever the engine is, the chain it follows *)
(* leads to the bank the program takes for the active one.                 *)
LinkInv ==
  /\ pc = "start" => lastCBStart = 0
  /\ wrap[lastCBStart] = lastCBStart
  /\ wrap[dma.next] = lastCBStart
  /\ Fresh => wrap[Inactive] = Inactive
  /\ dma.bank = dma.next \/ AtWrap

(* When a swap may be outstanding. *)
PendingInv ==
  dma.next # lastCBStart =>
    \/ pc = "sleep"
    \/ ~stayInLoop /\ pc \in {"select", "noPulse", "drain", "end", "done"}

(* The two waits of every slot add up, except where WriteOff is due. *)
LengthInv ==
  \A b \in Bank, s \in Slot :
    /\ s \in Servo => onTics[b][s] \in Location
    /\ s \notin Servo => onTics[b][s] = EmptyTics
    /\ \/ pc = "writeOff" /\ b = Inactive /\ s = timeSlice
       \/ onTics[b][s] + offTics[b][s] = SlotTics

(* The engine's clock agrees with the lengths in the bank it is in. *)
ClockInv ==
  /\ dma.block = "on" => age = 0
  /\ dma.block = "delayOn" => age + dma.left = onTics[dma.bank][dma.slot]
  /\ dma.block = "off" => age = onTics[dma.bank][dma.slot]
  /\ dma.block = "delayOff" => age + dma.left = SlotTics /\ age >= 1

(* A swap is obeyed before the sleep that follows it ends. *)
FlipInv == pc = "sleep" /\ dma.next # lastCBStart => FlipIn <= sleeping

TimingInv == LinkInv /\ PendingInv /\ LengthInv /\ ClockInv /\ FlipInv
-----------------------------------------------------------------------------
LEMMA Shape ==
  ASSUME TypeOK
  PROVE  /\ lastCBStart \in {0, 1} /\ Inactive \in {0, 1}
         /\ Inactive # lastCBStart /\ Other(Inactive) = lastCBStart
         /\ dma.next \in {0, 1} /\ dma.bank \in {0, 1}
         /\ dma.next # lastCBStart => dma.next = Inactive
         /\ dma.slot \in Slot /\ dma.left \in Nat /\ age \in Nat
         /\ dma.block \in {"on", "delayOn", "off", "delayOff"}
         /\ timeSlice \in Slot
<1>1. /\ lastCBStart \in {0, 1} /\ dma.next \in {0, 1} /\ dma.bank \in {0, 1}
      /\ dma.slot \in Slot /\ dma.left \in 0 .. SlotTics /\ age \in Nat
      /\ dma.block \in {"on", "delayOn", "off", "delayOff"}
      /\ timeSlice \in Slot
  BY DEF TypeOK, MemoryTypes, ControlTypes, EngineTypes, Bank
<1> QED
  BY <1>1, SlotFacts, SMT DEF Inactive, Other

LEMMA TimingInit == Init => TypeOK /\ TimingInv
<1> SUFFICES ASSUME Init PROVE TypeOK /\ TimingInv
  OBVIOUS
<1>1. TypeOK
  BY TypeInit
<1>2. LinkInv /\ PendingInv /\ FlipInv
  BY DEF Init, LinkInv, PendingInv, FlipInv, Inactive, Other, AtWrap, Bank
<1>3. location \in [Servo -> Location]
  BY <1>1 DEF TypeOK, MemoryTypes
<1>4. LengthInv
  <2> SUFFICES ASSUME NEW b \in Bank, NEW s \in Slot
               PROVE  /\ s \in Servo => onTics[b][s] \in Location
                      /\ s \notin Servo => onTics[b][s] = EmptyTics
                      /\ onTics[b][s] + offTics[b][s] = SlotTics
    BY DEF LengthInv
  <2>1. onTics[b][s] = PulseTics(s) /\ offTics[b][s] = SlotTics - PulseTics(s)
    BY DEF Init
  <2> QED
    BY <1>3, <2>1, PulseType, SlotFacts, SMT
<1>5. ClockInv
  BY SlotFacts DEF Init, ClockInv
<1> QED
  BY <1>1, <1>2, <1>4, <1>5 DEF TimingInv

LEMMA LinkStep ==
  ASSUME Roomy, TypeOK, LinkInv, PendingInv, [Next]_vars
  PROVE  LinkInv'
<1>1. ASSUME UNCHANGED <<lastCBStart, wrap, dma>>,
             Fresh' => Fresh,
             pc' = pc \/ pc' # "start"
      PROVE  LinkInv'
  BY <1>1 DEF LinkInv, Inactive, AtWrap
<1>8. ReadBatch => lines' = FALSE
  BY DEF ReadBatch, Roomy
<1>2. CASE DmaStart
  BY <1>2 DEF DmaStart, LinkInv, Inactive, AtWrap, Fresh, Rewriting
<1>3. CASE WriteWrap
  <2>1. dma.next = lastCBStart
    BY <1>3 DEF WriteWrap, PendingInv
  <2>2. wrap' = [wrap EXCEPT ![Inactive] = Inactive] /\ pc' = "parse"
        /\ UNCHANGED <<lastCBStart, dma>>
    BY <1>3 DEF WriteWrap, engineVars
  <2>3. wrap'[lastCBStart] = wrap[lastCBStart] /\ wrap'[Inactive] = Inactive
    BY <2>2, Shape DEF TypeOK, MemoryTypes, Bank
  <2> QED
    BY <2>1, <2>2, <2>3 DEF LinkInv, Inactive, AtWrap
<1>4. CASE SwapDMACBs
  <2>1. dma.next = lastCBStart /\ wrap[Inactive] = Inactive
    BY <1>4 DEF SwapDMACBs, PendingInv, LinkInv, Fresh
  <2>2. /\ wrap' = [wrap EXCEPT ![lastCBStart] = Inactive]
        /\ lastCBStart' = Inactive /\ pc' = "sleep" /\ UNCHANGED dma
    BY <1>4 DEF SwapDMACBs, Inactive, engineVars
  <2>3. wrap'[lastCBStart] = Inactive /\ wrap'[Inactive] = Inactive
    BY <2>1, <2>2, Shape DEF TypeOK, MemoryTypes, Bank
  <2> QED
    BY <2>1, <2>2, <2>3 DEF LinkInv, AtWrap, Fresh, Rewriting
<1>5. CASE LoadOn
  <2>1. dma'.bank = dma.next /\ dma'.next = dma.next
    BY <1>5 DEF LoadOn
  <2>2. UNCHANGED <<lastCBStart, wrap, lines, pc>>
    BY <1>5 DEF LoadOn, programVars
  <2> QED
    BY <2>1, <2>2 DEF LinkInv, Inactive, AtWrap, Fresh, Rewriting
<1>6. ASSUME LoadDelayOn \/ LoadOff \/ Tic PROVE LinkInv'
  <2>1. /\ dma'.bank = dma.bank /\ dma'.next = dma.next
        /\ dma'.slot = dma.slot
        /\ dma'.block = dma.block \/ dma.block \in {"on", "delayOn"}
    BY <1>6 DEF LoadDelayOn, LoadOff, Tic, BlockOver, TypeOK, EngineTypes
  <2>2. UNCHANGED <<lastCBStart, wrap, lines, pc>>
    BY <1>6 DEF LoadDelayOn, LoadOff, Tic, programVars
  <2> QED
    BY <2>1, <2>2 DEF LinkInv, Inactive, AtWrap, Fresh, Rewriting
<1>7. CASE LoadDelayOff
  <2>1. UNCHANGED <<lastCBStart, wrap, lines, pc>>
    BY <1>7 DEF LoadDelayOff, programVars
  <2>2. dma.bank = dma.next
    BY <1>7 DEF LoadDelayOff, BlockOver, LinkInv, AtWrap
  <2>3. /\ dma'.bank = dma.bank /\ dma'.slot = dma.slot
        /\ dma'.block = "delayOff"
        /\ dma'.next = IF dma.slot = LastSlot THEN wrap[dma.bank] ELSE dma.bank
    BY <1>7 DEF LoadDelayOff, TypeOK, EngineTypes
  <2>4. wrap[dma'.next] = lastCBStart
    BY <2>2, <2>3 DEF LinkInv
  <2> QED
    BY <2>1, <2>2, <2>3, <2>4 DEF LinkInv, Inactive, AtWrap, Fresh, Rewriting
<1>9. CASE \/ ReadBatch \/ StopLine \/ WriteOn \/ WriteOff
           \/ EndBatch \/ SwapDone \/ Leaving \/ Interrupt \/ UNCHANGED vars
           \/ \E s \in Servo, l \in Location : SetNewLocation(s, l)
  <2>1. /\ UNCHANGED <<lastCBStart, wrap, dma>>
        /\ pc' = pc \/ pc' # "start"
    BY <1>9
    DEF ReadBatch, StopLine, SetNewLocation, WriteOn, WriteOff, EndBatch,
        SwapDone, Leaving, LeaveLoop, NoPulse, Drained, DmaEnd, Interrupt,
        vars, programVars, engineVars, memoryVars
  <2>2. Fresh' => Fresh
    BY <1>8, <1>9
    DEF ReadBatch, StopLine, SetNewLocation, WriteOn, WriteOff, EndBatch,
        SwapDone, Leaving, LeaveLoop, NoPulse, Drained, DmaEnd, Interrupt,
        vars, programVars, Fresh, Rewriting
  <2> QED
    BY <1>1, <2>1, <2>2
<1> QED
  BY <1>2, <1>3, <1>4, <1>5, <1>6, <1>7, <1>9
  DEF Next, Writing, Engine, Terminated

LEMMA LengthStep ==
  ASSUME TypeOK, LengthInv, [Next]_vars
  PROVE  LengthInv'
<1>1. CASE WriteOn
  <2> SUFFICES ASSUME NEW b \in Bank, NEW s \in Slot
               PROVE  /\ s \in Servo => onTics'[b][s] \in Location
                      /\ s \notin Servo => onTics'[b][s] = EmptyTics
                      /\ \/ pc' = "writeOff" /\ b = Inactive' /\ s = timeSlice'
                         \/ onTics'[b][s] + offTics'[b][s] = SlotTics
    BY DEF LengthInv
  <2>1. /\ onTics' = [onTics EXCEPT ![Inactive][timeSlice]
                                      = PulseTics(timeSlice)]
        /\ pc = "writeOn" /\ pc' = "writeOff" /\ Inactive' = Inactive
        /\ UNCHANGED <<offTics, timeSlice>>
    BY <1>1 DEF WriteOn, Inactive
  <2>2. CASE b = Inactive /\ s = timeSlice
    <3>1. onTics'[b][s] = PulseTics(s)
      BY <2>1, <2>2 DEF TypeOK, MemoryTypes
    <3> QED
      BY <2>1, <2>2, <3>1, PulseType DEF TypeOK, MemoryTypes
  <2>3. CASE ~(b = Inactive /\ s = timeSlice)
    <3>1. onTics'[b][s] = onTics[b][s]
      BY <2>1, <2>3 DEF TypeOK, MemoryTypes
    <3> QED
      BY <2>1, <2>3, <3>1 DEF LengthInv
  <2> QED
    BY <2>2, <2>3
<1>2. CASE WriteOff
  <2> SUFFICES ASSUME NEW b \in Bank, NEW s \in Slot
               PROVE  onTics[b][s] + offTics'[b][s] = SlotTics
    BY <1>2 DEF LengthInv, WriteOff
  <2>1. offTics' = [offTics EXCEPT ![Inactive][timeSlice]
                                     = SlotTics - onTics[Inactive][timeSlice]]
    BY <1>2 DEF WriteOff
  <2>2. CASE b = Inactive /\ s = timeSlice
    <3>1. offTics'[b][s] = SlotTics - onTics[b][s]
      BY <2>1, <2>2 DEF TypeOK, MemoryTypes
    <3>2. onTics[b][s] \in 1 .. SlotTics
      BY DEF TypeOK, MemoryTypes
    <3> QED
      BY <3>1, <3>2, SlotFacts, SMT
  <2>3. CASE ~(b = Inactive /\ s = timeSlice)
    <3>1. offTics'[b][s] = offTics[b][s]
      BY <2>1, <2>3 DEF TypeOK, MemoryTypes
    <3> QED
      BY <2>3, <3>1 DEF LengthInv
  <2> QED
    BY <2>2, <2>3
<1>3. CASE UNCHANGED <<onTics, offTics, pc, lastCBStart, timeSlice>>
  BY <1>3 DEF LengthInv, Inactive
<1>4. CASE UNCHANGED <<onTics, offTics>> /\ pc # "writeOff"
  BY <1>4 DEF LengthInv
<1> QED
  BY <1>1, <1>2, <1>3, <1>4
  DEF Next, Writing, Leaving, Engine, Terminated, DmaStart, ReadBatch, StopLine,
      SetNewLocation, WriteWrap, EndBatch, SwapDMACBs, SwapDone, LeaveLoop,
      NoPulse, Drained, DmaEnd, Interrupt, LoadOn, LoadDelayOn, LoadOff,
      LoadDelayOff, Tic, vars, programVars, engineVars, memoryVars

LEMMA ClockStep ==
  ASSUME TypeOK, PinInv, LinkInv, PendingInv, LengthInv, ClockInv, [Next]_vars
  PROVE  ClockInv'
<1>1. CASE UNCHANGED <<dma, age, onTics>>
  BY <1>1 DEF ClockInv
<1>2. /\ dma.slot \in Slot /\ dma.bank \in Bank
      /\ onTics[dma.bank][dma.slot] \in 1 .. SlotTics
      /\ age \in Nat /\ dma.left \in Nat /\ SlotTics \in Nat
  <2>1. dma.slot \in Slot /\ dma.bank \in Bank
    BY DEF TypeOK, EngineTypes
  <2>2. onTics[dma.bank][dma.slot] \in 1 .. SlotTics
    BY <2>1 DEF TypeOK, MemoryTypes
  <2> QED
    BY <2>1, <2>2, Shape, SlotFacts
<1>3. CASE WriteOn
  <2>1. dma.next = lastCBStart
    BY <1>3 DEF WriteOn, PendingInv
  <2>2. UNCHANGED <<dma, age>>
    BY <1>3 DEF WriteOn, engineVars
  <2>3. CASE dma.block \in {"on", "delayOff"}
    BY <2>2, <2>3 DEF ClockInv
  <2>4. CASE dma.block \in {"delayOn", "off"}
    <3>1. dma.bank # Inactive
      BY <2>1, <2>4, Shape DEF LinkInv, AtWrap
    <3>2. onTics'[dma.bank] = onTics[dma.bank]
      BY <1>3, <1>2, <3>1 DEF WriteOn, TypeOK, MemoryTypes
    <3> QED
      BY <2>2, <2>4, <3>2 DEF ClockInv
  <2> QED
    BY <2>3, <2>4, Shape
<1>4. CASE LoadOn
  BY <1>4 DEF LoadOn, ClockInv
<1>5. CASE LoadDelayOn
  <2>1. /\ dma.block = "on" /\ dma'.block = "delayOn" /\ dma'.bank = dma.bank
        /\ dma'.slot = dma.slot /\ dma'.left = onTics[dma.bank][dma.slot]
        /\ UNCHANGED <<age, onTics>>
    BY <1>5 DEF LoadDelayOn, BlockOver, TypeOK, EngineTypes, programVars
  <2>2. age = 0
    BY <2>1 DEF ClockInv
  <2> QED
    BY <1>2, <2>1, <2>2, SMT DEF ClockInv
<1>6. CASE LoadOff
  <2>1. /\ dma.block = "delayOn" /\ dma'.block = "off" /\ dma'.bank = dma.bank
        /\ dma'.slot = dma.slot /\ dma.left = 0 /\ UNCHANGED <<age, onTics>>
    BY <1>6 DEF LoadOff, BlockOver, TypeOK, EngineTypes, programVars
  <2> QED
    BY <1>2, <2>1, SMT DEF ClockInv
<1>7. CASE LoadDelayOff
  <2>1. /\ dma.block = "off" /\ dma'.block = "delayOff"
        /\ dma'.left = offTics[dma.bank][dma.slot]
        /\ UNCHANGED <<age, onTics>>
    BY <1>7 DEF LoadDelayOff, BlockOver, TypeOK, EngineTypes, programVars
  <2>2. ~(pc = "writeOff" /\ dma.bank = Inactive)
    BY <2>1, Shape DEF LinkInv, AtWrap, PendingInv
  <2>3. onTics[dma.bank][dma.slot] + offTics[dma.bank][dma.slot] = SlotTics
    BY <1>2, <2>2 DEF LengthInv
  <2>4. age = onTics[dma.bank][dma.slot]
    BY <2>1 DEF ClockInv
  <2>5. age + dma'.left = SlotTics /\ age >= 1
    BY <1>2, <2>1, <2>3, <2>4, SMT
  <2> QED
    BY <2>1, <2>5 DEF ClockInv
<1>8. CASE Tic
  <2>1. /\ dma'.left = dma.left - 1 /\ dma.left > 0 /\ age' = age + 1
        /\ dma'.block = dma.block /\ dma'.bank = dma.bank
        /\ dma'.slot = dma.slot /\ UNCHANGED onTics
    BY <1>8 DEF Tic, TypeOK, EngineTypes, programVars
  <2>2. dma.block \notin {"on", "off"}
    BY <1>2, <2>1, SMT DEF PinInv
  <2>3. age' + dma'.left = age + dma.left /\ age' >= 1
    BY <1>2, <2>1, SMT
  <2> QED
    BY <2>1, <2>2, <2>3 DEF ClockInv
<1> QED
  BY <1>1, <1>3, <1>4, <1>5, <1>6, <1>7, <1>8, QuietSteps
  DEF Next, Writing, Leaving, Engine, Terminated, DmaStart, ReadBatch, StopLine,
      SetNewLocation, WriteOff, WriteWrap, EndBatch, SwapDMACBs, SwapDone,
      LeaveLoop, NoPulse, Drained, DmaEnd, Interrupt, vars, programVars,
      engineVars, memoryVars

-----------------------------------------------------------------------------
(* The last slot is vacant, so its first wait is over after one tic. *)
LEMMA LastVacant ==
  ASSUME Roomy, TypeOK, LengthInv
  PROVE  onTics[dma.bank][LastSlot] = 1
<1>1. LastSlot \notin Servo /\ LastSlot \in Slot
  BY ConstantsAssumption, SMT
  DEF Roomy, ConstantsAssumption, LastSlot, Slot, Servo
<1>2. dma.bank \in Bank
  BY DEF TypeOK, EngineTypes
<1> QED
  BY <1>1, <1>2 DEF LengthInv, EmptyTics

LEMMA ToLastRange ==
  /\ \A s \in Slot : ToLast(s) <= ToLast(0)
  /\ \A s \in Slot \ {LastSlot} : ToLast(s) >= SlotTics
<1>1. \A s \in Slot : ToLast(s) <= ToLast(0)
  BY ConstantsAssumption, SlotFacts, SMT
  DEF ConstantsAssumption, ToLast, Slot, LastSlot
<1>2. \A s \in Slot \ {LastSlot} : ToLast(s) >= SlotTics
  BY ToLastFacts, SlotFacts, SMT
<1> QED
  BY <1>1, <1>2

(* While a wait goes on, the instant nextCB is read lies ahead. *)
LEMMA FlipAhead ==
  ASSUME Roomy, TypeOK, PinInv, LengthInv, ClockInv, dma.left > 0
  PROVE  FlipIn >= 1
<1>1. /\ dma.slot \in Slot /\ dma.left \in Nat /\ age \in Nat
      /\ SlotTics \in Nat /\ ToLast(0) \in Nat
      /\ ToLast(dma.slot) \in Nat /\ EmptyTics = 1
  BY Shape, SlotFacts, ToLastFacts DEF EmptyTics
<1>2. dma.block \in {"delayOn", "delayOff"}
  BY <1>1, Shape, SMT DEF PinInv
<1>3. CASE AtWrap
  BY <1>1, <1>3, SMT DEF FlipIn
<1>4. CASE dma.slot # LastSlot
  <2>1. ToLast(dma.slot) >= SlotTics
    BY <1>1, <1>4, ToLastRange
  <2>2. age + dma.left <= SlotTics
    <3>1. CASE dma.block = "delayOff"
      BY <3>1, <1>1, SMT DEF ClockInv
    <3>2. CASE dma.block = "delayOn"
      <4>1. onTics[dma.bank][dma.slot] \in 1 .. SlotTics
        BY DEF TypeOK, MemoryTypes, EngineTypes
      <4> QED
        BY <3>2, <4>1, <1>1, SMT DEF ClockInv
    <3> QED
      BY <3>1, <3>2, <1>2
  <2> QED
    BY <1>1, <1>4, <2>1, <2>2, SMT DEF FlipIn, AtWrap
<1>5. CASE dma.slot = LastSlot /\ dma.block = "delayOn"
  <2>1. age + dma.left = 1
    BY <1>5, LastVacant DEF ClockInv
  <2> QED
    BY <1>1, <1>5, <2>1, SMT DEF FlipIn, AtWrap
<1> QED
  BY <1>2, <1>3, <1>4, <1>5 DEF AtWrap

LEMMA FlipType == TypeOK => FlipIn \in Int
<1> SUFFICES ASSUME TypeOK PROVE FlipIn \in Int
  OBVIOUS
<1>1. /\ dma.left \in Nat /\ age \in Nat /\ EmptyTics = 1
      /\ ToLast(0) \in Nat /\ ToLast(dma.slot) \in Nat
  BY Shape, SlotFacts, ToLastFacts DEF EmptyTics
<1>2. dma.left + ToLast(0) + EmptyTics \in Int
  BY <1>1, SMT
<1>3. ToLast(dma.slot) + EmptyTics - age \in Int
  BY <1>1, SMT
<1> QED
  BY <1>2, <1>3 DEF FlipIn

(* Only the loading of a last block changes the bank to come. *)
LEMMA NextKept ==
  ASSUME TypeOK, LoadOn \/ LoadDelayOn \/ LoadOff \/ Tic
  PROVE  dma'.next = dma.next
<1>1. CASE LoadOn
  BY <1>1 DEF LoadOn
<1>2. CASE LoadDelayOn
  BY <1>2 DEF LoadDelayOn, TypeOK, EngineTypes
<1>3. CASE LoadOff
  BY <1>3 DEF LoadOff, TypeOK, EngineTypes
<1>4. CASE Tic
  BY <1>4 DEF Tic, TypeOK, EngineTypes
<1> QED
  BY <1>1, <1>2, <1>3, <1>4

(* The engine runs from DmaStart to DmaEnd. *)
ActiveInv == pc \notin {"start", "done"} => active

LEMMA ActiveInit == Init => ActiveInv
BY DEF Init, ActiveInv

LEMMA ActiveStep == ActiveInv /\ [Next]_vars => ActiveInv'
<1> SUFFICES ASSUME ActiveInv, [Next]_vars PROVE ActiveInv'
  OBVIOUS
<1>1. CASE UNCHANGED active /\ pc \notin {"start", "done"}
  BY <1>1 DEF ActiveInv
<1>2. CASE UNCHANGED <<pc, active>>
  BY <1>2 DEF ActiveInv
<1>3. CASE DmaStart \/ DmaEnd
  BY <1>3 DEF DmaStart, DmaEnd, ActiveInv
<1>4. CASE Interrupt
  BY <1>4 DEF Interrupt, ActiveInv, engineVars
<1> QED
  BY <1>1, <1>2, <1>3, <1>4
  DEF Next, Writing, Leaving, Engine, Terminated, ReadBatch, StopLine,
      SetNewLocation, WriteOn, WriteOff, WriteWrap, EndBatch, SwapDMACBs,
      SwapDone, LeaveLoop, NoPulse, Drained, LoadOn, LoadDelayOn, LoadOff,
      LoadDelayOff, Tic, vars, programVars, engineVars

LEMMA PendingStep ==
  ASSUME Roomy, TypeOK, PinInv, ActiveInv, TimingInv, [Next]_vars
  PROVE  PendingInv'
<1> USE DEF TimingInv
<1>1. CASE UNCHANGED <<dma, lastCBStart, pc, stayInLoop>>
  BY <1>1 DEF PendingInv
<1>2. CASE DmaStart \/ ReadBatch \/ EndBatch \/ StopLine
  BY <1>2
  DEF DmaStart, ReadBatch, EndBatch, StopLine, LinkInv, PendingInv, memoryVars,
      engineVars
<1>3. CASE Writing \/ \E s \in Servo, l \in Location : SetNewLocation(s, l)
  BY <1>3
  DEF Writing, WriteOn, WriteOff, WriteWrap, SetNewLocation, PendingInv,
      engineVars
<1>4. CASE SwapDMACBs
  BY <1>4 DEF SwapDMACBs, PendingInv
<1>5. CASE SwapDone
  <2>1. /\ pc = "sleep" /\ sleeping = 0 /\ dma.left > 0
        /\ UNCHANGED <<dma, lastCBStart>>
    BY <1>5 DEF SwapDone, Awake, ActiveInv, memoryVars, engineVars
  <2>2. FlipIn >= 1
    BY <2>1, FlipAhead
  <2>3. FlipIn \in Int
    BY FlipType
  <2>4. dma.next = lastCBStart
    BY <2>1, <2>2, <2>3, SMT DEF FlipInv
  <2> QED
    BY <2>1, <2>4 DEF PendingInv
<1>6. CASE Leaving \/ Interrupt
  BY <1>6
  DEF Leaving, LeaveLoop, NoPulse, Drained, DmaEnd, Interrupt, PendingInv,
      memoryVars, engineVars
<1>7. CASE Engine \/ Tic
  <2>1. UNCHANGED <<pc, stayInLoop, lastCBStart>>
    BY <1>7
    DEF Engine, LoadOn, LoadDelayOn, LoadOff, LoadDelayOff, Tic, programVars
  <2>2. dma'.next = dma.next \/ dma'.next = lastCBStart
    <3>1. CASE LoadDelayOff
      <4>1. /\ dma.block = "off"
            /\ dma'.next = IF dma.slot = LastSlot THEN wrap[dma.bank]
                                                  ELSE dma.bank
        BY <3>1 DEF LoadDelayOff, BlockOver, TypeOK, EngineTypes
      <4>2. dma.bank = dma.next
        BY <4>1 DEF LinkInv, AtWrap
      <4> QED
        BY <4>1, <4>2 DEF LinkInv
    <3>2. CASE LoadOn \/ LoadDelayOn \/ LoadOff \/ Tic
      BY <3>2, NextKept
    <3> QED
      BY <1>7, <3>1, <3>2 DEF Engine
  <2> QED
    BY <2>1, <2>2 DEF PendingInv
<1> QED
  BY <1>1, <1>2, <1>3, <1>4, <1>5, <1>6, <1>7
  DEF Next, Terminated, vars, programVars, engineVars

LEMMA FlipStep ==
  ASSUME Roomy, TypeOK, PinInv, TimingInv, [Next]_vars
  PROVE  FlipInv'
<1> USE DEF TimingInv
<1> SUFFICES ASSUME pc' = "sleep", dma'.next # lastCBStart'
             PROVE  FlipIn' <= sleeping'
  BY DEF FlipInv
<1>1. /\ dma.slot \in Slot /\ dma.left \in Nat /\ age \in Nat
      /\ SlotTics \in Nat /\ SlotTics >= 1 /\ PERIOD \in Nat
      /\ ToLast(0) \in Nat /\ ToLast(dma.slot) \in Nat /\ EmptyTics = 1
      /\ ToLast(0) + SlotTics <= PERIOD
      /\ sleeping \in Nat /\ FlipIn \in Int
  <2>1. sleeping \in Nat
    BY SlotFacts, SMT DEF TypeOK, ControlTypes
  <2>2. FlipIn \in Int
    BY FlipType
  <2> QED
    BY <2>1, <2>2, Shape, SlotFacts, ToLastFacts DEF EmptyTics
<1>2. CASE SwapDMACBs
  <2>1. sleeping' = PERIOD /\ FlipIn' = FlipIn
    BY <1>2 DEF SwapDMACBs, engineVars, FlipIn, AtWrap
  <2>2. CASE AtWrap
    <3>1. dma.left + 1 <= SlotTics
      BY <1>1, <2>2, SMT DEF AtWrap, ClockInv
    <3> QED
      BY <1>1, <2>1, <2>2, <3>1, SMT DEF FlipIn
  <2>3. CASE ~AtWrap
    <3>1. ToLast(dma.slot) <= ToLast(0)
      BY <1>1, ToLastRange
    <3> QED
      BY <1>1, <2>1, <2>3, <3>1, SMT DEF FlipIn
  <2> QED
    BY <2>2, <2>3
<1>3. CASE Engine \/ Tic
  <2>1. UNCHANGED <<pc, lastCBStart>>
    BY <1>3
    DEF Engine, LoadOn, LoadDelayOn, LoadOff, LoadDelayOff, Tic, programVars
  <2>2. CASE LoadOn
    <3>1. /\ dma.block = "delayOff" /\ dma.left = 0 /\ dma'.next = dma.next
          /\ dma'.slot = (IF dma.slot = LastSlot THEN 0 ELSE dma.slot + 1)
          /\ dma'.block = "on" /\ age' = 0 /\ UNCHANGED sleeping
      BY <2>2 DEF LoadOn, BlockOver
    <3>2. FlipIn <= sleeping
      BY <2>1, <3>1 DEF FlipInv
    <3>3. age = SlotTics
      BY <1>1, <3>1, SMT DEF ClockInv
    <3>4. FlipIn' = ToLast(dma'.slot) + EmptyTics - age'
      BY <3>1 DEF FlipIn, AtWrap
    <3>5. CASE dma.slot = LastSlot
      <4>1. FlipIn = ToLast(0) + EmptyTics
        BY <1>1, <3>1, <3>5, SMT DEF FlipIn, AtWrap
      <4> QED
        BY <1>1, <3>1, <3>2, <3>4, <3>5, <4>1, SMT
    <3>6. CASE dma.slot # LastSlot
      <4>1. /\ ToLast(dma.slot) = ToLast(dma.slot + 1) + SlotTics
            /\ ToLast(dma.slot + 1) \in Nat
        BY <1>1, <3>6, ToLastFacts
      <4>2. FlipIn = ToLast(dma.slot) + EmptyTics - age
        BY <3>6 DEF FlipIn, AtWrap
      <4> QED
        BY <1>1, <3>1, <3>2, <3>3, <3>4, <3>6, <4>1, <4>2, SMT
    <3> QED
      BY <3>5, <3>6
  <2>3. CASE LoadDelayOn \/ LoadOff
    <3>1. /\ dma.block \in {"on", "delayOn"} /\ dma'.next = dma.next
          /\ dma'.slot = dma.slot /\ dma'.block \in {"delayOn", "off"}
          /\ UNCHANGED <<age, sleeping>>
      BY <2>3 DEF LoadDelayOn, LoadOff, BlockOver, TypeOK, EngineTypes
    <3>2. FlipIn' = FlipIn
      BY <3>1 DEF FlipIn, AtWrap
    <3> QED
      BY <2>1, <3>1, <3>2 DEF FlipInv
  <2>4. CASE LoadDelayOff
    <3>1. /\ dma.block = "off" /\ dma'.block = "delayOff"
          /\ dma'.slot = dma.slot /\ UNCHANGED <<age, sleeping>>
          /\ dma'.next = IF dma.slot = LastSlot THEN wrap[dma.bank]
                                                ELSE dma.bank
      BY <2>4 DEF LoadDelayOff, BlockOver, TypeOK, EngineTypes
    <3>2. dma.bank = dma.next
      BY <3>1 DEF LinkInv, AtWrap
    <3>3. dma.slot # LastSlot
      BY <2>1, <3>1, <3>2 DEF LinkInv
    <3>4. FlipIn' = FlipIn /\ dma'.next = dma.next
      BY <3>1, <3>2, <3>3 DEF FlipIn, AtWrap
    <3> QED
      BY <2>1, <3>1, <3>4 DEF FlipInv
  <2>5. CASE Tic
    <3>1. /\ dma'.left = dma.left - 1 /\ dma.left > 0 /\ age' = age + 1
          /\ dma'.block = dma.block /\ dma'.next = dma.next
          /\ dma'.slot = dma.slot
          /\ sleeping' = IF sleeping > 0 THEN sleeping - 1 ELSE 0
      BY <2>5 DEF Tic, TypeOK, EngineTypes
    <3>2. FlipIn >= 1
      BY <3>1, FlipAhead
    <3>3. FlipIn <= sleeping
      BY <2>1, <3>1 DEF FlipInv
    <3>4. FlipIn' = FlipIn - 1
      BY <1>1, <3>1, SMT DEF FlipIn, AtWrap
    <3> QED
      BY <1>1, <3>1, <3>2, <3>3, <3>4, SMT
  <2> QED
    BY <1>3, <2>2, <2>3, <2>4, <2>5 DEF Engine
<1>4. CASE UNCHANGED <<dma, age, lastCBStart, pc, sleeping>>
  BY <1>4 DEF FlipInv, FlipIn, AtWrap
<1> QED
  BY <1>2, <1>3, <1>4
  DEF Next, Writing, Leaving, Terminated, DmaStart, ReadBatch, StopLine,
      SetNewLocation, WriteOn, WriteOff, WriteWrap, EndBatch, SwapDone,
      LeaveLoop, NoPulse, Drained, DmaEnd, Interrupt, vars, programVars,
      engineVars, memoryVars

-----------------------------------------------------------------------------
LEMMA TimingStep ==
  ASSUME Roomy, TypeOK, PinInv, ActiveInv, TimingInv, [Next]_vars
  PROVE  TimingInv'
BY LinkStep, PendingStep, LengthStep, ClockStep, FlipStep DEF TimingInv

Inv == TypeOK /\ PinInv /\ ActiveInv /\ TimingInv

LEMMA Inductive ==
  ASSUME Roomy
  PROVE  Spec => []Inv
<1>1. Init => Inv
  BY TimingInit, PinInit, ActiveInit DEF Inv
<1>2. Inv /\ [Next]_vars => Inv'
  BY TypeStep, PinStep, ActiveStep, TimingStep DEF Inv
<1> QED
  BY <1>1, <1>2, PTL DEF Spec

(* setNewLocation never rewrites a bank the engine may still enter, for    *)
(* any number of slots and any period, if a slot is free and no swap is    *)
(* blind (DMAChannel.cc:137).                                              *)
THEOREM WritesAreInactive == Roomy => (Spec => []OnlyInactiveWritten)
<1> SUFFICES ASSUME Roomy PROVE Spec => []OnlyInactiveWritten
  OBVIOUS
<1>1. Inv => OnlyInactiveWritten
  BY Shape DEF Inv, TimingInv, PendingInv, OnlyInactiveWritten
<1> QED
  BY <1>1, Inductive, PTL

(* Under the same conditions every slot lasts SlotTics and every pulse is  *)
(* between MinOn and MaxOn tics long, through rewrites and swaps.          *)
THEOREM SlotsKeepTime == Roomy => (Spec => []SlotTiming)
<1> SUFFICES ASSUME Roomy PROVE Spec => []SlotTiming
  OBVIOUS
<1>1. Inv => SlotTiming
  BY DEF Inv, TypeOK, EngineTypes, TimingInv, ClockInv, LengthInv, SlotTiming
<1> QED
  BY <1>1, Inductive, PTL

-----------------------------------------------------------------------------
(* The refinement of the double buffer.                                    *)

LEMMA FramesTyped ==
  ASSUME TypeOK, NEW b \in Bank
  PROVE  FrameOf(b) \in [on : [Slot -> 1 .. SlotTics],
                         off : [Slot -> 0 .. SlotTics - 1]]
BY DEF FrameOf, TypeOK, MemoryTypes

LEMMA BufferInit == Init => Buffer!Init
<1> SUFFICES ASSUME Init PROVE Buffer!Init
  OBVIOUS
<1>1. dma.next = 0 /\ lastCBStart = 0 /\ 0 \in Bank /\ Other(0) \in Bank
  BY SMT DEF Init, Bank, Other
<1>2. onTics[0] = onTics[Other(0)] /\ offTics[0] = offTics[Other(0)]
  BY <1>1 DEF Init
<1> QED
  BY <1>1, <1>2, TypeInit, FramesTyped DEF Buffer!Init, FrameOf

LEMMA BufferStep ==
  ASSUME Inv, TypeOK', [Next]_vars
  PROVE  [Buffer!Next]_(Buffer!vars)
<1> USE DEF Inv, TimingInv
<1>1. CASE UNCHANGED <<onTics, offTics, lastCBStart>> /\ dma'.next = dma.next
  BY <1>1 DEF Buffer!vars, FrameOf
<1>2. CASE WriteOn \/ WriteOff
  <2>1. dma.next = lastCBStart /\ UNCHANGED <<dma, lastCBStart>>
    BY <1>2 DEF WriteOn, WriteOff, PendingInv, engineVars
  <2>2. Other(dma.next) = Inactive /\ Inactive \in Bank /\ Inactive # dma.next
    BY <2>1, Shape DEF Inactive, Bank
  <2>3. onTics'[dma.next] = onTics[dma.next]
        /\ offTics'[dma.next] = offTics[dma.next]
    BY <1>2, <2>1, <2>2, Shape
    DEF WriteOn, WriteOff, TypeOK, MemoryTypes, Bank
  <2>4. Buffer!Prepare
    <3>1. FrameOf(dma'.next) = FrameOf(dma.next)
      BY <2>1
    <3>2. FrameOf(dma.next)' = FrameOf(dma.next)
      BY <2>1, <2>3 DEF FrameOf
    <3>3. FrameOf(Other(dma.next))' \in [on : [Slot -> 1 .. SlotTics],
                                         off : [Slot -> 0 .. SlotTics - 1]]
      BY <2>1, <2>2 DEF FrameOf, TypeOK, MemoryTypes
    <3> QED
      BY <2>1, <3>2, <3>3 DEF Buffer!Prepare
  <2> QED
    BY <2>4 DEF Buffer!Next
<1>3. CASE SwapDMACBs
  <2>1. /\ dma.next = lastCBStart /\ lastCBStart' = Inactive
        /\ UNCHANGED <<dma, onTics, offTics>>
    BY <1>3 DEF SwapDMACBs, PendingInv, Inactive, engineVars
  <2> QED
    BY <2>1, Shape DEF Buffer!Next, Buffer!Commit, FrameOf
<1>4. CASE LoadDelayOff
  <2>1. /\ dma.block = "off"
        /\ dma'.next = IF dma.slot = LastSlot THEN wrap[dma.bank] ELSE dma.bank
        /\ UNCHANGED <<onTics, offTics, lastCBStart>>
    BY <1>4 DEF LoadDelayOff, BlockOver, TypeOK, EngineTypes, programVars
  <2>2. dma.bank = dma.next
    BY <2>1 DEF LinkInv, AtWrap
  <2>3. dma'.next = dma.next \/ dma'.next = lastCBStart
    BY <2>1, <2>2 DEF LinkInv
  <2>4. CASE dma'.next # dma.next
    <3>1. dma'.next = lastCBStart /\ dma.next = Inactive
      BY <2>3, <2>4, Shape
    <3>2. Other(dma.next) = dma'.next /\ Other(dma'.next) = dma.next
      BY <3>1, Shape DEF Inactive
    <3> QED
      BY <2>1, <2>4, <3>1, <3>2 DEF Buffer!Next, Buffer!Flip, FrameOf
  <2> QED
    BY <1>1, <2>1, <2>4
<1>5. CASE DmaStart
  <2>1. lastCBStart' = lastCBStart /\ UNCHANGED <<dma, onTics, offTics>>
    BY <1>5 DEF DmaStart, LinkInv
  <2> QED
    BY <1>1, <2>1
<1>6. CASE LoadOn \/ LoadDelayOn \/ LoadOff \/ Tic
  <2>1. UNCHANGED <<onTics, offTics, lastCBStart>>
    BY <1>6 DEF LoadOn, LoadDelayOn, LoadOff, Tic, programVars
  <2> QED
    BY <1>1, <1>6, <2>1, NextKept
<1> QED
  BY <1>1, <1>2, <1>3, <1>4, <1>5, <1>6
  DEF Next, Writing, Leaving, Engine, Terminated, ReadBatch, StopLine,
      SetNewLocation, WriteWrap, EndBatch, SwapDone, LeaveLoop, NoPulse,
      Drained, DmaEnd, Interrupt, vars, programVars, engineVars, memoryVars

(* A channel with room and no blind swaps is a double buffer: the setting  *)
(* the engine plays changes only by a flip and never while it is played.   *)
THEOREM ImplementsDoubleBuffer == Roomy => (Spec => Buffer!SafeSpec)
<1> SUFFICES ASSUME Roomy PROVE Spec => Buffer!SafeSpec
  OBVIOUS
<1>1. Inv /\ Inv' /\ [Next]_vars => [Buffer!Next]_(Buffer!vars)
  BY BufferStep DEF Inv
<1> QED
  BY <1>1, Inductive, BufferInit, PTL DEF Spec, Buffer!SafeSpec
=============================================================================
