-------------------------- MODULE DMAChannelProofs --------------------------
(***************************************************************************)
(* Proofs about one DMA channel, for every number of slots and servos, any *)
(* period and any pulse range that ConstantsAssumption admits.             *)
(***************************************************************************)
EXTENDS DMAChannel, TLAPS

-----------------------------------------------------------------------------
(* Arithmetic of the constants.                                            *)

LEMMA SlotFacts ==
  /\ NumSlots \in Nat /\ PERIOD \in Nat /\ EndSleep \in Nat
  /\ PERIOD < EndSleep
  /\ SlotTics \in Nat /\ SlotTics >= 1
  /\ LastSlot \in Slot /\ 0 \in Slot
  /\ Servo \subseteq Slot /\ Slot \subseteq Nat
  /\ EmptyTics \in 1 .. SlotTics
  /\ Location \subseteq 1 .. SlotTics
  /\ (MinOn + MaxOn) \div 2 \in Location
BY ConstantsAssumption
DEF ConstantsAssumption, SlotTics, LastSlot, Slot, Servo, EmptyTics, Location

(* The time from the start of slot s to the start of the last slot. *)
ToLast(s) == (LastSlot - s) * SlotTics

LEMMA ToLastFacts ==
  /\ \A s \in Slot : ToLast(s) \in Nat
  /\ \A s \in Slot \ {LastSlot} : /\ s + 1 \in Slot
                                  /\ ToLast(s) = ToLast(s + 1) + SlotTics
  /\ ToLast(LastSlot) = 0
  /\ ToLast(0) + SlotTics <= PERIOD
<1>1. \A s \in Slot : ToLast(s) \in Nat
  BY SlotFacts, ConstantsAssumption
  DEF ConstantsAssumption, LastSlot, Slot, ToLast
<1>2. \A s \in Slot \ {LastSlot} : /\ s + 1 \in Slot
                                   /\ ToLast(s) = ToLast(s + 1) + SlotTics
  BY SlotFacts, ConstantsAssumption
  DEF ConstantsAssumption, LastSlot, Slot, ToLast
<1>3. ToLast(LastSlot) = 0
  BY SlotFacts, SMT DEF LastSlot, ToLast
<1>4. ToLast(0) + SlotTics = NumSlots * SlotTics
  BY SlotFacts, SMT DEF LastSlot, ToLast
<1>5. NumSlots * SlotTics <= PERIOD
  BY ConstantsAssumption, SMT DEF ConstantsAssumption, SlotTics
<1> QED
  BY <1>1, <1>2, <1>3, <1>4, <1>5, SlotFacts

LEMMA PulseType ==
  ASSUME location \in [Servo -> Location], NEW s \in Slot
  PROVE  /\ PulseTics(s) \in 1 .. SlotTics
         /\ s \in Servo => PulseTics(s) \in Location
         /\ s \notin Servo => PulseTics(s) = EmptyTics
<1>1. CASE s \in Servo
  BY <1>1, SlotFacts DEF PulseTics
<1>2. CASE s \notin Servo
  BY <1>2, SlotFacts DEF PulseTics
<1> QED
  BY <1>1, <1>2

-----------------------------------------------------------------------------
(* Type correctness.                                                       *)

LEMMA TypeInit == Init => TypeOK
<1> SUFFICES ASSUME Init PROVE TypeOK
  OBVIOUS
<1>1. location \in [Servo -> Location]
  BY SlotFacts DEF Init
<1>2. \A s \in Slot : PulseTics(s) \in 1 .. SlotTics
  BY <1>1, PulseType
<1>3. onTics \in [Bank -> [Slot -> 1 .. SlotTics]]
  BY <1>2 DEF Init
<1>4. \A s \in Slot : SlotTics - PulseTics(s) \in 0 .. SlotTics - 1
  BY <1>2, SlotFacts
<1>5. offTics \in [Bank -> [Slot -> 0 .. SlotTics - 1]]
  BY <1>4 DEF Init
<1>6. onMask \in [Slot -> BOOLEAN]
  BY DEF Init
<1>7. /\ wrap \in [Bank -> Bank] /\ lastCBStart \in Bank
      /\ sleeping \in 0 .. EndSleep /\ signals \in 0 .. MaxSignals
      /\ high \in SUBSET Slot /\ age \in Nat /\ timeSlice \in Slot
  BY SlotFacts, ConstantsAssumption, SMT DEF Init, Bank, ConstantsAssumption
<1>8. dma \in [bank : Bank, slot : Slot,
               block : {"on", "delayOn", "off", "delayOff"},
               left : 0 .. SlotTics, next : Bank]
  BY SlotFacts, SMT DEF Init, Bank
<1> QED
  BY <1>1, <1>3, <1>5, <1>6, <1>7, <1>8
  DEF Init, TypeOK, MemoryTypes, ControlTypes, EngineTypes

LEMMA TypeStep == TypeOK /\ [Next]_vars => TypeOK'
<1> SUFFICES ASSUME MemoryTypes, ControlTypes, EngineTypes, [Next]_vars
             PROVE  MemoryTypes' /\ ControlTypes' /\ EngineTypes'
  BY DEF TypeOK
<1>a. ASSUME UNCHANGED memoryVars PROVE MemoryTypes'
  BY <1>a, SMT DEF memoryVars, MemoryTypes
<1>b. ASSUME UNCHANGED engineVars
      PROVE  EngineTypes' /\ (active' \in BOOLEAN)
  BY <1>b, SMT DEF engineVars, EngineTypes, ControlTypes
<1>c. ASSUME UNCHANGED programVars, UNCHANGED <<sleeping, active>>
      PROVE  MemoryTypes' /\ ControlTypes'
  BY <1>c, SMT DEF programVars, MemoryTypes, ControlTypes
<1>d. Inactive \in Bank /\ lastCBStart \in Bank /\ timeSlice \in Slot
  BY SMT DEF MemoryTypes, ControlTypes, Bank, Inactive, Other
<1>1. CASE DmaStart
  <2>1. MemoryTypes'
    BY <1>1, SMT DEF DmaStart, MemoryTypes, Bank
  <2>2. ControlTypes'
    BY <1>1 DEF DmaStart, ControlTypes
  <2>3. EngineTypes'
    BY <1>1, SMT DEF DmaStart, EngineTypes
  <2> QED
    BY <2>1, <2>2, <2>3
<1>2. CASE ReadBatch
  <2>1. ControlTypes'
    BY <1>2 DEF ReadBatch, ControlTypes, engineVars
  <2> QED
    BY <1>2, <1>a, <1>b, <2>1 DEF ReadBatch
<1>3. CASE StopLine
  <2>1. ControlTypes'
    BY <1>3 DEF StopLine, ControlTypes, engineVars
  <2> QED
    BY <1>3, <1>a, <1>b, <2>1 DEF StopLine
<1>4. ASSUME NEW s \in Servo, NEW l \in Location, SetNewLocation(s, l)
      PROVE  MemoryTypes' /\ ControlTypes' /\ EngineTypes'
  <2>1. MemoryTypes'
    BY <1>4, SMT DEF SetNewLocation, MemoryTypes
  <2>2. ControlTypes'
    BY <1>4, SlotFacts DEF SetNewLocation, ControlTypes, engineVars
  <2> QED
    BY <1>4, <1>b, <2>1, <2>2 DEF SetNewLocation
<1>5. CASE WriteOn
  <2>1. PulseTics(timeSlice) \in 1 .. SlotTics
    BY <1>d, PulseType DEF MemoryTypes
  <2>2. onTics' \in [Bank -> [Slot -> 1 .. SlotTics]]
    BY <1>5, <1>d, <2>1 DEF WriteOn, MemoryTypes
  <2>3. MemoryTypes'
    BY <1>5, <2>2, SMT DEF WriteOn, MemoryTypes
  <2>4. ControlTypes'
    BY <1>5 DEF WriteOn, ControlTypes, engineVars
  <2> QED
    BY <1>5, <1>b, <2>3, <2>4 DEF WriteOn
<1>6. CASE WriteOff
  <2>1. onTics[Inactive][timeSlice] \in 1 .. SlotTics
    BY <1>d DEF MemoryTypes
  <2>2. SlotTics - onTics[Inactive][timeSlice] \in 0 .. SlotTics - 1
    BY <2>1, SlotFacts
  <2>3. offTics' \in [Bank -> [Slot -> 0 .. SlotTics - 1]]
    BY <1>6, <1>d, <2>2 DEF WriteOff, MemoryTypes
  <2>4. MemoryTypes'
    BY <1>6, <2>3, SMT DEF WriteOff, MemoryTypes
  <2>5. timeSlice' \in Slot
    BY <1>6, <1>d, ToLastFacts DEF WriteOff
  <2>6. ControlTypes'
    BY <1>6, <2>5 DEF WriteOff, ControlTypes, engineVars
  <2> QED
    BY <1>6, <1>b, <2>4, <2>6 DEF WriteOff
<1>7. CASE WriteWrap
  <2>1. MemoryTypes'
    BY <1>7, <1>d, SMT DEF WriteWrap, MemoryTypes
  <2>2. ControlTypes'
    BY <1>7 DEF WriteWrap, ControlTypes, engineVars
  <2> QED
    BY <1>7, <1>b, <2>1, <2>2 DEF WriteWrap
<1>8. CASE EndBatch
  <2>1. ControlTypes'
    BY <1>8 DEF EndBatch, ControlTypes, engineVars
  <2> QED
    BY <1>8, <1>a, <1>b, <2>1 DEF EndBatch
<1>9. CASE SwapDMACBs
  <2>1. Other(lastCBStart) \in Bank
    BY <1>d DEF Inactive
  <2>2. MemoryTypes'
    BY <1>9, <1>d, <2>1, SMT DEF SwapDMACBs, MemoryTypes
  <2>3. PERIOD \in 0 .. EndSleep
    BY SlotFacts, SMT
  <2>4. ControlTypes'
    BY <1>9, <2>3 DEF SwapDMACBs, ControlTypes, engineVars
  <2> QED
    BY <1>9, <1>b, <2>2, <2>4 DEF SwapDMACBs
<1>10. CASE SwapDone
  <2>1. ControlTypes'
    BY <1>10 DEF SwapDone, ControlTypes, engineVars
  <2> QED
    BY <1>10, <1>a, <1>b, <2>1 DEF SwapDone
<1>11. CASE LeaveLoop
  <2>1. ControlTypes'
    BY <1>11, SlotFacts DEF LeaveLoop, ControlTypes, engineVars
  <2> QED
    BY <1>11, <1>a, <1>b, <2>1 DEF LeaveLoop
<1>12. CASE NoPulse
  <2>1. timeSlice' \in Slot
    BY <1>12, <1>d, ToLastFacts DEF NoPulse
  <2>2. sleeping' \in 0 .. EndSleep
    BY <1>12, SlotFacts DEF NoPulse, ControlTypes
  <2>3. pc' \in {"noPulse", "drain"}
    BY <1>12 DEF NoPulse
  <2>4. ControlTypes'
    BY <1>12, <2>1, <2>2, <2>3 DEF NoPulse, ControlTypes, engineVars
  <2>5. onMask' \in [Slot -> BOOLEAN]
    BY <1>12 DEF NoPulse, MemoryTypes
  <2>6. UNCHANGED <<location, onTics, offTics, wrap, lastCBStart>>
    BY <1>12 DEF NoPulse
  <2>7. MemoryTypes'
    BY <2>5, <2>6 DEF MemoryTypes
  <2> QED
    BY <1>12, <1>b, <2>4, <2>7 DEF NoPulse
<1>13. CASE Drained
  <2>1. ControlTypes'
    BY <1>13 DEF Drained, ControlTypes, engineVars
  <2> QED
    BY <1>13, <1>a, <1>b, <2>1 DEF Drained
<1>14. CASE DmaEnd
  <2>1. ControlTypes' /\ EngineTypes'
    BY <1>14 DEF DmaEnd, ControlTypes, EngineTypes
  <2> QED
    BY <1>14, <1>a, <2>1 DEF DmaEnd
<1>15. CASE Interrupt
  <2>1. signals' \in 0 .. MaxSignals
    BY <1>15, ConstantsAssumption
    DEF Interrupt, ControlTypes, ConstantsAssumption
  <2>2. pc' \in {pc, "select", "end"}
    BY <1>15 DEF Interrupt
  <2>3. sleeping' \in 0 .. EndSleep
    BY <1>15 DEF Interrupt, ControlTypes
  <2>4. ControlTypes'
    BY <1>15, <2>1, <2>2, <2>3 DEF Interrupt, ControlTypes, engineVars
  <2> QED
    BY <1>15, <1>a, <1>b, <2>4 DEF Interrupt
<1>e. /\ dma.bank \in Bank /\ dma.slot \in Slot /\ dma.left \in 0 .. SlotTics
      /\ dma.next \in Bank /\ wrap[dma.bank] \in Bank
      /\ onTics[dma.bank][dma.slot] \in 0 .. SlotTics
      /\ offTics[dma.bank][dma.slot] \in 0 .. SlotTics
  <2>1. dma.bank \in Bank /\ dma.slot \in Slot
    BY DEF EngineTypes
  <2>2. /\ onTics[dma.bank][dma.slot] \in 1 .. SlotTics
        /\ offTics[dma.bank][dma.slot] \in 0 .. SlotTics - 1
    BY <2>1 DEF MemoryTypes
  <2>3. 1 .. SlotTics \subseteq 0 .. SlotTics
    BY SlotFacts
  <2>4. 0 .. SlotTics - 1 \subseteq 0 .. SlotTics
    BY SlotFacts
  <2> QED
    BY <2>1, <2>2, <2>3, <2>4 DEF EngineTypes, MemoryTypes
<1>16. CASE LoadOn
  <2>1. (IF dma.slot = LastSlot THEN 0 ELSE dma.slot + 1) \in Slot
    BY <1>e, ToLastFacts, SlotFacts
  <2>2. dma' \in [bank : Bank, slot : Slot,
                  block : {"on", "delayOn", "off", "delayOff"},
                  left : 0 .. SlotTics, next : Bank]
    BY <1>16, <1>e, <2>1, SlotFacts DEF LoadOn
  <2>3. high' \in SUBSET Slot
    BY <1>16, <2>1 DEF LoadOn, EngineTypes
  <2>4. EngineTypes'
    BY <1>16, <2>2, <2>3 DEF LoadOn, EngineTypes
  <2> QED
    BY <1>16, <1>c, <2>4 DEF LoadOn
<1>17. CASE LoadDelayOn
  <2>1. EngineTypes'
    BY <1>17, <1>e DEF LoadDelayOn, EngineTypes
  <2> QED
    BY <1>17, <1>c, <2>1 DEF LoadDelayOn
<1>18. CASE LoadOff
  <2>1. EngineTypes'
    BY <1>18, SMT DEF LoadOff, OffMask, EngineTypes
  <2> QED
    BY <1>18, <1>c, <2>1 DEF LoadOff
<1>19. CASE LoadDelayOff
  <2>1. (IF dma.slot = LastSlot THEN wrap[dma.bank] ELSE dma.bank) \in Bank
    BY <1>e
  <2>2. EngineTypes'
    BY <1>19, <1>e, <2>1 DEF LoadDelayOff, EngineTypes
  <2> QED
    BY <1>19, <1>c, <2>2 DEF LoadDelayOff
<1>20. CASE Tic
  <2>1. dma.left - 1 \in 0 .. SlotTics /\ age + 1 \in Nat
    BY <1>20, <1>e, SlotFacts, SMT DEF Tic, EngineTypes
  <2>2. EngineTypes'
    BY <1>20, <2>1 DEF Tic, EngineTypes
  <2>3. sleeping' \in 0 .. EndSleep
    BY <1>20, SlotFacts DEF Tic, ControlTypes
  <2>4. MemoryTypes' /\ ControlTypes'
    BY <1>20, <2>3, SMT DEF Tic, programVars, MemoryTypes, ControlTypes
  <2> QED
    BY <2>2, <2>4
<1>21. CASE UNCHANGED vars
  BY <1>21, <1>b, <1>c, SMT DEF vars, engineVars
<1> QED
  BY <1>1, <1>2, <1>3, <1>4, <1>5, <1>6, <1>7, <1>8, <1>9, <1>10, <1>11,
     <1>12, <1>13, <1>14, <1>15, <1>16, <1>17, <1>18, <1>19, <1>20, <1>21
  DEF Next, Writing, Leaving, Engine, Terminated

(* Every transfer length is positive and fits its slot, every block the    *)
(* engine is in exists: the type invariant of the channel.                 *)
THEOREM TypeCorrect == Spec => []TypeOK
BY TypeInit, TypeStep, PTL DEF Spec

-----------------------------------------------------------------------------
(* The pins.  A pin is high only from the "on" block to the "off" block of *)
(* its own slot, only a servo's slot has a mask, and a GPIO block takes no *)
(* time.                                                                   *)

PinInv ==
  /\ \A s \in Slot : onMask[s] => s \in Servo
  /\ dma.block \in {"on", "delayOn"} => high \subseteq ({dma.slot} \cap Servo)
  /\ dma.block \in {"off", "delayOff"} => high = {}
  /\ dma.block \in {"on", "off"} => dma.left = 0

(* The steps that touch neither a pin nor the engine's block nor a mask. *)
LEMMA QuietSteps ==
  ASSUME \/ DmaStart \/ ReadBatch \/ StopLine
         \/ \E s \in Servo, l \in Location : SetNewLocation(s, l)
         \/ Writing \/ EndBatch \/ SwapDMACBs \/ SwapDone
         \/ LeaveLoop \/ Drained \/ DmaEnd \/ Interrupt \/ UNCHANGED vars
  PROVE  UNCHANGED <<onMask, high, dma, age>>
BY DEF DmaStart, ReadBatch, StopLine, SetNewLocation, Writing, WriteOn,
       WriteOff, WriteWrap, EndBatch, SwapDMACBs, SwapDone, LeaveLoop, Drained,
       DmaEnd, Interrupt, vars, programVars, engineVars, memoryVars

LEMMA PinInit == Init => PinInv
<1> SUFFICES ASSUME Init PROVE PinInv
  OBVIOUS
<1>1. \A s \in Slot : onMask[s] => s \in Servo
  BY DEF Init
<1>2. high = {} /\ dma.left = 0
  BY DEF Init
<1> QED
  BY <1>1, <1>2 DEF PinInv

LEMMA PinStep == TypeOK /\ PinInv /\ [Next]_vars => PinInv'
<1> SUFFICES ASSUME TypeOK, PinInv, [Next]_vars PROVE PinInv'
  OBVIOUS
<1>1. CASE UNCHANGED <<onMask, high, dma, age>>
  BY <1>1 DEF PinInv
<1>2. CASE NoPulse
  <2>1. UNCHANGED <<high, dma>>
    BY <1>2 DEF NoPulse, engineVars
  <2>2. \A s \in Slot : onMask'[s] => onMask[s]
    BY <1>2 DEF NoPulse, TypeOK, MemoryTypes
  <2> QED
    BY <2>1, <2>2 DEF PinInv
<1>3. CASE LoadOn
  <2> DEFINE s == IF dma.slot = LastSlot THEN 0 ELSE dma.slot + 1
  <2>1. s \in Slot
    BY ToLastFacts, SlotFacts DEF TypeOK, EngineTypes
  <2>2. high = {}
    BY <1>3 DEF LoadOn, BlockOver, PinInv
  <2>3. high' = IF onMask[s] THEN {s} ELSE {}
    BY <1>3, <2>2 DEF LoadOn
  <2>4. dma'.slot = s /\ dma'.block = "on" /\ dma'.left = 0
    BY <1>3 DEF LoadOn
  <2>5. onMask' = onMask
    BY <1>3 DEF LoadOn, programVars
  <2>6. high' \subseteq ({s} \cap Servo)
    BY <2>1, <2>3 DEF PinInv
  <2> HIDE DEF s
  <2> QED
    BY <2>4, <2>5, <2>6 DEF PinInv
<1>4. CASE LoadDelayOn
  BY <1>4 DEF LoadDelayOn, BlockOver, PinInv, TypeOK, EngineTypes, programVars
<1>5. CASE LoadOff
  <2>1. high' = {}
    BY <1>5 DEF LoadOff, OffMask, BlockOver, PinInv
  <2>2. dma'.block = "off" /\ dma'.left = 0 /\ onMask' = onMask
    BY <1>5 DEF LoadOff, OffMask, BlockOver, TypeOK, EngineTypes, programVars
  <2> QED
    BY <2>1, <2>2 DEF PinInv
<1>6. CASE LoadDelayOff
  BY <1>6 DEF LoadDelayOff, BlockOver, PinInv, TypeOK, EngineTypes, programVars
<1>7. CASE Tic
  BY <1>7 DEF Tic, PinInv, TypeOK, EngineTypes, programVars
<1> QED
  BY <1>1, <1>2, <1>3, <1>4, <1>5, <1>6, <1>7, QuietSteps
  DEF Next, Leaving, Engine, Terminated

(* At most one pin is high, in its own slot and with a servo on it, however *)
(* the program's writes and the engine's loads interleave.                 *)
THEOREM PinsOneAtATime == Spec => []OnePinAtATime
<1>1. TypeOK /\ PinInv => OnePinAtATime
  BY DEF TypeOK, EngineTypes, PinInv, OnePinAtATime
<1> QED
  BY <1>1, TypeInit, TypeStep, PinInit, PinStep, PTL DEF Spec

-----------------------------------------------------------------------------
(* Shutting down.  noPulse clears the masks slot by slot.                  *)

MaskInv ==
  /\ pc = "noPulse" => \A s \in Servo : s < timeSlice => ~onMask[s]
  /\ pc \in {"drain", "end", "done"} => \A s \in Slot : ~onMask[s]

LEMMA MaskInit == Init => MaskInv
BY DEF Init, MaskInv

LEMMA MaskStep == TypeOK /\ PinInv /\ MaskInv /\ [Next]_vars => MaskInv'
<1> SUFFICES ASSUME TypeOK, PinInv, MaskInv, [Next]_vars PROVE MaskInv'
  OBVIOUS
<1>1. CASE /\ UNCHANGED <<onMask, timeSlice>>
           /\ pc' = pc \/ pc' \notin {"noPulse", "drain", "end", "done"}
  BY <1>1 DEF MaskInv
<1>2. ASSUME \/ \E s \in Servo, l \in Location : SetNewLocation(s, l)
             \/ WriteOff
      PROVE  MaskInv'
  BY <1>2 DEF SetNewLocation, WriteOff, MaskInv
<1>3. CASE LeaveLoop
  BY <1>3, SlotFacts, SMT DEF LeaveLoop, MaskInv, Servo
<1>4. CASE NoPulse
  <2>1. timeSlice \in Slot /\ timeSlice \in Nat
    BY SlotFacts DEF TypeOK, ControlTypes
  <2>2. onMask' = [onMask EXCEPT ![timeSlice] = IF timeSlice \in Servo
                                                THEN FALSE ELSE @]
    BY <1>4 DEF NoPulse
  <2>3. \A s \in Slot :
          onMask'[s] => onMask[s] /\ (s \in Servo => s # timeSlice)
    BY <2>1, <2>2 DEF TypeOK, MemoryTypes
  <2>4. \A s \in Slot : s <= timeSlice => ~onMask'[s]
    <3> SUFFICES ASSUME NEW s \in Slot, s <= timeSlice, onMask'[s] PROVE FALSE
      OBVIOUS
    <3>1. s \in Servo /\ s # timeSlice /\ onMask[s]
      BY <2>3 DEF PinInv
    <3>2. s < timeSlice
      BY <3>1, <2>1, SlotFacts, SMT
    <3> QED
      BY <1>4, <3>1, <3>2 DEF NoPulse, MaskInv
  <2>5. CASE timeSlice = LastSlot
    <3>1. \A s \in Slot : s <= timeSlice
      BY <2>5, ConstantsAssumption, SMT
      DEF Slot, LastSlot, ConstantsAssumption
    <3> QED
      BY <1>4, <2>5, <2>4, <3>1 DEF NoPulse, MaskInv
  <2>6. CASE timeSlice # LastSlot
    <3>1. \A s \in Servo : s < timeSlice + 1 => s \in Slot /\ s <= timeSlice
      BY <2>1, SlotFacts, SMT
    <3>2. pc' = "noPulse" /\ timeSlice' = timeSlice + 1
      BY <1>4, <2>6 DEF NoPulse
    <3> QED
      BY <2>4, <3>1, <3>2 DEF MaskInv
  <2> QED
    BY <2>5, <2>6
<1>5. ASSUME Drained \/ DmaEnd \/ Interrupt PROVE MaskInv'
  <2>1. UNCHANGED <<onMask, timeSlice>>
    BY <1>5 DEF Drained, DmaEnd, Interrupt, memoryVars
  <2>2. \/ pc' = pc
        \/ pc' = "select"
        \/ pc \in {"drain", "end"} /\ pc' \in {"end", "done"}
    BY <1>5 DEF Drained, DmaEnd, Interrupt
  <2> QED
    BY <2>1, <2>2 DEF MaskInv
<1> QED
  BY <1>1, <1>2, <1>3, <1>4, <1>5
  DEF Next, Writing, Leaving, Engine, Terminated, DmaStart, ReadBatch, StopLine,
      WriteOn, WriteWrap, EndBatch, SwapDMACBs, SwapDone, LoadOn, LoadDelayOn,
      LoadOff, LoadDelayOff, Tic, vars, programVars, memoryVars

(* Only a mask that is on raises a pin. *)
LEMMA OnlyMasksRaise ==
  ASSUME TypeOK, [Next]_vars, \A s \in Slot : ~onMask[s]
  PROVE  high' \subseteq high
<1>1. CASE UNCHANGED high
  BY <1>1
<1>2. CASE LoadOn
  <2>1. (IF dma.slot = LastSlot THEN 0 ELSE dma.slot + 1) \in Slot
    BY ToLastFacts, SlotFacts DEF TypeOK, EngineTypes
  <2> QED
    BY <1>2, <2>1 DEF LoadOn
<1>3. CASE LoadOff
  BY <1>3 DEF LoadOff, OffMask
<1> QED
  BY <1>1, <1>2, <1>3, QuietSteps
  DEF Next, Leaving, Engine, Terminated, NoPulse, LoadDelayOn, LoadDelayOff,
      Tic, engineVars

(* After noPulse no pin is raised by any step of the engine.               *)
THEOREM NoPulseIsFinal == Spec => NeverOnAgain
<1>1. TypeOK /\ MaskInv /\ [Next]_vars
        => [(pc \in {"drain", "end"}) => (high' \subseteq high)]_vars
  BY OnlyMasksRaise DEF MaskInv
<1> QED
  BY <1>1, TypeInit, TypeStep, PinInit, PinStep, MaskInit, MaskStep, PTL
  DEF Spec, NeverOnAgain

-----------------------------------------------------------------------------
(* The final sleep.  A pulse that was already on when the last mask was    *)
(* cleared ends before the sleep does, unless a signal cuts it short.      *)

Late == {"drain", "end", "done"}

DrainInv ==
  pc \in Late /\ high # {} =>
    /\ dma.left < sleeping
    /\ dma.block = "on" => onTics[dma.bank][dma.slot] < sleeping

LEMMA DrainInit == Init => DrainInv
BY DEF Init, DrainInv, Late

LEMMA SlotFitsEndSleep == SlotTics < EndSleep
BY SlotFacts, ToLastFacts, SMT

LEMMA DrainStep ==
  ASSUME TypeOK, PinInv, MaskInv, DrainInv, [Next]_vars
  PROVE  DrainInv'
<1>2. /\ dma.left \in 0 .. SlotTics /\ dma.bank \in Bank /\ dma.slot \in Slot
      /\ onTics[dma.bank][dma.slot] \in 1 .. SlotTics
      /\ sleeping \in 0 .. EndSleep /\ SlotTics \in Nat /\ EndSleep \in Nat
  <2>1. dma.left \in 0 .. SlotTics /\ dma.bank \in Bank /\ dma.slot \in Slot
    BY DEF TypeOK, EngineTypes
  <2>2. onTics[dma.bank][dma.slot] \in 1 .. SlotTics
    BY <2>1 DEF TypeOK, MemoryTypes
  <2>3. sleeping \in 0 .. EndSleep
    BY DEF TypeOK, ControlTypes
  <2> QED
    BY <2>1, <2>2, <2>3, SlotFacts
<1>3. ASSUME pc \in Late, pc' \in Late, high' # {}
      PROVE  /\ dma'.left < sleeping'
             /\ dma'.block = "on" => onTics'[dma'.bank][dma'.slot] < sleeping'
  <2>1. \A s \in Slot : ~onMask[s]
    BY <1>3 DEF MaskInv, Late
  <2>2. high # {}
    BY <1>3, <2>1, OnlyMasksRaise
  <2>3. /\ dma.left < sleeping
        /\ dma.block = "on" => onTics[dma.bank][dma.slot] < sleeping
    BY <1>3, <2>2 DEF DrainInv
  <2>4. dma.block \in {"on", "delayOn"}
    BY <2>2 DEF PinInv, TypeOK, EngineTypes
  <2>5. CASE LoadDelayOn
    <3>1. /\ dma'.left = onTics[dma.bank][dma.slot]
          /\ dma'.block = "delayOn" /\ dma.block = "on" /\ sleeping' = sleeping
      BY <2>5 DEF LoadDelayOn, BlockOver, TypeOK, EngineTypes
    <3> QED
      BY <2>3, <3>1
  <2>6. CASE LoadOff
    <3>1. high' = {}
      BY <2>6 DEF LoadOff, OffMask, BlockOver, PinInv
    <3> QED
      BY <3>1, <1>3
  <2>7. CASE Tic
    <3>1. /\ dma'.left = dma.left - 1 /\ dma.left > 0
          /\ dma'.block = dma.block
          /\ sleeping' = IF sleeping > 0 THEN sleeping - 1 ELSE 0
      BY <2>7 DEF Tic, TypeOK, EngineTypes
    <3>2. dma.left - 1 < sleeping'
      BY <3>1, <2>3, <1>2, SMT
    <3>3. dma'.block # "on"
      BY <3>1, <1>2, SMT DEF PinInv
    <3> QED
      BY <3>1, <3>2, <3>3
  <2>8. CASE UNCHANGED <<dma, sleeping, onTics>>
    BY <2>3, <2>8
  <2> QED
    BY <2>4, <2>5, <2>6, <2>7, <2>8, <1>3
    DEF Next, Writing, Leaving, Engine, Terminated, DmaStart, ReadBatch,
        StopLine, SetNewLocation, WriteOn, WriteOff, WriteWrap, EndBatch,
        SwapDMACBs, SwapDone, LeaveLoop, NoPulse, Drained, DmaEnd, Interrupt,
        LoadOn, LoadDelayOff, BlockOver, Late, vars, programVars, engineVars,
        memoryVars
<1>4. ASSUME pc \notin Late, pc' \in Late
      PROVE  /\ dma'.left < sleeping'
             /\ dma'.block = "on" => onTics'[dma'.bank][dma'.slot] < sleeping'
  <2>1. CASE NoPulse
    <3>1. sleeping' = EndSleep /\ UNCHANGED <<dma, onTics>>
      BY <1>4, <2>1 DEF NoPulse, engineVars
    <3> QED
      BY <3>1, <1>2, SlotFitsEndSleep, SMT
  <2>2. CASE UNCHANGED pc
    BY <2>2, <1>4
  <2> QED
    BY <2>1, <2>2, <1>4
    DEF Next, Writing, Leaving, Engine, Terminated, DmaStart, ReadBatch,
        StopLine, SetNewLocation, WriteOn, WriteOff, WriteWrap, EndBatch,
        SwapDMACBs, SwapDone, LeaveLoop, Drained, DmaEnd, Interrupt, LoadOn,
        LoadDelayOn, LoadOff, LoadDelayOff, Tic, Late, vars, programVars
<1> QED
  BY <1>3, <1>4 DEF DrainInv

(* However the daemon was told to stop, and whatever bank the engine was   *)
(* in, every pin is low when the time of the final sleep has passed.       *)
THEOREM EndsWithPinsLow == Spec => []PinsLowAtEnd
<1>1. TypeOK /\ PinInv /\ MaskInv /\ DrainInv /\ [Next]_vars
        => DrainInv'
  BY DrainStep
<1>2. TypeOK /\ DrainInv => PinsLowAtEnd
  <2> SUFFICES ASSUME TypeOK, DrainInv, pc = "done", sleeping = 0, high # {}
               PROVE  FALSE
    BY DEF PinsLowAtEnd
  <2>1. dma.left < 0
    BY DEF DrainInv, Late
  <2>2. dma.left \in 0 .. SlotTics
    BY DEF TypeOK, EngineTypes
  <2> QED
    BY <2>1, <2>2, SlotFacts
<1> QED
  BY <1>1, <1>2, TypeInit, TypeStep, PinInit, PinStep, MaskInit, MaskStep,
     DrainInit, PTL DEF Spec
=============================================================================
