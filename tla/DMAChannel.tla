----------------------------- MODULE DMAChannel -----------------------------
(***************************************************************************)
(* One DMA channel of the daemon: the two banks of control blocks of class *)
(* DMAChannel, the program that rewrites and swaps them, and the DMA       *)
(* engine that executes them all the while (src/src/DMAChannel.cc, called  *)
(* from respondToRequest in src/src/servod.cc).                            *)
(*                                                                         *)
(* A bank has four control blocks per time slot: set the pin, wait for the *)
(* pulse, clear the pin, wait for the rest of the slot.  Of the fields of  *)
(* a block only the transfer lengths of the two waits and the nextCB of    *)
(* the last block ever change value, so these are the memory modelled;     *)
(* rewriting a field with the value it has is not a step.  A transfer      *)
(* length is counted in tics: the DREQ-paced PWM FIFO takes four bytes per *)
(* tic (a microsecond).  The channel is the only one of its daemon, so     *)
(* totalNumberOfDMAChannels is 1 and the divisions by it are left out.     *)
(*                                                                         *)
(* The engine copies a control block, nextCB included, when it starts it.  *)
(* Time passes only while the engine waits in a delay block: GPIO blocks   *)
(* and the loading of a block take none.                                   *)
(***************************************************************************)
EXTENDS Integers

CONSTANTS
  NumSlots,      \* MAXIMUM_NUMBER_OF_SERVOS_PER_CHANNEL, 10 in the code
  PERIOD,        \* Servo::PERIOD, 20000 tics in the code
  MinOn, MaxOn,  \* MINIMUM_SERVO_ON and MAXIMUM_SERVO_ON, 1000 and 2000
  NumServos,     \* servos the definition file gives this channel
  EndSleep,      \* the final sleep(2) of respondToRequest, in tics
  MaxSignals,    \* bound: SIGINTs delivered in a behaviour
  BlindSwaps     \* do clients write so that one select event has a batch
                 \* that moves no servo after one that did?

Slot == 0 .. NumSlots - 1
Servo == 0 .. NumServos - 1          \* the constructor fills slots from 0
Bank == {0, 1}
SlotTics == PERIOD \div NumSlots     \* TICS_PER_TIME_SLOT
OffMaskLate == Servo \ {0}           \* mutation: the first mask is not stored
OffMask == Servo                     \* slots whose dmaGPIOPinOff has a bit
EmptyTics == 1                       \* txLen of 4 bytes in a vacant slot
LocationOver == MinOn .. MaxOn + 1   \* mutation: the range test is off by one
Location == MinOn .. MaxOn

ASSUME ConstantsAssumption ==
  /\ NumSlots \in Nat \ {0}
  /\ PERIOD \in Nat
  /\ MinOn \in Nat \ {0} /\ MaxOn \in Nat
  /\ MinOn <= MaxOn /\ MaxOn <= SlotTics
  /\ NumServos \in 1 .. NumSlots
  /\ EndSleep \in Nat /\ EndSleep > PERIOD
  /\ MaxSignals \in Nat
  /\ BlindSwaps \in BOOLEAN

VARIABLES
  location,      \* Servo::location of each servo
  onTics,        \* onTics[b][s]: txLen of the first delay of slot s, bank b
  offTics,       \* offTics[b][s]: txLen of the second delay
  wrap,          \* wrap[b]: bank whose first block the last block of b names
  onMask,        \* dmaGPIOPinOn[s] is not zero: the set block raises the pin
  lastCBStart,   \* bank the program believes to be active
  pc,            \* where the program is
  timeSlice,     \* loop variable of setNewLocation and noPulse
  lines,         \* linesPerEvent > 0 in respondToRequest
  stayInLoop,    \* global of servod.cc
  sleeping,      \* tics left of the last usleep or sleep, also when a signal
                 \* has ended it
  signals,       \* SIGINTs delivered
  active,        \* DMA_ACTIVE
  dma,           \* the engine: its block and the registers copied from it
  high,          \* slots whose pin is high
  age            \* tics since the engine began the slot it is in

programVars == <<location, onTics, offTics, wrap, onMask, lastCBStart, pc,
                 timeSlice, lines, stayInLoop, signals>>
engineVars == <<active, dma, high, age>>
memoryVars == <<location, onTics, offTics, wrap, onMask, lastCBStart>>
vars == <<programVars, sleeping, engineVars>>

Other(b) == 1 - b
Inactive == Other(lastCBStart)
LastSlot == NumSlots - 1

(* The pulse a slot is given: its servo's location or the default delay.   *)
PulseTics(s) == IF s \in Servo THEN location[s] ELSE EmptyTics

(***************************************************************************)
(* After the constructor: every servo in the middle of its range, both     *)
(* banks filled by dmaInitCBs and linked to themselves.  The engine is     *)
(* idle; its registers are shown as if it had just ended the last block of *)
(* bank 0, so that the first block it loads is block 0.                    *)
(***************************************************************************)
Init ==
  /\ location = [s \in Servo |-> (MinOn + MaxOn) \div 2]
  /\ onTics = [b \in Bank |-> [s \in Slot |-> PulseTics(s)]]
  /\ offTics = [b \in Bank |-> [s \in Slot |-> SlotTics - PulseTics(s)]]
  /\ wrap = [b \in Bank |-> b]
  /\ onMask = [s \in Slot |-> s \in Servo]
  /\ lastCBStart = 0
  /\ pc = "start"
  /\ timeSlice = 0
  /\ lines = FALSE
  /\ stayInLoop = TRUE
  /\ sleeping = 0
  /\ signals = 0
  /\ active = FALSE
  /\ dma = [bank |-> 0, slot |-> LastSlot, block |-> "delayOff",
            left |-> 0, next |-> 0]
  /\ high = {}
  /\ age = SlotTics

-----------------------------------------------------------------------------
(* The program.                                                            *)

DmaStart ==
  /\ pc = "start"
  /\ pc' = "select"
  /\ active' = TRUE
  /\ lastCBStart' = 0
  /\ UNCHANGED <<location, onTics, offTics, wrap, onMask, timeSlice, lines,
                 stayInLoop, sleeping, signals, dma, high, age>>

(* A read of the FIFO returned a batch of lines: the first of a select     *)
(* event, which sets linesPerEvent to 0, or a further one of the same.     *)
(* What a further one that moves a servo leads to does not depend on       *)
(* linesPerEvent; one that moves none only comes with BlindSwaps.          *)
ReadBatch ==
  /\ pc = "select"
  /\ stayInLoop
  /\ lines' \in {FALSE} \union (IF BlindSwaps THEN {lines} ELSE {})
  /\ pc' = "parse"
  /\ UNCHANGED <<memoryVars, timeSlice, stayInLoop, sleeping, signals,
                 engineVars>>

(* The line "id, 0": the rest of the batch is still obeyed. *)
StopLine ==
  /\ pc = "parse"
  /\ stayInLoop' = FALSE
  /\ UNCHANGED <<memoryVars, pc, timeSlice, lines, sleeping, signals,
                 engineVars>>

(* Mutation of SetNewLocation: the rewriting starts at the second slot. *)
SetNewLocationLate(s, l) ==
  /\ pc = "parse"
  /\ location' = [location EXCEPT ![s] = l]
  /\ timeSlice' = 1
  /\ pc' = "writeOn"
  /\ UNCHANGED <<onTics, offTics, wrap, onMask, lastCBStart, lines,
                 stayInLoop, sleeping, signals, engineVars>>

(* The line "s, l": Servo::setNewLocation, then DMAChannel::setNewLocation *)
(* chooses the bank that is not lastCBStart and starts on its first block. *)
SetNewLocation(s, l) ==
  /\ pc = "parse"
  /\ location' = [location EXCEPT ![s] = l]
  /\ timeSlice' = 0
  /\ pc' = "writeOn"
  /\ UNCHANGED <<onTics, offTics, wrap, onMask, lastCBStart, lines,
                 stayInLoop, sleeping, signals, engineVars>>

WriteOn ==
  /\ pc = "writeOn"
  /\ onTics' = [onTics EXCEPT ![Inactive][timeSlice] = PulseTics(timeSlice)]
  /\ pc' = "writeOff"
  /\ UNCHANGED <<location, offTics, wrap, onMask, lastCBStart, timeSlice,
                 lines, stayInLoop, sleeping, signals, engineVars>>

(* Mutation of WriteOff: the second delay keeps its old length. *)
WriteOffStale ==
  /\ pc = "writeOff"
  /\ IF timeSlice = LastSlot
     THEN pc' = "writeWrap" /\ UNCHANGED timeSlice
     ELSE pc' = "writeOn" /\ timeSlice' = timeSlice + 1
  /\ UNCHANGED <<memoryVars, lines, stayInLoop, sleeping, signals,
                 engineVars>>

(* countsToBalance makes up the slot; the last block is linked separately. *)
WriteOff ==
  /\ pc = "writeOff"
  /\ offTics' = [offTics EXCEPT ![Inactive][timeSlice] =
                                  SlotTics - onTics[Inactive][timeSlice]]
  /\ IF timeSlice = LastSlot
     THEN pc' = "writeWrap" /\ UNCHANGED timeSlice
     ELSE pc' = "writeOn" /\ timeSlice' = timeSlice + 1
  /\ UNCHANGED <<location, onTics, wrap, onMask, lastCBStart, lines,
                 stayInLoop, sleeping, signals, engineVars>>

(* Mutation of WriteWrap: the last block keeps the nextCB a swap gave it. *)
WriteWrapStale ==
  /\ pc = "writeWrap"
  /\ lines' = TRUE
  /\ pc' = "parse"
  /\ UNCHANGED <<memoryVars, timeSlice, stayInLoop, sleeping, signals,
                 engineVars>>

(* setNewLocation is done and linesPerEvent is incremented. *)
WriteWrap ==
  /\ pc = "writeWrap"
  /\ wrap' = [wrap EXCEPT ![Inactive] = Inactive]
  /\ lines' = TRUE
  /\ pc' = "parse"
  /\ UNCHANGED <<location, onTics, offTics, onMask, lastCBStart, timeSlice,
                 stayInLoop, sleeping, signals, engineVars>>

(* No line of the event moved a servo so far. *)
EndBatch ==
  /\ pc = "parse"
  /\ ~lines
  /\ pc' = "select"
  /\ UNCHANGED <<memoryVars, timeSlice, lines, stayInLoop, sleeping,
                 signals, engineVars>>

(* Mutations of SwapDMACBs: without its usleep, and without the link. *)
SwapNoSleep ==
  /\ pc = "parse" /\ lines
  /\ wrap' = [wrap EXCEPT ![lastCBStart] = Other(lastCBStart)]
  /\ lastCBStart' = Other(lastCBStart)
  /\ pc' = "sleep"
  /\ UNCHANGED <<location, onTics, offTics, onMask, timeSlice, lines,
                 stayInLoop, sleeping, signals, engineVars>>

SwapNoLink ==
  /\ pc = "parse" /\ lines
  /\ lastCBStart' = Other(lastCBStart)
  /\ sleeping' = PERIOD
  /\ pc' = "sleep"
  /\ UNCHANGED <<location, onTics, offTics, wrap, onMask, timeSlice, lines,
                 stayInLoop, signals, engineVars>>

(* swapDMACBs up to its usleep(PERIOD); linesPerEvent is not reset. *)
SwapDMACBs ==
  /\ pc = "parse"
  /\ lines
  /\ wrap' = [wrap EXCEPT ![lastCBStart] = Other(lastCBStart)]
  /\ lastCBStart' = Other(lastCBStart)
  /\ sleeping' = PERIOD
  /\ pc' = "sleep"
  /\ UNCHANGED <<location, onTics, offTics, onMask, timeSlice, lines,
                 stayInLoop, signals, engineVars>>

(* A sleep lasts at least what was asked for, and longer by some part of a *)
(* tic: what the engine has to do at the instant of its end comes first.   *)
Awake == sleeping = 0 /\ (active => dma.left > 0)

SwapDone ==
  /\ pc = "sleep"
  /\ Awake
  /\ pc' = "select"
  /\ UNCHANGED <<memoryVars, timeSlice, lines, stayInLoop, sleeping,
                 signals, engineVars>>

(* The loops of respondToRequest end and noPulse starts. *)
LeaveLoop ==
  /\ pc = "select"
  /\ ~stayInLoop
  /\ timeSlice' = 0
  /\ pc' = "noPulse"
  /\ UNCHANGED <<memoryVars, lines, stayInLoop, sleeping, signals,
                 engineVars>>

(* Mutations of NoPulse: the first mask is forgotten; the loop only moves  *)
(* on over slots with a servo; the caller does not sleep.                  *)
NoPulseFromOne ==
  /\ pc = "noPulse"
  /\ onMask' = [onMask EXCEPT ![timeSlice] = @ /\ timeSlice = 0]
  /\ IF timeSlice = LastSlot
     THEN pc' = "drain" /\ sleeping' = EndSleep /\ UNCHANGED timeSlice
     ELSE timeSlice' = timeSlice + 1 /\ UNCHANGED <<pc, sleeping>>
  /\ UNCHANGED <<location, onTics, offTics, wrap, lastCBStart, lines,
                 stayInLoop, signals, engineVars>>

NoPulseStuck ==
  /\ pc = "noPulse"
  /\ timeSlice \in Servo
  /\ onMask' = [onMask EXCEPT ![timeSlice] = FALSE]
  /\ IF timeSlice = LastSlot
     THEN pc' = "drain" /\ sleeping' = EndSleep /\ UNCHANGED timeSlice
     ELSE timeSlice' = timeSlice + 1 /\ UNCHANGED <<pc, sleeping>>
  /\ UNCHANGED <<location, onTics, offTics, wrap, lastCBStart, lines,
                 stayInLoop, signals, engineVars>>

NoPulseNoSleep ==
  /\ pc = "noPulse"
  /\ onMask' = [onMask EXCEPT ![timeSlice] = FALSE]
  /\ IF timeSlice = LastSlot
     THEN pc' = "drain" /\ UNCHANGED timeSlice
     ELSE timeSlice' = timeSlice + 1 /\ UNCHANGED pc
  /\ UNCHANGED <<location, onTics, offTics, wrap, lastCBStart, lines,
                 stayInLoop, sleeping, signals, engineVars>>

(* One turn of the loop of noPulse; after the last comes the sleep(2).     *)
NoPulse ==
  /\ pc = "noPulse"
  /\ onMask' = [onMask EXCEPT ![timeSlice] = IF timeSlice \in Servo
                                             THEN FALSE ELSE @]
  /\ IF timeSlice = LastSlot
     THEN pc' = "drain" /\ sleeping' = EndSleep /\ UNCHANGED timeSlice
     ELSE timeSlice' = timeSlice + 1 /\ UNCHANGED <<pc, sleeping>>
  /\ UNCHANGED <<location, onTics, offTics, wrap, lastCBStart, lines,
                 stayInLoop, signals, engineVars>>

Drained ==
  /\ pc = "drain"
  /\ Awake
  /\ pc' = "end"
  /\ UNCHANGED <<memoryVars, timeSlice, lines, stayInLoop, sleeping,
                 signals, engineVars>>

(* main returns, the destructors run: the channel is aborted and reset.    *)
DmaEnd ==
  /\ pc = "end"
  /\ pc' = "done"
  /\ active' = FALSE
  /\ UNCHANGED <<memoryVars, timeSlice, lines, stayInLoop, sleeping,
                 signals, dma, high, age>>

(* sigint_handler; a signal also ends the sleep the program is in.         *)
Interrupt ==
  /\ signals < MaxSignals
  /\ pc # "done"
  /\ signals' = signals + 1
  /\ stayInLoop' = FALSE
  /\ pc' = CASE pc = "sleep" -> "select"
             [] pc = "drain" -> "end"
             [] OTHER -> pc
  /\ UNCHANGED <<memoryVars, timeSlice, lines, sleeping, engineVars>>

-----------------------------------------------------------------------------
(* The engine: the block it is in is over, it loads the next one.          *)

BlockOver(block) == active /\ dma.left = 0 /\ dma.block = block

(* First block of a slot: the on mask goes to GPIO_PIN_SET.                *)
LoadOn ==
  /\ BlockOver("delayOff")
  /\ LET s == IF dma.slot = LastSlot THEN 0 ELSE dma.slot + 1
     IN  /\ dma' = [bank |-> dma.next, slot |-> s, block |-> "on",
                    left |-> 0, next |-> dma.next]
         /\ high' = IF onMask[s] THEN high \union {s} ELSE high
  /\ age' = 0
  /\ UNCHANGED <<programVars, sleeping, active>>

LoadDelayOn ==
  /\ BlockOver("on")
  /\ dma' = [dma EXCEPT !.block = "delayOn",
                        !.left = onTics[dma.bank][dma.slot]]
  /\ UNCHANGED <<programVars, sleeping, active, high, age>>

(* The off mask goes to GPIO_PIN_CLEAR; a vacant slot's mask is zero.      *)
LoadOff ==
  /\ BlockOver("delayOn")
  /\ dma' = [dma EXCEPT !.block = "off"]
  /\ high' = IF dma.slot \in OffMask THEN high \ {dma.slot} ELSE high
  /\ UNCHANGED <<programVars, sleeping, active, age>>

(* Only the last block of a bank names a block that may be elsewhere.      *)
LoadDelayOff ==
  /\ BlockOver("off")
  /\ dma' = [dma EXCEPT !.block = "delayOff",
                        !.left = offTics[dma.bank][dma.slot],
                        !.next = IF dma.slot = LastSlot THEN wrap[dma.bank]
                                                        ELSE dma.bank]
  /\ UNCHANGED <<programVars, sleeping, active, high, age>>

Engine == LoadOn \/ LoadDelayOn \/ LoadOff \/ LoadDelayOff

(* A tic: the PWM FIFO asks for the next word and the clocks advance.      *)
Tic ==
  /\ active
  /\ dma.left > 0
  /\ dma' = [dma EXCEPT !.left = @ - 1]
  /\ age' = age + 1
  /\ sleeping' = IF sleeping > 0 THEN sleeping - 1 ELSE 0
  /\ UNCHANGED <<programVars, active, high>>

-----------------------------------------------------------------------------
Terminated == pc = "done" /\ UNCHANGED vars

Writing == WriteOn \/ WriteOff \/ WriteWrap
Leaving == LeaveLoop \/ NoPulse \/ Drained \/ DmaEnd

Next ==
  \/ DmaStart
  \/ ReadBatch \/ StopLine
  \/ \E s \in Servo, l \in Location : SetNewLocation(s, l)
  \/ Writing
  \/ EndBatch \/ SwapDMACBs \/ SwapDone
  \/ Leaving
  \/ Interrupt
  \/ Engine \/ Tic
  \/ Terminated

(* The hardware never stops by itself, and the kernel schedules a program  *)
(* that is runnable.  Being woken is strongly fair: the instants in which  *)
(* the engine loads blocks only interrupt it.  So is the end of a batch: a *)
(* read returns finitely many lines, though this model does not count      *)
(* them.  Nothing makes a client write or press Ctrl-C.                    *)
Fairness ==
  /\ WF_vars(Engine) /\ WF_vars(Tic)
  /\ WF_vars(DmaStart \/ Writing \/ LeaveLoop \/ NoPulse \/ DmaEnd)
  /\ SF_vars(EndBatch \/ SwapDMACBs) /\ SF_vars(SwapDone) /\ SF_vars(Drained)

Spec == Init /\ [][Next]_vars /\ Fairness
-----------------------------------------------------------------------------
MemoryTypes ==
  /\ location \in [Servo -> Location]
  /\ onTics \in [Bank -> [Slot -> 1 .. SlotTics]]
  /\ offTics \in [Bank -> [Slot -> 0 .. SlotTics - 1]]
  /\ wrap \in [Bank -> Bank]
  /\ onMask \in [Slot -> BOOLEAN]
  /\ lastCBStart \in Bank

ControlTypes ==
  /\ pc \in {"start", "select", "parse", "writeOn", "writeOff", "writeWrap",
             "sleep", "noPulse", "drain", "end", "done"}
  /\ timeSlice \in Slot
  /\ lines \in BOOLEAN /\ stayInLoop \in BOOLEAN /\ active \in BOOLEAN
  /\ sleeping \in 0 .. EndSleep
  /\ signals \in 0 .. MaxSignals

EngineTypes ==
  /\ dma \in [bank : Bank, slot : Slot,
              block : {"on", "delayOn", "off", "delayOff"},
              left : 0 .. SlotTics, next : Bank]
  /\ high \in SUBSET Slot
  /\ age \in Nat

(* The subtraction for the second delay never wraps around, and the first  *)
(* delay is at least a tic (DMAChannel.cc:163-186).  The second one may be *)
(* 0: at the longest location it is (2000 in the code), and the engine is  *)
(* taken to be done with such a block at once.                             *)
TypeOK == MemoryTypes /\ ControlTypes /\ EngineTypes

(* "update control blocks that aren't active" (DMAChannel.cc:137): while   *)
(* setNewLocation rewrites a bank, no block the engine is still to load    *)
(* before its next choice of a bank belongs to it.  It is so if every swap *)
(* follows a rewrite (BlindSwaps = FALSE) and the channel has a vacant     *)
(* slot; SlotTiming and PlaysLocations rest on the same.                   *)
OnlyInactiveWritten ==
  pc \in {"writeOn", "writeOff", "writeWrap"} => dma.next # Inactive

(* README.md:7: pulses "with a 20 msec period".  Wherever the engine is    *)
(* when a bank is rewritten or swapped in after a rewrite, the slot it is  *)
(* in lasts SlotTics, so a round of NumSlots slots lasts the period: also  *)
(* the slot of a servo at its longest location, whose second delay is 0.   *)
SlotTiming ==
  /\ dma.block = "delayOff" => age + dma.left = SlotTics
  /\ dma.block = "delayOn" /\ dma.slot \in Servo =>
       age + dma.left \in Location

(* README.md:37: the integer written is the pulse width sent to the servo. *)
(* Whenever the daemon is back to waiting for lines, the engine takes its  *)
(* blocks from a bank that holds the location of every servo.              *)
PlaysLocations ==
  pc = "select" /\ stayInLoop =>
    \A s \in Servo : onTics[dma.next][s] = location[s]

(* The engine is aborted wherever it is (DMAChannel.cc:206), and a pin that *)
(* is high stays high.  Every pin is low if the time of the final sleep    *)
(* passed first, whenever the daemon was told to stop; nothing is promised *)
(* when a signal has cut that sleep short.                                 *)
PinsLowAtEnd == pc = "done" /\ sleeping = 0 => high = {}

(* Pins are raised one at a time, each inside its own slot, and only where *)
(* the definition file put a servo.                                        *)
OnePinAtATime == high \subseteq ({dma.slot} \cap Servo)

(* Once the on masks are cleared no pin is raised again (DMAChannel.cc:261 *)
(* "don't ever turn on").                                                  *)
NeverOnAgain == [][(pc \in {"drain", "end"}) => (high' \subseteq high)]_vars

(* While a servo's pulse is on, its length is the one in the bank that the *)
(* engine is in.                                                           *)
Pulsing(s, l) == /\ dma.block = "delayOn" /\ dma.slot = s /\ s \in high
                 /\ onTics[dma.bank][s] = l

(* README.md:37: the location written for a servo is the pulse sent to it. *)
(* From the line that moves a servo on, whatever else is rewritten and     *)
(* swapped meanwhile, the servo gets a pulse of that location, if no later *)
(* line moves it and the daemon is not told to stop.                       *)
ServoMoves ==
  \A s \in Servo, l \in Location :
    (location[s] = l) ~> (Pulsing(s, l) \/ location[s] # l \/ ~stayInLoop)

(* A daemon told to stop reaches its end, wherever the stop line or the    *)
(* signal comes upon it: the rest of the batch is obeyed and swapped in    *)
(* first.                                                                  *)
StopEnds == ~stayInLoop ~> (pc = "done")

-----------------------------------------------------------------------------
(* The channel implements the double buffer: what is shown is the bank the *)
(* engine takes its next block from.                                       *)
FrameOf(b) == [on |-> onTics[b], off |-> offTics[b]]
Buffer == INSTANCE DoubleBuffer WITH
            Frame <- [on : [Slot -> 1 .. SlotTics],
                      off : [Slot -> 0 .. SlotTics - 1]],
            shown <- FrameOf(dma.next),
            spare <- FrameOf(Other(dma.next)),
            pending <- dma.next # lastCBStart
DoubleBuffered == Buffer!Spec
=============================================================================
