----------------------------- MODULE ServoConfig -----------------------------
(***************************************************************************)
(* From servoDefinitionFile.txt to running channels: readServoList and     *)
(* main of servod.cc, the constructors of Servos, Servo, DMAChannels and   *)
(* DMAChannel.  Servo ids are the indices of servoList less one; a slot    *)
(* holds the index of its servo, or Vacant.                                *)
(***************************************************************************)
EXTENDS Naturals, Sequences, FiniteSets

CONSTANTS
  Pins,               \* GPIO pins the file may name
  ChannelNumbers,     \* DMA channels the file may name
  MaxChannel,         \* DMA_CHANNEL_MAXIMUM, 14
  NumSlots,           \* MAXIMUM_NUMBER_OF_SERVOS_PER_CHANNEL, 10
  MaxServos,          \* Servos::MAXIMUM_NUMBER_OF_SERVOS, 20
  PERIOD,             \* Servo::PERIOD
  MinOn, MaxOn,
  Malformed,          \* a line sscanf does not match
  MaxLines            \* bound: lines in the file

ASSUME ConfigAssumption ==
  /\ NumSlots \in Nat \ {0} /\ MaxServos \in Nat \ {0}
  /\ MaxChannel \in Nat /\ ChannelNumbers \subseteq Nat
  /\ PERIOD \in Nat /\ MinOn \in Nat /\ MaxOn \in Nat
  /\ MinOn <= MaxOn /\ MaxOn <= PERIOD \div NumSlots
  /\ MaxServos <= PERIOD \div NumSlots    \* 20 and 2000: and no more channels

Slot == 1 .. NumSlots
SlotTics == PERIOD \div NumSlots
Vacant == 0
FileLine == [pin : Pins, channel : ChannelNumbers] \union {Malformed}

VARIABLES
  file,                 \* the lines of the file
  newline,              \* the last of them ends with a newline
  pc,
  linesRead,
  definitionList,
  servoList,            \* Servo objects
  gpioBitToServoID,
  servoIDToDMAChannel,  \* index -> number of the channel object
  channelDefined,       \* channel number -> index of its first servo
  slots,                \* slots[c][t]: servoRef of time slot t
  txLen                 \* txLen[c][t]: bytes of the two delays of slot t

parseVars == <<file, newline, linesRead, definitionList>>
mapVars == <<gpioBitToServoID, servoIDToDMAChannel, channelDefined>>
vars == <<parseVars, pc, servoList, mapVars, slots, txLen>>

(* A map without entries, and a map with one more. *)
NoEntry == [x \in {} |-> x]
Put(map, key, value) ==
  [x \in DOMAIN map \union {key} |-> IF x = key THEN value ELSE map[x]]

Init ==
  /\ file \in UNION {[1 .. n -> FileLine] : n \in 0 .. MaxLines}
  /\ newline \in (IF file = <<>> THEN {TRUE} ELSE BOOLEAN)
  /\ pc = "open"
  /\ linesRead = 0
  /\ definitionList = <<>>
  /\ servoList = <<>>
  /\ gpioBitToServoID = NoEntry
  /\ servoIDToDMAChannel = <<>>
  /\ channelDefined = NoEntry
  /\ slots = NoEntry
  /\ txLen = NoEntry

Exit == pc' = "exit"       \* exit(-1), with a message to stderr

-----------------------------------------------------------------------------
(* readServoList.                                                          *)

(* fopen finds the file or it does not. *)
OpenFile ==
  /\ pc = "open"
  /\ pc' = "read" \/ Exit
  /\ UNCHANGED <<parseVars, servoList, mapVars, slots, txLen>>

(* getline met the end of the file: with nothing read, or in a line that   *)
(* no newline ends, which is not looked at.                                *)
AtEnd == \/ linesRead = Len(file)
         \/ linesRead = Len(file) - 1 /\ ~newline

EndOfFile ==
  /\ pc = "read"
  /\ AtEnd
  /\ pc' = "servos"
  /\ UNCHANGED <<parseVars, servoList, mapVars, slots, txLen>>

(* Mutation of BadLine: the reading goes on after it. *)
BadLineSkipped ==
  /\ pc = "read"
  /\ ~AtEnd
  /\ file[linesRead + 1] = Malformed
  /\ linesRead' = linesRead + 1
  /\ UNCHANGED <<file, newline, definitionList, pc, servoList, mapVars, slots,
                 txLen>>

(* A line that is not a pair of numbers ends the reading. *)
BadLine ==
  /\ pc = "read"
  /\ ~AtEnd
  /\ file[linesRead + 1] = Malformed
  /\ linesRead' = linesRead + 1
  /\ pc' = "servos"
  /\ UNCHANGED <<file, newline, definitionList, servoList, mapVars, slots,
                 txLen>>

DefinitionLine ==
  /\ pc = "read"
  /\ ~AtEnd
  /\ file[linesRead + 1] # Malformed
  /\ linesRead' = linesRead + 1
  /\ LET line == file[linesRead + 1]
     IN  IF line.channel <= MaxChannel
         THEN definitionList' = Append(definitionList, line) /\ UNCHANGED pc
         ELSE Exit /\ UNCHANGED definitionList
  /\ UNCHANGED <<file, newline, servoList, mapVars, slots, txLen>>

-----------------------------------------------------------------------------
(* The constructor of Servos: one turn of its loop, and its end.           *)

NewServo(d) == [gpioBit |-> d.pin, DMAChannel |-> d.channel,
                location |-> (MinOn + MaxOn) \div 2]

(* Mutation of MakeServo: the limit is tested when it is passed.           *)
MakeServoLate ==
  /\ pc = "servos"
  /\ Len(servoList) < Len(definitionList)
  /\ IF Len(servoList) > MaxServos
     THEN Exit /\ UNCHANGED servoList
     ELSE /\ servoList' =
               Append(servoList, NewServo(definitionList[Len(servoList) + 1]))
          /\ UNCHANGED pc
  /\ UNCHANGED <<parseVars, mapVars, slots, txLen>>

MakeServo ==
  /\ pc = "servos"
  /\ Len(servoList) < Len(definitionList)
  /\ IF Len(servoList) >= MaxServos
     THEN Exit /\ UNCHANGED servoList
     ELSE /\ servoList' =
               Append(servoList, NewServo(definitionList[Len(servoList) + 1]))
          /\ UNCHANGED pc
  /\ UNCHANGED <<parseVars, mapVars, slots, txLen>>

ServosMade ==
  /\ pc = "servos"
  /\ Len(servoList) = Len(definitionList)
  /\ IF definitionList = <<>> THEN Exit ELSE pc' = "channels"
  /\ UNCHANGED <<parseVars, servoList, mapVars, slots, txLen>>

-----------------------------------------------------------------------------
(* The constructor of DMAChannel.                                          *)

OnChannel(c) == {i \in 1 .. Len(servoList) : servoList[i].DMAChannel = c}

TooManyEarly(c) == Cardinality(OnChannel(c)) >= NumSlots      \* off by one
TooMany(c) == Cardinality(OnChannel(c)) > NumSlots

(* servoTimeSlice, plus one, where the walk over the list meets servo i. *)
Place(i, c) == Cardinality({j \in OnChannel(c) : j <= i})

(* Mutation of ServoRef: the time slice advances with every servo.         *)
ServoRefInList(c) == [t \in Slot |-> IF t \in OnChannel(c) THEN t ELSE Vacant]

ServoRef(c) ==
  [t \in Slot |-> IF \E i \in OnChannel(c) : Place(i, c) = t
                  THEN CHOOSE i \in OnChannel(c) : Place(i, c) = t
                  ELSE Vacant]

(* Mutation of InitCBs: the two delays of a servo are divided by           *)
(* themselves, and both are rounded down.                                  *)
InitCBsApart(refs, total) ==
  [t \in Slot |->
     LET location == servoList[refs[t]].location
     IN  IF refs[t] = Vacant
         THEN [on |-> 4, off |-> ((4 * SlotTics) \div total) - 4]
         ELSE [on |-> (4 * location) \div total,
               off |-> (4 * (SlotTics - location)) \div total]]

(* dmaInitCBs: the txLen of both delays of every slot, in bytes.           *)
InitCBs(refs, total) ==
  [t \in Slot |->
     LET on == IF refs[t] = Vacant
               THEN 4
               ELSE (4 * servoList[refs[t]].location) \div total
     IN  [on |-> on, off |-> ((4 * SlotTics) \div total) - on]]

(* One turn of the loop of DMAChannels over the list.                      *)
Turn == pc = "channels" /\ Len(servoIDToDMAChannel) < Len(servoList)
Index == Len(servoIDToDMAChannel) + 1
DuplicatePin == servoList[Index].gpioBit \in DOMAIN gpioBitToServoID

AddServo ==
  /\ Turn
  /\ ~DuplicatePin
  /\ servoList[Index].DMAChannel \in DOMAIN channelDefined
  /\ gpioBitToServoID' = Put(gpioBitToServoID, servoList[Index].gpioBit, Index)
  /\ LET first == channelDefined[servoList[Index].DMAChannel]
     IN  servoIDToDMAChannel' =
           Append(servoIDToDMAChannel, servoIDToDMAChannel[first])
  /\ UNCHANGED <<parseVars, pc, servoList, channelDefined, slots, txLen>>

AddServoAndChannel ==
  /\ Turn
  /\ ~DuplicatePin
  /\ LET c == servoList[Index].DMAChannel
     IN  /\ c \notin DOMAIN channelDefined
         /\ ~TooMany(c)
         /\ servoIDToDMAChannel' = Append(servoIDToDMAChannel, c)
         /\ channelDefined' = Put(channelDefined, c, Index)
         /\ slots' = Put(slots, c, ServoRef(c))
         /\ txLen' = Put(txLen, c, InitCBs(ServoRef(c), 1))
  /\ gpioBitToServoID' = Put(gpioBitToServoID, servoList[Index].gpioBit, Index)
  /\ UNCHANGED <<parseVars, pc, servoList>>

RefuseServo ==
  /\ Turn
  /\ \/ DuplicatePin
     \/ LET c == servoList[Index].DMAChannel
        IN  c \notin DOMAIN channelDefined /\ TooMany(c)
  /\ Exit
  /\ UNCHANGED <<parseVars, servoList, mapVars, slots, txLen>>

(* Mutation of ChannelsMade: the control blocks are not made again.        *)
ChannelsMadeOnce ==
  /\ pc = "channels"
  /\ Len(servoIDToDMAChannel) = Len(servoList)
  /\ pc' = "running"
  /\ UNCHANGED <<parseVars, servoList, mapVars, slots, txLen>>

(* adjustForAdditionalDMAChannels for every channel, if there are several; *)
(* then main sets the hardware up and starts the channels.                 *)
ChannelsMade ==
  /\ pc = "channels"
  /\ Len(servoIDToDMAChannel) = Len(servoList)
  /\ LET total == Cardinality(DOMAIN channelDefined)
     IN  txLen' = IF total > 1
                  THEN [c \in DOMAIN slots |-> InitCBs(slots[c], total)]
                  ELSE txLen
  /\ pc' = "running"
  /\ UNCHANGED <<parseVars, servoList, mapVars, slots>>

Over == pc \in {"running", "exit"} /\ UNCHANGED vars

Next ==
  \/ OpenFile \/ EndOfFile \/ BadLine \/ DefinitionLine
  \/ MakeServo \/ ServosMade
  \/ AddServo \/ AddServoAndChannel \/ RefuseServo \/ ChannelsMade
  \/ Over

Spec == Init /\ [][Next]_vars
-----------------------------------------------------------------------------
Delays == [on : 0 .. 4 * SlotTics, off : 0 .. 4 * SlotTics]

(* No delay of a control block is negative: the subtraction of the second  *)
(* one is done in uint32_t and would wrap around.                          *)
TypeOK ==
  /\ pc \in {"open", "read", "servos", "channels", "running", "exit"}
  /\ linesRead \in 0 .. Len(file)
  /\ Len(servoList) <= MaxServos
  /\ \A i \in 1 .. Len(servoList) : servoList[i].location \in MinOn .. MaxOn
  /\ DOMAIN slots = DOMAIN channelDefined /\ DOMAIN txLen = DOMAIN slots
  /\ \A c \in DOMAIN slots : /\ slots[c] \in [Slot -> 0 .. Len(servoList)]
                             /\ txLen[c] \in [Slot -> Delays]

(* Every servo of a daemon that runs is in one slot of one channel, the    *)
(* channel its line names, and setNewLocation(id, ..) reaches that one.    *)
EveryServoDriven ==
  pc = "running" => \A i \in 1 .. Len(servoList) :
    /\ {c \in DOMAIN slots : \E t \in Slot : slots[c][t] = i}
         = {servoList[i].DMAChannel}
    /\ Cardinality({t \in Slot : slots[servoList[i].DMAChannel][t] = i}) = 1
    /\ servoIDToDMAChannel[i] = servoList[i].DMAChannel

(* What is asked of definitions, given by the numbers of their lines: no   *)
(* "more servos than can be present" (Servos.cc:42, with the 20 of         *)
(* Servos.h:52), an existing channel (servod.cc:155), "different GPIO      *)
(* pins" and at most ten servos a channel (README.md:26).                  *)
FollowRules(lines) ==
  /\ Cardinality(lines) \in 1 .. MaxServos
  /\ \A i \in lines : file[i].channel <= MaxChannel
  /\ \A i, j \in lines : file[i].pin = file[j].pin => i = j
  /\ \A c \in ChannelNumbers :
       Cardinality({i \in lines : file[i].channel = c}) <= NumSlots

Definitions == {i \in DOMAIN file : file[i] # Malformed}
WellFormed == newline /\ Definitions = DOMAIN file

(* The tests of readServoList and of three constructors, none of which     *)
(* knows all the rules, together enforce them and no more.  A daemon that  *)
(* runs drives servos whose lines follow the rules, and all of the file's  *)
(* if each of its lines is a definition ("one per line", README.md:22); a  *)
(* file that begins with a definition is refused only if its definitions   *)
(* break a rule.  Nothing is said of which lines behind a malformed one    *)
(* are driven: none are, and no message but "Bad input" tells.  That a     *)
(* file has "up to 10" servos (README.md:22) is no rule of the code if     *)
(* they are on several channels.                                           *)
RefusesUnacceptable ==
  /\ pc = "running" => /\ FollowRules(1 .. Len(servoList))
                       /\ WellFormed => Len(servoList) = Len(file)
  /\ pc = "exit" /\ linesRead > 0 /\ file[1] # Malformed =>
       ~FollowRules(Definitions)

(* README.md:37: "the servo number (zero based)".  A client's servo number *)
(* is the number of a line of the file, also when some lines are bad.      *)
NumberedByLine ==
  pc = "running" => \A i \in 1 .. Len(servoList) :
    /\ file[i] # Malformed
    /\ servoList[i].gpioBit = file[i].pin
    /\ servoList[i].DMAChannel = file[i].channel

(* The channels share the pace of one PWM FIFO, so each one's slots are    *)
(* cut down to its share of the tics ("recalibrate timing",                *)
(* DMAChannels.cc:108): all of them last the same.                         *)
SharedPace ==
  pc = "running" => \A c \in DOMAIN txLen : \A t \in Slot :
    txLen[c][t].on + txLen[c][t].off
      = (4 * SlotTics) \div Cardinality(DOMAIN channelDefined)
=============================================================================
