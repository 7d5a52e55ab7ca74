----------------------------- MODULE ConfigProofs -----------------------------
(***************************************************************************)
(* What is proved of the reading of the definition file and of the maps    *)
(* and time slots built from it, for files of any length and any number of *)
(* pins, channels, servos and slots.                                       *)
(***************************************************************************)
EXTENDS ServoConfig, FiniteSetTheorems, SequenceTheorems, TLAPS

Definition == [pin : Pins, channel : ChannelNumbers]
ServoObject == [gpioBit : Pins, DMAChannel : ChannelNumbers,
                location : MinOn .. MaxOn]

Types ==
  /\ pc \in {"open", "read", "servos", "channels", "running", "exit"}
  /\ file \in Seq(FileLine) /\ newline \in BOOLEAN
  /\ file = <<>> => newline
  /\ linesRead \in 0 .. Len(file)
  /\ definitionList \in Seq(Definition)
  /\ servoList \in Seq(ServoObject)
  /\ servoIDToDMAChannel \in Seq(ChannelNumbers)

(* The number of lines that a newline ends. *)
Complete == IF newline THEN Len(file) ELSE Len(file) - 1

(* A definition for every line read, but for a malformed last one. *)
ReadInv ==
  /\ linesRead <= Complete /\ Len(definitionList) <= linesRead
  /\ pc = "open" => linesRead = 0
  /\ pc = "read" => Len(definitionList) = linesRead
  /\ \A i \in 1 .. Len(definitionList) :
       /\ definitionList[i] = file[i] /\ file[i] # Malformed
       /\ definitionList[i].channel <= MaxChannel
  /\ pc \in {"servos", "channels", "running"} =>
       \/ Len(definitionList) = Complete
       \/ file[Len(definitionList) + 1] = Malformed

(* A servo for every definition, in the same order. *)
ServoInv ==
  /\ Len(servoList) <= Len(definitionList) /\ Len(servoList) <= MaxServos
  /\ pc \in {"open", "read"} => servoList = <<>>
  /\ \A i \in 1 .. Len(servoList) : servoList[i] = NewServo(definitionList[i])
  /\ pc \in {"channels", "running"} =>
       Len(servoList) = Len(definitionList) /\ definitionList # <<>>

(* The servos DMAChannels has looked at. *)
Done == 1 .. Len(servoIDToDMAChannel)

MapInv ==
  /\ Len(servoIDToDMAChannel) <= Len(servoList)
  /\ pc \in {"open", "read", "servos"} => servoIDToDMAChannel = <<>>
  /\ pc = "running" => Len(servoIDToDMAChannel) = Len(servoList)
  /\ \A i \in Done : servoIDToDMAChannel[i] = servoList[i].DMAChannel
  /\ DOMAIN gpioBitToServoID = {servoList[i].gpioBit : i \in Done}
  /\ \A i, j \in Done : servoList[i].gpioBit = servoList[j].gpioBit => i = j
  /\ DOMAIN channelDefined = {servoList[i].DMAChannel : i \in Done}
  /\ \A c \in DOMAIN channelDefined :
       /\ channelDefined[c] \in Done
       /\ servoList[channelDefined[c]].DMAChannel = c
       /\ ~TooMany(c)

Total == Cardinality(DOMAIN channelDefined)

SlotInv ==
  /\ DOMAIN slots = DOMAIN channelDefined /\ DOMAIN txLen = DOMAIN slots
  /\ \A c \in DOMAIN slots :
       /\ slots[c] = ServoRef(c)
       /\ txLen[c] = InitCBs(slots[c], IF pc = "running" /\ Total > 1
                                       THEN Total ELSE 1)

RefuseInv ==
  pc = "exit" /\ linesRead > 0 /\ file[1] # Malformed =>
    ~FollowRules(Definitions)

IInv == Types /\ ReadInv /\ ServoInv /\ MapInv /\ SlotInv /\ RefuseInv
-----------------------------------------------------------------------------
(* Facts about sets, sequences and maps.                                   *)

LEMMA Appended ==
  ASSUME NEW S, NEW s \in Seq(S), NEW e \in S
  PROVE  /\ Append(s, e) \in Seq(S)
         /\ Len(s) \in Nat /\ Len(Append(s, e)) = Len(s) + 1
         /\ Append(s, e)[Len(s) + 1] = e
         /\ \A i \in 1 .. Len(s) : Append(s, e)[i] = s[i]
OBVIOUS

LEMMA AppendedAny ==
  ASSUME NEW S, NEW s \in Seq(S), NEW e
  PROVE  Len(Append(s, e)) \in Nat
<1>1. s \in Seq(S \cup {e})
  OBVIOUS
<1> QED
  BY <1>1, Appended

LEMMA ServosOfChannel ==
  ASSUME servoList \in Seq(ServoObject), NEW c
  PROVE  IsFiniteSet(OnChannel(c)) /\ Cardinality(OnChannel(c)) \in Nat
<1>1. IsFiniteSet(1 .. Len(servoList))
  BY FS_Interval
<1>2. OnChannel(c) \subseteq 1 .. Len(servoList)
  BY DEF OnChannel
<1> QED
  BY <1>1, <1>2, FS_Subset, FS_CardinalityType

(* The slots of a channel that is not refused: each of its servos in one   *)
(* of them, no two in the same.                                            *)
LEMMA Placed ==
  ASSUME servoList \in Seq(ServoObject), NEW c, ~TooMany(c)
  PROVE  /\ IsFiniteSet(OnChannel(c)) /\ Cardinality(OnChannel(c)) \in Nat
         /\ \A i \in OnChannel(c) : Place(i, c) \in Slot
         /\ \A i, j \in OnChannel(c) : Place(i, c) = Place(j, c) => i = j
<1> DEFINE Upto(i) == {j \in OnChannel(c) : j <= i}
<1>1. Len(servoList) \in Nat
  OBVIOUS
<1>2. OnChannel(c) \subseteq 1 .. Len(servoList)
  BY DEF OnChannel
<1>3. IsFiniteSet(OnChannel(c)) /\ Cardinality(OnChannel(c)) \in Nat
  BY ServosOfChannel
<1>4. \A i : /\ Upto(i) \subseteq OnChannel(c) /\ IsFiniteSet(Upto(i))
             /\ Cardinality(Upto(i)) \in Nat
             /\ Cardinality(Upto(i)) <= Cardinality(OnChannel(c))
  BY <1>3, FS_Subset, FS_CardinalityType
<1>5. ASSUME NEW i \in OnChannel(c) PROVE Place(i, c) \in Slot
  <2>1. i \in Upto(i)
    BY <1>1, <1>2
  <2>2. Cardinality(Upto(i)) # 0
    BY <1>4, <2>1, FS_EmptySet
  <2>3. NumSlots \in Nat /\ Cardinality(OnChannel(c)) <= NumSlots
    BY <1>3, ConfigAssumption DEF ConfigAssumption, TooMany
  <2>4. Place(i, c) = Cardinality(Upto(i))
    BY DEF Place
  <2> HIDE DEF Upto
  <2> QED
    BY <1>3, <1>4, <2>2, <2>3, <2>4 DEF Slot
<1>6. ASSUME NEW i \in OnChannel(c), NEW j \in OnChannel(c),
             Place(i, c) = Place(j, c), i <= j
      PROVE  i = j
  <2>1. i \in Nat /\ j \in Nat
    BY <1>1, <1>2
  <2>2. Upto(i) \subseteq Upto(j)
    BY <1>1, <1>2, <1>6
  <2>3. Upto(i) = Upto(j)
    BY <1>4, <1>6, <2>2, FS_Subset DEF Place
  <2>4. j \in Upto(i)
    BY <2>1, <2>3
  <2> QED
    BY <1>6, <2>1, <2>4
<1>7. \A i, j \in OnChannel(c) : i <= j \/ j <= i
  BY <1>1, <1>2
<1> QED
  BY <1>3, <1>5, <1>6, <1>7

LEMMA SlotOfServo ==
  ASSUME servoList \in Seq(ServoObject), NEW c, ~TooMany(c)
  PROVE  /\ ServoRef(c) \in [Slot -> 0 .. Len(servoList)]
         /\ \A i \in OnChannel(c), t \in Slot :
              ServoRef(c)[t] = i <=> t = Place(i, c)
         /\ \A t \in Slot : ServoRef(c)[t] \in OnChannel(c) \cup {Vacant}
         /\ Vacant \notin OnChannel(c)
<1>1. OnChannel(c) \subseteq 1 .. Len(servoList) /\ Len(servoList) \in Nat
  BY DEF OnChannel
<1>2. Vacant \notin OnChannel(c) /\ Vacant \in 0 .. Len(servoList)
  BY <1>1 DEF Vacant
<1>3. ASSUME NEW t \in Slot
      PROVE  ServoRef(c)[t] \in OnChannel(c) \cup {Vacant}
  BY DEF ServoRef
<1>4. ASSUME NEW i \in OnChannel(c), NEW t \in Slot
      PROVE  ServoRef(c)[t] = i <=> t = Place(i, c)
  <2>1. CASE \E j \in OnChannel(c) : Place(j, c) = t
    <3> DEFINE j == CHOOSE j \in OnChannel(c) : Place(j, c) = t
    <3>1. j \in OnChannel(c) /\ Place(j, c) = t
      BY <2>1
    <3>2. ServoRef(c)[t] = j
      BY <2>1 DEF ServoRef
    <3> HIDE DEF j
    <3> QED
      BY <3>1, <3>2, Placed
  <2>2. CASE ~\E j \in OnChannel(c) : Place(j, c) = t
    <3>1. ServoRef(c)[t] = Vacant
      BY <2>2 DEF ServoRef
    <3> QED
      BY <1>2, <2>2, <3>1
  <2> QED
    BY <2>1, <2>2
<1>5. \A t \in Slot : ServoRef(c)[t] \in 0 .. Len(servoList)
  BY <1>1, <1>2, <1>3
<1>6. ServoRef(c) \in [Slot -> 0 .. Len(servoList)]
  BY <1>5 DEF ServoRef
<1> QED
  BY <1>2, <1>3, <1>4, <1>6

-----------------------------------------------------------------------------
(* The file.                                                               *)

LEMMA CompleteLines ==
  ASSUME Types
  PROVE  /\ Complete \in Nat /\ Len(file) \in Nat /\ Complete <= Len(file)
         /\ Complete = IF newline THEN Len(file) ELSE Len(file) - 1
<1>1. file \in Seq(FileLine) /\ Len(file) \in Nat /\ newline \in BOOLEAN
  BY DEF Types
<1>2. CASE newline
  BY <1>1, <1>2 DEF Complete
<1>3. CASE ~newline
  <2>1. Len(file) # 0
    BY <1>1, <1>3, EmptySeq DEF Types
  <2> QED
    BY <1>1, <1>3, <2>1 DEF Complete
<1> QED
  BY <1>1, <1>2, <1>3 DEF Complete

-----------------------------------------------------------------------------
(* The first state, and the types in every step.                           *)

LEMMA FirstState == Init => IInv
<1> SUFFICES ASSUME Init PROVE IInv
  OBVIOUS
<1>1. PICK n \in 0 .. MaxLines : file \in [1 .. n -> FileLine]
  BY DEF Init
<1>2. file \in Seq(FileLine) /\ Len(file) \in Nat
  <2>1. n \in Nat
    OBVIOUS
  <2> QED
    BY <1>1, <2>1
<1>3. /\ pc = "open" /\ linesRead = 0 /\ definitionList = <<>>
      /\ servoList = <<>> /\ servoIDToDMAChannel = <<>>
      /\ gpioBitToServoID = NoEntry /\ channelDefined = NoEntry
      /\ slots = NoEntry /\ txLen = NoEntry
  BY DEF Init
<1>4. newline \in BOOLEAN /\ (file = <<>> => newline)
  BY DEF Init
<1>5. Types
  BY <1>2, <1>3, <1>4 DEF Types
<1>6. ReadInv
  <2>1. 0 <= Complete
    BY <1>5, CompleteLines
  <2> QED
    BY <1>3, <2>1 DEF ReadInv
<1>7. ServoInv
  BY <1>3, ConfigAssumption DEF ConfigAssumption, ServoInv
<1>8. DOMAIN NoEntry = {}
  BY DEF NoEntry
<1>9. Done = {}
  BY <1>3 DEF Done
<1>10. MapInv
  BY <1>3, <1>8, <1>9 DEF MapInv
<1>11. SlotInv /\ RefuseInv
  BY <1>3, <1>8 DEF SlotInv, RefuseInv
<1> QED
  BY <1>5, <1>6, <1>7, <1>10, <1>11 DEF IInv

(* The file is only read. *)
LEMMA SameFile ==
  ASSUME [Next]_vars
  PROVE  /\ UNCHANGED <<file, newline, Complete, Definitions>>
         /\ FollowRules(Definitions)' <=> FollowRules(Definitions)
<1>1. UNCHANGED <<file, newline>>
  BY DEF Next, OpenFile, EndOfFile, BadLine, DefinitionLine, MakeServo,
         ServosMade, AddServo, AddServoAndChannel, RefuseServo, ChannelsMade,
         Over, vars, parseVars
<1> QED
  BY <1>1 DEF Complete, Definitions, FollowRules

LEMMA MiddleOfRange ==
  ASSUME NEW d \in Definition
  PROVE  NewServo(d) \in ServoObject
<1>1. (MinOn + MaxOn) \div 2 \in MinOn .. MaxOn
  BY ConfigAssumption DEF ConfigAssumption
<1>2. d.pin \in Pins /\ d.channel \in ChannelNumbers
  BY DEF Definition
<1> QED
  BY <1>1, <1>2 DEF NewServo, ServoObject

(* A line in the middle of the reading. *)
LEMMA LineInHand ==
  ASSUME Types, ReadInv, pc = "read", ~AtEnd
  PROVE  /\ linesRead + 1 \in 1 .. Complete
         /\ linesRead + 1 \in 1 .. Len(file)
         /\ file[linesRead + 1] # Malformed =>
              file[linesRead + 1] \in Definition
<1>1. Len(file) \in Nat /\ linesRead \in 0 .. Len(file) /\ newline \in BOOLEAN
  BY DEF Types
<1>2. linesRead + 1 <= Len(file) /\ linesRead + 1 <= Complete
  BY <1>1, CompleteLines DEF AtEnd, ReadInv
<1>3. linesRead + 1 \in 1 .. Len(file)
  BY <1>1, <1>2
<1>4. file[linesRead + 1] \in FileLine
  BY <1>3, ElementOfSeq DEF Types
<1> QED
  BY <1>1, <1>2, <1>3, <1>4, CompleteLines DEF FileLine, Definition

(* A turn of the constructor of DMAChannels that accepts its servo. *)
LEMMA Turned ==
  ASSUME Types, MapInv, AddServo \/ AddServoAndChannel
  PROVE  /\ Index \in 1 .. Len(servoList) /\ Index \notin Done
         /\ Done' = Done \cup {Index} /\ Done \subseteq 1 .. Len(servoList)
         /\ servoList[Index] \in ServoObject
         /\ servoIDToDMAChannel' \in Seq(ChannelNumbers)
         /\ Len(servoIDToDMAChannel') = Index
         /\ servoIDToDMAChannel'[Index] = servoList[Index].DMAChannel
         /\ \A i \in Done : servoIDToDMAChannel'[i] = servoIDToDMAChannel[i]
         /\ pc = "channels" /\ UNCHANGED <<parseVars, pc, servoList>>
<1> DEFINE c == servoList[Index].DMAChannel
<1>1. /\ Len(servoIDToDMAChannel) \in Nat /\ Len(servoList) \in Nat
      /\ Len(servoIDToDMAChannel) < Len(servoList)
      /\ pc = "channels" /\ UNCHANGED <<parseVars, pc, servoList>>
  BY DEF Types, AddServo, AddServoAndChannel, Turn
<1>2. /\ Index \in 1 .. Len(servoList) /\ Index \notin Done
      /\ Done \subseteq 1 .. Len(servoList)
      /\ 1 .. Index = Done \cup {Index}
  BY <1>1 DEF Index, Done
<1>3. servoList[Index] \in ServoObject
  BY <1>2, ElementOfSeq DEF Types
<1>4. c \in ChannelNumbers
  BY <1>3 DEF ServoObject
<1>5. servoIDToDMAChannel' = Append(servoIDToDMAChannel, c)
  <2>1. CASE AddServo
    <3>1. /\ c \in DOMAIN channelDefined
          /\ servoIDToDMAChannel' =
               Append(servoIDToDMAChannel,
                      servoIDToDMAChannel[channelDefined[c]])
      BY <2>1 DEF AddServo
    <3>2. servoIDToDMAChannel[channelDefined[c]] = c
      BY <3>1 DEF MapInv
    <3> QED
      BY <3>1, <3>2
  <2>2. CASE AddServoAndChannel
    BY <2>2 DEF AddServoAndChannel
  <2> QED
    BY <2>1, <2>2
<1>6. /\ servoIDToDMAChannel' \in Seq(ChannelNumbers)
      /\ Len(servoIDToDMAChannel') = Index
      /\ servoIDToDMAChannel'[Index] = c
      /\ \A i \in Done : servoIDToDMAChannel'[i] = servoIDToDMAChannel[i]
  BY <1>4, <1>5, Appended DEF Types, Index, Done
<1>7. Done' = Done \cup {Index}
  BY <1>2, <1>6 DEF Done
<1> QED
  BY <1>1, <1>2, <1>3, <1>6, <1>7

LEMMA TypesStep ==
  ASSUME Types, ReadInv, MapInv, [Next]_vars
  PROVE  Types'
<1> USE DEF Types
<1>1. UNCHANGED <<file, newline>>
  BY SameFile
<1>2. CASE UNCHANGED vars
  BY <1>2 DEF vars, parseVars, mapVars
<1>3. CASE OpenFile \/ EndOfFile \/ ServosMade \/ RefuseServo \/ ChannelsMade
  BY <1>3
  DEF OpenFile, EndOfFile, ServosMade, RefuseServo, ChannelsMade, Exit,
      parseVars, mapVars
<1>4. CASE BadLine
  <2>1. linesRead + 1 \in 0 .. Len(file)
    BY <1>4, LineInHand DEF BadLine
  <2> QED
    BY <1>1, <1>4, <2>1 DEF BadLine, mapVars
<1>5. CASE DefinitionLine
  <2>1. /\ linesRead + 1 \in 0 .. Len(file)
        /\ file[linesRead + 1] \in Definition
    BY <1>5, LineInHand DEF DefinitionLine
  <2>2. /\ definitionList' = Append(definitionList, file[linesRead + 1])
          \/ UNCHANGED definitionList
        /\ linesRead' = linesRead + 1 /\ pc' \in {pc, "exit"}
        /\ UNCHANGED <<servoList, servoIDToDMAChannel>>
    BY <1>5 DEF DefinitionLine, Exit, mapVars
  <2>3. definitionList' \in Seq(Definition)
    <3>1. definitionList \in Seq(Definition)
      BY <1>1
    <3>2. Append(definitionList, file[linesRead + 1]) \in Seq(Definition)
      BY <2>1, <3>1, Appended
    <3> QED
      BY <2>2, <3>1, <3>2
  <2> QED
    BY <1>1, <2>1, <2>2, <2>3
<1>6. CASE MakeServo
  <2>1. Len(servoList) + 1 \in 1 .. Len(definitionList)
    BY <1>6 DEF MakeServo
  <2>2. NewServo(definitionList[Len(servoList) + 1]) \in ServoObject
    BY <2>1, ElementOfSeq, MiddleOfRange
  <2>3. /\ \/ servoList' =
                 Append(servoList, NewServo(definitionList[Len(servoList) + 1]))
           \/ UNCHANGED servoList
        /\ pc' \in {pc, "exit"}
        /\ UNCHANGED <<parseVars, servoIDToDMAChannel>>
    BY <1>6 DEF MakeServo, Exit, mapVars
  <2>4. servoList' \in Seq(ServoObject)
    <3>1. servoList \in Seq(ServoObject)
      OBVIOUS
    <3>2. Append(servoList, NewServo(definitionList[Len(servoList) + 1]))
            \in Seq(ServoObject)
      BY <2>2, <3>1, Appended
    <3> QED
      BY <2>3, <3>1, <3>2
  <2> QED
    BY <2>3, <2>4 DEF parseVars
<1>7. CASE AddServo \/ AddServoAndChannel
  BY <1>1, <1>7, Turned DEF parseVars
<1> QED
  BY <1>2, <1>3, <1>4, <1>5, <1>6, <1>7 DEF Next, Over
-----------------------------------------------------------------------------
(* The lines and the servos.                                               *)

LEMMA ReadStep ==
  ASSUME Types, ReadInv, [Next]_vars
  PROVE  ReadInv'
<1> USE DEF ReadInv
<1>1. UNCHANGED <<file, newline, Complete>>
  BY SameFile
<1>2. /\ Len(definitionList) \in Nat /\ linesRead \in Nat
      /\ Complete \in Nat
  BY CompleteLines DEF Types
<1>3. CASE UNCHANGED <<linesRead, definitionList>>
            /\ (pc' = pc \/ pc' \notin {"open", "read", "servos"}
               \/ (pc = "open" /\ pc' = "read"))
            /\ (pc' \in {"channels", "running"} =>
                 pc \in {"servos", "channels", "running"})
  <2>1. pc = "open" => Len(definitionList) = linesRead
    BY <1>2
  <2> QED
    BY <1>1, <1>3, <2>1
<1>4. CASE EndOfFile
  <2>1. /\ linesRead = Complete /\ Len(definitionList) = linesRead
        /\ pc' = "servos" /\ UNCHANGED <<linesRead, definitionList>>
    BY <1>2, <1>4, CompleteLines DEF Types, EndOfFile, AtEnd, parseVars
  <2> QED
    BY <1>1, <2>1
<1>5. CASE BadLine
  <2>1. /\ linesRead + 1 <= Complete /\ Len(definitionList) = linesRead
        /\ file[linesRead + 1] = Malformed
        /\ pc' = "servos" /\ linesRead' = linesRead + 1
        /\ UNCHANGED definitionList
    BY <1>5, LineInHand DEF BadLine
  <2> QED
    BY <1>1, <1>2, <2>1
<1>6. CASE DefinitionLine
  <2> DEFINE line == file[linesRead + 1]
  <2>1. /\ linesRead + 1 <= Complete /\ Len(definitionList) = linesRead
        /\ line # Malformed /\ line \in Definition /\ pc = "read"
    BY <1>6, LineInHand DEF DefinitionLine
  <2>2. linesRead' = linesRead + 1
    BY <1>6 DEF DefinitionLine
  <2>3. CASE definitionList' = Append(definitionList, line) /\ pc' = pc
              /\ line.channel <= MaxChannel
    <3>1. /\ Len(definitionList') = linesRead + 1
          /\ definitionList'[linesRead + 1] = line
          /\ \A i \in 1 .. Len(definitionList) :
               definitionList'[i] = definitionList[i]
      BY <2>1, <2>3, Appended DEF Types
    <3>2. \A i \in 1 .. Len(definitionList') :
            /\ definitionList'[i] = file[i] /\ file[i] # Malformed
            /\ definitionList'[i].channel <= MaxChannel
      BY <1>2, <2>1, <2>3, <3>1
    <3> QED
      BY <1>1, <2>1, <2>2, <2>3, <3>1, <3>2
  <2>4. CASE UNCHANGED definitionList /\ pc' = "exit"
    BY <1>1, <1>2, <2>1, <2>2, <2>4
  <2> QED
    BY <1>6, <2>3, <2>4 DEF DefinitionLine, Exit
<1> HIDE DEF ReadInv
<1>7. CASE OpenFile \/ MakeServo \/ ServosMade
  BY <1>3, <1>7 DEF OpenFile, MakeServo, ServosMade, Exit, parseVars
<1>8. CASE AddServo \/ AddServoAndChannel \/ RefuseServo
  BY <1>3, <1>8 DEF AddServo, AddServoAndChannel, RefuseServo, Exit, parseVars
<1>9. CASE ChannelsMade
  BY <1>3, <1>9 DEF ChannelsMade, parseVars
<1>10. CASE UNCHANGED vars
  BY <1>3, <1>10 DEF vars, parseVars
<1> QED
  BY <1>4, <1>5, <1>6, <1>7, <1>8, <1>9, <1>10 DEF Next, Over

LEMMA ServoStep ==
  ASSUME Types, ServoInv, [Next]_vars
  PROVE  ServoInv'
<1> USE DEF ServoInv
<1>1. /\ Len(definitionList) \in Nat /\ Len(servoList) \in Nat
      /\ MaxServos \in Nat
  BY ConfigAssumption DEF ConfigAssumption, Types
<1>2. CASE UNCHANGED <<servoList, definitionList>>
            /\ (pc' \in {"open", "read"} => pc \in {"open", "read"})
            /\ (pc' \in {"channels", "running"} =>
                 pc \in {"channels", "running"})
  BY <1>2
<1>3. CASE DefinitionLine
  <2>1. servoList = <<>> /\ servoList' = <<>> /\ pc' \in {"read", "exit"}
    BY <1>3 DEF DefinitionLine, Exit
  <2>2. Len(definitionList') \in Nat
    <3>1. \/ definitionList' = Append(definitionList, file[linesRead + 1])
          \/ UNCHANGED definitionList
      BY <1>3 DEF DefinitionLine
    <3> QED
      BY <1>1, <3>1, AppendedAny DEF Types
  <2> QED
    BY <1>1, <2>1, <2>2
<1>4. CASE MakeServo
  <2> DEFINE k == Len(servoList) + 1
  <2>1. /\ pc = "servos" /\ k <= Len(definitionList)
        /\ UNCHANGED definitionList
    BY <1>1, <1>4 DEF MakeServo, parseVars
  <2>2. CASE servoList' = Append(servoList, NewServo(definitionList[k]))
              /\ pc' = pc /\ Len(servoList) < MaxServos
    <3>1. NewServo(definitionList[k]) \in ServoObject
      BY <1>1, <2>1, ElementOfSeq, MiddleOfRange DEF Types
    <3>2. /\ Len(servoList') = k
          /\ servoList'[k] = NewServo(definitionList[k])
          /\ \A i \in 1 .. Len(servoList) : servoList'[i] = servoList[i]
      BY <2>2, <3>1, Appended DEF Types
    <3>3. \A i \in 1 .. k : servoList'[i] = NewServo(definitionList[i])
      BY <1>1, <3>2
    <3> QED
      BY <1>1, <2>1, <2>2, <3>2, <3>3
  <2>3. CASE UNCHANGED servoList /\ pc' = "exit"
    BY <2>1, <2>3
  <2> QED
    BY <1>1, <1>4, <2>2, <2>3 DEF MakeServo, Exit
<1>5. CASE ServosMade
  BY <1>5 DEF ServosMade, Exit, parseVars
<1> QED
  BY <1>2, <1>3, <1>4, <1>5
  DEF Next, OpenFile, EndOfFile, BadLine, AddServo, AddServoAndChannel,
      RefuseServo, ChannelsMade, Over, Turn, Exit, vars, parseVars
-----------------------------------------------------------------------------
(* The maps.                                                               *)

LEMMA SameServos ==
  ASSUME UNCHANGED servoList
  PROVE  /\ \A c : OnChannel(c)' = OnChannel(c)
         /\ \A c : TooMany(c)' <=> TooMany(c)
         /\ \A c : ServoRef(c)' = ServoRef(c)
<1>1. \A c : OnChannel(c)' = OnChannel(c)
  BY DEF OnChannel
<1>2. \A i, c : Place(i, c)' = Place(i, c)
  BY DEF OnChannel, Place
<1> QED
  BY <1>1, <1>2 DEF TooMany, ServoRef, OnChannel, Place

(* What happens before the channels, and after them. *)
LEMMA MapsElsewhere ==
  ASSUME [Next]_vars
  PROVE  \/ AddServo \/ AddServoAndChannel
         \/ /\ UNCHANGED <<mapVars, slots>>
            /\ \/ UNCHANGED servoList
               \/ pc = "servos" /\ UNCHANGED txLen
            /\ pc' \in {"open", "read", "servos"} =>
                 pc \in {"open", "read", "servos"}
            /\ pc' = "running" /\ pc # "running" => ChannelsMade
            /\ ChannelsMade \/ UNCHANGED txLen
<1>1. CASE AddServo \/ AddServoAndChannel
  BY <1>1
<1>2. CASE OpenFile \/ EndOfFile \/ BadLine \/ DefinitionLine
  BY <1>2
  DEF OpenFile, EndOfFile, BadLine, DefinitionLine, Exit, parseVars, mapVars
<1>3. CASE MakeServo \/ ServosMade
  BY <1>3 DEF MakeServo, ServosMade, Exit, mapVars
<1>4. CASE RefuseServo
  BY <1>4 DEF RefuseServo, Exit, mapVars
<1>5. CASE ChannelsMade
  BY <1>5 DEF ChannelsMade, mapVars
<1>6. CASE UNCHANGED vars
  BY <1>6 DEF vars, mapVars
<1> QED
  BY <1>1, <1>2, <1>3, <1>4, <1>5, <1>6 DEF Next, Over

(* Nothing is built while the servos are made. *)
LEMMA NothingYet ==
  ASSUME MapInv, SlotInv, pc \in {"open", "read", "servos"}
  PROVE  /\ Done = {} /\ DOMAIN gpioBitToServoID = {}
         /\ DOMAIN channelDefined = {} /\ DOMAIN slots = {}
         /\ DOMAIN txLen = {}
BY DEF MapInv, SlotInv, Done

LEMMA MapStep ==
  ASSUME Types, MapInv, SlotInv, [Next]_vars
  PROVE  MapInv'
<1>1. CASE AddServo \/ AddServoAndChannel
  <2> DEFINE c == servoList[Index].DMAChannel
             bit == servoList[Index].gpioBit
  <2>1. /\ Index \in 1 .. Len(servoList) /\ Index \notin Done
        /\ Done' = Done \cup {Index} /\ pc' = "channels"
        /\ Len(servoIDToDMAChannel') = Index /\ servoList' = servoList
        /\ servoIDToDMAChannel'[Index] = c
        /\ \A i \in Done : servoIDToDMAChannel'[i] = servoIDToDMAChannel[i]
    BY <1>1, Turned
  <2>2. Len(servoList) \in Nat
    BY DEF Types
  <2>3. gpioBitToServoID' = Put(gpioBitToServoID, bit, Index)
    BY <1>1 DEF AddServo, AddServoAndChannel
  <2>4. DOMAIN gpioBitToServoID = {servoList[i].gpioBit : i \in Done}
    BY DEF MapInv
  <2>5. DOMAIN gpioBitToServoID' = {servoList'[i].gpioBit : i \in Done'}
    <3>1. DOMAIN gpioBitToServoID' = DOMAIN gpioBitToServoID \cup {bit}
      BY <2>3 DEF Put
    <3> QED
      BY <2>1, <2>4, <3>1
  <2>6. \A i, j \in Done' :
          servoList'[i].gpioBit = servoList'[j].gpioBit => i = j
    <3>1. bit \notin DOMAIN gpioBitToServoID
      BY <1>1 DEF AddServo, AddServoAndChannel, DuplicatePin
    <3>2. \A i, j \in Done :
            servoList[i].gpioBit = servoList[j].gpioBit => i = j
      BY DEF MapInv
    <3> QED
      BY <2>1, <2>4, <3>1, <3>2
  <2>7. \A i \in Done' : servoIDToDMAChannel'[i] = servoList'[i].DMAChannel
    BY <2>1 DEF MapInv
  <2>8. DOMAIN channelDefined' = DOMAIN channelDefined \cup {c}
    <3>1. CASE AddServo
      BY <3>1 DEF AddServo
    <3>2. CASE AddServoAndChannel
      BY <3>2 DEF AddServoAndChannel, Put
    <3> QED
      BY <1>1, <3>1, <3>2
  <2>9. DOMAIN channelDefined' = {servoList'[i].DMAChannel : i \in Done'}
    BY <2>1, <2>8 DEF MapInv
  <2>10. ASSUME NEW d \in DOMAIN channelDefined'
         PROVE  /\ channelDefined'[d] \in Done'
                /\ servoList'[channelDefined'[d]].DMAChannel = d
                /\ ~TooMany(d)'
    <3>1. TooMany(d)' <=> TooMany(d)
      BY <2>1, SameServos
    <3>2. CASE /\ d \in DOMAIN channelDefined
               /\ channelDefined'[d] = channelDefined[d]
      BY <2>1, <3>1, <3>2 DEF MapInv
    <3>3. CASE AddServoAndChannel /\ d = c
      <4>1. channelDefined'[d] = Index /\ ~TooMany(d)
        BY <3>3 DEF AddServoAndChannel, Put
      <4> QED
        BY <2>1, <3>1, <3>3, <4>1
    <3>4. CASE AddServoAndChannel /\ d # c
      <4>1. /\ d \in DOMAIN channelDefined
            /\ channelDefined'[d] = channelDefined[d]
        BY <2>8, <3>4 DEF AddServoAndChannel, Put
      <4> QED
        BY <3>2, <4>1
    <3>5. CASE AddServo
      BY <3>2, <3>5 DEF AddServo
    <3> QED
      BY <1>1, <3>3, <3>4, <3>5
  <2>11. Index <= Len(servoList)
    BY <2>1, <2>2
  <2> QED
    BY <2>1, <2>5, <2>6, <2>7, <2>9, <2>10, <2>11 DEF MapInv
<1>2. CASE pc = "servos" /\ UNCHANGED <<mapVars, slots>>
            /\ ~ChannelsMade /\ pc' # "running"
  <2>1. /\ Done' = {} /\ DOMAIN gpioBitToServoID' = {}
        /\ DOMAIN channelDefined' = {} /\ servoIDToDMAChannel' = <<>>
    BY <1>2, NothingYet DEF mapVars, Done, MapInv
  <2>2. Len(servoList') \in Nat
    <3>1. \/ servoList' =
               Append(servoList, NewServo(definitionList[Len(servoList) + 1]))
          \/ UNCHANGED servoList
      BY <1>2 DEF Next, Over, OpenFile, EndOfFile, BadLine, DefinitionLine,
                  MakeServo, ServosMade, AddServo, AddServoAndChannel, Turn,
                  RefuseServo, ChannelsMade, vars
    <3> QED
      BY <3>1, AppendedAny DEF Types
  <2> QED
    BY <1>2, <2>1, <2>2 DEF MapInv
<1>3. CASE /\ UNCHANGED <<mapVars, servoList>>
           /\ pc' \in {"open", "read", "servos"} =>
                pc \in {"open", "read", "servos"}
           /\ pc' = "running" /\ pc # "running" => ChannelsMade
  <2>1. Done' = Done
    BY <1>3 DEF Done, mapVars
  <2>2. \A c : TooMany(c)' <=> TooMany(c)
    BY <1>3, SameServos
  <2>3. pc' = "running" => Len(servoIDToDMAChannel) = Len(servoList)
    BY <1>3 DEF MapInv, ChannelsMade
  <2> QED
    BY <1>3, <2>1, <2>2, <2>3 DEF MapInv, mapVars
<1> QED
  <2>1. pc = "servos" => ~ChannelsMade
    BY DEF ChannelsMade
  <2> QED
    BY <1>1, <1>2, <1>3, <2>1, MapsElsewhere
-----------------------------------------------------------------------------
(* The slots and their control blocks.                                     *)

LEMMA SameBlocks ==
  ASSUME UNCHANGED servoList
  PROVE  \A refs, total : InitCBs(refs, total)' = InitCBs(refs, total)
BY DEF InitCBs

(* What SlotInv says of one channel. *)
SlotsOf(c, total) == /\ slots[c] = ServoRef(c)
                     /\ txLen[c] = InitCBs(slots[c], total)

LEMMA SlotStep ==
  ASSUME Types, MapInv, SlotInv, [Next]_vars
  PROVE  SlotInv'
<1>1. /\ DOMAIN slots = DOMAIN channelDefined /\ DOMAIN txLen = DOMAIN slots
      /\ \A c \in DOMAIN slots :
           SlotsOf(c, IF pc = "running" /\ Total > 1 THEN Total ELSE 1)
  BY DEF SlotInv, SlotsOf
<1>2. ASSUME DOMAIN slots' = DOMAIN channelDefined',
             DOMAIN txLen' = DOMAIN slots', servoList' = servoList,
             \A c \in DOMAIN slots' :
               /\ slots'[c] = ServoRef(c)
               /\ txLen'[c] = InitCBs(slots'[c],
                               IF pc' = "running" /\ Total' > 1
                               THEN Total' ELSE 1)
      PROVE  SlotInv'
  <2>1. \A c : ServoRef(c)' = ServoRef(c)
    BY <1>2, SameServos
  <2> QED
    BY <1>2, <2>1 DEF SlotInv, InitCBs
<1>3. CASE AddServo
  <2>1. DOMAIN channelDefined' = DOMAIN channelDefined
    BY <1>3 DEF AddServo
  <2>2. /\ UNCHANGED <<slots, txLen, servoList, channelDefined>>
        /\ pc = "channels" /\ pc' = "channels"
    BY <1>3 DEF AddServo, Turn
  <2> QED
    BY <1>1, <1>2, <2>1, <2>2 DEF SlotsOf
<1>4. CASE AddServoAndChannel
  <2> DEFINE d == servoList[Index].DMAChannel
  <2>1. /\ channelDefined' = Put(channelDefined, d, Index)
        /\ slots' = Put(slots, d, ServoRef(d))
        /\ txLen' = Put(txLen, d, InitCBs(ServoRef(d), 1))
        /\ pc = "channels" /\ pc' = "channels" /\ servoList' = servoList
    BY <1>4 DEF AddServoAndChannel, Turn
  <2> HIDE DEF d
  <2>2. /\ DOMAIN slots' = DOMAIN channelDefined'
        /\ DOMAIN txLen' = DOMAIN slots'
    BY <1>1, <2>1 DEF Put
  <2>3. ASSUME NEW c \in DOMAIN slots'
        PROVE  slots'[c] = ServoRef(c) /\ txLen'[c] = InitCBs(slots'[c], 1)
    <3>1. CASE c = d
      BY <2>1, <3>1 DEF Put
    <3>2. CASE c # d
      <4>1. c \in DOMAIN slots /\ slots'[c] = slots[c] /\ txLen'[c] = txLen[c]
        BY <1>1, <2>1, <3>2 DEF Put
      <4> QED
        BY <1>1, <2>1, <4>1 DEF SlotsOf
    <3> QED
      BY <3>1, <3>2
  <2> QED
    BY <1>2, <2>1, <2>2, <2>3
<1>5. CASE ChannelsMade
  <2>1. /\ txLen' = IF Total > 1
                    THEN [c \in DOMAIN slots |-> InitCBs(slots[c], Total)]
                    ELSE txLen
        /\ UNCHANGED <<servoList, channelDefined, slots>>
        /\ pc = "channels" /\ pc' = "running"
    BY <1>5 DEF ChannelsMade, Total, mapVars
  <2>2. Total' = Total
    BY <2>1 DEF Total
  <2>3. DOMAIN txLen' = DOMAIN slots
    BY <1>1, <2>1
  <2>4. \A c \in DOMAIN slots :
          txLen'[c] = InitCBs(slots[c], IF Total > 1 THEN Total ELSE 1)
    BY <1>1, <2>1 DEF SlotsOf
  <2> QED
    BY <1>1, <1>2, <2>1, <2>2, <2>3, <2>4 DEF SlotsOf
<1>6. CASE pc = "servos" /\ UNCHANGED <<mapVars, slots, txLen>>
  <2>1. /\ DOMAIN slots' = {} /\ DOMAIN txLen' = {}
        /\ DOMAIN channelDefined' = {}
    BY <1>6, NothingYet DEF mapVars
  <2> QED
    BY <2>1 DEF SlotInv
<1>7. CASE /\ UNCHANGED <<mapVars, slots, txLen, servoList>>
           /\ pc' = "running" => pc = "running"
           /\ pc = "running" => pc' = "running"
  <2>1. Total' = Total
    BY <1>7 DEF Total, mapVars
  <2> QED
    BY <1>1, <1>2, <1>7, <2>1 DEF SlotsOf, mapVars
<1>8. pc = "running" => pc' = "running"
  BY DEF Next, OpenFile, EndOfFile, BadLine, DefinitionLine, MakeServo,
         ServosMade, AddServo, AddServoAndChannel, RefuseServo, ChannelsMade,
         Over, Turn, vars
<1> QED
  BY <1>3, <1>4, <1>5, <1>6, <1>7, <1>8, MapsElsewhere

-----------------------------------------------------------------------------
(* The refusals.                                                           *)

(* The definitions read are those of the first lines, *)
LEMMA ListOfLines ==
  ASSUME Types, ReadInv
  PROVE  /\ Len(definitionList) \in Nat
         /\ 1 .. Len(definitionList) \subseteq Definitions
         /\ \A i \in 1 .. Len(definitionList) : definitionList[i] = file[i]
<1>1. /\ Len(definitionList) \in Nat /\ linesRead \in Nat
      /\ Len(definitionList) <= linesRead /\ linesRead <= Len(file)
      /\ Len(file) \in Nat /\ DOMAIN file = 1 .. Len(file)
  BY DEF Types, ReadInv
<1>2. \A i \in 1 .. Len(definitionList) :
        /\ i \in DOMAIN file /\ file[i] # Malformed
        /\ definitionList[i] = file[i]
  BY <1>1 DEF ReadInv
<1> QED
  BY <1>1, <1>2 DEF Definitions

(* and the servos are made from them. *)
LEMMA ServosOfLines ==
  ASSUME Types, ReadInv, ServoInv
  PROVE  /\ Len(servoList) \in Nat
         /\ 1 .. Len(servoList) \subseteq Definitions
         /\ \A i \in 1 .. Len(servoList) :
              /\ servoList[i].gpioBit = file[i].pin
              /\ servoList[i].DMAChannel = file[i].channel
<1>1. /\ Len(servoList) \in Nat /\ Len(servoList) <= Len(definitionList)
      /\ \A i \in 1 .. Len(servoList) :
           servoList[i] = NewServo(definitionList[i])
  BY DEF Types, ServoInv
<1>2. \A d : NewServo(d).gpioBit = d.pin /\ NewServo(d).DMAChannel = d.channel
  BY DEF NewServo
<1>3. 1 .. Len(servoList) \subseteq 1 .. Len(definitionList)
  BY <1>1, ListOfLines
<1> QED
  BY <1>1, <1>2, <1>3, ListOfLines

(* A rule on how many there are is kept by a part if it is kept by all.    *)
LEMMA FewerLines ==
  ASSUME Types, NEW S \in SUBSET Definitions
  PROVE  /\ IsFiniteSet(S) /\ Cardinality(S) \in Nat
         /\ Cardinality(Definitions) \in Nat
         /\ Cardinality(S) <= Cardinality(Definitions)
<1>1. Len(file) \in Nat /\ DOMAIN file = 1 .. Len(file)
  BY DEF Types
<1>2. IsFiniteSet(DOMAIN file) /\ Definitions \subseteq DOMAIN file
  BY <1>1, FS_Interval DEF Definitions
<1>3. IsFiniteSet(Definitions)
  BY <1>2, FS_Subset
<1> QED
  BY <1>3, FS_Subset, FS_CardinalityType

LEMMA RefuseStep ==
  ASSUME IInv, [Next]_vars
  PROVE  RefuseInv'
<1> SUFFICES ASSUME pc' = "exit", linesRead' > 0, file[1] # Malformed,
                    FollowRules(Definitions)
             PROVE  FALSE
  BY SameFile DEF RefuseInv
<1>1. Types /\ ReadInv /\ ServoInv /\ MapInv /\ RefuseInv
  BY DEF IInv
<1>2. CASE UNCHANGED vars
  BY <1>1, <1>2 DEF vars, parseVars, RefuseInv
<1>3. CASE OpenFile
  BY <1>1, <1>3 DEF OpenFile, ReadInv, parseVars
<1>4. CASE DefinitionLine
  <2> DEFINE n == linesRead + 1
  <2>1. /\ n \in 1 .. Len(file) /\ file[n] # Malformed
        /\ ~(file[n].channel <= MaxChannel)
    BY <1>1, <1>4, LineInHand DEF DefinitionLine
  <2>2. n \in Definitions
    BY <1>1, <2>1 DEF Definitions, Types
  <2> QED
    BY <2>1, <2>2 DEF FollowRules
<1>5. CASE MakeServo
  <2>1. Len(servoList) < Len(definitionList) /\ Len(servoList) >= MaxServos
    BY <1>5 DEF MakeServo
  <2>2. /\ Len(servoList) \in Nat /\ MaxServos \in Nat
        /\ Len(definitionList) \in Nat
    BY <1>1, ConfigAssumption DEF ConfigAssumption, Types
  <2>3. Cardinality(1 .. Len(definitionList)) = Len(definitionList)
    <3>1. \A n \in Nat : n >= 1 => Cardinality(1 .. n) = n
      BY FS_Interval
    <3> QED
      BY <2>1, <2>2, <3>1
  <2>4. Cardinality(1 .. Len(definitionList)) <= Cardinality(Definitions)
    BY <1>1, ListOfLines, FewerLines
  <2>5. Cardinality(Definitions) \in 1 .. MaxServos
    BY DEF FollowRules
  <2> QED
    BY <2>1, <2>2, <2>3, <2>4, <2>5
<1>6. CASE ServosMade
  <2>1. pc = "servos" /\ definitionList = <<>> /\ linesRead > 0
    BY <1>6 DEF ServosMade, parseVars
  <2>2. Len(definitionList) = 0
    BY <2>1
  <2>3. Complete = 0 \/ file[1] = Malformed
    BY <1>1, <2>1, <2>2 DEF ReadInv
  <2>4. linesRead \in Nat /\ linesRead <= Complete
    BY <1>1 DEF ReadInv, Types
  <2> QED
    BY <2>1, <2>3, <2>4
<1>7. CASE RefuseServo
  <2> DEFINE c == servoList[Index].DMAChannel
  <2>1. /\ pc = "channels" /\ Len(servoIDToDMAChannel) < Len(servoList)
        /\ DuplicatePin \/ TooMany(c)
    BY <1>7 DEF RefuseServo, Turn
  <2>2. /\ Len(servoIDToDMAChannel) \in Nat /\ Len(servoList) \in Nat
    BY <1>1 DEF Types
  <2>3. Index \in 1 .. Len(servoList) /\ Index \notin Done
        /\ Done \subseteq 1 .. Len(servoList)
    BY <2>1, <2>2 DEF Index, Done
  <2>4. /\ 1 .. Len(servoList) \subseteq Definitions
        /\ \A i \in 1 .. Len(servoList) :
             /\ servoList[i].gpioBit = file[i].pin
             /\ servoList[i].DMAChannel = file[i].channel
    BY <1>1, ServosOfLines
  <2>5. CASE DuplicatePin
    <3>1. PICK i \in Done : servoList[i].gpioBit = servoList[Index].gpioBit
      BY <1>1, <2>5 DEF DuplicatePin, MapInv
    <3> QED
      BY <2>3, <2>4, <3>1 DEF FollowRules
  <2>6. CASE TooMany(c)
    <3> DEFINE S == {i \in Definitions : file[i].channel = c}
    <3>1. c \in ChannelNumbers
      <4>1. servoList[Index] \in ServoObject
        BY <1>1, <2>3, ElementOfSeq DEF Types
      <4> QED
        BY <4>1 DEF ServoObject
    <3>2. OnChannel(c) \subseteq S
      BY <2>4 DEF OnChannel
    <3>3. Cardinality(S) <= NumSlots
      BY <3>1 DEF FollowRules
    <3>4. IsFiniteSet(S) /\ Cardinality(S) \in Nat
      BY <1>1, FewerLines
    <3>5. Cardinality(OnChannel(c)) <= Cardinality(S)
      BY <3>2, <3>4, FS_Subset
    <3>6. Cardinality(OnChannel(c)) \in Nat
      BY <1>1, ServosOfChannel DEF Types
    <3> HIDE DEF S, c
    <3> QED
      BY <2>6, <3>3, <3>4, <3>5, <3>6, ConfigAssumption
      DEF ConfigAssumption, TooMany
  <2> QED
    BY <2>1, <2>5, <2>6
<1> QED
  BY <1>2, <1>3, <1>4, <1>5, <1>6, <1>7
  DEF Next, EndOfFile, BadLine, AddServo, AddServoAndChannel, ChannelsMade,
      Over, Turn
-----------------------------------------------------------------------------
(* What follows.                                                           *)

LEMMA Invariant == Spec => []IInv
<1>1. IInv /\ [Next]_vars => IInv'
  BY TypesStep, ReadStep, ServoStep, MapStep, SlotStep, RefuseStep DEF IInv
<1> QED
  BY <1>1, FirstState, PTL DEF Spec

LEMMA Quotients ==
  ASSUME NEW n \in Nat \ {0}
  PROVE  /\ \A a \in Nat : a \div n \in Nat /\ a \div n <= a
         /\ \A a, b \in Nat : a <= b => a \div n <= b \div n
         /\ \A a, q \in Nat : q * n <= a => q <= a \div n
<1>1. \A a \in Nat : /\ a = n * (a \div n) + (a % n)
                     /\ a \div n \in Nat /\ a % n \in 0 .. n - 1
  BY SMT
<1>2. ASSUME NEW a \in Nat, NEW q \in Nat, q * n <= a PROVE q <= a \div n
  <2> SUFFICES ASSUME q >= a \div n + 1 PROVE FALSE
    BY <1>1
  <2>1. \A k, l \in Nat : k >= l + 1 => k * n >= n * l + n
    BY SMT
  <2>2. q * n >= n * (a \div n) + n
    BY <1>1, <2>1
  <2> QED
    BY <1>1, <1>2, <2>2
<1>3. ASSUME NEW a \in Nat, NEW b \in Nat, a <= b PROVE a \div n <= b \div n
  <2>1. (a \div n) * n <= b
    BY <1>1, <1>3
  <2> QED
    BY <1>1, <1>2, <2>1
<1>4. ASSUME NEW a \in Nat PROVE a \div n <= a
  <2>1. \A k \in Nat : k <= n * k
    BY SMT
  <2> QED
    BY <1>1, <2>1
<1> QED
  BY <1>1, <1>2, <1>3, <1>4

(* There are no more channels than servos. *)
LEMMA Channels ==
  ASSUME IInv
  PROVE  /\ Total \in Nat /\ Total <= SlotTics
         /\ DOMAIN channelDefined # {} => Total >= 1
         /\ SlotTics \in Nat /\ SlotTics >= 1
<1> DEFINE f == [c \in DOMAIN channelDefined |-> channelDefined[c]]
<1>1. Types /\ ServoInv /\ MapInv
  BY DEF IInv
<1>2. /\ Len(servoIDToDMAChannel) \in Nat /\ Len(servoList) \in Nat
      /\ Len(servoIDToDMAChannel) <= Len(servoList)
      /\ Len(servoList) <= MaxServos
  BY <1>1 DEF Types, ServoInv, MapInv
<1>3. IsFiniteSet(Done) /\ Cardinality(Done) = Len(servoIDToDMAChannel)
  <2>1. PICK n \in Nat : n = Len(servoIDToDMAChannel)
    BY <1>2
  <2>2. IsFiniteSet(1 .. n) /\ Cardinality(1 .. n) = IF 1 > n THEN 0 ELSE n
    BY FS_Interval
  <2> QED
    BY <2>1, <2>2 DEF Done
<1>4. f \in Injection(DOMAIN channelDefined, Done)
  <2>1. \A c \in DOMAIN channelDefined :
          /\ channelDefined[c] \in Done
          /\ servoList[channelDefined[c]].DMAChannel = c
    BY <1>1 DEF MapInv
  <2>2. \A c, d \in DOMAIN channelDefined :
          channelDefined[c] = channelDefined[d] => c = d
    BY <2>1
  <2> QED
    BY <2>1, <2>2 DEF Injection, IsInjective
<1>5. IsFiniteSet(DOMAIN channelDefined) /\ Total <= Len(servoIDToDMAChannel)
  BY <1>3, <1>4, FS_Injection DEF Total
<1>6. /\ Total \in Nat /\ (DOMAIN channelDefined # {} => Total # 0)
  BY <1>5, FS_CardinalityType, FS_EmptySet DEF Total
<1>7. SlotTics \in Nat /\ MaxServos <= SlotTics /\ MaxServos \in Nat \ {0}
  BY ConfigAssumption DEF ConfigAssumption, SlotTics
<1> QED
  BY <1>2, <1>5, <1>6, <1>7

(* The delays of a slot: the second is what the first leaves of the slot's *)
(* share.                                                                  *)
LEMMA DelaysOf ==
  ASSUME IInv, NEW c \in DOMAIN slots, NEW total \in 1 .. SlotTics,
         NEW t \in Slot
  PROVE  LET txs == InitCBs(slots[c], total)[t]
             share == (4 * SlotTics) \div total
         IN  /\ txs \in Delays
             /\ txs.on + txs.off = share
<1> DEFINE refs == slots[c]
           share == (4 * SlotTics) \div total
           on == IF refs[t] = Vacant
                 THEN 4 ELSE (4 * servoList[refs[t]].location) \div total
<1>1. SlotTics \in Nat /\ SlotTics >= 1
  BY Channels
<1>2. total \in Nat \ {0}
  BY <1>1
<1>3. share \in Nat /\ share <= 4 * SlotTics /\ 4 <= share
  <2>1. 4 * total <= 4 * SlotTics /\ 4 * SlotTics \in Nat
    BY <1>1
  <2> QED
    BY <1>2, <2>1, Quotients
<1>4. on \in Nat /\ on <= share
  <2>1. CASE refs[t] = Vacant
    BY <1>3, <2>1
  <2>2. CASE refs[t] # Vacant
    <3>1. refs = ServoRef(c) /\ ~TooMany(c) /\ servoList \in Seq(ServoObject)
      BY DEF IInv, SlotInv, MapInv, Types
    <3>2. refs[t] \in 1 .. Len(servoList)
      BY <2>2, <3>1, SlotOfServo DEF OnChannel
    <3>3. servoList[refs[t]] \in ServoObject
      BY <3>1, <3>2, ElementOfSeq
    <3>4. servoList[refs[t]].location \in MinOn .. MaxOn
      BY <3>3 DEF ServoObject
    <3> HIDE DEF refs
    <3>5. /\ servoList[refs[t]].location \in Nat
          /\ servoList[refs[t]].location <= SlotTics
      BY <3>4, ConfigAssumption DEF ConfigAssumption, SlotTics
    <3>6. /\ 4 * servoList[refs[t]].location \in Nat /\ 4 * SlotTics \in Nat
          /\ 4 * servoList[refs[t]].location <= 4 * SlotTics
      BY <1>1, <3>5
    <3> QED
      BY <1>2, <2>2, <3>6, Quotients
  <2> QED
    BY <2>1, <2>2
<1>5. InitCBs(refs, total)[t] = [on |-> on, off |-> share - on]
  BY DEF InitCBs
<1> HIDE DEF refs, share, on
<1>6. share - on \in 0 .. 4 * SlotTics /\ on \in 0 .. 4 * SlotTics
      /\ on + (share - on) = share
  BY <1>1, <1>3, <1>4
<1>7. [on |-> on, off |-> share - on] \in Delays
  BY <1>6 DEF Delays
<1> QED
  BY <1>5, <1>6, <1>7 DEF refs, share

(* Every delay is of the size its control block can hold: the uint32_t     *)
(* subtraction of dmaInitCBs does not wrap, however many channels share    *)
(* the pace and wherever MIN_ON and MAX_ON put a servo's middle.           *)
THEOREM TypeCorrect == Spec => []TypeOK
<1>1. ASSUME IInv PROVE TypeOK
  <2>1. Types /\ ServoInv /\ MapInv /\ SlotInv
    BY <1>1 DEF IInv
  <2>2. \A i \in 1 .. Len(servoList) : servoList[i].location \in MinOn .. MaxOn
    <3> SUFFICES ASSUME NEW i \in 1 .. Len(servoList)
                 PROVE  servoList[i].location \in MinOn .. MaxOn
      OBVIOUS
    <3>1. servoList[i] \in ServoObject
      BY <2>1, ElementOfSeq DEF Types
    <3> QED
      BY <3>1 DEF ServoObject
  <2>3. ASSUME NEW c \in DOMAIN slots
        PROVE  /\ slots[c] \in [Slot -> 0 .. Len(servoList)]
               /\ txLen[c] \in [Slot -> Delays]
    <3>1. slots[c] = ServoRef(c) /\ ~TooMany(c)
      BY <2>1 DEF SlotInv, MapInv
    <3>2. slots[c] \in [Slot -> 0 .. Len(servoList)]
      BY <2>1, <3>1, SlotOfServo DEF Types
    <3>3. PICK total \in 1 .. SlotTics : txLen[c] = InitCBs(slots[c], total)
      BY <1>1, <2>1, Channels DEF SlotInv
    <3>4. \A t \in Slot : txLen[c][t] \in Delays
      BY <1>1, <3>3, DelaysOf
    <3>5. txLen[c] = [t \in Slot |-> txLen[c][t]]
      BY <3>3 DEF InitCBs
    <3> QED
      BY <3>2, <3>4, <3>5
  <2> QED
    BY <2>1, <2>2, <2>3 DEF Types, ServoInv, SlotInv, TypeOK
<1> QED
  BY <1>1, Invariant, PTL

(* A client's servo number is the number of its line, whatever the file    *)
(* holds besides.                                                          *)
THEOREM NumbersAreLines == Spec => []NumberedByLine
<1>1. ASSUME IInv PROVE NumberedByLine
  <2> SUFFICES ASSUME pc = "running", NEW i \in 1 .. Len(servoList)
               PROVE  /\ file[i] # Malformed
                      /\ servoList[i].gpioBit = file[i].pin
                      /\ servoList[i].DMAChannel = file[i].channel
    BY DEF NumberedByLine
  <2>1. servoList[i] = NewServo(definitionList[i])
    BY <1>1 DEF IInv, ServoInv
  <2>2. i \in 1 .. Len(definitionList)
    BY <1>1 DEF IInv, ServoInv
  <2>3. definitionList[i] = file[i] /\ file[i] # Malformed
    BY <1>1, <2>2 DEF IInv, ReadInv
  <2> QED
    BY <2>1, <2>3 DEF NewServo
<1> QED
  BY <1>1, Invariant, PTL

(* However the servos are spread over channels, all slots last the same.   *)
THEOREM SlotsSharePace == Spec => []SharedPace
<1>1. ASSUME IInv PROVE SharedPace
  <2> SUFFICES ASSUME pc = "running", NEW c \in DOMAIN txLen, NEW t \in Slot
               PROVE  txLen[c][t].on + txLen[c][t].off
                        = (4 * SlotTics) \div Total
    BY DEF SharedPace, Total
  <2>1. DOMAIN txLen = DOMAIN slots /\ DOMAIN slots = DOMAIN channelDefined
    BY <1>1 DEF IInv, SlotInv
  <2>2. Total \in 1 .. SlotTics
    BY <1>1, <2>1, Channels
  <2>3. txLen[c] = InitCBs(slots[c], Total)
    <3>1. txLen[c] = InitCBs(slots[c], IF Total > 1 THEN Total ELSE 1)
      BY <1>1, <2>1 DEF IInv, SlotInv
    <3>2. (IF Total > 1 THEN Total ELSE 1) = Total
      BY <1>1, <2>2, Channels
    <3> QED
      BY <3>1, <3>2
  <2> QED
    BY <1>1, <2>1, <2>2, <2>3, DelaysOf
<1> QED
  BY <1>1, Invariant, PTL

(* Every servo has one slot, on the channel its line names, and its number *)
(* leads there.                                                            *)
THEOREM ServosAreDriven == Spec => []EveryServoDriven
<1>1. ASSUME IInv PROVE EveryServoDriven
  <2> SUFFICES ASSUME pc = "running", NEW i \in 1 .. Len(servoList)
               PROVE  LET c == servoList[i].DMAChannel
                      IN  /\ {d \in DOMAIN slots :
                                \E t \in Slot : slots[d][t] = i} = {c}
                          /\ Cardinality({t \in Slot : slots[c][t] = i}) = 1
                          /\ servoIDToDMAChannel[i] = c
    BY DEF EveryServoDriven
  <2> DEFINE c == servoList[i].DMAChannel
  <2>1. /\ Done = 1 .. Len(servoList) /\ servoIDToDMAChannel[i] = c
        /\ DOMAIN slots = {servoList[j].DMAChannel : j \in Done}
        /\ \A d \in DOMAIN slots : slots[d] = ServoRef(d) /\ ~TooMany(d)
        /\ servoList \in Seq(ServoObject)
    BY <1>1 DEF IInv, MapInv, SlotInv, Types, Done
  <2>2. c \in DOMAIN slots /\ i \in OnChannel(c)
    BY <2>1 DEF OnChannel
  <2>3. Place(i, c) \in Slot
    BY <2>1, <2>2, Placed
  <2>4. {t \in Slot : slots[c][t] = i} = {Place(i, c)}
    <3>1. \A t \in Slot : slots[c][t] = i <=> t = Place(i, c)
      BY <2>1, <2>2, SlotOfServo
    <3> QED
      BY <2>3, <3>1
  <2>5. ASSUME NEW d \in DOMAIN slots, NEW t \in Slot, slots[d][t] = i
        PROVE  d = c
    <3>1. i \in OnChannel(d) \cup {Vacant}
      BY <2>1, <2>5, SlotOfServo
    <3> QED
      BY <3>1 DEF OnChannel, Vacant
  <2>6. \E t \in Slot : slots[c][t] = i
    BY <2>3, <2>4
  <2>7. {d \in DOMAIN slots : \E t \in Slot : slots[d][t] = i} = {c}
    BY <2>2, <2>5, <2>6
  <2> QED
    BY <2>1, <2>4, <2>7, FS_Singleton
<1> QED
  BY <1>1, Invariant, PTL

(* The tests of readServoList and of the constructors add up to the rules: *)
(* every daemon that runs keeps them all, and there is no refusal without  *)
(* one that is broken, for files of any length, well-formed or not.        *)
THEOREM RefusalsAreRight == Spec => []RefusesUnacceptable
<1>1. ASSUME IInv, pc = "running" PROVE FollowRules(1 .. Len(servoList))
  <2> DEFINE lines == 1 .. Len(servoList)
  <2>1. Types /\ ReadInv /\ ServoInv /\ MapInv
    BY <1>1 DEF IInv
  <2>2. /\ Len(servoList) \in Nat
        /\ \A i \in lines : /\ servoList[i].gpioBit = file[i].pin
                            /\ servoList[i].DMAChannel = file[i].channel
    BY <2>1, ServosOfLines
  <2>3. Len(servoList) = Len(definitionList) /\ definitionList # <<>>
        /\ Len(servoList) <= MaxServos
    BY <1>1, <2>1 DEF ServoInv
  <2>4. Len(servoList) # 0
    BY <2>1, <2>3, EmptySeq DEF Types
  <2>5. Cardinality(lines) \in 1 .. MaxServos
    <3>1. Cardinality(lines) = Len(servoList)
      BY <2>2, <2>4, FS_Interval
    <3> QED
      BY <2>2, <2>3, <2>4, <3>1, ConfigAssumption DEF ConfigAssumption
  <2>6. \A i, j \in lines : file[i].pin = file[j].pin => i = j
    BY <1>1, <2>1, <2>2 DEF MapInv, Done
  <2>7. ASSUME NEW c \in ChannelNumbers
        PROVE  Cardinality({i \in lines : file[i].channel = c}) <= NumSlots
    <3>1. OnChannel(c) = {i \in lines : file[i].channel = c}
      BY <2>2 DEF OnChannel
    <3>2. NumSlots \in Nat /\ Cardinality(OnChannel(c)) \in Nat
      BY <2>1, ServosOfChannel, ConfigAssumption DEF ConfigAssumption, Types
    <3> SUFFICES Cardinality(OnChannel(c)) <= NumSlots
      BY <3>1
    <3>3. CASE OnChannel(c) = {}
      BY <3>2, <3>3, FS_EmptySet
    <3>4. CASE OnChannel(c) # {}
      <4>1. c \in DOMAIN channelDefined
        BY <1>1, <2>1, <3>4 DEF MapInv, OnChannel, Done
      <4> QED
        BY <2>1, <3>2, <4>1 DEF MapInv, TooMany
    <3> QED
      BY <3>3, <3>4
  <2>8. \A i \in lines : file[i].channel <= MaxChannel
    BY <2>1, <2>3, ListOfLines DEF ReadInv
  <2> HIDE DEF lines
  <2> QED
    BY <2>5, <2>6, <2>7, <2>8 DEF FollowRules, lines
<1>2. ASSUME IInv, pc = "running", WellFormed
      PROVE  Len(servoList) = Len(file)
  <2>1. /\ Types /\ Len(servoList) = Len(definitionList)
        /\ \/ Len(definitionList) = Complete
           \/ file[Len(definitionList) + 1] = Malformed
        /\ Len(definitionList) <= linesRead /\ linesRead <= Complete
    BY <1>2 DEF IInv, ReadInv, ServoInv
  <2>2. /\ Len(definitionList) \in Nat /\ linesRead \in Nat
        /\ Len(file) \in Nat /\ DOMAIN file = 1 .. Len(file)
    BY <2>1 DEF Types
  <2>3. Complete = Len(file)
    BY <1>2 DEF WellFormed, Complete
  <2>4. \A i \in 1 .. Len(file) : file[i] # Malformed
    BY <1>2, <2>2 DEF WellFormed, Definitions
  <2> QED
    BY <2>1, <2>2, <2>3, <2>4
<1>3. IInv => RefusesUnacceptable
  BY <1>1, <1>2 DEF IInv, RefuseInv, RefusesUnacceptable
<1> QED
  BY <1>3, Invariant, PTL
=============================================================================
