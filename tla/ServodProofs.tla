----------------------------- MODULE ServodProofs -----------------------------
(***************************************************************************)
(* What is proved of the running daemon: its types, that the channels are  *)
(* swapped together, and, for one channel and lines that all move a servo  *)
(* or stop, that the bank rewritten is spare and the pulses requested.     *)
(***************************************************************************)
EXTENDS Servod, FiniteSetTheorems, SequenceTheorems, TLAPS

(* The type invariant in the parts it is proved in; how many writers there *)
(* are is a matter of its own.                                             *)
Pipes == [data : Seq(Lines), writers : Nat, reader : BOOLEAN,
          visited : BOOLEAN]
ClientTypes == /\ client \in [Clients -> {"idle", "open", "gone"}]
               /\ writes \in [Clients -> 0 .. MaxWrites]
FlowTypes == /\ pc \in {"select", "read", "close", "reopen", "parse", "swap",
                        "sleep", "noPulse", "done"}
             /\ stayInLoop \in BOOLEAN /\ linesPerEvent \in BOOLEAN
             /\ signals \in 0 .. MaxSignals
PulseTypes == /\ location \in [Servos -> Location]
              /\ frame \in [Bank -> [Servos -> Location]]
LinkTypes == /\ wrap \in [Channels -> [Bank -> Bank]]
             /\ lastCBStart \in [Channels -> Bank]
             /\ playing \in [Channels -> Bank]
             /\ ended \subseteq Channels

(* The clients that have the FIFO open; fifo.writers counts them. *)
Open == {c \in Clients : client[c] = "open"}
WritersInv == fifo.writers = Cardinality(Open)

(* What is to do is the rest of SwapOrder; it is empty between two passes. *)
TodoInv ==
  IF pc \in {"swap", "sleep"}
  THEN /\ Len(todo) \in 1 .. Len(SwapOrder)
       /\ todo = SubSeq(SwapOrder, Len(SwapOrder) - Len(todo) + 1,
                        Len(SwapOrder))
  ELSE todo = <<>>
QueueInv == buff \in Seq(Lines) /\ TodoInv

TypeInv == /\ fifo \in Pipes /\ ClientTypes /\ FlowTypes /\ PulseTypes
           /\ LinkTypes /\ WritersInv /\ QueueInv
-----------------------------------------------------------------------------
LEMMA OrderFacts ==
  /\ SwapOrder \in Seq(Channels) /\ Len(SwapOrder) \in Nat
  /\ Len(SwapOrder) >= 1
  /\ \A i \in 1 .. Len(SwapOrder) : SwapOrder[i] \in Channels
BY DaemonAssumption, EmptySeq, ElementOfSeq DEF DaemonAssumption

(* What the operators on the pipe do to its types. *)
LEMMA PipeOperators ==
  ASSUME NEW f \in Pipes
  PROVE  /\ OpenReader(f) \in Pipes /\ CloseReader(f) \in Pipes
         /\ OpenWriter(f) \in Pipes
         /\ f.writers > 0 => CloseWriter(f) \in Pipes
         /\ \A line \in Lines : Put(f, line) \in Pipes
<1> USE DEF Pipes
<1>1. OpenReader(f) \in Pipes
  <2>1. \A v \in BOOLEAN : [f EXCEPT !.reader = TRUE, !.visited = v] \in Pipes
    OBVIOUS
  <2>2. (f.writers > 0) \in BOOLEAN
    OBVIOUS
  <2> QED
    BY <2>1, <2>2, Zenon DEF OpenReader
<1>2. CloseReader(f) \in Pipes
  <2>1. \A d \in Seq(Lines) : [f EXCEPT !.reader = FALSE, !.data = d] \in Pipes
    OBVIOUS
  <2>2. (IF f.writers = 0 THEN <<>> ELSE f.data) \in Seq(Lines)
    OBVIOUS
  <2> QED
    BY <2>1, <2>2, Zenon DEF CloseReader
<1>3. OpenWriter(f) \in Pipes
  <2>1. \A w \in Nat : [f EXCEPT !.writers = w, !.visited = TRUE] \in Pipes
    OBVIOUS
  <2>2. f.writers + 1 \in Nat
    OBVIOUS
  <2> QED
    BY <2>1, <2>2, Zenon DEF OpenWriter
<1>4. ASSUME f.writers > 0 PROVE CloseWriter(f) \in Pipes
  <2>1. \A w \in Nat, d \in Seq(Lines) :
          [f EXCEPT !.writers = w, !.data = d] \in Pipes
    OBVIOUS
  <2>2. f.writers - 1 \in Nat
    BY <1>4
  <2>3. (IF f.writers = 1 /\ ~f.reader THEN <<>> ELSE f.data) \in Seq(Lines)
    OBVIOUS
  <2> QED
    BY <2>1, <2>2, <2>3, Zenon DEF CloseWriter
<1>5. \A line \in Lines : Put(f, line) \in Pipes
  BY AppendProperties DEF Put
<1> QED
  BY <1>1, <1>2, <1>3, <1>4, <1>5

(* A read takes lines from the front of the pipe, and at least one. *)
LEMMA ReadFacts ==
  ASSUME fifo \in Pipes, fifo.data # <<>>
  PROVE  /\ First(fifo, BuffLines) \in Seq(Lines)
         /\ First(fifo, BuffLines) # <<>>
         /\ Take(fifo, BuffLines) \in Pipes
         /\ Take(fifo, BuffLines).writers = fifo.writers
<1> DEFINE n == IF Len(fifo.data) < BuffLines THEN Len(fifo.data) ELSE BuffLines
<1>1. /\ fifo.data \in Seq(Lines) /\ Len(fifo.data) \in Nat \ {0}
      /\ BuffLines \in Nat \ {0}
  BY DaemonAssumption, EmptySeq DEF DaemonAssumption, Pipes
<1>2. n \in 1 .. Len(fifo.data)
  BY <1>1
<1>3. \A i \in 1 .. Len(fifo.data) : fifo.data[i] \in Lines
  BY <1>1, ElementOfSeq
<1>4. /\ SubSeq(fifo.data, 1, n) \in Seq(Lines)
      /\ Len(SubSeq(fifo.data, 1, n)) = n
  BY <1>1, <1>2, <1>3, SubSeqProperties
<1>5. SubSeq(fifo.data, BuffLines + 1, Len(fifo.data)) \in Seq(Lines)
  BY <1>1, <1>3, SubSeqProperties
<1>6. SubSeq(fifo.data, 1, n) # <<>>
  BY <1>2, <1>4, EmptySeq
<1>7. First(fifo, BuffLines) = SubSeq(fifo.data, 1, n)
  BY DEF First
<1> QED
  BY <1>4, <1>5, <1>6, <1>7 DEF Take, Pipes

(* There are finitely many clients, so the open ones can be counted. *)
LEMMA OpenFacts ==
  /\ IsFiniteSet(Open) /\ Cardinality(Open) \in 0 .. Cardinality(Clients)
  /\ \A c \in Open : Cardinality(Open) > 0
<1>1. IsFiniteSet(Clients) /\ Open \in SUBSET Clients
  BY DaemonAssumption DEF DaemonAssumption, Open
<1>2. IsFiniteSet(Open) /\ Cardinality(Open) <= Cardinality(Clients)
  BY <1>1, FS_Subset
<1>3. Cardinality(Open) \in Nat /\ Cardinality(Clients) \in Nat
  BY <1>1, <1>2, FS_CardinalityType
<1>4. \A c \in Open : Cardinality(Open) # 0
  BY <1>2, FS_EmptySet
<1> QED
  BY <1>2, <1>3, <1>4

(* The bounds of the model are natural numbers. *)
LEMMA Bounds ==
  /\ 0 \in 0 .. MaxWrites /\ 0 \in 0 .. MaxSignals
  /\ \A n \in 0 .. MaxWrites : n < MaxWrites => n + 1 \in 0 .. MaxWrites
  /\ \A n \in 0 .. MaxSignals : n < MaxSignals => n + 1 \in 0 .. MaxSignals
BY DaemonAssumption, SMT DEF DaemonAssumption

LEMMA TypesInit == Init => TypeInv
<1> SUFFICES ASSUME Init PROVE TypeInv
  OBVIOUS
<1>1. Empty \in Pipes /\ Empty.writers = 0
  BY DEF Empty, Pipes
<1>2. fifo \in Pipes /\ fifo.writers = 0
  <2>1. OpenReader(Empty).writers = Empty.writers
    BY <1>1 DEF OpenReader, Pipes
  <2> QED
    BY <1>1, <2>1, PipeOperators DEF Init
<1>3. ClientTypes
  BY Bounds DEF Init, ClientTypes
<1>4. FlowTypes
  BY Bounds DEF Init, FlowTypes
<1>5. PulseTypes
  <2>1. (MinOn + MaxOn) \div 2 \in Location
    BY DaemonAssumption, SMT DEF DaemonAssumption, Location
  <2> QED
    BY <2>1 DEF Init, PulseTypes
<1>6. LinkTypes
  BY DEF Init, LinkTypes, Bank
<1>7. WritersInv
  <2>1. Open = {}
    BY DEF Init, Open
  <2> QED
    BY <1>2, <2>1, FS_EmptySet DEF WritersInv
<1>8. QueueInv
  BY DEF Init, QueueInv, TodoInv
<1> QED
  BY <1>2, <1>3, <1>4, <1>5, <1>6, <1>7, <1>8 DEF TypeInv

(* The pipe and those who write to it. *)
LEMMA WritersStep ==
  ASSUME TypeInv, [Next]_vars
  PROVE  fifo' \in Pipes /\ WritersInv'
<1> USE DEF TypeInv
<1>0. CASE UNCHANGED <<fifo, client>>
  BY <1>0 DEF WritersInv, Open
<1>1. ASSUME UNCHANGED client, fifo' \in Pipes, fifo'.writers = fifo.writers
      PROVE  fifo' \in Pipes /\ WritersInv'
  BY <1>1 DEF WritersInv, Open
<1>2. CASE ReadLines
  <2>1. fifo' = Take(fifo, BuffLines) /\ fifo.data # <<>> /\ UNCHANGED client
    BY <1>2 DEF ReadLines, clientVars
  <2> QED
    BY <1>1, <2>1, ReadFacts
<1>3. CASE CloseFifo \/ LeaveLoop
  <2>1. fifo' = CloseReader(fifo) /\ UNCHANGED client
    BY <1>3 DEF CloseFifo, LeaveLoop, clientVars
  <2>2. CloseReader(fifo).writers = fifo.writers
    BY DEF CloseReader, Pipes
  <2> QED
    BY <1>1, <2>1, <2>2, PipeOperators
<1>4. CASE ReopenFifo
  <2>1. fifo' = OpenReader(fifo) /\ UNCHANGED client
    BY <1>4 DEF ReopenFifo, clientVars
  <2>2. OpenReader(fifo).writers = fifo.writers
    BY DEF OpenReader, Pipes
  <2> QED
    BY <1>1, <2>1, <2>2, PipeOperators
<1>5. ASSUME NEW c \in Clients, NEW line \in Lines, ClientWrite(c, line)
      PROVE  fifo' \in Pipes /\ WritersInv'
  <2>1. fifo' = Put(fifo, line) /\ UNCHANGED client
    BY <1>5 DEF ClientWrite
  <2>2. Put(fifo, line).writers = fifo.writers
    BY DEF Put, Pipes
  <2> QED
    BY <1>1, <2>1, <2>2, PipeOperators
<1>6. ASSUME NEW c \in Clients, ClientOpen(c)
      PROVE  fifo' \in Pipes /\ WritersInv'
  <2>1. /\ fifo' = OpenWriter(fifo) /\ client[c] = "idle"
        /\ client' = [client EXCEPT ![c] = "open"]
    BY <1>6 DEF ClientOpen
  <2>2. c \notin Open /\ Open' = Open \union {c}
    BY <2>1 DEF Open, ClientTypes
  <2>3. Cardinality(Open') = Cardinality(Open) + 1
    BY <2>2, OpenFacts, FS_AddElement
  <2>4. OpenWriter(fifo).writers = fifo.writers + 1
    BY DEF OpenWriter, Pipes
  <2> QED
    BY <2>1, <2>3, <2>4, PipeOperators DEF WritersInv
<1>7. ASSUME NEW c \in Clients, ClientClose(c)
      PROVE  fifo' \in Pipes /\ WritersInv'
  <2>1. /\ fifo' = CloseWriter(fifo) /\ client[c] = "open"
        /\ client' = [client EXCEPT ![c] = "gone"]
    BY <1>7 DEF ClientClose
  <2>2. c \in Open /\ Open' = Open \ {c}
    BY <2>1 DEF Open, ClientTypes
  <2>3. Cardinality(Open') = Cardinality(Open) - 1
    BY <2>2, OpenFacts, FS_RemoveElement
  <2>4. fifo.writers > 0
    BY <2>2, OpenFacts DEF WritersInv
  <2>5. CloseWriter(fifo).writers = fifo.writers - 1
    BY DEF CloseWriter, Pipes
  <2> QED
    BY <2>1, <2>3, <2>4, <2>5, PipeOperators DEF WritersInv
<1> QED
  BY <1>0, <1>2, <1>3, <1>4, <1>5, <1>6, <1>7
  DEF Next, Daemon, Client, Terminated, Select, ReadEOF, ReadError, MoveServo,
      StopLine, RejectLine, NextLine, EndOfBuff, SwapChannel, Wake, EndRound,
      Finish, Interrupt, vars, clientVars

LEMMA ClientsStep ==
  ASSUME ClientTypes, [Next]_vars
  PROVE  ClientTypes'
<1>1. CASE UNCHANGED clientVars
  BY <1>1 DEF clientVars, ClientTypes
<1>2. ASSUME NEW c \in Clients, Client(c) PROVE ClientTypes'
  <2>1. CASE ClientOpen(c) \/ ClientClose(c)
    BY <2>1 DEF ClientOpen, ClientClose, ClientTypes
  <2>2. CASE \E line \in Lines : ClientWrite(c, line)
    BY <2>2, Bounds DEF ClientWrite, ClientTypes
  <2> QED
    BY <1>2, <2>1, <2>2 DEF Client
<1> QED
  BY <1>1, <1>2
  DEF Next, Daemon, Terminated, Select, ReadLines, ReadEOF, ReadError,
      CloseFifo, ReopenFifo, MoveServo, StopLine, RejectLine, NextLine,
      EndOfBuff, SwapChannel, Wake, EndRound, LeaveLoop, Finish, Interrupt,
      vars

LEMMA FlowStep ==
  ASSUME FlowTypes, [Next]_vars
  PROVE  FlowTypes'
<1>1. CASE UNCHANGED <<pc, stayInLoop, linesPerEvent, signals>>
  BY <1>1 DEF FlowTypes
<1>2. CASE Interrupt
  <2>1. signals' \in 0 .. MaxSignals
    BY <1>2, Bounds DEF Interrupt, FlowTypes
  <2> QED
    BY <1>2, <2>1 DEF Interrupt, Awake, FlowTypes
<1>3. CASE Select \/ ReadLines \/ ReadEOF \/ ReadError \/ CloseFifo
  BY <1>3 DEF Select, ReadLines, ReadEOF, ReadError, CloseFifo, FlowTypes
<1>4. CASE ReopenFifo \/ MoveServo \/ StopLine \/ RejectLine \/ EndOfBuff
  BY <1>4
  DEF ReopenFifo, MoveServo, StopLine, RejectLine, NextLine, EndOfBuff,
      FlowTypes
<1>5. CASE SwapChannel \/ Wake \/ LeaveLoop \/ Finish
  BY <1>5 DEF SwapChannel, Wake, Awake, LeaveLoop, Finish, FlowTypes
<1> QED
  BY <1>1, <1>2, <1>3, <1>4, <1>5
  DEF Next, Daemon, Terminated, EndRound, Client, ClientOpen, ClientWrite,
      ClientClose, vars

(* Only a line that moves a servo changes a location or a bank. *)
LEMMA PulseStep ==
  ASSUME PulseTypes, LinkTypes, [Next]_vars
  PROVE  PulseTypes'
<1>1. CASE UNCHANGED <<location, frame>>
  BY <1>1 DEF PulseTypes
<1>2. CASE MoveServo
  <2>1. PICK line : line = Head(buff)
    OBVIOUS
  <2>2. line.id \in Servos /\ line.width \in Location
    BY <1>2, <2>1 DEF MoveServo, Moves
  <2>3. location' = [location EXCEPT ![line.id] = line.width]
    BY <1>2, <2>1 DEF MoveServo
  <2>4. location' \in [Servos -> Location]
    BY <2>2, <2>3 DEF PulseTypes
  <2>5. PICK c, b : /\ c = ChannelOf[line.id] /\ b = Other(lastCBStart[c])
    OBVIOUS
  <2>6. frame' = [frame EXCEPT ![b] =
                    [s \in Servos |->
                       IF ChannelOf[s] = c THEN location'[s] ELSE @[s]]]
    BY <1>2, <2>1, <2>5 DEF MoveServo
  <2>7. frame' \in [Bank -> [Servos -> Location]]
    <3> SUFFICES ASSUME NEW d \in Bank
                 PROVE  frame'[d] \in [Servos -> Location]
      BY <2>6 DEF PulseTypes
    <3>1. CASE d = b
      BY <2>4, <2>6, <3>1 DEF PulseTypes
    <3>2. CASE d # b
      BY <2>6, <3>2 DEF PulseTypes
    <3> QED
      BY <3>1, <3>2
  <2> QED
    BY <2>4, <2>7 DEF PulseTypes
<1> QED
  BY <1>1, <1>2
  DEF Next, Daemon, Terminated, Select, ReadLines, ReadEOF, ReadError,
      CloseFifo, ReopenFifo, StopLine, RejectLine, EndOfBuff, SwapChannel,
      Wake, EndRound, LeaveLoop, Finish, Interrupt, Client, ClientOpen,
      ClientWrite, ClientClose, vars, channelVars

(* During a pass there is a channel at hand, and what follows it. *)
LEMMA TodoFacts ==
  ASSUME QueueInv, pc \in {"swap", "sleep"}
  PROVE  /\ todo \in Seq(Channels) /\ Len(todo) \in 1 .. Len(SwapOrder)
         /\ Head(todo) = SwapOrder[Len(SwapOrder) - Len(todo) + 1]
         /\ Head(todo) \in Channels
         /\ Len(Tail(todo)) = Len(todo) - 1
         /\ Tail(todo) = SubSeq(SwapOrder, Len(SwapOrder) - Len(todo) + 2,
                               Len(SwapOrder))
         /\ Tail(todo) = <<>> <=> Len(todo) = 1
<1> DEFINE N == Len(SwapOrder)
           m == N - Len(todo) + 1
<1>1. /\ N \in Nat /\ Len(todo) \in 1 .. N /\ todo = SubSeq(SwapOrder, m, N)
      /\ m \in 1 .. N /\ N \in m .. N
  BY OrderFacts DEF QueueInv, TodoInv
<1>2. todo \in Seq(Channels)
  <2>1. \A i \in m .. N : SwapOrder[i] \in Channels
    BY <1>1, OrderFacts
  <2>2. m \in Int /\ N \in Int
    BY <1>1
  <2>3. SubSeq(SwapOrder, m, N) \in Seq(Channels)
    BY <2>1, <2>2, SubSeqProperties
  <2> QED
    BY <1>1, <2>3
<1>3. todo # <<>>
  BY <1>1, EmptySeq
<1>4. Head(todo) = SwapOrder[m] /\ Tail(todo) = SubSeq(SwapOrder, m + 1, N)
  BY <1>1, OrderFacts, HeadTailOfSubSeq
<1>5. Tail(todo) \in Seq(Channels) /\ Len(Tail(todo)) = Len(todo) - 1
      /\ Head(todo) \in Channels
  BY <1>2, <1>3, HeadTailProperties
<1>6. Tail(todo) = <<>> <=> Len(todo) = 1
  <2>1. Tail(todo) = <<>> => Len(Tail(todo)) = 0
    BY EmptySeq
  <2>2. Tail(todo) # <<>> => Len(Tail(todo)) # 0
    BY <1>5, EmptySeq
  <2>3. Len(Tail(todo)) = 0 <=> Len(todo) = 1
    BY <1>1, <1>5
  <2> QED
    BY <2>1, <2>2, <2>3
<1>7. m + 1 = N - Len(todo) + 2
  BY <1>1
<1> QED
  BY <1>1, <1>2, <1>4, <1>5, <1>6, <1>7

LEMMA QueueStep ==
  ASSUME TypeInv, [Next]_vars
  PROVE  QueueInv'
<1> USE DEF TypeInv
<1>1. CASE UNCHANGED <<pc, buff, todo>>
  BY <1>1 DEF QueueInv, TodoInv
<1>2. ASSUME UNCHANGED <<buff, todo>>, pc \notin {"swap", "sleep"},
             pc' \notin {"swap", "sleep"}
      PROVE  QueueInv'
  BY <1>2 DEF QueueInv, TodoInv
<1>3. CASE ReadLines
  BY <1>3, ReadFacts DEF ReadLines, QueueInv, TodoInv
<1>4. CASE MoveServo \/ StopLine \/ RejectLine
  <2>1. /\ buff # <<>> /\ buff' = Tail(buff) /\ UNCHANGED <<pc, todo>>
    BY <1>4 DEF MoveServo, StopLine, RejectLine, NextLine
  <2> QED
    BY <2>1, HeadTailProperties DEF QueueInv, TodoInv
<1>5. CASE EndOfBuff
  <2>1. CASE linesPerEvent
    <3>1. todo' = SwapOrder /\ pc' = "swap" /\ UNCHANGED buff
      BY <1>5, <2>1 DEF EndOfBuff
    <3>2. SubSeq(SwapOrder, Len(SwapOrder) - Len(SwapOrder) + 1,
                 Len(SwapOrder)) = SwapOrder
      BY OrderFacts, SubSeqFull
    <3> QED
      BY <3>1, <3>2, OrderFacts DEF QueueInv, TodoInv
  <2>2. CASE ~linesPerEvent
    BY <1>2, <1>5, <2>2 DEF EndOfBuff
  <2> QED
    BY <2>1, <2>2
<1>6. CASE SwapChannel
  BY <1>6 DEF SwapChannel, QueueInv, TodoInv
<1>7. ASSUME pc = "sleep", Awake, UNCHANGED buff
      PROVE  QueueInv'
  <2>1. /\ todo' = Tail(todo)
        /\ pc' = IF Tail(todo) = <<>> THEN "read" ELSE "swap"
    BY <1>7 DEF Awake
  <2>2. CASE Tail(todo) = <<>>
    BY <1>7, <2>1, <2>2 DEF QueueInv, TodoInv
  <2>3. CASE Tail(todo) # <<>>
    <3>1. Len(todo') = Len(todo) - 1 /\ Len(todo') \in 1 .. Len(SwapOrder)
      BY <1>7, <2>1, <2>3, TodoFacts, OrderFacts
    <3>2. Len(SwapOrder) - Len(todo') + 1 = Len(SwapOrder) - Len(todo) + 2
      BY <1>7, <3>1, TodoFacts, OrderFacts
    <3> QED
      BY <1>7, <2>1, <2>3, <3>1, <3>2, TodoFacts DEF QueueInv, TodoInv
  <2> QED
    BY <2>2, <2>3
<1>8. CASE Interrupt
  BY <1>1, <1>7, <1>8 DEF Interrupt
<1>9. CASE Wake
  BY <1>7, <1>9 DEF Wake
<1>10. CASE \/ Select \/ ReadEOF \/ ReadError \/ CloseFifo \/ ReopenFifo
            \/ LeaveLoop \/ Finish
  BY <1>2, <1>10
  DEF Select, ReadEOF, ReadError, CloseFifo, ReopenFifo, LeaveLoop, Finish
<1> QED
  BY <1>1, <1>3, <1>4, <1>5, <1>6, <1>8, <1>9, <1>10
  DEF Next, Daemon, Terminated, EndRound, Client, ClientOpen, ClientWrite,
      ClientClose, vars

LEMMA LinkStep ==
  ASSUME TypeInv, [Next]_vars
  PROVE  LinkTypes'
<1> USE DEF TypeInv
<1>1. CASE UNCHANGED <<wrap, lastCBStart, playing, ended>>
  BY <1>1 DEF LinkTypes
<1>2. \A b \in Bank : Other(b) \in Bank
  BY DEF Bank, Other
<1>3. CASE MoveServo
  <2>1. PICK c, b : /\ c = ChannelOf[Head(buff).id]
                    /\ b = Other(lastCBStart[c])
    OBVIOUS
  <2>2. c \in Channels
    BY <1>3, <2>1, DaemonAssumption DEF DaemonAssumption, MoveServo, Moves
  <2>3. b \in Bank
    BY <1>2, <2>1, <2>2 DEF LinkTypes
  <2>4. /\ wrap' = [wrap EXCEPT ![c][b] = b]
        /\ UNCHANGED <<lastCBStart, playing, ended>>
    BY <1>3, <2>1 DEF MoveServo, NextLine
  <2> QED
    BY <2>2, <2>3, <2>4 DEF LinkTypes
<1>4. CASE SwapChannel
  <2>1. PICK c, b : c = Head(todo) /\ b = lastCBStart[c]
    OBVIOUS
  <2>2. c \in Channels
    BY <1>4, <2>1, TodoFacts DEF SwapChannel
  <2>3. b \in Bank /\ Other(b) \in Bank
    BY <1>2, <2>1, <2>2 DEF LinkTypes
  <2>4. /\ wrap' = [wrap EXCEPT ![c][b] = Other(b)]
        /\ lastCBStart' = [lastCBStart EXCEPT ![c] = Other(b)]
        /\ ended' = {} /\ UNCHANGED playing
    BY <1>4, <2>1 DEF SwapChannel
  <2> QED
    BY <2>2, <2>3, <2>4 DEF LinkTypes
<1>5. ASSUME NEW c \in Channels, EndRound(c) PROVE LinkTypes'
  <2>1. playing' \in [Channels -> Bank]
    BY <1>5 DEF EndRound, LinkTypes
  <2>2. ended' \subseteq Channels
    BY <1>5 DEF EndRound, LinkTypes
  <2> QED
    BY <1>5, <2>1, <2>2 DEF EndRound, channelVars, LinkTypes
<1> QED
  BY <1>1, <1>3, <1>4, <1>5
  DEF Next, Daemon, Terminated, Select, ReadLines, ReadEOF, ReadError,
      CloseFifo, ReopenFifo, StopLine, RejectLine, NextLine, EndOfBuff, Wake,
      LeaveLoop, Finish, Interrupt, Client, ClientOpen, ClientWrite,
      ClientClose, vars, channelVars

LEMMA TypesStep == TypeInv /\ [Next]_vars => TypeInv'
BY WritersStep, ClientsStep, FlowStep, PulseStep, LinkStep, QueueStep
DEF TypeInv

LEMMA Typed == Spec => []TypeInv
BY TypesInit, TypesStep, PTL DEF Spec

(* Whatever the clients write and however they come and go, what the       *)
(* daemon keeps of them and of the channels stays within its types; the    *)
(* writers counted by the FIFO are never more than there are clients.      *)
THEOREM TypeCorrect == Spec => []TypeOK
<1>1. ASSUME TypeInv PROVE TypeOK
  <2> USE <1>1 DEF TypeInv
  <2>1. todo \in Seq(Channels)
    <3>1. CASE pc \in {"swap", "sleep"}
      BY <3>1, TodoFacts
    <3>2. CASE pc \notin {"swap", "sleep"}
      BY <3>2 DEF QueueInv, TodoInv
    <3> QED
      BY <3>1, <3>2
  <2>2. fifo \in [data : Seq(Lines), writers : 0 .. Cardinality(Clients),
                 reader : BOOLEAN, visited : BOOLEAN]
    <3>1. fifo.writers \in 0 .. Cardinality(Clients)
      BY OpenFacts DEF WritersInv
    <3> QED
      BY <3>1 DEF Pipes
  <2> QED
    BY <2>1, <2>2
    DEF TypeOK, ClientTypes, FlowTypes, PulseTypes, LinkTypes, QueueInv
<1> QED
  BY <1>1, Typed, PTL

-----------------------------------------------------------------------------
(* Channels of SwapOrder, from the first, that this pass has swapped.      *)
Swapped ==
  IF pc \in {"swap", "sleep"}
  THEN Len(SwapOrder) - Len(todo) + (IF pc = "sleep" THEN 1 ELSE 0)
  ELSE 0

(* In a pass the channels already swapped differ from the others. *)
PassInv ==
  \A i, j \in 1 .. Len(SwapOrder) :
    (lastCBStart[SwapOrder[i]] = lastCBStart[SwapOrder[j]])
      <=> (i <= Swapped <=> j <= Swapped)

LEMMA PassInit == Init => PassInv
BY OrderFacts DEF Init, PassInv, Swapped

LEMMA SwappedType == TypeInv => Swapped \in 0 .. Len(SwapOrder)
BY OrderFacts, TodoFacts DEF TypeInv, Swapped

(* A pass ends when every channel has been swapped. *)
LEMMA SwappedAwake ==
  ASSUME TypeInv, pc = "sleep", Awake
  PROVE  Swapped' = Swapped \/ (Swapped = Len(SwapOrder) /\ Swapped' = 0)
<1>1. /\ todo' = Tail(todo)
      /\ pc' = IF Tail(todo) = <<>> THEN "read" ELSE "swap"
  BY DEF Awake
<1>2. /\ Len(todo) \in 1 .. Len(SwapOrder) /\ Len(Tail(todo)) = Len(todo) - 1
      /\ Tail(todo) = <<>> <=> Len(todo) = 1
  BY TodoFacts DEF TypeInv
<1>3. Len(SwapOrder) \in Nat
  BY OrderFacts
<1>4. Swapped = Len(SwapOrder) - Len(todo) + 1
  BY DEF Swapped
<1>5. ASSUME Tail(todo) = <<>>
      PROVE  Swapped = Len(SwapOrder) /\ Swapped' = 0
  <2>1. Len(todo) = 1
    BY <1>2, <1>5
  <2>2. pc' = "read"
    BY <1>1, <1>5
  <2> QED
    BY <1>3, <1>4, <2>1, <2>2 DEF Swapped
<1>6. ASSUME Tail(todo) # <<>> PROVE Swapped' = Swapped
  <2>1. pc' = "swap" /\ Len(todo') = Len(todo) - 1
    BY <1>1, <1>2, <1>6
  <2>2. Swapped' = Len(SwapOrder) - Len(todo') + 0
    BY <2>1 DEF Swapped
  <2>3. Len(todo) \in Nat
    BY <1>2
  <2> QED
    BY <1>3, <1>4, <2>1, <2>2, <2>3
<1> QED
  BY <1>5, <1>6

LEMMA PassStep ==
  ASSUME TypeInv, PassInv, [Next]_vars
  PROVE  PassInv'
<1> DEFINE N == Len(SwapOrder)
<1>1. /\ N \in Nat /\ Swapped \in 0 .. N
  BY OrderFacts, SwappedType
<1>2. CASE UNCHANGED <<lastCBStart, Swapped>>
  BY <1>2 DEF PassInv
<1>3. ASSUME UNCHANGED lastCBStart, Swapped = N, Swapped' = 0
      PROVE  PassInv'
  BY <1>1, <1>3 DEF PassInv
<1>4. CASE SwapChannel
  <2> DEFINE k == N - Len(todo) + 1
  <2>1. /\ pc = "swap" /\ pc' = "sleep" /\ UNCHANGED todo
        /\ lastCBStart' = [lastCBStart EXCEPT ![Head(todo)] =
                                          Other(lastCBStart[Head(todo)])]
    BY <1>4 DEF SwapChannel
  <2>2. /\ Head(todo) = SwapOrder[k] /\ Len(todo) \in 1 .. N
    BY <2>1, TodoFacts DEF TypeInv
  <2>3. k \in 1 .. N /\ Swapped = k - 1 /\ Swapped' = k
    BY <1>1, <2>1, <2>2 DEF Swapped
  <2>4. \A i \in 1 .. N : lastCBStart[SwapOrder[i]] \in {0, 1}
    BY OrderFacts DEF TypeInv, LinkTypes, Bank
  <2>5. /\ lastCBStart'[SwapOrder[k]] = Other(lastCBStart[SwapOrder[k]])
        /\ \A i \in 1 .. N : i # k =>
             lastCBStart'[SwapOrder[i]] = lastCBStart[SwapOrder[i]]
    <3>1. \A i \in 1 .. N : SwapOrder[i] = SwapOrder[k] => i = k
      BY <2>3, DaemonAssumption DEF DaemonAssumption
    <3>2. lastCBStart \in [Channels -> Bank]
      BY DEF TypeInv, LinkTypes
    <3> QED
      BY <2>1, <2>2, <2>3, <3>1, <3>2, OrderFacts
  <2> SUFFICES ASSUME NEW i \in 1 .. N, NEW j \in 1 .. N
               PROVE  (lastCBStart'[SwapOrder[i]] = lastCBStart'[SwapOrder[j]])
                        <=> (i <= k <=> j <= k)
    BY <2>3 DEF PassInv
  <2>6. (lastCBStart[SwapOrder[i]] = lastCBStart[SwapOrder[j]])
          <=> (i <= k - 1 <=> j <= k - 1)
    BY <2>3 DEF PassInv
  <2>7. CASE i # k /\ j # k
    <3>1. (i <= k - 1 <=> i <= k) /\ (j <= k - 1 <=> j <= k)
      BY <1>1, <2>3, <2>7
    <3> QED
      BY <2>5, <2>6, <2>7, <3>1
  <2>8. CASE i = k /\ j = k
    BY <2>8
  <2>9. \A a, b \in {0, 1} : (Other(a) = b) <=> a # b
    BY DEF Other
  <2>10. k <= k /\ ~(k <= k - 1)
    BY <1>1, <2>3
  <2>11. CASE i = k /\ j # k
    <3>1. j <= k - 1 <=> j <= k
      BY <1>1, <2>3, <2>11
    <3> QED
      BY <2>4, <2>5, <2>6, <2>9, <2>10, <2>11, <3>1
  <2>12. CASE i # k /\ j = k
    <3>1. i <= k - 1 <=> i <= k
      BY <1>1, <2>3, <2>12
    <3> QED
      BY <2>4, <2>5, <2>6, <2>9, <2>10, <2>12, <3>1
  <2> QED
    BY <2>7, <2>8, <2>11, <2>12
<1>5. CASE EndOfBuff
  <2>1. UNCHANGED lastCBStart /\ pc = "parse"
        /\ (pc' = "read" \/ (pc' = "swap" /\ todo' = SwapOrder))
    BY <1>5 DEF EndOfBuff, channelVars
  <2>2. Swapped' = Swapped
    BY <1>1, <2>1 DEF Swapped
  <2> QED
    BY <1>2, <2>1, <2>2
<1>6. CASE Wake \/ Interrupt
  <2>1. UNCHANGED lastCBStart
    BY <1>6 DEF Wake, Interrupt, channelVars
  <2>2. CASE pc = "sleep" /\ Awake
    BY <1>2, <1>3, <2>1, <2>2, SwappedAwake
  <2>3. CASE UNCHANGED <<pc, todo>>
    BY <1>2, <2>1, <2>3 DEF Swapped
  <2> QED
    BY <1>6, <2>2, <2>3 DEF Wake, Interrupt
<1>7. CASE UNCHANGED <<pc, todo, lastCBStart>>
  BY <1>2, <1>7 DEF Swapped
<1>8. CASE /\ UNCHANGED lastCBStart
           /\ pc \notin {"swap", "sleep"} /\ pc' \notin {"swap", "sleep"}
  BY <1>2, <1>8 DEF Swapped
<1>9. CASE \/ Select \/ ReadLines \/ ReadEOF \/ ReadError \/ CloseFifo
           \/ ReopenFifo \/ LeaveLoop \/ Finish
  BY <1>8, <1>9
  DEF Select, ReadLines, ReadEOF, ReadError, CloseFifo, ReopenFifo, LeaveLoop,
      Finish, channelVars
<1> QED
  BY <1>4, <1>5, <1>6, <1>7, <1>9
  DEF Next, Daemon, Terminated, MoveServo, StopLine, RejectLine, NextLine,
      EndRound, Client, ClientOpen, ClientWrite, ClientClose, vars, channelVars

(* Between two passes the same bank is active in every channel, for any    *)
(* number of channels and whatever the lines, the clients and the signals  *)
(* do: no pass ends with a channel left behind (DMAChannels.cc:52-57).     *)
THEOREM ChannelsInLockstep == Spec => []Lockstep
<1>1. ASSUME TypeInv, PassInv PROVE Lockstep
  <2> SUFFICES ASSUME todo = <<>>, NEW c \in Channels, NEW d \in Channels
               PROVE  lastCBStart[c] = lastCBStart[d]
    BY DEF Lockstep
  <2>1. pc \notin {"swap", "sleep"}
    BY <1>1, EmptySeq DEF TypeInv, QueueInv, TodoInv
  <2>2. Swapped = 0
    BY <2>1 DEF Swapped
  <2>3. PICK i \in 1 .. Len(SwapOrder), j \in 1 .. Len(SwapOrder) :
          SwapOrder[i] = c /\ SwapOrder[j] = d
    BY DaemonAssumption DEF DaemonAssumption
  <2> QED
    BY <1>1, <2>2, <2>3, OrderFacts DEF PassInv
<1> QED
  BY <1>1, Typed, PassInit, PassStep, PTL DEF Spec

-----------------------------------------------------------------------------
(* One channel, and no line that leaves the inactive bank as it is. *)
Plain(c) == /\ Channels = {c} /\ SwapOrder = <<c>>
            /\ \A line \in Lines : Moves(line) \/ Stops(line)

Spare(c) == Other(lastCBStart[c])

(* Bank b of channel c repeats itself and holds every location. *)
Steady(c, b) == wrap[c][b] = b /\ frame[b] = location

(* The engine is in the bank the program takes for the active one. *)
Settled(c) == playing[c] = lastCBStart[c]

(* While the daemon goes on, the active bank is steady, and so is the spare *)
(* one when the lines of a read are obeyed; a swap in progress leads the    *)
(* engine from the old bank to the new one.                                 *)
BankInv(c) ==
  /\ pc \in {"parse", "swap"} =>
       Settled(c) /\ wrap[c][lastCBStart[c]] = lastCBStart[c]
  /\ stayInLoop /\ pc \in {"select", "read", "close", "reopen"} =>
       Settled(c) /\ Steady(c, lastCBStart[c])
  /\ stayInLoop /\ pc = "parse" /\ buff = <<>> =>
       linesPerEvent /\ Steady(c, Spare(c))
  /\ stayInLoop /\ pc = "swap" => Steady(c, Spare(c))
  /\ pc = "sleep" =>
       /\ wrap[c][Spare(c)] = lastCBStart[c]
       /\ stayInLoop => Steady(c, lastCBStart[c])
       /\ stayInLoop /\ c \in ended => Settled(c)

LEMMA BankFacts ==
  ASSUME TypeInv, NEW c, Plain(c)
  PROVE  /\ c \in Channels /\ lastCBStart[c] \in Bank /\ Spare(c) \in Bank
         /\ Spare(c) # lastCBStart[c] /\ Other(Spare(c)) = lastCBStart[c]
         /\ playing[c] \in Bank
         /\ \A b \in Bank : b # lastCBStart[c] => b = Spare(c)
<1>1. c \in Channels /\ lastCBStart[c] \in {0, 1} /\ playing[c] \in {0, 1}
  BY DEF TypeInv, LinkTypes, Plain, Bank
<1> QED
  BY <1>1 DEF Spare, Other, Bank

LEMMA BankInit == \A c : Plain(c) /\ Init => BankInv(c)
<1> SUFFICES ASSUME NEW c, Plain(c), Init PROVE BankInv(c)
  OBVIOUS
<1>1. c \in Channels
  BY DEF Plain
<1>2. /\ pc = "select" /\ playing[c] = 0 /\ lastCBStart[c] = 0
      /\ wrap[c][0] = 0 /\ frame[0] = location
  BY <1>1 DEF Init, Bank
<1> QED
  BY <1>2 DEF BankInv, Settled, Steady

(* On the one channel, a line that moves a servo makes the spare bank the  *)
(* picture of all locations and links it to itself.                        *)
LEMMA MoveFacts ==
  ASSUME TypeInv, NEW c, Plain(c), MoveServo
  PROVE  /\ wrap'[c][Spare(c)] = Spare(c) /\ frame'[Spare(c)] = location'
         /\ wrap'[c][lastCBStart[c]] = wrap[c][lastCBStart[c]]
         /\ linesPerEvent' = TRUE
         /\ UNCHANGED <<pc, stayInLoop, lastCBStart, playing>>
<1>1. PICK line : line = Head(buff)
  OBVIOUS
<1>2. line.id \in Servos /\ line.width \in Location
  BY <1>1 DEF MoveServo, Moves
<1>3. \A s \in Servos : ChannelOf[s] = c
  BY DaemonAssumption DEF DaemonAssumption, Plain
<1>4. /\ location' = [location EXCEPT ![line.id] = line.width]
      /\ frame' = [frame EXCEPT ![Spare(c)] =
                    [s \in Servos |->
                       IF ChannelOf[s] = c THEN location'[s] ELSE @[s]]]
      /\ wrap' = [wrap EXCEPT ![c][Spare(c)] = Spare(c)]
      /\ UNCHANGED <<pc, stayInLoop, lastCBStart, playing>>
  <2>1. PICK d, b : d = ChannelOf[line.id] /\ b = Other(lastCBStart[d])
    OBVIOUS
  <2>2. d = c /\ b = Spare(c)
    BY <1>2, <1>3, <2>1 DEF Spare
  <2>3. /\ location' = [location EXCEPT ![line.id] = line.width]
        /\ frame' = [frame EXCEPT ![b] =
                      [s \in Servos |->
                         IF ChannelOf[s] = d THEN location'[s] ELSE @[s]]]
        /\ wrap' = [wrap EXCEPT ![d][b] = b]
    BY <1>1, <2>1 DEF MoveServo
  <2>4. UNCHANGED <<pc, stayInLoop, lastCBStart, playing>>
    BY DEF MoveServo, NextLine
  <2> QED
    BY <2>2, <2>3, <2>4
<1>5. location' \in [Servos -> Location]
  BY <1>2, <1>4 DEF TypeInv, PulseTypes
<1>6. frame'[Spare(c)] = [s \in Servos |-> location'[s]]
  BY <1>3, <1>4, BankFacts DEF TypeInv, PulseTypes
<1>7. frame'[Spare(c)] = location'
  BY <1>5, <1>6
<1>8. /\ wrap'[c][Spare(c)] = Spare(c)
      /\ wrap'[c][lastCBStart[c]] = wrap[c][lastCBStart[c]]
  BY <1>4, BankFacts DEF TypeInv, LinkTypes
<1> QED
  BY <1>4, <1>7, <1>8 DEF MoveServo

(* A swap links the old bank to the new one and changes nothing else. *)
LEMMA SwapFacts ==
  ASSUME TypeInv, NEW c, Plain(c), SwapChannel
  PROVE  /\ lastCBStart'[c] = Spare(c) /\ Spare(c)' = lastCBStart[c]
         /\ wrap'[c][lastCBStart[c]] = Spare(c)
         /\ wrap'[c][Spare(c)] = wrap[c][Spare(c)]
         /\ UNCHANGED <<frame, location, playing, stayInLoop>>
<1>1. Head(todo) = c
  BY TodoFacts DEF TypeInv, SwapChannel, Plain
<1>2. /\ wrap' = [wrap EXCEPT ![c][lastCBStart[c]] = Spare(c)]
      /\ lastCBStart' = [lastCBStart EXCEPT ![c] = Spare(c)]
      /\ UNCHANGED <<frame, location, playing, stayInLoop>>
  BY <1>1 DEF SwapChannel, Spare
<1>3. lastCBStart'[c] = Spare(c)
  BY <1>2, BankFacts DEF TypeInv, LinkTypes
<1>4. Spare(c)' = lastCBStart[c]
  BY <1>3, BankFacts DEF Spare
<1>5. /\ wrap'[c][lastCBStart[c]] = Spare(c)
      /\ wrap'[c][Spare(c)] = wrap[c][Spare(c)]
  BY <1>2, BankFacts DEF TypeInv, LinkTypes
<1> QED
  BY <1>2, <1>3, <1>4, <1>5

(* The lines of a read leave the spare bank steady, unless one of them     *)
(* stopped the daemon.                                                     *)
LEMMA ParseKeepsBanks ==
  ASSUME TypeInv, NEW c, Plain(c), BankInv(c),
         MoveServo \/ StopLine \/ RejectLine
  PROVE  BankInv(c)'
<1> USE DEF BankInv, Settled, Steady
<1>1. /\ pc = "parse" /\ UNCHANGED <<pc, playing>>
      /\ buff \in Seq(Lines) /\ buff # <<>>
  BY DEF MoveServo, StopLine, RejectLine, NextLine, TypeInv, QueueInv
<1>2. Settled(c) /\ wrap[c][lastCBStart[c]] = lastCBStart[c]
  BY <1>1
<1>3. CASE MoveServo
  <2>1. Spare(c)' = Spare(c)
    BY <1>3, MoveFacts DEF Spare
  <2> QED
    BY <1>1, <1>2, <1>3, <2>1, MoveFacts
<1>4. CASE StopLine
  BY <1>1, <1>2, <1>4 DEF StopLine, channelVars
<1>5. CASE RejectLine
  <2>1. Head(buff) \in Lines
    BY <1>1, HeadTailProperties
  <2> QED
    BY <1>5, <2>1 DEF RejectLine, Plain
<1> QED
  BY <1>3, <1>4, <1>5

(* After the only channel's sleep the engine is in the new bank. *)
LEMMA AwakeKeepsBanks ==
  ASSUME TypeInv, NEW c, Plain(c), BankInv(c), pc = "sleep", Awake,
         stayInLoop' => stayInLoop /\ c \in ended,
         UNCHANGED <<channelVars, playing>>
  PROVE  BankInv(c)'
<1>1. Len(todo) = 1
  <2>1. Len(SwapOrder) = 1
    BY DEF Plain
  <2> QED
    BY <2>1, TodoFacts DEF TypeInv
<1>2. pc' = "read"
  BY <1>1, TodoFacts DEF TypeInv, Awake
<1> QED
  BY <1>2 DEF BankInv, Settled, Steady, channelVars

LEMMA BankStep ==
  ASSUME TypeInv, NEW c, Plain(c), BankInv(c), [Next]_vars
  PROVE  BankInv(c)'
<1> USE DEF BankInv, Settled, Steady
<1>1. CASE UNCHANGED <<pc, stayInLoop, linesPerEvent, buff, channelVars,
                       playing, ended>>
  BY <1>1 DEF channelVars, Spare
<1>2. CASE Select \/ ReadEOF \/ ReadError \/ CloseFifo \/ ReopenFifo
  BY <1>2
  DEF Select, ReadEOF, ReadError, CloseFifo, ReopenFifo, channelVars, Spare
<1>3. CASE ReadLines
  BY <1>3, ReadFacts DEF ReadLines, channelVars, TypeInv
<1>4. CASE MoveServo \/ StopLine \/ RejectLine
  BY <1>4, ParseKeepsBanks
<1>5. CASE EndOfBuff
  BY <1>5 DEF EndOfBuff, channelVars, Spare
<1>6. CASE SwapChannel
  <2>1. pc = "swap" /\ pc' = "sleep" /\ ended' = {}
    BY <1>6 DEF SwapChannel
  <2> QED
    BY <1>6, <2>1, SwapFacts
<1>7. CASE Wake
  BY <1>7, AwakeKeepsBanks, BankFacts DEF Wake
<1>8. CASE LeaveLoop \/ Finish
  BY <1>8 DEF LeaveLoop, Finish
<1>9. CASE Interrupt
  <2>1. CASE pc = "sleep"
    BY <1>9, <2>1, AwakeKeepsBanks DEF Interrupt
  <2>2. CASE pc # "sleep"
    BY <1>9, <2>2 DEF Interrupt, channelVars
  <2> QED
    BY <2>1, <2>2
<1>10. ASSUME NEW d \in Channels, EndRound(d) PROVE BankInv(c)'
  <2>1. d = c
    BY DEF Plain
  <2>2. /\ playing'[c] = wrap[c][playing[c]]
        /\ UNCHANGED <<pc, stayInLoop, linesPerEvent, buff, channelVars>>
        /\ pc = "sleep" => ended' = ended \union {c}
    BY <1>10, <2>1 DEF EndRound, TypeInv, LinkTypes
  <2>3. CASE pc # "sleep"
    BY <2>2, <2>3 DEF channelVars, Spare
  <2>4. CASE pc = "sleep"
    <3>1. stayInLoop => playing'[c] = lastCBStart[c]
      BY <2>2, <2>4, BankFacts
    <3> QED
      BY <2>2, <2>4, <3>1 DEF channelVars, Spare
  <2> QED
    BY <2>3, <2>4
<1> QED
  BY <1>1, <1>2, <1>3, <1>4, <1>5, <1>6, <1>7, <1>8, <1>9, <1>10
  DEF Next, Daemon, Terminated, Client, ClientOpen, ClientWrite, ClientClose,
      vars

LEMMA BanksKept ==
  ASSUME NEW c, Plain(c)
  PROVE  Spec => [](TypeInv /\ BankInv(c))
<1>1. Init => BankInv(c)
  BY BankInit
<1>2. TypeInv /\ BankInv(c) /\ [Next]_vars => BankInv(c)'
  BY BankStep
<1> QED
  BY <1>1, <1>2, TypesInit, TypesStep, PTL DEF Spec

(* A line is obeyed only while the engine stays in the bank the program    *)
(* leaves alone (DMAChannel.cc:137), with any number of clients, lines and *)
(* signals, if there is one channel and every line moves a servo or stops. *)
THEOREM SpareBankWritten ==
  ASSUME NEW c, Plain(c)
  PROVE  Spec => []WritesSpareBank
<1>1. ASSUME BankInv(c) PROVE WritesSpareBank
  BY <1>1 DEF BankInv, Settled, WritesSpareBank, Plain
<1> QED
  BY <1>1, BanksKept, PTL

(* While the daemon waits for a client, this round and every later one     *)
(* sends each servo the last width asked for it (README.md:37), under the  *)
(* same conditions; with two channels, or a line that is refused, it is    *)
(* not so.                                                                 *)
THEOREM PulsesAsRequested ==
  ASSUME NEW c, Plain(c)
  PROVE  Spec => []RequestedPulses
<1>1. ASSUME BankInv(c) PROVE RequestedPulses
  <2> SUFFICES ASSUME pc = "select", stayInLoop, NEW s \in Servos,
                      NEW b \in {playing[c], wrap[c][playing[c]]}
               PROVE  frame[b][s] = location[s]
    <3>1. \A s \in Servos : ChannelOf[s] = c
      BY DaemonAssumption DEF DaemonAssumption, Plain
    <3> QED
      BY <3>1 DEF RequestedPulses
  <2> QED
    BY <1>1 DEF BankInv, Settled, Steady
<1> QED
  BY <1>1, BanksKept, PTL
=============================================================================
