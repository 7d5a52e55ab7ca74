------------------------------- MODULE Servod -------------------------------
(***************************************************************************)
(* The running daemon: respondToRequest and sigint_handler of              *)
(* src/src/servod.cc, the methods of class DMAChannels they call, the DMA  *)
(* channels, the FIFO and the clients that write to it.                    *)
(*                                                                         *)
(* A channel is what DMAChannel.tla shows it to be when it keeps its time: *)
(* two banks, each holding a location for every servo of the channel, and  *)
(* an engine that repeats a bank and goes, at the end of a round, where    *)
(* that bank's last block points.  A sleep of swapDMACBs is long enough    *)
(* for every engine to end a round.                                        *)
(***************************************************************************)
EXTENDS Naturals, Sequences, FiniteSets, Fifo

CONSTANTS
  Servos,          \* servo ids the definition file gives
  Channels,        \* the DMA channels in use
  ChannelOf,       \* servoIDToDMAChannel
  SwapOrder,       \* uniqueDMAChannel in the order of its iterator
  MinOn, MaxOn,    \* 1000 and 2000
  Lines,           \* lines the clients write: [id, width] or Malformed
  Malformed,       \* a line sscanf does not match
  BuffLines,       \* lines that fill BUFF_LEN (see CommandBuffer.tla)
  Clients,         \* processes that write to the FIFO
  MaxWrites,       \* bound: lines a client writes
  MaxSignals       \* bound: SIGINTs delivered

Bank == {0, 1}
Other(b) == 1 - b
Location == MinOn .. MaxOn

ASSUME DaemonAssumption ==
  /\ ChannelOf \in [Servos -> Channels]
  /\ SwapOrder \in Seq(Channels) \ {<<>>}     \* the keys of a std::map
  /\ \A c \in Channels : \E i \in 1 .. Len(SwapOrder) : SwapOrder[i] = c
  /\ \A i, j \in 1 .. Len(SwapOrder) : SwapOrder[i] = SwapOrder[j] => i = j
  /\ MinOn \in Nat \ {0} /\ MaxOn \in Nat /\ MinOn <= MaxOn
  /\ \A line \in Lines \ {Malformed} : line.width \in Nat
  /\ BuffLines \in Nat \ {0}
  /\ IsFiniteSet(Clients)
  /\ MaxWrites \in Nat /\ MaxSignals \in Nat

VARIABLES
  fifo,            \* the pipe at SERVO_FIFO
  client,          \* client[c]: "idle", "open" or "gone"
  writes,          \* lines client c has written
  pc,              \* where respondToRequest is
  stayInLoop,
  linesPerEvent,   \* linesPerEvent > 0
  buff,            \* lines of the last read still to be parsed
  todo,            \* channels swapDMACBs has still to swap
  location,        \* Servo::location
  frame,           \* frame[b][s]: location of s in bank b of its channel
  wrap,            \* wrap[c][b]: bank that follows bank b
  lastCBStart,     \* lastCBStart[c]
  playing,         \* playing[c]: bank the engine of c is in
  ended,           \* channels whose engine ended a round in this sleep
  signals

clientVars == <<client, writes>>
channelVars == <<location, frame, wrap, lastCBStart>>
vars == <<fifo, clientVars, pc, stayInLoop, linesPerEvent, buff, todo,
          channelVars, playing, ended, signals>>

Init ==
  /\ fifo = OpenReader(Empty)
  /\ client = [c \in Clients |-> "idle"]
  /\ writes = [c \in Clients |-> 0]
  /\ pc = "select"
  /\ stayInLoop = TRUE
  /\ linesPerEvent = FALSE
  /\ buff = <<>>
  /\ todo = <<>>
  /\ location = [s \in Servos |-> (MinOn + MaxOn) \div 2]
  /\ frame = [b \in Bank |-> location]
  /\ wrap = [c \in Channels |-> [b \in Bank |-> b]]
  /\ lastCBStart = [c \in Channels |-> 0]
  /\ playing = [c \in Channels |-> 0]
  /\ ended = {}
  /\ signals = 0

-----------------------------------------------------------------------------
(* select returned a positive number; on a timeout nothing changes.        *)
Select ==
  /\ pc = "select"
  /\ stayInLoop
  /\ Readable(fifo)
  /\ linesPerEvent' = FALSE
  /\ pc' = "read"
  /\ UNCHANGED <<fifo, clientVars, stayInLoop, buff, todo, channelVars,
                 playing, ended, signals>>

(* What is there, as far as it fits; the rest is left for the next read.   *)
ReadLines ==
  /\ pc = "read"
  /\ stayInLoop
  /\ fifo.data # <<>>
  /\ buff' = First(fifo, BuffLines)
  /\ fifo' = Take(fifo, BuffLines)
  /\ pc' = "parse"
  /\ UNCHANGED <<clientVars, stayInLoop, linesPerEvent, todo, channelVars,
                 playing, ended, signals>>

(* Mutation of ReadEOF: the FIFO is not opened anew. *)
ReadEOFNoReopen ==
  /\ pc = "read"
  /\ stayInLoop
  /\ AtEOF(fifo)
  /\ pc' = "select"
  /\ UNCHANGED <<fifo, clientVars, stayInLoop, linesPerEvent, buff, todo,
                 channelVars, playing, ended, signals>>

(* read returned 0: an event without data means the writers are gone.      *)
ReadEOF ==
  /\ pc = "read"
  /\ stayInLoop
  /\ AtEOF(fifo)
  /\ pc' = IF linesPerEvent THEN "select" ELSE "close"
  /\ UNCHANGED <<fifo, clientVars, stayInLoop, linesPerEvent, buff, todo,
                 channelVars, playing, ended, signals>>

(* read returned -1, "FIFO Input error" in the log. *)
ReadError ==
  /\ pc = "read"
  /\ stayInLoop
  /\ WouldBlock(fifo)
  /\ pc' = "select"
  /\ UNCHANGED <<fifo, clientVars, stayInLoop, linesPerEvent, buff, todo,
                 channelVars, playing, ended, signals>>

CloseFifo ==
  /\ pc = "close"
  /\ fifo' = CloseReader(fifo)
  /\ pc' = "reopen"
  /\ UNCHANGED <<clientVars, stayInLoop, linesPerEvent, buff, todo,
                 channelVars, playing, ended, signals>>

ReopenFifo ==
  /\ pc = "reopen"
  /\ fifo' = OpenReader(fifo)
  /\ pc' = "select"
  /\ UNCHANGED <<clientVars, stayInLoop, linesPerEvent, buff, todo,
                 channelVars, playing, ended, signals>>

-----------------------------------------------------------------------------
(* One turn of the loop over buff.                                         *)

(* Mutation of Moves: the range of widths is not looked at. *)
MovesAnyWidth(line) == line # Malformed /\ line.width # 0 /\ line.id \in Servos

Moves(line) == /\ line # Malformed
               /\ line.width \in Location
               /\ line.id \in Servos
Stops(line) == line # Malformed /\ line.width = 0

NextLine == /\ pc = "parse"
            /\ buff # <<>>
            /\ buff' = Tail(buff)
            /\ UNCHANGED <<fifo, clientVars, pc, todo, playing, ended, signals>>

(* Mutations of MoveServo: the last block keeps the link of an earlier     *)
(* swap; only the slot of the servo that moves is written.                 *)
MoveServoNoWrap ==
  /\ NextLine
  /\ Moves(Head(buff))
  /\ LET line == Head(buff)
         c == ChannelOf[line.id]
     IN  /\ location' = [location EXCEPT ![line.id] = line.width]
         /\ frame' = [frame EXCEPT ![Other(lastCBStart[c])] =
              [s \in Servos |->
                 IF ChannelOf[s] = c THEN location'[s] ELSE @[s]]]
  /\ linesPerEvent' = TRUE
  /\ UNCHANGED <<stayInLoop, wrap, lastCBStart>>

MoveServoAlone ==
  /\ NextLine
  /\ Moves(Head(buff))
  /\ LET line == Head(buff)
         c == ChannelOf[line.id]
         b == Other(lastCBStart[c])
     IN  /\ location' = [location EXCEPT ![line.id] = line.width]
         /\ frame' = [frame EXCEPT ![b][line.id] = line.width]
         /\ wrap' = [wrap EXCEPT ![c][b] = b]
  /\ linesPerEvent' = TRUE
  /\ UNCHANGED <<stayInLoop, lastCBStart>>

(* DMAChannels::setNewLocation: the servo's new location, then the whole   *)
(* inactive bank of its channel.                                           *)
MoveServo ==
  /\ NextLine
  /\ Moves(Head(buff))
  /\ LET line == Head(buff)
         c == ChannelOf[line.id]
         b == Other(lastCBStart[c])
     IN  /\ location' = [location EXCEPT ![line.id] = line.width]
         /\ frame' = [frame EXCEPT ![b] =
              [s \in Servos |->
                 IF ChannelOf[s] = c THEN location'[s] ELSE @[s]]]
         /\ wrap' = [wrap EXCEPT ![c][b] = b]
  /\ linesPerEvent' = TRUE
  /\ UNCHANGED <<stayInLoop, lastCBStart>>

StopLine ==
  /\ NextLine
  /\ Stops(Head(buff))
  /\ stayInLoop' = FALSE
  /\ UNCHANGED <<linesPerEvent, channelVars>>

(* "Bad input", "out of range", "reference to an undefined servo". *)
RejectLine ==
  /\ NextLine
  /\ ~Moves(Head(buff)) /\ ~Stops(Head(buff))
  /\ UNCHANGED <<stayInLoop, linesPerEvent, channelVars>>

(* Mutation of EndOfBuff: the loop of swapDMACBs ends after one channel.   *)
EndOfBuffFirst ==
  /\ pc = "parse"
  /\ buff = <<>>
  /\ IF linesPerEvent THEN pc' = "swap" /\ todo' = <<Head(SwapOrder)>>
                      ELSE pc' = "read" /\ UNCHANGED todo
  /\ UNCHANGED <<fifo, clientVars, stayInLoop, linesPerEvent, buff,
                 channelVars, playing, ended, signals>>

EndOfBuff ==
  /\ pc = "parse"
  /\ buff = <<>>
  /\ IF linesPerEvent THEN pc' = "swap" /\ todo' = SwapOrder
                      ELSE pc' = "read" /\ UNCHANGED todo
  /\ UNCHANGED <<fifo, clientVars, stayInLoop, linesPerEvent, buff,
                 channelVars, playing, ended, signals>>

-----------------------------------------------------------------------------
(* DMAChannels::swapDMACBs goes through all channels, and each one sleeps. *)

SwapChannel ==
  /\ pc = "swap"
  /\ LET c == Head(todo)
         b == lastCBStart[c]
     IN  /\ wrap' = [wrap EXCEPT ![c][b] = Other(b)]
         /\ lastCBStart' = [lastCBStart EXCEPT ![c] = Other(b)]
  /\ ended' = {}
  /\ pc' = "sleep"
  /\ UNCHANGED <<fifo, clientVars, stayInLoop, linesPerEvent, buff, todo,
                 location, frame, playing, signals>>

Awake ==
  /\ todo' = Tail(todo)
  /\ pc' = IF Tail(todo) = <<>> THEN "read" ELSE "swap"

Wake ==
  /\ pc = "sleep"
  /\ ended = Channels
  /\ Awake
  /\ UNCHANGED <<fifo, clientVars, stayInLoop, linesPerEvent, buff, channelVars,
                 playing, ended, signals>>

(* An engine is at the end of its round. *)
EndRound(c) ==
  /\ pc # "done"
  /\ playing' = [playing EXCEPT ![c] = wrap[c][@]]
  /\ ended' = IF pc = "sleep" THEN ended \union {c} ELSE ended
  /\ UNCHANGED <<fifo, clientVars, pc, stayInLoop, linesPerEvent, buff, todo,
                 channelVars, signals>>

-----------------------------------------------------------------------------
(* The loops end; close(fd) and unlink, noPulse and sleep, and main goes   *)
(* on to the destructors.                                                  *)

(* Mutation of LeaveLoop: only the inner loop looks at stayInLoop.         *)
LeaveLoopInner ==
  /\ pc = "read"
  /\ ~stayInLoop
  /\ fifo' = CloseReader(fifo)
  /\ pc' = "noPulse"
  /\ UNCHANGED <<clientVars, stayInLoop, linesPerEvent, buff, todo, channelVars,
                 playing, ended, signals>>

LeaveLoop ==
  /\ pc \in {"select", "read"}
  /\ ~stayInLoop
  /\ fifo' = CloseReader(fifo)
  /\ pc' = "noPulse"
  /\ UNCHANGED <<clientVars, stayInLoop, linesPerEvent, buff, todo, channelVars,
                 playing, ended, signals>>

Finish ==
  /\ pc = "noPulse"
  /\ pc' = "done"
  /\ UNCHANGED <<fifo, clientVars, stayInLoop, linesPerEvent, buff, todo,
                 channelVars, playing, ended, signals>>

(* sigint_handler; the signal cuts a usleep short. *)
Interrupt ==
  /\ signals < MaxSignals
  /\ pc # "done"
  /\ signals' = signals + 1
  /\ stayInLoop' = FALSE
  /\ IF pc = "sleep" THEN Awake ELSE UNCHANGED <<pc, todo>>
  /\ UNCHANGED <<fifo, clientVars, linesPerEvent, buff, channelVars, playing,
                 ended>>

-----------------------------------------------------------------------------
(* A client, echo "id, width" > /dev/servo_fifo or a longer program.       *)

ClientOpen(c) ==
  /\ client[c] = "idle"
  /\ fifo.reader
  /\ client' = [client EXCEPT ![c] = "open"]
  /\ fifo' = OpenWriter(fifo)
  /\ UNCHANGED <<writes, pc, stayInLoop, linesPerEvent, buff, todo, channelVars,
                 playing, ended, signals>>

ClientWrite(c, line) ==
  /\ client[c] = "open"
  /\ writes[c] < MaxWrites
  /\ fifo.reader
  /\ writes' = [writes EXCEPT ![c] = @ + 1]
  /\ fifo' = Put(fifo, line)
  /\ UNCHANGED <<client, pc, stayInLoop, linesPerEvent, buff, todo, channelVars,
                 playing, ended, signals>>

(* It closes the FIFO, or SIGPIPE ends it: nobody reads any more. *)
ClientClose(c) ==
  /\ client[c] = "open"
  /\ client' = [client EXCEPT ![c] = "gone"]
  /\ fifo' = CloseWriter(fifo)
  /\ UNCHANGED <<writes, pc, stayInLoop, linesPerEvent, buff, todo, channelVars,
                 playing, ended, signals>>

Client(c) == \/ ClientOpen(c) \/ ClientClose(c)
             \/ \E line \in Lines : ClientWrite(c, line)

-----------------------------------------------------------------------------
Terminated == pc = "done" /\ UNCHANGED vars

Daemon == \/ Select \/ ReadLines \/ ReadEOF \/ ReadError
          \/ CloseFifo \/ ReopenFifo
          \/ MoveServo \/ StopLine \/ RejectLine \/ EndOfBuff
          \/ SwapChannel \/ Wake
          \/ LeaveLoop \/ Finish

Next == \/ Daemon
        \/ \E c \in Channels : EndRound(c)
        \/ Interrupt
        \/ \E c \in Clients : Client(c)
        \/ Terminated

(* The kernel runs the daemon and the engines never stop; no client owes   *)
(* anything.                                                               *)
Fairness == WF_vars(Daemon) /\ \A c \in Channels : WF_vars(EndRound(c))

Spec == Init /\ [][Next]_vars /\ Fairness
-----------------------------------------------------------------------------
TypeOK ==
  /\ fifo \in [data : Seq(Lines), writers : 0 .. Cardinality(Clients),
               reader : BOOLEAN, visited : BOOLEAN]
  /\ client \in [Clients -> {"idle", "open", "gone"}]
  /\ writes \in [Clients -> 0 .. MaxWrites]
  /\ pc \in {"select", "read", "close", "reopen", "parse", "swap", "sleep",
             "noPulse", "done"}
  /\ stayInLoop \in BOOLEAN /\ linesPerEvent \in BOOLEAN
  /\ buff \in Seq(Lines) /\ todo \in Seq(Channels)
  /\ location \in [Servos -> Location]
  /\ frame \in [Bank -> [Servos -> Location]]
  /\ wrap \in [Channels -> [Bank -> Bank]]
  /\ lastCBStart \in [Channels -> Bank]
  /\ playing \in [Channels -> Bank]
  /\ ended \subseteq Channels
  /\ signals \in 0 .. MaxSignals

(* "update control blocks that aren't active" (DMAChannel.cc:137): when a  *)
(* line is about to be obeyed, every engine is in the bank the program     *)
(* will leave alone and stays in it.                                       *)
WritesSpareBank ==
  pc = "parse" => \A c \in Channels :
    {playing[c], wrap[c][playing[c]]} = {lastCBStart[c]}

(* README.md:37: the integer a client writes is the pulse width sent to    *)
(* the servo.  While the daemon waits for a client, every servo is sent    *)
(* the location it was last given, and nothing else in any later round.    *)
RequestedPulses ==
  pc = "select" /\ stayInLoop => \A s \in Servos :
    LET c == ChannelOf[s]
    IN  \A b \in {playing[c], wrap[c][playing[c]]} :
          frame[b][s] = location[s]

(* The channels are swapped together (DMAChannels.cc:52-57), so that the   *)
(* bank that is active is the same one for all, whatever the lines moved.  *)
Lockstep ==
  todo = <<>> => \A c, d \in Channels : lastCBStart[c] = lastCBStart[d]

(* The hang-up a writer leaves behind does not keep select returning: the  *)
(* close and reopen of servod.cc:106-111 ends it.                          *)
NoSpin == <>[](pc = "select" /\ stayInLoop => ~Readable(fifo))

(* README.md:50-53 and 59: a stop line or Ctrl-C ends the daemon, also     *)
(* while it is parsing, swapping or reopening the FIFO.                    *)
StopEnds == ~stayInLoop ~> pc = "done"

(* README.md:37: "To move a servo, write a string to /dev/servo_fifo".     *)
(* While the daemon runs, what is written leaves the FIFO by being read.   *)
NothingDropped ==
  [][(stayInLoop /\ Len(fifo'.data) < Len(fifo.data))
        => fifo.data = buff' \o fifo'.data]_vars
=============================================================================
