---------------------------- MODULE CommandBuffer ----------------------------
(***************************************************************************)
(* Characters instead of lines: how respondToRequest of src/src/servod.cc  *)
(* cuts what it reads from the FIFO into lines and scans them.  Servod.tla *)
(* takes this for granted; what the lines do to servos is told there.      *)
(*                                                                         *)
(* The buffer is never cleared and never terminated.  A scan that is not   *)
(* done at the last character read goes on with the characters an earlier  *)
(* read has left, and at the end of the buffer with whatever follows it in *)
(* memory.                                                                 *)
(***************************************************************************)
EXTENDS Naturals, FiniteSets, SequencesExt

CONSTANTS
  BuffLen,       \* BUFF_LEN, 4096
  Requests,      \* what clients ask for: <<digits of id, digits of width>>
  Garbage,       \* other lines they write
  Fill,          \* characters malloc may find in the buffer
  Beyond,        \* texts that may follow the buffer in memory
  MaxWrites      \* bound: lines written

Digit == 0 .. 9
Comma == 10
Blank == 11
Newline == 12
Letter == 13     \* any character a number and its separators do not have
Char == 0 .. 13

ASSUME BufferAssumption ==
  /\ BuffLen \in Nat \ {0} /\ MaxWrites \in Nat
  /\ \A r \in Requests : r[1] \in Seq(Digit) /\ r[2] \in Seq(Digit)
  /\ Garbage \subseteq Seq(Char) /\ Beyond \subseteq Seq(Char)
  /\ Fill \subseteq Char

VARIABLES
  pipe,          \* characters in the FIFO
  writes,        \* lines written
  pc,            \* "read", or "eat": eatBuff
  buff, bytesRead, offset,
  answer,        \* what the last line was taken for
  stayInLoop

vars == <<pipe, writes, pc, buff, bytesRead, offset, answer, stayInLoop>>

Bad == <<>>      \* "Bad input"; a good line is <<id, width>>

Init ==
  /\ pipe = <<>> /\ writes = 0
  /\ pc = "read"
  /\ \E ch \in Fill : buff = [i \in 1 .. BuffLen |-> ch]
  /\ bytesRead = 0 /\ offset = 0
  /\ answer = Bad
  /\ stayInLoop = TRUE

-----------------------------------------------------------------------------
(* The C library: sscanf(text, "%d, %d%c", &id, &width, &nl), and what the *)
(* program makes of its results.                                           *)

(* Where the characters of S that start at i end. *)
Past(S, text, i) ==
  Min({k \in i .. Len(text) : text[k] \notin S} \union {Len(text) + 1})

Number(digits) ==
  LET value[k \in 0 .. Len(digits)] ==
        IF k = 0 THEN 0 ELSE 10 * value[k - 1] + digits[k]
  IN  value[Len(digits)]

(* A conversion %d, and a space in the format, pass over white space, line *)
(* ends too; the comma has to follow the number at once.                   *)
Scan(text) ==
  LET Space == {Blank, Newline}
      id     == Past(Space, text, 1)
      comma  == Past(Digit, text, id)
      width  == Past(Space, text, comma + 1)
      nl     == Past(Digit, text, width)
      At(i, ch) == i <= Len(text) /\ text[i] = ch
  IN IF id < comma /\ At(comma, Comma) /\ width < nl /\ At(nl, Newline)
     THEN <<Number(SubSeq(text, id, comma - 1)),
            Number(SubSeq(text, width, nl - 1))>>
     ELSE Bad

Stops(a) == a # Bad /\ a[2] = 0
-----------------------------------------------------------------------------
(* The line of a request, as README.md:39 writes it. *)
Text(r) == r[1] \o <<Comma, Blank>> \o r[2] \o <<Newline>>

Line == {Text(r) : r \in Requests} \union Garbage

(* A client writes a line, and nobody writes in the middle of it. *)
WriteLine ==
  /\ writes < MaxWrites
  /\ writes' = writes + 1
  /\ \E line \in Line : pipe' = pipe \o line
  /\ UNCHANGED <<pc, buff, bytesRead, offset, answer, stayInLoop>>

ReadChars(n) ==
  /\ pc = "read"
  /\ stayInLoop
  /\ pipe # <<>>
  /\ buff' = SubSeq(pipe, 1, n) \o SubSeq(buff, n + 1, Len(buff))
  /\ pipe' = SubSeq(pipe, n + 1, Len(pipe))
  /\ bytesRead' = n
  /\ offset' = 0
  /\ pc' = "eat"
  /\ UNCHANGED <<writes, answer, stayInLoop>>

AtMost(n) == IF Len(pipe) < n THEN Len(pipe) ELSE n

(* Mutations: room is left for a terminator; there is no limit. *)
ReadShort == ReadChars(AtMost(BuffLen - 1))
ReadAll == ReadChars(Len(pipe))
Read == ReadChars(AtMost(BuffLen))

(* Mutation: the newline is not passed over. *)
NextOffsetAt ==
  LET k == SelectInSubSeq(buff, offset + 1, bytesRead,
                          LAMBDA ch : ch = Newline)
  IN IF k = 0 THEN bytesRead ELSE k - 1

(* offset is moved behind the first newline, or behind what was read.      *)
NextOffset ==
  LET k == SelectInSubSeq(buff, offset + 1, bytesRead,
                          LAMBDA ch : ch = Newline)
  IN IF k = 0 THEN bytesRead + 1 ELSE k

(* One turn of the loop over the buffer. *)
EatLine ==
  /\ pc = "eat"
  /\ \E a \in {Scan(SubSeq(buff, offset + 1, BuffLen) \o more) :
              more \in Beyond} :
       /\ answer' = a
       /\ stayInLoop' = (stayInLoop /\ ~Stops(a))
  /\ offset' = NextOffset
  /\ pc' = IF bytesRead > NextOffset THEN "eat" ELSE "read"
  /\ UNCHANGED <<pipe, writes, buff, bytesRead>>

Ended == pc = "read" /\ ~stayInLoop /\ UNCHANGED vars
Quiet == pc = "read" /\ pipe = <<>> /\ writes = MaxWrites /\ UNCHANGED vars

Next == WriteLine \/ Read \/ EatLine \/ Ended \/ Quiet

(* The daemon is run; the clients need not write. *)
Spec == Init /\ [][Next]_vars /\ WF_vars(Read \/ EatLine)
-----------------------------------------------------------------------------
TypeOK ==
  /\ pipe \in Seq(Char) /\ writes \in 0 .. MaxWrites
  /\ pc \in {"read", "eat"} /\ stayInLoop \in BOOLEAN
  /\ buff \in Seq(Char) /\ Len(buff) = BuffLen
  /\ bytesRead \in 0 .. BuffLen /\ offset \in 0 .. BuffLen + 1
  /\ answer = Bad \/ answer \in Nat \X Nat

(* What the lines of a text ask for, told from the way they were written.  *)
Value(r) == <<Number(r[1]), Number(r[2])>>
MeaningOf(line) ==
  IF \E r \in Requests : line = Text(r)
  THEN Value(CHOOSE r \in Requests : line = Text(r)) ELSE Bad
LineEnds(text) == {i \in 1 .. Len(text) : text[i] = Newline}
End(text, k) ==
  IF k = 0 THEN 0
  ELSE CHOOSE i \in LineEnds(text) :
         Cardinality({j \in LineEnds(text) : j <= i}) = k
Meanings(text) ==
  [k \in 1 .. Cardinality(LineEnds(text)) |->
     MeaningOf(SubSeq(text, End(text, k - 1) + 1, End(text, k)))]
Unanswered == (IF pc = "eat" THEN SubSeq(buff, offset + 1, bytesRead) ELSE <<>>)
                \o pipe

(* Clients whose lines all have L characters, where L divides BUFF_LEN:    *)
(* that of "0, 1000" is 8.  Requests have both their numbers, and other    *)
(* lines do not begin like one.                                            *)
Regular(L) ==
  /\ L \in Nat \ {0}
  /\ \E n \in 1 .. BuffLen : BuffLen = n * L
  /\ \A line \in Line : Len(line) = L /\ LineEnds(line) = {L}
  /\ \A r \in Requests : r[1] # <<>> /\ r[2] # <<>>
  /\ \A g \in Garbage : g[1] \in {Comma, Letter}

(* README.md:37 for such clients: a read ends where a line ends, and no    *)
(* scan ever passes what was read.                                         *)
Queue == INSTANCE LineQueue WITH
           Meaning <- {Value(r) : r \in Requests} \union {Bad},
           Nothing <- Bad,
           IsStop <- Stops,
           pending <- Meanings(Unanswered),
           answered <- answer,
           stopped <- ~stayInLoop
AnswersInOrder == Queue!InOrder
AnswersAll == Queue!Drains

(* README.md:37: a servo is moved by a string written to move it.  No line *)
(* is taken for a request that no client has made.                         *)
OnlyRequests ==
  answer \in {Bad} \union {Value(r) : r \in Requests}
=============================================================================
