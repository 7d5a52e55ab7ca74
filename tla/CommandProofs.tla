---------------------------- MODULE CommandProofs ----------------------------
(***************************************************************************)
(* Theorems about the buffer of the request loop, for buffers, requests    *)
(* and contents of memory of any size.                                     *)
(***************************************************************************)
EXTENDS CommandBuffer, FiniteSetTheorems, FunctionTheorems,
        SequenceTheorems, WellFoundedInduction, TLAPS

-----------------------------------------------------------------------------
(* Numbers and sequences.                                                  *)

LEMMA Least ==
  ASSUME NEW S \in SUBSET Nat, S # {}
  PROVE  \E m \in S : \A k \in S : m <= k
<1> DEFINE T == {0 .. n : n \in S}
<1>1. IsWellFoundedOn(StrictSubsetOrdering(Nat), FiniteSubsetsOf(Nat))
  BY FS_StrictSubsetOrderingWellFounded
<1>2. T \subseteq FiniteSubsetsOf(Nat) /\ T # {}
  <2>1. \A n \in Nat : IsFiniteSet(0 .. n) /\ 0 .. n \subseteq Nat
    BY FS_Interval
  <2> QED
    BY <2>1 DEF FiniteSubsetsOf
<1>3. PICK x \in T : \A y \in T : ~(<<y, x>> \in StrictSubsetOrdering(Nat))
  <2> HIDE DEF T
  <2> QED
    BY <1>1, <1>2, WFMin
<1>4. PICK m \in S : x = 0 .. m
  OBVIOUS
<1>5. ASSUME NEW k \in S, ~(m <= k) PROVE FALSE
  <2>1. 0 .. k \in T /\ 0 .. k \subseteq 0 .. m /\ 0 .. k # 0 .. m
    BY <1>5
  <2>2. <<0 .. k, 0 .. m>> \in StrictSubsetOrdering(Nat)
    BY <2>1 DEF StrictSubsetOrdering
  <2> QED
    BY <1>3, <1>4, <2>1, <2>2
<1> QED
  BY <1>5

(* A set that has 0, and with every number the next one, has them all.     *)
LEMMA Induction ==
  ASSUME NEW S, 0 \in S, \A n \in Nat : n \in S => n + 1 \in S
  PROVE  Nat \subseteq S
<1>1. SUFFICES ASSUME Nat \ S # {} PROVE FALSE
  OBVIOUS
<1>2. PICK m \in Nat \ S : \A k \in Nat \ S : m <= k
  BY <1>1, Least
<1>3. m - 1 \in Nat /\ m - 1 \notin S
  BY <1>2
<1> QED
  BY <1>2, <1>3

LEMMA Minimum ==
  ASSUME NEW S \in SUBSET Nat, NEW k \in S, \A j \in S : k <= j
  PROVE  Min(S) = k
<1>1. \A x \in S : (\A y \in S : x <= y) => x = k
  OBVIOUS
<1> QED
  BY <1>1 DEF Min

(* The function that Number is the last value of: there is one, and its    *)
(* values are numbers.                                                     *)
Valued(s, n, f) ==
  f = [k \in 0 .. n |-> IF k = 0 THEN 0 ELSE 10 * f[k - 1] + s[k]]

LEMMA ValuedExists ==
  ASSUME NEW s
  PROVE  \A n \in Nat : \E f : Valued(s, n, f)
<1> DEFINE S == {n \in Nat : \E f : Valued(s, n, f)}
<1>1. 0 \in S
  <2>1. [k \in 0 .. 0 |-> 0]
          = [k \in 0 .. 0 |->
               IF k = 0 THEN 0
               ELSE 10 * [j \in 0 .. 0 |-> 0][k - 1] + s[k]]
    OBVIOUS
  <2> QED
    BY <2>1 DEF Valued
<1>2. ASSUME NEW n \in Nat, NEW f, Valued(s, n, f)
      PROVE  \E g : Valued(s, n + 1, g)
  <2> DEFINE g == [k \in 0 .. n + 1 |->
                     IF k = n + 1 THEN 10 * f[n] + s[k] ELSE f[k]]
  <2>1. \A k \in 0 .. n : g[k] = f[k]
    OBVIOUS
  <2>2. \A k \in 0 .. n : f[k] = IF k = 0 THEN 0 ELSE 10 * f[k - 1] + s[k]
    BY <1>2 DEF Valued
  <2>3. \A k \in 0 .. n + 1 :
          /\ k # 0 => k - 1 \in 0 .. n
          /\ k # n + 1 => k \in 0 .. n
    OBVIOUS
  <2>4. g[n + 1] = 10 * f[n] + s[n + 1] /\ (n + 1) - 1 = n /\ n + 1 # 0
    OBVIOUS
  <2>5. DOMAIN g = 0 .. n + 1 /\ g = [k \in 0 .. n + 1 |-> g[k]]
    OBVIOUS
  <2> HIDE DEF g
  <2>6. \A k \in 0 .. n + 1 :
          g[k] = IF k = 0 THEN 0 ELSE 10 * g[k - 1] + s[k]
    <3> SUFFICES ASSUME NEW k \in 0 .. n + 1
                 PROVE  g[k] = IF k = 0 THEN 0 ELSE 10 * g[k - 1] + s[k]
      OBVIOUS
    <3>1. CASE k = n + 1
      BY <3>1, <2>1, <2>4, n \in 0 .. n
    <3>2. CASE k # n + 1
      BY <3>2, <2>1, <2>2, <2>3, k \in 0 .. n, k # 0 => k - 1 \in 0 .. n
    <3> QED
      BY <3>1, <3>2
  <2>7. g = [k \in 0 .. n + 1 |->
               IF k = 0 THEN 0 ELSE 10 * g[k - 1] + s[k]]
    BY <2>5, <2>6
  <2> QED
    BY <2>7 DEF Valued
<1>3. \A n \in Nat : n \in S => n + 1 \in S
  BY <1>2
<1> HIDE DEF S
<1>4. Nat \subseteq S
  BY <1>1, <1>3, Induction
<1> QED
  BY <1>4 DEF S

LEMMA Numbers ==
  ASSUME NEW s \in Seq(Nat)
  PROVE  Number(s) \in Nat
<1>1. Len(s) \in Nat /\ \A k \in 1 .. Len(s) : s[k] \in Nat
  OBVIOUS
<1> DEFINE f == CHOOSE g : Valued(s, Len(s), g)
<1>2. Valued(s, Len(s), f)
  BY <1>1, ValuedExists
<1>3. Number(s) = f[Len(s)]
  BY DEF Number, Valued
<1> HIDE DEF f
<1> DEFINE S == {n \in Nat : n <= Len(s) => f[n] \in Nat}
<1>4. 0 \in S
  BY <1>1, <1>2 DEF Valued
<1>5. ASSUME NEW n \in Nat, n \in S PROVE n + 1 \in S
  <2> SUFFICES ASSUME n + 1 <= Len(s) PROVE f[n + 1] \in Nat
    OBVIOUS
  <2>1. n + 1 \in 0 .. Len(s) /\ n + 1 # 0 /\ (n + 1) - 1 = n
    BY <1>1
  <2>2. f[n + 1] = 10 * f[n] + s[n + 1]
    BY <1>2, <2>1 DEF Valued
  <2>3. f[n] \in Nat /\ s[n + 1] \in Nat
    BY <1>1, <1>5, <2>1
  <2> QED
    BY <2>2, <2>3
<1> HIDE DEF S
<1>6. Nat \subseteq S
  BY <1>4, <1>5, Induction
<1>7. f[Len(s)] \in Nat
  BY <1>1, <1>6 DEF S
<1> QED
  BY <1>3, <1>7
-----------------------------------------------------------------------------
(* The pieces a scan and a read are made of.                               *)

LEMMA Texts ==
  ASSUME NEW r \in Requests
  PROVE  /\ r[1] \in Seq(Char) /\ r[2] \in Seq(Char)
         /\ <<Comma, Blank>> \in Seq(Char) /\ <<Newline>> \in Seq(Char)
         /\ Text(r) \in Seq(Char)
<1>1. Digit \subseteq Char /\ Comma \in Char /\ Blank \in Char
        /\ Newline \in Char
  BY DEF Digit, Comma, Blank, Newline, Char
<1>2. r[1] \in Seq(Char) /\ r[2] \in Seq(Char)
  BY <1>1, BufferAssumption, SeqMonotonic
<1>3. <<Comma, Blank>> \in Seq(Char) /\ <<Newline>> \in Seq(Char)
  BY <1>1
<1> HIDE DEF Char
<1> QED
  BY <1>2, <1>3, ConcatProperties DEF Text

LEMMA Lines == Line \subseteq Seq(Char)
BY Texts, BufferAssumption DEF Line

LEMMA PastType ==
  ASSUME NEW text \in Seq(Char), NEW S, NEW i \in Nat
  PROVE  /\ Past(S, text, i) \in Nat
         /\ Past(S, text, i) <= Len(text) + 1
         /\ i <= Len(text) + 1 => i <= Past(S, text, i)
<1> DEFINE E == {k \in i .. Len(text) : text[k] \notin S}
                  \union {Len(text) + 1}
<1>1. Len(text) \in Nat
  OBVIOUS
<1>2. E \subseteq Nat /\ Len(text) + 1 \in E
      /\ \A k \in E : k = Len(text) + 1 \/ (i <= k /\ k <= Len(text))
  BY <1>1
<1> HIDE DEF E
<1>3. PICK m \in E : \A k \in E : m <= k
  BY <1>2, Least
<1>4. Min(E) = m
  BY <1>2, <1>3, Minimum
<1>5. Past(S, text, i) = m
  BY <1>4 DEF Past, E
<1> QED
  BY <1>1, <1>2, <1>3, <1>5

LEMMA Part ==
  ASSUME NEW S, NEW s \in Seq(S), NEW m \in Nat \ {0}, NEW n \in Nat,
         n <= Len(s)
  PROVE  /\ SubSeq(s, m, n) \in Seq(S)
         /\ Len(SubSeq(s, m, n)) = IF m <= n THEN n - m + 1 ELSE 0
         /\ \A i \in 1 .. n - m + 1 : SubSeq(s, m, n)[i] = s[m + i - 1]
<1>1. \A i \in m .. n : s[i] \in S
  OBVIOUS
<1> QED
  BY <1>1, SubSeqProperties

LEMMA ScanType ==
  ASSUME NEW text \in Seq(Char)
  PROVE  Scan(text) = Bad \/ Scan(text) \in Nat \X Nat
<1> DEFINE Space == {Blank, Newline}
           id == Past(Space, text, 1)
           comma == Past(Digit, text, id)
           width == Past(Space, text, comma + 1)
           nl == Past(Digit, text, width)
           At(i, ch) == i <= Len(text) /\ text[i] = ch
           First == SubSeq(text, id, comma - 1)
           Second == SubSeq(text, width, nl - 1)
           Good == id < comma /\ At(comma, Comma)
                     /\ width < nl /\ At(nl, Newline)
<1>1. Scan(text) = IF Good THEN <<Number(First), Number(Second)>> ELSE Bad
  BY DEF Scan
<1>2. Len(text) \in Nat
  OBVIOUS
<1>3. id \in Nat /\ 1 <= id
  BY <1>2, PastType
<1>4. comma \in Nat /\ comma <= Len(text) + 1
  BY <1>3, PastType
<1>5. width \in Nat /\ (comma + 1 <= Len(text) + 1 => comma + 1 <= width)
  BY <1>4, PastType
<1>6. nl \in Nat /\ nl <= Len(text) + 1
  BY <1>5, PastType
<1>7. Char \subseteq Nat /\ text \in Seq(Nat)
  BY SeqMonotonic DEF Char
<1> SUFFICES ASSUME Good PROVE Number(First) \in Nat /\ Number(Second) \in Nat
  <2> HIDE DEF Good, First, Second
  <2> QED
    BY <1>1
<1> HIDE DEF id, comma, width, nl
<1>8. First \in Seq(Nat)
  BY <1>2, <1>3, <1>4, <1>7, Part
<1>9. Second \in Seq(Nat)
  BY <1>2, <1>4, <1>5, <1>6, <1>7, Part
<1> QED
  BY <1>8, <1>9, Numbers

LEMMA NextOffsetType ==
  ASSUME offset \in Nat, bytesRead \in Nat
  PROVE  /\ NextOffset \in Nat /\ NextOffset <= bytesRead + 1
         /\ bytesRead >= NextOffset => NextOffset \in offset + 1 .. bytesRead
<1> DEFINE I == {i \in offset + 1 .. bytesRead : buff[i] = Newline}
<1>1. SelectInSubSeq(buff, offset + 1, bytesRead, LAMBDA ch : ch = Newline)
        = IF I # {} THEN Min(I) ELSE 0
  BY DEF SelectInSubSeq
<1>2. I \subseteq Nat /\ \A k \in I : k \in offset + 1 .. bytesRead
  OBVIOUS
<1> HIDE DEF I
<1>3. CASE I = {}
  BY <1>1, <1>3 DEF NextOffset
<1>4. CASE I # {}
  <2>1. PICK m \in I : \A k \in I : m <= k
    BY <1>2, <1>4, Least
  <2>2. Min(I) = m
    BY <1>2, <2>1, Minimum
  <2>3. m \in offset + 1 .. bytesRead /\ m # 0
    BY <1>2, <2>1
  <2>4. NextOffset = m
    BY <1>1, <1>4, <2>2, <2>3 DEF NextOffset
  <2> QED
    BY <2>3, <2>4
<1> QED
  BY <1>3, <1>4

(* What is read: the characters at the front of the pipe, and behind them  *)
(* what the buffer had.                                                    *)
LEMMA ReadBuffer ==
  ASSUME NEW p \in Seq(Char), NEW b \in Seq(Char), NEW n \in Nat,
         n <= Len(p), n <= Len(b)
  PROVE  LET new == SubSeq(p, 1, n) \o SubSeq(b, n + 1, Len(b))
         IN  /\ new \in Seq(Char) /\ Len(new) = Len(b)
             /\ \A i \in 1 .. n : new[i] = p[i]
<1> DEFINE s == SubSeq(p, 1, n)
           t == SubSeq(b, n + 1, Len(b))
<1>1. Len(b) \in Nat /\ Len(p) \in Nat
  OBVIOUS
<1>2. s \in Seq(Char) /\ Len(s) = n /\ \A i \in 1 .. n : s[i] = p[i]
  <2>1. /\ s \in Seq(Char) /\ Len(s) = IF 1 <= n THEN n - 1 + 1 ELSE 0
        /\ \A i \in 1 .. n - 1 + 1 : s[i] = p[1 + i - 1]
    BY <1>1, Part
  <2> QED
    BY <2>1
<1>3. t \in Seq(Char) /\ Len(t) = Len(b) - n
  <2>1. t \in Seq(Char)
        /\ Len(t) = IF n + 1 <= Len(b) THEN Len(b) - (n + 1) + 1 ELSE 0
    BY <1>1, Part
  <2> QED
    BY <1>1, <2>1
<1> HIDE DEF s, t
<1>4. s \o t \in Seq(Char) /\ Len(s \o t) = Len(b)
        /\ \A i \in 1 .. n : (s \o t)[i] = s[i]
  BY <1>1, <1>2, <1>3
<1> QED
  BY <1>2, <1>4 DEF s, t
-----------------------------------------------------------------------------
(* Types, in every state.                                                  *)

LEMMA FirstTypes == Init => TypeOK
<1> SUFFICES ASSUME Init PROVE TypeOK
  OBVIOUS
<1>1. PICK ch \in Char : buff = [i \in 1 .. BuffLen |-> ch]
  BY BufferAssumption DEF Init
<1>2. BuffLen \in Nat /\ MaxWrites \in Nat
  BY BufferAssumption
<1> HIDE DEF Char
<1>3. buff \in Seq(Char) /\ Len(buff) = BuffLen
  BY <1>1, <1>2
<1>4. pipe \in Seq(Char)
  BY DEF Init
<1> QED
  BY <1>2, <1>3, <1>4 DEF Init, TypeOK

LEMMA StepTypes == TypeOK /\ [Next]_vars => TypeOK'
<1> SUFFICES ASSUME TypeOK, [Next]_vars PROVE TypeOK'
  OBVIOUS
<1> USE DEF TypeOK
<1>0. BuffLen \in Nat \ {0} /\ MaxWrites \in Nat
  BY BufferAssumption
<1>1. CASE WriteLine
  <2>1. PICK line \in Seq(Char) : pipe' = pipe \o line
    BY <1>1, Lines DEF WriteLine
  <2>2. pipe' \in Seq(Char)
    BY <2>1, ConcatProperties
  <2>3. writes' \in 0 .. MaxWrites
    BY <1>0, <1>1 DEF WriteLine
  <2> QED
    BY <1>1, <2>2, <2>3 DEF WriteLine
<1>2. CASE Read
  <2> DEFINE n == AtMost(BuffLen)
  <2>1. n \in 0 .. BuffLen /\ n <= Len(pipe) /\ n <= Len(buff)
        /\ Len(pipe) \in Nat
    BY <1>0 DEF AtMost
  <2> HIDE DEF n
  <2>2. buff' \in Seq(Char) /\ Len(buff') = BuffLen
    <3>1. buff' = SubSeq(pipe, 1, n) \o SubSeq(buff, n + 1, Len(buff))
      BY <1>2 DEF Read, ReadChars, n
    <3>2. pipe \in Seq(Char) /\ buff \in Seq(Char) /\ n \in Nat
      BY <2>1
    <3> QED
      BY <2>1, <3>1, <3>2, ReadBuffer
  <2>3. pipe' \in Seq(Char)
    <3>1. SubSeq(pipe, n + 1, Len(pipe)) \in Seq(Char)
      BY <2>1, Part
    <3> QED
      BY <1>2, <3>1 DEF Read, ReadChars, n
  <2>4. bytesRead' = n /\ offset' = 0
    BY <1>2 DEF Read, ReadChars, n
  <2>5. offset' \in 0 .. BuffLen + 1
    BY <1>0, <2>4
  <2> QED
    BY <1>2, <2>1, <2>2, <2>3, <2>4, <2>5 DEF Read, ReadChars
<1>3. CASE EatLine
  <2>1. PICK more \in Beyond :
          /\ answer' = Scan(SubSeq(buff, offset + 1, BuffLen) \o more)
          /\ stayInLoop' = (stayInLoop /\ ~Stops(answer'))
    BY <1>3 DEF EatLine
  <2>2. more \in Seq(Char)
    BY BufferAssumption
  <2>3. SubSeq(buff, offset + 1, BuffLen) \in Seq(Char)
    BY <1>0, Part
  <2>4. SubSeq(buff, offset + 1, BuffLen) \o more \in Seq(Char)
    BY <2>2, <2>3, ConcatProperties
  <2>5. answer' = Bad \/ answer' \in Nat \X Nat
    BY <2>1, <2>4, ScanType
  <2>6. offset' \in 0 .. BuffLen + 1
    BY <1>0, <1>3, NextOffsetType DEF EatLine
  <2>7. stayInLoop' \in BOOLEAN /\ pc' \in {"read", "eat"}
    BY <1>3, <2>1 DEF EatLine
  <2> QED
    BY <1>3, <2>5, <2>6, <2>7 DEF EatLine
<1>4. CASE UNCHANGED vars
  BY <1>4 DEF vars
<1> QED
  BY <1>1, <1>2, <1>3, <1>4 DEF Next, Ended, Quiet

(* Every variable keeps its type.  The two that matter: no turn of the     *)
(* loop over the buffer leaves offset more than one behind its end, and no *)
(* read changes the length of the buffer.                                  *)
THEOREM TypeCorrect == Spec => []TypeOK
BY FirstTypes, StepTypes, PTL DEF Spec
-----------------------------------------------------------------------------
(* Multiples of the length of a line.                                      *)

Multiple(L) == {n * L : n \in Nat}

LEMMA Products ==
  ASSUME NEW L \in Nat \ {0}
  PROVE  \A m, n \in Nat : /\ m * L \in Nat
                           /\ m < n => m * L + L <= n * L
                           /\ m * L <= n * L => m <= n
<1>1. \A n \in Nat : n * L \in Nat
  BY SMT
<1>2. \A m, n \in Nat : m < n => m * L + L <= n * L
  <2> SUFFICES ASSUME NEW m \in Nat, NEW n \in Nat, m < n
               PROVE  m * L + L <= n * L
    OBVIOUS
  <2>1. PICK d \in Nat : n = m + 1 + d
    <3>1. n - m - 1 \in Nat /\ n = m + 1 + (n - m - 1)
      OBVIOUS
    <3> QED
      BY <3>1
  <2>2. n * L = m * L + L + d * L
    BY <2>1
  <2> QED
    BY <1>1, <2>2
<1> QED
  BY <1>1, <1>2

LEMMA Multiples ==
  ASSUME NEW L \in Nat \ {0}
  PROVE  /\ 0 \in Multiple(L) /\ L \in Multiple(L) /\ Multiple(L) \subseteq Nat
         /\ \A a, b \in Multiple(L) :
              /\ a + b \in Multiple(L)
              /\ a <= b => b - a \in Multiple(L)
              /\ a < b => a + L <= b
<1>1. 0 = 0 * L /\ L = 1 * L /\ \A n \in Nat : n * L \in Nat
  BY SMT
<1>2. \A m, n \in Nat : m < n => m * L + L <= n * L
  BY Products
<1>3. \A m, n \in Nat : m * L + n * L = (m + n) * L /\ m + n \in Nat
  BY SMT
<1>4. \A m, n \in Nat : m <= n => n * L - m * L = (n - m) * L /\ n - m \in Nat
  BY SMT
<1>5. \A m, n \in Nat : m * L <= n * L => m <= n
  BY Products
<1>6. ASSUME NEW a \in Multiple(L), NEW b \in Multiple(L)
      PROVE  /\ a + b \in Multiple(L)
             /\ a <= b => b - a \in Multiple(L)
             /\ a < b => a + L <= b
  <2>1. PICK m \in Nat : a = m * L
    BY DEF Multiple
  <2>2. PICK n \in Nat : b = n * L
    BY DEF Multiple
  <2>3. a + b \in Multiple(L)
    BY <2>1, <2>2, <1>3 DEF Multiple
  <2>4. a <= b => b - a \in Multiple(L)
    BY <2>1, <2>2, <1>4, <1>5 DEF Multiple
  <2>5. a < b => a + L <= b
    <3>1. a < b => m < n
      BY <2>1, <2>2, <1>1, <1>5
    <3> QED
      BY <2>1, <2>2, <1>2, <3>1
  <2> QED
    BY <2>3, <2>4, <2>5
<1>7. 0 \in Multiple(L) /\ L \in Multiple(L) /\ Multiple(L) \subseteq Nat
  BY <1>1 DEF Multiple
<1> QED
  BY <1>6, <1>7

(* The character at i belongs to one line. *)
LEMMA LineOf ==
  ASSUME NEW L \in Nat \ {0}
  PROVE  \A i \in Nat \ {0} : \E a \in Multiple(L) : a < i /\ i <= a + L
<1> DEFINE S == {i \in Nat :
                   i # 0 => \E a \in Multiple(L) : a < i /\ i <= a + L}
<1>1. /\ 0 \in Multiple(L) /\ L \in Multiple(L) /\ Multiple(L) \subseteq Nat
      /\ \A a, b \in Multiple(L) : a + b \in Multiple(L)
  BY Multiples
<1>2. 0 \in S
  OBVIOUS
<1>3. ASSUME NEW i \in Nat, i \in S PROVE i + 1 \in S
  <2>1. CASE i = 0
    BY <2>1, <1>1
  <2>2. CASE i # 0
    <3>1. PICK a \in Multiple(L) : a < i /\ i <= a + L
      BY <1>3, <2>2
    <3>2. CASE i < a + L
      <4>1. a < i + 1 /\ i + 1 <= a + L
        BY <1>1, <3>1, <3>2
      <4> QED
        BY <4>1
    <3>3. CASE ~(i < a + L)
      <4>1. a + L < i + 1 /\ i + 1 <= (a + L) + L /\ a + L \in Multiple(L)
        BY <1>1, <3>1, <3>3
      <4> QED
        BY <4>1
    <3> QED
      BY <3>2, <3>3
  <2> QED
    BY <2>1, <2>2
<1> HIDE DEF S
<1>4. Nat \subseteq S
  BY <1>2, <1>3, Induction
<1> QED
  BY <1>4 DEF S

LEMMA FirstMultiples ==
  ASSUME NEW L \in Nat \ {0}, NEW n \in Nat
  PROVE  Cardinality({k * L : k \in 1 .. n}) = n
<1> DEFINE T == {k * L : k \in 1 .. n}
           f == [k \in 1 .. n |-> k * L]
<1>1. IsFiniteSet(1 .. n) /\ Cardinality(1 .. n) = n
  BY FS_Interval
<1>2. \A a, b \in Nat : a * L = b * L => a = b
  <2>1. \A a, b \in Nat : a * L \in Nat /\ (a * L <= b * L => a <= b)
    BY Products
  <2> QED
    BY <2>1
<1>3. f \in Bijection(1 .. n, T)
  <2>1. f \in [1 .. n -> T]
    OBVIOUS
  <2>2. \A a, b \in 1 .. n : f[a] = f[b] => a = b
    BY <1>2
  <2>3. \A t \in T : \E s \in 1 .. n : f[s] = t
    OBVIOUS
  <2> HIDE DEF f, T
  <2> QED
    BY <2>1, <2>2, <2>3, Fun_IsBij
<1> HIDE DEF f, T
<1>4. ExistsBijection(1 .. n, T)
  BY <1>3 DEF ExistsBijection
<1>5. Cardinality(T) = n
  BY <1>1, <1>4, FS_Bijection
<1> QED
  BY <1>5 DEF T
-----------------------------------------------------------------------------
(* Texts of whole lines.                                                   *)

(* t is what is left of lines written one after another. *)
Cut(L, t) ==
  /\ t \in Seq(Char)
  /\ Len(t) \in Multiple(L)
  /\ \A a \in Multiple(L) : a < Len(t) => SubSeq(t, a + 1, a + L) \in Line

LEMMA NothingCut ==
  ASSUME NEW L \in Nat \ {0}
  PROVE  Cut(L, <<>>)
<1>1. Multiple(L) \subseteq Nat /\ 0 \in Multiple(L)
  BY Multiples
<1>2. <<>> \in Seq(Char) /\ Len(<<>>) = 0
  BY EmptySeq
<1> QED
  BY <1>1, <1>2 DEF Cut

LEMMA LineCut ==
  ASSUME NEW L, Regular(L), NEW line \in Line
  PROVE  Cut(L, line)
<1>1. L \in Nat \ {0} /\ Len(line) = L
  BY DEF Regular
<1>2. /\ L \in Multiple(L) /\ 0 \in Multiple(L) /\ Multiple(L) \subseteq Nat
      /\ \A a \in Multiple(L) : 0 < a => L <= a
  <2>1. \A a \in Multiple(L) : 0 < a => 0 + L <= a
    BY <1>1, Multiples
  <2> QED
    BY <1>1, <2>1, Multiples
<1>3. line \in Seq(Char)
  BY Lines
<1>4. SubSeq(line, 0 + 1, 0 + L) = line
  BY <1>1, <1>3, SubSeqFull
<1>5. \A a \in Multiple(L) : a < L => a = 0
  BY <1>1, <1>2
<1> QED
  BY <1>1, <1>2, <1>3, <1>4, <1>5 DEF Cut

LEMMA BothCut ==
  ASSUME NEW L \in Nat \ {0}, NEW s, NEW t, Cut(L, s), Cut(L, t)
  PROVE  Cut(L, s \o t)
<1>1. /\ Multiple(L) \subseteq Nat
      /\ \A a, b \in Multiple(L) :
           /\ a + b \in Multiple(L)
           /\ a <= b => b - a \in Multiple(L)
           /\ a < b => a + L <= b
  BY Multiples
<1>2. /\ s \in Seq(Char) /\ Len(s) \in Multiple(L) /\ Len(s) \in Nat
      /\ t \in Seq(Char) /\ Len(t) \in Multiple(L) /\ Len(t) \in Nat
  BY DEF Cut
<1>3. s \o t \in Seq(Char) /\ Len(s \o t) = Len(s) + Len(t)
  BY <1>2, ConcatProperties
<1>4. ASSUME NEW a \in Multiple(L), a < Len(s) + Len(t)
      PROVE  SubSeq(s \o t, a + 1, a + L) \in Line
  <2>1. CASE a < Len(s)
    <3>1. a + 1 \in 1 .. Len(s) /\ a + L \in 1 .. Len(s)
      BY <1>1, <1>2, <2>1
    <3>2. SubSeq(s \o t, a + 1, a + L) = SubSeq(s, a + 1, a + L)
      BY <1>2, <3>1, SubSeqOfConcat1
    <3> QED
      BY <2>1, <3>2 DEF Cut
  <2>2. CASE ~(a < Len(s))
    <3> DEFINE b == a - Len(s)
    <3>1. b \in Multiple(L) /\ b < Len(t) /\ a = Len(s) + b /\ b \in Nat
      BY <1>1, <1>2, <1>4, <2>2
    <3>2. b + L <= Len(t)
      BY <1>1, <1>2, <3>1
    <3> HIDE DEF b
    <3>3. /\ a + 1 \in Len(s) + 1 .. Len(s) + Len(t)
          /\ a + L \in Len(s) + 1 .. Len(s) + Len(t)
          /\ (a + 1) - Len(s) = b + 1 /\ (a + L) - Len(s) = b + L
      BY <1>2, <3>1, <3>2
    <3>4. SubSeq(s \o t, a + 1, a + L) = SubSeq(t, b + 1, b + L)
      <4> DEFINE m == a + 1
                 n == a + L
      <4>1. /\ s \in Seq(Char) /\ t \in Seq(Char)
            /\ m \in Len(s) + 1 .. Len(s) + Len(t)
            /\ n \in Len(s) + 1 .. Len(s) + Len(t)
            /\ m - Len(s) = b + 1 /\ n - Len(s) = b + L
        BY <1>2, <3>3
      <4> HIDE DEF m, n
      <4>2. SubSeq(s \o t, m, n) = SubSeq(t, m - Len(s), n - Len(s))
        BY <4>1, SubSeqOfConcat2
      <4> QED
        BY <4>1, <4>2 DEF m, n
    <3> QED
      BY <3>1, <3>4 DEF Cut
  <2> QED
    BY <2>1, <2>2
<1> QED
  BY <1>1, <1>2, <1>3, <1>4 DEF Cut

(* A text of whole lines, cut where a line ends. *)
LEMMA FrontCut ==
  ASSUME NEW L \in Nat \ {0}, NEW t, Cut(L, t),
         NEW n \in Multiple(L), n <= Len(t)
  PROVE  Cut(L, SubSeq(t, 1, n)) /\ Len(SubSeq(t, 1, n)) = n
<1>1. /\ Multiple(L) \subseteq Nat
      /\ \A a, b \in Multiple(L) : a < b => a + L <= b
  BY Multiples
<1>2. t \in Seq(Char) /\ Len(t) \in Nat /\ n \in Nat
  BY <1>1 DEF Cut
<1>3. SubSeq(t, 1, n) \in Seq(Char) /\ Len(SubSeq(t, 1, n)) = n
  <2>1. /\ SubSeq(t, 1, n) \in Seq(Char)
        /\ Len(SubSeq(t, 1, n)) = IF 1 <= n THEN n - 1 + 1 ELSE 0
    BY <1>2, Part
  <2> QED
    BY <1>2, <2>1
<1>4. ASSUME NEW a \in Multiple(L), a < n
      PROVE  SubSeq(SubSeq(t, 1, n), a + 1, a + L) \in Line
  <2>1. /\ 1 \in 1 .. Len(t) /\ n \in 1 .. Len(t)
        /\ a + 1 \in 1 .. n - 1 + 1 /\ a + L \in 1 .. n - 1 + 1
        /\ 1 + (a + 1) - 1 = a + 1 /\ 1 + (a + L) - 1 = a + L
    BY <1>1, <1>2, <1>4
  <2>2. SubSeq(SubSeq(t, 1, n), a + 1, a + L) = SubSeq(t, a + 1, a + L)
    BY <1>2, <2>1, SubSeqOfSubSeq
  <2>3. a < Len(t)
    BY <1>1, <1>2, <1>4
  <2> QED
    BY <2>2, <2>3 DEF Cut
<1> QED
  BY <1>3, <1>4 DEF Cut

LEMMA BackCut ==
  ASSUME NEW L \in Nat \ {0}, NEW t, Cut(L, t),
         NEW n \in Multiple(L), n <= Len(t)
  PROVE  /\ Cut(L, SubSeq(t, n + 1, Len(t)))
         /\ Len(SubSeq(t, n + 1, Len(t))) = Len(t) - n
<1>1. /\ Multiple(L) \subseteq Nat
      /\ \A a, b \in Multiple(L) :
           /\ a + b \in Multiple(L)
           /\ a <= b => b - a \in Multiple(L)
           /\ a < b => a + L <= b
  BY Multiples
<1>2. t \in Seq(Char) /\ Len(t) \in Nat /\ Len(t) \in Multiple(L) /\ n \in Nat
  BY <1>1 DEF Cut
<1> DEFINE s == SubSeq(t, n + 1, Len(t))
<1>3. s \in Seq(Char) /\ Len(s) = Len(t) - n
  <2>1. /\ s \in Seq(Char)
        /\ Len(s) = IF n + 1 <= Len(t) THEN Len(t) - (n + 1) + 1 ELSE 0
    BY <1>2, Part
  <2> HIDE DEF s
  <2> QED
    BY <1>2, <2>1
<1>4. ASSUME NEW a \in Multiple(L), a < Len(t) - n
      PROVE  SubSeq(s, a + 1, a + L) \in Line
  <2>1. n + a \in Multiple(L) /\ n + a < Len(t) /\ n + a + L <= Len(t)
          /\ a \in Nat
    <3>1. n + a \in Multiple(L) /\ a \in Nat
      BY <1>1
    <3>2. n + a < Len(t)
      BY <1>2, <1>4, <3>1
    <3>3. (n + a) + L <= Len(t)
      BY <1>1, <1>2, <3>1, <3>2
    <3> QED
      BY <3>1, <3>2, <3>3
  <2>2. /\ n + 1 \in 1 .. Len(t) /\ Len(t) \in 1 .. Len(t)
        /\ a + 1 \in 1 .. Len(t) - (n + 1) + 1
        /\ a + L \in 1 .. Len(t) - (n + 1) + 1
        /\ (n + 1) + (a + 1) - 1 = (n + a) + 1
        /\ (n + 1) + (a + L) - 1 = (n + a) + L
    BY <1>2, <2>1
  <2>3. SubSeq(s, a + 1, a + L) = SubSeq(t, (n + a) + 1, (n + a) + L)
    BY <1>2, <2>2, SubSeqOfSubSeq
  <2> HIDE DEF s
  <2> QED
    BY <2>1, <2>3 DEF Cut
<1> HIDE DEF s
<1>5. Len(t) - n \in Multiple(L)
  BY <1>1, <1>2
<1>6. Cut(L, s)
  BY <1>3, <1>4, <1>5 DEF Cut
<1> QED
  BY <1>3, <1>6 DEF s
-----------------------------------------------------------------------------
(* What the lines of such a text mean.                                     *)

LEMMA Newlines ==
  ASSUME NEW L, Regular(L), NEW t, Cut(L, t), NEW i \in 1 .. Len(t)
  PROVE  t[i] = Newline <=> i \in Multiple(L)
<1>1. L \in Nat \ {0}
  BY DEF Regular
<1>2. /\ Multiple(L) \subseteq Nat
      /\ \A a, b \in Multiple(L) : a < b => a + L <= b
      /\ \A a, b \in Multiple(L) : a + b \in Multiple(L)
      /\ L \in Multiple(L)
  BY <1>1, Multiples
<1>3. t \in Seq(Char) /\ Len(t) \in Nat /\ Len(t) \in Multiple(L)
  BY DEF Cut
<1>4. PICK a \in Multiple(L) : a < i /\ i <= a + L
  <2>1. i \in Nat \ {0}
    BY <1>3
  <2> QED
    BY <1>1, <2>1, LineOf
<1>5. a \in Nat /\ a < Len(t) /\ a + L <= Len(t)
  <2>1. a \in Nat /\ a < Len(t)
    BY <1>2, <1>3, <1>4
  <2> QED
    BY <1>2, <1>3, <2>1
<1> DEFINE line == SubSeq(t, a + 1, a + L)
<1>6. line \in Line
  BY <1>5 DEF Cut
<1>7. Len(line) = L /\ LineEnds(line) = {L}
  BY <1>6 DEF Regular
<1>8. i - a \in 1 .. L /\ line[i - a] = t[i]
  <2>1. i - a \in 1 .. L /\ i - a \in 1 .. (a + L) - (a + 1) + 1
        /\ (a + 1) + (i - a) - 1 = i
    BY <1>1, <1>3, <1>4, <1>5
  <2>2. line[i - a] = t[(a + 1) + (i - a) - 1]
    BY <1>1, <1>3, <1>5, <2>1, Part
  <2> QED
    BY <2>1, <2>2
<1> HIDE DEF line
<1>9. line[i - a] = Newline <=> i - a = L
  BY <1>1, <1>7, <1>8 DEF LineEnds
<1>10. i - a = L <=> i \in Multiple(L)
  <2>1. ASSUME i - a = L PROVE i \in Multiple(L)
    <3>1. i = a + L
      BY <1>1, <1>3, <1>5, <2>1
    <3> QED
      BY <1>2, <3>1
  <2>2. ASSUME i \in Multiple(L) PROVE i - a = L
    <3>1. a + L <= i
      BY <1>2, <1>4, <2>2
    <3> QED
      BY <1>1, <1>3, <1>4, <1>5, <3>1
  <2> QED
    BY <2>1, <2>2
<1> QED
  BY <1>8, <1>9, <1>10

LEMMA Ends ==
  ASSUME NEW L, Regular(L), NEW t, Cut(L, t), NEW n \in Nat, Len(t) = n * L
  PROVE  /\ Cardinality(LineEnds(t)) = n
         /\ \A k \in 0 .. n : End(t, k) = k * L
<1>1. L \in Nat \ {0}
  BY DEF Regular
<1>2. \A j, k \in Nat : /\ j * L \in Nat
                        /\ j < k => j * L + L <= k * L
                        /\ j * L <= k * L => j <= k
  BY <1>1, Products
<1>3. 0 * L = 0
  BY <1>1
<1>4. \A k \in Nat \ {0} : k * L \in Nat /\ 1 <= k * L
  BY <1>1, <1>2, <1>3
<1>5. \A j, k \in Nat : j <= k => j * L <= k * L
  <2> SUFFICES ASSUME NEW j \in Nat, NEW k \in Nat, j <= k
               PROVE  j * L <= k * L
    OBVIOUS
  <2>1. CASE j = k
    BY <1>2, <2>1
  <2>2. CASE j < k
    BY <1>1, <1>2, <2>2
  <2> QED
    BY <2>1, <2>2
<1>6. LineEnds(t) = {k * L : k \in 1 .. n}
  <2>1. ASSUME NEW i \in LineEnds(t) PROVE i \in {k * L : k \in 1 .. n}
    <3>1. i \in 1 .. Len(t) /\ i \in Multiple(L)
      BY Newlines DEF LineEnds
    <3>2. PICK k \in Nat : i = k * L
      BY <3>1 DEF Multiple
    <3>3. k # 0
      BY <1>3, <3>1, <3>2
    <3>4. k <= n
      BY <1>2, <3>1, <3>2
    <3> QED
      BY <3>2, <3>3, <3>4
  <2>2. ASSUME NEW k \in 1 .. n PROVE k * L \in LineEnds(t)
    <3>1. k * L \in Multiple(L) /\ k \in Nat \ {0} /\ k <= n
      BY DEF Multiple
    <3>2. k * L \in Nat /\ 1 <= k * L /\ k * L <= n * L /\ n * L \in Nat
      BY <1>2, <1>4, <1>5, <3>1
    <3>3. k * L \in 1 .. Len(t)
      BY <3>2
    <3> QED
      BY <3>1, <3>3, Newlines DEF LineEnds
  <2> QED
    BY <2>1, <2>2
<1>7. Cardinality(LineEnds(t)) = n
  BY <1>1, <1>6, FirstMultiples
<1>8. \A k \in 1 .. n :
        Cardinality({j \in LineEnds(t) : j <= k * L}) = k
  <2> SUFFICES ASSUME NEW k \in 1 .. n
               PROVE  Cardinality({j \in LineEnds(t) : j <= k * L}) = k
    OBVIOUS
  <2>1. \A j \in 1 .. n : j * L <= k * L <=> j \in 1 .. k
    BY <1>2, <1>5
  <2>2. {j \in LineEnds(t) : j <= k * L} = {j * L : j \in 1 .. k}
    <3>1. 1 .. k \subseteq 1 .. n
      OBVIOUS
    <3> QED
      BY <1>6, <2>1, <3>1
  <2>3. k \in Nat
    OBVIOUS
  <2> QED
    BY <1>1, <2>2, <2>3, FirstMultiples
<1>9. ASSUME NEW k \in 1 .. n PROVE End(t, k) = k * L
  <2> DEFINE Counts(i) == Cardinality({j \in LineEnds(t) : j <= i})
  <2>1. k * L \in LineEnds(t) /\ Counts(k * L) = k
    BY <1>6, <1>8
  <2>2. ASSUME NEW i \in LineEnds(t), Counts(i) = k PROVE i = k * L
    <3>1. PICK l \in 1 .. n : i = l * L
      BY <1>6
    <3>2. Counts(l * L) = l
      BY <1>8
    <3> QED
      BY <2>2, <3>1, <3>2
  <2>3. End(t, k) = CHOOSE i \in LineEnds(t) : Counts(i) = k
    <3>1. k # 0
      OBVIOUS
    <3> QED
      BY <3>1 DEF End
  <2> HIDE DEF Counts
  <2> QED
    BY <2>1, <2>2, <2>3
<1>10. End(t, 0) = 0 * L
  BY <1>3 DEF End
<1> QED
  BY <1>7, <1>9, <1>10

Meant == {Value(r) : r \in Requests} \union {Bad}

LEMMA MeaningType == \A line : MeaningOf(line) \in Meant
BY DEF MeaningOf, Meant

LEMMA MeaningsAre ==
  ASSUME NEW L, Regular(L), NEW t, Cut(L, t), NEW n \in Nat, Len(t) = n * L
  PROVE  /\ Meanings(t) \in Seq(Meant) /\ Len(Meanings(t)) = n
         /\ \A k \in 1 .. n :
              Meanings(t)[k]
                = MeaningOf(SubSeq(t, (k - 1) * L + 1, k * L))
<1>1. Cardinality(LineEnds(t)) = n /\ \A k \in 0 .. n : End(t, k) = k * L
  BY Ends
<1> DEFINE m == [k \in 1 .. n |->
                   MeaningOf(SubSeq(t, End(t, k - 1) + 1, End(t, k)))]
<1>2. Meanings(t) = m
  BY <1>1 DEF Meanings
<1>3. m \in [1 .. n -> Meant]
  BY MeaningType
<1>4. m \in Seq(Meant) /\ Len(m) = n
  <2> HIDE DEF m
  <2> QED
    BY <1>3
<1>5. ASSUME NEW k \in 1 .. n
      PROVE  m[k] = MeaningOf(SubSeq(t, (k - 1) * L + 1, k * L))
  <2>1. k - 1 \in 0 .. n /\ k \in 0 .. n
    OBVIOUS
  <2>2. End(t, k - 1) = (k - 1) * L /\ End(t, k) = k * L
    BY <1>1, <2>1
  <2> QED
    BY <2>2
<1> HIDE DEF m
<1> QED
  BY <1>2, <1>4, <1>5

LEMMA NothingMeant ==
  ASSUME NEW L, Regular(L)
  PROVE  Meanings(<<>>) = <<>>
<1>1. L \in Nat \ {0} /\ Len(<<>>) = 0 * L
  BY DEF Regular
<1>2. Cut(L, <<>>)
  BY <1>1, NothingCut
<1>3. Meanings(<<>>) \in Seq(Meant) /\ Len(Meanings(<<>>)) = 0
  BY <1>1, <1>2, MeaningsAre
<1> QED
  BY <1>3, EmptySeq

LEMMA MeaningsAppended ==
  ASSUME NEW L, Regular(L), NEW t, Cut(L, t), NEW line \in Line
  PROVE  Meanings(t \o line) = Append(Meanings(t), MeaningOf(line))
<1>1. L \in Nat \ {0} /\ Len(line) = L /\ line \in Seq(Char)
  BY Lines DEF Regular
<1>2. t \in Seq(Char) /\ Len(t) \in Nat
  BY DEF Cut
<1>3. PICK n \in Nat : Len(t) = n * L
  BY DEF Cut, Multiple
<1>4. Cut(L, t \o line)
  BY <1>1, BothCut, LineCut
<1>5. Len(t \o line) = (n + 1) * L /\ (n + 1) * L = n * L + L
        /\ n * L \in Nat
  <2>1. Len(t \o line) = Len(t) + Len(line)
    BY <1>1, <1>2, ConcatProperties
  <2>2. (n + 1) * L = n * L + L
    BY <1>1
  <2> QED
    BY <1>1, <1>2, <1>3, <2>1, <2>2
<1> DEFINE new == Meanings(t \o line)
           old == Meanings(t)
<1>6. /\ new \in Seq(Meant) /\ Len(new) = n + 1
      /\ \A k \in 1 .. n + 1 :
           new[k] = MeaningOf(SubSeq(t \o line, (k - 1) * L + 1, k * L))
  <2> DEFINE m == n + 1
             s == t \o line
  <2>1. m \in Nat /\ Cut(L, s) /\ Len(s) = m * L
    BY <1>4, <1>5
  <2> HIDE DEF m, s
  <2>2. /\ Meanings(s) \in Seq(Meant) /\ Len(Meanings(s)) = m
        /\ \A k \in 1 .. m :
             Meanings(s)[k] = MeaningOf(SubSeq(s, (k - 1) * L + 1, k * L))
    BY <2>1, MeaningsAre
  <2> QED
    BY <2>2 DEF m, s
<1>7. /\ old \in Seq(Meant) /\ Len(old) = n
      /\ \A k \in 1 .. n :
           old[k] = MeaningOf(SubSeq(t, (k - 1) * L + 1, k * L))
  BY <1>3, MeaningsAre
<1>8. ASSUME NEW k \in 1 .. n PROVE new[k] = old[k]
  <2>1. /\ k - 1 \in Nat /\ k \in Nat /\ k - 1 < k /\ k < n + 1
        /\ \A i, j \in Nat : /\ i * L \in Nat
                             /\ i < j => i * L + L <= j * L
    BY <1>1, Products
  <2>2. /\ (k - 1) * L \in Nat /\ k * L \in Nat
        /\ (k - 1) * L + L <= k * L /\ k * L + L <= (n + 1) * L
    BY <2>1
  <2>3. (k - 1) * L + 1 \in 1 .. Len(t) /\ k * L \in 1 .. Len(t)
    BY <1>1, <1>3, <1>5, <2>2
  <2>4. SubSeq(t \o line, (k - 1) * L + 1, k * L)
          = SubSeq(t, (k - 1) * L + 1, k * L)
    BY <1>1, <1>2, <2>3, SubSeqOfConcat1
  <2>5. k \in 1 .. n + 1
    OBVIOUS
  <2> HIDE DEF new, old
  <2>6. new[k] = MeaningOf(SubSeq(t \o line, (k - 1) * L + 1, k * L))
    BY <1>6, <2>5
  <2>7. old[k] = MeaningOf(SubSeq(t, (k - 1) * L + 1, k * L))
    BY <1>7
  <2> QED
    BY <2>4, <2>6, <2>7
<1>9. new[n + 1] = MeaningOf(line)
  <2> DEFINE b == n * L
  <2>1. b \in Nat /\ b = Len(t) /\ (n + 1) * L = b + L /\ (n + 1) - 1 = n
    BY <1>3, <1>5
  <2>2. new[n + 1] = MeaningOf(SubSeq(t \o line, b + 1, b + L))
    <3>1. new[n + 1]
            = MeaningOf(SubSeq(t \o line, ((n + 1) - 1) * L + 1, (n + 1) * L))
      BY <1>6
    <3> HIDE DEF new
    <3> QED
      BY <2>1, <3>1
  <2> HIDE DEF b, new
  <2>3. /\ b + 1 \in Len(t) + 1 .. Len(t) + Len(line)
        /\ b + L \in Len(t) + 1 .. Len(t) + Len(line)
        /\ (b + 1) - Len(t) = 1 /\ (b + L) - Len(t) = Len(line)
    BY <1>1, <2>1
  <2>4. SubSeq(t \o line, b + 1, b + L) = SubSeq(line, 1, Len(line))
    <3>1. SubSeq(t \o line, b + 1, b + L)
            = SubSeq(line, (b + 1) - Len(t), (b + L) - Len(t))
      BY <1>1, <1>2, <2>3, SubSeqOfConcat2
    <3> QED
      BY <2>3, <3>1
  <2> QED
    BY <1>1, <2>2, <2>4, SubSeqFull
<1> HIDE DEF new, old
<1>10. /\ Append(old, MeaningOf(line)) \in Seq(Meant)
       /\ Len(Append(old, MeaningOf(line))) = n + 1
       /\ \A k \in 1 .. n : Append(old, MeaningOf(line))[k] = old[k]
       /\ Append(old, MeaningOf(line))[n + 1] = MeaningOf(line)
  BY <1>7, MeaningType, AppendProperties
<1>11. \A k \in 1 .. n + 1 : new[k] = Append(old, MeaningOf(line))[k]
  <2>1. \A k \in 1 .. n + 1 : k \in 1 .. n \/ k = n + 1
    OBVIOUS
  <2> QED
    BY <1>8, <1>9, <1>10, <2>1
<1>12. new = Append(old, MeaningOf(line))
  BY <1>6, <1>10, <1>11, SeqEqual
<1> QED
  BY <1>12 DEF new, old

LEMMA MeaningsHeadTail ==
  ASSUME NEW L, Regular(L), NEW t, Cut(L, t), 0 < Len(t)
  PROVE  /\ Meanings(t) # <<>>
         /\ SubSeq(t, 1, L) \in Line
         /\ Head(Meanings(t)) = MeaningOf(SubSeq(t, 1, L))
         /\ Tail(Meanings(t)) = Meanings(SubSeq(t, L + 1, Len(t)))
<1>1. L \in Nat \ {0}
  BY DEF Regular
<1>2. t \in Seq(Char) /\ Len(t) \in Nat /\ Len(t) \in Multiple(L)
  BY DEF Cut
<1>3. /\ L \in Multiple(L) /\ 0 \in Multiple(L)
      /\ \A a, b \in Multiple(L) : a < b => a + L <= b
  BY <1>1, Multiples
<1>4. L <= Len(t)
  <2>1. 0 + L <= Len(t)
    BY <1>2, <1>3
  <2> QED
    BY <1>1, <2>1
<1>5. SubSeq(t, 1, L) \in Line
  <2>1. SubSeq(t, 0 + 1, 0 + L) \in Line
    BY <1>3 DEF Cut
  <2> QED
    BY <1>1, <2>1
<1>6. PICK n \in Nat : Len(t) = n * L
  BY <1>2 DEF Multiple
<1>7. /\ \A i, j \in Nat : /\ i * L \in Nat
                           /\ i < j => i * L + L <= j * L
      /\ \A j \in Nat : (j + 1) * L = j * L + L
      /\ 0 * L = 0 /\ 1 * L = L
  BY <1>1, Products
<1>8. n # 0 /\ n - 1 \in Nat /\ Len(t) - L = (n - 1) * L
  <2>1. n # 0 /\ n - 1 \in Nat /\ (n - 1) + 1 = n
    <3>1. n # 0
      BY <1>6, <1>7
    <3> QED
      BY <3>1
  <2>2. n * L = (n - 1) * L + L /\ (n - 1) * L \in Nat
    BY <1>7, <2>1
  <2> QED
    BY <1>1, <1>2, <1>6, <2>1, <2>2
<1> DEFINE rest == SubSeq(t, L + 1, Len(t))
           all == Meanings(t)
           others == Meanings(rest)
<1>9. Cut(L, rest) /\ Len(rest) = (n - 1) * L
  BY <1>1, <1>3, <1>4, <1>8, BackCut
<1>10. /\ all \in Seq(Meant) /\ Len(all) = n
       /\ \A k \in 1 .. n :
            all[k] = MeaningOf(SubSeq(t, (k - 1) * L + 1, k * L))
  BY <1>6, MeaningsAre
<1>11. /\ others \in Seq(Meant) /\ Len(others) = n - 1
       /\ \A k \in 1 .. n - 1 :
            others[k] = MeaningOf(SubSeq(rest, (k - 1) * L + 1, k * L))
  <2> HIDE DEF rest
  <2> QED
    BY <1>8, <1>9, MeaningsAre
<1>12. ASSUME NEW k \in 1 .. n - 1 PROVE all[k + 1] = others[k]
  <2> DEFINE a == (k - 1) * L
  <2>1. k - 1 \in Nat /\ k \in Nat /\ k < n /\ (k - 1) + 1 = k
          /\ k + 1 \in 1 .. n /\ (k + 1) - 1 = k
    OBVIOUS
  <2>2. a \in Nat /\ k * L = a + L /\ (k + 1) * L = (a + L) + L
          /\ (k + 1) * L <= Len(t)
    <3>1. (k + 1) * L = k * L + L /\ k * L + L <= n * L
      BY <1>7, <2>1
    <3>2. a \in Nat /\ k * L = a + L
      BY <1>7, <2>1
    <3> HIDE DEF a
    <3> QED
      BY <1>6, <3>1, <3>2
  <2>3. all[k + 1] = MeaningOf(SubSeq(t, (a + L) + 1, (a + L) + L))
    <3>1. all[k + 1]
            = MeaningOf(SubSeq(t, ((k + 1) - 1) * L + 1, (k + 1) * L))
      BY <1>10, <2>1
    <3> HIDE DEF a, all
    <3> QED
      BY <2>1, <2>2, <3>1
  <2>4. others[k] = MeaningOf(SubSeq(rest, a + 1, a + L))
    <3>1. others[k] = MeaningOf(SubSeq(rest, a + 1, k * L))
      BY <1>11
    <3> HIDE DEF a, others, rest
    <3> QED
      BY <2>2, <3>1
  <2> HIDE DEF a, others, all
  <2>5. SubSeq(rest, a + 1, a + L) = SubSeq(t, (a + L) + 1, (a + L) + L)
    <3>1. (a + L) + L <= Len(t)
      BY <2>2
    <3>2. /\ L + 1 \in 1 .. Len(t) /\ Len(t) \in 1 .. Len(t)
          /\ a + 1 \in 1 .. Len(t) - (L + 1) + 1
          /\ a + L \in 1 .. Len(t) - (L + 1) + 1
          /\ (L + 1) + (a + 1) - 1 = (a + L) + 1
          /\ (L + 1) + (a + L) - 1 = (a + L) + L
      BY <1>1, <1>2, <2>2, <3>1
    <3> DEFINE p == L + 1
               q == a + 1
               r == a + L
    <3>3. p \in 1 .. Len(t) /\ q \in 1 .. Len(t) - p + 1
            /\ r \in 1 .. Len(t) - p + 1 /\ Len(t) \in 1 .. Len(t)
      BY <3>2
    <3>4. p + q - 1 = (a + L) + 1 /\ p + r - 1 = (a + L) + L
      BY <3>2
    <3> HIDE DEF p, q, r
    <3>5. SubSeq(SubSeq(t, p, Len(t)), q, r)
            = SubSeq(t, p + q - 1, p + r - 1)
      BY <1>2, <3>3, SubSeqOfSubSeq
    <3> QED
      BY <3>4, <3>5 DEF p, q, r
  <2> QED
    BY <2>3, <2>4, <2>5
<1>13. all[1] = MeaningOf(SubSeq(t, 1, L))
  <2>1. all[1] = MeaningOf(SubSeq(t, (1 - 1) * L + 1, 1 * L))
    BY <1>8, <1>10
  <2>2. (1 - 1) * L + 1 = 1 /\ 1 * L = L
    BY <1>7
  <2> HIDE DEF all
  <2> QED
    BY <2>1, <2>2
<1> HIDE DEF rest, all, others
<1>14. all # <<>>
  BY <1>8, <1>10, EmptySeq
<1>15. Head(all) = all[1]
  BY <1>10, <1>14
<1>16. Tail(all) = others
  <2>1. /\ Tail(all) \in Seq(Meant) /\ Len(Tail(all)) = n - 1
        /\ \A k \in 1 .. n - 1 : Tail(all)[k] = all[k + 1]
    BY <1>10, <1>14, HeadTailProperties
  <2>2. \A k \in 1 .. n - 1 : Tail(all)[k] = others[k]
    BY <1>12, <2>1
  <2> QED
    BY <1>11, <2>1, <2>2, SeqEqual
<1> QED
  BY <1>5, <1>13, <1>14, <1>15, <1>16 DEF all, others, rest
-----------------------------------------------------------------------------
(* A scan that begins where a line does.                                   *)

LEMMA PastIs ==
  ASSUME NEW text \in Seq(Char), NEW S, NEW i \in Nat, NEW k \in Nat,
         i <= k, k <= Len(text), text[k] \notin S,
         \A j \in Nat : i <= j /\ j < k => text[j] \in S
  PROVE  Past(S, text, i) = k
<1> DEFINE E == {j \in i .. Len(text) : text[j] \notin S}
                  \union {Len(text) + 1}
<1>1. Len(text) \in Nat
  OBVIOUS
<1>2. E \subseteq Nat /\ k \in E
  BY <1>1
<1>3. \A j \in E : k <= j
  BY <1>1
<1> HIDE DEF E
<1>4. Min(E) = k
  BY <1>2, <1>3, Minimum
<1> QED
  BY <1>4 DEF Past, E

LEMMA TextParts ==
  ASSUME NEW r \in Requests
  PROVE  /\ Len(r[1]) \in Nat /\ Len(r[2]) \in Nat
         /\ Len(Text(r)) = Len(r[1]) + Len(r[2]) + 3
         /\ \A i \in 1 .. Len(r[1]) :
              Text(r)[i] = r[1][i] /\ r[1][i] \in Digit
         /\ Text(r)[Len(r[1]) + 1] = Comma
         /\ Text(r)[Len(r[1]) + 2] = Blank
         /\ \A i \in 1 .. Len(r[2]) :
              Text(r)[Len(r[1]) + 2 + i] = r[2][i] /\ r[2][i] \in Digit
         /\ Text(r)[Len(r[1]) + Len(r[2]) + 3] = Newline
<1> DEFINE d == r[1]
           e == r[2]
           s == d \o <<Comma, Blank>>
           t == s \o e
<1>1. /\ d \in Seq(Char) /\ e \in Seq(Char) /\ <<Newline>> \in Seq(Char)
      /\ <<Comma, Blank>> \in Seq(Char)
  BY Texts
<1>2. /\ \A i \in 1 .. Len(d) : d[i] \in Digit
      /\ \A i \in 1 .. Len(e) : e[i] \in Digit
  BY BufferAssumption, ElementOfSeq
<1>3. Text(r) = t \o <<Newline>>
  BY DEF Text
<1> HIDE DEF d, e
<1>4. Len(d) \in Nat /\ Len(e) \in Nat
  BY <1>1
<1>5. /\ s \in Seq(Char) /\ Len(s) = Len(d) + 2
      /\ \A i \in 1 .. Len(d) : s[i] = d[i]
      /\ s[Len(d) + 1] = Comma /\ s[Len(d) + 2] = Blank
  <2>1. Len(<<Comma, Blank>>) = 2 /\ <<Comma, Blank>>[1] = Comma
          /\ <<Comma, Blank>>[2] = Blank
    OBVIOUS
  <2>2. /\ s \in Seq(Char) /\ Len(s) = Len(d) + 2
        /\ \A i \in 1 .. Len(d) + 2 :
             s[i] = IF i <= Len(d) THEN d[i]
                    ELSE <<Comma, Blank>>[i - Len(d)]
    BY <1>1, <2>1, ConcatProperties
  <2>3. /\ Len(d) + 1 \in 1 .. Len(d) + 2 /\ ~(Len(d) + 1 <= Len(d))
        /\ Len(d) + 2 \in 1 .. Len(d) + 2 /\ ~(Len(d) + 2 <= Len(d))
        /\ (Len(d) + 1) - Len(d) = 1 /\ (Len(d) + 2) - Len(d) = 2
        /\ \A i \in 1 .. Len(d) : i \in 1 .. Len(d) + 2 /\ i <= Len(d)
    BY <1>4
  <2> HIDE DEF s
  <2> QED
    BY <2>1, <2>2, <2>3
<1> HIDE DEF s
<1>6. /\ t \in Seq(Char) /\ Len(t) = Len(s) + Len(e)
      /\ \A i \in 1 .. Len(s) : t[i] = s[i]
      /\ \A i \in 1 .. Len(e) : t[Len(s) + i] = e[i]
  <2>1. /\ t \in Seq(Char) /\ Len(t) = Len(s) + Len(e)
        /\ \A i \in 1 .. Len(s) + Len(e) :
             t[i] = IF i <= Len(s) THEN s[i] ELSE e[i - Len(s)]
    <3>1. s \in Seq(Char) /\ e \in Seq(Char)
      BY <1>1, <1>5
    <3> QED
      BY <3>1, ConcatProperties
  <2>2. /\ \A i \in 1 .. Len(s) : i \in 1 .. Len(s) + Len(e) /\ i <= Len(s)
        /\ \A i \in 1 .. Len(e) : /\ Len(s) + i \in 1 .. Len(s) + Len(e)
                                  /\ ~(Len(s) + i <= Len(s))
                                  /\ (Len(s) + i) - Len(s) = i
    BY <1>4, <1>5
  <2> HIDE DEF t
  <2> QED
    BY <2>1, <2>2
<1> HIDE DEF t
<1>7. /\ Len(Text(r)) = Len(t) + 1
      /\ \A i \in 1 .. Len(t) : Text(r)[i] = t[i]
      /\ Text(r)[Len(t) + 1] = Newline
  <2>1. Text(r) = Append(t, Newline)
    BY <1>1, <1>3, <1>6, AppendIsConcat DEF Newline, Char
  <2>2. Newline \in Char
    BY DEF Newline, Char
  <2> QED
    BY <1>6, <2>1, <2>2, AppendProperties
<1>8. /\ Len(t) = Len(d) + Len(e) + 2 /\ Len(t) + 1 = Len(d) + Len(e) + 3
      /\ \A i \in 1 .. Len(d) : i \in 1 .. Len(s) /\ i \in 1 .. Len(t)
      /\ Len(d) + 1 \in 1 .. Len(s) /\ Len(d) + 1 \in 1 .. Len(t)
      /\ Len(d) + 2 \in 1 .. Len(s) /\ Len(d) + 2 \in 1 .. Len(t)
      /\ \A i \in 1 .. Len(e) : /\ Len(s) + i = Len(d) + 2 + i
                                /\ Len(s) + i \in 1 .. Len(t)
  BY <1>4, <1>5, <1>6
<1>9. \A i \in 1 .. Len(d) : Text(r)[i] = d[i]
  BY <1>5, <1>6, <1>7, <1>8
<1>10. Text(r)[Len(d) + 1] = Comma /\ Text(r)[Len(d) + 2] = Blank
  BY <1>5, <1>6, <1>7, <1>8
<1>11. \A i \in 1 .. Len(e) : Text(r)[Len(d) + 2 + i] = e[i]
  <2> SUFFICES ASSUME NEW i \in 1 .. Len(e)
               PROVE  Text(r)[Len(d) + 2 + i] = e[i]
    OBVIOUS
  <2>1. Text(r)[Len(s) + i] = e[i]
    BY <1>6, <1>7, <1>8
  <2> QED
    BY <1>8, <2>1
<1>12. /\ Len(Text(r)) = Len(d) + Len(e) + 3
       /\ Text(r)[Len(d) + Len(e) + 3] = Newline
  BY <1>7, <1>8
<1> QED
  BY <1>2, <1>4, <1>9, <1>10, <1>11, <1>12 DEF d, e

LEMMA ScanRequest ==
  ASSUME NEW text \in Seq(Char), NEW r \in Requests,
         r[1] # <<>>, r[2] # <<>>, Len(Text(r)) <= Len(text),
         SubSeq(text, 1, Len(Text(r))) = Text(r)
  PROVE  Scan(text) = Value(r)
<1> DEFINE d == r[1]
           e == r[2]
           n == Len(d)
           m == Len(e)
<1>1. /\ n \in Nat /\ m \in Nat /\ Len(Text(r)) = n + m + 3
      /\ \A i \in 1 .. n : Text(r)[i] = d[i] /\ d[i] \in Digit
      /\ Text(r)[n + 1] = Comma /\ Text(r)[n + 2] = Blank
      /\ \A i \in 1 .. m : Text(r)[n + 2 + i] = e[i] /\ e[i] \in Digit
      /\ Text(r)[n + m + 3] = Newline
  BY TextParts
<1>2. d \in Seq(Char) /\ e \in Seq(Char) /\ n >= 1 /\ m >= 1
  <2>1. d \in Seq(Char) /\ e \in Seq(Char)
    BY Texts
  <2> QED
    BY <2>1, EmptySeq
<1> HIDE DEF d, e, n, m
<1>3. Len(text) \in Nat /\ n + m + 3 <= Len(text)
  <2>1. Len(text) \in Nat
    OBVIOUS
  <2> QED
    BY <1>1, <2>1
<1>4. \A i \in 1 .. n + m + 3 : text[i] = Text(r)[i]
  <2> DEFINE k == n + m + 3
  <2>1. k \in Nat /\ k <= Len(text) /\ SubSeq(text, 1, k) = Text(r)
    <3>1. k \in Nat
      BY <1>1
    <3>2. k = Len(Text(r))
      BY <1>1
    <3> HIDE DEF k
    <3> QED
      BY <3>1, <3>2
  <2> HIDE DEF k
  <2>2. \A i \in 1 .. k - 1 + 1 : SubSeq(text, 1, k)[i] = text[1 + i - 1]
    BY <2>1, Part
  <2>3. \A i \in 1 .. k : i \in 1 .. k - 1 + 1 /\ 1 + i - 1 = i
    BY <2>1
  <2>4. \A i \in 1 .. k : Text(r)[i] = text[i]
    BY <2>1, <2>2, <2>3
  <2> QED
    BY <2>4 DEF k
<1>5. \A i \in 1 .. n : text[i] = d[i] /\ text[i] \in Digit
  BY <1>1, <1>4
<1>6. text[n + 1] = Comma /\ text[n + 2] = Blank /\ text[n + m + 3] = Newline
  BY <1>1, <1>4
<1>7. \A i \in 1 .. m : text[n + 2 + i] = e[i] /\ text[n + 2 + i] \in Digit
  BY <1>1, <1>4
<1>8. Digit \cap {Blank, Newline} = {} /\ Comma \notin Digit
        /\ Newline \notin Digit /\ Comma \notin {Blank, Newline}
        /\ Blank \in {Blank, Newline}
  BY DEF Digit, Comma, Blank, Newline
<1> DEFINE Space == {Blank, Newline}
<1>9. Past(Space, text, 1) = 1
  <2>1. text[1] \notin Space
    <3>1. 1 \in 1 .. n
      BY <1>1, <1>2
    <3>2. text[1] \in Digit
      BY <1>5, <3>1
    <3> QED
      BY <1>8, <3>2
  <2> HIDE DEF Space
  <2> QED
    BY <1>1, <1>3, <2>1, PastIs
<1>10. Past(Digit, text, 1) = n + 1
  <2>1. \A j \in Nat : 1 <= j /\ j < n + 1 => text[j] \in Digit
    BY <1>1, <1>5
  <2>2. n + 1 \in Nat /\ 1 <= n + 1 /\ n + 1 <= Len(text)
    BY <1>1, <1>3
  <2>3. text[n + 1] \notin Digit
    BY <1>6, <1>8
  <2> QED
    BY <2>1, <2>2, <2>3, PastIs
<1>11. Past(Space, text, (n + 1) + 1) = n + 3
  <2> DEFINE i == (n + 1) + 1
             k == n + 3
  <2>1. i \in Nat /\ k \in Nat /\ i <= k /\ k <= Len(text) /\ i = n + 2
    BY <1>1, <1>3
  <2>2. \A j \in Nat : i <= j /\ j < k => text[j] \in Space
    <3>1. \A j \in Nat : i <= j /\ j < k => j = n + 2
      BY <1>1
    <3> QED
      BY <1>6, <1>8, <3>1
  <2>3. text[k] \notin Space
    <3>1. 1 \in 1 .. m /\ n + 2 + 1 = n + 3
      BY <1>1, <1>2
    <3>2. text[n + 2 + 1] \in Digit
      BY <1>7, <3>1
    <3> QED
      BY <1>8, <3>1, <3>2
  <2> HIDE DEF i, k, Space
  <2>4. Past(Space, text, i) = k
    BY <2>1, <2>2, <2>3, PastIs
  <2> QED
    BY <2>4 DEF i, k
<1>12. Past(Digit, text, n + 3) = n + m + 3
  <2>1. \A j \in Nat : n + 3 <= j /\ j < n + m + 3 => text[j] \in Digit
    <3> SUFFICES ASSUME NEW j \in Nat, n + 3 <= j, j < n + m + 3
                 PROVE  text[j] \in Digit
      OBVIOUS
    <3>1. j - n - 2 \in 1 .. m /\ n + 2 + (j - n - 2) = j
      BY <1>1
    <3>2. text[n + 2 + (j - n - 2)] \in Digit
      BY <1>7, <3>1
    <3> QED
      BY <3>1, <3>2
  <2>2. /\ n + 3 \in Nat /\ n + m + 3 \in Nat /\ n + 3 <= n + m + 3
        /\ n + m + 3 <= Len(text)
    BY <1>1, <1>3
  <2>3. text[n + m + 3] \notin Digit
    BY <1>6, <1>8
  <2> QED
    BY <2>1, <2>2, <2>3, PastIs
<1>13. SubSeq(text, 1, (n + 1) - 1) = d
  <2>1. (n + 1) - 1 = n /\ n \in Nat /\ n <= Len(text)
          /\ \A i \in 1 .. n : 1 + i - 1 = i
    BY <1>1, <1>3
  <2>2. /\ SubSeq(text, 1, n) \in Seq(Char)
        /\ Len(SubSeq(text, 1, n)) = IF 1 <= n THEN n - 1 + 1 ELSE 0
        /\ \A i \in 1 .. n - 1 + 1 : SubSeq(text, 1, n)[i] = text[1 + i - 1]
    BY <2>1, Part
  <2>3. Len(SubSeq(text, 1, n)) = n
        /\ \A i \in 1 .. n : SubSeq(text, 1, n)[i] = d[i]
    BY <1>2, <1>5, <2>1, <2>2
  <2>4. SubSeq(text, 1, n) = d
    BY <1>2, <2>2, <2>3, SeqEqual DEF n
  <2> QED
    BY <2>1, <2>4
<1>14. SubSeq(text, n + 3, (n + m + 3) - 1) = e
  <2> DEFINE a == n + 3
             b == n + m + 2
             s == SubSeq(text, a, b)
  <2>1. /\ (n + m + 3) - 1 = b /\ a \in Nat \ {0} /\ b \in Nat
        /\ b <= Len(text) /\ a <= b /\ b - a + 1 = m
        /\ \A i \in 1 .. m : a + i - 1 = n + 2 + i
    BY <1>1, <1>2, <1>3
  <2> HIDE DEF a, b
  <2>2. /\ s \in Seq(Char) /\ Len(s) = IF a <= b THEN b - a + 1 ELSE 0
        /\ \A i \in 1 .. b - a + 1 : s[i] = text[a + i - 1]
    BY <2>1, Part
  <2> HIDE DEF s
  <2>3. Len(s) = m /\ \A i \in 1 .. m : s[i] = e[i]
    BY <1>7, <2>1, <2>2
  <2>4. s = e
    BY <1>2, <2>2, <2>3, SeqEqual DEF m
  <2> QED
    BY <2>1, <2>4 DEF a, s
<1>15. /\ 1 < n + 1 /\ n + 1 <= Len(text) /\ n + 3 < n + m + 3
       /\ n + m + 3 <= Len(text)
  BY <1>1, <1>2, <1>3
<1>16. Scan(text) = <<Number(SubSeq(text, 1, (n + 1) - 1)),
                      Number(SubSeq(text, n + 3, (n + m + 3) - 1))>>
  BY <1>6, <1>9, <1>10, <1>11, <1>12, <1>15 DEF Scan
<1>17. Scan(text) = <<Number(d), Number(e)>>
  BY <1>13, <1>14, <1>16
<1> QED
  BY <1>17 DEF Value, d, e

LEMMA ScanOther ==
  ASSUME NEW text \in Seq(Char), 1 <= Len(text), text[1] \in {Comma, Letter}
  PROVE  Scan(text) = Bad
<1>1. Comma \notin Digit /\ Letter \notin Digit
        /\ {Comma, Letter} \cap {Blank, Newline} = {}
  BY DEF Digit, Comma, Blank, Newline, Letter
<1>2. Past({Blank, Newline}, text, 1) = 1
  <2> DEFINE Space == {Blank, Newline}
  <2>1. text[1] \notin Space
    BY <1>1
  <2> HIDE DEF Space
  <2>2. Past(Space, text, 1) = 1
    BY <2>1, PastIs
  <2> QED
    BY <2>2 DEF Space
<1>3. Past(Digit, text, 1) = 1
  <2>1. text[1] \notin Digit
    BY <1>1
  <2> QED
    BY <2>1, PastIs
<1> QED
  BY <1>2, <1>3 DEF Scan

(* The theorem of a scan: what follows the line is not looked at. *)
LEMMA ScanLine ==
  ASSUME NEW L, Regular(L), NEW text \in Seq(Char), L <= Len(text),
         SubSeq(text, 1, L) \in Line
  PROVE  Scan(text) = MeaningOf(SubSeq(text, 1, L))
<1> DEFINE line == SubSeq(text, 1, L)
<1>1. L \in Nat \ {0} /\ Len(line) = L
  BY DEF Regular
<1>2. CASE \E r \in Requests : line = Text(r)
  <2>1. PICK r \in Requests :
          line = Text(r) /\ MeaningOf(line) = Value(r)
    BY <1>2 DEF MeaningOf
  <2>2. r[1] # <<>> /\ r[2] # <<>> /\ Len(Text(r)) = L
    BY <1>1, <2>1 DEF Regular
  <2> QED
    BY <2>1, <2>2, ScanRequest
<1>3. CASE ~\E r \in Requests : line = Text(r)
  <2>1. line \in Garbage /\ MeaningOf(line) = Bad
    BY <1>3 DEF MeaningOf, Line
  <2>2. line[1] \in {Comma, Letter}
    BY <2>1 DEF Regular
  <2>3. line[1] = text[1]
    <3>1. 1 \in 1 .. L - 1 + 1 /\ 1 + 1 - 1 = 1 /\ L \in Nat
      BY <1>1
    <3>2. \A i \in 1 .. L - 1 + 1 : line[i] = text[1 + i - 1]
      BY <3>1, Part
    <3> HIDE DEF line
    <3> QED
      BY <3>1, <3>2
  <2> HIDE DEF line
  <2>4. 1 <= Len(text)
    BY <1>1
  <2> QED
    BY <2>1, <2>2, <2>3, <2>4, ScanOther DEF line
<1> QED
  BY <1>2, <1>3
-----------------------------------------------------------------------------
(* Between any two steps, the pipe and what is left of a read are lines.   *)

Left == SubSeq(buff, offset + 1, bytesRead)

Aligned(L) ==
  /\ Cut(L, pipe)
  /\ pc = "eat" => offset < bytesRead /\ Cut(L, Left)

LEMMA FirstAligned ==
  ASSUME NEW L, Regular(L)
  PROVE  Init => Aligned(L)
<1>1. L \in Nat \ {0}
  BY DEF Regular
<1> QED
  BY <1>1, NothingCut DEF Init, Aligned

(* A line before others. *)
LEMMA LineBefore ==
  ASSUME NEW s \in Seq(Char), NEW t \in Seq(Char), 0 < Len(s)
  PROVE  /\ SubSeq(s \o t, 1, Len(s)) = s
         /\ SubSeq(s \o t, Len(s) + 1, Len(s \o t)) = t
         /\ Len(s \o t) = Len(s) + Len(t)
<1>1. Len(s) \in Nat /\ Len(t) \in Nat
  OBVIOUS
<1>2. Len(s \o t) = Len(s) + Len(t)
  BY ConcatProperties
<1>3. SubSeq(s \o t, 1, Len(s)) = s
  <2>1. 1 \in 1 .. Len(s) /\ Len(s) \in 1 .. Len(s)
    BY <1>1
  <2>2. SubSeq(s \o t, 1, Len(s)) = SubSeq(s, 1, Len(s))
    BY <2>1, SubSeqOfConcat1
  <2> QED
    BY <2>2, SubSeqFull
<1>4. SubSeq(s \o t, Len(s) + 1, Len(s) + Len(t)) = t
  <2>1. CASE t = <<>>
    <3>1. Len(t) = 0 /\ Len(s) + Len(t) < Len(s) + 1
            /\ Len(s) + 1 \in Int /\ Len(s) + Len(t) \in Int
      BY <1>1, <2>1
    <3>2. SubSeq(s \o t, Len(s) + 1, Len(s) + Len(t)) = <<>>
      BY <3>1, SubSeqEmpty
    <3> QED
      BY <2>1, <3>2
  <2>2. CASE t # <<>>
    <3>1. Len(t) # 0
      BY <2>2, EmptySeq
    <3>2. /\ Len(s) + 1 \in Len(s) + 1 .. Len(s) + Len(t)
          /\ Len(s) + Len(t) \in Len(s) + 1 .. Len(s) + Len(t)
          /\ (Len(s) + 1) - Len(s) = 1
          /\ (Len(s) + Len(t)) - Len(s) = Len(t)
      BY <1>1, <3>1
    <3>3. SubSeq(s \o t, Len(s) + 1, Len(s) + Len(t))
            = SubSeq(t, (Len(s) + 1) - Len(s), (Len(s) + Len(t)) - Len(s))
      BY <3>2, SubSeqOfConcat2
    <3>4. SubSeq(t, (Len(s) + 1) - Len(s), (Len(s) + Len(t)) - Len(s))
            = SubSeq(t, 1, Len(t))
      BY <3>2
    <3> QED
      BY <3>3, <3>4, SubSeqFull
  <2> QED
    BY <2>1, <2>2
<1> QED
  BY <1>2, <1>3, <1>4

LEMMA MeaningsLine ==
  ASSUME NEW L, Regular(L), NEW line \in Line, NEW t, Cut(L, t)
  PROVE  /\ Meanings(line \o t) # <<>>
         /\ Head(Meanings(line \o t)) = MeaningOf(line)
         /\ Tail(Meanings(line \o t)) = Meanings(t)
<1>1. L \in Nat \ {0} /\ Len(line) = L /\ line \in Seq(Char)
  BY Lines DEF Regular
<1>2. t \in Seq(Char) /\ Len(t) \in Nat
  BY DEF Cut
<1>3. Cut(L, line \o t)
  BY <1>1, LineCut, BothCut
<1>4. /\ SubSeq(line \o t, 1, L) = line
      /\ SubSeq(line \o t, L + 1, Len(line \o t)) = t
      /\ Len(line \o t) = L + Len(t)
  <2>1. 0 < Len(line)
    BY <1>1
  <2> QED
    BY <1>1, <1>2, <2>1, LineBefore
<1>5. 0 < Len(line \o t)
  BY <1>1, <1>2, <1>4
<1> DEFINE s == line \o t
<1> HIDE DEF s
<1>6. /\ Meanings(s) # <<>>
      /\ Head(Meanings(s)) = MeaningOf(SubSeq(s, 1, L))
      /\ Tail(Meanings(s)) = Meanings(SubSeq(s, L + 1, Len(s)))
  <2>1. Cut(L, s) /\ 0 < Len(s)
    BY <1>3, <1>5 DEF s
  <2> QED
    BY <2>1, MeaningsHeadTail
<1> QED
  BY <1>4, <1>6 DEF s

(* A write puts a line behind the others. *)
LEMMA WriteAligned ==
  ASSUME NEW L, Regular(L), TypeOK, Aligned(L), WriteLine
  PROVE  /\ Aligned(L)'
         /\ \E line \in Line : Unanswered' = Unanswered \o line
<1>1. L \in Nat \ {0}
  BY DEF Regular
<1>2. PICK line \in Line : pipe' = pipe \o line
  BY DEF WriteLine
<1>3. UNCHANGED <<pc, buff, bytesRead, offset>>
  BY DEF WriteLine
<1>4. Cut(L, pipe) /\ Cut(L, line)
  BY LineCut DEF Aligned
<1>5. Cut(L, pipe')
  BY <1>1, <1>2, <1>4, BothCut
<1>6. Aligned(L)'
  BY <1>3, <1>5 DEF Aligned, Left
<1>7. Unanswered' = Unanswered \o line
  <2> DEFINE s == IF pc = "eat" THEN Left ELSE <<>>
  <2>1. s \in Seq(Char) /\ pipe \in Seq(Char) /\ line \in Seq(Char)
    BY Lines DEF Aligned, Cut, TypeOK
  <2>2. Unanswered = s \o pipe /\ Unanswered' = s \o (pipe \o line)
    BY <1>2, <1>3 DEF Unanswered, Left
  <2> HIDE DEF s
  <2> QED
    BY <2>1, <2>2, ConcatAssociative
<1> QED
  BY <1>6, <1>7

(* A read ends where a line does, and changes nothing of what is to come.  *)
LEMMA ReadAligned ==
  ASSUME NEW L, Regular(L), TypeOK, Aligned(L), Read
  PROVE  Aligned(L)' /\ Unanswered' = Unanswered
<1> DEFINE n == AtMost(BuffLen)
<1>1. L \in Nat \ {0} /\ BuffLen \in Multiple(L) /\ BuffLen \in Nat \ {0}
  BY BufferAssumption DEF Regular, Multiple
<1>2. /\ pc = "read" /\ pc' = "eat" /\ pipe # <<>>
      /\ buff' = SubSeq(pipe, 1, n) \o SubSeq(buff, n + 1, Len(buff))
      /\ pipe' = SubSeq(pipe, n + 1, Len(pipe))
      /\ bytesRead' = n /\ offset' = 0
  BY DEF Read, ReadChars
<1>3. pipe \in Seq(Char) /\ Len(pipe) \in Nat /\ Len(pipe) # 0
      /\ Len(pipe) \in Multiple(L) /\ Cut(L, pipe)
  BY <1>2, EmptySeq DEF Aligned, Cut
<1>4. /\ n \in Nat /\ 0 < n /\ n <= Len(pipe) /\ n <= BuffLen
      /\ n \in Multiple(L)
  BY <1>1, <1>3 DEF AtMost
<1> HIDE DEF n
<1>5. buff \in Seq(Char) /\ Len(buff) = BuffLen
  BY DEF TypeOK
<1>6. Cut(L, pipe')
  BY <1>1, <1>2, <1>3, <1>4, BackCut
<1>7. Left' = SubSeq(pipe, 1, n)
  <2>1. /\ buff' \in Seq(Char) /\ Len(buff') = BuffLen
        /\ \A i \in 1 .. n : buff'[i] = pipe[i]
    BY <1>2, <1>3, <1>4, <1>5, ReadBuffer
  <2> DEFINE s == SubSeq(buff', 1, n)
             t == SubSeq(pipe, 1, n)
  <2>2. Left' = s
    BY <1>2, <1>4 DEF Left
  <2>3. s \in Seq(Char) /\ Len(s) = n /\ \A i \in 1 .. n : s[i] = buff'[i]
    <3>1. /\ s \in Seq(Char) /\ Len(s) = IF 1 <= n THEN n - 1 + 1 ELSE 0
          /\ \A i \in 1 .. n - 1 + 1 : s[i] = buff'[1 + i - 1]
      BY <1>4, <2>1, Part
    <3> HIDE DEF s
    <3> QED
      BY <1>4, <3>1
  <2>4. t \in Seq(Char) /\ Len(t) = n /\ \A i \in 1 .. n : t[i] = pipe[i]
    <3>1. /\ t \in Seq(Char) /\ Len(t) = IF 1 <= n THEN n - 1 + 1 ELSE 0
          /\ \A i \in 1 .. n - 1 + 1 : t[i] = pipe[1 + i - 1]
      BY <1>3, <1>4, Part
    <3> HIDE DEF t
    <3> QED
      BY <1>4, <3>1
  <2> HIDE DEF s, t
  <2>5. s = t
    BY <2>1, <2>3, <2>4, SeqEqual
  <2> QED
    BY <2>2, <2>5 DEF t
<1>8. Cut(L, Left')
  BY <1>1, <1>3, <1>4, <1>7, FrontCut
<1>9. Aligned(L)'
  BY <1>2, <1>4, <1>6, <1>8 DEF Aligned
<1>10. Unanswered' = Unanswered
  <2>1. Unanswered = pipe
    BY <1>2, <1>3, ConcatEmptySeq DEF Unanswered
  <2>2. Unanswered' = SubSeq(pipe, 1, n) \o SubSeq(pipe, n + 1, Len(pipe))
    BY <1>2, <1>7 DEF Unanswered, Left
  <2>3. SubSeq(pipe, 1, n) \o SubSeq(pipe, n + 1, Len(pipe))
          = SubSeq(pipe, 1, Len(pipe))
    <3>1. 1 \in 1 .. Len(pipe) + 1 /\ n \in 1 - 1 .. Len(pipe)
            /\ Len(pipe) \in n .. Len(pipe)
      BY <1>3, <1>4
    <3> QED
      BY <1>3, <3>1, ConcatAdjacentSubSeq
  <2> QED
    BY <1>3, <2>1, <2>2, <2>3, SubSeqFull
<1> QED
  BY <1>9, <1>10

(* The first line of what is left, and what is behind it. *)
LEMMA FirstLine ==
  ASSUME NEW L, Regular(L), TypeOK, Aligned(L), pc = "eat"
  PROVE  /\ SubSeq(buff, offset + 1, offset + L) \in Line
         /\ offset + L <= bytesRead
         /\ NextOffset = offset + L
         /\ Cut(L, SubSeq(buff, offset + L + 1, bytesRead))
         /\ Left = SubSeq(buff, offset + 1, offset + L)
                     \o SubSeq(buff, offset + L + 1, bytesRead)
<1>1. L \in Nat \ {0}
  BY DEF Regular
<1>2. /\ Multiple(L) \subseteq Nat /\ 0 \in Multiple(L) /\ L \in Multiple(L)
      /\ \A a, b \in Multiple(L) : a < b => a + L <= b
  BY <1>1, Multiples
<1>3. /\ buff \in Seq(Char) /\ Len(buff) \in Nat /\ bytesRead \in Nat
      /\ bytesRead <= Len(buff) /\ offset \in Nat /\ offset < bytesRead
      /\ Cut(L, Left)
  BY BufferAssumption DEF TypeOK, Aligned
<1>4. /\ Left \in Seq(Char) /\ Len(Left) = bytesRead - offset
      /\ \A i \in 1 .. bytesRead - offset : Left[i] = buff[offset + i]
  <2> DEFINE m == offset + 1
  <2>1. m \in Nat \ {0} /\ m <= bytesRead
          /\ bytesRead - m + 1 = bytesRead - offset
          /\ \A i \in Nat : m + i - 1 = offset + i
    BY <1>3
  <2> HIDE DEF m
  <2>2. /\ SubSeq(buff, m, bytesRead) \in Seq(Char)
        /\ Len(SubSeq(buff, m, bytesRead))
             = IF m <= bytesRead THEN bytesRead - m + 1 ELSE 0
        /\ \A i \in 1 .. bytesRead - m + 1 :
             SubSeq(buff, m, bytesRead)[i] = buff[m + i - 1]
    BY <1>3, <2>1, Part
  <2>3. Left = SubSeq(buff, m, bytesRead)
    BY DEF Left, m
  <2> QED
    BY <1>3, <2>1, <2>2, <2>3
<1>5. offset + L <= bytesRead
  <2>1. Len(Left) \in Multiple(L) /\ 0 < Len(Left)
    BY <1>3, <1>4 DEF Cut
  <2>2. 0 + L <= Len(Left)
    BY <1>2, <2>1
  <2> QED
    BY <1>1, <1>3, <1>4, <2>2
<1>6. SubSeq(Left, 1, L) = SubSeq(buff, offset + 1, offset + L)
  <2> DEFINE m == offset + 1
  <2>1. m \in 1 .. Len(buff) /\ bytesRead \in 1 .. Len(buff)
          /\ 1 \in 1 .. bytesRead - m + 1 /\ L \in 1 .. bytesRead - m + 1
          /\ m + 1 - 1 = m /\ m + L - 1 = offset + L
    BY <1>1, <1>3, <1>5
  <2> HIDE DEF m
  <2>2. SubSeq(SubSeq(buff, m, bytesRead), 1, L)
          = SubSeq(buff, m + 1 - 1, m + L - 1)
    BY <1>3, <2>1, SubSeqOfSubSeq
  <2>3. SubSeq(SubSeq(buff, m, bytesRead), 1, L)
          = SubSeq(buff, m, offset + L)
    BY <2>1, <2>2
  <2> QED
    BY <2>3 DEF m, Left
<1>7. SubSeq(Left, L + 1, Len(Left)) = SubSeq(buff, offset + L + 1, bytesRead)
  <2>1. CASE offset + L = bytesRead
    <3>1. Len(Left) < L + 1 /\ bytesRead < offset + L + 1
            /\ L + 1 \in Int /\ Len(Left) \in Int /\ bytesRead \in Int
            /\ offset + L + 1 \in Int
      BY <1>1, <1>3, <1>4, <2>1
    <3>2. SubSeq(Left, L + 1, Len(Left)) = <<>>
      BY <3>1, SubSeqEmpty
    <3>3. SubSeq(buff, offset + L + 1, bytesRead) = <<>>
      BY <3>1, SubSeqEmpty
    <3> QED
      BY <3>2, <3>3
  <2>2. CASE offset + L < bytesRead
    <3> DEFINE m == offset + 1
               i == L + 1
               j == bytesRead - offset
    <3>1. /\ m \in 1 .. Len(buff) /\ bytesRead \in 1 .. Len(buff)
          /\ i \in 1 .. bytesRead - m + 1 /\ j \in 1 .. bytesRead - m + 1
          /\ m + i - 1 = offset + L + 1 /\ m + j - 1 = bytesRead
          /\ Len(Left) = j
      BY <1>1, <1>3, <1>4, <2>2
    <3> HIDE DEF m, i, j
    <3>2. SubSeq(SubSeq(buff, m, bytesRead), i, j)
            = SubSeq(buff, m + i - 1, m + j - 1)
      BY <1>3, <3>1, SubSeqOfSubSeq
    <3>3. SubSeq(SubSeq(buff, m, bytesRead), i, j)
            = SubSeq(buff, offset + L + 1, bytesRead)
      BY <3>1, <3>2
    <3>4. SubSeq(Left, i, Len(Left)) = SubSeq(buff, offset + L + 1, bytesRead)
      BY <3>1, <3>3 DEF m, Left
    <3> QED
      BY <3>4 DEF i
  <2> QED
    BY <1>1, <1>3, <1>5, <2>1, <2>2
<1>8. L <= Len(Left)
  BY <1>1, <1>3, <1>4, <1>5
<1>9. SubSeq(Left, 1, L) \in Line
  BY <1>3, <1>4, <1>1, <1>8, MeaningsHeadTail
<1>10. Cut(L, SubSeq(Left, L + 1, Len(Left)))
  BY <1>1, <1>2, <1>3, <1>8, BackCut
<1>11. Left = SubSeq(Left, 1, L) \o SubSeq(Left, L + 1, Len(Left))
  <2>1. 1 \in 1 .. Len(Left) + 1 /\ L \in 1 - 1 .. Len(Left)
          /\ Len(Left) \in L .. Len(Left) /\ Len(Left) \in Nat
    BY <1>1, <1>3, <1>4, <1>8
  <2>2. SubSeq(Left, 1, L) \o SubSeq(Left, L + 1, Len(Left))
          = SubSeq(Left, 1, Len(Left))
    BY <1>4, <2>1, ConcatAdjacentSubSeq
  <2> QED
    BY <1>4, <2>2, SubSeqFull
<1>12. NextOffset = offset + L
  <2> DEFINE I == {i \in offset + 1 .. bytesRead : buff[i] = Newline}
             e == offset + L
  <2>1. \A i \in offset + 1 .. bytesRead :
          buff[i] = Newline <=> i - offset \in Multiple(L)
    <3> SUFFICES ASSUME NEW i \in offset + 1 .. bytesRead
                 PROVE  buff[i] = Newline <=> i - offset \in Multiple(L)
      OBVIOUS
    <3> DEFINE j == i - offset
    <3>1. j \in 1 .. Len(Left) /\ offset + j = i
      BY <1>3, <1>4
    <3> HIDE DEF j
    <3>2. Left[j] = Newline <=> j \in Multiple(L)
      BY <1>3, <3>1, Newlines
    <3>3. Left[j] = buff[i]
      BY <1>4, <3>1
    <3> QED
      BY <3>2, <3>3 DEF j
  <2>2. e \in offset + 1 .. bytesRead /\ e - offset = L /\ e # 0 /\ e \in Nat
    BY <1>1, <1>3, <1>5
  <2>3. e \in I
    BY <1>2, <2>1, <2>2
  <2>4. \A i \in I : e <= i
    <3> SUFFICES ASSUME NEW i \in I PROVE e <= i
      OBVIOUS
    <3>1. i - offset \in Multiple(L) /\ 0 < i - offset /\ i \in Nat
      BY <1>3, <2>1
    <3>2. 0 + L <= i - offset
      BY <1>2, <3>1
    <3> QED
      BY <1>1, <1>3, <3>1, <3>2
  <2>5. SelectInSubSeq(buff, offset + 1, bytesRead, LAMBDA ch : ch = Newline)
          = IF I # {} THEN Min(I) ELSE 0
    BY DEF SelectInSubSeq
  <2>6. I \in SUBSET Nat
    BY <1>3
  <2> HIDE DEF I, e
  <2>7. Min(I) = e
    BY <2>3, <2>4, <2>6, Minimum
  <2>8. SelectInSubSeq(buff, offset + 1, bytesRead, LAMBDA ch : ch = Newline)
          = e
    BY <2>3, <2>5, <2>7
  <2>9. NextOffset = e
    BY <2>2, <2>8 DEF NextOffset
  <2> QED
    BY <2>9 DEF e
<1> QED
  BY <1>5, <1>6, <1>7, <1>9, <1>10, <1>11, <1>12

(* A turn of the loop takes one line off, for what it means. *)
LEMMA EatAligned ==
  ASSUME NEW L, Regular(L), TypeOK, Aligned(L), EatLine
  PROVE  /\ Aligned(L)'
         /\ \E line \in Line :
              /\ Unanswered = line \o Unanswered'
              /\ Cut(L, Unanswered')
              /\ answer' = MeaningOf(line)
              /\ stayInLoop' = (stayInLoop /\ ~Stops(MeaningOf(line)))
<1> DEFINE line == SubSeq(buff, offset + 1, offset + L)
           rest == SubSeq(buff, offset + L + 1, bytesRead)
<1>1. L \in Nat \ {0}
  BY DEF Regular
<1>2. pc = "eat"
  BY DEF EatLine
<1>3. /\ line \in Line /\ offset + L <= bytesRead /\ NextOffset = offset + L
      /\ Cut(L, rest) /\ Left = line \o rest
  BY <1>2, FirstLine
<1>4. /\ offset' = offset + L
      /\ pc' = IF bytesRead > offset + L THEN "eat" ELSE "read"
      /\ UNCHANGED <<pipe, buff, bytesRead>>
  BY <1>3 DEF EatLine
<1>5. /\ bytesRead \in Nat /\ offset \in Nat /\ BuffLen \in Nat
      /\ buff \in Seq(Char) /\ Len(buff) = BuffLen
      /\ bytesRead <= BuffLen /\ offset < bytesRead
  BY <1>2, BufferAssumption DEF TypeOK, Aligned
<1>6. line \in Seq(Char) /\ rest \in Seq(Char) /\ pipe \in Seq(Char)
        /\ Cut(L, pipe)
  BY <1>3, Lines DEF Aligned, Cut
<1>7. Aligned(L)'
  BY <1>1, <1>3, <1>4, <1>5 DEF Aligned, Left
<1>8. Unanswered' = rest \o pipe
  <2>1. CASE bytesRead > offset + L
    BY <1>4, <2>1 DEF Unanswered
  <2>2. CASE ~(bytesRead > offset + L)
    <3>1. bytesRead < offset + L + 1 /\ bytesRead \in Int
            /\ offset + L + 1 \in Int
      BY <1>1, <1>5, <2>2
    <3>2. rest = <<>>
      BY <3>1, SubSeqEmpty
    <3>3. Unanswered' = <<>> \o pipe
      BY <1>4, <2>2 DEF Unanswered
    <3> QED
      BY <3>2, <3>3
  <2> QED
    BY <2>1, <2>2
<1>9. Unanswered = line \o Unanswered'
  <2>1. Unanswered = Left \o pipe
    BY <1>2 DEF Unanswered, Left
  <2> HIDE DEF line, rest
  <2>2. (line \o rest) \o pipe = line \o (rest \o pipe)
    BY <1>6, ConcatAssociative
  <2> QED
    BY <1>3, <1>8, <2>1, <2>2
<1>10. Cut(L, Unanswered')
  <2> HIDE DEF rest
  <2> QED
    BY <1>1, <1>3, <1>6, <1>8, BothCut
<1>11. ASSUME NEW more \in Beyond
       PROVE  Scan(SubSeq(buff, offset + 1, BuffLen) \o more)
                = MeaningOf(line)
  <2> DEFINE s == SubSeq(buff, offset + 1, BuffLen)
             text == s \o more
  <2>1. more \in Seq(Char)
    BY BufferAssumption
  <2>2. s \in Seq(Char) /\ Len(s) = BuffLen - offset
    <3>1. /\ offset + 1 \in Nat \ {0} /\ offset + 1 <= BuffLen
          /\ BuffLen - (offset + 1) + 1 = BuffLen - offset
          /\ BuffLen <= Len(buff)
      BY <1>5
    <3>2. /\ s \in Seq(Char)
          /\ Len(s) = IF offset + 1 <= BuffLen
                      THEN BuffLen - (offset + 1) + 1 ELSE 0
      BY <1>5, <3>1, Part
    <3> HIDE DEF s
    <3> QED
      BY <3>1, <3>2
  <2>3. SubSeq(s, 1, L) = line
    <3> DEFINE m == offset + 1
    <3>1. m \in 1 .. Len(buff) /\ BuffLen \in 1 .. Len(buff)
            /\ 1 \in 1 .. BuffLen - m + 1 /\ L \in 1 .. BuffLen - m + 1
            /\ m + 1 - 1 = m /\ m + L - 1 = offset + L
      BY <1>1, <1>3, <1>5
    <3> HIDE DEF m
    <3>2. SubSeq(SubSeq(buff, m, BuffLen), 1, L)
            = SubSeq(buff, m + 1 - 1, m + L - 1)
      BY <1>5, <3>1, SubSeqOfSubSeq
    <3>3. SubSeq(SubSeq(buff, m, BuffLen), 1, L)
            = SubSeq(buff, m, offset + L)
      BY <3>1, <3>2
    <3> QED
      BY <3>3 DEF m
  <2>4. 1 \in 1 .. Len(s) /\ L \in 1 .. Len(s)
    BY <1>1, <1>3, <1>5, <2>2
  <2> HIDE DEF s, line
  <2>5. SubSeq(text, 1, L) = line
    BY <2>1, <2>2, <2>3, <2>4, SubSeqOfConcat1
  <2>6. text \in Seq(Char) /\ L <= Len(text)
    BY <1>1, <2>1, <2>2, <2>4, ConcatProperties
  <2> HIDE DEF text
  <2>7. Scan(text) = MeaningOf(line)
    BY <1>3, <2>5, <2>6, ScanLine
  <2> QED
    BY <2>7 DEF text, s
<1>12. /\ answer' = MeaningOf(line)
       /\ stayInLoop' = (stayInLoop /\ ~Stops(MeaningOf(line)))
  BY <1>11 DEF EatLine
<1> QED
  BY <1>3, <1>7, <1>9, <1>10, <1>12
-----------------------------------------------------------------------------
(* The refinement.                                                         *)

LEMMA StepAligned ==
  ASSUME NEW L, Regular(L)
  PROVE  TypeOK /\ Aligned(L) /\ [Next]_vars => Aligned(L)'
<1> SUFFICES ASSUME TypeOK, Aligned(L), [Next]_vars PROVE Aligned(L)'
  OBVIOUS
<1>1. CASE WriteLine
  BY <1>1, WriteAligned
<1>2. CASE Read
  BY <1>2, ReadAligned
<1>3. CASE EatLine
  BY <1>3, EatAligned
<1>4. CASE UNCHANGED vars
  BY <1>4 DEF vars, Aligned, Left
<1> QED
  BY <1>1, <1>2, <1>3, <1>4 DEF Next, Ended, Quiet

LEMMA QueueInit ==
  ASSUME NEW L, Regular(L)
  PROVE  Init => Queue!Init
<1> SUFFICES ASSUME Init PROVE Queue!Init
  OBVIOUS
<1>1. Unanswered = <<>>
  BY EmptySeq, ConcatEmptySeq DEF Init, Unanswered
<1>2. Meanings(Unanswered) = <<>>
  BY <1>1, NothingMeant
<1> QED
  BY <1>2 DEF Init, Queue!Init

LEMMA QueueStep ==
  ASSUME NEW L, Regular(L)
  PROVE  TypeOK /\ Aligned(L) /\ [Next]_vars
           => [Queue!Next \/ (~stayInLoop /\ ~stayInLoop')]_(Queue!vars)
<1> SUFFICES ASSUME TypeOK, Aligned(L), [Next]_vars
             PROVE  [Queue!Next \/ (~stayInLoop /\ ~stayInLoop')]_(Queue!vars)
  OBVIOUS
<1>0. L \in Nat \ {0}
  BY DEF Regular
<1>1. CASE WriteLine
  <2>1. PICK line \in Line : Unanswered' = Unanswered \o line
    BY <1>1, WriteAligned
  <2>2. Cut(L, Unanswered)
    BY <1>0, NothingCut, BothCut DEF Aligned, Unanswered, Left
  <2>3. Meanings(Unanswered') = Append(Meanings(Unanswered), MeaningOf(line))
    BY <2>1, <2>2, MeaningsAppended
  <2>4. MeaningOf(line) \in {Value(r) : r \in Requests} \union {Bad}
    BY MeaningType DEF Meant
  <2>5. answer' = answer /\ stayInLoop' = stayInLoop
    BY <1>1 DEF WriteLine
  <2> QED
    BY <2>3, <2>4, <2>5 DEF Queue!Next, Queue!Write
<1>2. CASE Read
  <2>1. Unanswered' = Unanswered
    BY <1>2, ReadAligned
  <2>2. answer' = answer /\ stayInLoop' = stayInLoop
    BY <1>2 DEF Read, ReadChars
  <2> QED
    BY <2>1, <2>2 DEF Queue!vars
<1>3. CASE EatLine
  <2>1. PICK line \in Line :
          /\ Unanswered = line \o Unanswered'
          /\ Cut(L, Unanswered')
          /\ answer' = MeaningOf(line)
          /\ stayInLoop' = (stayInLoop /\ ~Stops(MeaningOf(line)))
    BY <1>3, EatAligned
  <2>2. /\ Meanings(Unanswered) # <<>>
        /\ Head(Meanings(Unanswered)) = MeaningOf(line)
        /\ Tail(Meanings(Unanswered)) = Meanings(Unanswered')
    BY <2>1, MeaningsLine
  <2>3. CASE stayInLoop
    <3>1. (~stayInLoop') = Stops(MeaningOf(line))
      BY <2>1, <2>3 DEF Stops
    <3> QED
      BY <2>1, <2>2, <2>3, <3>1 DEF Queue!Next, Queue!Answer
  <2>4. CASE ~stayInLoop
    BY <2>1, <2>4
  <2> QED
    BY <2>3, <2>4
<1>4. CASE UNCHANGED vars
  BY <1>4 DEF vars, Queue!vars, Unanswered
<1> QED
  BY <1>1, <1>2, <1>3, <1>4 DEF Next, Ended, Quiet

(* Clients whose lines have a length that divides BUFF_LEN (README.md:37): *)
(* respondToRequest answers every line they write, as what it was written  *)
(* for, once and in the order they were written, whatever the buffer and   *)
(* the memory behind it hold, wherever the reads fall.                     *)
THEOREM LinesAnsweredInOrder ==
  ASSUME NEW L, Regular(L)
  PROVE  Spec => AnswersInOrder
<1>1. Init => Queue!Init /\ TypeOK /\ Aligned(L)
  BY QueueInit, FirstTypes, FirstAligned
<1>2. TypeOK /\ Aligned(L) /\ [Next]_vars => TypeOK' /\ Aligned(L)'
  BY StepTypes, StepAligned
<1>3. TypeOK /\ Aligned(L) /\ [Next]_vars
        => [Queue!Next \/ (~stayInLoop /\ ~stayInLoop')]_(Queue!vars)
  BY QueueStep
<1> QED
  BY <1>1, <1>2, <1>3, PTL DEF Spec, AnswersInOrder, Queue!InOrder

(* For the same clients, the half of one line is never taken for another:  *)
(* no request is carried out that nobody has made.                         *)
THEOREM RequestsOnly ==
  ASSUME NEW L, Regular(L)
  PROVE  Spec => []OnlyRequests
<1>1. Init => OnlyRequests /\ TypeOK /\ Aligned(L)
  BY FirstTypes, FirstAligned DEF Init, OnlyRequests
<1>2. TypeOK /\ Aligned(L) /\ [Next]_vars => TypeOK' /\ Aligned(L)'
  BY StepTypes, StepAligned
<1>3. TypeOK /\ Aligned(L) /\ OnlyRequests /\ [Next]_vars => OnlyRequests'
  <2> SUFFICES ASSUME TypeOK, Aligned(L), OnlyRequests, [Next]_vars
               PROVE  OnlyRequests'
    OBVIOUS
  <2>1. CASE EatLine
    <3>1. answer' \in Meant
      BY <2>1, EatAligned, MeaningType
    <3> QED
      BY <3>1 DEF OnlyRequests, Meant
  <2>2. CASE ~EatLine
    <3>1. answer' = answer
      BY <2>2 DEF Next, WriteLine, Read, ReadChars, Ended, Quiet, vars
    <3> QED
      BY <3>1 DEF OnlyRequests
  <2> QED
    BY <2>1, <2>2
<1> QED
  BY <1>1, <1>2, <1>3, PTL DEF Spec
=============================================================================
