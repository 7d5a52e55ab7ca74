--------------------------- MODULE LifecycleProofs ---------------------------
(***************************************************************************)
(* What a process leaves behind, for any set of channels and any number of *)
(* processes, failures and kills.                                          *)
(*                                                                         *)
(* The argument for the memory is one of accounting: at every point of the *)
(* program, the memory that the process holds for a channel is the one     *)
(* that Holds says, but for the pieces the firmware refused to give or to  *)
(* take back.  The rest says how far the constructors have come.           *)
(***************************************************************************)
EXTENDS Lifecycle, TLAPS

Building == {"fork", "servos", "channels", "malloc", "registers"}
Driving == {"start", "unlink", "mkfifo", "chmod", "loop", "delete", "free"}
Ending == {"delete", "free", "unmap"}

(* Part p of the memory of channel c belongs to the process. *)
Holds(c, p) ==
  IF c = cur /\ pc = "malloc" THEN p < part
  ELSE IF c = cur /\ pc = "registers" THEN TRUE
  ELSE IF c = cur /\ pc = "free" THEN p >= part
  ELSE IF pc \in Ending THEN c \in todo
  ELSE c \in unique

(* Which channels the loops are going through. *)
PhaseInv ==
  /\ pc \in Building => todo \cap unique = {}
  /\ pc \in {"malloc", "registers", "free"} => cur \in todo
  /\ pc \in {"start", "delete", "free"} => todo \subseteq unique
  /\ pc = "unmap" => todo = {}
  /\ pc \in Ending => fifo = FALSE

MemoryInv ==
  pc # "gone" => \A c \in Channels, p \in Part :
                   <<run, c, p>> \notin refused =>
                     (<<run, c, p>> \in gpu <=> Holds(c, p))

(* Where the process may have engines running, and which. *)
EngineInv ==
  pc # "gone" => \A c \in Channels : engine[c] = run =>
    /\ pc \in Driving
    /\ c \in unique
    /\ pc = "delete" => c \in todo
    /\ pc = "free" => c \in todo /\ c # cur

(* The part of the type invariant the argument needs. *)
Shape ==
  /\ run \in Nat /\ (pc # "gone" => run > 0)
  /\ cur \in Channels /\ part \in Part
  /\ list \subseteq Channels /\ todo \subseteq list /\ unique \subseteq list
  /\ engine \in [Channels -> 0 .. run]
  /\ \A m \in gpu : m[1] \in 0 .. run

LInv ==
  Shape /\ PhaseInv /\ MemoryInv /\ EngineInv /\ EngineMemory /\ CleanReturn

(* Before the first process there is nothing to account for. *)
LEMMA InitLInv == Init => LInv
<1> SUFFICES ASSUME Init PROVE LInv
  OBVIOUS
<1>1. Shape
  BY DEF Init, Shape, Part, Idle
<1>2. PhaseInv /\ MemoryInv /\ EngineInv /\ CleanReturn
  BY DEF Init, PhaseInv, MemoryInv, EngineInv, CleanReturn, Building, Ending
<1>3. EngineMemory
  BY DEF Init, EngineMemory
<1> QED
  BY <1>1, <1>2, <1>3 DEF LInv

(* Types, process by process. *)
LEMMA ShapeStep ==
  ASSUME LInv, [Next]_vars
  PROVE  Shape'
<1>1. CASE Start
  <2>1. run' = run + 1 /\ list' \subseteq Channels /\ todo' = list'
    BY <1>1 DEF Start
  <2>2. \A c \in Channels : engine'[c] \in 0 .. run'
    BY <1>1, <2>1 DEF Start, world, LInv, Shape
  <2>3. \A m \in gpu' : m[1] \in 0 .. run'
    BY <1>1, <2>1 DEF Start, world, memory, Shape, LInv
  <2>4. engine' \in [Channels -> 0 .. run']
    BY <1>1, <2>2 DEF Start, world, LInv, Shape
  <2> QED
    BY <1>1, <2>1, <2>3, <2>4 DEF Start, world, LInv, Shape
<1>2. CASE NewChannel
  BY <1>2 DEF NewChannel, world, memory, Shape, Part, LInv
<1>3. CASE DmaMalloc
  BY <1>3 DEF DmaMalloc, mem_alloc_lock, Locking, Refused, Obeyed, Fail,
     Vanish, Fine, LInv, Shape, Part, LastPart
<1>4. CASE MapRegisters
  BY <1>4 DEF MapRegisters, world, memory, Shape, PhaseInv, LInv
<1>5. CASE SetUps
  BY <1>5 DEF SetUps, SetUp, objects, world, memory, Shape, LInv
<1>6. CASE DmaStart
  BY <1>6 DEF DmaStart, objects, Shape, memory, LInv
<1>7. CASE Unlink
  BY <1>7 DEF Unlink, objects, Shape, memory, LInv
<1>8. CASE Mkfifo
  BY <1>8 DEF Mkfifo, objects, Shape, memory, LInv
<1>9. CASE Chmod
  BY <1>9 DEF Chmod, objects, world, memory, Shape, LInv
<1>10. CASE LeaveLoop
  BY <1>10 DEF LeaveLoop, objects, Shape, memory, LInv
<1>11. CASE StopEngine
  BY <1>11 DEF StopEngine, Shape, Part, Idle, memory, LInv
<1>12. CASE DmaFree
  BY <1>12 DEF DmaFree, mem_unlock_free, Locking, Refused, Obeyed, Fail,
     Vanish, Fine, Shape, Part, LastPart, memory, LInv
<1>13. CASE Return
  BY <1>13 DEF Return, objects, world, memory, Shape, LInv
<1>14. CASE Stop
  BY <1>14 DEF Stop, objects, world, memory, Shape, LInv
<1>15. CASE Kill
  BY <1>15 DEF Kill, objects, world, memory, Shape, LInv
<1>16. CASE Over
  BY <1>16 DEF Over, vars, Shape, LInv
<1>17. CASE UNCHANGED vars
  BY <1>17 DEF vars, Shape, LInv
<1>18. CASE Fork \/ ReadServos
  BY <1>18 DEF Fork, ReadServos, Fail, Vanish, objects, world, memory, Shape,
     LInv
<1> QED
  BY <1>1, <1>2, <1>3, <1>4, <1>5, <1>6, <1>7, <1>8, <1>9, <1>10, <1>11,
     <1>12, <1>13, <1>14, <1>15, <1>16, <1>17, <1>18
  DEF Next, Process

(* The loops over the channels of main, ~DMAChannels and respondToRequest. *)
LEMMA PhaseStep ==
  ASSUME LInv, [Next]_vars
  PROVE  PhaseInv'
<1>1. CASE Start
  BY <1>1 DEF Start, PhaseInv, Ending
<1>2. CASE NewChannel
  BY <1>2 DEF NewChannel, Fail, Vanish, PhaseInv, Building, Ending, LInv
<1>3. CASE DmaMalloc
  BY <1>3 DEF DmaMalloc, Fail, Vanish, PhaseInv, Building, Ending, LInv
<1>4. CASE MapRegisters
  BY <1>4 DEF MapRegisters, Fail, Vanish, PhaseInv, Building, Ending, LInv
<1>5. CASE SetUps
  BY <1>5 DEF SetUps, SetUp, Fail, Vanish, objects, PhaseInv, Building, Ending
<1>6. CASE DmaStart
  BY <1>6 DEF DmaStart, objects, PhaseInv, Ending, LInv
<1>7. CASE Unlink
  BY <1>7 DEF Unlink, PhaseInv, Building
<1>8. CASE Mkfifo
  BY <1>8 DEF Mkfifo, Fail, Vanish, PhaseInv, Building, Ending
<1>9. CASE Chmod
  BY <1>9 DEF Chmod, Fail, Vanish, PhaseInv, Building, Ending
<1>10. CASE LeaveLoop
  BY <1>10 DEF LeaveLoop, objects, PhaseInv, Building
<1>11. CASE StopEngine
  BY <1>11 DEF StopEngine, PhaseInv, Building, Ending, LInv
<1>12. CASE DmaFree
  BY <1>12 DEF Fail, Vanish, DmaFree, PhaseInv, Building, Ending, LInv
<1>13. CASE Return
  BY <1>13 DEF Return, Vanish, PhaseInv, Ending, LInv
<1>14. CASE Stop
  BY <1>14 DEF Stop, objects, world, PhaseInv, LInv
<1>15. CASE Kill
  BY <1>15 DEF Kill, Vanish, PhaseInv, Building, Ending
<1>16. CASE Over
  BY <1>16 DEF Over, vars, PhaseInv, LInv
<1>17. CASE UNCHANGED vars
  BY <1>17 DEF vars, PhaseInv, LInv
<1>18. CASE Fork \/ ReadServos
  BY <1>18 DEF Fork, ReadServos, Fail, Vanish, objects, PhaseInv, Building,
     Ending, LInv
<1> QED
  BY <1>1, <1>2, <1>3, <1>4, <1>5, <1>6, <1>7, <1>8, <1>9, <1>10, <1>11,
     <1>12, <1>13, <1>14, <1>15, <1>16, <1>17, <1>18
  DEF Next, Process

(* dmaMalloc and dmaFree are the only steps that change what is held. *)
LEMMA MemoryStep ==
  ASSUME LInv, Shape', [Next]_vars
  PROVE  MemoryInv'
<1>1. CASE Start
  BY <1>1 DEF Start, world, memory, Shape, MemoryInv, Holds, Ending, LInv
<1>2. CASE NewChannel
  <2>0. CASE pc' = "gone"
    BY <2>0 DEF MemoryInv
  <2> SUFFICES ASSUME pc' # "gone", NEW c \in Channels, NEW p \in Part,
                      <<run, c, p>> \notin refused
               PROVE  <<run, c, p>> \in gpu <=> Holds(c, p)'
    BY <1>2, <2>0 DEF NewChannel, world, memory, MemoryInv
  <2>1. <<run, c, p>> \in gpu <=> c \in unique
    BY <1>2 DEF NewChannel, LInv, MemoryInv, Holds, Ending
  <2>2. CASE c = cur'
    BY <1>2, <2>1, <2>2 DEF NewChannel, Fail, Vanish, LInv, PhaseInv, Holds,
       Building, Part
  <2>3. CASE c # cur'
    BY <1>2, <2>1, <2>3 DEF NewChannel, Fail, Vanish, Holds, Ending
  <2> QED
    BY <2>2, <2>3
<1>3. CASE DmaMalloc
  <2>1. CASE pc' = "gone"
    BY <2>1 DEF MemoryInv
  <2> SUFFICES ASSUME pc' # "gone", NEW c \in Channels, NEW p \in Part,
                      <<run, c, p>> \notin refused'
               PROVE  <<run, c, p>> \in gpu' <=> Holds(c, p)'
    BY <1>3, <2>1 DEF DmaMalloc, MemoryInv
  <2>2. /\ refused \subseteq refused'
        /\ \/ gpu' = gpu \union {<<run, cur, part>>}
           \/ gpu' = gpu /\ <<run, cur, part>> \in refused'
        /\ IF part = LastPart THEN pc' = "registers" /\ UNCHANGED part
                              ELSE part' = part + 1 /\ UNCHANGED pc
        /\ pc = "malloc" /\ UNCHANGED <<run, cur, unique, todo>>
    BY <1>3 DEF mem_alloc_lock, Locking, Refused, Obeyed, DmaMalloc, Fail,
       Vanish
  <2>3. <<run, c, p>> \in gpu <=> IF c = cur THEN p < part ELSE c \in unique
    BY <2>2 DEF LInv, MemoryInv, Holds, Ending
  <2>4. <<run, c, p>> = <<run, cur, part>> <=> c = cur /\ p = part
    OBVIOUS
  <2>5. Holds(c, p)' <=> IF c = cur THEN p <= part ELSE c \in unique
    BY <2>2 DEF LInv, Shape, Holds, Ending, Part, LastPart
  <2> QED
    BY <2>2, <2>3, <2>4, <2>5 DEF LInv, Shape, Part
<1>4. CASE MapRegisters
  BY <1>4 DEF MapRegisters, Fail, Vanish, world, memory, MemoryInv, Holds,
     Ending, LInv
<1>5. CASE SetUps
  BY <1>5 DEF SetUps, SetUp, Fail, Vanish, objects, world, memory, MemoryInv,
     Holds, Ending, LInv
<1>6. CASE DmaStart
  BY <1>6 DEF DmaStart, objects, MemoryInv, Holds, Ending, memory, LInv
<1>7. CASE Unlink
  BY <1>7 DEF Unlink, objects, MemoryInv, Holds, Ending, memory, LInv
<1>8. CASE Mkfifo
  BY <1>8 DEF Mkfifo, Fail, Vanish, objects, MemoryInv, Holds, Ending, memory,
     LInv
<1>9. CASE Chmod
  BY <1>9 DEF Chmod, Fail, Vanish, objects, world, memory, MemoryInv, Holds,
     Ending, LInv
<1>10. CASE LeaveLoop
  BY <1>10 DEF LeaveLoop, MemoryInv, Holds, Ending, memory, LInv
<1>11. CASE StopEngine
  <2> SUFFICES ASSUME NEW c \in Channels, NEW p \in Part,
                      <<run, c, p>> \notin refused
               PROVE  <<run, c, p>> \in gpu <=> Holds(c, p)'
    BY <1>11 DEF StopEngine, MemoryInv, memory
  <2>1. <<run, c, p>> \in gpu <=> c \in todo
    BY <1>11 DEF StopEngine, LInv, MemoryInv, Holds, Ending
  <2>2. CASE c = cur'
    BY <1>11, <2>1, <2>2 DEF StopEngine, Holds, Part
  <2>3. CASE c # cur'
    BY <1>11, <2>1, <2>3 DEF StopEngine, Holds, Ending
  <2> QED
    BY <2>2, <2>3
<1>12. CASE DmaFree
  <2>0. CASE pc' = "gone"
    BY <2>0 DEF MemoryInv
  <2> SUFFICES ASSUME pc' # "gone", NEW c \in Channels, NEW p \in Part,
                      <<run, c, p>> \notin refused'
               PROVE  <<run, c, p>> \in gpu' <=> Holds(c, p)'
    BY <1>12, <2>0 DEF DmaFree, MemoryInv
  <2>1. /\ refused \subseteq refused' /\ cur' = cur /\ pc = "free"
        /\ \/ gpu' = gpu \ {<<run, cur, part>>}
           \/ gpu' = gpu /\ <<run, cur, part>> \in refused'
        /\ IF part = LastPart
           THEN /\ todo' = todo \ {cur} /\ UNCHANGED part
                /\ pc' \in {"unmap", "delete"}
           ELSE part' = part + 1 /\ UNCHANGED <<todo, pc>>
    BY <1>12 DEF DmaFree, Fail, Vanish, mem_unlock_free, Locking, Refused,
       Obeyed
  <2>2. <<run, c, p>> \in gpu <=> IF c = cur THEN p >= part ELSE c \in todo
    BY <2>1 DEF LInv, MemoryInv, Holds, Ending
  <2>3. <<run, c, p>> = <<run, cur, part>> <=> c = cur /\ p = part
    OBVIOUS
  <2>4. Holds(c, p)' <=> IF c = cur THEN p > part ELSE c \in todo
    BY <2>1 DEF LInv, Shape, Holds, Ending, Part, LastPart
  <2> QED
    BY <2>1, <2>2, <2>3, <2>4 DEF LInv, Shape, Part
<1>13. CASE Return
  BY <1>13 DEF Return, Vanish, MemoryInv
<1>14. CASE Stop
  BY <1>14 DEF Stop, objects, world, memory, MemoryInv, Holds, LInv
<1>15. CASE Kill
  BY <1>15 DEF Kill, Vanish, MemoryInv
<1>16. CASE Over
  BY <1>16 DEF Over, vars, MemoryInv
<1>17. CASE UNCHANGED vars
  BY <1>17 DEF vars, MemoryInv, Holds, LInv
<1>18. CASE Fork \/ ReadServos
  BY <1>18 DEF Fork, ReadServos, Fail, Vanish, objects, world, memory,
     MemoryInv, Holds, Ending, LInv
<1> QED
  BY <1>1, <1>2, <1>3, <1>4, <1>5, <1>6, <1>7, <1>8, <1>9, <1>10, <1>11,
     <1>12, <1>13, <1>14, <1>15, <1>16, <1>17, <1>18
  DEF Next, Process

(* dmaStart starts only channels whose blocks are there, dmaEnd stops one   *)
(* before it is freed.                                                     *)
LEMMA EngineStep ==
  ASSUME LInv, [Next]_vars
  PROVE  EngineInv'
<1>1. CASE Start
  BY <1>1 DEF Start, world, Shape, EngineInv, LInv
<1>2. CASE NewChannel
  BY <1>2 DEF NewChannel, world, EngineInv, Driving, LInv
<1>3. CASE DmaMalloc
  BY <1>3 DEF DmaMalloc, EngineInv, Driving, LInv
<1>4. CASE MapRegisters
  BY <1>4 DEF MapRegisters, world, EngineInv, Driving, LInv
<1>5. CASE SetUps
  BY <1>5 DEF SetUps, SetUp, world, EngineInv, Driving, LInv
<1>6. CASE DmaStart
  BY <1>6 DEF DmaStart, objects, PhaseInv, EngineInv, Driving, LInv
<1>7. CASE Unlink
  BY <1>7 DEF Unlink, objects, EngineInv, Driving, LInv
<1>8. CASE Mkfifo
  BY <1>8 DEF Mkfifo, Fail, Vanish, objects, EngineInv, Driving, LInv
<1>9. CASE Chmod
  BY <1>9 DEF Chmod, Fail, Vanish, objects, world, EngineInv, Driving, LInv
<1>10. CASE LeaveLoop
  BY <1>10 DEF LeaveLoop, objects, EngineInv, Driving, LInv
<1>11. CASE StopEngine
  <2> SUFFICES ASSUME NEW c \in Channels, engine'[c] = run
               PROVE  c \in unique /\ c \in todo /\ c # cur'
    BY <1>11 DEF StopEngine, EngineInv, Driving
  <2>1. run > 0 /\ cur' \in Channels
    BY <1>11 DEF StopEngine, LInv, Shape
  <2>2. c # cur' /\ engine[c] = run
    BY <1>11, <2>1 DEF StopEngine, LInv, Shape, Idle
  <2> QED
    BY <1>11, <2>2 DEF StopEngine, LInv, EngineInv
<1>12. CASE DmaFree
  BY <1>12 DEF Fail, Vanish, DmaFree, EngineInv, Driving, LInv
<1>13. CASE Return
  BY <1>13 DEF Return, Vanish, EngineInv
<1>14. CASE Stop
  BY <1>14 DEF Stop, objects, world, EngineInv, LInv
<1>15. CASE Kill
  BY <1>15 DEF Kill, Vanish, EngineInv
<1>16. CASE Over
  BY <1>16 DEF Over, vars, EngineInv
<1>17. CASE UNCHANGED vars
  BY <1>17 DEF vars, EngineInv, LInv
<1>18. CASE Fork \/ ReadServos
  BY <1>18 DEF Fork, ReadServos, Fail, Vanish, objects, world, EngineInv,
     Driving, LInv
<1> QED
  BY <1>1, <1>2, <1>3, <1>4, <1>5, <1>6, <1>7, <1>8, <1>9, <1>10, <1>11,
     <1>12, <1>13, <1>14, <1>15, <1>16, <1>17, <1>18
  DEF Next, Process

(* A process frees only its own memory, and only of channels it stopped.   *)
LEMMA EngineMemoryStep ==
  ASSUME LInv, [Next]_vars
  PROVE  EngineMemory'
<1>1. CASE Start
  BY <1>1 DEF Start, world, memory, EngineMemory, LInv
<1>2. CASE NewChannel
  BY <1>2 DEF NewChannel, world, memory, EngineMemory, LInv
<1>3. CASE DmaMalloc
  BY <1>3 DEF mem_alloc_lock, Locking, Refused, Obeyed, DmaMalloc,
     EngineMemory, LInv
<1>4. CASE MapRegisters
  BY <1>4 DEF MapRegisters, world, memory, EngineMemory, LInv
<1>5. CASE SetUps
  BY <1>5 DEF SetUps, SetUp, world, memory, EngineMemory, LInv
<1>6. CASE DmaStart
  BY <1>6 DEF DmaStart, PhaseInv, MemoryInv, EngineMemory, Holds, memory, LInv
<1>7. CASE Unlink
  BY <1>7 DEF Unlink, EngineMemory, memory, LInv
<1>8. CASE Mkfifo
  BY <1>8 DEF Mkfifo, EngineMemory, memory, LInv
<1>9. CASE Chmod
  BY <1>9 DEF Chmod, world, memory, EngineMemory, LInv
<1>10. CASE LeaveLoop
  BY <1>10 DEF LeaveLoop, EngineMemory, memory, LInv
<1>11. CASE StopEngine
  BY <1>11 DEF StopEngine, EngineMemory, memory, LInv
<1>12. CASE DmaFree
  BY <1>12 DEF DmaFree, mem_unlock_free, Locking, Refused, Obeyed, Fail,
     Vanish, EngineInv, EngineMemory, memory, LInv
<1>13. CASE Return
  BY <1>13 DEF Return, world, memory, EngineMemory, LInv
<1>14. CASE Stop
  BY <1>14 DEF Stop, world, memory, EngineMemory, LInv
<1>15. CASE Kill
  BY <1>15 DEF Kill, world, memory, EngineMemory, LInv
<1>16. CASE Over
  BY <1>16 DEF Over, vars, EngineMemory, LInv
<1>17. CASE UNCHANGED vars
  BY <1>17 DEF vars, EngineMemory, LInv
<1>18. CASE Fork \/ ReadServos
  BY <1>18 DEF Fork, ReadServos, Fail, Vanish, world, memory, EngineMemory,
     LInv
<1> QED
  BY <1>1, <1>2, <1>3, <1>4, <1>5, <1>6, <1>7, <1>8, <1>9, <1>10, <1>11,
     <1>12, <1>13, <1>14, <1>15, <1>16, <1>17, <1>18
  DEF Next, Process

(* When the loop of ~DMAChannels is through, nothing is held any more. *)
LEMMA CleanStep ==
  ASSUME LInv, [Next]_vars
  PROVE  CleanReturn'
<1>1. CASE Start
  BY <1>1 DEF Start, CleanReturn
<1>2. CASE NewChannel
  BY <1>2 DEF NewChannel, Fail, Vanish, CleanReturn
<1>3. CASE DmaMalloc
  BY <1>3 DEF DmaMalloc, Fail, Vanish, CleanReturn
<1>4. CASE MapRegisters
  BY <1>4 DEF MapRegisters, Fail, Vanish, CleanReturn
<1>5. CASE SetUps
  BY <1>5 DEF SetUps, SetUp, Fail, Vanish, CleanReturn
<1>6. CASE DmaStart
  BY <1>6 DEF DmaStart, CleanReturn
<1>7. CASE Unlink
  BY <1>7 DEF Unlink, CleanReturn
<1>8. CASE Mkfifo
  BY <1>8 DEF Mkfifo, Fail, Vanish, CleanReturn
<1>9. CASE Chmod
  BY <1>9 DEF Chmod, Fail, Vanish, CleanReturn
<1>10. CASE LeaveLoop
  BY <1>10 DEF LeaveLoop, CleanReturn
<1>11. CASE StopEngine
  BY <1>11 DEF StopEngine, CleanReturn
<1>12. CASE DmaFree
  BY <1>12 DEF Fail, Vanish, mem_unlock_free, Locking, Refused, Obeyed,
     DmaFree, CleanReturn
<1>13. CASE Return
  BY <1>13 DEF Return, world, memory, PhaseInv, MemoryInv, EngineInv,
     CleanReturn, Holds, Ending, Driving, LInv
<1>14. CASE Stop
  BY <1>14 DEF Stop, CleanReturn
<1>15. CASE Kill
  BY <1>15 DEF Kill, Vanish, CleanReturn
<1>16. CASE Over
  BY <1>16 DEF Over, vars, CleanReturn, LInv
<1>17. CASE UNCHANGED vars
  BY <1>17 DEF vars, CleanReturn, LInv
<1>18. CASE Fork \/ ReadServos
  BY <1>18 DEF Fork, ReadServos, Fail, Vanish, CleanReturn
<1> QED
  BY <1>1, <1>2, <1>3, <1>4, <1>5, <1>6, <1>7, <1>8, <1>9, <1>10, <1>11,
     <1>12, <1>13, <1>14, <1>15, <1>16, <1>17, <1>18
  DEF Next, Process

-----------------------------------------------------------------------------
(* The accounting holds of every history of starts, failures and kills. *)
THEOREM LInvariant == Spec => []LInv
<1>1. LInv /\ [Next]_vars => LInv'
  <2> SUFFICES ASSUME LInv, [Next]_vars PROVE LInv'
    OBVIOUS
  <2>1. Shape'
    BY ShapeStep
  <2> QED
    BY <2>1, PhaseStep, MemoryStep, EngineStep, EngineMemoryStep, CleanStep DEF
       LInv
<1> QED
  BY InitLInv, <1>1, PTL DEF Spec

(* dmaEnd aborts and resets a channel before dmaFree gives its blocks back *)
(* to the firmware, and no exit(-1) or kill gives them back: no engine     *)
(* ever runs from memory that was freed, or from memory it never had       *)
(* unless the firmware refused that very piece.                            *)
THEOREM EnginesKeepTheirMemory == Spec => []EngineMemory
<1>1. LInv => EngineMemory
  BY DEF LInv
<1> QED
  BY LInvariant, <1>1, PTL

(* A process that returns from main has stopped every channel it started,  *)
(* freed every piece of memory the firmware took back and removed the FIFO. *)
THEOREM ReturnLeavesNothing == Spec => []CleanReturn
<1>1. LInv => CleanReturn
  BY DEF LInv
<1> QED
  BY LInvariant, <1>1, PTL

-----------------------------------------------------------------------------
(* What the constructors have done by the time a place is reached, and why *)
(* mkfifo finds no file.                                                   *)
ControlInv ==
  pc # "gone" =>
    /\ unique \subseteq mapped
    /\ pc = "clock" => "gpio" \in ready
    /\ pc = "pwm" => {"gpio", "clock"} \subseteq ready
    /\ pc \in Driving => ready = Units
    /\ pc = "mkfifo" => ~fifo

CInv == ControlInv /\ LeftoversHarmless

LEMMA InitCInv == Init => CInv
  BY DEF Init, CInv, ControlInv, LeftoversHarmless

LEMMA ControlStep ==
  ASSUME CInv, ready \subseteq Units, [Next]_vars
  PROVE  CInv'
<1> USE DEF CInv, ControlInv, LeftoversHarmless, Driving
<1>1. CASE Start
  BY <1>1 DEF Start
<1>2. CASE NewChannel
  BY <1>2 DEF NewChannel, Fail, Vanish, Fine, world
<1>3. CASE DmaMalloc
  BY <1>3 DEF DmaMalloc, Fail, Vanish, Fine
<1>4. CASE MapRegisters
  BY <1>4 DEF MapRegisters, Fail, Vanish, Fine, world
<1>5. CASE SetUps
  BY <1>5 DEF SetUps, Fail, Vanish, Fine, SetUp, Units, objects, world
<1>6. CASE DmaStart
  BY <1>6 DEF DmaStart, Fail, Vanish, Fine, objects
<1>7. CASE Unlink
  BY <1>7 DEF Unlink, Fail, Vanish, Fine, objects
<1>8. CASE Mkfifo
  BY <1>8 DEF Mkfifo, Fail, Vanish, Fine, objects
<1>9. CASE Chmod
  BY <1>9 DEF Chmod, Fail, Vanish, Fine, objects, world
<1>10. CASE LeaveLoop
  BY <1>10 DEF LeaveLoop, Fail, Vanish, Fine, objects
<1>11. CASE StopEngine
  BY <1>11 DEF StopEngine, Fail, Vanish, Fine
<1>12. CASE DmaFree
  BY <1>12 DEF DmaFree, Fail, Vanish, Fine
<1>13. CASE Return
  BY <1>13 DEF Return, Fail, Vanish, Fine, objects, world
<1>14. CASE Stop
  BY <1>14 DEF Stop, Fail, Vanish, Fine, objects, world
<1>15. CASE Kill
  BY <1>15 DEF Kill, Fail, Vanish, Fine
<1>16. CASE Over \/ UNCHANGED vars
  BY <1>16 DEF Over, vars
<1>17. CASE Fork \/ ReadServos
  BY <1>17 DEF Fork, ReadServos, Fail, Vanish, Fine, objects, world
<1> QED
  BY <1>1, <1>2, <1>3, <1>4, <1>5, <1>6, <1>7, <1>8, <1>9, <1>10, <1>11,
     <1>12, <1>13, <1>14, <1>15, <1>16, <1>17 DEF Next, Process

(* ready only ever holds units. *)
LEMMA ReadyStep ==
  ready \subseteq Units /\ [Next]_vars => (ready \subseteq Units)'
<1> SUFFICES ASSUME ready \subseteq Units, [Next]_vars
             PROVE  ready' \subseteq Units
  OBVIOUS
<1>1. CASE Start \/ SetUps
  BY <1>1 DEF Start, SetUps, SetUp, Units
<1>2. CASE ready' = ready
  BY <1>2
<1>3. ready' = ready \/ Start \/ SetUps
  BY DEF Next, Process, Fork, ReadServos, NewChannel, DmaMalloc, MapRegisters,
     DmaStart, Unlink, Mkfifo, Chmod, LeaveLoop, StopEngine, DmaFree, Return,
     Stop, Kill, Over, vars
<1> QED
  BY <1>1, <1>2, <1>3

THEOREM CInvariant == Spec => [](ready \subseteq Units /\ CInv)
<1>1. Init => ready \subseteq Units /\ CInv
  BY InitCInv DEF Init
<1>2. ready \subseteq Units /\ CInv /\ [Next]_vars
        => (ready \subseteq Units /\ CInv)'
  BY ReadyStep, ControlStep
<1> QED
  BY <1>1, <1>2, PTL DEF Spec

(* An engine that a process has started is one whose registers it has      *)
(* mapped and can stop, and its pace and its pins were set up before: the  *)
(* order of the constructors in main sees to it (servod.cc:206-225).       *)
THEOREM StartedUnderControl == Spec => []UnderControl
<1>1. LInv /\ CInv => UnderControl
  BY DEF LInv, EngineInv, CInv, ControlInv, UnderControl
<1> QED
  BY LInvariant, CInvariant, <1>1, PTL

(* A process that exits by itself had a call fail: what processes killed   *)
(* before it left behind, the FIFO included, does not keep it from serving. *)
THEOREM LeftoversDoNoHarm == Spec => []LeftoversHarmless
<1>1. CInv => LeftoversHarmless
  BY DEF CInv
<1> QED
  BY CInvariant, <1>1, PTL

-----------------------------------------------------------------------------
(* How far the channels have come on the way to the loop. *)
ServeInv ==
  /\ pc \in Building => list = unique \union todo
  /\ pc \in Units \union {"start", "unlink", "mkfifo", "chmod", "loop"} =>
       list = unique
  /\ pc = "start" => \A c \in unique \ todo : engine[c] = run
  /\ pc \in {"unlink", "mkfifo", "chmod", "loop"} =>
       \A c \in unique : engine[c] = run
  /\ pc \in {"chmod", "loop"} => fifo

LEMMA ServeStep ==
  ASSUME Shape, PhaseInv, ServeInv, [Next]_vars
  PROVE  ServeInv'
<1> USE DEF ServeInv, Building, Units
<1>1. CASE Start
  BY <1>1 DEF Start
<1>2. CASE NewChannel
  BY <1>2 DEF NewChannel, Fail, Vanish, world
<1>3. CASE DmaMalloc
  BY <1>3 DEF DmaMalloc, Fail, Vanish
<1>4. CASE MapRegisters
  BY <1>4 DEF MapRegisters, Fail, Vanish, world, PhaseInv
<1>5. CASE SetUps
  BY <1>5 DEF SetUps, Fail, Vanish, SetUp, objects, world
<1>6. CASE DmaStart
  BY <1>6 DEF DmaStart, Fail, Vanish, objects, Shape, PhaseInv
<1>7. CASE Unlink
  BY <1>7 DEF Unlink, Fail, Vanish, objects
<1>8. CASE Mkfifo
  BY <1>8 DEF Mkfifo, Fail, Vanish, objects
<1>9. CASE Chmod
  BY <1>9 DEF Chmod, Fail, Vanish, objects, world
<1>10. CASE LeaveLoop
  BY <1>10 DEF LeaveLoop, Fail, Vanish, objects
<1>11. CASE StopEngine
  BY <1>11 DEF StopEngine, Fail, Vanish
<1>12. CASE DmaFree
  BY <1>12 DEF DmaFree, Fail, Vanish
<1>13. CASE Return
  BY <1>13 DEF Return, Fail, Vanish, objects, world
<1>14. CASE Stop
  BY <1>14 DEF Stop, Fail, Vanish, objects, world
<1>15. CASE Kill
  BY <1>15 DEF Kill, Fail, Vanish
<1>16. CASE Over \/ UNCHANGED vars
  BY <1>16 DEF Over, vars
<1>17. CASE Fork \/ ReadServos
  BY <1>17 DEF Fork, ReadServos, Fail, Vanish, objects, world
<1> QED
  BY <1>1, <1>2, <1>3, <1>4, <1>5, <1>6, <1>7, <1>8, <1>9, <1>10, <1>11,
     <1>12, <1>13, <1>14, <1>15, <1>16, <1>17 DEF Next, Process

(* A process that listens to clients has started every channel its file    *)
(* names and no other, whatever it found running, and has its FIFO.        *)
THEOREM ListenersServe == Spec => []Serves
<1>1. Init => ServeInv
  BY DEF Init, ServeInv, Building, Units
<1>2. LInv /\ ServeInv /\ [Next]_vars => ServeInv'
  BY ServeStep DEF LInv
<1>3. LInv /\ ServeInv => Serves
  BY DEF LInv, EngineInv, ServeInv, Serves, Shape
<1> QED
  BY LInvariant, <1>1, <1>2, <1>3, PTL DEF Spec

-----------------------------------------------------------------------------
(* The rest of the type invariant, in the parts that different steps change. *)
Counted ==
  /\ run \in 0 .. MaxRuns
  /\ faults \in 0 .. MaxFaults /\ kills \in 0 .. MaxKills

Placed ==
  /\ pc \in {"gone", "fork", "servos", "channels", "malloc", "registers",
             "gpio", "clock", "pwm", "start", "unlink", "mkfifo", "chmod",
             "loop", "delete", "free", "unmap"}
  /\ last \in {"none", "returned", "exited", "killed"}

Flagged == stayInLoop \in BOOLEAN /\ failed \in BOOLEAN /\ fifo \in BOOLEAN

Mapped == mapped \subseteq Channels \union Units /\ ready \subseteq Units

Piece == (1 .. run) \X Channels \X Part
Given == gpu \subseteq Piece /\ refused \subseteq Piece

LEMMA CountedStep ==
  ASSUME LifecycleAssumption, Counted, [Next]_vars
  PROVE  Counted'
<1>1. run' = run \/ (run < MaxRuns /\ run' = run + 1)
  BY DEF history, Next, Process, Start, Fork, ReadServos, NewChannel,
     DmaMalloc, MapRegisters, SetUps, SetUp, DmaStart, Unlink, Mkfifo, Chmod,
     LeaveLoop, StopEngine, DmaFree, Return, Stop, Kill, Over, vars
<1>2. faults' = faults \/ (faults < MaxFaults /\ faults' = faults + 1)
  BY DEF Fail, Fine, Locking, Refused, Obeyed, mem_alloc_lock, mem_unlock_free,
     Next, Process, Start, Fork, ReadServos, NewChannel, DmaMalloc,
     MapRegisters, SetUps, SetUp, DmaStart, Unlink, Mkfifo, Chmod, LeaveLoop,
     StopEngine, DmaFree, Return, Stop, Kill, Over, vars
<1>3. kills' = kills \/ (kills < MaxKills /\ kills' = kills + 1)
  BY DEF Next, Process, Start, Fork, ReadServos, NewChannel, DmaMalloc,
     MapRegisters, SetUps, SetUp, DmaStart, Unlink, Mkfifo, Chmod, LeaveLoop,
     StopEngine, DmaFree, Return, Stop, Kill, Over, vars
<1> QED
  BY <1>1, <1>2, <1>3 DEF Counted, LifecycleAssumption

LEMMA PlacedStep ==
  ASSUME Placed, [Next]_vars
  PROVE  Placed'
  BY DEF Placed, Fail, Vanish, Fine, Locking, Refused, Obeyed, mem_alloc_lock,
     mem_unlock_free, Next, Process, Start, Fork, ReadServos, NewChannel,
     DmaMalloc, MapRegisters, SetUps, SetUp, DmaStart, Unlink, Mkfifo, Chmod,
     LeaveLoop, StopEngine, DmaFree, Return, Stop, Kill, Over, vars

LEMMA FlaggedStep ==
  ASSUME Flagged, [Next]_vars
  PROVE  Flagged'
  BY DEF Flagged, Fail, Vanish, Fine, Locking, Refused, Obeyed, mem_alloc_lock,
     mem_unlock_free, world, Next, Process, Start, Fork, ReadServos,
     NewChannel, DmaMalloc, MapRegisters, SetUps, SetUp, DmaStart, Unlink,
     Mkfifo, Chmod, LeaveLoop, StopEngine, DmaFree, Return, Stop, Kill, Over,
     vars

LEMMA MappedStep ==
  ASSUME Mapped, Shape, [Next]_vars
  PROVE  Mapped'
  BY DEF Mapped, Shape, Fail, Vanish, Units, Next, Process, Start, Fork,
     ReadServos, NewChannel, DmaMalloc, MapRegisters, SetUps, SetUp, DmaStart,
     Unlink, Mkfifo, Chmod, LeaveLoop, StopEngine, DmaFree, Return, Stop, Kill,
     Over, vars

LEMMA GivenStep ==
  ASSUME Given, Shape, Shape', [Next]_vars
  PROVE  Given'
<1>1. Piece \subseteq Piece'
  <2>1. 1 .. run \subseteq 1 .. run'
    BY DEF Shape, Next, Process, Start, Fork, ReadServos, NewChannel,
       DmaMalloc, MapRegisters, SetUps, SetUp, DmaStart, Unlink, Mkfifo, Chmod,
       LeaveLoop, StopEngine, DmaFree, Return, Stop, Kill, Over, vars
  <2> QED
    BY <2>1 DEF Piece
<1>2. pc # "gone" => <<run, cur, part>> \in Piece
  BY DEF Shape, Piece
<1>3. /\ gpu' \subseteq gpu \union {<<run, cur, part>>}
      /\ refused' \subseteq refused \union {<<run, cur, part>>}
  BY DEF Locking, Refused, Obeyed, mem_alloc_lock, mem_unlock_free, world,
     memory, Next, Process, Start, Fork, ReadServos, NewChannel, DmaMalloc,
     MapRegisters, SetUps, SetUp, DmaStart, Unlink, Mkfifo, Chmod, LeaveLoop,
     StopEngine, DmaFree, Return, Stop, Kill, Over, vars
<1>4. pc = "gone" => gpu' = gpu /\ refused' = refused
  BY DEF world, memory, Next, Process, Start, Fork, ReadServos, NewChannel,
     DmaMalloc, MapRegisters, SetUps, SetUp, DmaStart, Unlink, Mkfifo, Chmod,
     LeaveLoop, StopEngine, DmaFree, Return, Stop, Kill, Over, vars
<1> QED
  BY <1>1, <1>2, <1>3, <1>4 DEF Given

Typed == Counted /\ Placed /\ Flagged /\ Mapped /\ Given

(* Every loop stays within the channels of the definition file and the     *)
(* three pieces of memory of each, and no counter passes its bound.        *)
THEOREM LifecycleTypes == Spec => []TypeOK
<1>1. Init => Typed
  <2> SUFFICES ASSUME Init PROVE Typed
    OBVIOUS
  <2>1. Counted
    BY LifecycleAssumption DEF LifecycleAssumption, Init, Counted
  <2>2. Placed /\ Flagged
    BY DEF Init, Placed, Flagged
  <2>3. Mapped /\ Given
    BY DEF Init, Mapped, Given
  <2> QED
    BY <2>1, <2>2, <2>3 DEF Typed
<1>2. LInv /\ LInv' /\ Typed /\ [Next]_vars => Typed'
  BY LifecycleAssumption, CountedStep, PlacedStep, FlaggedStep, MappedStep,
     GivenStep DEF LInv, Typed
<1>3. LInv /\ Typed => TypeOK
  BY DEF LInv, Shape, Typed, Counted, Placed, Flagged, Mapped, Given, Piece,
     TypeOK
<1> QED
  BY LInvariant, <1>1, <1>2, <1>3, PTL DEF Spec
=============================================================================
