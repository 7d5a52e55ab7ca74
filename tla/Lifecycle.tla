------------------------------ MODULE Lifecycle ------------------------------
(***************************************************************************)
(* The process from start to end, and what it leaves behind: main of       *)
(* src/src/servod.cc, the constructors and destructors of its objects,     *)
(* dmaMalloc and dmaFree, and the beginning and end of respondToRequest.   *)
(* A process may fail at any call outside the program, may be told to      *)
(* stop at any moment, and may be killed at any moment; another may be     *)
(* started after it, with other channels in the definition file.           *)
(*                                                                         *)
(* Mappings end with the process.  The DMA engines, the memory the         *)
(* firmware gave out and the file in /dev do not.                          *)
(***************************************************************************)
EXTENDS Naturals, FiniteSets

CONSTANTS
  Channels,      \* DMA channels a definition file may name
  MaxRuns,       \* bound: processes started
  MaxFaults,     \* bound: calls outside the program that fail, and servo
                 \* definitions that are refused
  MaxKills       \* bound: processes killed

ASSUME LifecycleAssumption ==
  MaxRuns \in Nat /\ MaxFaults \in Nat /\ MaxKills \in Nat

Part == 1 .. 3      \* dmaCBs, dmaGPIOPinOn, dmaGPIOPinOff
LastPart == 3
Idle == 0
Units == {"gpio", "clock", "pwm"}

VARIABLES
  run,           \* number of the process, the last one started
  pc,            \* where it is; "gone" when there is none
  list,          \* channels its definition file names
  todo,          \* channels the loop it is in has still to go through
  cur,           \* channel being built or deleted
  part,          \* the memory of that channel in hand
  unique,        \* uniqueDMAChannel
  mapped,        \* register blocks mapped: channels, and units
  ready,         \* units this process has set up
  stayInLoop,
  faults,        \* calls that failed, definitions refused
  failed,        \* one of them in this process
  last,          \* how the last process ended
  kills,
  gpu,           \* memory the firmware has given out: <<run, channel, part>>
  refused,       \* memory it refused to give, to lock or to take back
  engine,        \* engine[c]: the process whose blocks it executes, or Idle
  fifo           \* there is a file SERVO_FIFO

objects == <<list, cur, part, unique>>
memory == <<gpu, refused>>
world == <<memory, engine, fifo>>
history == <<run, last, kills>>
vars == <<run, pc, list, todo, cur, part, unique, mapped, ready, stayInLoop,
          faults, failed, last, kills, gpu, refused, engine, fifo>>

Init ==
  /\ run = 0 /\ pc = "gone"
  /\ list = {} /\ todo = {} /\ cur \in Channels /\ part = 1 /\ unique = {}
  /\ mapped = {} /\ ready = {}
  /\ stayInLoop = TRUE
  /\ faults = 0 /\ failed = FALSE
  /\ last = "none" /\ kills = 0
  /\ gpu = {} /\ refused = {}
  /\ engine = [c \in Channels |-> Idle] /\ fifo = FALSE

(* The process is gone, and its mappings with it. *)
Vanish(how) == /\ pc' = "gone"
               /\ last' = how
               /\ mapped' = {}

(* exit after a call that failed: no destructor of main's objects runs.    *)
Fail ==
  /\ faults < MaxFaults
  /\ faults' = faults + 1
  /\ failed' = TRUE
  /\ Vanish("exited")

Fine == UNCHANGED <<faults, failed, last>>

(* The ioctl of mbox_property failed: this is printed, and the number in   *)
(* the buffer is taken for the firmware's answer.                          *)
Refused ==
  /\ faults < MaxFaults
  /\ faults' = faults + 1
  /\ refused' = refused \union {<<run, cur, part>>}
  /\ UNCHANGED <<failed, last>>
Obeyed == Fine /\ UNCHANGED refused

(* mem_lock or mem_unlock, after which the program goes on either way.     *)
Locking == Obeyed \/ Refused

(* mem_alloc and mem_lock: memory that was given may still not be locked,  *)
(* and then the handle is taken for its address.                           *)
mem_alloc_lock ==
  \/ gpu' = gpu \union {<<run, cur, part>>} /\ Locking
  \/ Refused /\ UNCHANGED gpu

mem_unlock_free ==
  \/ gpu' = gpu \ {<<run, cur, part>>} /\ Locking
  \/ Refused /\ UNCHANGED gpu

-----------------------------------------------------------------------------
(* main: the handler is installed, and without arguments the process forks *)
(* and goes on as the child; the parent only exits.                        *)
Start ==
  /\ pc = "gone"
  /\ run < MaxRuns
  /\ run' = run + 1
  /\ \E S \in SUBSET Channels \ {{}} : list' = S /\ todo' = S
  /\ pc' \in {"fork", "servos"}
  /\ unique' = {} /\ ready' = {}
  /\ stayInLoop' = TRUE
  /\ failed' = FALSE
  /\ UNCHANGED <<cur, part, mapped, faults, last, kills, world>>

Fork ==
  /\ pc = "fork"
  /\ \/ pc' = "servos" /\ Fine /\ UNCHANGED mapped
     \/ Fail
  /\ UNCHANGED <<run, kills, objects, todo, ready, stayInLoop, world>>

(* readServoList and the constructor of Servos: there is no file, it holds *)
(* no servo, or one that is refused.                                       *)
ReadServos ==
  /\ pc = "servos"
  /\ \/ pc' = "channels" /\ Fine /\ UNCHANGED mapped
     \/ Fail
  /\ UNCHANGED <<run, kills, objects, todo, ready, stayInLoop, world>>

(* The constructor of DMAChannels comes to the first servo of a channel,   *)
(* or refuses a servo when channels before it have their memory.           *)
NewChannel ==
  /\ pc = "channels"
  /\ \/ cur' \in todo /\ part' = 1 /\ pc' = "malloc" /\ Fine
        /\ UNCHANGED mapped
     \/ Fail /\ UNCHANGED <<cur, part>>
  /\ UNCHANGED <<run, kills, list, todo, unique, ready, stayInLoop, world>>

(* dmaMalloc: the mailbox is opened, memory is given out, locked, mapped.  *)
(* The bus address is tested for 0, after it has been mapped.              *)
DmaMalloc ==
  /\ pc = "malloc"
  /\ \/ /\ mem_alloc_lock
        /\ IF part = LastPart THEN pc' = "registers" /\ UNCHANGED part
                              ELSE part' = part + 1 /\ UNCHANGED pc
        /\ UNCHANGED mapped
     \/ /\ Fail
        /\ gpu' \in {gpu, gpu \union {<<run, cur, part>>}}
        /\ UNCHANGED <<refused, part>>
  /\ UNCHANGED <<run, kills, list, todo, cur, unique, ready, stayInLoop,
                 engine, fifo>>

(* mapPeripheralToUserSpace, and the blocks are filled: dmaInitCBs.        *)
MapRegisters ==
  /\ pc = "registers"
  /\ \/ /\ mapped' = mapped \union {cur}
        /\ unique' = unique \union {cur}
        /\ todo' = todo \ {cur}
        /\ pc' = IF todo' = {} THEN "gpio" ELSE "channels"
        /\ Fine
     \/ Fail /\ UNCHANGED <<unique, todo>>
  /\ UNCHANGED <<run, kills, list, cur, part, ready, stayInLoop, world>>

(* The constructors of GPIO, Clock and PWMHW; the last also fails when the *)
(* frequency is not one it expects.                                        *)
SetUp(unit, next) ==
  /\ pc = unit
  /\ \/ /\ mapped' = mapped \union {unit}
        /\ ready' = ready \union {unit}
        /\ pc' = next
        /\ todo' = unique
        /\ Fine
     \/ Fail /\ UNCHANGED <<ready, todo>>
  /\ UNCHANGED <<run, kills, objects, stayInLoop, world>>

(* Mutation: DMA is started before the PWM hardware is there. *)
SetUpsEarly == SetUp("gpio", "clock") \/ SetUp("clock", "start")
SetUps ==
  SetUp("gpio", "clock") \/ SetUp("clock", "pwm") \/ SetUp("pwm", "start")

(* Mutation of DmaStart: an active channel is left alone. *)
DmaStartIdle ==
  /\ pc = "start"
  /\ \E c \in todo :
       /\ engine' = [engine EXCEPT ![c] = IF @ = Idle THEN run ELSE @]
       /\ todo' = todo \ {c}
  /\ pc' = IF todo' = {} THEN "unlink" ELSE pc
  /\ Fine
  /\ UNCHANGED <<run, kills, objects, mapped, ready, stayInLoop, memory, fifo>>

(* The channel is aborted, reset and given the first block of this process. *)
DmaStart ==
  /\ pc = "start"
  /\ \E c \in todo : /\ engine' = [engine EXCEPT ![c] = run]
                     /\ todo' = todo \ {c}
  /\ pc' = IF todo' = {} THEN "unlink" ELSE pc
  /\ Fine
  /\ UNCHANGED <<run, kills, objects, mapped, ready, stayInLoop, memory, fifo>>

-----------------------------------------------------------------------------
(* respondToRequest.                                                       *)

UnlinkNothing ==       \* mutation: the old file is left
  /\ pc = "unlink"
  /\ pc' = "mkfifo"
  /\ Fine
  /\ UNCHANGED <<run, kills, objects, todo, mapped, ready, stayInLoop, world>>

Unlink ==
  /\ pc = "unlink"
  /\ fifo' = FALSE
  /\ pc' = "mkfifo"
  /\ Fine
  /\ UNCHANGED <<run, kills, objects, todo, mapped, ready, stayInLoop, memory,
                 engine>>

(* mkfifo fails when there is a file of that name, and for other reasons.  *)
Mkfifo ==
  /\ pc = "mkfifo"
  /\ IF fifo
     THEN Vanish("exited") /\ UNCHANGED <<faults, failed, fifo>>
     ELSE \/ fifo' = TRUE /\ pc' = "chmod" /\ Fine /\ UNCHANGED mapped
          \/ Fail /\ UNCHANGED fifo
  /\ UNCHANGED <<run, kills, objects, todo, ready, stayInLoop, memory, engine>>

(* Mutation of Chmod: stayInLoop is set where the loop begins.             *)
ChmodResets ==
  /\ pc = "chmod"
  /\ \/ pc' = "loop" /\ stayInLoop' = TRUE /\ Fine /\ UNCHANGED mapped
     \/ Fail /\ UNCHANGED stayInLoop
  /\ UNCHANGED <<run, kills, objects, todo, ready, world>>

Chmod ==
  /\ pc = "chmod"
  /\ \/ pc' = "loop" /\ Fine /\ UNCHANGED mapped
     \/ Fail
  /\ UNCHANGED <<run, kills, objects, todo, ready, stayInLoop, world>>

(* Ctrl-C from its handler's installation on, or the stop line. *)
Stop ==
  /\ pc # "gone"
  /\ stayInLoop' = FALSE
  /\ Fine
  /\ UNCHANGED <<run, kills, pc, objects, todo, mapped, ready, world>>

(* Close and unlink, noPulse and the sleep; then main returns.             *)
LeaveLoop ==
  /\ pc = "loop"
  /\ ~stayInLoop
  /\ fifo' = FALSE
  /\ pc' = "delete"
  /\ todo' = unique
  /\ Fine
  /\ UNCHANGED <<run, kills, objects, mapped, ready, stayInLoop, memory,
                 engine>>

-----------------------------------------------------------------------------
(* The destructors, last object first: those of PWMHW, Clock and GPIO do   *)
(* nothing, the one of DMAChannels deletes its channels, the one of        *)
(* Peripheral unmaps the registers.                                        *)

(* Mutation of StopEngine: the channel is only reset when it is done.      *)
StopEngineLater ==
  /\ pc = "delete"
  /\ cur' \in todo
  /\ part' = 1
  /\ pc' = "free"
  /\ Fine
  /\ UNCHANGED <<run, kills, list, todo, unique, mapped, ready, stayInLoop,
                 world>>

(* dmaEnd of one channel up to its second usleep. *)
StopEngine ==
  /\ pc = "delete"
  /\ cur' \in todo
  /\ engine' = [engine EXCEPT ![cur'] = Idle]
  /\ part' = 1
  /\ pc' = "free"
  /\ Fine
  /\ UNCHANGED <<run, kills, list, todo, unique, mapped, ready, stayInLoop,
                 memory, fifo>>

(* Mutations of DmaFree: one part too many, and the masks forgotten.       *)
DmaFreePast ==
  /\ pc = "free"
  /\ mem_unlock_free
  /\ IF part > LastPart
     THEN /\ todo' = todo \ {cur}
          /\ pc' = IF todo' = {} THEN "unmap" ELSE "delete"
          /\ UNCHANGED part
     ELSE part' = part + 1 /\ UNCHANGED <<todo, pc>>
  /\ UNCHANGED <<run, kills, list, cur, unique, mapped, ready, stayInLoop,
                 engine, fifo>>

DmaFreeCBs ==
  /\ pc = "free"
  /\ mem_unlock_free
  /\ todo' = todo \ {cur}
  /\ pc' = IF todo' = {} THEN "unmap" ELSE "delete"
  /\ UNCHANGED <<run, kills, objects, mapped, ready, stayInLoop, engine, fifo>>

(* One dmaFree of the three; it exits when munmap fails. *)
DmaFree ==
  /\ pc = "free"
  /\ \/ /\ mem_unlock_free
        /\ IF part = LastPart
           THEN /\ todo' = todo \ {cur}
                /\ pc' = IF todo' = {} THEN "unmap" ELSE "delete"
                /\ UNCHANGED part
           ELSE part' = part + 1 /\ UNCHANGED <<todo, pc>>
        /\ UNCHANGED mapped
     \/ Fail /\ UNCHANGED <<memory, part, todo>>
  /\ UNCHANGED <<run, kills, list, cur, unique, ready, stayInLoop, engine,
                 fifo>>

(* unmapPeripherals, and the process returns 0. *)
Return ==
  /\ pc = "unmap"
  /\ Vanish("returned")
  /\ UNCHANGED <<run, kills, faults, failed, objects, todo, ready, stayInLoop,
                 world>>

(* SIGTERM (systemctl stop), SIGKILL, a failed assertion.                  *)
Kill ==
  /\ pc # "gone"
  /\ kills < MaxKills
  /\ kills' = kills + 1
  /\ Vanish("killed")
  /\ UNCHANGED <<run, faults, failed, objects, todo, ready, stayInLoop, world>>

-----------------------------------------------------------------------------
Over == pc = "gone" /\ run = MaxRuns /\ UNCHANGED vars

Process ==
  \/ Fork \/ ReadServos
  \/ NewChannel \/ DmaMalloc \/ MapRegisters
  \/ SetUps \/ DmaStart
  \/ Unlink \/ Mkfifo \/ Chmod \/ LeaveLoop
  \/ StopEngine \/ DmaFree \/ Return

Next == Start \/ Process \/ Stop \/ Kill \/ Over

(* A process that exists is run; nobody has to start, stop or kill one.    *)
Spec == Init /\ [][Next]_vars /\ WF_vars(Process)
-----------------------------------------------------------------------------
TypeOK ==
  /\ run \in 0 .. MaxRuns
  /\ pc \in {"gone", "fork", "servos", "channels", "malloc", "registers",
             "gpio", "clock", "pwm", "start", "unlink", "mkfifo", "chmod",
             "loop", "delete", "free", "unmap"}
  /\ list \subseteq Channels /\ todo \subseteq list /\ unique \subseteq list
  /\ cur \in Channels /\ part \in Part
  /\ mapped \subseteq (Channels \union Units) /\ ready \subseteq Units
  /\ stayInLoop \in BOOLEAN /\ failed \in BOOLEAN
  /\ faults \in 0 .. MaxFaults /\ kills \in 0 .. MaxKills
  /\ last \in {"none", "returned", "exited", "killed"}
  /\ gpu \subseteq (1 .. run) \X Channels \X Part
  /\ refused \subseteq (1 .. run) \X Channels \X Part
  /\ engine \in [Channels -> 0 .. run]
  /\ fifo \in BOOLEAN

(* An engine that runs executes blocks in memory that nobody has freed,    *)
(* and reads masks there: while its process lives, while it is being       *)
(* deleted ("Release the memory used by DMA", DMAChannel.cc:242, comes     *)
(* after the reset), and after the process was killed or exited.  Nobody   *)
(* looks whether the firmware gave the memory; a piece it refused is the   *)
(* only exception.                                                         *)
EngineMemory ==
  \A c \in Channels : engine[c] # Idle =>
    \A p \in Part : <<engine[c], c, p>> \in gpu \union refused

(* An engine this process has started is one it can still stop, since its  *)
(* registers are mapped, and what paces it and takes its pulses was set up *)
(* before it started.                                                      *)
UnderControl ==
  pc # "gone" => \A c \in Channels :
    engine[c] = run => c \in unique /\ c \in mapped /\ ready = Units

(* A process that listens to clients drives all its channels, also those   *)
(* that a process killed before it had left running, and has a FIFO.       *)
Serves ==
  pc = "loop" => fifo /\ \A c \in Channels : engine[c] = run <=> c \in list

(* A process that returned from main leaves nothing: no engine of its own  *)
(* runs, no memory of its own is still given out that the firmware would   *)
(* have taken back, no FIFO is left.                                       *)
CleanReturn ==
  last = "returned" /\ pc = "gone" =>
    /\ \A c \in Channels : engine[c] # run
    /\ \A c \in Channels, p \in Part : <<run, c, p>> \notin gpu \ refused
    /\ ~fifo

(* "delete any previous definition" (servod.cc:57): no leftover of an      *)
(* earlier process keeps a later one from starting.  It exits by itself    *)
(* only if a call of its own failed.                                       *)
LeftoversHarmless == last = "exited" /\ pc = "gone" => failed

(* README.md:50-53 and 59: told to stop, the process ends, however far it  *)
(* had come with its start.                                                *)
StopEnds == (pc # "gone" /\ ~stayInLoop) ~> (pc = "gone")
=============================================================================
