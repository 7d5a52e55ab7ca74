# servod in TLA+

servod drives hobby servos from a Raspberry Pi. It fills memory with DMA control
blocks, starts the Broadcom DMA engine on them, and from then on only edits those
blocks while the engine executes them. Clients move servos by writing lines to
`/dev/servo_fifo`. This directory holds TLA+ modules of the program, TLC
configurations that check them on small instances, and theorems that tlapm checks
for every value of the constants.

## The system

| part | state | operations |
| --- | --- | --- |
| DMA channel (`DMAChannel.cc`) | two banks of 4 x 10 control blocks, on and off masks, `lastCBStart` | `dmaStart`, `setNewLocation`, `swapDMACBs`, `noPulse`, `dmaEnd`, `adjustForAdditionalDMAChannels` |
| dispatch (`DMAChannels.cc`) | maps from servo ids and pins to servos and channels | constructor, `setNewLocation`, `swapDMACBs`, `noPulse`, `dmaStart` |
| request loop (`servod.cc`) | `stayInLoop`, `linesPerEvent`, the buffer, the FIFO's descriptor | `respondToRequest` |
| signal handler (`servod.cc`) | `stayInLoop` | `sigint_handler` |
| definition file (`servod.cc`) | list of (pin, channel) | `readServoList` |
| `Servos`, `Servo` | list of servos; pin, channel, location, masks | constructors, `setNewLocation` |
| DMA engine, PWM FIFO (hardware) | the control block being executed | executes blocks, paced at one word per microsecond |
| FIFO and clients (kernel, other programs) | bytes in the pipe, open descriptors | open, write, close |
| GPIO, Clock, PWMHW, Peripheral, mailbox | hardware registers, mappings, GPU memory | set up once at start |

How they interact: `main` reads the file and builds the servos and channels, sets
the hardware up, starts the engines and enters `respondToRequest`. A line
`id, width` makes the dispatch set the servo's location and rewrite the *whole*
inactive bank of its channel; after the lines of a read, `swapDMACBs` links the
active bank of *every* channel to the other one and sleeps a period, so that the
engine has moved over. A line `id, 0` or SIGINT ends the loop: `noPulse` clears
the on masks, the program sleeps two seconds, and the destructors abort the
engines.

What is hard here:

* the engine runs all the time, and no lock or status register tells the program
  where it is: the choice of a bank and a sleep stand for synchronisation;
* a swap is a promise about the future: the engine obeys it at the end of a
  round, and until then both banks are in use;
* clients open, write and close at any moment, also while the daemon has the
  FIFO closed;
* the FIFO is a stream of characters that a read cuts anywhere, into a buffer that
  is neither cleared nor terminated;
* a signal ends any sleep, the ones that stand for synchronisation included;
* several channels are swapped together although one was rewritten;
* the definition file decides silently how many servos there are.

`PROJECT.json` lists these hazards line by line, each with the properties that
would catch it going wrong.

## Modules

| module | models | role |
| --- | --- | --- |
| `DoubleBuffer` | - | abstract: two settings, prepare, commit, flip |
| `DMAChannel` | `DMAChannel.cc`, the engine | one channel, time counted in tics |
| `DMAChannelProofs` | - | proofs about any channel |
| `DMAChannelTiming` | - | proofs about a channel with a vacant slot; refinement |
| `DMAChannelContents` | - | proofs about what the banks of such a channel hold |
| `Fifo` | the kernel's named pipe (external) | operators on a pipe record |
| `Servod` | `respondToRequest`, `DMAChannels`, clients | the running daemon, time left out |
| `ServodProofs` | - | proofs about the daemon |
| `MCServod` | - | small instances for TLC |
| `LineQueue` | - | abstract: lines written, answered in order |
| `CommandBuffer` | the reads and the `sscanf` loop of `respondToRequest` | the same loop on characters |
| `CommandProofs` | - | proofs about any buffer; refinement |
| `MCCommandBuffer` | - | small instances for TLC |
| `ServoConfig` | `readServoList`, the constructors | from the file to running channels |
| `ConfigProofs` | - | proofs about any definition file |
| `MCServoConfig` | - | small instances for TLC |
| `Lifecycle` | `main`, constructors and destructors, `dmaMalloc`, `dmaFree`, mailbox | one process after another, and what they leave behind |
| `LifecycleProofs` | - | proofs about any channels and any number of processes |
| `HardwareSetup` | `GPIO.cc`, `Clock.cc`, `PWMHW.cc` | the registers at start |
| `HardwareProofs` | - | proofs about any registers |

### DMAChannel

A bank has four blocks per slot: raise the pin, wait, lower the pin, wait. The
only fields that ever change value are the lengths of the two waits and the link
of the last block, so memory is `onTics`, `offTics`, `wrap` and `onMask`; the
other fields are rewritten with the values they have. `lastCBStart`, `timeSlice`
and `location` are the program's own; `sleeping` is what the last sleep still has or
would have had to go. `setNewLocation` is a loop of
`WriteOn`, `WriteOff` per slot and `WriteWrap` at the end, one memory write a
step, so that the engine can be anywhere between two writes. `SwapDMACBs` sets
`sleeping` to `PERIOD`, and `SwapDone` waits for it.

The engine copies a block when it starts it (`LoadOn`, `LoadDelayOn`, `LoadOff`,
`LoadDelayOff`); `dma.next` is the link it copied from the last block. `Tic` is
one word through the PWM FIFO: the engine's count, the program's sleep and `age`
advance together. Blocks that do not wait take no time, and neither does a wait of
length 0, which is what `txLen` says at location 2000 (DMAChannel.cc:186): that the
hardware passes such a block at once is assumed, since nothing in the code says it. A
sleep lasts at least
as long as asked for, and the program is woken after what the engine does at
that instant (`Awake`): a real usleep always returns late.

`lines` is `linesPerEvent > 0`, and `SwapDMACBs` asks for nothing else, as
servod.cc:103 does. The code resets it once an event and not once a read
(`ReadBatch`), so that a later read of an event whose lines are all rejected swaps
blindly, without a rewrite. `BlindSwaps` says which of the two `ReadBatch` may do: with
`FALSE` every read begins with `lines` reset and every swap follows a rewrite; with
`TRUE` the channel is also driven the way the finding `daemon_bad_line` shows, where
the double buffer is broken. `channel_nine` and `channel_full` have `FALSE`: what they
say of `OnlyInactiveWritten`, `SlotTiming`, `PlaysLocations`, `ServoMoves` and
`DoubleBuffered` is said of a daemon whose later reads of an event have a line that
moves a servo. The theorems without `Roomy` (see Proofs) hold of both.

`DoubleBuffered` says that the channel implements `DoubleBuffer`: `shown` is the
bank the engine takes its next block from, `spare` the other, `pending` that the
two sides disagree about which is active.

### Servod and Fifo

`Servod` takes a channel as what `DMAChannel` shows it to be: two banks with a
location per servo, an engine that ends a round now and then (`EndRound`), and a
sleep of `swapDMACBs` in which every engine ends at least one. That last
assumption is the theorem `WritesAreInactive` for a channel with a vacant slot;
a full channel is the finding `channel_full`. The two are separate instances
because tics times clients is out of TLC's reach.

`pc` follows `respondToRequest`: `select`, `read`, `parse` (one step per line),
`swap` and `sleep` (one pair per channel of the iterator), `close`, `reopen`,
`noPulse`, `done`. A line is a record `[id, width]` or `Malformed`; a client
writes whole lines, and a read takes at most `BuffLines` of them. `Fifo` keeps what
matters of a pipe: what was written, how many writers have it open, whether the
reader has, and whether a writer came since the reader's open (select reports a
hang-up only then). What is in a pipe is lost when its last user closes it.

### CommandBuffer and LineQueue

`Servod` takes for granted that a line written is a line read. `CommandBuffer` is
the loop below that: `pipe` and `buff` are sequences of characters, the digits as
themselves and everything else as one of four classes (comma, blank, newline,
other). `Read` copies at most `BuffLen` of them to the beginning of `buff` and
leaves the rest of it as it was; `EatLine` is one turn of the loop, with `sscanf`
(`Scan`) reading on past `bytesRead` and past the end of the buffer into `Beyond`,
and `NextOffset` the walk to the newline. Where the line is taken for a request,
`answer` is its two numbers; what follows from it is told in `Servod`.

`LineQueue` is what clients may expect: each line is answered once, in the order
they were written. `CommandBuffer` implements it (`Queue`) with the lines not
answered yet, in the pipe and in the buffer, told from the way they were written
and not from what `sscanf` makes of them. It does so only for lines of one length
that divides the buffer's (`Regular`), which is the case of `"0, 1000"`: 8 characters with
the newline, 4096 a read. The finding `command_cut` is about the others.
`MCCommandBuffer` makes TLC check that the clients of the passing run are regular.

### ServoConfig

The constructors, one turn of each loop per step: `DefinitionLine`, `BadLine`,
`EndOfFile`; `MakeServo`, `ServosMade`; `AddServoAndChannel`, `AddServo`,
`RefuseServo`, `ChannelsMade`. The maps of `DMAChannels` keep their names; a
channel object is named by its number, and the two inverse maps that nothing
reads are left out. A channel's time slices are numbered as `DMAChannel`'s
constructor comes across its servos (`ServoRef`, `Place`). `txLen` is in bytes with the
divisions of `dmaInitCBs`.
Setting up the hardware between `ChannelsMade` and the running daemon changes
none of this state.

### Lifecycle

`pc` follows `main` through its objects' constructors, `respondToRequest` and the
destructors; the loops over the channels of a map take them in any order (`todo`),
since the map is ordered by address. `gpu` is the memory the firmware has given
out, by process, channel and part (`Part`: the blocks and the two mask tables);
`engine[c]` names the process whose blocks channel `c` executes; `fifo` is the
file in `/dev`. These three outlive a process. `mapped` and `ready` are what the
process has mapped and set up. A call that fails, or a definition that is refused,
ends the process (`Fail`), except a mailbox message, whose failure is only printed
(`Refused`, which keeps in `refused` what the message was about); any process may be
killed at any point (`Kill`). `Start` begins another one, with any channels, in
daemon mode (`Fork`) or in debug mode, as the service does. `ReadServos` stands for
what `ServoConfig` has in detail. The request loop is one
place, `loop`, that a stop leaves: `Servod` has the rest.

### HardwareSetup

The registers are found in any state. `ReadMode` and `WriteMode` are the two
accesses to a mode register; `Busy`, `Kill`, `BusyStill`, `SetSource`, `SetDiv`,
`Enable` those of `initClock`, against a generator that is busy until it has
noticed that it is to stop (`Generator`); the rest is `initPWM`, with the range
computed from the frequency the kernel shows. Registers are arrays of fields, and
the number of fields is a constant.

## Runs

| run | instance | shows |
| --- | --- | --- |
| `channel_nine` | 3 slots, 2 servos, period 9, pulses 2-3, 1 signal, swaps after rewrites | a channel with a vacant slot keeps its timing, plays every location, ends with its pins low, and implements the double buffer |
| `channel_full` | 2 slots, 2 servos, period 8 | *violated*: `SlotTiming` when every slot is taken |
| `daemon_one_channel` | 2 servos, 2 clients, 2 lines each, 1 signal | good lines and stop lines: the pulses are the ones asked for, no spinning, a stop ends |
| `daemon_two_channels` | 2 channels, 2 clients, 2 lines each, 1 signal | the channels stay in step whatever is written |
| `daemon_stale_bank` | 2 channels, 1 client, 2 good lines | *violated*: `RequestedPulses`, the channel that was not rewritten is swapped too |
| `daemon_bad_line` | 1 channel, 1 client, 2 lines | *violated*: `RequestedPulses` after a rejected line |
| `daemon_dropped` | 1 channel, 2 clients, 1 line each | *violated*: `NothingDropped` between close and open |
| `command_buffer` | a buffer of 16, lines of 8 characters, 3 lines | lines are cut, scanned and answered as they were written, none is left |
| `command_cut` | a buffer of 10, lines of 9 characters, 3 lines | *violated*: `OnlyRequests`, the second half of a line that a read cuts is a request |
| `config` | files of 0-4 lines, 3 pins, 4 channels (one not allowed), 2 slots, 3 servos | what runs follows the rules and what is refused breaks one; every servo is driven, under its line's number; all slots last the same |
| `lifecycle` | 2 channels, 3 processes, 1 failure, 1 kill, daemon or debug | engines keep their memory and are under control, one that returns leaves nothing, leftovers are harmless, a stop ends |
| `setup` | 4 pins, 2 a register, 1-2 servos, 3 frequencies, read or not, 3 kinds of garbage | modes of other pins kept, clock stopped before it is programmed, tics of a microsecond, or wrong by half at most when nothing was read |

What the properties say:

* `DMAChannel`: `TypeOK` (no length exceeds its slot, so the subtraction for the
  second delay never wraps; the first is a tic or more, the second is 0 at the longest
  location); `OnlyInactiveWritten`, `SlotTiming`, `PlaysLocations`, `OnePinAtATime`,
  `PinsLowAtEnd` (invariants); `NeverOnAgain` (action property); `ServoMoves`,
  `StopEnds` (liveness); `DoubleBuffered` (refinement, liveness included).
  `ServoMoves` begins where a line sets a location and ends with a pulse of that
  length, unless another line or a stop comes first; `StopEnds` begins where the stop
  line or the signal does.
* `Servod`: `WritesSpareBank`, `RequestedPulses`, `Lockstep` (invariants);
  `NothingDropped` (action property); `NoSpin`, `StopEnds` (liveness).
* `CommandBuffer`: `AnswersInOrder` (refinement of `LineQueue`), `AnswersAll`
  (liveness), `OnlyRequests` (invariant).
* `ServoConfig`: `EveryServoDriven`, `RefusesUnacceptable`, `NumberedByLine`,
  `SharedPace` (invariants). `RefusesUnacceptable` states the rules on the lines of the
  file, each with its source (`FollowRules`), and not on what the program makes of
  them. For a well-formed file it is "runs if and only if the rules are followed". For
  others the code departs from README.md:26, which has every line define a servo: the
  lines before the first bad one run (see the observations below), and the property
  says that those follow the rules and that nothing is refused without a reason.
* `Lifecycle`: `EngineMemory`, `UnderControl`, `Serves`, `CleanReturn`,
  `LeftoversHarmless` (invariants); `StopEnds` (liveness).
* `HardwareSetup`: `OnlyServoPinsSet`, `Microseconds`, `PaceBounded` (invariants);
  `GlitchFree` (action property); `SetupEnds` (liveness). `rangeSetting` starts with
  any garbage, in the range of the test or not. `Microseconds` is about a frequency that
  was read; `PaceBounded` about every other: the range test keeps a tic between 2/3 and
  3/2 of a microsecond, but for the rounding of the range, whatever it was fooled by.

### Bounds

* Slots and servos: a vacant last slot, a full channel and a slot in the middle
  are the cases the code tells apart; three slots have them all. The proofs have
  no such bound.
* Times: the pulses must differ (a range of two), fit a slot, and leave the
  balance delay 0 at the longest (`MaxOn = SlotTics`), as 2000 does in the code.
* `EndSleep`: longer than a period by a tic, against 100 periods in the code.
* `MaxSignals`: one signal is enough to cut any one sleep; more only repeat.
* `MaxWrites`, `Clients`: two lines fill two reads of one event, and two clients
  make a writer come while another one's hang-up is dealt with.
* `Lines`: one line of each kind the parser tells apart. `BuffLines = 2`: with two
  clients of two lines each a read takes all, or leaves some for the next one.
* `BuffLen`, `MaxWrites = 3` of `CommandBuffer`: 16 is two lines of 8 as 4096 is
  512; the third line is one the read has to leave. 10 is 1 modulo 9, as 4096 is.
  What the memory holds before and behind (`Fill`, `Beyond`) is a letter, a newline,
  or what would complete a line.
* `MaxLines = 4`: one more than `MaxServos`, two more than a channel has slots. Three
  allowed channels make the division of a slot of 24 bytes of delay by their number
  round (16 and 8 by 3), and `MaxOn` is a whole slot here too.
* `MaxRuns = 3`: one process that leaves something, one that finds it, one more
  that finds what both left. One failure and one kill can fall into different
  processes; two channels are enough for one to be started, stopped or freed and
  the other not.
* `HardwareSetup`: two registers of two pins, so that servos share a register or
  do not, and share it with other pins or do not. `Garbage`: a number the range test
  refuses, and both of its limits, which are the worst of those it lets through.

### Fairness

The engine and its clock never stop by themselves (`WF` of `Engine`, `Tic`,
`EndRound`). The kernel runs a runnable program (`WF` of its steps). The lines of a
read come to an end (`SF` of `EndBatch \/ SwapDMACBs` in `DMAChannel`, where
`StopLine` and `SetNewLocation` are possible at every turn because the number of lines
is left out; `Servod` counts them). Waking from
a sleep is strongly fair in `DMAChannel`, where `Awake` is false at the instants
in which the engine loads a block and true again after them. In `Servod`
`ended` grows until all engines ended a round, so weak fairness will do. Nothing is
assumed of clients or of whoever presses Ctrl-C. In `CommandBuffer` it is the
daemon again that is run (`WF` of `Read \/ EatLine`). In `Lifecycle` only the process
is fair: nobody has to start, stop or kill one. In `HardwareSetup` the generator
has to stop when told to (`WF` of `Generator`); the program has no way out
otherwise.

## Findings

* `channel_full`: with ten servos on a channel the sleep of a period can end
  before the engine has copied the link: two swaps in a row, the first of which
  lengthens the last servo's pulse, so that the round the second one waits for
  reads its last block later. The next line then rewrites the bank in use.
* `daemon_bad_line`: `linesPerEvent` is not reset between the reads of one
  event, so a rejected line swaps in the older bank.
* `daemon_stale_bank`: `swapDMACBs` swaps channels that were not rewritten.
* `command_cut`: a read of 4096 characters cuts a line, and what is left of it is
  scanned as a line of its own: of `12, 1500`, a request for servo 2.
* `daemon_dropped`: closing and reopening the FIFO discards a line written in
  between.

Smaller disagreements, seen while modelling and not given a run of their own:

* A SIGINT that ends the final `sleep(2)` makes `dmaEnd` abort a pulse in flight, and
  the pin stays high. `PinsLowAtEnd` is about a sleep that was slept (`sleeping = 0`).
* `%d` passes over line ends: a blank line makes the next line obeyed twice, once
  for itself, and `0,` with its `1500` on the next line is a command (`Scan`). A line
  that ends without a newline, or that a client writes in two pieces, is completed by
  what the buffer still holds of an earlier read.
* In daemon mode `stdin`, `stdout` and `stderr` are closed and written to all the
  same.
* `mem_lock` fails as silently as `mem_alloc`: the handle is then mapped as an address
  (`Locking`).
* A malformed line ends the definition file without an error (`BadLine`), and a
  last line without a newline is dropped, since `feof` is tested before the line is
  looked at (`AtEnd`). README.md:26 says "Subsequent lines in the file define
  additional servos".
* README.md:22 says "up to 10, one per line" of the servos in the file. The code takes
  up to 20 (Servos.h:52) if they are on several channels; ten is its limit for one.
* `mbox_property` only prints that its ioctl failed; `mem_alloc` then returns a word
  of its own request. `assert(mem->busAddr != 0)` (DMAChannel.cc:50) does not
  notice, and DMA starts from memory the firmware did not give: the `refused` of
  `EngineMemory`, which fails without it.
* Nobody looks at the result of `fscanf` (PWMHW.cc:47), and the variable it should
  have set is not initialised. If what was in its memory passes the range test, the
  tics are not the "1 usec per clock" of PWMHW.cc:51; `PaceBounded` says how wrong they
  can be.
* `gpioBit / 32` (Servo.cc:50) is added to the register's address in bytes
  (DMAChannel.cc:84), where the next register is four bytes on: pins above 31.

## Proofs

About `DMAChannel`, under `ConstantsAssumption` alone unless said otherwise:
the longest pulse fits a slot, there is a servo and at most as many as slots, and
the final sleep is longer than a period.

* `TypeCorrect`: `TypeOK` is inductive. The interesting part is
  `offTics = SlotTics - onTics` staying in `0 .. SlotTics - 1`: it does not wrap, and it
  may be 0.
* `PinsOneAtATime`: `PinInv` strengthens `OnePinAtATime` by saying in which
  blocks a pin may be high.
* `NoPulseIsFinal`: `MaskInv` says that `noPulse` has cleared the masks of the
  slots it went through, and all of them from `drain` on.
* `EndsWithPinsLow`: `DrainInv` bounds the time to the end of the pulse in flight by
  what is left of the final sleep, also when a signal has ended it: if it would be
  over by the time the engine is aborted, so is the pulse.
* `WritesAreInactive`, `SlotsKeepTime`, `ImplementsDoubleBuffer`, for
  `Roomy == ~BlindSwaps /\ NumServos < NumSlots`: a vacant slot, and every swap after a
  rewrite. Neither property is inductive:
  that the engine has moved over when a sleep ends follows from how far it is
  from its choice of a bank. `FlipIn` is that distance in tics, and `FlipInv`
  says that a sleeping program sleeps at least as long. A vacant last slot makes
  the distance the same in both banks, which is what the full channel lacks.
  `LinkInv` fixes the links of the banks, `PendingInv` who is waiting for whom,
  `LengthInv` that the waits of a slot add up, `ClockInv` that `age` does.
  The refinement maps every step to a step of `DoubleBuffer` or to a stutter;
  only the safety part is proved.
* `LocationsArePlayed`, for a roomy channel: `PlaysLocations` is about a channel that is
  idle, and holds because of who has the locations before it is: `ContentInv` says
  that they are in the active bank while nothing is rewritten, in the inactive one
  from the end of a rewriting to the swap, and in between in the slots that
  `setNewLocation` has passed. `Fresh` is the time between a rewrite and the swap that
  the end of the lines will bring. That the engine plays the active bank by
  then is the invariant of `DMAChannelTiming`.

About `Lifecycle`, for any channels and any numbers of processes, failures and
kills:

* `EnginesKeepTheirMemory`, `ReturnLeavesNothing`: `EngineMemory` and
  `CleanReturn` are about what is left when a process is over, and hold because of
  what it holds at every point before. `Holds` says which part of which channel
  that is (the parts below `part` of the channel being built, those from `part` on
  of the one being freed, all of the channels made or still to be deleted);
  `MemoryInv` that the firmware's books say the same, but for what it refused;
  `EngineInv` where the process may have engines running, and that the one being
  freed is not among them; `PhaseInv` what the loops over the channels have in
  common.
* `StartedUnderControl`, `LeftoversDoNoHarm`: `ControlInv` says what has been set up
  and mapped by the time each place of `main` is reached, and that there is no file
  where `mkfifo` is called; with `EngineInv` it gives `UnderControl`.
* `ListenersServe`: `ServeInv` follows the channels from the file's list through
  `unique` to the engines.
* `LifecycleTypes`: `TypeOK`, from `Shape` of the accounting and five small parts
  (`Typed`).

About `Servod`, for any servos, channels, lines, clients and signals, where the order
of the channels is that of the keys of a map (each channel once) and the clients are
finitely many:

* `TypeCorrect`: `TypeInv` adds to `TypeOK` that `fifo.writers` counts the clients that
  have the FIFO open (`WritersInv`) and that `todo` is the rest of the channels
  during a pass and empty otherwise (`TodoInv`).
* `ChannelsInLockstep`: `Swapped` is how many channels of the order the pass has
  swapped, the one asleep included; `PassInv` says that two channels agree if and only
  if both are among them or neither is.
* `SpareBankWritten`, `PulsesAsRequested`, for `Plain(c)`: `c` is the only channel, and
  every line moves a servo or stops the daemon. Both findings `daemon_bad_line` and
  `daemon_stale_bank` break the properties without it: a swap of a bank that was not
  rewritten links the two banks to each other, and the engine takes turns.
  `BankInv` says which bank is steady, that is, linked to itself with every location
  in it, at each place of the loop, and where a swap has led the engine.

About `CommandBuffer`, for any length of the buffer, requests, other lines and contents
of memory:

* `TypeCorrect`: `NextOffset` is at most one behind what was read, a read keeps the
  length of the buffer, and `Number` of digits is a number. The last needs that the
  function `Number` is the last value of exists, which `ValuedExists` proves for every
  length; `Induction` is induction as a statement about sets, from `Least`.
* `LinesAnsweredInOrder`, for `Regular(L)`: `CommandBuffer` implements the safety part of
  `LineQueue`. `Aligned` is the invariant: the pipe, and what is left of a read, are
  lines (`Cut`), so that a read of `BuffLen` characters ends where a line ends. The
  refinement mapping counts newlines; `Ends` shows that the `k`-th one of such a text
  is at `k * L`, and `MeaningsAppended`, `MeaningsLine` what it does to the queue when a
  line is added behind or taken off before. `ScanLine` is the other half: a scan that
  begins where a line begins makes of it what it was written for, whatever follows.
  Every part of `Regular` keeps out something that breaks the property: `command_cut`
  has a length that does not divide the buffer's; a line with a newline in it is two;
  `%d` finds no number where there are no digits; and `0,` would be completed by the
  number that begins the next line.
* `RequestsOnly`: what `command_cut` violates holds for regular clients.

About `ServoConfig`, for files of any length, any pins and any channels, under
`ConfigAssumption`: a location fits a slot, and there are at most as many servos as a
slot has tics (20 and 2000), so that no share of a slot is empty. `IInv` has a part for
each object that is built:

* `ReadInv`: a definition for every line read.
* `ServoInv`, from which `NumbersAreLines` follows: a servo for every definition.
* `MapInv`: a channel object for every channel met, made at its first servo.
* `SlotInv`: its slots are the servos of its channel, in the order of the list, and
  its lengths what `dmaInitCBs` makes of them. It gives `ServosAreDriven`, with a count
  (`Place`) that is one to one, `SlotsSharePace`, and the subtraction of `TypeCorrect`
  that does not wrap, for any number of channels. `RefusalsAreRight` is both
  directions: what runs follows the rules, because each constructor's test has been
  passed by the time its object exists; and where a test fails, the lines it looked at
  are some of the file's definitions, which then break the same rule (`RefuseInv`).

About `HardwareSetup`, for any registers, pins, modes and frequencies:

* `TypeCorrect`; `PinsOfServos`: the pins written so far are outputs and the others as
  found (`ModesInv`), and the register in hand is what the hardware still holds
  (`InHandInv`); `PinPlace` is the arithmetic of register and field.
* `ClockSetWhileIdle`: nobody enables the generator between the look that finds it idle
  and the last write of its settings (`QuietInv`).
* `TicsAreMicroseconds` and `PaceIsBounded`, for any garbage in `rangeSetting`:
  `RateInv` says from where the range has its value, and that it passed the test. The
  rest is two divisions (`TwoDivisions`), and that the limits of the test are a factor
  of 3/2 apart, but for what the rounding of the range makes up for
  (`RangesNearRates`).

Every safety property that a passing run checks is now a theorem, some of them for the
channels, daemons and clients named above. Only model-checked: liveness (`ServoMoves`,
the three `StopEnds`, `NoSpin`, `AnswersAll`, `SetupEnds`, the fairness of
`DoubleBuffered`), which is out of the prover's reach. The values that `Number` computes
are induction over data: that they are numbers is proved, that they are the decimal
ones is its definition.

## Not modelled

* Clients that write a line in several pieces, signs in numbers and numbers that do
  not fit an `int`: `CommandBuffer`'s lines are written at once, of digits.
* A second daemon beside a running one: README.md:55 asks that there is none, and
  nothing in the code looks for one.
* Pins above 53, which `readServoList` lets through.
* Several channels' shares of the PWM FIFO in time: README.md calls their timing
  unstable, and it depends on the hardware's arbitration.
* The messages of `mailbox.cc` (third-party code) word by word; build and service
  files.

## Plan

Written: the core (`DoubleBuffer`, `DMAChannel` and its proofs), the daemon around
it, the characters below it (`CommandBuffer`, `LineQueue`), the configuration, the
life cycle, the hardware's set-up, and proofs about each. All of the theorems planned
are proved. What may be added:

1. `WritesSpareBank` and `RequestedPulses` of one channel among several, for the time
   until the first pass in which it is swapped without having been rewritten.
2. The converse of `RefusalsAreRight` for each test alone: which of the tests
   refuses a file that breaks several rules.
3. A definition of `Regular` with lines of different lengths, none of which crosses a
   multiple of `BuffLen`: it depends on how the clients' writes fall.

A refinement of `Servod`'s banks to `DoubleBuffer` was considered and left out: after a
stop line the loop swaps without a rewrite, which `DoubleBuffer` has no step for, and
`WritesSpareBank` says what is left. The pulses of several channels in time would need
the arbitration between the channels' requests, which nothing in the code settles.
