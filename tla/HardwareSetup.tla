---------------------------- MODULE HardwareSetup ----------------------------
(***************************************************************************)
(* What main does to the GPIO, clock and PWM registers before the DMA      *)
(* engines start: the constructors of GPIO, Clock and PWMHW, in this       *)
(* order.  The registers are found in whatever state an earlier process,   *)
(* or another program, left them in.                                       *)
(*                                                                         *)
(* The clock generator is busy for as long as it makes a clock; told to    *)
(* stop it does so in its own time.  Passwords, the writes of constants    *)
(* that nothing depends on, and the usleeps between writes are left out.   *)
(***************************************************************************)
EXTENDS Naturals, Sequences, FiniteSets

CONSTANTS
  NumPins,          \* pins whose modes are modelled, 54 in the hardware
  ModesPerRegister, \* 10 in the code
  Modes,            \* the values of the three bits of a pin
  Output,           \* 1
  MaxServos,        \* bound: servos
  Frequencies,      \* of PLLD, as the kernel shows it, in Hz
  Garbage,          \* what an uninitialised variable may hold
  MayFail           \* may the command print no number?

CLK_DIVI == 5

(* The range test on rangeSetting; its mutation has no lower limit.        *)
MinPLLD == 500000000
MaxPLLD == 751000000
ExpectedAny == 0 .. MaxPLLD
Expected == MinPLLD .. MaxPLLD
PLLD == 6
Sources == {0, PLLD}
Unset == 0
Pin == 0 .. NumPins - 1
Register == 0 .. (NumPins - 1) \div ModesPerRegister
Field == 0 .. ModesPerRegister - 1

ASSUME SetupAssumption ==
  /\ NumPins \in Nat \ {0} /\ ModesPerRegister \in Nat \ {0}
  /\ MaxServos \in Nat
  /\ Output \in Modes
  /\ Frequencies \subseteq Nat /\ Garbage \subseteq Nat
  /\ MayFail \in BOOLEAN

VARIABLES
  servoList,        \* gpioBit of each servo
  gpioModeReg,      \* gpioModeReg[r][f]: mode of the pin of field f
  before,           \* the modes as they were found
  index,            \* servo whose pin is being set
  originalSettings, \* the register as it was read
  pc,
  clock,            \* ctrl and div of the clock generator
  frequency,        \* of PLLD
  rangeSetting,
  pwm               \* range1, dmaCfg set, FIFO cleared, ctrl enabled

gpioVars == <<servoList, gpioModeReg, before, index, originalSettings>>
pwmVars == <<frequency, rangeSetting, pwm>>
vars == <<gpioVars, pc, clock, pwmVars>>

ModeOf(regs, pin) == regs[pin \div ModesPerRegister][pin % ModesPerRegister]

Init ==
  /\ servoList \in {s \in UNION {[1 .. n -> Pin] : n \in 1 .. MaxServos} :
                      \A i, j \in DOMAIN s : s[i] = s[j] => i = j}
  /\ gpioModeReg \in [Register -> [Field -> Modes]]
  /\ before = gpioModeReg
  /\ index = 1
  /\ originalSettings = gpioModeReg[0]
  /\ pc = "read"
  /\ clock \in [busy : BOOLEAN, enab : BOOLEAN, src : Sources,
                div : {1, CLK_DIVI}]
  /\ clock.busy = clock.enab
  /\ frequency \in Frequencies
  /\ rangeSetting \in Garbage
  /\ pwm \in [range : {Unset}, dmaCfg : {FALSE}, clear : {FALSE}, on : BOOLEAN]

-----------------------------------------------------------------------------
(* The constructor of GPIO, a register's read and its write.               *)

Offset == servoList[index] \div ModesPerRegister
Shift == servoList[index] % ModesPerRegister

ReadMode ==
  /\ pc = "read"
  /\ originalSettings' = gpioModeReg[Offset]
  /\ pc' = "write"
  /\ UNCHANGED <<servoList, gpioModeReg, before, index, clock, pwmVars>>

(* Mutations of NewSettings: the mask takes the whole register, or nothing. *)
NewSettingsOnly == [f \in Field |-> IF f = Shift THEN Output ELSE 0]

NewSettingsOr ==
  [originalSettings EXCEPT ![Shift] = IF @ % 2 = 0 THEN @ + Output ELSE @]

(* setting | (originalSettings & ~mask) *)
NewSettings == [originalSettings EXCEPT ![Shift] = Output]

WriteMode ==
  /\ pc = "write"
  /\ gpioModeReg' = [gpioModeReg EXCEPT ![Offset] = NewSettings]
  /\ IF index = Len(servoList)
     THEN pc' = "busy" /\ UNCHANGED index
     ELSE pc' = "read" /\ index' = index + 1
  /\ UNCHANGED <<servoList, before, originalSettings, clock, pwmVars>>

-----------------------------------------------------------------------------
(* Clock::initClock.                                                       *)

Busy ==
  /\ pc = "busy"
  /\ pc' = IF clock.busy THEN "kill" ELSE "source"
  /\ UNCHANGED <<gpioVars, clock, pwmVars>>

(* Mutations of Kill: the bit that is written is not the one that stops    *)
(* the generator; the loop is left without another look at CLK_CTL_BUSY.   *)
KillNothing ==
  /\ pc = "kill"
  /\ pc' = "busyStill"
  /\ UNCHANGED <<gpioVars, clock, pwmVars>>

KillOnce ==
  /\ pc = "kill"
  /\ clock' = [clock EXCEPT !.enab = FALSE, !.src = 0]
  /\ pc' = "source"
  /\ UNCHANGED <<gpioVars, pwmVars>>

(* The write of CLK_CTL_KILL clears CLK_CTL_ENAB and the source as well. *)
Kill ==
  /\ pc = "kill"
  /\ clock' = [clock EXCEPT !.enab = FALSE, !.src = 0]
  /\ pc' = "busyStill"
  /\ UNCHANGED <<gpioVars, pwmVars>>

BusyStill ==
  /\ pc = "busyStill"
  /\ pc' = IF clock.busy THEN "kill" ELSE "source"
  /\ UNCHANGED <<gpioVars, clock, pwmVars>>

SetSource ==
  /\ pc = "source"
  /\ clock' = [clock EXCEPT !.src = PLLD, !.enab = FALSE]
  /\ pc' = "div"
  /\ UNCHANGED <<gpioVars, pwmVars>>

SetDiv ==
  /\ pc = "div"
  /\ clock' = [clock EXCEPT !.div = CLK_DIVI]
  /\ pc' = "enable"
  /\ UNCHANGED <<gpioVars, pwmVars>>

Enable ==
  /\ pc = "enable"
  /\ clock' = [clock EXCEPT !.enab = TRUE]
  /\ pc' = "reset"
  /\ UNCHANGED <<gpioVars, pwmVars>>

(* The generator catches up with its enable bit. *)
Generator ==
  /\ clock.busy # clock.enab
  /\ clock' = [clock EXCEPT !.busy = clock.enab]
  /\ UNCHANGED <<gpioVars, pc, pwmVars>>

-----------------------------------------------------------------------------
(* PWMHW::initPWM.                                                         *)

ResetPWM ==
  /\ pc = "reset"
  /\ pwm' = [pwm EXCEPT !.on = FALSE]
  /\ pc' = "frequency"
  /\ UNCHANGED <<gpioVars, clock, frequency, rangeSetting>>

(* fscanf stores a number, or leaves rangeSetting as it is: a local        *)
(* variable that nothing has written before.                               *)
ReadFrequency ==
  /\ pc = "frequency"
  /\ rangeSetting' = frequency \/ (MayFail /\ UNCHANGED rangeSetting)
  /\ pc' = "range"
  /\ UNCHANGED <<gpioVars, clock, frequency, pwm>>

(* Mutation of Divider: the clock's divider is forgotten.                  *)
DividerWhole == 1000000
Divider == 5000000

SetRange ==
  /\ pc = "range"
  /\ IF rangeSetting \in Expected
     THEN /\ pwm' = [pwm EXCEPT !.range = rangeSetting \div Divider]
          /\ pc' = "dmaCfg"
     ELSE pc' = "exit" /\ UNCHANGED pwm
  /\ UNCHANGED <<gpioVars, clock, frequency, rangeSetting>>

SetDmaCfg ==
  /\ pc = "dmaCfg"
  /\ pwm' = [pwm EXCEPT !.dmaCfg = TRUE]
  /\ pc' = "clear"
  /\ UNCHANGED <<gpioVars, clock, frequency, rangeSetting>>

ClearFifo ==
  /\ pc = "clear"
  /\ pwm' = [pwm EXCEPT !.clear = TRUE]
  /\ pc' = "on"
  /\ UNCHANGED <<gpioVars, clock, frequency, rangeSetting>>

EnablePWM ==
  /\ pc = "on"
  /\ pwm' = [pwm EXCEPT !.on = TRUE]
  /\ pc' = "done"
  /\ UNCHANGED <<gpioVars, clock, frequency, rangeSetting>>

Over == pc \in {"done", "exit"} /\ UNCHANGED vars

Program ==
  \/ ReadMode \/ WriteMode
  \/ Busy \/ Kill \/ BusyStill \/ SetSource \/ SetDiv \/ Enable
  \/ ResetPWM \/ ReadFrequency \/ SetRange
  \/ SetDmaCfg \/ ClearFifo \/ EnablePWM

Next == Program \/ Generator \/ Over

(* The program is run, and the generator obeys in the end. *)
Spec == Init /\ [][Next]_vars /\ WF_vars(Program) /\ WF_vars(Generator)
-----------------------------------------------------------------------------
TypeOK ==
  /\ gpioModeReg \in [Register -> [Field -> Modes]]
  /\ originalSettings \in [Field -> Modes]
  /\ index \in 1 .. Len(servoList)
  /\ pc \in {"read", "write", "busy", "kill", "busyStill", "source", "div",
             "enable", "reset", "frequency", "range", "dmaCfg", "clear", "on",
             "done", "exit"}
  /\ clock \in [busy : BOOLEAN, enab : BOOLEAN, src : Sources,
                div : {1, CLK_DIVI}]
  /\ pwm.range \in Nat

(* "Setting Servo ID .. GPIO pin .. to be output" (GPIO.cc:47): when the   *)
(* modes are set, the servos' pins are outputs and every other pin has the *)
(* mode it had, also those that share a register with a servo's pin.       *)
OnlyServoPinsSet ==
  pc \notin {"read", "write"} => \A pin \in Pin :
    ModeOf(gpioModeReg, pin) =
      IF \E i \in 1 .. Len(servoList) : servoList[i] = pin
      THEN Output ELSE ModeOf(before, pin)

(* "kill the clock if busy" (Clock.cc:39): but for the kill itself, the    *)
(* generator's source and divider are only written while it makes no       *)
(* clock.                                                                  *)
GlitchFree ==
  [][pc # "kill" /\ (clock'.src # clock.src \/ clock'.div # clock.div)
       => ~clock.busy]_vars

(* "adjust so that the setting will be 1 usec per clock" (PWMHW.cc:51):    *)
(* PLLD, divided first by the clock generator and then by the PWM range,   *)
(* ticks a million times a second, the range being rounded down.  This is  *)
(* so if rangeSetting holds the frequency; PaceBounded is about the rest.  *)
Microseconds ==
  pc = "done" =>
    /\ clock.src = PLLD /\ clock.enab
    /\ pwm.on /\ pwm.dmaCfg
    /\ rangeSetting = frequency =>
         LET rate == frequency \div clock.div
         IN  pwm.range * 1000000 <= rate /\ rate < (pwm.range + 1) * 1000000

(* Tics of so many cycles at so many Hz: half as long again, or 2/3.       *)
WithinHalf(range, rate) == /\ 2 * range * 1000000 <= 3 * rate
                           /\ 2 * rate < 3 * (range + 1) * 1000000

(* "PLLD frequency was not in an expected range" (PWMHW.cc:54) is all that *)
(* is said when fscanf finds no number (PWMHW.cc:47) and leaves garbage in *)
(* rangeSetting.  Garbage that looks like a frequency passes, and no tic   *)
(* is a microsecond; but by no more than half, long or short: for a PLLD   *)
(* in the range of the test the pulses stay within a factor of 3/2 of what *)
(* was asked for (and the unit the range is rounded down by).              *)
PaceBounded ==
  pc = "done" /\ frequency \in Expected =>
    WithinHalf(pwm.range, frequency \div clock.div)

(* The loop of Clock.cc:41-43 has no bound of its own. *)
SetupEnds == <>(pc \in {"done", "exit"})
=============================================================================
