---------------------------- MODULE HardwareProofs ----------------------------
(***************************************************************************)
(* What is proved of the register set-up, for any number of pins and any   *)
(* width of a mode register: which pins become outputs, that the clock is  *)
(* not touched while it runs, and that it ticks once a microsecond.        *)
(***************************************************************************)
EXTENDS HardwareSetup, SequenceTheorems, TLAPS

(* The type invariant in the parts it is proved in. *)
ListTypes == /\ servoList \in Seq(Pin) /\ index \in 1 .. Len(servoList)
             /\ gpioModeReg \in [Register -> [Field -> Modes]]
             /\ originalSettings \in [Field -> Modes]
PcTypes == pc \in {"read", "write", "busy", "kill", "busyStill", "source",
                   "div", "enable", "reset", "frequency", "range", "dmaCfg",
                   "clear", "on", "done", "exit"}
ClockTypes == clock \in [busy : BOOLEAN, enab : BOOLEAN, src : Sources,
                         div : {1, CLK_DIVI}]
PwmTypes == /\ pwm \in [range : Nat, dmaCfg : BOOLEAN, clear : BOOLEAN,
                        on : BOOLEAN]
            /\ rangeSetting \in Nat /\ frequency \in Frequencies
Types == ListTypes /\ PcTypes /\ ClockTypes /\ PwmTypes

(* The pins whose modes have been written. *)
Written ==
  IF pc \in {"read", "write"}
  THEN {servoList[i] : i \in 1 .. index - 1}
  ELSE {servoList[i] : i \in 1 .. Len(servoList)}

ModesInv ==
  \A pin \in Pin : ModeOf(gpioModeReg, pin) =
    IF pin \in Written THEN Output ELSE ModeOf(before, pin)

(* The register in hand is still what the hardware holds. *)
InHandInv == pc = "write" => originalSettings = gpioModeReg[Offset]

-----------------------------------------------------------------------------
(* The bit that enables the generator, and what it does about it: nobody   *)
(* enables it between the look at CLK_CTL_BUSY that finds it idle and the  *)
(* last write of its settings.                                             *)
QuietInv ==
  /\ pc \in {"read", "write", "busy"} => clock.busy = clock.enab
  /\ pc = "busyStill" => ~clock.enab
  /\ pc \in {"source", "div", "enable"} => ~clock.busy /\ ~clock.enab

ClockSet == {"reset", "frequency", "range", "dmaCfg", "clear", "on", "done",
             "exit"}
RangeSet == {"dmaCfg", "clear", "on", "done"}

(* The clock is set up first, then the range; the range comes from what    *)
(* rangeSetting holds, read or not.                                        *)
RateInv ==
  /\ pc \in ClockSet \cup {"div", "enable"} => clock.src = PLLD
  /\ pc \in ClockSet \cup {"enable"} => clock.div = CLK_DIVI
  /\ pc \in ClockSet => clock.enab
  /\ pc \in RangeSet =>
       /\ rangeSetting \in Expected
       /\ pwm.range = rangeSetting \div Divider
  /\ pc \in RangeSet \ {"dmaCfg"} => pwm.dmaCfg
  /\ pc = "done" => pwm.on

-----------------------------------------------------------------------------
(* A pin is given by the register and the field that hold its mode.        *)
LEMMA PinPlace ==
  /\ \A pin \in Pin : /\ pin \div ModesPerRegister \in Register
                      /\ pin % ModesPerRegister \in Field
  /\ \A p, q \in Pin : /\ p \div ModesPerRegister = q \div ModesPerRegister
                        /\ p % ModesPerRegister = q % ModesPerRegister
                        => p = q
<1> DEFINE M == ModesPerRegister
<1>1. M \in Nat \ {0} /\ NumPins \in Nat \ {0}
  BY SetupAssumption DEF SetupAssumption
<1>2. \A p \in Nat : /\ p = M * (p \div M) + (p % M)
                     /\ p \div M \in Nat /\ p % M \in 0 .. M - 1
  BY <1>1, SMT
<1>3. \A p, q \in Nat : p <= q => p \div M <= q \div M
  <2> SUFFICES ASSUME NEW p \in Nat, NEW q \in Nat,
                      p \div M >= q \div M + 1
               PROVE  p > q
    BY <1>2
  <2>1. \A a, b \in Nat : a >= b + 1 => M * a >= M * b + M
    BY <1>1, SMT
  <2>2. M * (p \div M) >= M * (q \div M) + M
    BY <1>2, <2>1
  <2> QED
    BY <1>1, <1>2, <2>2
<1>4. ASSUME NEW p \in Pin
      PROVE  p \div M \in Register /\ p % M \in Field
  <2>1. p \in Nat /\ NumPins - 1 \in Nat /\ p <= NumPins - 1
    BY <1>1 DEF Pin
  <2>2. p \div M \in Nat /\ p % M \in 0 .. M - 1
    BY <1>2, <2>1
  <2>3. p \div M <= (NumPins - 1) \div M /\ (NumPins - 1) \div M \in Nat
    BY <1>2, <1>3, <2>1
  <2> QED
    BY <2>2, <2>3 DEF Register, Field
<1>5. ASSUME NEW p \in Pin, NEW q \in Pin, p \div M = q \div M, p % M = q % M
      PROVE  p = q
  <2>1. p \in Nat /\ q \in Nat
    BY <1>1 DEF Pin
  <2> QED
    BY <1>2, <1>5, <2>1
<1> QED
  BY <1>4, <1>5

LEMMA FirstTypes == Init => Types
<1> SUFFICES ASSUME Init PROVE Types
  OBVIOUS
<1>1. PICK n \in 1 .. MaxServos : servoList \in [1 .. n -> Pin]
  BY DEF Init
<1>2. servoList \in Seq(Pin) /\ Len(servoList) = n
  BY <1>1
<1>3. 0 \in Register
  <2>1. 0 \in Pin
    BY SetupAssumption, SMT DEF SetupAssumption, Pin
  <2>2. 0 \div ModesPerRegister \in Register
    BY <2>1, PinPlace
  <2>3. 0 \div ModesPerRegister = 0
    BY SetupAssumption, SMT DEF SetupAssumption
  <2> QED
    BY <2>2, <2>3
<1>4. ListTypes
  BY <1>2, <1>3 DEF Init, ListTypes
<1>5. ClockTypes /\ PcTypes
  BY DEF Init, ClockTypes, PcTypes
<1>6. pwm \in [range : Nat, dmaCfg : BOOLEAN, clear : BOOLEAN, on : BOOLEAN]
  <2>1. pwm \in [range : {0}, dmaCfg : {FALSE}, clear : {FALSE}, on : BOOLEAN]
    BY DEF Init, Unset
  <2>2. 0 \in Nat /\ FALSE \in BOOLEAN
    OBVIOUS
  <2>3. \A A, B, D, E, F, G, H :
          A \subseteq E /\ B \subseteq F /\ D \subseteq G =>
            [range : A, dmaCfg : B, clear : D, on : H]
              \subseteq [range : E, dmaCfg : F, clear : G, on : H]
    OBVIOUS
  <2> QED
    BY <2>1, <2>2, <2>3, Zenon
<1>7. rangeSetting \in Nat /\ frequency \in Frequencies
  BY SetupAssumption DEF SetupAssumption, Init
<1> QED
  BY <1>4, <1>5, <1>6, <1>7 DEF Types, PwmTypes

LEMMA ListStep ==
  ASSUME ListTypes, [Next]_vars
  PROVE  ListTypes'
<1> USE DEF ListTypes
<1>1. CASE UNCHANGED gpioVars
  BY <1>1 DEF gpioVars
<1>2. servoList[index] \in Pin
  BY ElementOfSeq
<1>3. Offset \in Register /\ Shift \in Field
  BY <1>2, PinPlace DEF Offset, Shift
<1>4. CASE ReadMode
  BY <1>3, <1>4 DEF ReadMode
<1>5. CASE WriteMode
  <2>1. NewSettings \in [Field -> Modes]
    BY SetupAssumption DEF SetupAssumption, NewSettings
  <2>2. gpioModeReg' \in [Register -> [Field -> Modes]]
    BY <1>5, <2>1 DEF WriteMode
  <2>3. index' \in 1 .. Len(servoList)
    BY <1>5 DEF WriteMode
  <2> QED
    BY <1>5, <2>2, <2>3 DEF WriteMode
<1> QED
  BY <1>1, <1>4, <1>5
  DEF Next, Program, Over, Busy, Kill, BusyStill, SetSource, SetDiv, Enable,
      ResetPWM, ReadFrequency, SetRange, SetDmaCfg, ClearFifo, EnablePWM,
      Generator, vars

LEMMA PcStep ==
  ASSUME PcTypes, [Next]_vars
  PROVE  PcTypes'
BY DEF PcTypes, Next, Program, Over, ReadMode, WriteMode, Busy, Kill,
       BusyStill, SetSource, SetDiv, Enable, ResetPWM, ReadFrequency, SetRange,
       SetDmaCfg, ClearFifo, EnablePWM, Generator, vars

LEMMA ClockStep ==
  ASSUME ClockTypes, [Next]_vars
  PROVE  ClockTypes'
<1> USE DEF ClockTypes
<1>1. CASE UNCHANGED clock
  BY <1>1
<1>2. CASE Kill \/ SetSource
  BY <1>2 DEF Kill, SetSource, Sources
<1>3. CASE SetDiv \/ Enable \/ Generator
  BY <1>3 DEF SetDiv, Enable, Generator
<1> QED
  BY <1>1, <1>2, <1>3
  DEF Next, Program, Over, ReadMode, WriteMode, Busy, BusyStill, ResetPWM,
      ReadFrequency, SetRange, SetDmaCfg, ClearFifo, EnablePWM, vars

LEMMA PwmStep ==
  ASSUME PwmTypes, [Next]_vars
  PROVE  PwmTypes'
<1> USE DEF PwmTypes
<1>1. CASE UNCHANGED pwmVars
  BY <1>1 DEF pwmVars
<1>2. CASE ReadFrequency
  BY <1>2, SetupAssumption DEF SetupAssumption, ReadFrequency
<1>3. CASE SetRange
  <2>1. rangeSetting \div Divider \in Nat
    BY SMT DEF Divider
  <2> QED
    BY <1>3, <2>1 DEF SetRange
<1>4. CASE ResetPWM \/ SetDmaCfg \/ ClearFifo \/ EnablePWM
  BY <1>4 DEF ResetPWM, SetDmaCfg, ClearFifo, EnablePWM
<1> QED
  BY <1>1, <1>2, <1>3, <1>4
  DEF Next, Program, Over, ReadMode, WriteMode, Busy, Kill, BusyStill,
      SetSource, SetDiv, Enable, Generator, vars

LEMMA TypesStep == Types /\ [Next]_vars => Types'
BY ListStep, PcStep, ClockStep, PwmStep DEF Types

(* Registers, fields and the index of the servo stay in range, and with    *)
(* them the accesses gpioModeReg[pin / 10] of GPIO.cc.                     *)
THEOREM TypeCorrect == Spec => []TypeOK
<1>1. Types => TypeOK
  BY DEF Types, ListTypes, PcTypes, ClockTypes, PwmTypes, TypeOK
<1> QED
  BY <1>1, FirstTypes, TypesStep, PTL DEF Spec

-----------------------------------------------------------------------------
(* The modes of the pins.                                                  *)

LEMMA FirstModes == Init => ModesInv /\ InHandInv
<1> SUFFICES ASSUME Init PROVE ModesInv /\ InHandInv
  OBVIOUS
<1>1. Written = {}
  BY DEF Init, Written
<1> QED
  BY <1>1 DEF Init, ModesInv, InHandInv

(* Nothing but the constructor of GPIO writes a mode. *)
LEMMA OtherStep ==
  ASSUME [Next]_vars
  PROVE  \/ ReadMode \/ WriteMode
         \/ /\ UNCHANGED gpioVars
            /\ pc \in {"read", "write"} <=> pc' \in {"read", "write"}
            /\ pc = "write" <=> pc' = "write"
BY DEF Next, Program, Over, Busy, Kill, BusyStill, SetSource, SetDiv, Enable,
       ResetPWM, ReadFrequency, SetRange, SetDmaCfg, ClearFifo, EnablePWM,
       Generator, vars

(* A write of a register changes the pin in hand and no other one. *)
LEMMA OnePin ==
  ASSUME Types, Types', InHandInv, WriteMode
  PROVE  /\ servoList[index] \in Pin
         /\ \A pin \in Pin : ModeOf(gpioModeReg', pin) =
              IF pin = servoList[index] THEN Output
                                        ELSE ModeOf(gpioModeReg, pin)
<1> DEFINE R(p) == p \div ModesPerRegister
           F(p) == p % ModesPerRegister
<1>1. ListTypes
  BY DEF Types
<1>2. servoList[index] \in Pin
  BY <1>1, ElementOfSeq DEF ListTypes
<1>3. /\ Offset = R(servoList[index]) /\ Shift = F(servoList[index])
      /\ Offset \in Register /\ Shift \in Field
  BY <1>2, PinPlace DEF Offset, Shift
<1>4. originalSettings = gpioModeReg[Offset]
  BY DEF InHandInv, WriteMode
<1>5. gpioModeReg' = [gpioModeReg EXCEPT ![Offset] =
                        [gpioModeReg[Offset] EXCEPT ![Shift] = Output]]
  BY <1>4 DEF WriteMode, NewSettings
<1>6. gpioModeReg \in [Register -> [Field -> Modes]]
  BY <1>1 DEF ListTypes
<1>7. \A r \in Register, f \in Field : gpioModeReg'[r][f] =
        IF r = Offset /\ f = Shift THEN Output ELSE gpioModeReg[r][f]
  BY <1>3, <1>5, <1>6
<1>8. ASSUME NEW pin \in Pin
      PROVE  ModeOf(gpioModeReg', pin) =
               IF pin = servoList[index] THEN Output
                                         ELSE ModeOf(gpioModeReg, pin)
  <2>1. R(pin) \in Register /\ F(pin) \in Field
    BY PinPlace
  <2>2. R(pin) = Offset /\ F(pin) = Shift <=> pin = servoList[index]
    BY <1>2, <1>3, PinPlace
  <2> QED
    BY <1>7, <2>1, <2>2 DEF ModeOf
<1> QED
  BY <1>2, <1>8

LEMMA WrittenStep ==
  ASSUME Types, WriteMode
  PROVE  Written' = Written \cup {servoList[index]}
<1>1. /\ index \in 1 .. Len(servoList) /\ Len(servoList) \in Nat
      /\ pc = "write" /\ servoList' = servoList
  BY DEF Types, ListTypes, WriteMode
<1>2. Written = {servoList[i] : i \in 1 .. index - 1}
  BY <1>1 DEF Written
<1>3. Written' = {servoList[i] : i \in 1 .. index}
  <2>1. CASE index = Len(servoList)
    BY <1>1, <2>1 DEF WriteMode, Written
  <2>2. CASE index # Len(servoList)
    <3>1. pc' = "read" /\ index' - 1 = index
      BY <1>1, <2>2 DEF WriteMode
    <3> QED
      BY <1>1, <3>1 DEF Written
  <2> QED
    BY <2>1, <2>2
<1>4. 1 .. index = (1 .. index - 1) \cup {index}
  BY <1>1
<1> QED
  BY <1>2, <1>3, <1>4

LEMMA ModesStep ==
  ASSUME Types, Types', ModesInv, InHandInv, [Next]_vars
  PROVE  ModesInv' /\ InHandInv'
<1>1. CASE ReadMode
  <2>1. /\ Written' = Written
        /\ UNCHANGED <<servoList, gpioModeReg, before, index>>
    BY <1>1 DEF ReadMode, Written
  <2>2. originalSettings' = gpioModeReg[Offset]
    BY <1>1 DEF ReadMode
  <2> QED
    BY <2>1, <2>2 DEF ModesInv, InHandInv, Offset
<1>2. CASE WriteMode
  <2>1. pc' # "write" /\ before' = before
    BY <1>2 DEF WriteMode
  <2>2. ModesInv'
    <3> SUFFICES ASSUME NEW pin \in Pin
                 PROVE  ModeOf(gpioModeReg', pin) =
                          IF pin \in Written' THEN Output
                                              ELSE ModeOf(before, pin)
      BY <2>1 DEF ModesInv
    <3>1. ModeOf(gpioModeReg, pin) =
            IF pin \in Written THEN Output ELSE ModeOf(before, pin)
      BY DEF ModesInv
    <3> QED
      BY <1>2, <3>1, OnePin, WrittenStep
  <2> QED
    BY <2>1, <2>2 DEF InHandInv
<1>3. CASE /\ UNCHANGED gpioVars
           /\ pc \in {"read", "write"} <=> pc' \in {"read", "write"}
           /\ pc = "write" <=> pc' = "write"
  <2>1. Written' = Written
    BY <1>3 DEF Written, gpioVars
  <2> QED
    BY <1>3, <2>1 DEF ModesInv, InHandInv, gpioVars, Offset
<1> QED
  BY <1>1, <1>2, <1>3, OtherStep

(* The mask of GPIO.cc takes three bits and no more: whatever servos the   *)
(* file names, the modes of the pins between theirs are left as they were. *)
THEOREM PinsOfServos == Spec => []OnlyServoPinsSet
<1> DEFINE Inv == Types /\ ModesInv /\ InHandInv
<1>1. Init => Inv
  BY FirstTypes, FirstModes
<1>2. Inv /\ [Next]_vars => Inv'
  BY TypesStep, ModesStep
<1>3. Inv => OnlyServoPinsSet
  BY DEF ModesInv, Written, OnlyServoPinsSet
<1> QED
  BY <1>1, <1>2, <1>3, PTL DEF Spec

-----------------------------------------------------------------------------
(* The clock.                                                              *)

LEMMA QuietStep ==
  ASSUME Types, QuietInv, [Next]_vars
  PROVE  QuietInv'
<1>1. clock \in [busy : BOOLEAN, enab : BOOLEAN, src : Sources,
                 div : {1, CLK_DIVI}]
  BY DEF Types, ClockTypes
<1>2. CASE UNCHANGED <<pc, clock>>
  BY <1>2 DEF QuietInv
<1>3. CASE ReadMode \/ WriteMode
  BY <1>3 DEF QuietInv, ReadMode, WriteMode
<1>4. CASE Busy \/ BusyStill
  BY <1>1, <1>4 DEF QuietInv, Busy, BusyStill
<1>5. CASE Kill \/ SetSource \/ SetDiv
  BY <1>1, <1>5 DEF QuietInv, Kill, SetSource, SetDiv
<1>6. CASE Enable
  BY <1>6 DEF QuietInv, Enable
<1>7. CASE Generator
  BY <1>1, <1>7 DEF QuietInv, Generator
<1>8. CASE ResetPWM \/ ReadFrequency \/ SetRange
  BY <1>8 DEF QuietInv, ResetPWM, ReadFrequency, SetRange
<1>9. CASE SetDmaCfg \/ ClearFifo \/ EnablePWM
  BY <1>9 DEF QuietInv, SetDmaCfg, ClearFifo, EnablePWM
<1> QED
  BY <1>2, <1>3, <1>4, <1>5, <1>6, <1>7, <1>8, <1>9
  DEF Next, Program, Over, vars

(* initClock looks at CLK_CTL_BUSY until it finds the generator idle, and  *)
(* nothing starts it again before its source and divider are written.      *)
THEOREM ClockSetWhileIdle == Spec => GlitchFree
<1> DEFINE Inv == Types /\ QuietInv
<1>1. Init => Inv
  <2>1. Init => QuietInv
    BY DEF Init, QuietInv
  <2> QED
    BY <2>1, FirstTypes
<1>2. Inv /\ [Next]_vars => Inv'
  BY TypesStep, QuietStep
<1>3. ASSUME Inv, [Next]_vars
      PROVE  [pc # "kill" /\ (clock'.src # clock.src \/ clock'.div # clock.div)
                => ~clock.busy]_vars
  <2>1. CASE pc \in {"source", "div"}
    BY <1>3, <2>1 DEF QuietInv
  <2>2. clock \in [busy : BOOLEAN, enab : BOOLEAN, src : Sources,
                   div : {1, CLK_DIVI}]
    BY <1>3 DEF Types, ClockTypes
  <2>3. CASE Enable \/ Generator
    BY <2>2, <2>3 DEF Enable, Generator
  <2>4. CASE pc = "kill" \/ UNCHANGED clock
    BY <2>4
  <2> QED
    BY <1>3, <2>1, <2>3, <2>4
    DEF Next, Program, Over, ReadMode, WriteMode, Busy, Kill, BusyStill,
        SetSource, SetDiv, ResetPWM, ReadFrequency, SetRange, SetDmaCfg,
        ClearFifo, EnablePWM, vars
<1>4. Inv /\ [Next]_vars =>
        [pc # "kill" /\ (clock'.src # clock.src \/ clock'.div # clock.div)
           => ~clock.busy]_vars
  BY <1>3
<1> QED
  BY <1>1, <1>2, <1>4, PTL DEF Spec, GlitchFree

-----------------------------------------------------------------------------
(* The pace.                                                               *)

(* The two divisions: by CLK_DIVI in the generator, by what the PWM counts *)
(* up to in PWMHW.                                                         *)
LEMMA TwoDivisions ==
  ASSUME NEW f \in Nat
  PROVE  /\ (f \div Divider) * 1000000 <= f \div CLK_DIVI
         /\ f \div CLK_DIVI < (f \div Divider + 1) * 1000000
BY SMT DEF Divider, CLK_DIVI

LEMMA RateStep ==
  ASSUME Types, RateInv, [Next]_vars
  PROVE  RateInv'
<1> USE DEF RateInv, ClockSet, RangeSet
<1>1. /\ clock \in [busy : BOOLEAN, enab : BOOLEAN, src : Sources,
                    div : {1, CLK_DIVI}]
      /\ pwm \in [range : Nat, dmaCfg : BOOLEAN, clear : BOOLEAN,
                  on : BOOLEAN]
  BY DEF Types, ClockTypes, PwmTypes
<1>2. CASE UNCHANGED <<pc, clock, pwmVars>>
  BY <1>2 DEF pwmVars
<1>3. CASE ReadMode \/ WriteMode
  BY <1>3 DEF ReadMode, WriteMode, pwmVars
<1>4. CASE Busy \/ BusyStill
  BY <1>4 DEF Busy, BusyStill, pwmVars
<1>5. CASE Kill
  BY <1>5 DEF Kill, pwmVars
<1>6. CASE SetSource \/ SetDiv \/ Enable
  BY <1>1, <1>6 DEF SetSource, SetDiv, Enable, pwmVars
<1>7. CASE Generator
  BY <1>1, <1>7 DEF Generator, pwmVars
<1>8. CASE ResetPWM
  BY <1>8 DEF ResetPWM
<1>9. CASE ReadFrequency
  BY <1>9 DEF ReadFrequency
<1>10. CASE SetRange
  <2>1. /\ pc = "range" /\ pc' \in {"dmaCfg", "exit"}
        /\ UNCHANGED <<clock, frequency, rangeSetting>>
    BY <1>10 DEF SetRange
  <2>2. pc' = "dmaCfg" =>
          /\ rangeSetting \in Expected
          /\ pwm' = [pwm EXCEPT !.range = rangeSetting \div Divider]
    BY <1>10 DEF SetRange
  <2>3. pc' = "dmaCfg" => pwm'.range = rangeSetting \div Divider
    BY <1>1, <2>2
  <2> QED
    BY <2>1, <2>2, <2>3
<1>11. CASE SetDmaCfg \/ ClearFifo \/ EnablePWM
  BY <1>1, <1>11 DEF SetDmaCfg, ClearFifo, EnablePWM
<1> QED
  BY <1>2, <1>3, <1>4, <1>5, <1>6, <1>7, <1>8, <1>9, <1>10, <1>11
  DEF Next, Program, Over, vars

LEMMA Rate == Spec => [](Types /\ RateInv)
<1>1. Init => RateInv
  BY DEF Init, RateInv, ClockSet, RangeSet
<1> QED
  BY <1>1, FirstTypes, TypesStep, RateStep, PTL DEF Spec

(* What the two constructors leave when they are done. *)
LEMMA RateSet ==
  ASSUME Types, RateInv, pc = "done"
  PROVE  /\ clock.src = PLLD /\ clock.enab /\ clock.div = CLK_DIVI
         /\ pwm.on /\ pwm.dmaCfg
         /\ rangeSetting \in Expected /\ pwm.range = rangeSetting \div Divider
         /\ frequency \in Nat
<1>1. frequency \in Nat
  BY SetupAssumption DEF SetupAssumption, Types, PwmTypes
<1> QED
  BY <1>1 DEF RateInv, ClockSet, RangeSet

(* The tics that every width is counted in last a microsecond, for every   *)
(* frequency of PLLD that SetRange accepts, once it has been read.         *)
THEOREM TicsAreMicroseconds == Spec => []Microseconds
<1>1. ASSUME Types, RateInv PROVE Microseconds
  <2> SUFFICES ASSUME pc = "done" PROVE Microseconds
    BY DEF Microseconds
  <2> QED
    BY <1>1, RateSet, TwoDivisions DEF Microseconds
<1> QED
  BY <1>1, Rate, PTL

LEMMA RangesNearRates ==
  ASSUME NEW f \in Expected, NEW s \in Expected
  PROVE  WithinHalf(s \div Divider, f \div CLK_DIVI)
<1>1. MinPLLD \in Nat /\ MaxPLLD \in Nat
  BY SMT DEF MinPLLD, MaxPLLD
<1>2. /\ f \in Nat /\ f >= MinPLLD /\ f <= MaxPLLD
      /\ s \in Nat /\ s >= MinPLLD /\ s <= MaxPLLD
  BY <1>1 DEF Expected
<1>3. f \div CLK_DIVI \in Nat /\ s \div Divider \in Nat
  BY <1>2, SMT DEF CLK_DIVI, Divider
<1>4. f \div CLK_DIVI >= 100000000 /\ f \div CLK_DIVI <= 150200000
  BY <1>2, SMT DEF CLK_DIVI, MinPLLD, MaxPLLD
<1>5. s \div Divider >= 100 /\ s \div Divider <= 150
  BY <1>2, SMT DEF Divider, MinPLLD, MaxPLLD
<1>6. ASSUME NEW r \in Nat, NEW q \in Nat,
             r >= 100000000, r <= 150200000, q >= 100, q <= 150
      PROVE  WithinHalf(q, r)
  BY <1>6, SMT DEF WithinHalf
<1> QED
  BY <1>3, <1>4, <1>5, <1>6, SMT

(* A number that was never read, whatever it is, makes no tic longer or    *)
(* shorter than the limits of the range test allow: by half, at most.      *)
THEOREM PaceIsBounded == Spec => []PaceBounded
<1>1. ASSUME Types, RateInv PROVE PaceBounded
  <2> SUFFICES ASSUME pc = "done", frequency \in Expected
               PROVE  WithinHalf(pwm.range, frequency \div clock.div)
    BY Zenon DEF PaceBounded
  <2> QED
    BY <1>1, RateSet, RangesNearRates, Zenon
<1> QED
  BY <1>1, Rate, PTL
=============================================================================
