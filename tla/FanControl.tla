------------------------------ MODULE FanControl ------------------------------
(***************************************************************************)
(* The fan controller of the Wi-Fi sensor node: the main loop, esp_event() *)
(* and the TIM3 interrupt of src/STM32_WiFi/Core/Src/main.c, and           *)
(* median3_float() of src/Headers/headers.h.                               *)
(*                                                                         *)
(* Once a second the loop lets manual mode run out, every fifth second it  *)
(* samples the dust sensor, smooths the sample and, in monitoring mode,    *)
(* sets the fan by a rule with hysteresis.  A FAN message sets the fan     *)
(* directly and starts manual mode.  The interrupt ticks at any moment; a  *)
(* loop that blocks longer than a second sees several ticks as one.        *)
(*                                                                         *)
(* Densities are whole micrograms: the floats of the code, rounded down.   *)
(***************************************************************************)
EXTENDS Integers

CONSTANTS
  Readings,       \* densities that a sample may show (particle_density_z)
  Commands,       \* values v that a message [FAN:<from>]v may carry
  MANUAL_SECONDS, \* 60: loop passes, one a second, that manual mode lasts
  SAMPLE_PERIOD   \* 5: seconds from one sample to the next

ASSUME ReadingsAssumption == Readings \subseteq Nat
ASSUME CommandsAssumption == Commands \subseteq 0 .. 65535
ASSUME PeriodsAssumption ==
  /\ MANUAL_SECONDS \in Nat \ {0}
  /\ SAMPLE_PERIOD \in Nat \ {0}

VARIABLES
  loop,          \* where the main loop is
  e_mode,        \* E_MONITORING or E_MANUAL
  fan_monitoring_switch_flag, \* passes manual mode has lasted, 0 outside it
  fan_flag,      \* the rule's state: 1 full, 0 half, -1 off
  pwm,           \* the compare register, percent
  auto_speed,    \* the rule was the last to set pwm (history)
  x, y,          \* particle_density_x and _y: the two last samples
  ptcl,          \* sensor_data.ptcl and particle_density_w: last output
  tim3Flag1Sec,  \* a second has passed
  tim3Sec        \* seconds, modulo SAMPLE_PERIOD

timer == <<tim3Flag1Sec, tim3Sec>>
mode == <<e_mode, fan_monitoring_switch_flag>>
fan == <<fan_flag, pwm, auto_speed>>
filter == <<x, y, ptcl>>
vars == <<loop, timer, mode, fan, filter>>

-----------------------------------------------------------------------------
(* Helpers. *)

Lower(a, b) == IF a < b THEN a ELSE b
Higher(a, b) == IF a > b THEN a ELSE b

\* Mutant: the third exchange of median3_float is left out.
MedianOfTwoExchanges(a, b, c) == Lower(Higher(a, b), c)

\* median3_float: three conditional exchanges.
Median3(a, b, c) == Higher(Lower(a, b), Lower(Higher(a, b), c))

\* 0.65 of the median and 0.35 of the last output.
Smooth(m, w) == (65 * m + 35 * w) \div 100

\* Mutant: the clamp is left out.
PercentUnclamped(v) == v % 256

\* fan_pwm_set_percent: its parameter is an 8-bit number, then clamped.
Percent(v) == Lower(v % 256, 100)

FullAbove == 115
HalfAt == 100
OffBelow == 85

\* A branch of the rule enters a state in fan_flag and sets a speed.
Set(flag, v) == [flag |-> flag, pwm |-> Percent(v)]

\* Mutant: the fan is entered as off and not switched off.
FirstTestFlagOnly(f, p) ==
  IF f.flag < 1 /\ p > FullAbove THEN Set(1, 100)
  ELSE IF f.flag > -1 /\ p < OffBelow THEN [f EXCEPT !.flag = -1]
  ELSE f

\* The rule: two tests, the second on the state that the first has left.
FirstTest(f, p) ==
  IF f.flag < 1 /\ p > FullAbove THEN Set(1, 100)
  ELSE IF f.flag > -1 /\ p < OffBelow THEN Set(-1, 0)
  ELSE f
SecondTest(f, p) ==
  IF f.flag = 1 /\ p < HalfAt THEN Set(0, 50)
  ELSE IF f.flag = -1 /\ p > HalfAt THEN Set(0, 50)
  ELSE f
Rule(f, p) == SecondTest(FirstTest(f, p), p)

-----------------------------------------------------------------------------
\* TIM3: every thousandth millisecond.
Tick ==
  /\ tim3Flag1Sec' = 1
  /\ tim3Sec' = (tim3Sec + 1) % SAMPLE_PERIOD
  /\ UNCHANGED <<loop, mode, fan, filter>>

\* Mutant: the timer of manual mode is not started.
FanCommandUntimed ==
  /\ loop = "top"
  /\ e_mode' = "MANUAL"
  /\ \E v \in Commands : pwm' = Percent(v)
  /\ auto_speed' = FALSE
  /\ loop' = "second"
  /\ UNCHANGED <<timer, fan_monitoring_switch_flag, fan_flag, filter>>

\* esp_event of [FAN:<from>]v.
FanCommand ==
  /\ loop = "top"
  /\ e_mode' = "MANUAL"
  /\ fan_monitoring_switch_flag' = 1
  /\ \E v \in Commands : pwm' = Percent(v)
  /\ auto_speed' = FALSE
  /\ loop' = "second"
  /\ UNCHANGED <<timer, fan_flag, filter>>

\* No message, or one that esp_event only answers.
NoCommand ==
  /\ loop = "top"
  /\ loop' = "second"
  /\ UNCHANGED <<timer, mode, fan, filter>>

\* The flag is taken down first; polling the ESP (every tenth second) follows.
Second ==
  /\ loop = "second"
  /\ tim3Flag1Sec' = 0
  /\ loop' = IF tim3Flag1Sec = 1 THEN "manual" ELSE "top"
  /\ UNCHANGED <<tim3Sec, mode, fan, filter>>

\* Mutant: the mode is not set back when the timer ends.
ManualPassKeepsMode ==
  /\ loop = "manual"
  /\ fan_monitoring_switch_flag' =
       IF e_mode = "MANUAL" /\ fan_monitoring_switch_flag > 0
       THEN (fan_monitoring_switch_flag + 1) % (MANUAL_SECONDS + 1)
       ELSE fan_monitoring_switch_flag
  /\ loop' = "sample"
  /\ UNCHANGED <<timer, e_mode, fan, filter>>

\* Manual mode lasts MANUAL_SECONDS passes.
ManualPass ==
  /\ loop = "manual"
  /\ IF e_mode = "MANUAL" /\ fan_monitoring_switch_flag > 0
     THEN IF fan_monitoring_switch_flag + 1 > MANUAL_SECONDS
          THEN /\ e_mode' = "MONITORING"
               /\ fan_monitoring_switch_flag' = 0
          ELSE /\ fan_monitoring_switch_flag' = fan_monitoring_switch_flag + 1
               /\ UNCHANGED e_mode
     ELSE UNCHANGED mode
  /\ loop' = "sample"
  /\ UNCHANGED <<timer, fan, filter>>

\* Is this the last second of the period?  tim3Sec is read only now.
SampleLater ==
  /\ loop = "sample" /\ tim3Sec # SAMPLE_PERIOD - 1
  /\ loop' = "top"
  /\ UNCHANGED <<timer, mode, fan, filter>>

\* The dust sensor is read and filtered in any case; the message to the server
\* and the rule follow only if the DHT11 has answered, with no zero in it.
Sample ==
  /\ loop = "sample" /\ tim3Sec = SAMPLE_PERIOD - 1
  /\ \E z \in Readings :
       LET y0 == IF y = 0 THEN z ELSE y
       IN  /\ ptcl' = Smooth(Median3(x, y0, z), ptcl)
           /\ x' = y0
           /\ y' = z
  /\ \E dht_ok \in BOOLEAN : loop' = IF dht_ok THEN "decide" ELSE "top"
  /\ UNCHANGED <<timer, mode, fan>>

\* Once the message is sent: the rule, in monitoring mode.
Decide ==
  /\ loop = "decide"
  /\ IF e_mode = "MONITORING"
     THEN LET f == Rule([flag |-> fan_flag, pwm |-> pwm], ptcl)
          IN  /\ fan_flag' = f.flag
              /\ pwm' = f.pwm
              /\ auto_speed' = (auto_speed \/ f.flag # fan_flag)
     ELSE UNCHANGED fan
  /\ loop' = "top"
  /\ UNCHANGED <<timer, mode, filter>>

Main ==
  \/ FanCommand \/ NoCommand \/ Second \/ ManualPass \/ SampleLater \/ Sample
  \/ Decide

\* MX_TIM2_Init sets the pulse to 59; the first pass finds the flag up.
Init ==
  /\ loop = "top"
  /\ e_mode = "MONITORING" /\ fan_monitoring_switch_flag = 0
  /\ fan_flag = 0 /\ pwm = 59 /\ auto_speed = FALSE
  /\ x = 0 /\ y = 0 /\ ptcl = 0
  /\ tim3Flag1Sec = 1 /\ tim3Sec = 0

Next == Tick \/ Main

Spec == Init /\ [][Next]_vars

\* The timer never stops, and no call of the loop blocks for ever: each has a
\* time limit but the bit loops of dht11_Read, taken here to end.
LiveSpec == Spec /\ WF_vars(Tick) /\ WF_vars(Main)

-----------------------------------------------------------------------------
(* Properties. *)

\* Every variable has its type; the compare register holds a percentage,
\* whatever number a message carried.
TypeOK ==
  /\ loop \in {"top", "second", "manual", "sample", "decide"}
  /\ e_mode \in {"MONITORING", "MANUAL"}
  /\ fan_monitoring_switch_flag \in 0 .. MANUAL_SECONDS
  /\ fan_flag \in {-1, 0, 1}
  /\ pwm \in 0 .. 100
  /\ auto_speed \in BOOLEAN
  /\ x \in Nat /\ y \in Nat /\ ptcl \in Nat
  /\ tim3Flag1Sec \in {0, 1}
  /\ tim3Sec \in 0 .. SAMPLE_PERIOD - 1

\* Manual mode always has its timer running, and monitoring mode never has:
\* no sequence of commands and time-outs leaves the fan in a manual mode that
\* does not run out.
ManualIsTimed == e_mode = "MANUAL" <=> fan_monitoring_switch_flag # 0

\* The states of the rule, and the speeds, that a density allows.
InBand(flag, p) ==
  /\ p > FullAbove => flag = 1
  /\ p > HalfAt => flag >= 0
  /\ p < HalfAt => flag <= 0
  /\ p < OffBelow => flag = -1
SpeedInBand(v, p) ==
  /\ p > FullAbove => v = 100
  /\ p > HalfAt => v >= 50
  /\ p < HalfAt => v <= 50
  /\ p < OffBelow => v = 0

\* Wherever a sequence of densities, commands and time-outs has left fan_flag,
\* one run of the rule brings it to the band of the present density; and the
\* fan runs at a speed of that band unless a command has set it since the rule
\* last did, however long ago that was and whichever branch it was.
RuleFollowsDensity ==
  [][Decide /\ e_mode = "MONITORING" =>
       /\ InBand(fan_flag', ptcl)
       /\ auto_speed' => SpeedInBand(pwm', ptcl)]_vars

\* One sample out of line does not move the output out of the range of the
\* output and the two samples before it.  (After a zero sample it may: the
\* filter then takes the new sample twice.)
OutlierRejected ==
  [][Sample /\ y # 0 =>
       /\ ptcl' <= Higher(ptcl, Higher(x, y))
       /\ ptcl' >= Lower(ptcl, Lower(x, y))]_vars

\* Unless commands keep coming, manual mode gives way to monitoring mode.
ManualEnds ==
  \/ []<><<FanCommand>>_vars
  \/ e_mode = "MANUAL" ~> e_mode = "MONITORING"

\* The README's automatic mode: above the threshold the fan is on.
FanOnAboveThreshold ==
  [][Decide /\ e_mode = "MONITORING" /\ ptcl > FullAbove => pwm' > 0]_vars

==============================================================================
