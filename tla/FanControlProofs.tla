--------------------------- MODULE FanControlProofs ---------------------------
(***************************************************************************)
(* Proofs about FanControl, for every set of readings and commands and     *)
(* every pair of periods.                                                  *)
(***************************************************************************)
EXTENDS FanControl, TLAPS

-----------------------------------------------------------------------------
(* The pure functions. *)

\* m is one of the three and lies between any two of them.
IsMedian(m, a, b, c) ==
  /\ m \in {a, b, c}
  /\ m <= Higher(a, b) /\ m <= Higher(a, c) /\ m <= Higher(b, c)
  /\ m >= Lower(a, b) /\ m >= Lower(a, c) /\ m >= Lower(b, c)

\* The three exchanges of median3_float yield the median, ties included.
THEOREM MedianCorrect ==
  ASSUME NEW a \in Int, NEW b \in Int, NEW c \in Int
  PROVE  IsMedian(Median3(a, b, c), a, b, c)
BY DEF IsMedian, Median3, Lower, Higher

\* The weighted mean lies between its arguments.
LEMMA SmoothBetween ==
  ASSUME NEW m \in Nat, NEW w \in Nat
  PROVE  /\ Smooth(m, w) \in Nat
         /\ Smooth(m, w) <= Higher(m, w)
         /\ Smooth(m, w) >= Lower(m, w)
BY DEF Smooth, Higher, Lower

\* Whatever number a message carries, the compare register gets a percentage.
LEMMA PercentType == ASSUME NEW v \in Int PROVE Percent(v) \in 0 .. 100
BY DEF Percent, Lower

\* The rule's states, and the speed that goes with each.
States == {-1, 0, 1}
Speed(flag) == CASE flag = 1 -> 100 [] flag = 0 -> 50 [] flag = -1 -> 0

\* A pair of a state and a speed, and those that belong together.
Fans == [flag : States, pwm : 0 .. 100]
Agrees(f) == f.pwm = Speed(f.flag)

\* Whatever branches one run of the rule takes, it changes nothing, or it ends
\* with a state and a speed that belong together.
LEMMA RuleAgrees ==
  ASSUME NEW f \in Fans, NEW p \in Nat
  PROVE  /\ Rule(f, p) \in Fans
         /\ Rule(f, p) = f \/ (Agrees(Rule(f, p)) /\ Rule(f, p).flag # f.flag)
<1>1. /\ Set(1, 100) = [flag |-> 1, pwm |-> 100]
      /\ Set(0, 50) = [flag |-> 0, pwm |-> 50]
      /\ Set(-1, 0) = [flag |-> -1, pwm |-> 0]
  BY DEF Set, Percent, Lower
<1>2. /\ Set(1, 100) \in Fans /\ Agrees(Set(1, 100))
      /\ Set(0, 50) \in Fans /\ Agrees(Set(0, 50))
      /\ Set(-1, 0) \in Fans /\ Agrees(Set(-1, 0))
  BY <1>1 DEF Fans, States, Agrees, Speed
<1>3. /\ Set(1, 100).flag = 1 /\ Set(0, 50).flag = 0 /\ Set(-1, 0).flag = -1
  BY <1>1
<1>4. f.flag \in States
  BY DEF Fans
<1> DEFINE g == FirstTest(f, p)
<1>5. \/ g = Set(1, 100) /\ f.flag < 1 /\ p > FullAbove
      \/ g = Set(-1, 0) /\ f.flag > -1 /\ p < OffBelow
      \/ g = f
  BY DEF FirstTest
<1>6. Rule(f, p) = SecondTest(g, p)
  BY DEF Rule
<1> HIDE DEF g
<1>7. CASE g = f
  <2>1. \/ Rule(f, p) = Set(0, 50) /\ f.flag \in {1, -1}
        \/ Rule(f, p) = f
    BY <1>6, <1>7 DEF SecondTest
  <2>2. QED
    BY <2>1, <1>2, <1>3
<1>8. CASE g # f
  <2>1. SecondTest(g, p) = g
    BY <1>3, <1>5, <1>8 DEF SecondTest, FullAbove, HalfAt, OffBelow
  <2>2. g.flag # f.flag
    BY <1>3, <1>4, <1>5, <1>8 DEF States
  <2>3. QED
    BY <2>1, <2>2, <1>2, <1>5, <1>6, <1>8
<1>9. QED
  BY <1>7, <1>8

\* The state of the rule after one run, as a function of the state before.
LEMMA RuleFlag ==
  ASSUME NEW f \in Fans, NEW p \in Nat
  PROVE  Rule(f, p).flag =
           IF p > FullAbove THEN 1
           ELSE IF p < OffBelow THEN -1
           ELSE IF (f.flag = 1 /\ p < HalfAt) \/ (f.flag = -1 /\ p > HalfAt)
                THEN 0 ELSE f.flag
<1>1. /\ Set(1, 100).flag = 1 /\ Set(0, 50).flag = 0 /\ Set(-1, 0).flag = -1
  BY DEF Set
<1>2. f.flag \in {-1, 0, 1}
  BY DEF Fans, States
<1>3. CASE p > FullAbove
  <2>1. FirstTest(f, p).flag = 1
    BY <1>1, <1>2, <1>3 DEF FirstTest, FullAbove, OffBelow
  <2>2. Rule(f, p).flag = 1
    BY <1>3, <2>1 DEF Rule, SecondTest, FullAbove, HalfAt
  <2>3. QED
    BY <1>3, <2>2 DEF FullAbove, OffBelow
<1>4. CASE p < OffBelow
  <2>1. FirstTest(f, p).flag = -1
    BY <1>1, <1>2, <1>4 DEF FirstTest, FullAbove, OffBelow
  <2>2. Rule(f, p).flag = -1
    BY <1>4, <2>1 DEF Rule, SecondTest, OffBelow, HalfAt
  <2>3. QED
    BY <1>4, <2>2 DEF FullAbove, OffBelow
<1>5. CASE p \in OffBelow .. FullAbove
  <2>1. FirstTest(f, p) = f
    BY <1>5 DEF FirstTest, FullAbove, OffBelow
  <2>2. Rule(f, p) = SecondTest(f, p)
    BY <2>1 DEF Rule
  <2>3. Rule(f, p).flag =
          IF (f.flag = 1 /\ p < HalfAt) \/ (f.flag = -1 /\ p > HalfAt)
          THEN 0 ELSE f.flag
    BY <1>1, <2>2 DEF SecondTest
  <2>4. QED
    BY <1>5, <2>3 DEF FullAbove, OffBelow
<1>6. QED
  BY <1>3, <1>4, <1>5 DEF FullAbove, OffBelow

\* From every state one run of the rule reaches the band of the density; a state
\* of the band goes with a speed of the band.
LEMMA RuleInBand ==
  ASSUME NEW f \in Fans, NEW p \in Nat
  PROVE  InBand(Rule(f, p).flag, p)
<1> DEFINE flag == Rule(f, p).flag
<1>1. f.flag \in {-1, 0, 1}
  BY DEF Fans, States
<1>2. flag = IF p > FullAbove THEN 1
             ELSE IF p < OffBelow THEN -1
             ELSE IF (f.flag = 1 /\ p < HalfAt) \/ (f.flag = -1 /\ p > HalfAt)
                  THEN 0 ELSE f.flag
  BY RuleFlag
<1> HIDE DEF flag
<1>3. InBand(flag, p)
  BY <1>1, <1>2 DEF InBand, FullAbove, HalfAt, OffBelow
<1>4. QED
  BY <1>3 DEF flag

LEMMA BandSpeed ==
  ASSUME NEW flag \in States, NEW p \in Nat, InBand(flag, p)
  PROVE  SpeedInBand(Speed(flag), p)
BY DEF States, InBand, SpeedInBand, Speed, FullAbove, HalfAt, OffBelow

\* The rule is settled after one run: run again on the same density, as when the
\* sensor shows no change, it leaves the fan alone.
THEOREM RuleIsSettled ==
  ASSUME NEW f \in Fans, NEW p \in Nat
  PROVE  Rule(Rule(f, p), p) = Rule(f, p)
<1> DEFINE g == Rule(f, p)
<1>1. g \in Fans /\ Rule(g, p) \in Fans
      /\ (Rule(g, p) = g \/ Rule(g, p).flag # g.flag)
  BY RuleAgrees
<1>2. f.flag \in {-1, 0, 1} /\ g.flag \in {-1, 0, 1}
  BY <1>1 DEF Fans, States
<1>3. Rule(g, p).flag = g.flag
  BY <1>1, <1>2, RuleFlag DEF FullAbove, HalfAt, OffBelow
<1>4. QED
  BY <1>1, <1>3

\* The rule has hysteresis: it takes back a change of the fan, in either
\* direction, only when the density has moved back by more than 15 micrograms,
\* which also holds where one run passes over half speed.
THEOREM RuleHasHysteresis ==
  ASSUME NEW f \in Fans, NEW p \in Nat, NEW q \in Nat,
         NEW first, first = Rule(f, p), NEW second, second = Rule(first, q)
  PROVE  /\ first.flag > f.flag /\ second.flag < first.flag => p - q > 15
         /\ first.flag < f.flag /\ second.flag > first.flag => q - p > 15
<1>1. first \in Fans
  BY RuleAgrees
<1>2. f.flag \in {-1, 0, 1} /\ first.flag \in {-1, 0, 1}
  BY <1>1 DEF Fans, States
<1>3. /\ first.flag > f.flag =>
           (first.flag = 1 /\ p > FullAbove) \/ (first.flag = 0 /\ p > HalfAt)
      /\ first.flag < f.flag =>
           (first.flag = 0 /\ p < HalfAt) \/ (first.flag = -1 /\ p < OffBelow)
  BY <1>2, RuleFlag DEF FullAbove, HalfAt, OffBelow
<1>4. /\ second.flag < first.flag =>
           (first.flag = 1 /\ q < HalfAt) \/ (first.flag = 0 /\ q < OffBelow)
      /\ second.flag > first.flag =>
           (first.flag = 0 /\ q > FullAbove) \/ (first.flag = -1 /\ q > HalfAt)
  BY <1>1, <1>2, RuleFlag DEF FullAbove, HalfAt, OffBelow
<1>5. QED
  BY <1>3, <1>4 DEF FullAbove, HalfAt, OffBelow

-----------------------------------------------------------------------------
(* Type correctness, the timer of manual mode and the speed of the rule. *)

\* While no command has come after the rule's last change, the fan runs at the
\* speed that goes with fan_flag.
AutoSpeedAgrees == auto_speed => pwm = Speed(fan_flag)

Inv == TypeOK /\ ManualIsTimed /\ AutoSpeedAgrees

LEMMA InvInit == Init => Inv
<1> SUFFICES ASSUME Init PROVE Inv
  OBVIOUS
<1>1. auto_speed \in BOOLEAN /\ ~auto_speed
  BY DEF Init
<1>2. fan_monitoring_switch_flag \in 0 .. MANUAL_SECONDS
      /\ tim3Sec \in 0 .. SAMPLE_PERIOD - 1
  BY PeriodsAssumption DEF Init
<1>3. ManualIsTimed /\ fan_flag \in {-1, 0, 1} /\ pwm \in 0 .. 100
  BY DEF Init, ManualIsTimed
<1>4. QED
  BY <1>1, <1>2, <1>3 DEF Init, Inv, TypeOK, AutoSpeedAgrees

LEMMA InvTick == Inv /\ Tick => Inv'
BY PeriodsAssumption
DEF Inv, TypeOK, ManualIsTimed, AutoSpeedAgrees, Tick, mode, fan, filter

LEMMA InvCommand == Inv /\ FanCommand => Inv'
<1> SUFFICES ASSUME Inv, FanCommand PROVE Inv'
  OBVIOUS
<1>1. pwm' \in 0 .. 100
  <2>1. PICK v \in Commands : pwm' = Percent(v)
    BY DEF FanCommand
  <2>2. v \in Int
    BY CommandsAssumption
  <2>3. QED
    BY <2>1, <2>2, PercentType
<1>2. auto_speed' \in BOOLEAN /\ ~auto_speed'
  BY DEF FanCommand
<1>3. fan_monitoring_switch_flag' \in 0 .. MANUAL_SECONDS /\ ManualIsTimed'
  BY PeriodsAssumption DEF FanCommand, ManualIsTimed
<1>4. QED
  BY <1>1, <1>2, <1>3
  DEF Inv, TypeOK, AutoSpeedAgrees, FanCommand, timer, filter

LEMMA InvPass ==
  Inv /\ (NoCommand \/ Second \/ ManualPass \/ SampleLater) => Inv'
BY PeriodsAssumption
DEF Inv, TypeOK, ManualIsTimed, AutoSpeedAgrees, NoCommand, Second,
    ManualPass, SampleLater, timer, mode, fan, filter

LEMMA MedianType ==
  ASSUME NEW a \in Nat, NEW b \in Nat, NEW c \in Nat
  PROVE  Median3(a, b, c) \in Nat
BY DEF Median3, Lower, Higher

LEMMA InvSample == Inv /\ Sample => Inv'
<1> SUFFICES ASSUME Inv, Sample PROVE Inv'
  OBVIOUS
<1>1. PICK z \in Readings :
        /\ ptcl' = Smooth(Median3(x, IF y = 0 THEN z ELSE y, z), ptcl)
        /\ x' = IF y = 0 THEN z ELSE y
        /\ y' = z
  BY DEF Sample
<1>2. x' \in Nat /\ y' \in Nat /\ ptcl' \in Nat
  BY <1>1, ReadingsAssumption, MedianType, SmoothBetween DEF Inv, TypeOK
<1>3. QED
  BY <1>2
  DEF Inv, TypeOK, ManualIsTimed, AutoSpeedAgrees, Sample, timer, mode, fan

LEMMA InvDecide == Inv /\ Decide => Inv'
<1> SUFFICES ASSUME Inv, Decide PROVE Inv'
  OBVIOUS
<1> DEFINE f == [flag |-> fan_flag, pwm |-> pwm]
           g == Rule(f, ptcl)
<1>1. f \in Fans /\ ptcl \in Nat
  BY DEF Inv, TypeOK, Fans, States
<1>2. g \in Fans /\ (g = f \/ (Agrees(g) /\ g.flag # f.flag))
  BY <1>1, RuleAgrees
<1> HIDE DEF g
<1>3. g.flag \in {-1, 0, 1} /\ g.pwm \in 0 .. 100
  BY <1>2 DEF Fans, States
<1>4. CASE e_mode = "MONITORING"
  <2>1. fan_flag' = g.flag /\ pwm' = g.pwm
        /\ auto_speed' = (auto_speed \/ g.flag # fan_flag)
    BY <1>4 DEF Decide, g
  <2>2. fan_flag' \in {-1, 0, 1} /\ pwm' \in 0 .. 100
    BY <1>3, <2>1
  <2>3. CASE g = f
    <3>1. fan_flag' = fan_flag /\ pwm' = pwm
      BY <2>1, <2>3
    <3>2. auto_speed' => auto_speed
      BY <2>1, <3>1
    <3>3. AutoSpeedAgrees'
      BY <3>1, <3>2 DEF Inv, AutoSpeedAgrees
    <3>4. QED
      BY <2>1, <2>2, <3>3
      DEF Inv, TypeOK, ManualIsTimed, Decide, timer, mode, filter
  <2>4. CASE Agrees(g)
    <3>1. AutoSpeedAgrees'
      BY <2>1, <2>4 DEF Agrees, AutoSpeedAgrees
    <3>2. QED
      BY <2>1, <2>2, <3>1
      DEF Inv, TypeOK, ManualIsTimed, Decide, timer, mode, filter
  <2>5. QED
    BY <1>2, <2>3, <2>4
<1>5. CASE e_mode # "MONITORING"
  BY <1>5
  DEF Inv, TypeOK, ManualIsTimed, AutoSpeedAgrees, Decide, timer, mode, filter,
      fan
<1>6. QED
  BY <1>4, <1>5

LEMMA InvNext == Inv /\ [Next]_vars => Inv'
<1>1. Inv /\ UNCHANGED vars => Inv'
  BY DEF Inv, TypeOK, ManualIsTimed, AutoSpeedAgrees, vars, timer, mode,
         fan, filter
<1>2. QED
  BY <1>1, InvTick, InvCommand, InvPass, InvSample, InvDecide DEF Next, Main

LEMMA InvCorrect == Spec => []Inv
BY InvInit, InvNext, PTL DEF Spec

THEOREM TypeCorrect == Spec => []TypeOK
BY InvCorrect, PTL DEF Inv

\* No sequence of commands and time-outs leaves manual mode without its timer.
THEOREM ManualTimed == Spec => []ManualIsTimed
BY InvCorrect, PTL DEF Inv

-----------------------------------------------------------------------------
(* Steps. *)

\* From every state of the rule, one run reaches the band of the density, and
\* so does the fan if the rule was the last to set its speed.
THEOREM RuleCorrect == Spec => RuleFollowsDensity
<1>1. Inv /\ Inv' /\ [Next]_vars =>
        [Decide /\ e_mode = "MONITORING" =>
           /\ InBand(fan_flag', ptcl)
           /\ auto_speed' => SpeedInBand(pwm', ptcl)]_vars
  <2> SUFFICES ASSUME Inv, Inv', Decide, e_mode = "MONITORING"
               PROVE  /\ InBand(fan_flag', ptcl)
                      /\ auto_speed' => SpeedInBand(pwm', ptcl)
    OBVIOUS
  <2> DEFINE f == [flag |-> fan_flag, pwm |-> pwm]
  <2>1. f \in Fans /\ ptcl \in Nat
    BY DEF Inv, TypeOK, Fans, States
  <2>2. fan_flag' = Rule(f, ptcl).flag
    BY DEF Decide
  <2>3. InBand(fan_flag', ptcl)
    BY <2>1, <2>2, RuleInBand
  <2>4. fan_flag' \in States
    BY DEF Inv, TypeOK, States
  <2>5. auto_speed' => pwm' = Speed(fan_flag')
    BY DEF Inv, AutoSpeedAgrees
  <2>6. QED
    BY <2>1, <2>3, <2>4, <2>5, BandSpeed
<1>2. QED
  BY <1>1, InvCorrect, PTL DEF Spec, RuleFollowsDensity

\* A single sample cannot move the output out of the range of what came before.
THEOREM OutlierCorrect == Spec => OutlierRejected
<1>1. Inv /\ [Next]_vars =>
        [Sample /\ y # 0 =>
           /\ ptcl' <= Higher(ptcl, Higher(x, y))
           /\ ptcl' >= Lower(ptcl, Lower(x, y))]_vars
  <2> SUFFICES ASSUME Inv, Sample, y # 0
               PROVE  /\ ptcl' <= Higher(ptcl, Higher(x, y))
                      /\ ptcl' >= Lower(ptcl, Lower(x, y))
    OBVIOUS
  <2>1. PICK z \in Readings : ptcl' = Smooth(Median3(x, y, z), ptcl)
    BY DEF Sample
  <2>2. x \in Nat /\ y \in Nat /\ z \in Nat /\ ptcl \in Nat
    BY <2>1, ReadingsAssumption DEF Inv, TypeOK
  <2> DEFINE m == Median3(x, y, z)
  <2>3. m \in Nat /\ m <= Higher(x, y) /\ m >= Lower(x, y)
    BY <2>2, MedianType DEF Median3, Lower, Higher
  <2>4. ptcl' <= Higher(m, ptcl) /\ ptcl' >= Lower(m, ptcl)
    BY <2>1, <2>2, <2>3, SmoothBetween
  <2>5. ptcl' \in Nat
    BY <2>1, <2>2, <2>3, SmoothBetween
  <2> HIDE DEF m
  <2>6. QED
    BY <2>2, <2>3, <2>4, <2>5 DEF Lower, Higher
<1>2. QED
  BY <1>1, InvCorrect, PTL DEF Spec, OutlierRejected

=============================================================================
