------------------------- MODULE ButtonDebounceProofs -------------------------
(* ButtonDebounce implements Click. *)
EXTENDS ButtonDebounce, TLAPS

THEOREM TypeCorrect == Spec => []TypeOK
<1>1. Init => TypeOK
  BY DEF Init, TypeOK, Report
<1>2. TypeOK /\ [Next]_vars => TypeOK'
  <2> SUFFICES ASSUME TypeOK, [Next]_vars PROVE TypeOK'
    OBVIOUS
  <2>1. ASSUME NEW pressed \in BOOLEAN, Poll(pressed) PROVE TypeOK'
    <3>1. button_press' \in 0 .. 255 /\ button_press' % 2 = 0
      BY <2>1 DEF Poll, Shift, TypeOK
    <3>2. QED
      BY <2>1, <3>1 DEF Poll, TypeOK
  <2>2. CASE UNCHANGED vars
    BY <2>2 DEF TypeOK, vars
  <2>3. QED
    BY <2>1, <2>2 DEF Next
<1>3. QED
  BY <1>1, <1>2, PTL DEF Spec

\* A pressed poll sets bit 1, whatever the register held.
LEMMA SincePressed ==
  TypeOK /\ Poll(TRUE) => Since' = 0 /\ button' = "RESET"
<1> SUFFICES ASSUME TypeOK, Poll(TRUE) PROVE Since' = 0 /\ button' = "RESET"
  OBVIOUS
<1>1. PICK r \in 0 .. 255 : r = button_press /\ r % 2 = 0
  BY DEF TypeOK
<1>2. button_press' = (2 * (r + 1)) % 256 /\ button' = Report(button_press')
  BY <1>1 DEF Poll, Shift
<1>3. button_press' % 4 = 2 /\ button_press' # 128
  BY <1>1, <1>2
<1>4. QED
  BY <1>2, <1>3 DEF Since, Report

\* A released poll moves the lowest set bit up by one.
LEMMA SinceReleased ==
  TypeOK /\ Poll(FALSE) =>
    /\ Since' = IF Since <= 6 THEN Since + 1 ELSE Since
    /\ button' = IF Since + 1 = 6 THEN "SET" ELSE "RESET"
<1> SUFFICES ASSUME TypeOK, Poll(FALSE)
             PROVE  /\ Since' = IF Since <= 6 THEN Since + 1 ELSE Since
                    /\ button' = IF Since + 1 = 6 THEN "SET" ELSE "RESET"
  OBVIOUS
<1>1. PICK r \in 0 .. 255 : r = button_press /\ r % 2 = 0
  BY DEF TypeOK
<1>2. button_press' = (2 * r) % 256 /\ button' = Report(button_press')
  BY <1>1 DEF Poll, Shift
<1>3. Since' = IF Since <= 6 THEN Since + 1 ELSE Since
  BY <1>1, <1>2 DEF Since
<1>4. button_press' = 128 <=> Since + 1 = 6
  BY <1>1, <1>2 DEF Since
<1>5. QED
  BY <1>2, <1>3, <1>4 DEF Report

\* Every step of the register is a step of the abstract button, or none.
THEOREM Refinement == Spec => ReportsClicks
<1>1. Init => C!Init
  BY DEF Init, C!Init, Since
<1>2. TypeOK /\ [Next]_vars => [C!Pressed \/ C!NotPressed]_<<Since, button>>
  <2>1. TypeOK /\ Poll(TRUE) => C!Pressed
    BY SincePressed DEF C!Pressed, Poll
  <2>2. TypeOK /\ Poll(FALSE) => C!NotPressed
    BY SinceReleased DEF C!NotPressed, Poll
  <2>3. UNCHANGED vars => UNCHANGED <<Since, button>>
    BY DEF vars, Since
  <2>4. QED
    BY <2>1, <2>2, <2>3 DEF Next
<1>3. QED
  BY <1>1, <1>2, TypeCorrect, PTL DEF Spec, ReportsClicks, C!Spec

=============================================================================
