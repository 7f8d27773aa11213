---------------------------- MODULE ButtonDebounce ----------------------------
(***************************************************************************)
(* Joystick_GetButton of src/STM32_Bluetooth/Core/Src/joystick.c: an 8-bit *)
(* register takes in one poll of the button after the other.               *)
(***************************************************************************)
EXTENDS Integers

VARIABLES
  button_press, \* the static register
  button        \* what the last call has returned

vars == <<button_press, button>>

\* Mutant: the register is wider than eight bits.
ShiftWide(r) == (2 * r) % 512

\* button_press <<= 1, in eight bits.
Shift(r) == (2 * r) % 256

Report(r) == IF r = 128 THEN "SET" ELSE "RESET"

\* Mutant: the register is shifted first, as Joystick_Track does.
PollShiftsFirst(pressed) ==
  /\ button_press' = Shift(button_press) + (IF pressed THEN 1 ELSE 0)
  /\ button' = Report(button_press')

\* One call.  The lowest bit of the register is always clear between calls, so
\* that |= 1 adds one.
Poll(pressed) ==
  /\ button_press' = Shift(IF pressed THEN button_press + 1 ELSE button_press)
  /\ button' = Report(button_press')

Init == button_press = 0 /\ button = "RESET"

Next == \E pressed \in BOOLEAN : Poll(pressed)

Spec == Init /\ [][Next]_vars

-----------------------------------------------------------------------------
\* The register is eight bits wide and its lowest bit is clear; a press is
\* reported by the pattern 0x80 and by nothing else.
TypeOK ==
  /\ button_press \in 0 .. 255 /\ button_press % 2 = 0
  /\ button = Report(button_press)

\* The lowest bit that is set tells how long ago the last pressed poll was.
Since == IF button_press % 4 = 2 THEN 0
         ELSE IF button_press % 8 = 4 THEN 1
         ELSE IF button_press % 16 = 8 THEN 2
         ELSE IF button_press % 32 = 16 THEN 3
         ELSE IF button_press % 64 = 32 THEN 4
         ELSE IF button_press % 128 = 64 THEN 5
         ELSE IF button_press = 128 THEN 6 ELSE 7

C == INSTANCE Click WITH Released <- 6, since <- Since, click <- button

\* Whatever bounces the register holds from before, a press is reported once,
\* at the sixth released poll after the last pressed one.
ReportsClicks == C!Spec

==============================================================================
