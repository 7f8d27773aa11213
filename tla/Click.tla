-------------------------------- MODULE Click --------------------------------
(***************************************************************************)
(* What the console expects of the joystick's button: a press, however it  *)
(* bounces, is reported once, at the Released-th poll in a row that finds  *)
(* the button released after one that found it pressed.                    *)
(***************************************************************************)
EXTENDS Integers

CONSTANT Released \* a positive number

VARIABLES
  since, \* polls since the last pressed one, Released + 1 for too many
  click  \* SET when the last poll has reported a press

Init == since = Released + 1 /\ click = "RESET"

Pressed == since' = 0 /\ click' = "RESET"

NotPressed ==
  /\ since' = IF since <= Released THEN since + 1 ELSE since
  /\ click' = IF since + 1 = Released THEN "SET" ELSE "RESET"

Spec == Init /\ [][Pressed \/ NotPressed]_<<since, click>>

==============================================================================
