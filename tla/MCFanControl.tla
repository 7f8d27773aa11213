----------------------------- MODULE MCFanControl ----------------------------
(* Small instances of FanControl for TLC. *)
EXTENDS FanControl

\* Clean air, each side of the middle threshold, and thick dust.
MCReadings == {0, 90, 110, 300}
\* Off, a usual speed, above the clamp and above eight bits.
MCCommands == {0, 70, 200, 300}
=============================================================================
