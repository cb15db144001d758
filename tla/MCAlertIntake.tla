--------------------------- MODULE MCAlertIntake ---------------------------
(* Model values for the run of AlertIntake.                                 *)
EXTENDS AlertIntake, TLC

CONSTANTS w1, r1

\* Three alerts of one key, and one of another at the time of the last.
MCAlerts == {<<1, 1>>, <<1, 2>>, <<1, 3>>, <<2, 3>>}

\* A replay covers all but the start: alerts of both keys, more than it may
\* load, and a group it has to expand by alerts outside its window.
MCWindows == {<<2, 3>>}

=============================================================================
