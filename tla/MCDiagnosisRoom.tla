--------------------------- MODULE MCDiagnosisRoom ---------------------------
(* Model values for the runs of DiagnosisRoom.                               *)
EXTENDS DiagnosisRoom, TLC

CONSTANTS m1, m2, owner, lead, lead2

\* Clients choose message ids; no definition tells them apart.  Used by runs
\* without an initial turn.
MessageSymmetry == Permutations(Messages)

=============================================================================
