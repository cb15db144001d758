------------------------- MODULE MCReportSchedules -------------------------
(* Model values for the runs of ReportSchedules.                            *)
EXTENDS ReportSchedules, TLC

CONSTANTS s1, s2, i1, i2, p1, p2, o1, o2, boot

\* Schedules, ids, policies and requests differ in nothing but their names.
Symmetry == Permutations(Schedules) \cup Permutations(Ids)
              \cup Permutations(Policies) \cup Permutations(Operators)

=============================================================================
