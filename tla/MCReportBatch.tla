---------------------------- MODULE MCReportBatch ----------------------------
(* Model values for the runs of ReportBatch.                                *)
EXTENDS ReportBatch, TLC

CONSTANTS i1, i2, i3

\* Items differ in nothing but their name.
ItemSymmetry == Permutations(Items)

=============================================================================
