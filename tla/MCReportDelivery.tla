-------------------------- MODULE MCReportDelivery --------------------------
(* Model values for the runs of ReportDelivery.                             *)
EXTENDS ReportDelivery, TLC

CONSTANTS s1, s2, s3, s4

\* Senders differ in nothing but their name.
SenderSymmetry == Permutations(Senders)

=============================================================================
