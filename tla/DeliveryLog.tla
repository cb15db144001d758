----------------------------- MODULE DeliveryLog -----------------------------
(***************************************************************************)
(* What the notifications of a diagnosis room promise, without attempts,   *)
(* retries, timeouts or rows: a notice may reach its channel any number of *)
(* times, the task's history tells of a delivery only after one happened   *)
(* and never loses it again, and the room takes a notice for delivered     *)
(* only when the history says so.                                          *)
(***************************************************************************)
CONSTANT Notices

VARIABLES
  taken,      \* notices the provider took at least once
  recorded,   \* notices with a delivery on record
  reported    \* notices the room takes for delivered

vars == <<taken, recorded, reported>>

Init == taken = {} /\ recorded = {} /\ reported = {}

Take(k) ==
  /\ taken' = taken \cup {k}
  /\ UNCHANGED <<recorded, reported>>

(* The sender that records a delivery may report it in the same step.      *)
Record(k) ==
  /\ k \in taken
  /\ recorded' = recorded \cup {k}
  /\ reported' \in {reported, reported \cup {k}}
  /\ UNCHANGED taken

Report(k) ==
  /\ k \in recorded
  /\ reported' = reported \cup {k}
  /\ UNCHANGED <<taken, recorded>>

Next == \E k \in Notices : Take(k) \/ Record(k) \/ Report(k)

Spec == Init /\ [][Next]_vars
==============================================================================
