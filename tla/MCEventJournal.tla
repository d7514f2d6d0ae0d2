--------------------------- MODULE MCEventJournal ---------------------------
(* Instances of EventJournal: one client follows everything, one a domain.   *)
EXTENDS EventJournal, TLC

CONSTANTS d1, d2, w1, w2

MCFilter == (w1 :> {}) @@ (w2 :> {d1})
=============================================================================
