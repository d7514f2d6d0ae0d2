-------------------------- MODULE MCManagerProcess --------------------------
(* An instance of ManagerProcess: one client follows every domain, one a     *)
(* single domain.                                                            *)
EXTENDS ManagerProcess, TLC

CONSTANTS d1, d2, w1, w2

MCFilter == (w1 :> {}) @@ (w2 :> {d1})
=============================================================================
