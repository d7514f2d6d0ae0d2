----------------------------- MODULE MCStorage -----------------------------
(* Instances of Storage for TLC; the configurations name the volumes.       *)
EXTENDS Storage
=============================================================================
