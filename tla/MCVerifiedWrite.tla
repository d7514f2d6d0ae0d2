--------------------------- MODULE MCVerifiedWrite ---------------------------
(* An instance of VerifiedWrite: one touch screen is replaced by another.     *)
EXTENDS VerifiedWrite
=============================================================================
