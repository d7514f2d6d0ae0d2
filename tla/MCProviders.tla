---------------------------- MODULE MCProviders ----------------------------
(* An instance of Providers for TLC.  The two workers are interchangeable,   *)
(* and so are the names (SSIDs, devices, settings' values) and the places    *)
(* (credentials, slots).                                                     *)
EXTENDS Providers, TLC

MCPaths == <<"explicit", "runtime">>
MCFileOrder == <<"fps", "calibration", "rotation">>
MCSymmetry ==
    Permutations(Writers) \cup Permutations(Names) \cup Permutations(Slots)
=============================================================================
