------------------------- MODULE MCTouchCalibration -------------------------
(* Instances of TouchCalibration for TLC.                                    *)
EXTENDS TouchCalibration
=============================================================================
