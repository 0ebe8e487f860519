--------------------------- MODULE MCScanControl ---------------------------
(* The instances of ScanControl for TLC: every constant is given in the cfg. *)
EXTENDS ScanControl
=============================================================================
