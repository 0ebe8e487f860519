--------------------------- MODULE MCCandleStream ---------------------------
(* A small instance of CandleStream for TLC. *)
EXTENDS CandleStream
=============================================================================
