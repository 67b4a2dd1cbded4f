----------------------------- MODULE MCCuptiSink -----------------------------
(* Model-checking instance of CuptiSink. *)
EXTENDS CuptiSink
=============================================================================
