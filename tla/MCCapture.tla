----------------------------- MODULE MCCapture -----------------------------
(* TLC instances of Capture: a recording can pass the limit, and end in the *)
(* middle of a sample.                                                      *)
EXTENDS Capture
=============================================================================
