-------------------------- MODULE MCConfigRewrite ---------------------------
(* Two settings, each changed twice, with an editor and a crash.           *)
EXTENDS ConfigRewrite
=============================================================================
