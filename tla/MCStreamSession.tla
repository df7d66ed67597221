-------------------------- MODULE MCStreamSession --------------------------
(* TLC instances of StreamSession: the recording may outgrow the audio limit *)
(* (MCStreamSession.cfg) or stay below it (MCStreamDrain.cfg).               *)
EXTENDS StreamSession
=============================================================================
