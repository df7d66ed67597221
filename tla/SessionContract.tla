-------------------------- MODULE SessionContract --------------------------
(***************************************************************************)
(* What the Linux host promises to those who watch it: the HUD, the control*)
(* socket and the user. One session at a time, numbered; its published     *)
(* state moves along one graph; its transcript is inserted at most once,   *)
(* and Success after Delivering means it was; and while the host is up no  *)
(* session state lasts for ever.                                           *)
(***************************************************************************)
EXTENDS Naturals

VARIABLES state,      \* the published state
          gen,        \* the published generation
          delivered,  \* the generations whose transcript has been inserted
          up          \* the host thread is running

cvars == <<state, gen, delivered, up>>

Ended == {"Success", "Error", "Cancelled"}
Running == {"Starting", "Recording", "Stopping", "Processing", "Delivering"}

Init ==
  /\ state = "Idle"
  /\ gen = 0
  /\ delivered = {}
  /\ up = TRUE

\* A session begins, or fails before the microphone is on.
Begin ==
  /\ up /\ state = "Idle"
  /\ state' \in {"Starting", "Error", "Cancelled"}
  /\ gen' = gen + 1
  /\ UNCHANGED <<delivered, up>>

Move(from, to) ==
  /\ up /\ state = from
  /\ state' = to
  /\ UNCHANGED <<gen, delivered, up>>

Proceed ==
  \/ Move("Starting", "Recording")
  \/ Move("Recording", "Stopping")
  \/ Move("Stopping", "Processing")
  \/ Move("Processing", "Delivering")

\* The transcript of this session reaches the focused window or clipboard.
Insert ==
  /\ up /\ state = "Delivering" /\ gen \notin delivered
  /\ delivered' = delivered \cup {gen}
  /\ UNCHANGED <<state, gen, up>>

Succeed ==
  \/ Move("Processing", "Success")                    \* no speech
  \/ gen \in delivered /\ Move("Delivering", "Success")

GiveUp ==
  \/ \E s \in Running : Move(s, "Cancelled")
  \/ \E s \in Running : (s = "Delivering" => gen \notin delivered) /\ Move(s, "Error")

Settle == \E s \in Ended : Move(s, "Idle")

Close ==
  /\ up
  /\ up' = FALSE
  /\ UNCHANGED <<state, gen, delivered>>

Advance == Proceed \/ Succeed \/ GiveUp \/ Settle

Next == Begin \/ Advance \/ Insert \/ Close

Spec == Init /\ [][Next]_cvars

\* While the host is up, a session under way keeps advancing until Idle.
FairSpec == Spec /\ WF_cvars(Advance)
=============================================================================
