------------------------------ MODULE Delivery ------------------------------
(***************************************************************************)
(* Putting a transcript where the user wants it (ui/linux/src/desktop.rs,  *)
(* NativeDelivery): typing it, or copying it to the clipboard and asking   *)
(* the focused window to paste. The clipboard lives in a process: wl-copy  *)
(* or xsel owns the selection as long as it runs, so the new owner is      *)
(* verified with a paste tool before the old one is let go.                *)
(*                                                                         *)
(* The tools and the other applications on the desktop are external: a     *)
(* tool may be missing, fail, hang, or do its work and then fail.          *)
(***************************************************************************)
EXTENDS Naturals, Sequences

CONSTANTS Texts,         \* transcripts
          Nothing, Other, \* an empty selection, one of another application
          MaxDeliveries  \* bound: transcripts delivered

ASSUME TextsAssumption == /\ Nothing \notin Texts /\ Other \notin Texts /\ Nothing # Other
                          /\ MaxDeliveries \in Nat

VARIABLES
  backend,   \* detect_backend: "native" or "unavailable"
  hyprland,  \* HYPRLAND_INSTANCE_SIGNATURE is set
  pc,        \* where deliver is
  text, method,
  owner,     \* clipboard_owner: its process, "claimed" once it has the selection
  kept,      \* the text that owner was given
  cand,      \* the clipboard tool that start_clipboard has spawned
  sel,       \* the selection: [text, by]
  state,     \* verify_clipboard's local: what owner() said
  tool,      \* the typing or pasting tool that runs: "none", "live" or its exit
  outcome,   \* what deliver returned
  count,
  typed,     \* history: how much of the text the typing tool sent
  pasted,    \* history: what pastes inserted
  foreign,   \* history: the selection was taken, or its owner died, since the copy
  stale      \* history: when the copy began the selection already was this text, or
             \* the retained owner had not claimed the selection yet

vars == <<backend, hyprland, pc, text, method, owner, kept, cand, sel, state, tool, outcome,
          count, typed, pasted, foreign, stale>>
desktop == <<backend, hyprland, kept>>
request == <<text, method, count>>
history == <<typed, pasted, foreign, stale>>

Running == {"live", "claimed"}
Outcomes == {"none", "Typed", "Clipboard", "Pasted", "ClipboardFallback", "error"}

Init ==
  /\ backend \in {"native", "unavailable"} /\ hyprland \in BOOLEAN
  /\ pc = "idle" /\ text \in Texts /\ method = "clipboard"
  /\ owner = "none" /\ kept = text /\ cand = "none" /\ sel = [text |-> Nothing, by |-> "none"]
  /\ state = "none" /\ tool = "none" /\ outcome = "none" /\ count = 0
  /\ typed = "none" /\ pasted = <<>> /\ foreign = FALSE /\ stale = FALSE

-----------------------------------------------------------------------------
(* deliver *)

Goto(p) ==
  /\ pc' = p
  /\ UNCHANGED <<desktop, request, owner, cand, sel, state, tool, outcome, history>>

Return(o) ==
  /\ pc' = "returned" /\ outcome' = o /\ tool' = "none"
  /\ UNCHANGED <<desktop, request, owner, cand, sel, state, history>>

Copied == IF method = "paste" THEN "target" ELSE "copied"
Deliver(t, m) ==
  /\ pc \in {"idle", "returned"} /\ count < MaxDeliveries
  /\ text' = t /\ method' = m /\ count' = count + 1
  /\ pc' = IF m = "type" THEN "type" ELSE "copy"
  /\ outcome' = "none" /\ state' = "none"
  /\ typed' = "none" /\ pasted' = <<>> /\ foreign' = FALSE /\ stale' = FALSE
  /\ UNCHANGED <<desktop, owner, cand, sel, tool>>

\* type_text, or a paste: run starts a tool; without one the call fails.
StartTool(p, running, failed) ==
  /\ pc = p
  /\ \/ Goto(failed)
     \/ /\ backend = "native"
        /\ pc' = running /\ tool' = "live"
        /\ UNCHANGED <<desktop, request, owner, cand, sel, state, outcome, history>>

Type == StartTool("type", "typing", "copy")

\* wait_bounded: the exit status; at the deadline the tool is terminated.
\* Mutant of TypeEnds: a tool that is too slow is left to finish.
MTypeEnds ==
  /\ pc = "typing"
  /\ \/ tool = "ok" /\ Return("Typed")
     \/ tool # "ok" /\ Goto("copy")

TypeEnds ==
  /\ pc = "typing"
  /\ \/ tool = "ok" /\ Return("Typed")
     \/ /\ tool # "ok"
        /\ pc' = "copy" /\ tool' = "none"
        /\ UNCHANGED <<desktop, request, owner, cand, sel, state, outcome, history>>

-----------------------------------------------------------------------------
(* copy: start_clipboard, verify_clipboard *)

\* A missing tool or a full pipe; the previous owner stays.
CopyFails == pc = "copy" /\ Return("error")

StartOwner ==
  /\ pc = "copy" /\ backend = "native"
  /\ pc' = "state" /\ cand' = "live" /\ foreign' = FALSE
  /\ stale' = (sel.text = text \/ owner = "live")
  /\ UNCHANGED <<desktop, request, owner, sel, state, tool, outcome, typed, pasted>>

\* The death of the process that holds the selection empties it.
Selection(by) == IF sel.by = by THEN [text |-> Nothing, by |-> "none"] ELSE sel

\* terminate(&mut child) and the error of start_clipboard.
Abandon ==
  /\ pc' = "returned" /\ outcome' = "error" /\ cand' = "none" /\ sel' = Selection("cand")
  /\ UNCHANGED <<desktop, request, owner, state, tool, history>>

OwnerState ==
  /\ pc = "state"
  /\ IF cand = "failed" THEN Abandon
     ELSE /\ pc' = "verify" /\ state' = cand
          /\ UNCHANGED <<desktop, request, owner, cand, sel, tool, outcome, history>>

\* Mutant of Verify: the selection is not compared.
MVerify == pc = "verify" /\ Goto("final")

\* The paste tool prints the selection, or part of it if it exits between the read
\* and the wait of capture_bounded; it fails when there is none.
Verify ==
  /\ pc = "verify"
  /\ \/ sel.text = text /\ Goto("final")
     \/ state \in Running /\ Goto("state")
     \/ Abandon

\* The assignment to clipboard_owner drops, and so terminates, the previous owner.
\* Mutant of Retain: the owner is kept without asking again whether it runs.
MRetain ==
  /\ pc = "final"
  /\ pc' = Copied
  /\ owner' = cand /\ kept' = text /\ cand' = "none"
  /\ sel' = IF sel.by = "cand" THEN [sel EXCEPT !.by = "owner"] ELSE Selection("owner")
  /\ UNCHANGED <<backend, hyprland, request, state, tool, outcome, history>>

Retain ==
  /\ pc = "final" /\ cand # "failed"
  /\ pc' = Copied
  /\ owner' = IF cand \in Running THEN cand ELSE "none"
  /\ kept' = text /\ cand' = "none"
  /\ sel' = CASE sel.by = "cand" -> [sel EXCEPT !.by = "owner"]
              [] sel.by = "owner" -> [text |-> Nothing, by |-> "none"]
              [] OTHER -> sel
  /\ UNCHANGED <<backend, hyprland, request, state, tool, outcome, history>>

FinalState == pc = "final" /\ cand = "failed" /\ Abandon

CopyReturns ==
  /\ pc = "copied"
  /\ Return(IF method = "type" THEN "ClipboardFallback" ELSE "Clipboard")

-----------------------------------------------------------------------------
(* paste: on Hyprland the window is asked for first, and the key is sent only to it *)

Target ==
  /\ pc = "target"
  /\ \/ ~hyprland /\ Goto("paste")
     \/ hyprland /\ (Goto("paste") \/ Return("ClipboardFallback"))

Paste == StartTool("paste", "pasting", "fallback")

\* Mutant of PasteEnds: a paste that failed is tried once more.
MPasteEnds ==
  /\ pc = "pasting"
  /\ \/ tool = "ok" /\ Return("Pasted")
     \/ tool # "ok" /\ Goto("paste")

PasteEnds ==
  /\ pc = "pasting"
  /\ \/ tool = "ok" /\ Return("Pasted")
     \/ tool # "ok" /\ Return("ClipboardFallback")

PasteMissing == pc = "fallback" /\ Return("ClipboardFallback")

-----------------------------------------------------------------------------
(* The desktop (external) *)

Outside == UNCHANGED <<desktop, request, pc, state, outcome>>

\* A clipboard tool takes the selection, once.
Claim ==
  /\ \/ cand = "live" /\ cand' = "claimed" /\ UNCHANGED owner
        /\ sel' = [text |-> text, by |-> "cand"]
     \/ owner = "live" /\ owner' = "claimed" /\ UNCHANGED cand
        /\ sel' = [text |-> kept, by |-> "owner"]
  /\ UNCHANGED <<tool, history>> /\ Outside

\* Another application, or a clipboard manager that keeps the text.
TakeSelection ==
  /\ \/ foreign' = TRUE /\ sel' = [text |-> Other, by |-> "app"]
     \/ sel.text # Nothing /\ sel' = [sel EXCEPT !.by = "manager"] /\ UNCHANGED foreign
  /\ UNCHANGED <<owner, cand, tool, typed, pasted, stale>> /\ Outside

\* A clipboard tool exits once it has lost the selection, or fails.
CandExits ==
  /\ cand \in Running
  /\ \/ cand = "claimed" /\ sel.by # "cand" /\ cand' = "ok"
     \/ cand' = "failed"
  /\ sel' = Selection("cand")
  /\ UNCHANGED <<owner, tool, history>> /\ Outside

OwnerExits ==
  /\ owner \in Running
  /\ owner' = "ok" /\ sel' = Selection("owner")
  /\ foreign' = (foreign \/ sel.by = "owner")
  /\ UNCHANGED <<cand, tool, typed, pasted, stale>> /\ Outside

ToolActs ==
  /\ tool = "live"
  /\ \/ /\ pc = "typing" /\ typed # "all" /\ typed' \in {"part", "all"}
        /\ UNCHANGED pasted
     \/ /\ pc = "pasting" /\ Len(pasted) < 2 /\ pasted' = Append(pasted, sel.text)
        /\ tool' = "acted"
        /\ UNCHANGED typed
  /\ pc = "typing" => UNCHANGED tool
  /\ UNCHANGED <<owner, cand, sel, foreign, stale>> /\ Outside

\* Success means that the keys were sent.
ToolExits ==
  /\ tool \in {"live", "acted"}
  /\ \/ tool' = "failed"
     \/ (tool = "acted" \/ typed = "all") /\ tool' = "ok"
  /\ UNCHANGED <<owner, cand, sel, history>> /\ Outside

-----------------------------------------------------------------------------

DeliverStep ==
  \/ Type \/ TypeEnds \/ CopyFails \/ StartOwner \/ OwnerState \/ Verify \/ Retain
  \/ FinalState \/ CopyReturns \/ Target \/ Paste \/ PasteEnds \/ PasteMissing

Over == pc = "returned" /\ count = MaxDeliveries /\ UNCHANGED vars

Next ==
  \/ DeliverStep \/ Over
  \/ \E t \in Texts, m \in {"clipboard", "paste", "type"} : Deliver(t, m)
  \/ Claim \/ TakeSelection \/ CandExits \/ OwnerExits \/ ToolActs \/ ToolExits

Spec == Init /\ [][Next]_vars

-----------------------------------------------------------------------------
(* Properties *)

TypeOK ==
  /\ backend \in {"native", "unavailable"} /\ hyprland \in BOOLEAN
  /\ pc \in {"idle", "type", "typing", "copy", "state", "verify", "final", "copied",
             "target", "paste", "pasting", "fallback", "returned"}
  /\ text \in Texts /\ kept \in Texts /\ method \in {"clipboard", "paste", "type"}
  /\ cand \in Running \cup {"none", "ok", "failed"}
  /\ state \in Running \cup {"none", "ok", "failed"}
  /\ owner \in Running \cup {"none", "ok"}
  /\ sel \in [text : Texts \cup {Nothing, Other},
               by : {"none", "owner", "cand", "app", "manager"}]
  /\ tool \in {"none", "live", "acted", "ok", "failed"} /\ outcome \in Outcomes
  /\ count \in 0..MaxDeliveries
  /\ typed \in {"none", "part", "all"} /\ pasted \in Seq(Texts \cup {Nothing, Other})
  /\ foreign \in BOOLEAN /\ stale \in BOOLEAN

Reported == pc = "returned" /\ outcome # "none"

\* A delivery that reports the clipboard leaves the transcript there, although
\* the previous owner has been terminated, unless another application interfered
\* or an earlier owner can answer for the new one: it holds the same text
\* (FallbackPreserves), or has not claimed the selection yet.
ClipboardKept ==
  Reported /\ outcome \in {"Clipboard", "ClipboardFallback", "Pasted"} /\ ~foreign /\ ~stale
    => sel.text = text

\* What was inserted is what the outcome says, and never twice: a failed typing
\* is not followed by a paste, a failed paste is not repeated, and a paste reported
\* as done inserted the transcript (under the conditions of ClipboardKept).
InsertedOnce ==
  Reported =>
    /\ Len(pasted) <= 1 /\ (pasted # <<>> => method = "paste" /\ typed = "none")
    /\ outcome = "Clipboard" => pasted = <<>> /\ typed = "none"
    /\ outcome = "Typed" => typed = "all"
    /\ outcome = "Pasted" /\ ~foreign /\ ~stale => pasted = <<text>>

\* After a delivery no tool still runs, whichever timed out; only the process
\* that owns the clipboard does, and none that failed verification holds it.
NothingLeftRunning ==
  Reported => tool = "none" /\ cand = "none" /\ sel.by # "cand"

\* README: "If insertion becomes unsafe or fails, SayAll preserves the transcript on
\* the clipboard and reports the fallback."
FallbackPreserves ==
  Reported /\ outcome = "ClipboardFallback" /\ ~foreign => sel.text = text

=============================================================================
