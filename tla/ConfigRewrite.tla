---------------------------- MODULE ConfigRewrite ---------------------------
(***************************************************************************)
(* Changing one setting in config.json (ui/linux/src/config.rs,            *)
(* mutate_config_at): read, lock, compare, encode, write a temporary file, *)
(* compare again, rename. Writers of different settings exclude one        *)
(* another with a lock; an editor does not take it, and saves by renaming  *)
(* or in place. A writer can be killed and the machine can lose power      *)
(* between any two steps.                                                  *)
(*                                                                         *)
(* The contents of the file are the number of changes made to each         *)
(* setting and by the editor, so that no two contents are equal.           *)
(***************************************************************************)
EXTENDS Naturals

CONSTANTS Settings,   \* the settings, each with a writer of its own
          NoOne,
          MaxSets,    \* bound: changes of one setting
          MaxEdits,   \* bound: saves of the editor
          MaxCrashes  \* bound: kills and power losses

ASSUME BoundsAssumption ==
  NoOne \notin Settings /\ MaxSets \in Nat /\ MaxEdits \in Nat /\ MaxCrashes \in Nat

VARIABLES
  file,     \* config.json: the settings, the editor's changes, not cut short
  flushed,  \* its contents are on disk
  durable,  \* what a power loss would go back to
  lock,     \* holder of .config.lock
  pc,       \* where each writer is in mutate_config_at
  source,   \* what it read
  tmp,      \* its temporary file
  asked,    \* number of changes asked of it
  ok,       \* history: the last change it reported as done
  editor,   \* "idle", or "saving" in place
  edits,    \* history: saves of the editor
  raced,    \* history: a save came between a comparison and the rename after it
  crashes

vars == <<file, flushed, durable, lock, pc, source, tmp, asked, ok, editor, edits, raced, crashes>>
disk == <<file, flushed, durable>>
writer == <<source, tmp, asked, ok>>
outside == <<editor, edits, raced, crashes>>

Pcs == {"idle", "lock", "check", "encode", "project", "create",
         "write", "sync", "recheck", "rename", "parent"}
Contents == [set : [Settings -> Nat], note : Nat, whole : BOOLEAN]

TypeOK ==
  /\ file \in Contents /\ flushed \in BOOLEAN /\ durable \in Contents
  /\ lock \in Settings \cup {NoOne} /\ pc \in [Settings -> Pcs]
  /\ source \in [Settings -> Contents] /\ tmp \in [Settings -> {"none", "open", "written", "synced"}]
  /\ asked \in [Settings -> 0..MaxSets] /\ ok \in [Settings -> 0..MaxSets]
  /\ editor \in {"idle", "saving"} /\ edits \in 0..MaxEdits
  /\ raced \in BOOLEAN /\ crashes \in 0..MaxCrashes

Installed == [set |-> [w \in Settings |-> 0], note |-> 0, whole |-> TRUE]

Init ==
  /\ file = Installed /\ flushed = TRUE /\ durable = Installed
  /\ lock = NoOne /\ pc = [w \in Settings |-> "idle"]
  /\ source = [w \in Settings |-> Installed] /\ tmp = [w \in Settings |-> "none"]
  /\ asked = [w \in Settings |-> 0] /\ ok = [w \in Settings |-> 0]
  /\ editor = "idle" /\ edits = 0 /\ raced = FALSE /\ crashes = 0

-----------------------------------------------------------------------------
(* mutate_config_at *)

Goto(w, from, to) == pc[w] = from /\ pc' = [pc EXCEPT ![w] = to]

\* What the writer leaves behind when it returns: the lock is released and
\* the temporary file is gone, renamed or unlinked.
Leave(w) ==
  /\ pc' = [pc EXCEPT ![w] = "idle"] /\ tmp' = [tmp EXCEPT ![w] = "none"]
  /\ source' = [source EXCEPT ![w] = Installed]
  /\ lock' = IF lock = w THEN NoOne ELSE lock

\* Every step may fail, the last one too, when the new file is in place
\* already. unlinkat removes the temporary file.
Fails(w) ==
  /\ pc[w] # "idle" /\ Leave(w)
  /\ UNCHANGED <<disk, asked, ok, outside>>

\* read_config_at
Read(w) ==
  /\ asked[w] < MaxSets /\ asked' = [asked EXCEPT ![w] = @ + 1]
  /\ Goto(w, "idle", "lock") /\ source' = [source EXCEPT ![w] = file]
  /\ UNCHANGED <<disk, lock, tmp, ok, outside>>

\* lock_config: flock waits.
Lock(w) ==
  /\ lock = NoOne /\ lock' = w /\ Goto(w, "lock", "check")
  /\ UNCHANGED <<disk, writer, outside>>

\* ensure_source_unchanged; otherwise the writer fails.
Unchanged(w, from, to) ==
  /\ file = source[w] /\ Goto(w, from, to)
  /\ UNCHANGED <<disk, lock, writer, outside>>

Check(w) == Unchanged(w, "check", "encode")

\* encode parses and rewrites what was read: only a whole file parses.
Encode(w) ==
  /\ source[w].whole /\ Goto(w, "encode", "project")
  /\ UNCHANGED <<disk, lock, writer, outside>>

\* project_session_config reads the new contents as the host will; settings
\* that do not go together, or lack their credentials, make the writer fail.
Project(w) ==
  /\ Goto(w, "project", "create")
  /\ UNCHANGED <<disk, lock, writer, outside>>

Temporary(w, from, to, state) ==
  /\ Goto(w, from, to) /\ tmp' = [tmp EXCEPT ![w] = state]
  /\ UNCHANGED <<disk, lock, source, asked, ok, outside>>

Create(w) == Temporary(w, "create", "write", "open")
WriteAll(w) == Temporary(w, "write", "sync", "written")

\* Mutant of SyncAll: the temporary file is not synced.
MSyncAll(w) == Temporary(w, "sync", "recheck", "written")

SyncAll(w) == Temporary(w, "sync", "recheck", "synced")

\* Mutant of Recheck: no second comparison.
MRecheck(w) ==
  /\ Goto(w, "recheck", "rename")
  /\ UNCHANGED <<disk, lock, writer, outside>>

Recheck(w) == Unchanged(w, "recheck", "rename")

\* The new contents replace whatever is there now.
Output(w) ==
  [set |-> [source[w].set EXCEPT ![w] = asked[w]],
   note |-> source[w].note, whole |-> source[w].whole]

Rename(w) ==
  /\ Goto(w, "rename", "parent") /\ tmp' = [tmp EXCEPT ![w] = "none"]
  /\ file' = Output(w) /\ flushed' = (tmp[w] = "synced")
  /\ UNCHANGED <<durable, lock, source, asked, ok, outside>>

\* The directory is synced; only now is the change reported as done.
SyncParent(w) ==
  /\ pc[w] = "parent" /\ Leave(w)
  /\ durable' = file /\ ok' = [ok EXCEPT ![w] = asked[w]]
  /\ UNCHANGED <<file, flushed, asked, outside>>

-----------------------------------------------------------------------------
(* Everyone else *)

Between == \E w \in Settings : pc[w] = "rename"

Saved(contents) ==
  /\ file' = contents /\ durable' = contents /\ flushed' = TRUE
  /\ raced' = (raced \/ Between)
  /\ UNCHANGED <<lock, pc, writer, crashes>>

Edited(c) == [set |-> c.set, note |-> edits + 1, whole |-> TRUE]

Cut(c, whole) == [set |-> c.set, note |-> c.note, whole |-> whole]

EditReplace ==
  /\ editor = "idle" /\ edits < MaxEdits /\ edits' = edits + 1
  /\ Saved(Edited(file))
  /\ UNCHANGED editor

\* In place: the file is truncated, then written.
EditStarts ==
  /\ editor = "idle" /\ edits < MaxEdits /\ editor' = "saving"
  /\ Saved(Cut(file, FALSE))
  /\ UNCHANGED edits

\* The editor writes the file it opened, even if a rename has replaced it.
EditEnds ==
  /\ editor = "saving" /\ editor' = "idle" /\ edits' = edits + 1
  /\ \/ ~file.whole /\ Saved(Edited(file))
     \/ /\ file.whole
        /\ durable' = IF durable.whole THEN durable ELSE Edited(durable)
        /\ UNCHANGED <<file, flushed, lock, pc, writer, raced, crashes>>

\* A killed writer leaves its temporary file; the next one takes another name.
Killed(w) ==
  /\ pc[w] # "idle" /\ crashes < MaxCrashes /\ crashes' = crashes + 1
  /\ Leave(w)
  /\ UNCHANGED <<disk, asked, ok, editor, edits, raced>>

\* A rename whose directory was not synced may be undone; contents that were
\* not synced are lost.
PowerLoss ==
  /\ crashes < MaxCrashes /\ crashes' = crashes + 1
  /\ \/ file' = durable
     \/ file' = Cut(file, file.whole /\ flushed)
  /\ durable' = file' /\ flushed' = TRUE
  /\ pc' = [w \in Settings |-> "idle"] /\ tmp' = [w \in Settings |-> "none"]
  /\ source' = [w \in Settings |-> Installed] /\ lock' = NoOne
  /\ UNCHANGED <<asked, ok, editor, edits, raced>>

-----------------------------------------------------------------------------
Writer(w) ==
  \/ Read(w) \/ Lock(w) \/ Check(w) \/ Encode(w) \/ Project(w) \/ Create(w) \/ WriteAll(w) \/ SyncAll(w)
  \/ Recheck(w) \/ Rename(w) \/ SyncParent(w) \/ Fails(w) \/ Killed(w)

Next ==
  \/ \E w \in Settings : Writer(w)
  \/ EditReplace \/ EditStarts \/ EditEnds \/ PowerLoss

Spec == Init /\ [][Next]_vars

-----------------------------------------------------------------------------
(* Properties *)

\* A change that was reported as done is never undone, by the writer of
\* another setting, by an editor's save or by a power loss; and a save of the
\* editor is overwritten only if it fell between the second comparison and the
\* rename (config.rs mutate_config_at, ensure_source_unchanged, lock_config).
NoLostUpdate ==
  /\ \A w \in Settings : file.set[w] >= ok[w]
  /\ file.note = edits \/ raced

\* Whoever opens config.json finds a whole file, at every step of every writer
\* and after a kill or a power loss, unless an editor is writing it in place
\* (config.rs mutate_config_at: write, sync, rename).
FileWhole == file.whole \/ editor = "saving"
=============================================================================
