------------------------ MODULE ConfigRewriteProofs ------------------------
(***************************************************************************)
(* The rewrite of config.json, for any set of settings and any bounds.     *)
(* Inv says, writer by writer, what the lock and the two comparisons give: *)
(* what a writer is about to install is the file it will replace, but for  *)
(* its own setting, unless an editor saved in between.                     *)
(***************************************************************************)
EXTENDS ConfigRewrite, TLAPS

Holding == {"check", "encode", "project", "create", "write", "sync", "recheck", "rename", "parent"}
Agreed == Holding \ {"check", "parent"}

\* From the lock to the return a writer is the only one.
Exclusive == \A w \in Settings : pc[w] \in Holding => lock = w

\* What was reported as done is in the file and would survive a power loss; a
\* writer installs the other settings as they are.
Kept ==
  /\ \A w \in Settings : file.set[w] >= ok[w] /\ durable.set[w] >= ok[w] /\ asked[w] >= ok[w]
  /\ \A w \in Settings : pc[w] \in Agreed => source[w].set = file.set
  /\ \A w \in Settings : pc[w] = "parent" => file.set[w] = asked[w]

\* The editor's last save is there, or a save has raced with a rename; the
\* first comparison with a file being saved in place fails.
Saves ==
  /\ file.note = edits \/ raced
  /\ durable.note = edits \/ raced
  /\ \A w \in Settings : pc[w] = "rename" => source[w].note = edits \/ raced
  /\ editor = "saving" => edits < MaxEdits
  /\ editor = "saving" /\ file.whole => raced
  /\ editor = "saving" /\ durable.whole => raced
  /\ \A w \in Settings : pc[w] = "rename" /\ editor = "saving" => raced

\* Only whole, synced files are renamed into place.
Sound ==
  /\ flushed
  /\ file.whole \/ editor = "saving"
  /\ durable.whole \/ editor = "saving"
  /\ \A w \in Settings : pc[w] \in Agreed \ {"encode"} => source[w].whole
  /\ \A w \in Settings : pc[w] \in {"recheck", "rename"} => tmp[w] = "synced"

Inv == TypeOK /\ Exclusive /\ Kept /\ Saves /\ Sound

USE BoundsAssumption

-----------------------------------------------------------------------------
(* What the operators on contents give. *)

\* The contents a writer installs differ from what it read in its own setting.
LEMMA OutputFields ==
  ASSUME TypeOK, NEW w \in Settings
  PROVE  /\ Output(w) \in Contents
         /\ Output(w).set = [source[w].set EXCEPT ![w] = asked[w]]
         /\ Output(w).note = source[w].note /\ Output(w).whole = source[w].whole
BY DEF TypeOK, Contents, Output

\* A save of the editor leaves the settings as they are.
LEMMA EditedFields ==
  ASSUME NEW c \in Contents, edits \in Nat
  PROVE  /\ Edited(c) \in Contents
         /\ Edited(c).set = c.set /\ Edited(c).note = edits + 1 /\ Edited(c).whole = TRUE
BY DEF Contents, Edited

\* Truncating a file keeps everything else of it.
LEMMA CutFields ==
  ASSUME NEW c \in Contents, NEW b \in BOOLEAN
  PROVE  /\ Cut(c, b) \in Contents
         /\ Cut(c, b).set = c.set
         /\ Cut(c, b).note = c.note
         /\ Cut(c, b).whole = b
BY DEF Contents, Cut

\* The file of a fresh installation.
LEMMA InstalledContents ==
  /\ Installed \in Contents /\ Installed.note = 0 /\ Installed.whole = TRUE
  /\ Installed.set = [w \in Settings |-> 0]
BY DEF Installed, Contents

\* The invariant holds when the program is installed.
LEMMA ConfigInit == Init => Inv
<1> SUFFICES ASSUME Init PROVE Inv  OBVIOUS
<1>1. TypeOK
  <2>1. 0 \in 0..MaxSets /\ 0 \in 0..MaxEdits /\ 0 \in 0..MaxCrashes  OBVIOUS
  <2> QED  BY <2>1, InstalledContents DEF Init, TypeOK, Pcs
<1>2. Exclusive  BY DEF Init, Exclusive, Holding
<1>3. Kept  BY InstalledContents DEF Init, Kept, Holding, Agreed
<1>4. Saves  BY InstalledContents DEF Init, Saves
<1>5. Sound  BY InstalledContents DEF Init, Sound, Holding, Agreed
<1> QED  BY <1>1, <1>2, <1>3, <1>4, <1>5 DEF Inv

-----------------------------------------------------------------------------
(* The steps of a writer. *)

\* A writer that has only read holds nothing yet.
LEMMA ReadInv ==
  ASSUME Inv, NEW w \in Settings, Read(w)
  PROVE  Inv'
<1> USE DEF Inv, Read, Goto, disk, writer, outside
<1>1. TypeOK'  BY DEF TypeOK, Pcs
<1>2. Exclusive'  BY DEF TypeOK, Exclusive, Holding
<1>3. Kept'  BY DEF TypeOK, Exclusive, Kept, Holding, Agreed
<1>4. Saves'  BY DEF TypeOK, Exclusive, Saves, Holding
<1>5. Sound'  BY DEF TypeOK, Exclusive, Sound, Holding, Agreed
<1> QED  BY <1>1, <1>2, <1>3, <1>4, <1>5

\* The lock is free, so nobody else is between it and the return.
LEMMA LockInv ==
  ASSUME Inv, NEW w \in Settings, Lock(w)
  PROVE  Inv'
<1> USE DEF Inv, Lock, Goto, disk, writer, outside
<1>1. TypeOK'  BY DEF TypeOK, Pcs
<1>2. Exclusive'  BY DEF TypeOK, Exclusive, Holding
<1>3. Kept'  BY DEF TypeOK, Exclusive, Kept, Holding, Agreed
<1>4. Saves'  BY DEF TypeOK, Exclusive, Saves, Holding
<1>5. Sound'  BY DEF TypeOK, Exclusive, Sound, Holding, Agreed
<1> QED  BY <1>1, <1>2, <1>3, <1>4, <1>5

\* After the first comparison the writer has read what is there.
LEMMA CheckInv ==
  ASSUME Inv, NEW w \in Settings, Check(w)
  PROVE  Inv'
<1> USE DEF Inv, Check, Unchanged, Goto, disk, writer, outside
<1>1. TypeOK'  BY DEF TypeOK, Pcs
<1>2. Exclusive'  BY DEF TypeOK, Exclusive, Holding
<1>3. Kept'  BY DEF TypeOK, Exclusive, Kept, Holding, Agreed
<1>4. Saves'  BY DEF TypeOK, Exclusive, Saves, Holding
<1>5. Sound'  BY DEF TypeOK, Exclusive, Sound, Holding, Agreed
<1> QED  BY <1>1, <1>2, <1>3, <1>4, <1>5

\* Only a whole file is parsed.
LEMMA EncodeInv ==
  ASSUME Inv, NEW w \in Settings, Encode(w)
  PROVE  Inv'
<1> USE DEF Inv, Encode, Goto, disk, writer, outside
<1>1. TypeOK'  BY DEF TypeOK, Pcs
<1>2. Exclusive'  BY DEF TypeOK, Exclusive, Holding
<1>3. Kept'  BY DEF TypeOK, Exclusive, Kept, Holding, Agreed
<1>4. Saves'  BY DEF TypeOK, Exclusive, Saves, Holding
<1>5. Sound'  BY DEF TypeOK, Exclusive, Sound, Holding, Agreed
<1> QED  BY <1>1, <1>2, <1>3, <1>4, <1>5

\* Checking the new settings changes nothing on disk.
LEMMA ProjectInv ==
  ASSUME Inv, NEW w \in Settings, Project(w)
  PROVE  Inv'
<1> USE DEF Inv, Project, Goto, disk, writer, outside
<1>1. TypeOK'  BY DEF TypeOK, Pcs
<1>2. Exclusive'  BY DEF TypeOK, Exclusive, Holding
<1>3. Kept'  BY DEF TypeOK, Exclusive, Kept, Holding, Agreed
<1>4. Saves'  BY DEF TypeOK, Exclusive, Saves, Holding
<1>5. Sound'  BY DEF TypeOK, Exclusive, Sound, Holding, Agreed
<1> QED  BY <1>1, <1>2, <1>3, <1>4, <1>5

\* The temporary file is not config.json.
LEMMA CreateInv ==
  ASSUME Inv, NEW w \in Settings, Create(w)
  PROVE  Inv'
<1> USE DEF Inv, Create, Temporary, Goto, disk, writer, outside
<1>1. TypeOK'  BY DEF TypeOK, Pcs
<1>2. Exclusive'  BY DEF TypeOK, Exclusive, Holding
<1>3. Kept'  BY DEF TypeOK, Exclusive, Kept, Holding, Agreed
<1>4. Saves'  BY DEF TypeOK, Exclusive, Saves, Holding
<1>5. Sound'  BY DEF TypeOK, Exclusive, Sound, Holding, Agreed
<1> QED  BY <1>1, <1>2, <1>3, <1>4, <1>5

\* Nor is it once it is written.
LEMMA WriteAllInv ==
  ASSUME Inv, NEW w \in Settings, WriteAll(w)
  PROVE  Inv'
<1> USE DEF Inv, WriteAll, Temporary, Goto, disk, writer, outside
<1>1. TypeOK'  BY DEF TypeOK, Pcs
<1>2. Exclusive'  BY DEF TypeOK, Exclusive, Holding
<1>3. Kept'  BY DEF TypeOK, Exclusive, Kept, Holding, Agreed
<1>4. Saves'  BY DEF TypeOK, Exclusive, Saves, Holding
<1>5. Sound'  BY DEF TypeOK, Exclusive, Sound, Holding, Agreed
<1> QED  BY <1>1, <1>2, <1>3, <1>4, <1>5

\* From here to the rename the temporary file is on disk.
LEMMA SyncAllInv ==
  ASSUME Inv, NEW w \in Settings, SyncAll(w)
  PROVE  Inv'
<1> USE DEF Inv, SyncAll, Temporary, Goto, disk, writer, outside
<1>1. TypeOK'  BY DEF TypeOK, Pcs
<1>2. Exclusive'  BY DEF TypeOK, Exclusive, Holding
<1>3. Kept'  BY DEF TypeOK, Exclusive, Kept, Holding, Agreed
<1>4. Saves'  BY DEF TypeOK, Exclusive, Saves, Holding
<1>5. Sound'  BY DEF TypeOK, Exclusive, Sound, Holding, Agreed
<1> QED  BY <1>1, <1>2, <1>3, <1>4, <1>5

\* After the second comparison the editor's last save is in what was read, and no
\* save in place is under way, since a file cut short is not equal to it.
LEMMA RecheckInv ==
  ASSUME Inv, NEW w \in Settings, Recheck(w)
  PROVE  Inv'
<1> USE DEF Inv, Recheck, Unchanged, Goto, disk, writer, outside
<1>1. TypeOK'  BY DEF TypeOK, Pcs
<1>2. Exclusive'  BY DEF TypeOK, Exclusive, Holding
<1>3. Kept'  BY DEF TypeOK, Exclusive, Kept, Holding, Agreed
<1>4. Saves'  BY DEF TypeOK, Exclusive, Saves, Sound, Holding, Agreed
<1>5. Sound'  BY DEF TypeOK, Exclusive, Sound, Holding, Agreed
<1> QED  BY <1>1, <1>2, <1>3, <1>4, <1>5

\* The step that matters: of the settings only the writer's own changes, and it is
\* set to what was asked.
LEMMA RenameInv ==
  ASSUME Inv, NEW w \in Settings, Rename(w)
  PROVE  Inv'
<1> USE DEF Inv, Rename, Goto, disk, writer, outside
<1>1. TypeOK'  BY OutputFields DEF TypeOK, Pcs
<1>2. Exclusive'  BY DEF TypeOK, Exclusive, Holding
<1>3. Kept'
  <2>1. file.set \in [Settings -> Nat] /\ source[w].set = file.set
    BY DEF TypeOK, Contents, Kept, Holding, Agreed
  <2>2. /\ file'.set = [file.set EXCEPT ![w] = asked[w]]
        /\ asked[w] >= ok[w]
    BY <2>1, OutputFields DEF Kept
  <2>3. \A v \in Settings : file'.set[v] >= ok[v]
    BY <2>1, <2>2 DEF Kept
  <2>4. \A v \in Settings : v # w => pc'[v] \notin Agreed
    BY DEF TypeOK, Exclusive, Holding, Agreed
  <2>5. \A v \in Settings : pc'[v] = "parent" => v = w
    BY DEF TypeOK, Exclusive, Holding
  <2>6. pc'[w] = "parent"  BY DEF TypeOK
  <2> QED  BY <2>1, <2>2, <2>3, <2>4, <2>5, <2>6 DEF Kept, Agreed, Holding
<1>4. Saves'  BY OutputFields DEF TypeOK, Exclusive, Saves, Holding
<1>5. Sound'  BY OutputFields DEF TypeOK, Exclusive, Sound, Holding, Agreed
<1> QED  BY <1>1, <1>2, <1>3, <1>4, <1>5

\* The change is reported when it is durable.
LEMMA SyncParentInv ==
  ASSUME Inv, NEW w \in Settings, SyncParent(w)
  PROVE  Inv'
<1> USE DEF Inv, SyncParent, Leave, disk, writer, outside
<1>1. TypeOK'  BY InstalledContents DEF TypeOK, Pcs
<1>2. Exclusive'  BY DEF TypeOK, Exclusive, Holding
<1>3. Kept'  BY InstalledContents DEF TypeOK, Exclusive, Kept, Holding, Agreed
<1>4. Saves'  BY InstalledContents DEF TypeOK, Exclusive, Saves, Holding
<1>5. Sound'  BY InstalledContents DEF TypeOK, Exclusive, Sound, Holding, Agreed
<1> QED  BY <1>1, <1>2, <1>3, <1>4, <1>5

\* A failure leaves config.json, and every change reported so far, alone.
LEMMA FailsInv ==
  ASSUME Inv, NEW w \in Settings, Fails(w)
  PROVE  Inv'
<1> USE DEF Inv, Fails, Leave, disk, writer, outside
<1>1. TypeOK'  BY InstalledContents DEF TypeOK, Pcs
<1>2. Exclusive'  BY DEF TypeOK, Exclusive, Holding
<1>3. Kept'  BY InstalledContents DEF TypeOK, Exclusive, Kept, Holding, Agreed
<1>4. Saves'  BY InstalledContents DEF TypeOK, Exclusive, Saves, Holding
<1>5. Sound'  BY InstalledContents DEF TypeOK, Exclusive, Sound, Holding, Agreed
<1> QED  BY <1>1, <1>2, <1>3, <1>4, <1>5

\* So does a kill.
LEMMA KilledInv ==
  ASSUME Inv, NEW w \in Settings, Killed(w)
  PROVE  Inv'
<1> USE DEF Inv, Killed, Leave, disk, writer, outside
<1>1. TypeOK'  BY InstalledContents DEF TypeOK, Pcs
<1>2. Exclusive'  BY DEF TypeOK, Exclusive, Holding
<1>3. Kept'  BY InstalledContents DEF TypeOK, Exclusive, Kept, Holding, Agreed
<1>4. Saves'  BY InstalledContents DEF TypeOK, Exclusive, Saves, Holding
<1>5. Sound'  BY InstalledContents DEF TypeOK, Exclusive, Sound, Holding, Agreed
<1> QED  BY <1>1, <1>2, <1>3, <1>4, <1>5

-----------------------------------------------------------------------------
(* Everyone else. *)

\* A save by renaming keeps the settings.
LEMMA EditReplaceInv ==
  ASSUME Inv, EditReplace
  PROVE  Inv'
<1> USE DEF Inv, Between
<1>0. edits \in Nat /\ file \in Contents  BY DEF TypeOK
<1>n. /\ file' \in Contents /\ durable' = file' /\ flushed' = TRUE
      /\ file'.set = file.set /\ file'.note = edits + 1 /\ file'.whole = TRUE
  BY <1>0, EditedFields DEF EditReplace, Saved
<1>c. /\ edits' = edits + 1 /\ edits < MaxEdits /\ editor = "idle" /\ editor' = editor
      /\ raced' = (raced \/ Between)
      /\ UNCHANGED <<lock, pc, source, tmp, asked, ok, crashes>>
  BY DEF EditReplace, Saved, writer
<1>1. TypeOK'
  <2>1. edits' \in 0..MaxEdits /\ raced' \in BOOLEAN  BY <1>0, <1>c DEF TypeOK
  <2> QED  BY <2>1, <1>n, <1>c DEF TypeOK
<1>2. Exclusive'  BY <1>c DEF Exclusive
<1>3. Kept'  BY <1>n, <1>c DEF Kept
<1>4. Saves'  BY <1>0, <1>n, <1>c DEF TypeOK, Saves
<1>5. Sound'  BY <1>n, <1>c DEF Sound
<1> QED  BY <1>1, <1>2, <1>3, <1>4, <1>5

\* A save in place starts by cutting the file short.
LEMMA EditStartsInv ==
  ASSUME Inv, EditStarts
  PROVE  Inv'
<1> USE DEF Inv, Between
<1>0. edits \in Nat /\ file \in Contents  BY DEF TypeOK
<1>n. /\ file' \in Contents /\ durable' = file' /\ flushed' = TRUE
      /\ file'.set = file.set /\ file'.note = file.note /\ file'.whole = FALSE
  BY <1>0, CutFields DEF EditStarts, Saved
<1>c. /\ edits' = edits /\ edits < MaxEdits /\ editor' = "saving"
      /\ raced' = (raced \/ Between)
      /\ UNCHANGED <<lock, pc, source, tmp, asked, ok, crashes>>
  BY DEF EditStarts, Saved, writer
<1>1. TypeOK'  BY <1>n, <1>c DEF TypeOK
<1>2. Exclusive'  BY <1>c DEF Exclusive
<1>3. Kept'  BY <1>n, <1>c DEF Kept
<1>4. Saves'  BY <1>n, <1>c DEF Saves
<1>5. Sound'  BY <1>n, <1>c DEF Sound
<1> QED  BY <1>1, <1>2, <1>3, <1>4, <1>5

\* The editor ends in the file it opened, or in one that a rename replaced.
LEMMA EditEndsInv ==
  ASSUME Inv, EditEnds
  PROVE  Inv'
<1> USE DEF Inv, Between
<1>0. edits \in Nat /\ file \in Contents /\ durable \in Contents  BY DEF TypeOK
<1>c. /\ edits' = edits + 1 /\ edits < MaxEdits /\ editor = "saving" /\ editor' = "idle"
      /\ UNCHANGED <<lock, pc, source, tmp, asked, ok, crashes>>
  BY DEF EditEnds, Saved, writer, Saves
<1>e. edits' \in 0..MaxEdits  BY <1>0, <1>c
<1>1. CASE ~file.whole /\ Saved(Edited(file))
  <2>n. /\ file' \in Contents /\ durable' = file' /\ flushed' = TRUE
        /\ file'.set = file.set /\ file'.note = edits + 1 /\ file'.whole = TRUE
        /\ raced' = (raced \/ Between)
    BY <1>0, <1>1, EditedFields DEF Saved
  <2>1. TypeOK'  BY <1>c, <1>e, <2>n DEF TypeOK
  <2>2. Exclusive'  BY <1>c DEF Exclusive
  <2>3. Kept'  BY <1>c, <2>n DEF Kept
  <2>4. Saves'  BY <1>0, <1>c, <2>n DEF Saves
  <2>5. Sound'  BY <1>c, <2>n DEF Sound
  <2> QED  BY <2>1, <2>2, <2>3, <2>4, <2>5
<1>2. CASE file.whole /\ ~(~file.whole /\ Saved(Edited(file)))
  <2>n. /\ raced /\ raced' = raced /\ file' = file /\ flushed' = flushed
        /\ durable' \in Contents /\ durable'.set = durable.set /\ durable'.whole = TRUE
    BY <1>0, <1>2, EditedFields DEF EditEnds, Saves, Contents
  <2>1. TypeOK'  BY <1>c, <1>e, <2>n DEF TypeOK
  <2>2. Exclusive'  BY <1>c DEF Exclusive
  <2>3. Kept'  BY <1>c, <2>n DEF Kept
  <2>4. Saves'  BY <1>c, <2>n DEF Saves
  <2>5. Sound'  BY <1>2, <1>c, <2>n DEF Sound
  <2> QED  BY <2>1, <2>2, <2>3, <2>4, <2>5
<1> QED  BY <1>1, <1>2 DEF EditEnds

\* What comes back is what was on disk or what was written since, whole because
\* it was synced before the rename.
LEMMA PowerLossInv ==
  ASSUME Inv, PowerLoss
  PROVE  Inv'
<1> USE DEF Inv
<1>0. file \in Contents /\ durable \in Contents /\ file.whole \in BOOLEAN /\ flushed = TRUE
  BY DEF TypeOK, Contents, Sound
<1>n. /\ file' \in Contents /\ durable' = file' /\ flushed' = TRUE
      /\ \/ file' = durable
         \/ file'.set = file.set /\ file'.note = file.note /\ file'.whole = file.whole
  <2>1. (file.whole /\ flushed) \in BOOLEAN /\ (file.whole /\ flushed) = file.whole  BY <1>0
  <2> QED  BY <1>0, <2>1, CutFields DEF PowerLoss
<1>c. /\ crashes' = crashes + 1 /\ crashes < MaxCrashes /\ lock' = NoOne
      /\ pc' = [w \in Settings |-> "idle"] /\ tmp' = [w \in Settings |-> "none"]
      /\ source' = [w \in Settings |-> Installed]
      /\ UNCHANGED <<asked, ok, editor, edits, raced>>
  BY DEF PowerLoss
<1>1. TypeOK'
  <2>1. crashes' \in 0..MaxCrashes  BY <1>c DEF TypeOK
  <2> QED  BY <1>n, <1>c, <2>1, InstalledContents DEF TypeOK, Pcs
<1>2. Exclusive'  BY <1>c DEF Exclusive, Holding
<1>3. Kept'  BY <1>n, <1>c DEF Kept, Holding, Agreed
<1>4. Saves'  BY <1>n, <1>c DEF Saves
<1>5. Sound'  BY <1>n, <1>c DEF Sound, Holding, Agreed
<1> QED  BY <1>1, <1>2, <1>3, <1>4, <1>5

\* Every step preserves the invariant.
LEMMA ConfigStep == Inv /\ [Next]_vars => Inv'
<1> SUFFICES ASSUME Inv, [Next]_vars PROVE Inv'  OBVIOUS
<1>1. ASSUME NEW w \in Settings, Writer(w) PROVE Inv'
  BY <1>1, ReadInv, LockInv, CheckInv, EncodeInv, ProjectInv, CreateInv, WriteAllInv,
     SyncAllInv, RecheckInv, RenameInv, SyncParentInv, FailsInv, KilledInv DEF Writer
<1>2. CASE EditReplace  BY <1>2, EditReplaceInv
<1>3. CASE EditStarts  BY <1>3, EditStartsInv
<1>4. CASE EditEnds  BY <1>4, EditEndsInv
<1>5. CASE PowerLoss  BY <1>5, PowerLossInv
<1>6. CASE UNCHANGED vars
  BY <1>6 DEF vars, Inv, TypeOK, Exclusive, Kept, Saves, Sound
<1> QED  BY <1>1, <1>2, <1>3, <1>4, <1>5, <1>6 DEF Next

\* The invariant holds always.
LEMMA ConfigInvariant == Spec => []Inv
BY ConfigInit, ConfigStep, PTL DEF Spec

-----------------------------------------------------------------------------
(* Theorems *)

\* The lock and the two comparisons of mutate_config_at are enough, for any
\* number of settings, writers, saves and crashes: no change that was reported
\* as done is lost, and no save of the editor but one that fell between the
\* second comparison and the rename.
THEOREM UpdatesKept == Spec => []NoLostUpdate
<1>1. Inv => NoLostUpdate  BY DEF Inv, Kept, Saves, NoLostUpdate
<1> QED  BY <1>1, ConfigInvariant, PTL

\* Write, sync and rename in that order never show a reader half a file: every
\* state of config.json is whole, whatever is killed or loses power, unless an
\* editor is writing it in place.
THEOREM FileAlwaysWhole == Spec => []FileWhole
<1>1. Inv => FileWhole  BY DEF Inv, Sound, FileWhole
<1> QED  BY <1>1, ConfigInvariant, PTL
=============================================================================
