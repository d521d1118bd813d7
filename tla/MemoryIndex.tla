------------------------------ MODULE MemoryIndex ------------------------------
(***************************************************************************)
(* The memories of finished and failed tasks (internal/memory/index.go):   *)
(* a map in memory and a JSONL file that is written whole after every      *)
(* change, through a temporary file and a rename.  Tasks that end in       *)
(* parallel and the console change and save at the same time, under no     *)
(* common lock; the process may crash at any step.                         *)
(***************************************************************************)
EXTENDS Naturals, FiniteSets

CONSTANTS
  Memories,   \* memories that come up; an id is never used again
  Writers,    \* tasks and console requests that change the index
  MaxCrashes, \* bound: crashes
  None        \* no memory, no file

Path == "memories.jsonl"
Tmp == "memories.jsonl.tmp"
Names == {Path, Tmp}

VARIABLES
  items,      \* Index.items
  file,       \* the two files: the memories in each, or None
  mixed,      \* files that two writers wrote to at one time
  writer,     \* what each writer does
  known,      \* ids given out
  saved,      \* history: added, reported saved and not removed since
  removed,    \* history: removed, and reported saved
  crowded,    \* history: two saves were in progress at one time
  loaded,     \* the process is up: it could load its file
  crashes

vars == <<items, file, mixed, writer, known, saved, removed, crowded, loaded, crashes>>

(* A writer keeps its file open under the name the file has, which the     *)
(* rename of another may change, or "orphan" when no name is left.         *)
Idle == [at |-> "idle", op |-> "none", of |-> None, fd |-> "none", todo |-> {}]

TypeOK ==
  /\ items \in SUBSET Memories
  /\ file \in [Names -> (SUBSET Memories) \cup {None}] /\ mixed \subseteq Names
  /\ writer \in [Writers -> [at : {"idle", "changed", "opened", "writing"}, op : {"none", "add", "remove"},
                             of : Memories \cup {None}, fd : Names \cup {"none", "orphan"}, todo : SUBSET Memories]]
  /\ known \cup saved \cup removed \subseteq Memories
  /\ crowded \in BOOLEAN /\ loaded \in BOOLEAN /\ crashes \in 0 .. MaxCrashes

Init ==
  /\ items = {} /\ file = [n \in Names |-> None]
  /\ mixed = {} /\ known = {}
  /\ writer = [w \in Writers |-> Idle]
  /\ saved = {} /\ removed = {} /\ crowded = FALSE
  /\ loaded = TRUE /\ crashes = 0

Saving(w) == writer[w].at \in {"opened", "writing"}

-----------------------------------------------------------------------------
(* Changes, each under the mutex of the index                              *)

(* A finished or failed task, or the console, adds a new memory.           *)
Add(w, m) ==
  /\ loaded /\ writer[w] = Idle /\ m \notin known
  /\ known' = known \cup {m}
  /\ items' = items \cup {m}
  /\ writer' = [writer EXCEPT ![w] = [Idle EXCEPT !.at = "changed", !.op = "add", !.of = m]]
  /\ UNCHANGED <<file, mixed, saved, removed, crowded, loaded, crashes>>

(* The console deletes a memory it finds.                                  *)
Remove(w, m) ==
  /\ loaded /\ writer[w] = Idle /\ m \in items
  /\ items' = items \ {m}
  /\ saved' = saved \ {m}
  /\ writer' = [writer EXCEPT ![w] = [Idle EXCEPT !.at = "changed", !.op = "remove", !.of = m]]
  /\ UNCHANGED <<file, mixed, known, removed, crowded, loaded, crashes>>

-----------------------------------------------------------------------------
(* SaveJSONL                                                               *)

InPlace == Path
SaveTo == Tmp

(* Open the temporary file, truncating the one of a save in progress.      *)
Open(w) ==
  /\ writer[w].at = "changed"
  /\ file' = [file EXCEPT ![SaveTo] = {}]
  /\ mixed' = IF \E v \in Writers : writer[v].fd = SaveTo THEN mixed \cup {SaveTo} ELSE mixed \ {SaveTo}
  /\ writer' = [writer EXCEPT ![w].at = "opened", ![w].fd = SaveTo]
  /\ crowded' = (crowded \/ \E v \in Writers : Saving(v))
  /\ UNCHANGED <<items, known, saved, removed, loaded, crashes>>

(* The items are copied under the mutex; what is written from then on is   *)
(* incomplete until the last of them.                                      *)
Items(w) ==
  /\ writer[w].at = "opened"
  /\ writer' = [writer EXCEPT ![w].at = "writing", ![w].todo = items]
  /\ UNCHANGED <<items, file, mixed, known, saved, removed, crowded, loaded, crashes>>

Encode(w) ==
  /\ writer[w].at = "writing"
  /\ \E m \in writer[w].todo :
       /\ file' = [n \in Names |-> IF n = writer[w].fd THEN file[n] \cup {m} ELSE file[n]]
       /\ writer' = [writer EXCEPT ![w].todo = @ \ {m}]
  /\ UNCHANGED <<items, mixed, known, saved, removed, crowded, loaded, crashes>>

(* What the open files are called once the temporary one is renamed.       *)
Renamed(fd) == IF fd = SaveTo THEN Path ELSE IF fd = Path THEN "orphan" ELSE fd

(* All lines are out: the temporary file takes the name of the old one,    *)
(* and the change is reported saved.  When another save has renamed it     *)
(* there is nothing to rename: an error.                                   *)
Rename(w) ==
  /\ writer[w].at = "writing" /\ writer[w].todo = {} /\ file[SaveTo] # None
  /\ file' = [[file EXCEPT ![SaveTo] = None] EXCEPT ![Path] = file[SaveTo]]
  /\ mixed' = IF SaveTo \in mixed THEN {Path} ELSE {}
  /\ saved' = IF writer[w].op = "add" THEN saved \cup ({writer[w].of} \cap items) ELSE saved
  /\ removed' = IF writer[w].op = "remove" THEN removed \cup {writer[w].of} ELSE removed
  /\ writer' = [v \in Writers |-> IF v = w THEN Idle ELSE [writer[v] EXCEPT !.fd = Renamed(@)]]
  /\ UNCHANGED <<items, known, crowded, loaded, crashes>>

(* Any step of the save fails and the change is reported as not saved; it  *)
(* stays in memory.                                                        *)
SaveFails(w) ==
  /\ writer[w].at # "idle"
  /\ writer' = [writer EXCEPT ![w] = Idle]
  /\ UNCHANGED <<items, file, mixed, known, saved, removed, crowded, loaded, crashes>>

-----------------------------------------------------------------------------
(* The process dies and starts again with what LoadJSONL reads; a file of  *)
(* mixed lines cannot be decoded, and the console does not come up.        *)
Crash ==
  /\ loaded /\ crashes < MaxCrashes
  /\ crashes' = crashes + 1
  /\ writer' = [w \in Writers |-> Idle]
  /\ loaded' = (Path \notin mixed)
  /\ items' = IF file[Path] = None \/ Path \in mixed THEN {} ELSE file[Path]
  /\ UNCHANGED <<file, mixed, known, saved, removed, crowded>>

Next ==
  \/ \E w \in Writers :
       \/ \E m \in Memories : Add(w, m) \/ Remove(w, m)
       \/ Open(w) \/ Items(w) \/ Encode(w) \/ Rename(w) \/ SaveFails(w)
  \/ Crash

Spec == Init /\ [][Next]_vars

-----------------------------------------------------------------------------
(* Unless two saves were in progress at one time, every change reported    *)
(* saved is in memories.jsonl, through crashes and failed saves at any     *)
(* step: what was added is there, what was removed is not (SaveJSONL       *)
(* writes a temporary file and renames it).  Nothing keeps two saves       *)
(* apart: with them the file may lose, mix or tear the memories.           *)
SavedMemoriesSurvive ==
  ~ crowded =>
    /\ saved # {} => file[Path] # None /\ saved \subseteq file[Path]
    /\ file[Path] # None => removed \cap file[Path] = {}
    /\ loaded
=============================================================================
