------------------------------- MODULE CodeIndex -------------------------------
(***************************************************************************)
(* The index of the workspace's code (internal/tools/codeindex_cache.go):  *)
(* built by a walk over the files, kept per root and size, dropped when a  *)
(* tool writes a file, and saved to a file the next process loads.  The    *)
(* tools of the tasks have one cache, those of discovery another; both use *)
(* the same file.  Tasks in parallel read, write and build.                *)
(***************************************************************************)
EXTENDS FiniteSets

CONSTANTS
  Edits,     \* edits of workspace files, by tools or by others
  IndexKeys, \* cache keys: the root with a maximum of files
  Calls,     \* calls of code.index and code.symbols at one time
  None       \* nothing cached, no call

Caches == {"tasks", "discovery"}

VARIABLES
  edit,     \* how far each edit is
  entries,  \* codeIndexCache.entries of each cache
  disk,     \* data/code_index.json
  call      \* what each call builds or has returned

vars == <<edit, entries, disk, call>>

(* An edit is made by others, or by a tool that first writes the file and  *)
(* then drops the index.                                                   *)
Places == {"new", "writing", "written", "finished", "others"}

Is(places) == {e \in Edits : edit[e] \in places}
InWorkspace == Is({"written", "finished", "others"})
UnderWay == Is({"writing", "written"})

(* An index: the edits it contains, and (history) those that were under    *)
(* way while it was built.                                                 *)
Index == [has : SUBSET Edits, during : SUBSET Edits]
CallRecord == [cache : Caches, key : IndexKeys, at : {"building", "returned"}, index : Index, owed : SUBSET Edits]

TypeOK ==
  /\ edit \in [Edits -> Places]
  /\ entries \in [Caches -> [IndexKeys -> Index \cup {None}]]
  /\ disk \in [IndexKeys -> Index \cup {None}]
  /\ call \in [Calls -> CallRecord \cup {None}]

Nothing == [k \in IndexKeys |-> None]

Init ==
  /\ edit = [e \in Edits |-> "new"]
  /\ entries = [c \in Caches |-> Nothing] /\ disk = Nothing
  /\ call = [c \in Calls |-> None]

(* saveLocked: its error is ignored, and the two caches write through one  *)
(* temporary file, so that the file may stay as it was or be unreadable.   *)
saveLocked(kept) == disk' \in {kept, disk, Nothing}

-----------------------------------------------------------------------------
(* get                                                                     *)

(* A cached index is returned as it is.                                    *)
Hit(c, cache, key) ==
  /\ call[c] = None /\ entries[cache][key] # None
  /\ call' = [call EXCEPT ![c] = [cache |-> cache, key |-> key, at |-> "returned",
                                  index |-> entries[cache][key], owed |-> Is({"finished"})]]
  /\ UNCHANGED <<edit, entries, disk>>

(* Otherwise one is built, without the mutex.  The walk skips directories  *)
(* and files by name and stops at the key's maximum of files; the edits    *)
(* here are of files it does take.                                         *)
Miss(c, cache, key) ==
  /\ call[c] = None /\ entries[cache][key] = None
  /\ call' = [call EXCEPT ![c] = [cache |-> cache, key |-> key, at |-> "building",
                                  index |-> [has |-> InWorkspace, during |-> UnderWay], owed |-> Is({"finished"})]]
  /\ UNCHANGED <<edit, entries, disk>>

(* The walk passes a file that was edited since it began.                  *)
Build(c) ==
  /\ call[c] # None /\ call[c].at = "building"
  /\ \E e \in InWorkspace \ call[c].index.has :
       call' = [call EXCEPT ![c].index.has = @ \cup {e}]
  /\ UNCHANGED <<edit, entries, disk>>

(* The index is cached and saved, whatever was dropped in the meantime.    *)
Insert(c) ==
  /\ call[c] # None /\ call[c].at = "building"
  /\ LET kept == [entries EXCEPT ![call[c].cache][call[c].key] = call[c].index] IN
     /\ entries' = kept
     /\ saveLocked(kept[call[c].cache])
  /\ call' = [call EXCEPT ![c].at = "returned"]
  /\ UNCHANGED edit

(* The tool's result goes to the task, or the walk failed.                 *)
Return(c) ==
  /\ call[c] # None
  /\ call' = [call EXCEPT ![c] = None]
  /\ UNCHANGED <<edit, entries, disk>>

-----------------------------------------------------------------------------
(* The tools that write                                                    *)

(* What a build under way at the edit of e remembers of it.                *)
Noting(e) == [c \in Calls |->
  IF call[c] # None /\ call[c].at = "building" THEN [call[c] EXCEPT !.index.during = @ \cup {e}] ELSE call[c]]

(* file.write and file.patch begin; they write the file ...                *)
Begin(e) ==
  /\ edit[e] = "new"
  /\ edit' = [edit EXCEPT ![e] = "writing"]
  /\ call' = Noting(e)
  /\ UNCHANGED <<entries, disk>>

WriteFile(e) ==
  /\ edit[e] = "writing"
  /\ edit' = [edit EXCEPT ![e] = "written"]
  /\ UNCHANGED <<entries, disk, call>>

(* ... and drop the indexes of the root, of every size, from the cache of  *)
(* the tasks; discovery keeps its own.                                     *)
DroppingOne(cached) == {[k \in IndexKeys |-> IF k = l THEN None ELSE cached[k]] : l \in IndexKeys}
Dropped(cached) == {Nothing}

Invalidate(e) ==
  /\ edit[e] = "written"
  /\ edit' = [edit EXCEPT ![e] = "finished"]
  /\ \E kept \in Dropped(entries["tasks"]) :
       /\ entries' = [entries EXCEPT !["tasks"] = kept]
       /\ saveLocked(kept)
  /\ UNCHANGED call

(* shell.run, test.run, git, or the user edit files and drop no index.     *)
EditByOthers(e) ==
  /\ edit[e] = "new"
  /\ edit' = [edit EXCEPT ![e] = "others"]
  /\ UNCHANGED <<entries, disk, call>>

(* A new process: both caches load the file.  What earlier processes wrote *)
(* may be missing from it.                                                 *)
Restart ==
  /\ entries' = [c \in Caches |-> disk]
  /\ edit' = [e \in Edits |-> IF edit[e] \in {"written", "finished"} THEN "others"
                              ELSE IF edit[e] = "writing" THEN "new" ELSE edit[e]]
  /\ call' = [c \in Calls |-> None]
  /\ UNCHANGED disk

Next ==
  \/ \E c \in Calls :
       \/ \E cache \in Caches, key \in IndexKeys : Hit(c, cache, key) \/ Miss(c, cache, key)
       \/ Build(c) \/ Insert(c) \/ Return(c)
  \/ \E e \in Edits : Begin(e) \/ WriteFile(e) \/ Invalidate(e) \/ EditByOthers(e)
  \/ Restart

Spec == Init /\ [][Next]_vars

-----------------------------------------------------------------------------
(* An index a task gets contains every edit that file.write or file.patch  *)
(* had finished when the task asked for it, except those under way while   *)
(* it was built: nothing takes such an index out of the cache again (get,  *)
(* invalidate).  Edits by others, those of earlier processes, files the    *)
(* walk skips or has no room for and the cache of discovery are not        *)
(* covered.                                                                *)
IndexCoversWrites ==
  \A c \in Calls :
    call[c] # None /\ call[c].at = "returned" /\ call[c].cache = "tasks"
      => call[c].owed \subseteq call[c].index.has \cup call[c].index.during
=============================================================================
