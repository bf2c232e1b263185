------------------------------ MODULE LogFiles ------------------------------
(***************************************************************************)
(* The log directory of an EffectiveSink: how CacheToFile_ names, rotates  *)
(* and appends to the log files (UpdateFilePath_) and how the repeated     *)
(* task ElimateFiles_ keeps the directory below its quota.  Both run on    *)
(* the sink's only worker.  Sizes count units of one chunk size; the       *)
(* contents of the files are in module EffectiveSink.                      *)
(***************************************************************************)
EXTENDS Integers, FiniteSets, Functions

CONSTANTS
    SingleSize,       \* config_.single_size, in megabytes
    TotalSize,        \* config_.total_size, in megabytes
    Mega,             \* bytes in a megabyte
    Word,             \* number of values of uint64_t
    ChunkSizes,       \* sizes a chunk can have, its header included
    OldFiles,         \* .log files found in the directory: name -> size
    TicksPerSecond,   \* resolution of file times; names have seconds
    MaxClock,         \* bound: ticks
    MaxWrites,        \* bound: chunks
    MaxIndex,         \* bound: index of the loop in lines 194-196
    MaxRestarts,      \* bound: restarts of the process
    MaxRemovals       \* bound: files removed from outside

\* Names of .log files the sink chooses: index 0 stands for no suffix and k + 1
\* for the suffix _k.  OldFiles have indexed names of second 0, which is over
\* when the sink starts.
Name == [second : Nat, index : Nat]

ASSUME FilesAssumption ==
    /\ SingleSize \in Nat /\ TotalSize \in Nat
    /\ Mega \in Nat \ {0} /\ Word \in Nat \ {0}
    /\ ChunkSizes \subseteq Nat \ {0}
    /\ DOMAIN OldFiles \subseteq Name /\ IsFiniteSet(DOMAIN OldFiles)
    /\ \A f \in DOMAIN OldFiles :
           f.second = 0 /\ f.index > 0 /\ OldFiles[f] \in Nat
    /\ TicksPerSecond \in Nat \ {0}
    /\ MaxClock \in Nat /\ MaxWrites \in Nat /\ MaxIndex \in Nat
    /\ MaxRestarts \in Nat
    /\ MaxRemovals \in Nat

\* space_cast between units whose ratio is num / den.
SpaceCast(count, num, den) == ((count * num) % Word) \div den

SingleBytes == SpaceCast(SingleSize, Mega, 1)
TotalBytes  == SpaceCast(TotalSize, Mega, 1)

NoPath == [second |-> 0, index |-> 0]    \* log_file_path_.empty()

VARIABLES
    clock,       \* time, in ticks
    dir,         \* the .log files: name -> size and last write time
    path,        \* log_file_path_
    wpc,         \* where the worker is in CacheToFile_
    chunk,       \* size of the chunk being written
    candidate,   \* the name the loop of lines 194-196 tests
    index,       \* its counter
    writes,      \* chunks written
    restarts,    \* processes begun after the first
    removals     \* files removed from outside

vars == <<clock, dir, path, wpc, chunk, candidate, index, writes, restarts,
          removals>>

File == [size : Nat, mtime : Nat]

TypeOK ==
    /\ clock \in Nat
    /\ DOMAIN dir \subseteq Name
    /\ dir \in [DOMAIN dir -> File]
    /\ path \in Name
    /\ wpc \in {"idle", "path", "dedupe", "append"}
    /\ chunk \in Nat
    /\ candidate \in Name
    /\ index \in Nat
    /\ writes \in Nat
    /\ restarts \in Nat
    /\ removals \in Nat

Init ==
    /\ clock = TicksPerSecond
    /\ dir = [f \in DOMAIN OldFiles |-> [size |-> OldFiles[f], mtime |-> 0]]
    /\ path = NoPath
    /\ wpc = "idle"
    /\ chunk = 0
    /\ candidate = NoPath
    /\ index = 0
    /\ writes = 0
    /\ restarts = 0
    /\ removals = 0

-----------------------------------------------------------------------------
(* CacheToFile_ and UpdateFilePath_. *)

exists(f) == f \in DOMAIN dir

\* fs::GetFileSize: 0 for a file that is not there.
GetFileSize(f) == IF exists(f) THEN dir[f].size ELSE 0

\* {prefix}_{datetime}, to the second.
GetDateTimePath == [second |-> clock \div TicksPerSecond, index |-> 0]

\* The worker has a chunk to write.
BeginChunk ==
    /\ wpc = "idle"
    /\ writes < MaxWrites
    /\ wpc' = "path"
    /\ \E n \in ChunkSizes : chunk' = n
    /\ UNCHANGED <<clock, dir, path, candidate, index, writes, restarts,
                   removals>>

\* Mutant: the size of the current file is not looked at.
Rotate_Never == FALSE

\* The current file has outgrown the limit.
Rotate == GetFileSize(path) > SingleBytes

\* The first chunk of a process names its file by the time, whether or not
\* that file exists; later ones keep the file until it has to be rotated.
UpdateFilePath ==
    /\ wpc = "path"
    /\ \/ /\ path = NoPath
          /\ path' = GetDateTimePath
          /\ wpc' = "append"
          /\ UNCHANGED <<candidate, index>>
       \/ /\ path # NoPath /\ ~Rotate
          /\ wpc' = "append"
          /\ UNCHANGED <<path, candidate, index>>
       \/ /\ path # NoPath /\ Rotate /\ ~exists(GetDateTimePath)
          /\ path' = GetDateTimePath
          /\ wpc' = "append"
          /\ UNCHANGED <<candidate, index>>
       \/ /\ path # NoPath /\ Rotate /\ exists(GetDateTimePath)
          /\ candidate' = GetDateTimePath
          /\ index' = 0
          /\ wpc' = "dedupe"
          /\ UNCHANGED path
    /\ UNCHANGED <<clock, dir, chunk, writes, restarts, removals>>

\* while (exists(candidate)) ++index;   the candidate stays the same.
NextIndex ==
    /\ wpc = "dedupe"
    /\ exists(candidate)
    /\ index' = IF index < MaxIndex THEN index + 1 ELSE index
    /\ UNCHANGED <<clock, dir, path, wpc, chunk, candidate, writes, restarts,
                   removals>>

\* Mutant: the suffix is one too small.
UseIndex_OneLess ==
    /\ wpc = "dedupe"
    /\ ~exists(candidate)
    /\ path' = [candidate EXCEPT !.index = index - 1]
    /\ wpc' = "append"
    /\ UNCHANGED <<clock, dir, chunk, candidate, index, writes, restarts,
                   removals>>

\* The file is named by the index, whether or not that name is taken.
UseIndex ==
    /\ wpc = "dedupe"
    /\ ~exists(candidate)
    /\ path' = [candidate EXCEPT !.index = index + 1]
    /\ wpc' = "append"
    /\ UNCHANGED <<clock, dir, chunk, candidate, index, writes, restarts,
                   removals>>

\* ofstream(file_path, app): creates the file when it is not there.
AppendChunk ==
    /\ wpc = "append"
    /\ dir' = [f \in DOMAIN dir \cup {path} |->
                  IF f = path
                  THEN [size |-> GetFileSize(path) + chunk, mtime |-> clock]
                  ELSE dir[f]]
    /\ writes' = writes + 1
    /\ wpc' = "idle"
    /\ UNCHANGED <<clock, path, chunk, candidate, index, restarts, removals>>

-----------------------------------------------------------------------------
(* ElimateFiles_ *)

\* What std::sort can make of the files: newest first, and files with equal
\* times in either order.
Rankings ==
    {r \in [DOMAIN dir -> 1..Cardinality(DOMAIN dir)] :
        /\ \A f, g \in DOMAIN dir : r[f] = r[g] => f = g
        /\ \A f, g \in DOMAIN dir : dir[f].mtime > dir[g].mtime => r[f] < r[g]}

\* used_bytes when the loop has counted the files of S.
Used(S) == SumFunctionOnSet([f \in S |-> dir[f].size], S)

\* Mutant: the size of each file is compared with the quota.
Kept_EachAlone(r) == {f \in DOMAIN dir : dir[f].size <= TotalBytes}

\* Mutant: the files are sorted oldest first.
Kept_OldestFirst(r) ==
    {f \in DOMAIN dir : Used({g \in DOMAIN dir : r[g] >= r[f]}) <= TotalBytes}

\* The files that stay; used_bytes counts removed files too.
Kept(r) ==
    {f \in DOMAIN dir : Used({g \in DOMAIN dir : r[g] <= r[f]}) <= TotalBytes}

ElimateFiles ==
    /\ wpc = "idle"
    /\ \E r \in Rankings : dir' = [f \in Kept(r) |-> dir[f]]
    /\ UNCHANGED <<clock, path, wpc, chunk, candidate, index, writes, restarts,
                   removals>>

-----------------------------------------------------------------------------
(* The environment. *)

Tick ==
    /\ clock < MaxClock
    /\ clock' = clock + 1
    /\ UNCHANGED <<dir, path, wpc, chunk, candidate, index, writes, restarts,
                   removals>>

\* Somebody deletes a log file.
RemoveFile ==
    /\ removals < MaxRemovals
    /\ removals' = removals + 1
    /\ \E f \in DOMAIN dir : dir' = [g \in DOMAIN dir \ {f} |-> dir[g]]
    /\ UNCHANGED <<clock, path, wpc, chunk, candidate, index, writes, restarts>>

\* Mutant: a new process goes on with a file it finds.
Restart_FoundFile ==
    /\ restarts < MaxRestarts
    /\ restarts' = restarts + 1
    /\ \E f \in DOMAIN dir : path' = f
    /\ wpc' = "idle"
    /\ UNCHANGED <<clock, dir, chunk, candidate, index, writes, removals>>

\* A new process: log_file_path_ is empty again.
Restart ==
    /\ restarts < MaxRestarts
    /\ restarts' = restarts + 1
    /\ path' = NoPath
    /\ wpc' = "idle"
    /\ UNCHANGED <<clock, dir, chunk, candidate, index, writes, removals>>

Worker == UpdateFilePath \/ NextIndex \/ UseIndex \/ AppendChunk

Next ==
    \/ BeginChunk \/ Worker \/ ElimateFiles
    \/ Tick \/ RemoveFile \/ Restart

Spec == Init /\ [][Next]_vars

\* The worker thread keeps running; nothing else has to happen.
FairSpec == Spec /\ WF_vars(Worker)

-----------------------------------------------------------------------------
(* Properties. *)

(***************************************************************************)
(* After ElimateFiles_ the directory is within total_size, whatever was    *)
(* written, found or removed before.                                       *)
(***************************************************************************)
QuotaRestored ==
    [][ElimateFiles =>
          SumFunction([f \in DOMAIN dir' |-> dir'[f].size])
              <= TotalSize * Mega]_vars

(***************************************************************************)
(* ElimateFiles_ does not delete the file the sink is writing, unless it   *)
(* is alone over the quota or another file has the same time: the file at  *)
(* log_file_path_ is the newest whenever the worker is not writing.        *)
(***************************************************************************)
CurrentFileKept ==
    [][(/\ ElimateFiles
        /\ exists(path)
        /\ dir[path].size <= TotalSize * Mega
        /\ \A f \in DOMAIN dir \ {path} : dir[f].mtime # dir[path].mtime)
       => path \in DOMAIN dir']_vars

\* The lemma behind it, for every reachable state.
CurrentIsNewest ==
    wpc = "idle" /\ path # NoPath /\ exists(path) =>
        \A f \in DOMAIN dir : dir[f].mtime <= dir[path].mtime

\* No file is newer than the clock; with this CurrentIsNewest is inductive.
\* A directory has finitely many files, which the sums over it need.
FilesInv ==
    /\ TypeOK
    /\ IsFiniteSet(DOMAIN dir)
    /\ \A f \in DOMAIN dir : dir[f].mtime <= clock
    /\ CurrentIsNewest

(***************************************************************************)
(* A process lets a file outgrow single_size by one chunk at most.  Not so *)
(* a process started in the second of an older file: it appends to that    *)
(* file without looking at its size; nor one whose files are removed       *)
(* behind its back, which may choose an index twice.                       *)
(***************************************************************************)
OvershootOneChunk ==
    restarts = 0 /\ removals = 0 =>
        \A f \in DOMAIN dir \ DOMAIN OldFiles :
            \E n \in ChunkSizes : dir[f].size <= SingleSize * Mega + n

(***************************************************************************)
(* The comment at line 191, "a name already taken gets an index": the      *)
(* search for a free name ends.  The code tests the same name for ever.    *)
(***************************************************************************)
IndexFound == (wpc = "dedupe") ~> (wpc = "append")
=============================================================================
