--------------------------- MODULE LogFilesProofs ---------------------------
(* Theorems about LogFiles, for any sizes, clock and directory. *)
EXTENDS LogFiles, FiniteSetTheorems, TLAPS

\* The name of this second is a name.
LEMMA NowType ==
    ASSUME clock \in Nat
    PROVE  GetDateTimePath \in Name
<1>1. TicksPerSecond \in Nat /\ TicksPerSecond > 0
  BY FilesAssumption
<1>2. clock \div TicksPerSecond \in Nat
  BY <1>1
<1> QED
  BY <1>2 DEF GetDateTimePath, Name

\* A directory of which only some files are kept.
LEMMA KeepSome ==
    ASSUME FilesInv, NEW S \in SUBSET DOMAIN dir,
           dir' = [f \in S |-> dir[f]],
           UNCHANGED <<clock, path, wpc, chunk, candidate, index, writes,
                       restarts>>,
           removals' \in Nat
    PROVE  FilesInv'
<1>1. DOMAIN dir' = S /\ \A f \in S : dir'[f] = dir[f]
  OBVIOUS
<1>2. TypeOK'
  BY <1>1 DEF FilesInv, TypeOK
<1>3. (\A f \in DOMAIN dir : dir[f].mtime <= clock)'
  BY <1>1 DEF FilesInv
<1>4. CurrentIsNewest'
  BY <1>1 DEF FilesInv, CurrentIsNewest, exists
<1>5. IsFiniteSet(DOMAIN dir')
  BY <1>1, FS_Subset DEF FilesInv
<1> QED
  BY <1>2, <1>3, <1>4, <1>5 DEF FilesInv

\* The initial directory.
LEMMA FilesInit ==
    Init => FilesInv
<1> SUFFICES ASSUME Init
             PROVE  FilesInv
  OBVIOUS
<1>1. NoPath \in Name
  BY DEF NoPath, Name
<1>2. DOMAIN dir = DOMAIN OldFiles
  BY DEF Init
<1>3. \A f \in DOMAIN dir : dir[f] \in File /\ dir[f].mtime = 0
  BY <1>2, FilesAssumption DEF Init, File
<1>4. dir \in [DOMAIN dir -> File]
  BY <1>2, <1>3 DEF Init
<1>5. TypeOK
  BY <1>1, <1>2, <1>4, FilesAssumption DEF Init, TypeOK
<1>6. \A f \in DOMAIN dir : dir[f].mtime <= clock
  BY <1>3, <1>5 DEF TypeOK
<1>7. CurrentIsNewest
  BY <1>3 DEF CurrentIsNewest, exists
<1> QED
  BY <1>2, <1>5, <1>6, <1>7, FilesAssumption DEF FilesInv

\* Appending makes the current file the newest.
LEMMA AppendStep ==
    ASSUME FilesInv, AppendChunk
    PROVE  FilesInv'
<1> DEFINE new == [size |-> GetFileSize(path) + chunk, mtime |-> clock]
<1>1. /\ UNCHANGED <<clock, path, chunk, candidate, index, restarts, removals>>
      /\ wpc' = "idle"
      /\ writes' = writes + 1
      /\ DOMAIN dir' = DOMAIN dir \cup {path}
      /\ \A f \in DOMAIN dir' : dir'[f] = IF f = path THEN new ELSE dir[f]
      /\ dir' = [f \in DOMAIN dir' |-> dir'[f]]
  BY DEF AppendChunk
<1>2. GetFileSize(path) \in Nat
  BY DEF GetFileSize, exists, FilesInv, TypeOK, File
<1>3. new \in File /\ new.mtime = clock
  BY <1>2 DEF File, FilesInv, TypeOK
<1> HIDE DEF new
<1>4. \A f \in DOMAIN dir' : dir'[f] \in File /\ dir'[f].mtime <= clock
  BY <1>1, <1>3 DEF FilesInv, TypeOK
<1>5. TypeOK'
  BY <1>1, <1>4 DEF FilesInv, TypeOK
<1>6. dir'[path].mtime = clock
  BY <1>1, <1>3
<1>7. CurrentIsNewest'
  BY <1>1, <1>4, <1>6 DEF CurrentIsNewest
<1>8. IsFiniteSet(DOMAIN dir')
  BY <1>1, FS_AddElement DEF FilesInv
<1> QED
  BY <1>1, <1>4, <1>5, <1>7, <1>8 DEF FilesInv

\* Every step keeps the invariant.
LEMMA FilesStep ==
    FilesInv /\ [Next]_vars => FilesInv'
<1> SUFFICES ASSUME FilesInv, [Next]_vars
             PROVE  FilesInv'
  OBVIOUS
<1> USE DEF FilesInv, TypeOK, CurrentIsNewest, exists
<1>1. CASE BeginChunk
  BY <1>1, FilesAssumption DEF BeginChunk
<1>2. CASE UpdateFilePath
  BY <1>2, NowType DEF UpdateFilePath
<1>3. CASE NextIndex
  BY <1>3 DEF NextIndex
<1>4. CASE UseIndex
  <2>1. [candidate EXCEPT !.index = index + 1] \in Name
    BY DEF Name
  <2> QED
    BY <1>4, <2>1 DEF UseIndex
<1>5. CASE AppendChunk
  BY <1>5, AppendStep
<1>6. CASE ElimateFiles
  <2>1. PICK r \in Rankings : dir' = [f \in Kept(r) |-> dir[f]]
    BY <1>6 DEF ElimateFiles
  <2>2. Kept(r) \in SUBSET DOMAIN dir
    BY DEF Kept
  <2> QED
    BY <1>6, <2>1, <2>2, KeepSome DEF ElimateFiles
<1>7. CASE Tick
  BY <1>7 DEF Tick, File
<1>8. CASE RemoveFile
  <2>1. PICK f \in DOMAIN dir : dir' = [g \in DOMAIN dir \ {f} |-> dir[g]]
    BY <1>8 DEF RemoveFile
  <2>2. DOMAIN dir \ {f} \in SUBSET DOMAIN dir
    OBVIOUS
  <2>3. /\ UNCHANGED <<clock, path, wpc, chunk, candidate, index, writes,
                       restarts>>
        /\ removals' \in Nat
    BY <1>8 DEF RemoveFile
  <2> HIDE DEF FilesInv, TypeOK, CurrentIsNewest, exists
  <2> QED
    BY <2>1, <2>2, <2>3, KeepSome
<1>9. CASE Restart
  <2>1. path' = NoPath /\ NoPath \in Name
    BY <1>9 DEF Restart, NoPath, Name
  <2> QED
    BY <1>9, <2>1 DEF Restart
<1>10. CASE UNCHANGED vars
  BY <1>10 DEF vars
<1> QED
  BY <1>1, <1>2, <1>3, <1>4, <1>5, <1>6, <1>7, <1>8, <1>9, <1>10
     DEF Next, Worker

\* Whenever the worker is not writing, no log file is newer than the one at
\* log_file_path_, so that the newest-first order of ElimateFiles_ reaches
\* the current file first.
THEOREM CurrentFileNewest == Spec => []CurrentIsNewest
<1>1. FilesInv => CurrentIsNewest
  BY DEF FilesInv
<1> QED
  BY FilesInit, FilesStep, <1>1, PTL DEF Spec

-----------------------------------------------------------------------------
(* How far a file outgrows single_size. *)

\* The limit, which the conversion to bytes does not raise.
LEMMA SingleBytesBound ==
    /\ SingleBytes \in Nat /\ SingleSize * Mega \in Nat
    /\ SingleBytes <= SingleSize * Mega
<1>1. SingleSize \in Nat /\ Mega \in Nat /\ Word \in Nat \ {0}
  BY FilesAssumption
<1>2. PICK m \in Nat : m = SingleSize * Mega
  BY <1>1
<1>3. (m % Word) \in Nat /\ m % Word <= m
  BY <1>1
<1>4. \A k \in Nat : k \div 1 = k
  OBVIOUS
<1> QED
  BY <1>2, <1>3, <1>4 DEF SingleBytes, SpaceCast

\* In a process that finds no file of its own and loses none: a file that is
\* about to grow is not over the limit yet, and the loop of lines 194-196
\* does not end.
RoomToAppend ==
    /\ path = NoPath => DOMAIN dir \subseteq DOMAIN OldFiles
    /\ wpc = "append" /\ path \notin DOMAIN OldFiles =>
           GetFileSize(path) <= SingleSize * Mega
    /\ wpc = "dedupe" => exists(candidate)

OvershootInv ==
    /\ OvershootOneChunk
    /\ clock >= TicksPerSecond
    /\ wpc # "idle" => chunk \in ChunkSizes
    /\ wpc = "append" => path # NoPath
    /\ ~exists(NoPath)
    /\ restarts = 0 /\ removals = 0 => RoomToAppend

LEMMA OvershootInit == Init => OvershootInv
<1> SUFFICES ASSUME Init PROVE OvershootInv
  OBVIOUS
<1>1. /\ DOMAIN dir = DOMAIN OldFiles /\ wpc = "idle"
      /\ clock >= TicksPerSecond
  BY FilesAssumption DEF Init
<1>2. NoPath \notin DOMAIN OldFiles
  BY FilesAssumption DEF NoPath
<1> QED
  BY <1>1, <1>2 DEF OvershootInv, OvershootOneChunk, RoomToAppend, exists

\* A step that adds no file and no byte.
LEMMA NoFileGrows ==
    ASSUME OvershootInv, DOMAIN dir' \subseteq DOMAIN dir,
           \A f \in DOMAIN dir' : dir'[f] = dir[f],
           restarts' = 0 /\ removals' = 0 => restarts = 0 /\ removals = 0
    PROVE  OvershootOneChunk'
BY DEF OvershootInv, OvershootOneChunk

LEMMA AppendOvershoot ==
    ASSUME FilesInv, OvershootInv, AppendChunk
    PROVE  OvershootInv'
<1> DEFINE new == [size |-> GetFileSize(path) + chunk, mtime |-> clock]
<1>1. /\ wpc = "append" /\ wpc' = "idle"
      /\ UNCHANGED <<clock, path, restarts, removals>>
      /\ DOMAIN dir' = DOMAIN dir \cup {path}
      /\ \A f \in DOMAIN dir' : dir'[f] = IF f = path THEN new ELSE dir[f]
  BY DEF AppendChunk
<1>2. chunk \in ChunkSizes /\ chunk \in Nat /\ new.size = GetFileSize(path) + chunk
  BY <1>1, FilesAssumption DEF OvershootInv
<1>3. GetFileSize(path) \in Nat
  BY DEF GetFileSize, exists, FilesInv, TypeOK, File
<1> HIDE DEF new
<1> SUFFICES ASSUME restarts = 0, removals = 0
             PROVE  OvershootInv'
  BY <1>1 DEF OvershootInv, OvershootOneChunk, exists
<1>4. path \notin DOMAIN OldFiles => new.size <= SingleSize * Mega + chunk
  <2>1. path \notin DOMAIN OldFiles => GetFileSize(path) <= SingleSize * Mega
    BY <1>1 DEF OvershootInv, RoomToAppend
  <2> QED
    BY <1>2, <1>3, <2>1, SingleBytesBound
<1>5. ASSUME NEW f \in DOMAIN dir' \ DOMAIN OldFiles
      PROVE  \E n \in ChunkSizes : dir'[f].size <= SingleSize * Mega + n
  <2>1. CASE f = path
    BY <1>1, <1>2, <1>4, <1>5, <2>1
  <2>2. CASE f # path
    BY <1>1, <1>5, <2>2 DEF OvershootInv, OvershootOneChunk
  <2> QED
    BY <2>1, <2>2
<1>6. path # NoPath /\ clock >= TicksPerSecond
  BY <1>1 DEF OvershootInv
<1> QED
  BY <1>1, <1>5, <1>6 DEF OvershootInv, OvershootOneChunk, RoomToAppend, exists

\* A name made of the time is not the empty one.
LEMMA NowNotEmpty ==
    ASSUME clock \in Nat, clock >= TicksPerSecond
    PROVE  GetDateTimePath # NoPath
<1>1. TicksPerSecond \in Nat \ {0}
  BY FilesAssumption
<1>2. clock \div TicksPerSecond # 0
  <2>1. \A c \in Nat, t \in Nat \ {0} : c < t * (c \div t) + t
    OBVIOUS
  <2> QED
    BY <1>1, <2>1
<1> QED
  BY <1>2 DEF GetDateTimePath, NoPath

\* The four ways through UpdateFilePath_.
LEMMA UpdateOvershoot ==
    ASSUME FilesInv, OvershootInv, UpdateFilePath
    PROVE  OvershootInv'
<1>1. /\ wpc = "path"
      /\ UNCHANGED <<clock, dir, chunk, restarts, removals>>
  BY DEF UpdateFilePath
<1>2. OvershootOneChunk'
  BY <1>1, NoFileGrows
<1>3. chunk' \in ChunkSizes /\ clock' >= TicksPerSecond
  BY <1>1 DEF OvershootInv
<1>4. GetDateTimePath # NoPath
  BY NowNotEmpty DEF OvershootInv, FilesInv, TypeOK
<1>5. \A f : ~exists(f) => GetFileSize(f) <= SingleSize * Mega
  BY SingleBytesBound DEF GetFileSize
<1>6. \A f : GetFileSize(f)' = GetFileSize(f) /\ exists(f)' = exists(f)
  BY <1>1 DEF GetFileSize, exists
<1>7. CASE path = NoPath
  <2>1. path' = GetDateTimePath /\ wpc' = "append"
    BY <1>7 DEF UpdateFilePath
  <2>2. restarts = 0 /\ removals = 0 /\ path' \notin DOMAIN OldFiles =>
           ~exists(path')
    BY <1>7 DEF OvershootInv, RoomToAppend, exists
  <2>3. restarts = 0 /\ removals = 0 /\ path' \notin DOMAIN OldFiles =>
           GetFileSize(path') <= SingleSize * Mega
    BY <1>5, <2>2
  <2> QED
    BY <1>1, <1>2, <1>3, <1>4, <1>6, <2>1, <2>3 DEF OvershootInv, RoomToAppend
<1>8. CASE path # NoPath /\ ~Rotate
  <2>1. UNCHANGED path /\ wpc' = "append"
    BY <1>8 DEF UpdateFilePath
  <2>2. GetFileSize(path) <= SingleSize * Mega
    <3>1. GetFileSize(path) \in Nat
      BY DEF GetFileSize, exists, FilesInv, TypeOK, File
    <3> QED
      BY <1>8, <3>1, SingleBytesBound DEF Rotate
  <2> QED
    BY <1>1, <1>2, <1>3, <1>6, <1>8, <2>1, <2>2 DEF OvershootInv, RoomToAppend
<1>9. CASE path # NoPath /\ Rotate /\ ~exists(GetDateTimePath)
  <2>1. path' = GetDateTimePath /\ wpc' = "append"
    BY <1>9 DEF UpdateFilePath
  <2>2. GetFileSize(path') <= SingleSize * Mega
    BY <1>5, <1>9, <2>1
  <2> QED
    BY <1>1, <1>2, <1>3, <1>4, <1>6, <2>1, <2>2 DEF OvershootInv, RoomToAppend
<1>10. CASE path # NoPath /\ Rotate /\ exists(GetDateTimePath)
  <2>1. candidate' = GetDateTimePath /\ wpc' = "dedupe" /\ UNCHANGED path
    BY <1>10 DEF UpdateFilePath
  <2>2. exists(candidate')
    BY <1>10, <2>1
  <2> QED
    BY <1>1, <1>2, <1>3, <1>6, <1>10, <2>1, <2>2 DEF OvershootInv, RoomToAppend
<1> QED
  BY <1>7, <1>8, <1>9, <1>10

\* Every step keeps the invariant.
LEMMA OvershootStep ==
    FilesInv /\ OvershootInv /\ [Next]_vars => OvershootInv'
<1> SUFFICES ASSUME FilesInv, OvershootInv, [Next]_vars
             PROVE  OvershootInv'
  OBVIOUS
<1>1. clock \in Nat /\ restarts \in Nat /\ removals \in Nat /\ index \in Nat
      /\ TicksPerSecond \in Nat
  BY FilesAssumption DEF FilesInv, TypeOK
<1>2. CASE BeginChunk
  <2>1. /\ wpc' = "path" /\ chunk' \in ChunkSizes
        /\ UNCHANGED <<clock, dir, path, restarts, removals>>
    BY <1>2 DEF BeginChunk
  <2>2. OvershootOneChunk'
    BY <2>1, NoFileGrows
  <2> QED
    BY <2>1, <2>2 DEF OvershootInv, RoomToAppend, exists
<1>3. CASE UpdateFilePath
  BY <1>3, UpdateOvershoot
<1>4. CASE NextIndex
  <2>1. UNCHANGED <<clock, dir, path, wpc, chunk, candidate, restarts, removals>>
    BY <1>4 DEF NextIndex
  <2>2. OvershootOneChunk'
    BY <2>1, NoFileGrows
  <2> QED
    BY <2>1, <2>2 DEF OvershootInv, RoomToAppend, GetFileSize, exists
<1>5. CASE UseIndex
  <2>1. /\ wpc = "dedupe" /\ wpc' = "append" /\ ~exists(candidate)
        /\ path' = [candidate EXCEPT !.index = index + 1]
        /\ UNCHANGED <<clock, dir, chunk, restarts, removals>>
    BY <1>5 DEF UseIndex
  <2>2. OvershootOneChunk'
    BY <2>1, NoFileGrows
  <2>3. ~(restarts = 0 /\ removals = 0)
    BY <2>1 DEF OvershootInv, RoomToAppend
  <2>4. path' # NoPath
    <3>1. candidate \in Name
      BY DEF FilesInv, TypeOK
    <3>2. path'.index = index + 1
      BY <2>1, <3>1 DEF Name
    <3> QED
      BY <1>1, <3>2 DEF NoPath
  <2> QED
    BY <2>1, <2>2, <2>3, <2>4 DEF OvershootInv, exists
<1>6. CASE AppendChunk
  BY <1>6, AppendOvershoot
<1>7. CASE ElimateFiles
  <2>1. PICK r \in Rankings : dir' = [f \in Kept(r) |-> dir[f]]
    BY <1>7 DEF ElimateFiles
  <2>2. /\ DOMAIN dir' \subseteq DOMAIN dir
        /\ \A f \in DOMAIN dir' : dir'[f] = dir[f]
    BY <2>1 DEF Kept
  <2>3. wpc = "idle" /\ UNCHANGED <<clock, path, wpc, restarts, removals>>
    BY <1>7 DEF ElimateFiles
  <2>4. OvershootOneChunk'
    BY <2>2, <2>3, NoFileGrows
  <2> QED
    BY <2>2, <2>3, <2>4 DEF OvershootInv, RoomToAppend, exists
<1>8. CASE Tick
  <2>1. /\ clock' = clock + 1
        /\ UNCHANGED <<dir, path, wpc, chunk, candidate, restarts, removals>>
    BY <1>8 DEF Tick
  <2>2. OvershootOneChunk'
    BY <2>1, NoFileGrows
  <2>3. clock' >= TicksPerSecond
    BY <1>1, <2>1 DEF OvershootInv
  <2> QED
    BY <2>1, <2>2, <2>3 DEF OvershootInv, RoomToAppend, GetFileSize, exists
<1>9. CASE RemoveFile
  <2>1. /\ removals' = removals + 1
        /\ UNCHANGED <<clock, path, wpc, chunk, restarts>>
    BY <1>9 DEF RemoveFile
  <2>2. removals' # 0
    BY <1>1, <2>1
  <2>3. DOMAIN dir' \subseteq DOMAIN dir
    BY <1>9 DEF RemoveFile
  <2> QED
    BY <2>1, <2>2, <2>3 DEF OvershootInv, OvershootOneChunk, exists
<1>10. CASE Restart
  <2>1. /\ restarts' = restarts + 1 /\ wpc' = "idle"
        /\ UNCHANGED <<clock, dir>>
    BY <1>10 DEF Restart
  <2>2. restarts' # 0
    BY <1>1, <2>1
  <2> QED
    BY <2>1, <2>2 DEF OvershootInv, OvershootOneChunk, exists
<1>11. CASE UNCHANGED vars
  <2>1. UNCHANGED <<clock, dir, path, wpc, chunk, candidate, restarts, removals>>
    BY <1>11 DEF vars
  <2>2. OvershootOneChunk'
    BY <2>1, NoFileGrows
  <2> QED
    BY <2>1, <2>2 DEF OvershootInv, RoomToAppend, GetFileSize, exists
<1> QED
  BY <1>2, <1>3, <1>4, <1>5, <1>6, <1>7, <1>8, <1>9, <1>10, <1>11
     DEF Next, Worker

\* The variables have their types in every reachable state.
THEOREM FilesTypes == Spec => []TypeOK
<1>1. FilesInv => TypeOK
  BY DEF FilesInv
<1> QED
  BY FilesInit, FilesStep, <1>1, PTL DEF Spec

\* A process that is the first in its directory and keeps its files lets
\* none outgrow single_size by more than one chunk, for any sizes, also when
\* the conversion of single_size to bytes overflows.
THEOREM OneChunkOver == Spec => []OvershootOneChunk
<1>1. OvershootInv => OvershootOneChunk
  BY DEF OvershootInv
<1> QED
  BY FilesInit, FilesStep, OvershootInit, OvershootStep, <1>1, PTL DEF Spec

-----------------------------------------------------------------------------
(* Induction over finite sets. *)

\* Every nonempty set of numbers has a least one.
LEMMA LeastNat ==
    ASSUME NEW T, T \subseteq Nat, T # {}
    PROVE  \E x \in T : \A y \in T : x <= y
<1> DEFINE R == OpToRel(<, Nat)
<1>1. IsWellFoundedOn(R, Nat)
  BY NatLessThanWellFounded, Zenon
<1> HIDE DEF R
<1>2. PICK x \in T : \A y \in T : ~(<<y, x>> \in R)
  BY <1>1, WFMin
<1>3. ASSUME NEW y \in T PROVE x <= y
  <2>1. <<y, x>> \notin R
    BY <1>2
  <2>2. ~(y < x)
    BY <2>1 DEF R, OpToRel
  <2> QED
    BY <2>2
<1> QED
  BY <1>3

\* Of a nonempty collection of finite sets, one has no other below it.  Every
\* induction over the files of a directory is done with this.
LEMMA MinimalSet ==
    ASSUME NEW S, IsFiniteSet(S), NEW Q \in SUBSET SUBSET S, Q # {}
    PROVE  \E t \in Q : \A u \in Q : u \subseteq t => u = t
<1> DEFINE T == {Cardinality(t) : t \in Q}
<1>1. \A t \in Q : IsFiniteSet(t) /\ Cardinality(t) \in Nat
  BY FS_Subset, FS_CardinalityType
<1>2. T \subseteq Nat /\ T # {}
  <2>1. PICK t \in Q : TRUE
    OBVIOUS
  <2> QED
    BY <1>1, <2>1
<1>3. PICK n \in T : \A m \in T : n <= m
  <2> HIDE DEF T
  <2> QED
    BY <1>2, LeastNat
<1>4. PICK t \in Q : Cardinality(t) = n
  BY <1>3
<1>5. ASSUME NEW u \in Q, u \subseteq t PROVE u = t
  <2>1. Cardinality(u) <= Cardinality(t)
    BY <1>1, <1>5, FS_Subset
  <2>2. Cardinality(t) <= Cardinality(u)
    BY <1>3, <1>4
  <2>3. Cardinality(t) = Cardinality(u)
    BY <1>1, <2>1, <2>2
  <2> QED
    BY <1>1, <1>5, <2>3, FS_Subset
<1> QED
  BY <1>4, <1>5

-----------------------------------------------------------------------------
(* Sums over finite sets: SumFunctionOnSet takes the elements in an order  *)
(* CHOOSE gives; the sum does not depend on it.                            *)

Some(s) == CHOOSE x \in s : TRUE

\* h[s] is the sum of f over s, for every subset s of S.
Summing(h, f, S) ==
    h = [s \in SUBSET S |->
            IF s = {} THEN 0 ELSE f[Some(s)] + h[s \ {Some(s)}]]

LEMMA SumIsSumming ==
    ASSUME NEW f, NEW S
    PROVE  SumFunctionOnSet(f, S) = (CHOOSE h : Summing(h, f, S))[S]
BY Zenon DEF SumFunctionOnSet, FoldFunctionOnSet, MapThenFoldSet, Summing, Some

LEMMA SomeIn ==
    ASSUME NEW s, s # {}
    PROVE  Some(s) \in s
BY DEF Some

LEMMA SummingAt ==
    ASSUME NEW h, NEW f, NEW S, Summing(h, f, S)
    PROVE  /\ h[{}] = 0
           /\ \A s \in SUBSET S :
                 s # {} => h[s] = f[Some(s)] + h[s \ {Some(s)}]
<1>1. \A s \in SUBSET S :
         h[s] = IF s = {} THEN 0 ELSE f[Some(s)] + h[s \ {Some(s)}]
  BY Zenon DEF Summing
<1>2. {} \in SUBSET S
  OBVIOUS
<1> QED
  BY <1>1, <1>2, Zenon

\* Two sums of the same numbers agree where both are defined.
LEMMA SumsAgree ==
    ASSUME NEW S, IsFiniteSet(S), NEW T, NEW h, NEW k, NEW f, NEW g,
           Summing(h, f, S), Summing(k, g, T), \A x \in S \cap T : f[x] = g[x]
    PROVE  \A s \in SUBSET (S \cap T) : h[s] = k[s]
<1> DEFINE Q == {s \in SUBSET (S \cap T) : h[s] # k[s]}
<1> SUFFICES ASSUME Q # {} PROVE FALSE
  OBVIOUS
<1>1. IsFiniteSet(S \cap T)
  BY FS_Subset
<1>2. PICK s \in Q : \A u \in Q : u \subseteq s => u = s
  <2>1. Q \in SUBSET SUBSET (S \cap T)
    OBVIOUS
  <2> HIDE DEF Q
  <2> QED
    BY <1>1, <2>1, MinimalSet
<1>3. s \in SUBSET S /\ s \in SUBSET T /\ s # {}
  BY SummingAt
<1>4. PICK x \in s : x = Some(s)
  BY <1>3, SomeIn
<1>5. h[s] = f[x] + h[s \ {x}] /\ k[s] = g[x] + k[s \ {x}]
  <2>1. h[s] = f[Some(s)] + h[s \ {Some(s)}]
    BY <1>3, SummingAt
  <2>2. k[s] = g[Some(s)] + k[s \ {Some(s)}]
    BY <1>3, SummingAt
  <2> QED
    BY <1>4, <2>1, <2>2, Zenon
<1>6. s \ {x} \notin Q
  BY <1>2
<1>7. h[s \ {x}] = k[s \ {x}]
  BY <1>2, <1>6
<1>8. f[x] = g[x]
  BY <1>3
<1> QED
  BY <1>5, <1>7, <1>8

\* There is such a sum.
LEMMA SumsExist ==
    ASSUME NEW S, IsFiniteSet(S), NEW f
    PROVE  \E h : Summing(h, f, S)
<1> DEFINE Q == {s \in SUBSET S : ~ \E h : Summing(h, f, s)}
<1> SUFFICES ASSUME Q # {} PROVE FALSE
  <2>1. S \in SUBSET S
    OBVIOUS
  <2> QED
    BY <2>1
<1>1. PICK s \in Q : \A u \in Q : u \subseteq s => u = s
  <2>1. Q \in SUBSET SUBSET S
    OBVIOUS
  <2> HIDE DEF Q
  <2> QED
    BY <2>1, MinimalSet
<1> DEFINE H(u) == CHOOSE h : Summing(h, f, u)
           V(u) == H(u)[u]
           G == [t \in SUBSET s |->
                    IF t = {} THEN 0 ELSE f[Some(t)] + V(t \ {Some(t)})]
<1>2. \A u : u \subseteq s /\ u # s => Summing(H(u), f, u) /\ IsFiniteSet(u)
  <2> SUFFICES ASSUME NEW u, u \subseteq s, u # s
               PROVE  Summing(H(u), f, u) /\ IsFiniteSet(u)
    OBVIOUS
  <2>1. u \in SUBSET S /\ u \notin Q
    BY <1>1
  <2>2. \E h : Summing(h, f, u)
    BY <2>1
  <2> QED
    BY <2>1, <2>2, FS_Subset
<1> HIDE DEF H
<1>3. \A t \in SUBSET s : t # {} => t \ {Some(t)} \subseteq s /\ t \ {Some(t)} # s
  BY SomeIn
<1>4. ASSUME NEW u, u \subseteq s, u # s
      PROVE  V(u) = IF u = {} THEN 0 ELSE f[Some(u)] + V(u \ {Some(u)})
  <2>1. Summing(H(u), f, u) /\ IsFiniteSet(u)
    BY <1>2, <1>4
  <2>2. CASE u = {}
    <3>1. H(u)[{}] = 0
      BY <2>1, SummingAt
    <3> QED
      BY <2>2, <3>1
  <2>3. CASE u # {}
    <3> DEFINE w == u \ {Some(u)}
    <3>1. u \in SUBSET u /\ w \in SUBSET (u \cap w) /\ w \subseteq s /\ w # s
      BY <1>3, <1>4, <2>3
    <3>2. H(u)[u] = f[Some(u)] + H(u)[w]
      <4>1. \A t \in SUBSET u : t # {} => H(u)[t] = f[Some(t)] + H(u)[t \ {Some(t)}]
        BY <2>1, SummingAt
      <4> QED
        BY <2>3, <3>1, <4>1, Zenon
    <3>3. Summing(H(w), f, w)
      BY <1>2, <3>1
    <3>4. H(u)[w] = H(w)[w]
      <4> HIDE DEF w
      <4>1. \A t \in SUBSET (u \cap w) : H(u)[t] = H(w)[t]
        BY <2>1, <3>3, SumsAgree
      <4> QED
        BY <3>1, <4>1
    <3> QED
      BY <2>3, <3>2, <3>4, Zenon
  <2> QED
    BY <2>2, <2>3
<1> HIDE DEF V
<1>5. ASSUME NEW t \in SUBSET s, t # {}
      PROVE  V(t \ {Some(t)}) = G[t \ {Some(t)}]
  <2> DEFINE u == t \ {Some(t)}
  <2>1. u \subseteq s /\ u # s /\ u \in SUBSET s
    BY <1>3, <1>5
  <2> HIDE DEF u
  <2>2. V(u) = IF u = {} THEN 0 ELSE f[Some(u)] + V(u \ {Some(u)})
    BY <1>4, <2>1
  <2>3. G[u] = IF u = {} THEN 0 ELSE f[Some(u)] + V(u \ {Some(u)})
    BY <2>1, Zenon
  <2> QED
    BY <2>2, <2>3, Zenon DEF u
<1>6. G = [t \in SUBSET s |-> IF t = {} THEN 0 ELSE f[Some(t)] + G[t \ {Some(t)}]]
  <2>1. \A t \in SUBSET s :
          (IF t = {} THEN 0 ELSE f[Some(t)] + V(t \ {Some(t)}))
          = (IF t = {} THEN 0 ELSE f[Some(t)] + G[t \ {Some(t)}])
    BY <1>5, Zenon
  <2> DEFINE G1(t) == IF t = {} THEN 0 ELSE f[Some(t)] + V(t \ {Some(t)})
             G2(t) == IF t = {} THEN 0 ELSE f[Some(t)] + G[t \ {Some(t)}]
  <2>2. \A t \in SUBSET s : G1(t) = G2(t)
    BY <2>1, Zenon
  <2>3. G = [t \in SUBSET s |-> G1(t)]
    BY Zenon
  <2> HIDE DEF G1, G2
  <2>4. [t \in SUBSET s |-> G1(t)] = [t \in SUBSET s |-> G2(t)]
    BY <2>2
  <2>5. G = [t \in SUBSET s |-> G2(t)]
    BY <2>3, <2>4, Zenon
  <2> QED
    BY <2>5, Zenon DEF G2
<1> HIDE DEF G
<1>7. Summing(G, f, s)
  BY <1>6, Zenon DEF Summing
<1> QED
  BY <1>1, <1>7

\* Sums are numbers.
LEMMA SumIsNat ==
    ASSUME NEW S, IsFiniteSet(S), NEW f \in [S -> Nat], NEW h,
           Summing(h, f, S)
    PROVE  \A s \in SUBSET S : h[s] \in Nat
<1> DEFINE Q == {s \in SUBSET S : h[s] \notin Nat}
<1> SUFFICES ASSUME Q # {} PROVE FALSE
  OBVIOUS
<1>1. PICK s \in Q : \A u \in Q : u \subseteq s => u = s
  <2>1. Q \in SUBSET SUBSET S
    OBVIOUS
  <2> HIDE DEF Q
  <2> QED
    BY <2>1, MinimalSet
<1>2. s \in SUBSET S /\ s # {}
  <2>1. h[{}] = 0
    BY SummingAt
  <2> QED
    BY <2>1
<1>3. PICK x \in s : x = Some(s)
  BY <1>2, SomeIn
<1>4. h[s] = f[x] + h[s \ {x}]
  <2>1. h[s] = f[Some(s)] + h[s \ {Some(s)}]
    BY <1>2, SummingAt
  <2> QED
    BY <1>3, <2>1, Zenon
<1>5. h[s \ {x}] \in Nat
  BY <1>1
<1> QED
  BY <1>2, <1>4, <1>5

\* Any element can be taken out first.
AnyFirst(h, f, S) ==
    \A s \in SUBSET S : \A y \in s : h[s] = f[y] + h[s \ {y}]

LEMMA SumTakeOut ==
    ASSUME NEW S, IsFiniteSet(S), NEW f \in [S -> Nat], NEW h,
           Summing(h, f, S)
    PROVE  AnyFirst(h, f, S)
<1>0. \A s \in SUBSET S : s # {} => h[s] = f[Some(s)] + h[s \ {Some(s)}]
  BY SummingAt, Zenon
<1> DEFINE Good(s) == \A y \in s : h[s] = f[y] + h[s \ {y}]
           Q == {s \in SUBSET S : ~Good(s)}
<1> SUFFICES ASSUME Q # {} PROVE FALSE
  BY DEF AnyFirst
<1>1. PICK s \in Q : \A u \in Q : u \subseteq s => u = s
  <2>1. Q \in SUBSET SUBSET S
    OBVIOUS
  <2> HIDE DEF Q
  <2> QED
    BY <2>1, MinimalSet
<1>2. PICK y \in s : h[s] # f[y] + h[s \ {y}]
  OBVIOUS
<1>3. s \in SUBSET S /\ s # {}
  BY <1>2
<1>4. PICK x \in s : x = Some(s)
  BY <1>3, SomeIn
<1>5. h[s] = f[x] + h[s \ {x}]
  <2>1. h[s] = f[Some(s)] + h[s \ {Some(s)}]
    BY <1>0, <1>3
  <2> QED
    BY <1>4, <2>1, Zenon
<1>6. x # y
  BY <1>2, <1>5
<1>7. Good(s \ {x}) /\ Good(s \ {y})
  <2> HIDE DEF Good
  <2> QED
    BY <1>1
<1>8. h[s \ {x}] = f[y] + h[(s \ {x}) \ {y}]
  BY <1>6, <1>7
<1>9. h[s \ {y}] = f[x] + h[(s \ {y}) \ {x}]
  BY <1>6, <1>7
<1>10. (s \ {x}) \ {y} = (s \ {y}) \ {x}
  OBVIOUS
<1>11. PICK d \in Nat : d = h[(s \ {x}) \ {y}]
  BY SumIsNat, <1>3
<1>12. PICK a \in Nat, b \in Nat : a = f[x] /\ b = f[y]
  BY <1>3
<1>13. h[s] = a + (b + d)
  BY <1>5, <1>8, <1>11, <1>12, Zenon
<1>14. f[y] + h[s \ {y}] = b + (a + d)
  BY <1>9, <1>10, <1>11, <1>12, Zenon
<1>15. a + (b + d) = b + (a + d)
  OBVIOUS
<1> QED
  BY <1>2, <1>13, <1>14, <1>15, Zenon

\* The sum over nothing, over one element, and over fewer elements.
LEMMA SumFacts ==
    ASSUME NEW S, IsFiniteSet(S), NEW f \in [S -> Nat]
    PROVE  /\ SumFunctionOnSet(f, S) \in Nat
           /\ S = {} => SumFunctionOnSet(f, S) = 0
           /\ \A x : S = {x} => SumFunctionOnSet(f, S) = f[x]
<1>1. PICK h : h = CHOOSE k : Summing(k, f, S)
  OBVIOUS
<1>2. Summing(h, f, S) /\ SumFunctionOnSet(f, S) = h[S]
  BY <1>1, SumsExist, SumIsSumming
<1>3. S \in SUBSET S
  OBVIOUS
<1>4. h[S] \in Nat /\ (\A y \in S : h[S] = f[y] + h[S \ {y}]) /\ h[{}] = 0
  <2>1. h[{}] = 0
    BY <1>2, SummingAt, Zenon
  <2>2. \A s \in SUBSET S : h[s] \in Nat
    BY <1>2, SumIsNat
  <2>3. AnyFirst(h, f, S)
    BY <1>2, SumTakeOut
  <2> QED
    BY <1>3, <2>1, <2>2, <2>3, Zenon DEF AnyFirst
<1>5. ASSUME NEW x, S = {x} PROVE h[S] = f[x]
  <2>1. S \ {x} = {} /\ x \in S
    BY <1>5
  <2>2. h[S] = f[x] + 0
    BY <1>4, <2>1
  <2> QED
    BY <2>1, <2>2
<1> QED
  BY <1>2, <1>4, <1>5

LEMMA SumMonotonic ==
    ASSUME NEW S, IsFiniteSet(S), NEW T \in SUBSET S,
           NEW f \in [S -> Nat],
           NEW g, \A x \in T : g[x] = f[x]
    PROVE  SumFunctionOnSet(g, T) <= SumFunctionOnSet(f, S)
<1>1. IsFiniteSet(T)
  BY FS_Subset
<1>2. PICK h : h = CHOOSE k : Summing(k, f, S)
  OBVIOUS
<1>3. Summing(h, f, S) /\ SumFunctionOnSet(f, S) = h[S]
  BY <1>2, SumsExist, SumIsSumming
<1>4. PICK k : k = CHOOSE l : Summing(l, g, T)
  OBVIOUS
<1>5. Summing(k, g, T) /\ SumFunctionOnSet(g, T) = k[T]
  BY <1>1, <1>4, SumsExist, SumIsSumming
<1>6. h[T] = k[T]
  <2>1. \A x \in S \cap T : f[x] = g[x]
    OBVIOUS
  <2>2. T \in SUBSET (S \cap T)
    OBVIOUS
  <2>3. \A s \in SUBSET (S \cap T) : h[s] = k[s]
    BY <1>3, <1>5, <2>1, SumsAgree
  <2> QED
    BY <2>2, <2>3
<1>7. \A s \in SUBSET S :
          h[s] \in Nat /\ \A y \in s : h[s] = f[y] + h[s \ {y}]
  <2>1. \A s \in SUBSET S : h[s] \in Nat
    BY <1>3, SumIsNat
  <2>2. AnyFirst(h, f, S)
    BY <1>3, SumTakeOut
  <2> QED
    BY <2>1, <2>2, Zenon DEF AnyFirst
<1>8. h[T] <= h[S]
  <2> DEFINE Q == {s \in SUBSET S : T \subseteq s /\ ~(h[T] <= h[s])}
  <2> SUFFICES ASSUME Q # {} PROVE FALSE
    OBVIOUS
  <2>1. PICK s \in Q : \A u \in Q : u \subseteq s => u = s
    <3>1. Q \in SUBSET SUBSET S
      OBVIOUS
    <3> HIDE DEF Q
    <3> QED
      BY <3>1, MinimalSet
  <2>2. s \in SUBSET S /\ T \subseteq s /\ ~(h[T] <= h[s])
    OBVIOUS
  <2>3. s # T
    <3>1. h[T] \in Nat
      BY <1>7
    <3> QED
      BY <2>2, <3>1
  <2>4. PICK y \in s : y \notin T
    BY <2>2, <2>3
  <2>5. s \ {y} \notin Q
    BY <2>1, <2>4
  <2>6. h[T] <= h[s \ {y}]
    BY <2>2, <2>4, <2>5
  <2>7. h[s] = f[y] + h[s \ {y}] /\ f[y] \in Nat
    BY <1>7, <2>2
  <2>8. h[T] \in Nat /\ h[s \ {y}] \in Nat
    BY <1>7, <2>2
  <2> QED
    BY <2>2, <2>6, <2>7, <2>8
<1> QED
  BY <1>3, <1>5, <1>6, <1>8

-----------------------------------------------------------------------------
(* What ElimateFiles_ leaves. *)

\* The quota in bytes; the conversion can only make it less, and keeps it
\* when the product fits into uint64_t.
LEMMA TotalBytesBound ==
    /\ TotalBytes \in Nat /\ TotalSize * Mega \in Nat
    /\ TotalBytes <= TotalSize * Mega
    /\ TotalSize * Mega < Word => TotalBytes = TotalSize * Mega
<1>1. TotalSize \in Nat /\ Mega \in Nat /\ Word \in Nat \ {0}
  BY FilesAssumption
<1>2. PICK m \in Nat : m = TotalSize * Mega
  BY <1>1
<1>3. (m % Word) \in Nat /\ m % Word <= m /\ (m < Word => m % Word = m)
  BY <1>1
<1>4. \A k \in Nat : k \div 1 = k
  OBVIOUS
<1> QED
  BY <1>2, <1>3, <1>4 DEF TotalBytes, SpaceCast

\* The files up to f in the order r, which ElimateFiles_ has counted when it
\* decides about f.
Counted(r, f) == {g \in DOMAIN dir : r[g] <= r[f]}

LEMMA CountedFiles ==
    ASSUME FilesInv, NEW r, NEW f \in DOMAIN dir
    PROVE  /\ IsFiniteSet(Counted(r, f))
           /\ Counted(r, f) \subseteq DOMAIN dir
           /\ [g \in Counted(r, f) |-> dir[g].size] \in [Counted(r, f) -> Nat]
<1>1. Counted(r, f) \subseteq DOMAIN dir
  BY DEF Counted
<1>2. IsFiniteSet(Counted(r, f))
  BY <1>1, FS_Subset DEF FilesInv
<1>3. \A g \in DOMAIN dir : dir[g].size \in Nat
  BY DEF FilesInv, TypeOK, File
<1> QED
  BY <1>1, <1>2, <1>3

\* The oldest file that stays: all that stay were counted when it was.
LEMMA OldestKept ==
    ASSUME FilesInv, NEW r \in Rankings, Kept(r) # {}
    PROVE  \E f \in Kept(r) : Kept(r) \subseteq Counted(r, f)
<1> DEFINE Later(f) == {g \in DOMAIN dir : ~(r[g] <= r[f])}
           Q == {Later(f) : f \in Kept(r)}
<1>1. Kept(r) \subseteq DOMAIN dir
  BY DEF Kept
<1>2. \A f \in DOMAIN dir : r[f] \in Int
  <2>1. r \in [DOMAIN dir -> 1..Cardinality(DOMAIN dir)]
    BY DEF Rankings
  <2> QED
    BY <2>1
<1>3. PICK t \in Q : \A u \in Q : u \subseteq t => u = t
  <2>1. Q \in SUBSET SUBSET DOMAIN dir /\ Q # {}
    OBVIOUS
  <2> HIDE DEF Q
  <2> QED
    BY <2>1, MinimalSet DEF FilesInv
<1>4. PICK f \in Kept(r) : t = Later(f)
  OBVIOUS
<1>5. ASSUME NEW g \in Kept(r), ~(r[g] <= r[f])
      PROVE  FALSE
  <2>1. g \in Later(f) /\ g \notin Later(g)
    BY <1>1, <1>2, <1>5
  <2>2. Later(g) \subseteq Later(f)
    BY <1>1, <1>2, <1>5
  <2>3. Later(g) \in Q
    OBVIOUS
  <2> HIDE DEF Q, Later
  <2> QED
    BY <1>3, <1>4, <2>1, <2>2, <2>3
<1> QED
  BY <1>1, <1>4, <1>5 DEF Counted

LEMMA QuotaStep ==
    ASSUME FilesInv, ElimateFiles
    PROVE  SumFunction([f \in DOMAIN dir' |-> dir'[f].size])
               <= TotalSize * Mega
<1>1. PICK r \in Rankings : dir' = [f \in Kept(r) |-> dir[f]]
  BY DEF ElimateFiles
<1> DEFINE left == [f \in DOMAIN dir' |-> dir'[f].size]
<1>2. /\ DOMAIN left = Kept(r) /\ Kept(r) \subseteq DOMAIN dir
      /\ \A f \in Kept(r) : left[f] = dir[f].size
  BY <1>1 DEF Kept
<1>3. left \in [Kept(r) -> Nat] /\ IsFiniteSet(Kept(r))
  <2>1. \A f \in DOMAIN dir : dir[f].size \in Nat
    BY DEF FilesInv, TypeOK, File
  <2>2. \A f \in DOMAIN dir' : dir'[f].size \in Nat
    BY <1>1, <1>2, <2>1
  <2>3. DOMAIN dir' = Kept(r)
    BY <1>1
  <2> QED
    BY <1>2, <2>2, <2>3, FS_Subset DEF FilesInv
<1> SUFFICES SumFunction(left) <= TotalSize * Mega
  OBVIOUS
<1> HIDE DEF left
<1>4. SumFunction(left) = SumFunctionOnSet(left, Kept(r))
  BY <1>2, Zenon DEF SumFunction
<1>5. CASE Kept(r) = {}
  <2>1. SumFunctionOnSet(left, Kept(r)) = 0
    BY <1>3, <1>5, SumFacts
  <2> QED
    BY <1>4, <2>1, TotalBytesBound
<1>6. CASE Kept(r) # {}
  <2>1. PICK f \in Kept(r) : Kept(r) \subseteq Counted(r, f)
    BY <1>6, OldestKept
  <2>2. f \in DOMAIN dir /\ Used(Counted(r, f)) <= TotalBytes
    BY <1>2 DEF Kept, Counted
  <2> DEFINE C == Counted(r, f)
             sizes == [g \in C |-> dir[g].size]
  <2>3. IsFiniteSet(C) /\ sizes \in [C -> Nat]
    BY <2>2, CountedFiles
  <2>4. \A g \in Kept(r) : left[g] = sizes[g]
    BY <1>2, <2>1
  <2>5. SumFunctionOnSet(sizes, C) <= TotalBytes
    BY <2>2 DEF Used
  <2> HIDE DEF C, sizes
  <2>6. Kept(r) \in SUBSET C
    BY <2>1 DEF C
  <2>7. SumFunctionOnSet(left, Kept(r)) <= SumFunctionOnSet(sizes, C)
    BY <2>3, <2>4, <2>6, SumMonotonic
  <2>8. /\ SumFunctionOnSet(left, Kept(r)) \in Nat
        /\ SumFunctionOnSet(sizes, C) \in Nat
    BY <1>3, <2>3, SumFacts
  <2> QED
    BY <1>4, <2>5, <2>7, <2>8, TotalBytesBound
<1> QED
  BY <1>5, <1>6

\* The current file is counted alone when it is the newest.
LEMMA KeepsCurrent ==
    ASSUME FilesInv, OvershootInv, ElimateFiles, exists(path),
           TotalSize * Mega < Word,
           dir[path].size <= TotalSize * Mega,
           \A f \in DOMAIN dir \ {path} : dir[f].mtime # dir[path].mtime
    PROVE  path \in DOMAIN dir'
<1>1. PICK r \in Rankings : dir' = [f \in Kept(r) |-> dir[f]]
  BY DEF ElimateFiles
<1>2. path \in DOMAIN dir /\ path # NoPath /\ wpc = "idle"
  BY DEF OvershootInv, exists, ElimateFiles
<1>3. \A f \in DOMAIN dir : dir[f].mtime \in Nat /\ dir[f].size \in Nat
  BY DEF FilesInv, TypeOK, File
<1>4. \A f \in DOMAIN dir \ {path} : dir[path].mtime > dir[f].mtime
  <2>1. \A f \in DOMAIN dir : dir[f].mtime <= dir[path].mtime
    BY <1>2 DEF FilesInv, CurrentIsNewest
  <2> QED
    BY <1>2, <1>3, <2>1
<1>5. /\ \A f \in DOMAIN dir : r[f] \in Int
      /\ \A f, g \in DOMAIN dir : dir[f].mtime > dir[g].mtime => r[f] < r[g]
  <2>1. r \in [DOMAIN dir -> 1..Cardinality(DOMAIN dir)]
    BY DEF Rankings
  <2>2. \A f, g \in DOMAIN dir : dir[f].mtime > dir[g].mtime => r[f] < r[g]
    BY DEF Rankings
  <2> QED
    BY <2>1, <2>2
<1>6. Counted(r, path) = {path}
  <2>1. \A f \in DOMAIN dir \ {path} : ~(r[f] <= r[path])
    BY <1>2, <1>4, <1>5
  <2> QED
    BY <1>2, <1>5, <2>1 DEF Counted
<1> DEFINE C == Counted(r, path)
           sizes == [g \in C |-> dir[g].size]
<1>7. IsFiniteSet(C) /\ sizes \in [C -> Nat]
  BY <1>2, CountedFiles
<1>8. sizes[path] = dir[path].size
  BY <1>6
<1>9. Used(C) = SumFunctionOnSet(sizes, C)
  BY DEF Used
<1>10. SumFunctionOnSet(sizes, C) = dir[path].size
  <2>1. C = {path}
    BY <1>6
  <2> HIDE DEF C, sizes
  <2> QED
    BY <1>7, <1>8, <2>1, SumFacts
<1>11. Used(C) <= TotalBytes
  BY <1>9, <1>10, TotalBytesBound
<1>12. path \in Kept(r)
  BY <1>2, <1>11 DEF Kept, Counted
<1> QED
  BY <1>1, <1>12

\* ElimateFiles_ restores the quota, whatever it finds: for any directory and
\* any order std::sort makes of equal times, also when the conversion of
\* total_size to bytes overflows.
THEOREM QuotaIsRestored == Spec => QuotaRestored
<1>1. FilesInv /\ [Next]_vars =>
        [ElimateFiles =>
            SumFunction([f \in DOMAIN dir' |-> dir'[f].size])
                <= TotalSize * Mega]_vars
  BY QuotaStep
<1> QED
  BY FilesInit, FilesStep, <1>1, PTL DEF Spec, QuotaRestored

\* ElimateFiles_ keeps the file the sink writes, when total_size in bytes fits
\* into uint64_t: otherwise the quota wraps around and may be as small as 0.
THEOREM KeepsCurrentFile ==
    ASSUME TotalSize * Mega < Word
    PROVE  Spec => CurrentFileKept
<1>1. FilesInv /\ OvershootInv /\ [Next]_vars =>
        [(/\ ElimateFiles
          /\ exists(path)
          /\ dir[path].size <= TotalSize * Mega
          /\ \A f \in DOMAIN dir \ {path} : dir[f].mtime # dir[path].mtime)
         => path \in DOMAIN dir']_vars
  BY KeepsCurrent
<1> QED
  BY FilesInit, FilesStep, OvershootInit, OvershootStep, <1>1, PTL
     DEF Spec, CurrentFileKept
=============================================================================
