------------------------------ MODULE MMapAux ------------------------------
(***************************************************************************)
(* logger::mmap::MMapAux over fs::Fd and fs::MMap, step by step: system    *)
(* calls that fail and throw, a process that dies between any two steps,   *)
(* and NeedCacheToFile_, which calls Ratio() while the thread that holds   *)
(* the sink's mtx_ may be remapping the file.  Units as in MMapBuffer: one *)
(* cell is what one Push copies.                                           *)
(***************************************************************************)
EXTENDS Integers, Sequences

CONSTANTS
    PageSize,          \* fs::GetPageSize()
    HeaderSize,        \* sizeof(MMapHeader)
    DefaultCapacity,   \* kDefaultCapacity
    Readers,           \* threads that call Ratio() without mtx_
    MaxPushes,         \* bound: calls of Push
    MaxSize,           \* bound: argument of Resize
    MaxRuns,           \* bound: processes
    MaxFailures        \* bound: system calls that fail

ASSUME AuxAssumption ==
    /\ PageSize \in Nat \ {0}
    /\ HeaderSize \in Nat
    /\ DefaultCapacity \in Nat /\ DefaultCapacity > HeaderSize
    /\ MaxPushes \in Nat /\ MaxSize \in Nat /\ MaxRuns \in Nat
    /\ MaxFailures \in Nat

VARIABLES
    file_size,    \* the file: its length,
    magic,        \* whether its header has the magic number,
    data_size,    \* data_size_ of the header
    cells,        \* and the data that was ever copied into it
    mapped,       \* length of the mapping mmap_ holds; 0: mmap_ is null
    capacity,     \* capacity_
    pc,           \* where the user of the object is
    op,           \* the operation in progress
    new_size,     \* the argument of Reserve_
    rpc,          \* where each reader is in Ratio()
    pushes,       \* calls of Push so far
    runs,         \* processes so far
    failures,     \* system calls that failed so far
    outgrown,     \* history: a call needed more than the capacity
    segv          \* history: a null or unmapped pointer was used

file  == <<file_size, magic, data_size, cells>>
bound == <<pushes, runs, failures>>
vars  == <<file, mapped, capacity, pc, op, new_size, rpc, bound, outgrown, segv>>

Cell(i) == IF i <= Len(cells) THEN cells[i] ELSE 0

\* The file as the next process would find it.
Content ==
    [data |-> [i \in 1..(IF magic THEN data_size ELSE 0) |-> Cell(i)],
     cap  |-> file_size]

\* No operation is in progress before the object is there and between calls.
Pending == IF pc \in {"none", "idle"} THEN "none" ELSE op

\* The value a Push appends is its number.
Argument == IF Pending = "resize" THEN new_size - HeaderSize ELSE pushes

Cache == INSTANCE CacheFile WITH b <- Content, op <- Pending, arg <- Argument

Valid(n) == Cache!GetValidCapacity(n)

TypeOK ==
    /\ file_size \in Nat
    /\ magic \in BOOLEAN
    /\ data_size \in Nat
    /\ cells \in Seq(Nat)
    /\ mapped \in Nat
    /\ capacity \in Nat
    /\ pc \in {"none", "stat", "reserve", "truncate", "map", "init", "idle",
               "copy", "set_size", "clear"}
    /\ op \in {"open", "push", "resize", "clear"}
    /\ new_size \in Nat
    /\ rpc \in [Readers -> {"idle", "loaded", "stale"}]
    /\ pushes \in Nat
    /\ runs \in Nat
    /\ failures \in Nat
    /\ outgrown \in BOOLEAN
    /\ segv \in BOOLEAN

Init ==
    /\ file_size = 0 /\ magic = FALSE /\ data_size = 0 /\ cells = <<>>
    /\ mapped = 0 /\ capacity = 0
    /\ pc = "none" /\ op = "open" /\ new_size = 0
    /\ rpc = [r \in Readers |-> "idle"]
    /\ pushes = 0 /\ runs = 0 /\ failures = 0
    /\ outgrown = FALSE /\ segv = FALSE

-----------------------------------------------------------------------------
\* The object is gone and the file stays: the process died.
Gone ==
    /\ pc' = "none" /\ op' = "open" /\ new_size' = 0
    /\ mapped' = 0 /\ capacity' = 0
    /\ rpc' = [r \in Readers |-> "idle"]
    /\ UNCHANGED <<file, bound, outgrown>>

\* A use of the mapping when there is none.
Segv == Gone /\ segv' = TRUE

Crash ==
    /\ pc # "none"
    /\ Gone
    /\ UNCHANGED segv

\* A system call fails: the operation throws.  A constructor that throws
\* leaves no object; any other operation leaves one without a mapping.
Throw ==
    /\ failures < MaxFailures
    /\ failures' = failures + 1
    /\ pc' = IF op = "open" THEN "none" ELSE "idle"
    /\ UNCHANGED <<file, mapped, capacity, op, new_size, rpc, pushes, runs,
                   outgrown, segv>>

-----------------------------------------------------------------------------
(* The constructor and Reserve_. *)

OpenFd ==
    /\ pc = "none"
    /\ runs < MaxRuns
    /\ runs' = runs + 1
    /\ pc' = "stat"
    /\ op' = "open"
    /\ UNCHANGED <<file, mapped, capacity, new_size, rpc, pushes, failures,
                   outgrown, segv>>

\* open() or fstat() fails, or Reserve_ is called.
GetFileSize ==
    /\ pc = "stat"
    /\ \/ Throw
       \/ /\ new_size' = IF file_size > DefaultCapacity THEN file_size
                                                        ELSE DefaultCapacity
          /\ pc' = "reserve"
          /\ UNCHANGED <<file, mapped, capacity, op, rpc, bound, outgrown, segv>>

\* What follows Reserve_.
After == CASE op = "open" -> "init" [] op = "push" -> "copy"
           [] op = "resize" -> "set_size"

\* Mutant: Reserve_ remaps whether or not the size fits.
Reserve_Always ==
    /\ pc = "reserve"
    /\ mapped' = 0
    /\ rpc' = [r \in Readers |-> IF rpc[r] = "loaded" THEN "stale" ELSE rpc[r]]
    /\ pc' = "truncate"
    /\ UNCHANGED <<file, capacity, op, new_size, bound, outgrown, segv>>

\* Reserve_ up to Unmap_, which destroys the mapping a reader may be using.
Reserve ==
    /\ pc = "reserve"
    /\ \/ /\ new_size <= capacity
          /\ pc' = After
          /\ UNCHANGED <<mapped, rpc>>
       \/ /\ new_size > capacity
          /\ mapped' = 0
          /\ rpc' = [r \in Readers |->
                        IF rpc[r] = "loaded" THEN "stale" ELSE rpc[r]]
          /\ pc' = "truncate"
    /\ UNCHANGED <<file, capacity, op, new_size, bound, outgrown, segv>>

\* Trymap_, first half: ftruncate.
Truncate ==
    /\ pc = "truncate"
    /\ \/ Throw
       \/ /\ file_size' = Valid(new_size)
          /\ cells' = [i \in 1..(IF Len(cells) < file_size' - HeaderSize
                                 THEN Len(cells) ELSE file_size' - HeaderSize)
                          |-> cells[i]]
          /\ pc' = "map"
          /\ UNCHANGED <<magic, data_size, mapped, capacity, op, new_size, rpc,
                         bound, outgrown, segv>>

\* Mutant: the mapping has the size asked for, not the rounded one.
Map_Unrounded ==
    /\ pc = "map"
    /\ \/ Throw
       \/ /\ mapped' = new_size
          /\ capacity' = Valid(new_size)
          /\ pc' = After
          /\ UNCHANGED <<file, op, new_size, rpc, bound, outgrown, segv>>

\* Second half: mmap; then capacity_ is set.
Map ==
    /\ pc = "map"
    /\ \/ Throw
       \/ /\ mapped' = Valid(new_size)
          /\ capacity' = Valid(new_size)
          /\ pc' = After
          /\ UNCHANGED <<file, op, new_size, rpc, bound, outgrown, segv>>

\* Mutant: the size is reset whether or not the magic number is there.
InitHeader_Reset ==
    /\ pc = "init"
    /\ pc' = "idle"
    /\ magic' = TRUE
    /\ data_size' = 0
    /\ UNCHANGED <<file_size, cells, mapped, capacity, op, new_size, rpc, bound,
                   outgrown, segv>>

\* Init_: a file without the magic number is made empty.
InitHeader ==
    /\ pc = "init"
    /\ pc' = "idle"
    /\ magic' = TRUE
    /\ data_size' = IF magic THEN data_size ELSE 0
    /\ UNCHANGED <<file_size, cells, mapped, capacity, op, new_size, rpc, bound,
                   outgrown, segv>>

-----------------------------------------------------------------------------
(* Operations, one at a time: the sink calls them under mtx_ or on a cache *)
(* of its own.                                                             *)

Call(o, size) ==
    /\ op' = o
    /\ new_size' = size
    /\ pc' = "reserve"
    /\ outgrown' = (outgrown \/ size > capacity)

\* Size() comes first and needs the mapping.
Push ==
    /\ pc = "idle"
    /\ pushes < MaxPushes
    /\ \/ mapped = 0 /\ Segv
       \/ /\ mapped > 0
          /\ Call("push", HeaderSize + data_size + 1)
          /\ pushes' = pushes + 1
          /\ UNCHANGED <<file, mapped, capacity, rpc, runs, failures, segv>>

\* Mutant: the header is not counted in.
Resize_NoHeader ==
    /\ pc = "idle"
    /\ \E n \in 0..MaxSize : Call("resize", n)
    /\ UNCHANGED <<file, mapped, capacity, rpc, bound, segv>>

Resize ==
    /\ pc = "idle"
    /\ \E n \in 0..MaxSize : Call("resize", HeaderSize + n)
    /\ UNCHANGED <<file, mapped, capacity, rpc, bound, segv>>

\* Mutant: the size is stored before the data is copied.
Copy_SizeFirst ==
    /\ pc = "copy"
    /\ pc' = "set_size"
    /\ data_size' = data_size + 1
    /\ UNCHANGED <<file_size, magic, cells, mapped, capacity, op, new_size, rpc,
                   bound, outgrown, segv>>

\* memcpy(Data() + Size(), ...)
Copy ==
    /\ pc = "copy"
    /\ pc' = "set_size"
    /\ cells' = [i \in 1..(IF Len(cells) > data_size THEN Len(cells)
                                                     ELSE data_size + 1) |->
                    IF i = data_size + 1 THEN pushes ELSE Cell(i)]
    /\ UNCHANGED <<file_size, magic, data_size, mapped, capacity, op, new_size,
                   rpc, bound, outgrown, segv>>

\* Header_()->data_size_ = ...
SetSize ==
    /\ pc = "set_size"
    /\ \/ mapped = 0 /\ Segv
       \/ /\ mapped > 0
          /\ data_size' = new_size - HeaderSize
          /\ pc' = "idle"
          /\ UNCHANGED <<file_size, magic, cells, mapped, capacity, op,
                         new_size, rpc, bound, outgrown, segv>>

\* Clear looks at the header ...
Clear ==
    /\ pc = "idle"
    /\ \/ mapped = 0 /\ Segv
       \/ /\ mapped > 0
          /\ op' = "clear"
          /\ pc' = "clear"
          /\ UNCHANGED <<file, mapped, capacity, new_size, rpc, bound, outgrown,
                         segv>>

\* ... and stores the size.
ClearSize ==
    /\ pc = "clear"
    /\ data_size' = 0
    /\ pc' = "idle"
    /\ UNCHANGED <<file_size, magic, cells, mapped, capacity, op, new_size, rpc,
                   bound, outgrown, segv>>

-----------------------------------------------------------------------------
(* NeedCacheToFile_, at any time once the object is there. *)

Constructed == pc = "idle" \/ op # "open"

\* Ratio() loads mmap_ ...
RatioLoad(r) ==
    /\ Constructed
    /\ rpc[r] = "idle"
    /\ \/ mapped = 0 /\ Segv
       \/ /\ mapped > 0
          /\ rpc' = [rpc EXCEPT ![r] = "loaded"]
          /\ UNCHANGED <<file, mapped, capacity, pc, op, new_size, bound,
                         outgrown, segv>>

\* ... and reads the header behind it.
RatioRead(r) ==
    \/ rpc[r] = "stale" /\ Segv
    \/ /\ rpc[r] = "loaded"
       /\ rpc' = [rpc EXCEPT ![r] = "idle"]
       /\ UNCHANGED <<file, mapped, capacity, pc, op, new_size, bound, outgrown,
                      segv>>

Next ==
    \/ OpenFd \/ GetFileSize \/ Reserve \/ Truncate \/ Map \/ InitHeader
    \/ Push \/ Resize \/ Copy \/ SetSize
    \/ Clear \/ ClearSize
    \/ \E r \in Readers : RatioLoad(r) \/ RatioRead(r)
    \/ Crash

Spec == Init /\ [][Next]_vars

-----------------------------------------------------------------------------
(* Properties. *)

(***************************************************************************)
(* A crash between any two steps, and a Reserve_ that fails after it has   *)
(* unmapped or truncated the file, leave the data of the last finished     *)
(* operation, and so does the process that opens the file next: a Push is  *)
(* all or nothing, and only a Clear or a Resize that was called takes data *)
(* away.                                                                   *)
(***************************************************************************)
ImplementsCacheFile == Cache!Spec

(***************************************************************************)
(* Every copy stays inside the mapping, and the mapping inside the file;   *)
(* the logical size never promises more than the file holds, also when     *)
(* ftruncate succeeded and mmap then failed, and the sizes of two calls    *)
(* differ.                                                                 *)
(***************************************************************************)
InBounds ==
    /\ pc = "copy" => HeaderSize + data_size + 1 <= mapped
    /\ mapped > 0 => capacity <= mapped /\ mapped <= file_size
    /\ magic => HeaderSize + data_size <= file_size

(***************************************************************************)
(* While no call has needed more than the capacity, no pointer that is     *)
(* null or unmapped is used: Ratio() without mtx_ is safe, and so are the  *)
(* operations after one that threw.  Beyond that the code is not safe: the *)
(* remapping of a growing master pulls the mapping from under Ratio(), and *)
(* a failed Trymap_ leaves mmap_ null.                                     *)
(***************************************************************************)
SafeUntilOutgrown == segv => outgrown
=============================================================================
