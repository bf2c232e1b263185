--------------------------- MODULE MMapAuxProofs ---------------------------
(***************************************************************************)
(* Proofs about MMapAux, for every page size, header size and capacity,    *)
(* any number of readers and any bounds: the copies stay inside the        *)
(* mapping, no bad pointer is used before a call outgrows the capacity,    *)
(* and the steps of the object implement the atomic CacheFile.             *)
(***************************************************************************)
EXTENDS MMapAux, TLAPS

\* The calls that an operation on an existing object is in the middle of.
InCall == pc \in {"reserve", "truncate", "map", "copy", "set_size"} /\ op # "open"

\* Where the user of the object is agrees with the operation in progress.
PhaseOK ==
    /\ pc \in {"none", "stat", "init"} => op = "open"
    /\ pc = "copy" => op = "push"
    /\ pc \in {"reserve", "truncate", "map"} => op # "clear"
    /\ pc = "set_size" => op \in {"push", "resize"}
    /\ pc = "clear" => op = "clear"

\* Before Init_ there is nothing to lose but what the file holds: the
\* mapping comes last, no reader has the object, and the size asked for
\* covers the data.
OpeningOK ==
    op = "open" /\ pc # "idle" =>
        /\ pc # "init" => mapped = 0 /\ capacity = 0
        /\ pc = "init" => mapped > 0
        /\ \A r \in Readers : rpc[r] = "idle"
        /\ pc \in {"reserve", "truncate", "map"} =>
               /\ new_size > HeaderSize
               /\ magic => HeaderSize + data_size <= new_size

\* After Init_ the header and the data fit in capacity_, also when a
\* remapping failed and capacity_ is that of the mapping that is gone.
CapacityOK ==
    /\ Constructed => magic /\ HeaderSize + data_size <= capacity
    /\ mapped > 0 => mapped = capacity /\ mapped <= file_size
    /\ pc = "init" /\ magic => HeaderSize + data_size <= capacity
    /\ pc = "init" => HeaderSize <= capacity
    /\ magic => HeaderSize + data_size <= file_size

\* The size a call asked Reserve_ for, and what Reserve_ has made of it.
ReserveOK ==
    /\ InCall => new_size >= HeaderSize
    /\ InCall /\ op = "push" => new_size = HeaderSize + data_size + 1
    /\ InCall /\ op = "push" /\ pc \notin {"truncate", "map"} => mapped > 0
    /\ pc \in {"truncate", "map"} => mapped = 0 /\ new_size > capacity
    /\ pc = "map" => file_size = Valid(new_size)
    /\ pc \in {"copy", "set_size"} => new_size <= capacity

\* What a push appends is behind the data before the size is stored.
CopiedOK ==
    pc = "set_size" /\ op = "push" =>
        Len(cells) > data_size /\ cells[data_size + 1] = pushes

\* Only a call that needs more than the capacity takes the mapping away.
OutgrownOK ==
    /\ InCall /\ new_size > capacity => outgrown
    /\ Constructed /\ mapped = 0 => outgrown
    /\ \A r \in Readers : rpc[r] = "stale" => outgrown
    /\ segv => outgrown

AuxInv ==
    /\ TypeOK
    /\ PhaseOK
    /\ OpeningOK
    /\ CapacityOK
    /\ ReserveOK
    /\ CopiedOK
    /\ OutgrownOK

-----------------------------------------------------------------------------
(* Lemmas about the operators. *)

\* Division, from its defining property.
LEMMA DivBounds ==
    ASSUME NEW a \in Nat, NEW p \in Nat \ {0}
    PROVE  /\ a \div p \in Nat
           /\ (a \div p) * p <= a
           /\ a < (a \div p) * p + p
<1>1. a \div p \in Int
  OBVIOUS
<1>2. a = p * (a \div p) + (a % p) /\ a % p \in 0..(p - 1)
  OBVIOUS
<1> QED
  BY <1>1, <1>2

\* Whole pages are not rounded.
LEMMA DivExact ==
    ASSUME NEW q \in Nat, NEW p \in Nat \ {0}
    PROVE  (q * p + p - 1) \div p = q
OBVIOUS

\* GetValidCapacity rounds up, to a size that it rounds to itself.
LEMMA ValidUp ==
    ASSUME NEW n \in Nat
    PROVE  Valid(n) \in Nat /\ Valid(n) >= n /\ Valid(Valid(n)) = Valid(n)
<1> DEFINE q == (n + PageSize - 1) \div PageSize
<1>1. PageSize \in Nat \ {0}
  BY AuxAssumption
<1>2. q \in Nat /\ q * PageSize <= n + PageSize - 1
      /\ n + PageSize - 1 < q * PageSize + PageSize
  BY <1>1, DivBounds
<1>3. Valid(n) = q * PageSize
  BY DEF Valid, Cache!GetValidCapacity
<1>4. (q * PageSize + PageSize - 1) \div PageSize = q
  BY <1>1, <1>2, DivExact
<1>5. Valid(q * PageSize) = q * PageSize
  BY <1>4 DEF Valid, Cache!GetValidCapacity
<1> HIDE DEF q
<1>6. q * PageSize \in Nat
  BY <1>1, <1>2
<1> QED
  BY <1>1, <1>2, <1>3, <1>5, <1>6

-----------------------------------------------------------------------------
(* The invariant. *)

LEMMA AuxInit == Init => AuxInv
<1> SUFFICES ASSUME Init PROVE AuxInv
  OBVIOUS
<1>1. TypeOK
  <2>1. magic \in BOOLEAN /\ outgrown \in BOOLEAN /\ segv \in BOOLEAN
    BY Zenon DEF Init
  <2> QED
    BY <2>1 DEF Init, TypeOK
<1>2. PhaseOK /\ OpeningOK /\ CopiedOK /\ OutgrownOK
  BY DEF Init, PhaseOK, OpeningOK, CopiedOK, OutgrownOK, InCall, Constructed
<1>3. CapacityOK /\ ReserveOK
  BY DEF Init, CapacityOK, ReserveOK, InCall, Constructed
<1> QED
  BY <1>1, <1>2, <1>3 DEF AuxInv

\* A process that dies leaves the file, and no reader.
LEMMA GoneStep ==
    ASSUME AuxInv, Gone, segv' \in BOOLEAN, segv' => outgrown
    PROVE  AuxInv'
<1>1. /\ pc' = "none" /\ op' = "open" /\ new_size' = 0
      /\ mapped' = 0 /\ capacity' = 0
      /\ rpc' = [r \in Readers |-> "idle"]
      /\ UNCHANGED <<file_size, magic, data_size, cells, pushes, runs,
                     failures, outgrown>>
  BY DEF Gone, file, bound
<1>2. TypeOK'
  BY <1>1 DEF AuxInv, TypeOK
<1>3. PhaseOK' /\ CopiedOK'
  BY <1>1 DEF PhaseOK, CopiedOK
<1>4. OpeningOK' /\ CapacityOK' /\ ReserveOK'
  BY <1>1 DEF AuxInv, TypeOK, OpeningOK, CapacityOK, ReserveOK, InCall,
              Constructed
<1>5. OutgrownOK'
  BY <1>1 DEF OutgrownOK, InCall, Constructed
<1> QED
  BY <1>2, <1>3, <1>4, <1>5 DEF AuxInv

\* An operation that throws: Reserve_ has not set capacity_ yet.
LEMMA ThrowStep ==
    ASSUME AuxInv, Throw, pc \in {"stat", "truncate", "map"}
    PROVE  AuxInv'
<1>1. /\ failures' = failures + 1
      /\ pc' = IF op = "open" THEN "none" ELSE "idle"
      /\ UNCHANGED <<file_size, magic, data_size, cells, mapped, capacity, op,
                     new_size, rpc, pushes, runs, outgrown, segv>>
  BY DEF Throw, file
<1>2. TypeOK'
  BY <1>1 DEF AuxInv, TypeOK
<1>3. PhaseOK' /\ CopiedOK' /\ OpeningOK'
  BY <1>1 DEF AuxInv, PhaseOK, CopiedOK, OpeningOK
<1>4. CapacityOK' /\ ReserveOK'
  BY <1>1 DEF AuxInv, TypeOK, PhaseOK, CapacityOK, ReserveOK, InCall,
              Constructed
<1>5. OutgrownOK'
  BY <1>1 DEF AuxInv, PhaseOK, ReserveOK, OutgrownOK, InCall, Constructed
<1> QED
  BY <1>2, <1>3, <1>4, <1>5 DEF AuxInv

\* Reserve_ decides; when the size does not fit, the mapping goes and a
\* reader that has loaded its address holds a stale one.
LEMMA ReserveStep ==
    ASSUME AuxInv, Reserve
    PROVE  AuxInv'
<1>1. /\ pc = "reserve"
      /\ UNCHANGED <<file_size, magic, data_size, cells, capacity, op,
                     new_size, pushes, runs, failures, outgrown, segv>>
  BY DEF Reserve, file, bound
<1>2. op \in {"open", "push", "resize"} /\ capacity \in Nat /\ new_size \in Nat
      /\ rpc \in [Readers -> {"idle", "loaded", "stale"}]
  BY <1>1 DEF AuxInv, TypeOK, PhaseOK
<1>3. CASE new_size <= capacity
  <2>1. pc' = After /\ UNCHANGED <<mapped, rpc>>
    BY <1>2, <1>3 DEF Reserve
  <2>2. op # "open"
    BY <1>1, <1>2, <1>3, AuxAssumption DEF AuxInv, OpeningOK
  <2>3. \/ op = "push" /\ pc' = "copy"
        \/ op = "resize" /\ pc' = "set_size"
    BY <1>2, <2>1, <2>2 DEF After
  <2>4. TypeOK'
    BY <1>1, <2>1, <2>3 DEF AuxInv, TypeOK
  <2>5. PhaseOK' /\ CopiedOK' /\ OpeningOK'
    BY <1>1, <2>1, <2>3 DEF PhaseOK, CopiedOK, OpeningOK
  <2>6. CapacityOK'
    BY <1>1, <2>1, <2>2, <2>3 DEF AuxInv, CapacityOK, Constructed
  <2>8. ReserveOK'
    BY <1>1, <1>3, <2>1, <2>3 DEF AuxInv, ReserveOK, InCall
  <2>7. OutgrownOK'
    BY <1>1, <2>1, <2>3 DEF AuxInv, OutgrownOK, InCall, Constructed
  <2> QED
    BY <2>4, <2>5, <2>6, <2>7, <2>8 DEF AuxInv
<1>4. CASE new_size > capacity
  <2>1. /\ mapped' = 0 /\ pc' = "truncate"
        /\ rpc' = [r \in Readers |->
                      IF rpc[r] = "loaded" THEN "stale" ELSE rpc[r]]
    BY <1>2, <1>4 DEF Reserve
  <2>2. TypeOK'
    BY <1>1, <1>2, <2>1 DEF AuxInv, TypeOK
  <2>3. PhaseOK' /\ CopiedOK' /\ OpeningOK'
    BY <1>1, <1>2, <2>1 DEF AuxInv, PhaseOK, CopiedOK, OpeningOK
  <2>4. CapacityOK' /\ ReserveOK'
    BY <1>1, <1>2, <1>4, <2>1
       DEF AuxInv, TypeOK, CapacityOK, ReserveOK, InCall, Constructed
  <2>5. op # "open" => outgrown
    BY <1>1, <1>4 DEF AuxInv, OutgrownOK, InCall
  <2>6. op = "open" => \A r \in Readers : rpc'[r] = "idle"
    BY <1>1, <1>2, <2>1 DEF AuxInv, OpeningOK
  <2>7. OutgrownOK'
    BY <1>1, <1>2, <2>1, <2>5, <2>6
       DEF AuxInv, OutgrownOK, InCall, Constructed
  <2> QED
    BY <2>2, <2>3, <2>4, <2>7 DEF AuxInv
<1> QED
  BY <1>2, <1>3, <1>4

\* The size that ftruncate gives the file covers the header and the data.
LEMMA TruncateCovers ==
    ASSUME AuxInv, pc = "truncate"
    PROVE  /\ Valid(new_size) \in Nat
           /\ Valid(new_size) >= HeaderSize
           /\ magic => HeaderSize + data_size <= Valid(new_size)
<1>1. new_size \in Nat /\ capacity \in Nat /\ data_size \in Nat
      /\ HeaderSize \in Nat
  BY AuxAssumption DEF AuxInv, TypeOK
<1>2. Valid(new_size) \in Nat /\ Valid(new_size) >= new_size
  BY <1>1, ValidUp
<1>3. CASE op = "open"
  BY <1>1, <1>2, <1>3 DEF AuxInv, OpeningOK
<1>4. CASE op # "open"
  BY <1>1, <1>2, <1>4
     DEF AuxInv, CapacityOK, ReserveOK, Constructed, InCall
<1> QED
  BY <1>3, <1>4

\* ftruncate keeps the cells that fit.
LEMMA TruncateStep ==
    ASSUME AuxInv, Truncate, ~Throw
    PROVE  AuxInv'
<1> DEFINE n == IF Len(cells) < file_size' - HeaderSize
                THEN Len(cells) ELSE file_size' - HeaderSize
<1>1. /\ pc = "truncate" /\ pc' = "map"
      /\ file_size' = Valid(new_size)
      /\ cells' = [i \in 1..n |-> cells[i]]
      /\ UNCHANGED <<magic, data_size, mapped, capacity, op, new_size, rpc,
                     pushes, runs, failures, outgrown, segv>>
  BY DEF Truncate, bound
<1>2. cells \in Seq(Nat) /\ HeaderSize \in Nat
  BY AuxAssumption DEF AuxInv, TypeOK
<1>3. n \in Nat /\ n <= Len(cells)
  BY <1>1, <1>2, TruncateCovers
<1> HIDE DEF n
<1>4. cells' \in Seq(Nat)
  BY <1>1, <1>2, <1>3
<1>5. TypeOK'
  BY <1>1, <1>4, TruncateCovers DEF AuxInv, TypeOK
<1>6. PhaseOK' /\ CopiedOK' /\ OpeningOK'
  BY <1>1 DEF AuxInv, PhaseOK, CopiedOK, OpeningOK
<1>7. ReserveOK'
  BY <1>1 DEF AuxInv, ReserveOK, InCall, Valid, Cache!GetValidCapacity
<1>8. CapacityOK'
  <2>1. mapped = 0
    BY <1>1 DEF AuxInv, ReserveOK
  <2> QED
    BY <1>1, <2>1, TruncateCovers DEF AuxInv, CapacityOK, Constructed
<1>9. OutgrownOK'
  BY <1>1 DEF AuxInv, OutgrownOK, InCall, Constructed
<1> QED
  BY <1>5, <1>6, <1>7, <1>8, <1>9 DEF AuxInv

\* mmap gives the mapping the size of the file.
LEMMA MapStep ==
    ASSUME AuxInv, Map, ~Throw
    PROVE  AuxInv'
<1>1. /\ pc = "map" /\ pc' = After
      /\ mapped' = Valid(new_size) /\ capacity' = Valid(new_size)
      /\ UNCHANGED <<file_size, magic, data_size, cells, op, new_size, rpc,
                     pushes, runs, failures, outgrown, segv>>
  BY DEF Map, file, bound
<1>2. /\ op \in {"open", "push", "resize"}
      /\ new_size \in Nat /\ capacity \in Nat /\ data_size \in Nat
      /\ HeaderSize \in Nat
  BY <1>1, AuxAssumption DEF AuxInv, TypeOK, PhaseOK
<1>3. /\ mapped' = file_size /\ capacity' = file_size
      /\ file_size \in Nat /\ file_size >= new_size /\ new_size > capacity
  BY <1>1, <1>2, ValidUp DEF AuxInv, TypeOK, ReserveOK
<1>4. \/ op = "open" /\ pc' = "init"
      \/ op = "push" /\ pc' = "copy"
      \/ op = "resize" /\ pc' = "set_size"
  BY <1>1, <1>2 DEF After
<1>5. TypeOK'
  BY <1>1, <1>3, <1>4 DEF AuxInv, TypeOK
<1>6. PhaseOK' /\ CopiedOK'
  BY <1>1, <1>4 DEF PhaseOK, CopiedOK
<1>7. OpeningOK'
  BY <1>1, <1>2, <1>3, <1>4 DEF AuxInv, OpeningOK
<1>8. ReserveOK'
  BY <1>1, <1>2, <1>3, <1>4 DEF AuxInv, ReserveOK, InCall
<1>9. CapacityOK'
  <2>1. op = "open" => new_size > HeaderSize
    BY <1>1 DEF AuxInv, OpeningOK
  <2>2. op # "open" => magic
    BY DEF AuxInv, CapacityOK, Constructed
  <2> QED
    BY <1>1, <1>2, <1>3, <1>4, <2>1, <2>2 DEF AuxInv, CapacityOK, Constructed
<1>10. OutgrownOK'
  BY <1>1, <1>2, <1>3, <1>4 DEF AuxInv, OutgrownOK, InCall, Constructed
<1> QED
  BY <1>5, <1>6, <1>7, <1>8, <1>9, <1>10 DEF AuxInv

\* A call of Push or Resize asks for the header, too.
LEMMA CallStep ==
    ASSUME AuxInv, pc = "idle", NEW o \in {"push", "resize"}, NEW size \in Nat,
           Call(o, size), size >= HeaderSize,
           o = "push" => size = HeaderSize + data_size + 1 /\ mapped > 0,
           pushes' \in Nat,
           UNCHANGED <<file_size, magic, data_size, cells, mapped, capacity, rpc,
                       runs, failures, segv>>
    PROVE  AuxInv'
<1>1. /\ pc' = "reserve" /\ op' = o /\ new_size' = size
      /\ outgrown' = (outgrown \/ size > capacity)
  BY DEF Call
<1>2. outgrown \in BOOLEAN /\ outgrown' \in BOOLEAN
  BY <1>1 DEF AuxInv, TypeOK
<1>3. TypeOK'
  BY <1>1, <1>2 DEF AuxInv, TypeOK
<1>4. PhaseOK' /\ CopiedOK' /\ OpeningOK'
  BY <1>1 DEF PhaseOK, CopiedOK, OpeningOK
<1>5. CapacityOK'
  BY <1>1 DEF AuxInv, CapacityOK, Constructed
<1>6. ReserveOK'
  BY <1>1 DEF AuxInv, ReserveOK, InCall
<1>7. OutgrownOK'
  BY <1>1, <1>2 DEF AuxInv, OutgrownOK, InCall, Constructed
<1> QED
  BY <1>3, <1>4, <1>5, <1>6, <1>7 DEF AuxInv

\* A process that uses a pointer it must not use has outgrown the capacity.
LEMMA SegvStep ==
    ASSUME AuxInv, Segv,
           (mapped = 0 /\ Constructed) \/ \E r \in Readers : rpc[r] = "stale"
    PROVE  AuxInv'
<1>1. Gone /\ segv' = TRUE /\ outgrown
  BY DEF AuxInv, OutgrownOK, Segv
<1> QED
  BY <1>1, GoneStep

\* memcpy behind the data.
LEMMA CopyStep ==
    ASSUME AuxInv, Copy
    PROVE  AuxInv'
<1> DEFINE n == IF Len(cells) > data_size THEN Len(cells) ELSE data_size + 1
<1>1. /\ pc = "copy" /\ pc' = "set_size"
      /\ cells' = [i \in 1..n |-> IF i = data_size + 1 THEN pushes ELSE Cell(i)]
      /\ UNCHANGED <<file_size, magic, data_size, mapped, capacity, op,
                     new_size, rpc, pushes, runs, failures, outgrown, segv>>
  BY DEF Copy, bound
<1>2. cells \in Seq(Nat) /\ data_size \in Nat /\ pushes \in Nat
  BY DEF AuxInv, TypeOK
<1>3. n \in Nat /\ n >= data_size + 1
  BY <1>2
<1> HIDE DEF n
<1>4. \A i \in 1..n : Cell(i) \in Nat
  BY <1>2, <1>3 DEF Cell
<1>5. /\ cells' \in Seq(Nat) /\ Len(cells') = n
      /\ cells'[data_size + 1] = pushes
  BY <1>1, <1>2, <1>3, <1>4
<1>6. TypeOK'
  BY <1>1, <1>5 DEF AuxInv, TypeOK
<1>7. PhaseOK' /\ OpeningOK'
  BY <1>1 DEF AuxInv, PhaseOK, OpeningOK
<1>8. CopiedOK'
  BY <1>1, <1>2, <1>3, <1>5 DEF CopiedOK
<1>9. CapacityOK' /\ ReserveOK' /\ OutgrownOK'
  BY <1>1 DEF AuxInv, PhaseOK, CapacityOK, ReserveOK, OutgrownOK, InCall,
              Constructed
<1> QED
  BY <1>6, <1>7, <1>8, <1>9 DEF AuxInv

\* The size in the header, which makes the operation count.
LEMMA SetSizeStep ==
    ASSUME AuxInv, SetSize
    PROVE  AuxInv'
<1>1. pc = "set_size" /\ op # "open" /\ new_size <= capacity
      /\ new_size >= HeaderSize
  BY DEF SetSize, AuxInv, PhaseOK, ReserveOK, InCall
<1>2. CASE mapped = 0 /\ Segv
  BY <1>1, <1>2, SegvStep DEF Constructed
<1>3. CASE ~(mapped = 0 /\ Segv)
  <2>1. /\ mapped > 0
        /\ data_size' = new_size - HeaderSize
        /\ pc' = "idle"
        /\ UNCHANGED <<file_size, magic, cells, mapped, capacity, op,
                       new_size, rpc, pushes, runs, failures, outgrown, segv>>
    BY <1>3 DEF SetSize, bound
  <2>2. new_size \in Nat /\ HeaderSize \in Nat /\ capacity \in Nat
        /\ file_size \in Nat
    BY AuxAssumption DEF AuxInv, TypeOK
  <2>3. data_size' \in Nat /\ HeaderSize + data_size' = new_size
    BY <1>1, <2>1, <2>2
  <2>4. TypeOK'
    BY <2>1, <2>3 DEF AuxInv, TypeOK
  <2>5. PhaseOK' /\ OpeningOK' /\ CopiedOK'
    BY <2>1 DEF PhaseOK, OpeningOK, CopiedOK
  <2>6. CapacityOK'
    BY <1>1, <2>1, <2>2, <2>3 DEF AuxInv, CapacityOK, Constructed
  <2>7. ReserveOK' /\ OutgrownOK'
    BY <1>1, <2>1 DEF AuxInv, ReserveOK, OutgrownOK, InCall, Constructed
  <2> QED
    BY <2>4, <2>5, <2>6, <2>7 DEF AuxInv
<1> QED
  BY <1>2, <1>3

\* Every step keeps the invariant.
LEMMA AuxStep ==
    AuxInv /\ [Next]_vars => AuxInv'
<1> SUFFICES ASSUME AuxInv, [Next]_vars
             PROVE  AuxInv'
  OBVIOUS
<1>1. CASE OpenFd
  <2>1. /\ pc = "none" /\ pc' = "stat" /\ op' = "open" /\ runs' = runs + 1
        /\ UNCHANGED <<file_size, magic, data_size, cells, mapped, capacity,
                       new_size, rpc, pushes, failures, outgrown, segv>>
    BY <1>1 DEF OpenFd, file
  <2>2. TypeOK'
    BY <2>1 DEF AuxInv, TypeOK
  <2>3. PhaseOK' /\ OpeningOK' /\ CopiedOK'
    BY <2>1 DEF AuxInv, PhaseOK, OpeningOK, CopiedOK
  <2>4. CapacityOK' /\ ReserveOK' /\ OutgrownOK'
    BY <2>1 DEF AuxInv, PhaseOK, CapacityOK, ReserveOK, OutgrownOK, InCall,
                Constructed
  <2> QED
    BY <2>2, <2>3, <2>4 DEF AuxInv
<1>2. CASE GetFileSize
  <2>1. CASE Throw
    BY <1>2, <2>1, ThrowStep DEF GetFileSize
  <2>2. CASE ~Throw
    <3>1. /\ pc = "stat" /\ pc' = "reserve"
          /\ new_size' = IF file_size > DefaultCapacity THEN file_size
                                                        ELSE DefaultCapacity
          /\ UNCHANGED <<file_size, magic, data_size, cells, mapped, capacity,
                         op, rpc, pushes, runs, failures, outgrown, segv>>
      BY <1>2, <2>2 DEF GetFileSize, file, bound
    <3>2. op = "open" /\ data_size \in Nat /\ file_size \in Nat
      BY <3>1 DEF AuxInv, TypeOK, PhaseOK
    <3>3. /\ new_size' \in Nat /\ new_size' > HeaderSize
          /\ new_size' >= file_size
      BY <3>1, <3>2, AuxAssumption
    <3>4. TypeOK'
      BY <3>1, <3>3 DEF AuxInv, TypeOK
    <3>5. PhaseOK' /\ CopiedOK'
      BY <3>1, <3>2 DEF PhaseOK, CopiedOK
    <3>6. magic => HeaderSize + data_size <= new_size'
      BY <3>2, <3>3, AuxAssumption DEF AuxInv, CapacityOK
    <3>7. OpeningOK'
      BY <3>1, <3>2, <3>3, <3>6 DEF AuxInv, OpeningOK
    <3>8. CapacityOK' /\ ReserveOK' /\ OutgrownOK'
      BY <3>1, <3>2 DEF AuxInv, CapacityOK, ReserveOK, OutgrownOK, InCall,
                        Constructed
    <3> QED
      BY <3>4, <3>5, <3>7, <3>8 DEF AuxInv
  <2> QED
    BY <2>1, <2>2
<1>3. CASE Reserve
  BY <1>3, ReserveStep
<1>4. CASE Truncate
  <2>1. CASE Throw
    BY <1>4, <2>1, ThrowStep DEF Truncate
  <2> QED
    BY <1>4, <2>1, TruncateStep
<1>5. CASE Map
  <2>1. CASE Throw
    BY <1>5, <2>1, ThrowStep DEF Map
  <2> QED
    BY <1>5, <2>1, MapStep
<1>6. CASE InitHeader
  <2>1. /\ pc = "init" /\ pc' = "idle" /\ magic' = TRUE
        /\ data_size' = IF magic THEN data_size ELSE 0
        /\ UNCHANGED <<file_size, cells, mapped, capacity, op, new_size, rpc,
                       pushes, runs, failures, outgrown, segv>>
    BY <1>6 DEF InitHeader, bound
  <2>2. data_size \in Nat /\ capacity \in Nat /\ mapped \in Nat
        /\ file_size \in Nat
    BY DEF AuxInv, TypeOK
  <2>3. data_size' \in Nat /\ magic' \in BOOLEAN
    BY <2>1, <2>2
  <2>4. HeaderSize + data_size' <= capacity
    BY <2>1, <2>2, AuxAssumption DEF AuxInv, CapacityOK
  <2>5. mapped > 0 /\ mapped = capacity /\ mapped <= file_size
        /\ op = "open"
    BY <2>1 DEF AuxInv, PhaseOK, OpeningOK, CapacityOK
  <2>6. TypeOK'
    BY <2>1, <2>3 DEF AuxInv, TypeOK
  <2>7. PhaseOK' /\ OpeningOK' /\ CopiedOK'
    BY <2>1 DEF PhaseOK, OpeningOK, CopiedOK
  <2>8. CapacityOK'
    BY <2>1, <2>2, <2>3, <2>4, <2>5, AuxAssumption DEF CapacityOK, Constructed
  <2>9. ReserveOK' /\ OutgrownOK'
    BY <2>1, <2>5, <2>2 DEF AuxInv, ReserveOK, OutgrownOK, InCall, Constructed
  <2> QED
    BY <2>6, <2>7, <2>8, <2>9 DEF AuxInv
<1>7. CASE Push
  <2>1. CASE mapped = 0 /\ Segv
    BY <1>7, <2>1, SegvStep DEF Push, Constructed
  <2>2. CASE ~(mapped = 0 /\ Segv)
    <3>1. /\ pc = "idle" /\ mapped > 0
          /\ Call("push", HeaderSize + data_size + 1)
          /\ pushes' = pushes + 1
          /\ UNCHANGED <<file_size, magic, data_size, cells, mapped, capacity,
                         rpc, runs, failures, segv>>
      BY <1>7, <2>2 DEF Push, file
    <3>2. /\ HeaderSize + data_size + 1 \in Nat
          /\ HeaderSize + data_size + 1 >= HeaderSize
          /\ pushes' \in Nat
      BY <3>1, AuxAssumption DEF AuxInv, TypeOK
    <3> QED
      BY <3>1, <3>2, CallStep
  <2> QED
    BY <2>1, <2>2
<1>8. CASE Resize
  <2>1. PICK n \in 0..MaxSize : Call("resize", HeaderSize + n)
    BY <1>8 DEF Resize
  <2>2. /\ pc = "idle"
        /\ UNCHANGED <<file_size, magic, data_size, cells, mapped, capacity,
                       rpc, pushes, runs, failures, segv>>
    BY <1>8 DEF Resize, file, bound
  <2>3. HeaderSize + n \in Nat /\ HeaderSize + n >= HeaderSize
    BY AuxAssumption
  <2>4. pushes' \in Nat
    BY <2>2 DEF AuxInv, TypeOK
  <2> QED
    BY <2>1, <2>2, <2>3, <2>4, CallStep
<1>9. CASE Copy
  BY <1>9, CopyStep
<1>10. CASE SetSize
  BY <1>10, SetSizeStep
<1>11. CASE Clear
  <2>1. CASE mapped = 0 /\ Segv
    BY <1>11, <2>1, SegvStep DEF Clear, Constructed
  <2>2. CASE ~(mapped = 0 /\ Segv)
    <3>1. /\ pc = "idle" /\ pc' = "clear" /\ op' = "clear" /\ mapped > 0
          /\ UNCHANGED <<file_size, magic, data_size, cells, mapped, capacity,
                         new_size, rpc, pushes, runs, failures, outgrown, segv>>
      BY <1>11, <2>2 DEF Clear, file, bound
    <3>2. TypeOK'
      BY <3>1 DEF AuxInv, TypeOK
    <3>3. PhaseOK' /\ OpeningOK' /\ CopiedOK'
      BY <3>1 DEF AuxInv, PhaseOK, OpeningOK, CopiedOK
    <3>4. CapacityOK'
      BY <3>1, AuxAssumption DEF AuxInv, TypeOK, CapacityOK, Constructed
    <3>5. ReserveOK' /\ OutgrownOK'
      BY <3>1 DEF AuxInv, ReserveOK, OutgrownOK, InCall, Constructed
    <3> QED
      BY <3>2, <3>3, <3>4, <3>5 DEF AuxInv
  <2> QED
    BY <2>1, <2>2
<1>15. CASE ClearSize
  <2>1. /\ pc = "clear" /\ pc' = "idle" /\ data_size' = 0
        /\ UNCHANGED <<file_size, magic, cells, mapped, capacity, op, new_size,
                       rpc, pushes, runs, failures, outgrown, segv>>
    BY <1>15 DEF ClearSize, bound
  <2>2. op = "clear"
    BY <2>1 DEF AuxInv, PhaseOK
  <2>3. TypeOK'
    BY <2>1 DEF AuxInv, TypeOK
  <2>4. PhaseOK' /\ OpeningOK' /\ CopiedOK'
    BY <2>1, <2>2 DEF AuxInv, PhaseOK, OpeningOK, CopiedOK
  <2>5. CapacityOK'
    BY <2>1, <2>2, AuxAssumption DEF AuxInv, TypeOK, CapacityOK, Constructed
  <2>6. ReserveOK' /\ OutgrownOK'
    BY <2>1, <2>2 DEF AuxInv, ReserveOK, OutgrownOK, InCall, Constructed
  <2> QED
    BY <2>3, <2>4, <2>5, <2>6 DEF AuxInv
<1>12. ASSUME NEW r \in Readers, RatioLoad(r) \/ RatioRead(r)
       PROVE  AuxInv'
  <2>1. CASE Segv /\ ((mapped = 0 /\ Constructed) \/ rpc[r] = "stale")
    BY <2>1, SegvStep
  <2>2. CASE ~(Segv /\ ((mapped = 0 /\ Constructed) \/ rpc[r] = "stale"))
    <3>1. PICK s \in {"idle", "loaded"} : rpc' = [rpc EXCEPT ![r] = s]
      BY <1>12, <2>2 DEF RatioLoad, RatioRead
    <3>2. /\ Constructed \/ s = "idle"
          /\ UNCHANGED <<file_size, magic, data_size, cells, mapped, capacity,
                         pc, op, new_size, pushes, runs, failures, outgrown,
                         segv>>
      BY <1>12, <2>2, <3>1 DEF RatioLoad, RatioRead, file, bound, AuxInv, TypeOK
    <3>3. TypeOK'
      BY <3>1, <3>2 DEF AuxInv, TypeOK
    <3>4. PhaseOK' /\ CopiedOK' /\ CapacityOK'
      BY <3>2 DEF AuxInv, PhaseOK, CopiedOK, CapacityOK, Constructed
    <3>5. ReserveOK'
      BY <3>2 DEF AuxInv, ReserveOK, InCall, Valid, Cache!GetValidCapacity
    <3>6. OpeningOK' /\ OutgrownOK'
      BY <3>1, <3>2 DEF AuxInv, TypeOK, OpeningOK, OutgrownOK, InCall,
                        Constructed
    <3> QED
      BY <3>3, <3>4, <3>5, <3>6 DEF AuxInv
  <2> QED
    BY <2>1, <2>2
<1>13. CASE Crash
  <2>1. segv' \in BOOLEAN /\ (segv' => outgrown)
    BY <1>13 DEF Crash, AuxInv, TypeOK, OutgrownOK
  <2> QED
    BY <1>13, <2>1, GoneStep DEF Crash
<1>14. CASE UNCHANGED vars
  <2>1. UNCHANGED <<file_size, magic, data_size, cells, mapped, capacity, pc,
                    op, new_size, rpc, pushes, runs, failures, outgrown, segv>>
    BY <1>14 DEF vars, file, bound
  <2>2. TypeOK' /\ PhaseOK' /\ OpeningOK' /\ CapacityOK'
    BY <2>1 DEF AuxInv, TypeOK, PhaseOK, OpeningOK, CapacityOK, Constructed
  <2>3. ReserveOK' /\ CopiedOK' /\ OutgrownOK'
    BY <2>1 DEF AuxInv, ReserveOK, CopiedOK, OutgrownOK, InCall, Constructed,
                Valid, Cache!GetValidCapacity
  <2> QED
    BY <2>2, <2>3 DEF AuxInv
<1> QED
  BY <1>1, <1>2, <1>3, <1>4, <1>5, <1>6, <1>7, <1>8, <1>9, <1>10, <1>11,
     <1>12, <1>13, <1>14, <1>15 DEF Next

\* The invariant holds throughout.
LEMMA AuxInvariant == Spec => []AuxInv
BY AuxInit, AuxStep, PTL DEF Spec

\* The variables of the object have their types in every reachable state.
THEOREM AuxTypes == Spec => []TypeOK
<1>1. AuxInv => TypeOK
  BY DEF AuxInv
<1> QED
  BY AuxInvariant, <1>1, PTL

\* A copy never leaves the mapping, the mapping never the file, and the size
\* in the header never promises more than the file holds, whatever fails
\* and wherever the process dies.
THEOREM CopiesInBounds == Spec => []InBounds
<1>1. AuxInv => InBounds
  <2> SUFFICES ASSUME AuxInv PROVE InBounds
    OBVIOUS
  <2>1. capacity \in Nat /\ mapped \in Nat
    BY DEF AuxInv, TypeOK
  <2>2. pc = "copy" => HeaderSize + data_size + 1 <= mapped
    BY <2>1 DEF AuxInv, PhaseOK, CapacityOK, ReserveOK, InCall
  <2> QED
    BY <2>1, <2>2 DEF AuxInv, CapacityOK, InBounds
<1> QED
  BY AuxInvariant, <1>1, PTL

\* Until a call needs more than the capacity, neither Ratio() without the
\* lock nor an operation after one that threw uses a pointer that is null or
\* unmapped, for any number of readers.
THEOREM PointersSafe == Spec => []SafeUntilOutgrown
<1>1. AuxInv => SafeUntilOutgrown
  BY DEF AuxInv, OutgrownOK, SafeUntilOutgrown
<1> QED
  BY AuxInvariant, <1>1, PTL

-----------------------------------------------------------------------------
(* Refinement: the steps of the object on its file are those of CacheFile. *)

\* The number of cells that the next process would find.
Used == IF magic THEN data_size ELSE 0

\* A record of CacheFile with other data.
LEMMA OtherData ==
    ASSUME NEW x, NEW y, NEW d, NEW e, NEW c,
           x = [data |-> d, cap |-> c], y = [data |-> e, cap |-> c]
    PROVE  /\ x.data = d /\ x.cap = c /\ y.data = e /\ y.cap = c
           /\ y = [x EXCEPT !.data = e]
OBVIOUS

\* The content, part by part.
LEMMA ContentParts ==
    ASSUME AuxInv
    PROVE  /\ Used \in Nat
           /\ Content = [data |-> Content.data, cap |-> file_size]
           /\ Content.data = [i \in 1..Used |-> Cell(i)]
           /\ Content.data \in Seq(Nat)
           /\ Len(Content.data) = Used
<1>1. Used \in Nat /\ cells \in Seq(Nat)
  BY DEF Used, AuxInv, TypeOK
<1>2. Content = [data |-> Content.data, cap |-> file_size]
      /\ Content.data = [i \in 1..Used |-> Cell(i)]
  BY DEF Content, Used
<1>3. \A i \in 1..Used : Cell(i) \in Nat
  BY <1>1 DEF Cell
<1> QED
  BY <1>1, <1>2, <1>3

\* A step that keeps the size of the file and the cells in use keeps the
\* content.
LEMMA ContentKept ==
    ASSUME AuxInv, file_size' = file_size, Used' = Used,
           \A i \in 1..Used : Cell(i)' = Cell(i)
    PROVE  UNCHANGED Content
BY DEF Content, Used

\* So does one that leaves the file alone.
LEMMA FileKept ==
    ASSUME AuxInv, UNCHANGED file
    PROVE  UNCHANGED Content
BY DEF file, Content, Cell

\* ftruncate refits the file and keeps its data.
LEMMA TruncateRefits ==
    ASSUME AuxInv, Truncate, ~Throw
    PROVE  Cache!Refit
<1> DEFINE n == IF Len(cells) < file_size' - HeaderSize
                THEN Len(cells) ELSE file_size' - HeaderSize
<1>1. /\ pc = "truncate"
      /\ file_size' = Valid(new_size)
      /\ cells' = [i \in 1..n |-> cells[i]]
      /\ UNCHANGED <<magic, data_size>>
  BY DEF Truncate
<1>2. /\ cells \in Seq(Nat) /\ HeaderSize \in Nat
      /\ new_size \in Nat /\ data_size \in Nat
  BY AuxAssumption DEF AuxInv, TypeOK
<1>3. /\ file_size' \in Nat /\ file_size' >= HeaderSize
  BY <1>1, TruncateCovers
<1>14. magic => HeaderSize + data_size <= file_size'
  BY <1>1, TruncateCovers
<1>4. /\ n \in Nat /\ n <= Len(cells)
      /\ n = Len(cells) \/ n = file_size' - HeaderSize
  <2>1. \A f, h \in Nat : f >= h => f - h \in Nat
    OBVIOUS
  <2>2. file_size' - HeaderSize \in Nat
    BY <1>2, <1>3, <2>1, Zenon
  <2>3. Len(cells) \in Nat
    BY <1>2
  <2> QED
    BY <2>2, <2>3
<1> HIDE DEF n
<1>5. Used' = Used /\ Used \in Nat /\ HeaderSize + Used <= file_size'
  BY <1>1, <1>2, <1>3, <1>14 DEF Used
<1>6. Len(cells') = n /\ \A i \in 1..n : cells'[i] = cells[i]
  BY <1>1, <1>4
<1>7. \A i \in 1..Used : Cell(i)' = Cell(i)
  <2> SUFFICES ASSUME NEW i \in 1..Used PROVE Cell(i)' = Cell(i)
    OBVIOUS
  <2>1. PICK k \in Nat, f \in Nat, h \in Nat, u \in Nat :
            k = Len(cells) /\ f = file_size' /\ h = HeaderSize /\ u = Used
    BY <1>2, <1>3, <1>5
  <2>2. h + u <= f /\ i \in 1..u
    BY <1>5, <2>1
  <2>3. n \in Nat /\ n <= k /\ (n = k \/ n = f - h)
    BY <1>4, <2>1
  <2>4. i <= k <=> i <= n
    BY <2>2, <2>3
  <2> QED
    BY <1>6, <2>1, <2>2, <2>4 DEF Cell
<1>8. Content'.data = Content.data
  BY <1>5, <1>7 DEF Content, Used
<1>9. Content' = [Content EXCEPT !.cap = Content'.cap]
  BY <1>8 DEF Content
<1>10. Content'.cap = file_size'
  BY DEF Content
<1>11. Valid(file_size') = file_size'
  BY <1>1, <1>2, ValidUp
<1>12. Content'.cap = Cache!GetValidCapacity(Content'.cap)
  BY <1>10, <1>11 DEF Valid
<1>15. /\ Pending \in {"open", "push", "resize"}
       /\ UNCHANGED <<Pending, Argument>>
  <2>1. /\ pc' = "map" /\ UNCHANGED <<op, new_size, pushes>>
    BY DEF Truncate, bound
  <2>2. op \in {"open", "push", "resize"}
    BY <1>1 DEF AuxInv, TypeOK, PhaseOK
  <2> QED
    BY <1>1, <2>1, <2>2 DEF Pending, Argument
<1>13. HeaderSize + Cache!Size(Content) <= Content'.cap
  BY <1>5, <1>10, ContentParts DEF Cache!Size
<1> QED
  BY <1>9, <1>12, <1>13, <1>15 DEF Cache!Refit

\* Init_ makes a file empty that was empty to its next process anyway.
LEMMA InitHeaderStutters ==
    ASSUME AuxInv, InitHeader
    PROVE  UNCHANGED Content
<1>1. /\ magic' = TRUE /\ data_size' = IF magic THEN data_size ELSE 0
      /\ UNCHANGED <<file_size, cells>>
  BY DEF InitHeader
<1>2. Used' = Used
  BY <1>1 DEF Used
<1>3. \A i \in 1..Used : Cell(i)' = Cell(i)
  BY <1>1 DEF Cell
<1> QED
  BY <1>1, <1>2, <1>3, ContentKept

\* The copy of a Push lies behind the data.
LEMMA CopyStutters ==
    ASSUME AuxInv, Copy
    PROVE  UNCHANGED Content
<1> DEFINE n == IF Len(cells) > data_size THEN Len(cells) ELSE data_size + 1
<1>1. /\ pc = "copy" /\ UNCHANGED <<file_size, magic, data_size>>
      /\ cells' = [i \in 1..n |-> IF i = data_size + 1 THEN pushes ELSE Cell(i)]
  BY DEF Copy
<1>2. /\ cells \in Seq(Nat) /\ data_size \in Nat
  BY DEF AuxInv, TypeOK
<1>3. Used' = Used /\ Used \in Nat /\ Used <= data_size
  BY <1>1, <1>2 DEF Used
<1>4. n \in Nat /\ data_size < n
  BY <1>2
<1> HIDE DEF n
<1>5. Len(cells') = n
  BY <1>1, <1>4
<1>6. \A i \in 1..Used : i <= n /\ cells'[i] = Cell(i)
  BY <1>1, <1>2, <1>3, <1>4
<1>7. \A i \in 1..Used : Cell(i)' = Cell(i)
  BY <1>5, <1>6 DEF Cell
<1> QED
  BY <1>1, <1>3, <1>7, ContentKept

\* The store of the size is the moment of a Push or a Resize.
LEMMA SetSizeActs ==
    ASSUME AuxInv, SetSize, ~Segv
    PROVE  Cache!TakeEffect
<1>1. /\ pc = "set_size" /\ mapped > 0
      /\ data_size' = new_size - HeaderSize
      /\ UNCHANGED <<file_size, magic, cells>>
  BY DEF SetSize
<1>2. /\ op \in {"push", "resize"}
      /\ magic /\ new_size >= HeaderSize /\ new_size <= file_size
      /\ new_size \in Nat /\ HeaderSize \in Nat /\ file_size \in Nat
      /\ data_size \in Nat /\ cells \in Seq(Nat)
  <2>1. /\ op \in {"open", "push", "resize", "clear"} /\ mapped \in Nat
        /\ capacity \in Nat /\ new_size \in Nat /\ file_size \in Nat
        /\ data_size \in Nat /\ cells \in Seq(Nat)
    BY DEF AuxInv, TypeOK
  <2>2. op # "open"
    BY <1>1 DEF AuxInv, PhaseOK
  <2>5. op # "clear"
    BY <1>1 DEF AuxInv, PhaseOK
  <2>3. new_size >= HeaderSize /\ new_size <= capacity
    BY <1>1, <2>2 DEF AuxInv, ReserveOK, InCall
  <2>4. magic /\ mapped = capacity /\ mapped <= file_size
    BY <1>1, <2>2 DEF AuxInv, CapacityOK, Constructed
  <2> QED
    BY <2>1, <2>2, <2>3, <2>4, <2>5, AuxAssumption
<1>3. /\ Used = data_size /\ Used' = data_size'
      /\ data_size' \in Nat /\ HeaderSize + data_size' = new_size
  BY <1>1, <1>2 DEF Used
<1>4. \A i : Cell(i)' = Cell(i)
  BY <1>1 DEF Cell
<1>5. /\ Content = [data |-> [i \in 1..data_size |-> Cell(i)],
                    cap |-> file_size]
      /\ Content' = [data |-> [i \in 1..data_size' |-> Cell(i)],
                     cap |-> file_size]
  BY <1>1, <1>2, <1>4 DEF Content
<1>6. Len(Content.data) = data_size /\ Len(Content'.data) = data_size'
  BY <1>2, <1>3, <1>5
<1>9. Content' = [Content EXCEPT !.data = Content'.data]
  <2>1. PICK d, e : /\ Content = [data |-> d, cap |-> file_size]
                    /\ Content' = [data |-> e, cap |-> file_size]
    BY <1>5
  <2> QED
    BY <2>1, OtherData
<1>10. /\ Pending = op /\ Pending' = "none"
       /\ op = "push" => Argument = pushes
  <2>1. pc' = "idle"
    BY DEF SetSize
  <2> QED
    BY <1>1, <2>1 DEF Pending, Argument
<1>7. CASE op = "resize"
  <2>1. Content' = [Content EXCEPT !.data = Content'.data]
    BY <1>9
  <2>2. HeaderSize + Cache!Size(Content') <= Content.cap
    BY <1>2, <1>3, <1>5, <1>6 DEF Cache!Size
  <2>3. \A i \in 1..data_size : i <= data_size' =>
            Content'.data[i] = Content.data[i]
    BY <1>2, <1>3, <1>5
  <2>4. \A i \in 1..Cache!Size(Content) : i <= Cache!Size(Content') =>
            Content'.data[i] = Content.data[i]
    BY <1>6, <2>3 DEF Cache!Size
  <2>5. Cache!Size(Content') = Argument
    <3>1. Argument = data_size'
      BY <1>1, <1>7, <1>10 DEF Argument
    <3>2. Cache!Size(Content') = data_size'
      BY <1>6 DEF Cache!Size
    <3> QED
      BY <3>1, <3>2
  <2> QED
    BY <1>7, <1>10, <2>1, <2>2, <2>4, <2>5 DEF Cache!Resized, Cache!TakeEffect
<1>8. CASE op = "push"
  <2>1. /\ new_size = HeaderSize + data_size + 1
        /\ Len(cells) > data_size /\ cells[data_size + 1] = pushes
    BY <1>1, <1>8 DEF AuxInv, ReserveOK, CopiedOK, InCall
  <2>2. data_size' = data_size + 1 /\ Cell(data_size + 1) = pushes
    <3>1. data_size + 1 <= Len(cells)
      BY <1>2, <2>1
    <3>2. data_size \in Nat /\ HeaderSize \in Nat
      BY <1>2
    <3>3. Cell(data_size + 1) = pushes
      BY <2>1, <3>1 DEF Cell
    <3>4. new_size - HeaderSize = data_size + 1
      BY <2>1, <3>2
    <3> QED
      BY <1>1, <3>3, <3>4
  <2>3. Content'.data = Append(Content.data, pushes)
    <3> DEFINE s == [i \in 1..data_size |-> Cell(i)]
               t == [i \in 1..(data_size + 1) |-> Cell(i)]
    <3>1. \A i \in 1..data_size : Cell(i) \in Nat
      BY <1>2 DEF Cell
    <3>2. s \in Seq(Nat) /\ Len(s) = data_size
      BY <1>2, <3>1
    <3>3. t = Append(s, pushes)
      BY <1>2, <2>2, <3>2
    <3> QED
      BY <1>5, <2>2, <3>3
  <2>4. Cache!Reserve(Content, HeaderSize + Cache!Size(Content) + 1) = Content
    BY <1>2, <1>5, <1>6, <2>1 DEF Cache!Reserve, Cache!Size
  <2>5. Content' = [Content EXCEPT !.data = Append(Content.data, pushes)]
    BY <1>9, <2>3
  <2>6. Content' = Cache!Push(Content, Argument)
    BY <1>8, <1>10, <2>4, <2>5 DEF Cache!Push
  <2> QED
    BY <1>8, <1>10, <2>6 DEF Cache!TakeEffect
<1> QED
  BY <1>2, <1>7, <1>8

\* A process that dies ends the operation in progress, if there is one.
LEMMA GoneEnds ==
    ASSUME AuxInv, Gone
    PROVE  \/ Cache!End
           \/ UNCHANGED <<Content, Pending, Argument>>
<1>1. UNCHANGED Content
  BY FileKept DEF Gone
<1>2. Pending' = "none" /\ Argument' = pushes
  BY DEF Gone, bound, Pending, Argument
<1>3. CASE Pending = "none"
  BY <1>1, <1>2, <1>3 DEF Argument
<1>4. CASE Pending # "none"
  BY <1>1, <1>2, <1>4 DEF Cache!End
<1> QED
  BY <1>3, <1>4

\* So does one that throws.
LEMMA ThrowEnds ==
    ASSUME AuxInv, Throw, pc \in {"stat", "truncate", "map"}
    PROVE  Cache!End
<1>1. UNCHANGED Content
  BY FileKept DEF Throw
<1>2. Pending # "none" /\ Pending' = "none"
  BY DEF Throw, Pending, AuxInv, TypeOK
<1> QED
  BY <1>1, <1>2 DEF Cache!End

\* A step inside an operation that leaves the content alone.
LEMMA InsideKept ==
    ASSUME AuxInv, UNCHANGED <<Content, op, new_size, pushes>>,
           pc \in {"none", "idle"} <=> pc' \in {"none", "idle"}
    PROVE  UNCHANGED <<Content, Pending, Argument>>
BY DEF Pending, Argument

\* Every step maps to a step of CacheFile or changes none of its variables.
LEMMA CacheStep ==
    ASSUME AuxInv, [Next]_vars
    PROVE  [Cache!Next]_<<Content, Pending, Argument>>
<1>1. CASE Gone
  BY <1>1, GoneEnds DEF Cache!Next
<1>2. CASE OpenFd
  <2>1. UNCHANGED Content
    BY <1>2, FileKept DEF OpenFd
  <2>2. Pending = "none" /\ Pending' = "open"
    BY <1>2 DEF OpenFd, Pending
  <2> QED
    BY <2>1, <2>2 DEF Cache!Begin, Cache!Next
<1>3. CASE GetFileSize
  <2>1. CASE Throw
    BY <1>3, <2>1, ThrowEnds DEF GetFileSize, Cache!Next
  <2>2. CASE ~Throw
    <3>1. /\ UNCHANGED <<file, op, pushes>> /\ pc = "stat" /\ pc' = "reserve"
      BY <1>3, <2>2 DEF GetFileSize, bound
    <3>2. UNCHANGED Content
      BY <3>1, FileKept
    <3>3. op = "open"
      BY <3>1 DEF AuxInv, PhaseOK
    <3> QED
      BY <3>1, <3>2, <3>3 DEF Pending, Argument
  <2> QED
    BY <2>1, <2>2
<1>4. CASE Reserve
  <2>1. /\ UNCHANGED <<file, op, new_size, pushes>> /\ pc = "reserve"
        /\ pc' \in {After, "truncate"}
    BY <1>4 DEF Reserve, bound
  <2>2. op \in {"open", "push", "resize"}
    BY <2>1 DEF AuxInv, TypeOK, PhaseOK
  <2>3. pc' \notin {"none", "idle"}
    BY <2>1, <2>2 DEF After
  <2> QED
    BY <2>1, <2>3, FileKept, InsideKept
<1>5. CASE Truncate
  <2>1. CASE Throw
    BY <1>5, <2>1, ThrowEnds DEF Truncate, Cache!Next
  <2> QED
    BY <1>5, <2>1, TruncateRefits DEF Cache!Next
<1>6. CASE Map
  <2>1. CASE Throw
    BY <1>6, <2>1, ThrowEnds DEF Map, Cache!Next
  <2>2. CASE ~Throw
    <3>1. /\ UNCHANGED <<file, op, new_size, pushes>> /\ pc = "map" /\ pc' = After
      BY <1>6, <2>2 DEF Map, bound
    <3>2. op \in {"open", "push", "resize"}
      BY <3>1 DEF AuxInv, TypeOK, PhaseOK
    <3>3. pc' \notin {"none", "idle"}
      BY <3>1, <3>2 DEF After
    <3> QED
      BY <3>1, <3>3, FileKept, InsideKept
  <2> QED
    BY <2>1, <2>2
<1>7. CASE InitHeader
  <2>1. /\ pc = "init" /\ pc' = "idle"
    BY <1>7 DEF InitHeader
  <2>2. op = "open"
    BY <2>1 DEF AuxInv, PhaseOK
  <2>3. Pending = "open" /\ Pending' = "none"
    BY <2>1, <2>2 DEF Pending
  <2> QED
    BY <1>7, <2>3, InitHeaderStutters DEF Cache!End, Cache!Next
<1>8. CASE Push
  <2>1. CASE Gone
    BY <1>1, <2>1
  <2>2. CASE ~Gone
    <3>1. pc = "idle" /\ pc' = "reserve" /\ op' = "push" /\ UNCHANGED file
      BY <1>8, <2>2 DEF Push, Call, Segv
    <3>2. Pending = "none" /\ Pending' = "push" /\ UNCHANGED Content
      BY <3>1, FileKept DEF Pending
    <3> QED
      BY <3>2 DEF Cache!Begin, Cache!Next
  <2> QED
    BY <2>1, <2>2
<1>9. CASE Resize
  <2>1. pc = "idle" /\ pc' = "reserve" /\ op' = "resize" /\ UNCHANGED file
    BY <1>9 DEF Resize, Call
  <2>2. Pending = "none" /\ Pending' = "resize" /\ UNCHANGED Content
    BY <2>1, FileKept DEF Pending
  <2> QED
    BY <2>2 DEF Cache!Begin, Cache!Next
<1>10. CASE Copy
  <2>1. /\ UNCHANGED <<op, new_size, pushes>> /\ pc = "copy" /\ pc' = "set_size"
    BY <1>10 DEF Copy, bound
  <2> QED
    BY <1>10, <2>1, CopyStutters, InsideKept
<1>11. CASE SetSize
  <2>1. CASE Segv
    BY <1>1, <2>1 DEF Segv
  <2> QED
    BY <1>11, <2>1, SetSizeActs DEF Cache!Next
<1>12. CASE Clear
  <2>1. CASE Gone
    BY <1>1, <2>1
  <2>2. CASE ~Gone
    <3>1. pc = "idle" /\ pc' = "clear" /\ op' = "clear" /\ UNCHANGED file
      BY <1>12, <2>2 DEF Clear, Segv
    <3>2. Pending = "none" /\ Pending' = "clear" /\ UNCHANGED Content
      BY <3>1, FileKept DEF Pending
    <3> QED
      BY <3>2 DEF Cache!Begin, Cache!Next
  <2> QED
    BY <2>1, <2>2
<1>13. CASE ClearSize
  <2>1. /\ data_size' = 0 /\ UNCHANGED file_size
        /\ pc = "clear" /\ pc' = "idle"
    BY <1>13 DEF ClearSize
  <2>2. Content' = [data |-> <<>>, cap |-> file_size]
    BY <2>1 DEF Content
  <2>3. Content' = Cache!Clear(Content)
    <3>1. PICK d : Content = [data |-> d, cap |-> file_size]
      BY DEF Content
    <3>2. Content' = [Content EXCEPT !.data = <<>>]
      BY <2>2, <3>1, OtherData
    <3> QED
      BY <3>2 DEF Cache!Clear
  <2>4. Pending = "clear" /\ Pending' = "none"
    BY <2>1 DEF Pending, AuxInv, PhaseOK
  <2> QED
    BY <2>3, <2>4 DEF Cache!TakeEffect, Cache!Next
<1>14. CASE \E r \in Readers : RatioLoad(r) \/ RatioRead(r)
  <2>1. CASE Gone
    BY <1>1, <2>1
  <2>2. CASE ~Gone
    <3>1. UNCHANGED <<file, pc, op, new_size, pushes>>
      BY <1>14, <2>2 DEF RatioLoad, RatioRead, Segv, bound
    <3> QED
      BY <3>1, FileKept, InsideKept
  <2> QED
    BY <2>1, <2>2
<1>15. CASE Crash
  BY <1>1, <1>15 DEF Crash
<1>16. CASE UNCHANGED vars
  <2>1. UNCHANGED <<file, pc, op, new_size, pushes>>
    BY <1>16 DEF vars, bound
  <2> QED
    BY <2>1, FileKept, InsideKept
<1> QED
  BY <1>2, <1>3, <1>4, <1>5, <1>6, <1>7, <1>8, <1>9, <1>10, <1>11, <1>12,
     <1>13, <1>14, <1>15, <1>16 DEF Next

\* The object implements the atomic file: a Push, a Resize or a Clear that
\* was called happens at the store of the size or not at all, a remapping
\* keeps the data, and whatever throws or dies in between, and the next
\* process that opens the file, leaves the data of the last finished
\* operation.
THEOREM AuxImplementsCacheFile == Spec => ImplementsCacheFile
<1>1. Init => Cache!Init
  BY DEF Init, Cache!Init, Cache!NoFile, Content, Pending
<1>2. AuxInv /\ [Next]_vars => [Cache!Next]_<<Content, Pending, Argument>>
  BY CacheStep
<1> QED
  BY <1>1, <1>2, AuxInvariant, PTL DEF Spec, ImplementsCacheFile, Cache!Spec
=============================================================================
