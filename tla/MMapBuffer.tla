----------------------------- MODULE MMapBuffer -----------------------------
(***************************************************************************)
(* The values of logger::mmap::MMapAux (mmap.cpp): a memory-mapped cache   *)
(* file with a header that records its logical size.  A buffer is a        *)
(* record: data is the logical content (the first data_size_ bytes after   *)
(* the header), cap is capacity_, which is also the size of the file on    *)
(* disk because Trymap_ truncates the file to the mapped size.             *)
(*                                                                         *)
(* Data abstraction: one element of data stands for the bytes of one       *)
(* Push, and sizes are counted in pushes.  The mapping is MAP_SHARED, so   *)
(* data and cap survive the process.                                       *)
(***************************************************************************)
EXTENDS Integers, Sequences

CONSTANTS
    PageSize,         \* fs::GetPageSize()
    HeaderSize,       \* sizeof(MMapHeader)
    DefaultCapacity   \* kDefaultCapacity

\* The default capacity leaves room for data after the header, so that the
\* denominator of Ratio is never zero.
ASSUME BufferAssumption ==
    /\ PageSize \in Nat \ {0}
    /\ HeaderSize \in Nat
    /\ DefaultCapacity \in Nat
    /\ DefaultCapacity > HeaderSize

\* The file before it was ever opened: absent, hence of size 0.
NoFile == [data |-> <<>>, cap |-> 0]

Size(b) == Len(b.data)

Empty(b) == Size(b) = 0

\* Round a size up to whole pages.
GetValidCapacity(size) == ((size + PageSize - 1) \div PageSize) * PageSize

\* Remap the file to a larger size when size does not fit; data is kept.
Reserve(b, size) ==
    IF size <= b.cap THEN b ELSE [b EXCEPT !.cap = GetValidCapacity(size)]

\* Mutant: Init_ resets the logical size of every file it maps.
Open_Reset(b) ==
    [data |-> <<>>, cap |-> GetValidCapacity(IF b.cap > DefaultCapacity
                                             THEN b.cap ELSE DefaultCapacity)]

\* The constructor.  A new object has capacity 0, so Reserve_ always maps;
\* Init_ keeps the logical size of a file whose magic is right, and a file
\* written by this class always has the right magic.
Open(b) ==
    [b EXCEPT !.cap = GetValidCapacity(IF b.cap > DefaultCapacity
                                       THEN b.cap ELSE DefaultCapacity)]

Push(b, x) ==
    [Reserve(b, HeaderSize + Size(b) + 1) EXCEPT !.data = Append(@, x)]

\* Only the logical size is reset: the mapping keeps its capacity.
Clear(b) == [b EXCEPT !.data = <<>>]

\* Ratio() > 0.8, in integers.
RatioAbove80(b) == 5 * Size(b) > 4 * (b.cap - HeaderSize)

(***************************************************************************)
(* memcpy/write of n elements from Data(): beyond the logical size lie the *)
(* bytes an earlier Clear left behind.                                     *)
(***************************************************************************)
ReadOut(b, n, stale) ==
    [i \in 1..n |-> IF i <= Size(b) THEN b.data[i] ELSE stale]
=============================================================================
