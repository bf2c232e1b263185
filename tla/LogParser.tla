----------------------------- MODULE LogParser -----------------------------
(***************************************************************************)
(* tools/log_parser.cpp, on the file that EffectiveSink writes.  ParseFile *)
(* is a sequential program that changes no state, so it is a function of   *)
(* the bytes it reads.  The unit is the token of EffectiveSink: an         *)
(* ItemHeader or an encrypted body; a ChunkHeader takes two units, so that *)
(* the file can end inside it.                                             *)
(*                                                                         *)
(* Ciphertext does not look like a magic number, and decrypting with a     *)
(* foreign key, or what is no ciphertext, fails the check of the padding   *)
(* or of the zstd magic, and throws.                                       *)
(***************************************************************************)
EXTENDS EffectiveSink, SequencesExt

HeaderUnits == 2     \* sizeof(ChunkHeader)
ItemUnits   == 1     \* sizeof(ItemHeader)
BodyUnits   == 1     \* item.size

\* The bytes CacheToFile_ appends for a chunk.
Bytes(c) ==
    <<[part |-> "chunk", size |-> c.size, key |-> c.key],
      [part |-> "pub_key"]>> \o c.data

\* The bytes of the first n chunks.
Written(n) == FlattenSeq([m \in 1..n |-> Bytes(file[m])])

-----------------------------------------------------------------------------
\* What ParseOne makes of the body at b: an entry to print, or an exception,
\* which the caller catches.
ParseOne(b, k) == IF b.part = "body" /\ b.key = k THEN <<b.id>> ELSE <<>>

\* Mutant: the last byte of the chunk is taken to be out of bounds.
ParseItems_LastOut(data, k) ==
    LET items[offset \in 0..Len(data)] ==
            LET body == offset + ItemUnits IN
            IF \/ body > Len(data)
               \/ data[body].part # "header"
               \/ body + BodyUnits >= Len(data)
            THEN <<>>
            ELSE ParseOne(data[body + BodyUnits], k)
                     \o items[body + BodyUnits]
    IN  items[0]

(***************************************************************************)
(* The loop of lines 152-176.  It ends at the end of the data, at a wrong  *)
(* magic number and at an item that reaches beyond the chunk; an entry     *)
(* that cannot be parsed is skipped.                                       *)
(***************************************************************************)
ParseItems(data, k) ==
    LET items[offset \in 0..Len(data)] ==
            LET body == offset + ItemUnits IN
            IF \/ body > Len(data)
               \/ data[body].part # "header"
               \/ body + BodyUnits > Len(data)
            THEN <<>>
            ELSE ParseOne(data[body + BodyUnits], k)
                     \o items[body + BodyUnits]
    IN  items[0]

\* Mutant: the entries are printed when the whole file was read.
ParseFile_PrintsLast(bytes) ==
    LET chunks[pos \in 0..Len(bytes)] ==
            LET data == pos + HeaderUnits IN
            CASE data > Len(bytes) -> [code |-> 0, printed |-> <<>>]
              [] data <= Len(bytes) /\ bytes[pos + 1].part # "chunk" ->
                     [code |-> 1, printed |-> <<>>]
              [] OTHER ->
                     LET end == data + bytes[pos + 1].size IN
                     IF end > Len(bytes) \/ chunks[end].code # 0
                     THEN [code |-> 1, printed |-> <<>>]
                     ELSE [chunks[end] EXCEPT !.printed =
                              ParseItems(SubSeq(bytes, data + 1, end),
                                         bytes[pos + 1].key) \o @]
    IN  chunks[0]

(***************************************************************************)
(* The loop of lines 120-177.  A file that ends inside a ChunkHeader is    *)
(* read to its end; a wrong magic number, or fewer bytes than the header   *)
(* promises, end the program with code 1.  After the items of a chunk the  *)
(* next header is expected where this one's size says, whatever the items  *)
(* looked like.                                                            *)
(***************************************************************************)
ParseFile(bytes) ==
    LET chunks[pos \in 0..Len(bytes)] ==
            LET data == pos + HeaderUnits IN
            CASE data > Len(bytes) -> [code |-> 0, printed |-> <<>>]
              [] data <= Len(bytes) /\ bytes[pos + 1].part # "chunk" ->
                     [code |-> 1, printed |-> <<>>]
              [] OTHER ->
                     LET end == data + bytes[pos + 1].size IN
                     IF end > Len(bytes) THEN [code |-> 1, printed |-> <<>>]
                     ELSE [chunks[end] EXCEPT !.printed =
                              ParseItems(SubSeq(bytes, data + 1, end),
                                         bytes[pos + 1].key) \o @]
    IN  chunks[0]

-----------------------------------------------------------------------------
(* Properties. *)

\* What a reader wants of a chunk: the items its header's key decrypts.
Entries(c) ==
    FlattenSeq([j \in 1..Len(c.data) |-> ParseOne(c.data[j], c.key)])

Whole(c) == Len(c.data) = c.size

EntriesUpTo(n) == FlattenSeq([m \in 1..n |-> Entries(file[m])])

\* The states in which file can differ from what was checked before: the
\* worker has written a header or data.
JustWritten == rpc \in {"write_data", "clear"} /\ file # <<>>

(***************************************************************************)
(* A log whose last chunk ends anywhere, because the process died in the   *)
(* write or still writes: ParseFile prints the items of every chunk before *)
(* it, in the order they were written, also of the chunks that end with    *)
(* the header of an item whose body was never pushed, and of the last      *)
(* chunk all or nothing.  The exit code is 0 unless the data of the last   *)
(* chunk is cut.                                                           *)
(***************************************************************************)
ParserReadsLog ==
    (~raced /\ JustWritten /\ \A m \in 1..(Len(file) - 1) : Whole(file[m])) =>
        LET last  == Len(file)
            bytes == Written(last)
            begin == Len(bytes) - Len(Bytes(file[last]))
            full  == begin + HeaderUnits + file[last].size
        IN  \A cut \in begin..Len(bytes) :
                ParseFile(SubSeq(bytes, 1, cut)) =
                    [code    |-> IF cut < begin + HeaderUnits \/ cut = full
                                 THEN 0 ELSE 1,
                     printed |-> EntriesUpTo(IF cut = full THEN last
                                                           ELSE last - 1)]

(***************************************************************************)
(* A chunk cut short with others behind it, which a failed write leaves,   *)
(* or a crash followed by a process that names its file in the same        *)
(* second: every chunk before it is still printed, and nothing is printed  *)
(* out of order, although the parser reads the next chunk as its data.     *)
(***************************************************************************)
TornChunkContained ==
    ~raced /\ JustWritten =>
        LET torn    == {m \in 1..Len(file) : ~Whole(file[m])}
            sound   == CHOOSE n \in 0..Len(file) :
                           /\ n + 1 \in torn \/ n = Len(file)
                           /\ \A m \in torn : n < m
            printed == ParseFile(Written(Len(file))).printed
        IN  /\ IsPrefix(EntriesUpTo(sound), printed)
            /\ key = 1 => \A i, j \in 1..Len(printed) :
                              i < j => printed[i] < printed[j]

(***************************************************************************)
(* What a caller may rely on in the end: everything accepted before a      *)
(* Flush that returned is printed by the parser, whatever is written       *)
(* meanwhile or was being written when the process died.  A process that   *)
(* recovers the caches of another may not be promised this                 *)
(* (ChunkKeyDecrypts).                                                     *)
(***************************************************************************)
FlushedIsPrinted ==
    Undisturbed /\ key = 1 =>
        LET printed == ParseFile(Written(Len(file))).printed
        IN  \A i \in promised : Contains(printed, i)
=============================================================================
