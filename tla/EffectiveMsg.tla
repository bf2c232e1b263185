---------------------------- MODULE EffectiveMsg ----------------------------
(***************************************************************************)
(* What becomes of a log message on its way into an item and back: LogMsg, *)
(* the two formatters, the generated class EffectiveMsg, ZstdCompress and  *)
(* AESCrypt, and ParseOne of the log parser.                               *)
(*                                                                         *)
(* Data abstraction: a buffer is a sequence of cells.  A cell is one       *)
(* encoded field <<name, value>>, one formatted line, or one unit of       *)
(* something else; sizes are counted in cells.  A string is a sequence of  *)
(* pieces, of which Bad is one that is not UTF-8.                          *)
(***************************************************************************)
EXTENDS Integers, Sequences, FiniteSets

Bad == "\\xff"              \* a piece of a string that is not UTF-8
Zero == <<"zero">>          \* what resize() fills a buffer with
Junk == <<"junk">>          \* what a formatter that is gone may leave

-----------------------------------------------------------------------------
(* logger_config.hpp *)

\* The part of a path behind the last sep; the whole path without one.
After(path, sep) ==
    LET at == {i \in 1..Len(path) : path[i] = sep}
        last == CHOOSE i \in at : \A j \in at : j <= i
    IN  IF at = {} THEN path ELSE SubSeq(path, last + 1, Len(path))

\* The constructor of SourceLocation: a backslash separates only without '/'.
FileName(path) ==
    IF \E i \in 1..Len(path) : path[i] = "/" THEN After(path, "/")
                                             ELSE After(path, "\\")

-----------------------------------------------------------------------------
(* The generated code.  Fields with their default value are not written.  *)

Strings == {"file_name", "func_name", "log_info"}

FieldNames == {"level", "timestamp", "pid", "tid", "line"} \cup Strings

Default(f) == IF f \in Strings THEN <<>> ELSE 0

Present(e, f) == e[f] # Default(f)

\* Mutant: every field that was set is counted, also a level of 0.
ByteSizeLong_All(e) == Cardinality(FieldNames)

ByteSizeLong(e) == Cardinality({f \in FieldNames : Present(e, f)})

\* What is written for one field.
Cell(e, f) == IF Present(e, f) THEN <<<<f, e[f]>>>> ELSE <<>>

\* Mutant: the strings, which may end the parsing, come first.
InternalSerialize_StringsFirst(e) ==
    Cell(e, "file_name") \o Cell(e, "func_name") \o Cell(e, "log_info")
        \o Cell(e, "level") \o Cell(e, "timestamp") \o Cell(e, "pid")
        \o Cell(e, "tid") \o Cell(e, "line")

\* In the order of the fields' numbers.
InternalSerialize(e) ==
    Cell(e, "level") \o Cell(e, "timestamp") \o Cell(e, "pid") \o Cell(e, "tid")
        \o Cell(e, "line") \o Cell(e, "file_name") \o Cell(e, "func_name")
        \o Cell(e, "log_info")

Valid(cell) ==
    cell[1] \in FieldNames /\
        (cell[1] \in Strings => \A i \in 1..Len(cell[2]) : cell[2][i] # Bad)

(***************************************************************************)
(* ParseFromArray: Clear, then the parse table.  Parsing ends at the first *)
(* cell that is no field, and behind the first string that is not UTF-8;   *)
(* what was read until then stays in the message.                          *)
(***************************************************************************)
ParseFromArray(cells) ==
    LET bad == {i \in 1..Len(cells) : ~Valid(cells[i])}
        end == IF bad = {} THEN Len(cells)
                           ELSE CHOOSE i \in bad : \A j \in bad : i <= j
        of(f) == {i \in 1..end : cells[i][1] = f}
    IN  [f \in FieldNames |->
            IF of(f) = {} THEN Default(f)
            ELSE cells[CHOOSE i \in of(f) : \A j \in of(f) : j <= i][2]]

-----------------------------------------------------------------------------
(* The formatters.  m is a LogMsg with the thread m.tid that logs it; the  *)
(* clock and the process id are never 0.                                   *)

\* The setters EffectiveFormatter calls.
ToEffectiveMsg(m) ==
    [level |-> m.level, timestamp |-> 1, pid |-> 1, tid |-> m.tid,
     line |-> m.line, file_name |-> FileName(m.path), func_name |-> m.func,
     log_info |-> m.message]

Resize(dest, n) == [i \in 1..n |-> IF i <= Len(dest) THEN dest[i] ELSE Zero]

\* Resize, then write from the start: what dest held does not matter as long
\* as the two sizes agree.
EffectiveFromat(m, dest) ==
    LET e == ToEffectiveMsg(m)
        wire == InternalSerialize(e)
        room == Resize(dest, ByteSizeLong(e))
    IN  [i \in 1..Len(room) |-> IF i <= Len(wire) THEN wire[i] ELSE room[i]]

Line(m) == <<"text", m.level, FileName(m.path), m.line, m.tid, m.message>>

DefaultFromat(m, dest) == Append(dest, Line(m))

Fromat(kind, m, dest) ==
    IF kind = "effective" THEN EffectiveFromat(m, dest) ELSE DefaultFromat(m, dest)

-----------------------------------------------------------------------------
(* Compression and encryption.  A frame holds the data that went into the *)
(* compression stream since its reset; a ciphertext is the sequence of     *)
(* frames that were encrypted into one output string.                      *)

Torn == [magic |-> FALSE, data |-> <<>>]    \* part of a ciphertext

ResetStream(stream) == <<>>

\* What is in the stream when it is asked to end the frame.
StreamIn(stream, input) == ResetStream(stream) \o input

\* Mutant: the stream is not reset, a failed call's input is still in it.
Compress_NoReset(stream, input) ==
    [magic |-> TRUE, data |-> stream \o input]

\* CompressedBound makes the output large enough for the whole frame.
Compress(stream, input) == [magic |-> TRUE, data |-> StreamIn(stream, input)]

\* StringSink appends to its string.
Encrypt(frame, output) == Append(output, frame)

\* Mutant: encryped_buf_ is not cleared before.
EncryptItem_NoClear(frame, encryped_buf) == Encrypt(frame, encryped_buf)

\* How EffectiveSink::Log calls it.
EncryptItem(frame, encryped_buf) == Encrypt(frame, <<>>)

\* The end of the first frame ends Decompress; the caller has checked the
\* magic number.
Decompress(cipher) == Head(cipher).data

\* Decompress throws for anything that does not begin with a frame.
Decodable(cipher) == Head(cipher).magic

ParseOne(cipher) == ParseFromArray(Decompress(cipher))
=============================================================================
