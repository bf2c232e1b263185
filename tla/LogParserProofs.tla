-------------------------- MODULE LogParserProofs --------------------------
(***************************************************************************)
(* Theorems about LogParser: what tools/log_parser.cpp reads is what       *)
(* EffectiveSink wrote, for any number of threads, items, chunks and       *)
(* crashes and wherever the file ends.                                     *)
(***************************************************************************)
EXTENDS LogParser, EffectiveSinkProofs, SequenceTheorems

-----------------------------------------------------------------------------
(* Induction over an interval. *)

LEMMA LeastOf ==
    ASSUME NEW T, T \subseteq Nat, T # {}
    PROVE  \E x \in T : \A y \in T : x <= y
<1> DEFINE R == OpToRel(<, Nat)
<1>1. IsWellFoundedOn(R, Nat)
  BY NatLessThanWellFounded, Zenon
<1> HIDE DEF R
<1>2. PICK x \in T : \A y \in T : ~(<<y, x>> \in R)
  BY <1>1, WFMin
<1>3. ASSUME NEW y \in T PROVE x <= y
  <2>1. <<y, x>> \notin R
    BY <1>2
  <2>2. ~(y < x)
    BY <2>1 DEF R, OpToRel
  <2> QED
    BY <2>2
<1> QED
  BY <1>3

\* From the beginning to the end.
LEMMA Forward ==
    ASSUME NEW N \in Nat, NEW T, 0 \in T,
           \A n \in 0..(N - 1) : n \in T => n + 1 \in T
    PROVE  \A n \in 0..N : n \in T
<1> DEFINE bad == {n \in 0..N : n \notin T}
<1> SUFFICES ASSUME bad # {} PROVE FALSE
  OBVIOUS
<1>1. PICK x \in bad : \A y \in bad : x <= y
  <2>1. bad \subseteq Nat
    OBVIOUS
  <2> HIDE DEF bad
  <2> QED
    BY <2>1, LeastOf
<1>2. x # 0 /\ x - 1 \in 0..(N - 1) /\ x - 1 \in 0..N
  OBVIOUS
<1>3. x - 1 \in T
  BY <1>1, <1>2
<1> QED
  BY <1>2, <1>3

\* From the end to the beginning, when all later elements count.
LEMMA Backward ==
    ASSUME NEW N \in Nat, NEW T,
           \A o \in 0..N : (\A p \in 0..N : p > o => p \in T) => o \in T
    PROVE  \A o \in 0..N : o \in T
<1> DEFINE bad == {n \in 0..N : N - n \notin T}
<1>1. bad = {}
  <2> SUFFICES ASSUME bad # {} PROVE FALSE
    OBVIOUS
  <2>1. PICK x \in bad : \A y \in bad : x <= y
    <3>1. bad \subseteq Nat
      OBVIOUS
    <3> HIDE DEF bad
    <3> QED
      BY <3>1, LeastOf
  <2>2. ASSUME NEW p \in 0..N, p > N - x
        PROVE  p \in T
    <3>1. N - p \in 0..N /\ N - p < x /\ N - (N - p) = p
      BY <2>2
    <3>2. N - p \notin bad
      BY <2>1, <3>1
    <3> QED
      BY <3>1, <3>2
  <2>3. N - x \in 0..N
    OBVIOUS
  <2>4. N - x \in T
    BY <2>2, <2>3
  <2> QED
    BY <2>4
<1>2. ASSUME NEW o \in 0..N PROVE o \in T
  <2>1. N - o \in 0..N /\ N - (N - o) = o
    OBVIOUS
  <2>2. N - (N - o) \in T
    BY <1>1, <2>1
  <2> QED
    BY <2>1, <2>2
<1> QED
  BY <1>2

-----------------------------------------------------------------------------
(* Joining sequences. *)

\* The step of FlattenSeq, and the functions that take it up to n.
Joined(f, s, i) == IF i = 1 THEN s[i] ELSE f[i - 1] \o s[i]

Flattens(f, s) == f = [i \in 1..Len(s) |-> Joined(f, s, i)]

Stepwise(f, s, n) == \A i \in 1..n : f[i] = Joined(f, s, i)
Agree(s, t, n)    == \A i \in 1..n : s[i] = t[i]

LEMMA FlattenIs ==
    ASSUME NEW s, Len(s) # 0
    PROVE  FlattenSeq(s) = (CHOOSE f : Flattens(f, s))[Len(s)]
BY Zenon DEF FlattenSeq, Flattens, Joined

\* There is a function that takes the step everywhere.
LEMMA FlattenExists ==
    ASSUME NEW S, NEW s \in Seq(Seq(S))
    PROVE  \E f : Flattens(f, s)
<1> DEFINE Part(n) == \E f \in [1..n -> Seq(S)] :
                          \A i \in 1..n : f[i] = Joined(f, s, i)
           T == {n \in 0..Len(s) : Part(n)}
<1>1. Len(s) \in Nat
  OBVIOUS
<1>2. Part(0)
  <2> DEFINE f == [i \in 1..0 |-> <<>>]
  <2>1. f \in [1..0 -> Seq(S)] /\ \A i \in 1..0 : f[i] = Joined(f, s, i)
    OBVIOUS
  <2> HIDE DEF f
  <2> QED
    BY <2>1
<1>3. ASSUME NEW n \in 0..(Len(s) - 1), Part(n)
      PROVE  Part(n + 1)
  <2>1. PICK f \in [1..n -> Seq(S)] : \A i \in 1..n : f[i] = Joined(f, s, i)
    BY <1>3
  <2> DEFINE v == IF n = 0 THEN s[1] ELSE f[n] \o s[n + 1]
             g == [i \in 1..(n + 1) |-> IF i = n + 1 THEN v ELSE f[i]]
  <2>2. n + 1 \in 1..Len(s) /\ s[n + 1] \in Seq(S)
    BY <1>1
  <2>3. v \in Seq(S)
    <3>1. CASE n = 0
      BY <2>2, <3>1
    <3>2. CASE n # 0
      <4>1. f[n] \in Seq(S)
        BY <2>1, <3>2
      <4> QED
        BY <2>2, <3>2, <4>1
    <3> QED
      BY <3>1, <3>2
  <2>4. v = Joined(f, s, n + 1)
    BY DEF Joined
  <2> HIDE DEF v
  <2>5. g \in [1..(n + 1) -> Seq(S)]
    BY <2>3
  <2>6. ASSUME NEW i \in 1..(n + 1)
        PROVE  g[i] = Joined(g, s, i)
    <3>1. i # 1 => i - 1 \in 1..n /\ g[i - 1] = f[i - 1]
      OBVIOUS
    <3>2. Joined(g, s, i) = Joined(f, s, i)
      BY <3>1 DEF Joined
    <3>3. CASE i = n + 1
      BY <2>4, <3>2, <3>3
    <3>4. CASE i # n + 1
      <4>1. i \in 1..n
        BY <3>4
      <4> QED
        BY <2>1, <3>2, <3>4, <4>1
    <3> QED
      BY <3>3, <3>4
  <2> HIDE DEF g
  <2> QED
    BY <2>5, <2>6
<1>4. Part(Len(s))
  <2> HIDE DEF Part
  <2>1. 0 \in T
    BY <1>1, <1>2
  <2>2. \A n \in 0..(Len(s) - 1) : n \in T => n + 1 \in T
    BY <1>1, <1>3
  <2> HIDE DEF T
  <2>3. \A n \in 0..Len(s) : n \in T
    BY <1>1, <2>1, <2>2, Forward
  <2> QED
    BY <1>1, <2>3 DEF T
<1>5. PICK f \in [1..Len(s) -> Seq(S)] :
          \A i \in 1..Len(s) : f[i] = Joined(f, s, i)
  BY <1>4
<1>6. f = [i \in 1..Len(s) |-> Joined(f, s, i)]
  BY <1>5
<1> QED
  BY <1>6 DEF Flattens

\* So the one that FlattenSeq chooses does; it is called f here.
LEMMA FlattenSteps ==
    ASSUME NEW S, NEW s \in Seq(Seq(S)), s # <<>>
    PROVE  \E f : /\ FlattenSeq(s) = f[Len(s)]
                  /\ \A i \in 1..Len(s) : f[i] = Joined(f, s, i)
<1>1. Len(s) \in Nat \ {0}
  OBVIOUS
<1>2. PICK f : f = CHOOSE g : Flattens(g, s)
  OBVIOUS
<1>3. Flattens(f, s)
  BY <1>2, FlattenExists, Zenon
<1>4. FlattenSeq(s) = f[Len(s)]
  BY <1>1, <1>2, FlattenIs
<1>5. \A i \in 1..Len(s) : f[i] = Joined(f, s, i)
  <2>1. f = [i \in 1..Len(s) |-> Joined(f, s, i)]
    BY <1>3 DEF Flattens
  <2> DEFINE g(i) == Joined(f, s, i)
  <2>2. f = [i \in 1..Len(s) |-> g(i)]
    BY <2>1
  <2> HIDE DEF g
  <2>3. \A i \in 1..Len(s) : f[i] = g(i)
    BY <2>2
  <2> QED
    BY <2>3 DEF g
<1> QED
  BY <1>4, <1>5

\* Two such functions agree as far as the sequences do.
LEMMA FlattenAgree ==
    ASSUME NEW s, NEW t, NEW f, NEW g, NEW n \in Nat,
           Agree(s, t, n), Stepwise(f, s, n), Stepwise(g, t, n)
    PROVE  Agree(f, g, n)
<1> DEFINE T == {i \in 0..n : i > 0 => f[i] = g[i]}
<1>1. 0 \in T
  OBVIOUS
<1>2. ASSUME NEW i \in 0..(n - 1), i \in T
      PROVE  i + 1 \in T
  <2>1. i + 1 \in 1..n /\ s[i + 1] = t[i + 1]
    BY DEF Agree
  <2>2. /\ f[i + 1] = Joined(f, s, i + 1)
        /\ g[i + 1] = Joined(g, t, i + 1)
    BY <2>1 DEF Stepwise
  <2>3. i + 1 = 1 \/ (i + 1 # 1 /\ i + 1 - 1 = i /\ f[i] = g[i])
    BY <1>2
  <2>4. f[i + 1] = g[i + 1]
    BY <2>1, <2>2, <2>3 DEF Joined
  <2> QED
    BY <2>1, <2>4
<1>3. \A i \in 0..n : i \in T
  <2> HIDE DEF T
  <2> QED
    BY <1>1, <1>2, Forward
<1> QED
  BY <1>3 DEF Agree

\* Nothing joined is nothing.
LEMMA FlattenEmpty == FlattenSeq(<<>>) = <<>>
BY DEF FlattenSeq

\* One more sequence is appended to the others.
LEMMA FlattenAppend ==
    ASSUME NEW S, NEW s \in Seq(Seq(S)), NEW t \in Seq(Seq(S)),
           Len(t) = Len(s) + 1, \A i \in 1..Len(s) : t[i] = s[i],
           FlattenSeq(s) \in Seq(S)
    PROVE  FlattenSeq(t) = FlattenSeq(s) \o t[Len(t)]
<1>1. /\ Len(s) \in Nat /\ t # <<>> /\ Len(t) \in 1..Len(t)
      /\ t[Len(t)] \in Seq(S)
  OBVIOUS
<1>2. PICK g : /\ FlattenSeq(t) = g[Len(t)]
               /\ \A i \in 1..Len(t) : g[i] = Joined(g, t, i)
  BY <1>1, FlattenSteps
<1>3. g[Len(t)] = Joined(g, t, Len(t))
  BY <1>1, <1>2
<1>4. CASE s = <<>>
  <2>1. Len(t) = 1 /\ FlattenSeq(s) = <<>>
    BY <1>4, FlattenEmpty
  <2>2. FlattenSeq(t) = t[Len(t)]
    BY <1>2, <1>3, <2>1 DEF Joined
  <2>3. <<>> \o t[Len(t)] = t[Len(t)]
    BY <1>1, ConcatEmptySeq
  <2> QED
    BY <2>1, <2>2, <2>3
<1>5. CASE s # <<>>
  <2>1. PICK f : /\ FlattenSeq(s) = f[Len(s)]
                 /\ \A i \in 1..Len(s) : f[i] = Joined(f, s, i)
    BY <1>5, FlattenSteps
  <2>2. /\ Agree(s, t, Len(s))
        /\ Stepwise(f, s, Len(s))
        /\ Stepwise(g, t, Len(s))
    BY <1>1, <1>2, <2>1 DEF Agree, Stepwise
  <2>3. Agree(f, g, Len(s))
    BY <1>1, <2>2, FlattenAgree
  <2>4. Len(s) \in 1..Len(s) /\ Len(t) # 1 /\ Len(t) - 1 = Len(s)
    BY <1>1, <1>5
  <2>5. FlattenSeq(s) = g[Len(t) - 1]
    BY <2>1, <2>3, <2>4 DEF Agree
  <2> QED
    BY <1>2, <1>3, <2>4, <2>5 DEF Joined
<1> QED
  BY <1>4, <1>5

\* Joining sequences over S gives a sequence over S.
LEMMA FlattenType ==
    ASSUME NEW S, NEW s \in Seq(Seq(S))
    PROVE  FlattenSeq(s) \in Seq(S)
<1>1. Len(s) \in Nat
  OBVIOUS
<1>2. CASE s = <<>>
  <2>1. FlattenSeq(s) = <<>>
    BY <1>2, FlattenEmpty
  <2> QED
    BY <2>1
<1>3. CASE s # <<>>
  <2>1. PICK f : /\ FlattenSeq(s) = f[Len(s)]
                 /\ \A i \in 1..Len(s) : f[i] = Joined(f, s, i)
    BY <1>3, FlattenSteps
  <2> DEFINE T == {i \in 0..Len(s) : i > 0 => f[i] \in Seq(S)}
  <2>2. 0 \in T
    BY <1>1
  <2>3. ASSUME NEW i \in 0..(Len(s) - 1), i \in T
        PROVE  i + 1 \in T
    <3>1. i + 1 \in 1..Len(s) /\ s[i + 1] \in Seq(S)
      BY <1>1
    <3>2. f[i + 1] = Joined(f, s, i + 1)
      BY <2>1, <3>1
    <3>3. i + 1 = 1 \/ (i + 1 # 1 /\ i + 1 - 1 = i /\ f[i] \in Seq(S))
      BY <2>3
    <3>4. f[i + 1] \in Seq(S)
      BY <3>1, <3>2, <3>3 DEF Joined
    <3> QED
      BY <3>1, <3>4
  <2>4. \A i \in 0..Len(s) : i \in T
    <3> HIDE DEF T
    <3> QED
      BY <1>1, <2>2, <2>3, Forward
  <2>5. Len(s) \in 0..Len(s) /\ Len(s) > 0
    BY <1>1, <1>3
  <2> QED
    BY <2>1, <2>4, <2>5
<1> QED
  BY <1>2, <1>3

\* What is needed of the concatenation of sequences of items.
LEMMA ItemsConcat ==
    ASSUME NEW a \in Seq(Nat), NEW b \in Seq(Nat), NEW c \in Seq(Nat)
    PROVE  /\ (a \o b) \o c = a \o (b \o c)
           /\ a \o b \in Seq(Nat)
<1>1. (a \o b) \o c = a \o (b \o c)
  BY ConcatAssociative
<1>2. a \o b \in Seq(Nat)
  OBVIOUS
<1> QED
  BY <1>1, <1>2

-----------------------------------------------------------------------------
(* The bytes of the log file. *)

ChunkByte == [part : {"chunk"}, size : Nat, key : Nat]
Byte      == ChunkByte \cup {[part |-> "pub_key"]} \cup Token

\* What ParseOne makes of a byte is a sequence of at most one item.
LEMMA ParseOneType ==
    ASSUME NEW b \in Byte, NEW k
    PROVE  ParseOne(b, k) \in Seq(Nat)
<1>1. b.part = "body" => b.id \in Nat
  BY DEF Byte, ChunkByte, Token
<1> QED
  BY <1>1 DEF ParseOne

LEMMA BytesType ==
    ASSUME NEW c \in Chunk
    PROVE  /\ Bytes(c) \in Seq(Byte)
           /\ Len(Bytes(c)) = Len(c.data) + 2
           /\ Bytes(c)[1] = [part |-> "chunk", size |-> c.size, key |-> c.key]
           /\ Bytes(c)[2].part = "pub_key"
           /\ \A j \in 1..Len(c.data) : Bytes(c)[j + 2] = c.data[j]
<1> DEFINE h == <<[part |-> "chunk", size |-> c.size, key |-> c.key],
                  [part |-> "pub_key"]>>
<1>1. c.data \in Seq(Token) /\ c.size \in Nat /\ c.key \in Nat
  BY DEF Chunk
<1>2. c.data \in Seq(Byte)
  BY <1>1, SeqMonotonic DEF Byte
<1>3. h \in Seq(Byte) /\ Len(h) = 2
  BY <1>1 DEF Byte, ChunkByte
<1>4. /\ h[1] = [part |-> "chunk", size |-> c.size, key |-> c.key]
      /\ h[2].part = "pub_key"
  OBVIOUS
<1>5. Bytes(c) = h \o c.data
  BY DEF Bytes
<1> HIDE DEF h
<1>6. /\ Bytes(c) \in Seq(Byte)
      /\ Len(Bytes(c)) = 2 + Len(c.data)
      /\ \A i \in 1..(2 + Len(c.data)) :
            Bytes(c)[i] = IF i <= 2 THEN h[i] ELSE c.data[i - 2]
  <2> DEFINE d == c.data
  <2>1. d \in Seq(Byte)
    BY <1>2
  <2> HIDE DEF d
  <2>2. /\ h \o d \in Seq(Byte)
        /\ Len(h \o d) = Len(h) + Len(d)
        /\ \A i \in 1..(Len(h) + Len(d)) :
              (h \o d)[i] = IF i <= Len(h) THEN h[i] ELSE d[i - Len(h)]
    BY <1>3, <2>1, ConcatProperties
  <2>3. Bytes(c) = h \o d
    BY <1>5 DEF d
  <2> QED
    BY <1>3, <2>2, <2>3 DEF d
<1>7. Len(c.data) \in Nat
  BY <1>1
<1>8. ASSUME NEW j \in 1..Len(c.data)
      PROVE  Bytes(c)[j + 2] = c.data[j]
  <2>1. j + 2 \in 1..(2 + Len(c.data)) /\ ~(j + 2 <= 2) /\ j + 2 - 2 = j
    BY <1>7
  <2> QED
    BY <1>6, <2>1
<1> QED
  BY <1>4, <1>6, <1>7, <1>8

\* A function on 1..n is a sequence of length n.
LEMMA FunctionSeq ==
    ASSUME NEW S, NEW n \in Nat, NEW f \in [1..n -> S]
    PROVE  /\ f \in Seq(S)
           /\ Len(f) = n
           /\ n = 0 => f = <<>>
OBVIOUS

LEMMA WrittenType ==
    ASSUME TypeOK, NEW n \in 0..Len(file)
    PROVE  /\ [m \in 1..n |-> Bytes(file[m])] \in Seq(Seq(Byte))
           /\ Len([m \in 1..n |-> Bytes(file[m])]) = n
           /\ Written(n) \in Seq(Byte)
<1> DEFINE f == [m \in 1..n |-> Bytes(file[m])]
<1>1. Len(file) \in Nat /\ n \in Nat
  BY DEF TypeOK
<1>2. \A m \in 1..n : Bytes(file[m]) \in Seq(Byte)
  <2> SUFFICES ASSUME NEW m \in 1..n PROVE Bytes(file[m]) \in Seq(Byte)
    OBVIOUS
  <2>1. file[m] \in Chunk
    BY <1>1 DEF TypeOK
  <2> QED
    BY <2>1, BytesType
<1>3. f \in [1..n -> Seq(Byte)]
  BY <1>2
<1>4. Written(n) = FlattenSeq(f)
  BY DEF Written
<1> HIDE DEF f
<1>5. f \in Seq(Seq(Byte)) /\ Len(f) = n
  BY <1>1, <1>3, FunctionSeq
<1>6. FlattenSeq(f) \in Seq(Byte)
  BY <1>5, FlattenType
<1> QED
  BY <1>4, <1>5, <1>6 DEF f

\* The bytes of one more chunk follow those of the chunks before it.
LEMMA WrittenStep ==
    ASSUME TypeOK
    PROVE  /\ Written(0) = <<>>
           /\ \A n \in 0..(Len(file) - 1) :
                 Written(n + 1) = Written(n) \o Bytes(file[n + 1])
<1>1. Len(file) \in Nat
  BY DEF TypeOK
<1>2. Written(0) = <<>>
  <2> DEFINE f == [m \in 1..0 |-> Bytes(file[m])]
  <2>1. f = <<>>
    OBVIOUS
  <2>2. Written(0) = FlattenSeq(f)
    BY DEF Written
  <2> HIDE DEF f
  <2> QED
    BY <2>1, <2>2, FlattenEmpty
<1>3. ASSUME NEW n \in 0..(Len(file) - 1)
      PROVE  Written(n + 1) = Written(n) \o Bytes(file[n + 1])
  <2> DEFINE s == [m \in 1..n |-> Bytes(file[m])]
             t == [m \in 1..(n + 1) |-> Bytes(file[m])]
  <2>1. n \in 0..Len(file) /\ n + 1 \in 0..Len(file) /\ n \in Nat
    BY <1>1
  <2>2. /\ s \in Seq(Seq(Byte)) /\ Len(s) = n
        /\ t \in Seq(Seq(Byte)) /\ Len(t) = n + 1
        /\ Written(n) \in Seq(Byte)
    BY <2>1, WrittenType
  <2>3. /\ \A i \in 1..n : t[i] = s[i]
        /\ t[n + 1] = Bytes(file[n + 1])
    BY <2>1
  <2>4. Written(n) = FlattenSeq(s) /\ Written(n + 1) = FlattenSeq(t)
    BY DEF Written
  <2> HIDE DEF s, t
  <2>5. FlattenSeq(t) = FlattenSeq(s) \o t[Len(t)]
    BY <2>2, <2>3, <2>4, FlattenAppend
  <2> QED
    BY <2>2, <2>3, <2>4, <2>5
<1> QED
  BY <1>2, <1>3

LEMMA EntriesType ==
    ASSUME NEW c \in Chunk
    PROVE  Entries(c) \in Seq(Nat)
<1> DEFINE f == [j \in 1..Len(c.data) |-> ParseOne(c.data[j], c.key)]
<1>1. c.data \in Seq(Token) /\ Len(c.data) \in Nat
  BY DEF Chunk
<1>2. \A j \in 1..Len(c.data) : ParseOne(c.data[j], c.key) \in Seq(Nat)
  BY <1>1, ParseOneType DEF Byte
<1>3. f \in [1..Len(c.data) -> Seq(Nat)] /\ Entries(c) = FlattenSeq(f)
  BY <1>2 DEF Entries
<1> HIDE DEF f
<1>4. f \in Seq(Seq(Nat))
  BY <1>1, <1>3, FunctionSeq
<1> QED
  BY <1>3, <1>4, FlattenType

\* The entries of one more chunk follow those of the chunks before it.
LEMMA EntriesStep ==
    ASSUME TypeOK
    PROVE  /\ EntriesUpTo(0) = <<>>
           /\ \A n \in 0..Len(file) : EntriesUpTo(n) \in Seq(Nat)
           /\ \A n \in 0..(Len(file) - 1) :
                 EntriesUpTo(n + 1) = EntriesUpTo(n) \o Entries(file[n + 1])
<1> DEFINE f(n) == [m \in 1..n |-> Entries(file[m])]
<1>1. Len(file) \in Nat
  BY DEF TypeOK
<1>2. \A n : EntriesUpTo(n) = FlattenSeq(f(n))
  BY DEF EntriesUpTo
<1>3. ASSUME NEW n \in 0..Len(file)
      PROVE  f(n) \in Seq(Seq(Nat)) /\ Len(f(n)) = n
  <2>1. \A m \in 1..n : Entries(file[m]) \in Seq(Nat)
    <3> SUFFICES ASSUME NEW m \in 1..n PROVE Entries(file[m]) \in Seq(Nat)
      OBVIOUS
    <3>1. file[m] \in Chunk
      BY <1>1 DEF TypeOK
    <3> QED
      BY <3>1, EntriesType
  <2>2. f(n) \in [1..n -> Seq(Nat)] /\ n \in Nat
    BY <2>1
  <2> HIDE DEF f
  <2> QED
    BY <2>2, FunctionSeq
<1>4. f(0) = <<>>
  OBVIOUS
<1>5. ASSUME NEW n \in 0..(Len(file) - 1)
      PROVE  /\ n \in 0..Len(file) /\ n + 1 \in 0..Len(file) /\ n \in Nat
             /\ \A i \in 1..n : f(n + 1)[i] = f(n)[i]
             /\ f(n + 1)[n + 1] = Entries(file[n + 1])
  BY <1>1
<1> HIDE DEF f
<1>6. EntriesUpTo(0) = <<>>
  BY <1>2, <1>4, FlattenEmpty
<1>7. ASSUME NEW n \in 0..Len(file)
      PROVE  EntriesUpTo(n) \in Seq(Nat)
  BY <1>2, <1>3, FlattenType
<1>8. ASSUME NEW n \in 0..(Len(file) - 1)
      PROVE  EntriesUpTo(n + 1) = EntriesUpTo(n) \o Entries(file[n + 1])
  <2> DEFINE s == f(n)
             t == f(n + 1)
  <2>1. /\ s \in Seq(Seq(Nat)) /\ Len(s) = n
        /\ t \in Seq(Seq(Nat)) /\ Len(t) = n + 1
        /\ FlattenSeq(s) \in Seq(Nat)
        /\ \A i \in 1..n : t[i] = s[i]
        /\ t[n + 1] = Entries(file[n + 1])
    BY <1>3, <1>5, FlattenType
  <2>2. FlattenSeq(s) = EntriesUpTo(n) /\ FlattenSeq(t) = EntriesUpTo(n + 1)
    BY <1>2
  <2> HIDE DEF s, t
  <2>3. FlattenSeq(t) = FlattenSeq(s) \o t[Len(t)]
    BY <2>1, FlattenAppend
  <2> QED
    BY <2>1, <2>2, <2>3
<1> QED
  BY <1>6, <1>7, <1>8

\* What was written stays where it is.
LEMMA WrittenPrefix ==
    ASSUME TypeOK, NEW m \in 0..Len(file), NEW n \in m..Len(file)
    PROVE  /\ Len(Written(m)) <= Len(Written(n))
           /\ \A i \in 1..Len(Written(m)) : Written(n)[i] = Written(m)[i]
<1> DEFINE Keeps(k) ==
             /\ Len(Written(m)) <= Len(Written(k))
             /\ \A i \in 1..Len(Written(m)) : Written(k)[i] = Written(m)[i]
           T == {k \in 0..(Len(file) - m) : Keeps(m + k)}
<1>1. Len(file) \in Nat /\ Len(file) - m \in Nat /\ m \in Nat
  BY DEF TypeOK
<1>2. Keeps(m)
  BY <1>1, WrittenType
<1>3. ASSUME NEW k \in m..(Len(file) - 1), Keeps(k)
      PROVE  Keeps(k + 1)
  <2>1. k \in 0..(Len(file) - 1) /\ k \in 0..Len(file) /\ k + 1 \in 1..Len(file)
    BY <1>1
  <2>2. /\ Written(k) \in Seq(Byte)
        /\ Written(m) \in Seq(Byte)
        /\ Bytes(file[k + 1]) \in Seq(Byte)
    BY <1>1, <2>1, WrittenType, BytesType DEF TypeOK
  <2>3. Written(k + 1) = Written(k) \o Bytes(file[k + 1])
    BY <2>1, WrittenStep
  <2> DEFINE s == Written(k)
             t == Bytes(file[k + 1])
  <2>4. /\ Len(s \o t) = Len(s) + Len(t)
        /\ \A i \in 1..Len(s) : (s \o t)[i] = s[i]
        /\ Len(s) \in Nat /\ Len(t) \in Nat /\ Len(Written(m)) \in Nat
    BY <2>2
  <2> HIDE DEF s, t
  <2>5. Written(k + 1) = s \o t /\ Written(k) = s
    BY <2>3 DEF s, t
  <2>6. /\ Len(Written(m)) <= Len(s)
        /\ \A i \in 1..Len(Written(m)) : s[i] = Written(m)[i]
    BY <1>3, <2>5
  <2>7. Len(Written(m)) <= Len(s \o t)
    BY <2>4, <2>6
  <2>8. \A i \in 1..Len(Written(m)) : (s \o t)[i] = Written(m)[i]
    BY <2>4, <2>6
  <2> QED
    BY <2>5, <2>7, <2>8
<1> HIDE DEF Keeps
<1>4. 0 \in T
  BY <1>1, <1>2
<1>5. ASSUME NEW k \in 0..(Len(file) - m - 1), k \in T
      PROVE  k + 1 \in T
  <2>1. m + k \in m..(Len(file) - 1) /\ (m + k) + 1 = m + (k + 1)
    BY <1>1
  <2>2. Keeps(m + (k + 1))
    BY <1>3, <1>5, <2>1
  <2> QED
    BY <1>1, <2>2
<1>6. \A k \in 0..(Len(file) - m) : k \in T
  <2> HIDE DEF T
  <2> QED
    BY <1>1, <1>4, <1>5, Forward
<1>7. n - m \in 0..(Len(file) - m) /\ m + (n - m) = n
  BY <1>1
<1>8. Keeps(n)
  BY <1>6, <1>7
<1> QED
  BY <1>8 DEF Keeps

-----------------------------------------------------------------------------
(* The items of a chunk. *)

\* What ParseItems does at an offset, when f tells what it does behind it.
ItemsAt(f, data, k, offset) ==
    LET body == offset + ItemUnits IN
    IF \/ body > Len(data)
       \/ data[body].part # "header"
       \/ body + BodyUnits > Len(data)
    THEN <<>>
    ELSE ParseOne(data[body + BodyUnits], k) \o f[body + BodyUnits]

ReadsItems(f, data, k) ==
    f = [offset \in 0..Len(data) |-> ItemsAt(f, data, k, offset)]

LEMMA ItemsIs ==
    ASSUME NEW data, NEW k
    PROVE  ParseItems(data, k) = (CHOOSE f : ReadsItems(f, data, k))[0]
BY Zenon DEF ParseItems, ReadsItems, ItemsAt

\* The loop ends at an offset, or prints the body there and goes on two
\* units further.
ItemsEnd(data, o) ==
    o + 1 > Len(data) \/ data[o + 1].part # "header" \/ o + 2 > Len(data)

LEMMA ItemsAtCases ==
    ASSUME NEW f, NEW data, NEW k, NEW o \in Nat
    PROVE  /\ ItemsEnd(data, o) => ItemsAt(f, data, k, o) = <<>>
           /\ ~ItemsEnd(data, o) =>
                 ItemsAt(f, data, k, o) = ParseOne(data[o + 2], k) \o f[o + 2]
<1>1. o + 1 + 1 = o + 2
  OBVIOUS
<1> QED
  BY <1>1, Zenon DEF ItemsAt, ItemsEnd, ItemUnits, BodyUnits

LEMMA ItemsAtType ==
    ASSUME NEW f, NEW data \in Seq(Byte), NEW k, NEW o \in 0..Len(data),
           \A p \in 0..Len(data) : p > o => f[p] \in Seq(Nat)
    PROVE  ItemsAt(f, data, k, o) \in Seq(Nat)
<1>1. Len(data) \in Nat /\ o \in Nat
  OBVIOUS
<1>2. CASE ItemsEnd(data, o)
  <2>1. ItemsAt(f, data, k, o) = <<>>
    BY <1>1, <1>2, ItemsAtCases
  <2> QED
    BY <2>1
<1>3. CASE ~ItemsEnd(data, o)
  <2>1. o + 2 \in 1..Len(data)
    BY <1>1, <1>3 DEF ItemsEnd
  <2>2. ParseOne(data[o + 2], k) \in Seq(Nat)
    BY <2>1, ParseOneType
  <2>3. f[o + 2] \in Seq(Nat)
    BY <1>1, <2>1
  <2>4. ItemsAt(f, data, k, o) = ParseOne(data[o + 2], k) \o f[o + 2]
    BY <1>1, <1>3, ItemsAtCases
  <2> QED
    BY <2>2, <2>3, <2>4
<1> QED
  BY <1>2, <1>3

LEMMA ItemsExist ==
    ASSUME NEW data \in Seq(Byte), NEW k
    PROVE  \E f : ReadsItems(f, data, k)
<1> DEFINE L == Len(data)
           Fun == [0..L -> Seq(Nat)]
           From(f, o) == \A p \in o..L : f[p] = ItemsAt(f, data, k, p)
           T == {o \in 0..L : \E f \in Fun : From(f, o)}
<1>1. L \in Nat
  OBVIOUS
<1>2. ASSUME NEW o \in 0..L, NEW f \in Fun,
             \A p \in (o + 1)..L : f[p] = ItemsAt(f, data, k, p)
      PROVE  o \in T
  <2> DEFINE v == ItemsAt(f, data, k, o)
             g == [f EXCEPT ![o] = v]
  <2>1. v \in Seq(Nat)
    <3>1. \A p \in 0..Len(data) : p > o => f[p] \in Seq(Nat)
      OBVIOUS
    <3> QED
      BY <3>1, ItemsAtType
  <2> HIDE DEF v
  <2>2. g \in Fun /\ g[o] = v /\ \A p \in 0..L : p # o => g[p] = f[p]
    BY <2>1
  <2> HIDE DEF g
  <2>3. ASSUME NEW p \in o..L
        PROVE  g[p] = ItemsAt(g, data, k, p)
    <3>1. p \in Nat /\ p \in 0..L
      BY <1>1
    <3>2. ItemsAt(g, data, k, p) = ItemsAt(f, data, k, p)
      <4>1. CASE ItemsEnd(data, p)
        BY <3>1, <4>1, ItemsAtCases
      <4>2. CASE ~ItemsEnd(data, p)
        <5>1. p + 2 \in 0..L /\ p + 2 # o
          BY <1>1, <3>1, <4>2 DEF ItemsEnd
        <5>2. g[p + 2] = f[p + 2]
          BY <2>2, <5>1
        <5>3. ItemsAt(g, data, k, p) = ParseOne(data[p + 2], k) \o g[p + 2]
          BY <3>1, <4>2, ItemsAtCases
        <5>4. ItemsAt(f, data, k, p) = ParseOne(data[p + 2], k) \o f[p + 2]
          BY <3>1, <4>2, ItemsAtCases
        <5> QED
          BY <5>2, <5>3, <5>4
      <4> QED
        BY <4>1, <4>2
    <3>3. CASE p = o
      BY <2>2, <3>2, <3>3 DEF v
    <3>4. CASE p # o
      <4>1. p \in (o + 1)..L
        BY <1>1, <3>4
      <4> QED
        BY <1>2, <2>2, <3>1, <3>2, <3>4, <4>1
    <3> QED
      BY <3>3, <3>4
  <2> QED
    BY <2>2, <2>3
<1>3. ASSUME NEW o \in 0..L, \A p \in 0..L : p > o => p \in T
      PROVE  o \in T
  <2>1. CASE o = L
    <3> DEFINE f == [p \in 0..L |-> <<>>]
    <3>1. f \in Fun /\ \A p \in (o + 1)..L : f[p] = ItemsAt(f, data, k, p)
      BY <1>1, <2>1
    <3> HIDE DEF f, T, Fun
    <3> QED
      BY <1>2, <3>1
  <2>2. CASE o # L
    <3>1. o + 1 \in 0..L /\ o + 1 > o
      BY <1>1, <2>2
    <3>2. o + 1 \in T
      BY <1>3, <3>1
    <3>3. PICK f \in Fun : From(f, o + 1)
      BY <3>2
    <3> HIDE DEF T, Fun
    <3> QED
      BY <1>2, <3>3
  <2> QED
    BY <2>1, <2>2
<1>4. 0 \in T
  <2> HIDE DEF T
  <2>1. \A o \in 0..L : o \in T
    BY <1>1, <1>3, Backward
  <2> QED
    BY <1>1, <2>1
<1>5. PICK f \in Fun : From(f, 0)
  BY <1>4
<1>6. f = [o \in 0..Len(data) |-> ItemsAt(f, data, k, o)]
  BY <1>5
<1> QED
  BY <1>6 DEF ReadsItems

\* The function of the offset whose value at 0 ParseItems is.
LEMMA ItemsSteps ==
    ASSUME NEW data \in Seq(Byte), NEW k
    PROVE  \E f : /\ ParseItems(data, k) = f[0]
                  /\ \A o \in 0..Len(data) : /\ f[o] = ItemsAt(f, data, k, o)
                                             /\ f[o] \in Seq(Nat)
<1>1. PICK f : f = CHOOSE g : ReadsItems(g, data, k)
  OBVIOUS
<1>2. ReadsItems(f, data, k)
  BY <1>1, ItemsExist, Zenon
<1>3. ParseItems(data, k) = f[0]
  BY <1>1, ItemsIs
<1>4. \A o \in 0..Len(data) : f[o] = ItemsAt(f, data, k, o)
  <2> DEFINE h(o) == ItemsAt(f, data, k, o)
  <2>1. f = [o \in 0..Len(data) |-> h(o)]
    BY <1>2 DEF ReadsItems
  <2> HIDE DEF h
  <2>2. \A o \in 0..Len(data) : f[o] = h(o)
    BY <2>1
  <2> QED
    BY <2>2 DEF h
<1> DEFINE T == {o \in 0..Len(data) : f[o] \in Seq(Nat)}
<1>5. ASSUME NEW o \in 0..Len(data), \A p \in 0..Len(data) : p > o => p \in T
      PROVE  o \in T
  <2>1. \A p \in 0..Len(data) : p > o => f[p] \in Seq(Nat)
    BY <1>5
  <2>2. f[o] \in Seq(Nat)
    BY <1>4, <2>1, ItemsAtType
  <2> QED
    BY <2>2
<1>6. \A o \in 0..Len(data) : o \in T
  <2>1. Len(data) \in Nat
    OBVIOUS
  <2> HIDE DEF T
  <2> QED
    BY <1>5, <2>1, Backward
<1> QED
  BY <1>3, <1>4, <1>6

\* The entries of the first o tokens.
Parsed(data, k, o) == FlattenSeq([j \in 1..o |-> ParseOne(data[j], k)])

LEMMA ParsedStep ==
    ASSUME NEW data \in Seq(Byte), NEW k
    PROVE  /\ Parsed(data, k, 0) = <<>>
           /\ \A o \in 0..Len(data) : Parsed(data, k, o) \in Seq(Nat)
           /\ \A o \in 0..(Len(data) - 1) :
                 Parsed(data, k, o + 1) =
                     Parsed(data, k, o) \o ParseOne(data[o + 1], k)
<1> DEFINE f(o) == [j \in 1..o |-> ParseOne(data[j], k)]
<1>1. Len(data) \in Nat
  OBVIOUS
<1>2. \A o : Parsed(data, k, o) = FlattenSeq(f(o))
  BY DEF Parsed
<1>3. ASSUME NEW o \in 0..Len(data)
      PROVE  f(o) \in Seq(Seq(Nat)) /\ Len(f(o)) = o
  <2>1. \A j \in 1..o : ParseOne(data[j], k) \in Seq(Nat)
    <3> SUFFICES ASSUME NEW j \in 1..o PROVE ParseOne(data[j], k) \in Seq(Nat)
      OBVIOUS
    <3>1. data[j] \in Byte
      BY <1>1
    <3> QED
      BY <3>1, ParseOneType
  <2>2. f(o) \in [1..o -> Seq(Nat)] /\ o \in Nat
    BY <2>1
  <2> HIDE DEF f
  <2> QED
    BY <2>2, FunctionSeq
<1>4. f(0) = <<>>
  OBVIOUS
<1>5. ASSUME NEW o \in 0..(Len(data) - 1)
      PROVE  /\ o \in 0..Len(data) /\ o + 1 \in 0..Len(data) /\ o \in Nat
             /\ \A i \in 1..o : f(o + 1)[i] = f(o)[i]
             /\ f(o + 1)[o + 1] = ParseOne(data[o + 1], k)
  BY <1>1
<1> HIDE DEF f
<1>6. Parsed(data, k, 0) = <<>>
  BY <1>2, <1>4, FlattenEmpty
<1>7. ASSUME NEW o \in 0..Len(data)
      PROVE  Parsed(data, k, o) \in Seq(Nat)
  BY <1>2, <1>3, FlattenType
<1>8. ASSUME NEW o \in 0..(Len(data) - 1)
      PROVE  Parsed(data, k, o + 1) =
                 Parsed(data, k, o) \o ParseOne(data[o + 1], k)
  <2> DEFINE s == f(o)
             t == f(o + 1)
  <2>1. /\ s \in Seq(Seq(Nat)) /\ Len(s) = o
        /\ t \in Seq(Seq(Nat)) /\ Len(t) = o + 1
        /\ FlattenSeq(s) \in Seq(Nat)
        /\ \A i \in 1..o : t[i] = s[i]
        /\ t[o + 1] = ParseOne(data[o + 1], k)
    BY <1>3, <1>5, FlattenType
  <2>2. /\ FlattenSeq(s) = Parsed(data, k, o)
        /\ FlattenSeq(t) = Parsed(data, k, o + 1)
    BY <1>2
  <2> HIDE DEF s, t
  <2>3. FlattenSeq(t) = FlattenSeq(s) \o t[Len(t)]
    BY <2>1, FlattenAppend
  <2> QED
    BY <2>1, <2>2, <2>3
<1> QED
  BY <1>6, <1>7, <1>8

\* Of framed data the loop prints every entry: behind a body, or at the
\* beginning, there is a header, followed by its body or by nothing.
LEMMA FramedItems ==
    ASSUME NEW data \in Seq(Token), Framed(data), NEW k
    PROVE  ParseItems(data, k) = Parsed(data, k, Len(data))
<1> DEFINE L == Len(data)
           E(o) == Parsed(data, k, o)
<1>1. data \in Seq(Byte) /\ L \in Nat
  BY SeqMonotonic DEF Byte
<1>2. PICK f : /\ ParseItems(data, k) = f[0]
               /\ \A o \in 0..L : /\ f[o] = ItemsAt(f, data, k, o)
                                  /\ f[o] \in Seq(Nat)
  BY <1>1, ItemsSteps
<1>3. /\ E(0) = <<>>
      /\ \A o \in 0..L : E(o) \in Seq(Nat)
      /\ \A o \in 0..(L - 1) : E(o + 1) = E(o) \o ParseOne(data[o + 1], k)
  BY <1>1, ParsedStep
<1> HIDE DEF E
<1> DEFINE Start(o) == o = 0 \/ data[o].part = "body"
           T == {o \in 0..L : Start(o) => E(o) \o f[o] = E(L)}
<1>4. ASSUME NEW o \in 0..L, Start(o), \A p \in 0..L : p > o => p \in T
      PROVE  E(o) \o f[o] = E(L)
  <2>1. o \in Nat /\ E(o) \in Seq(Nat) /\ f[o] = ItemsAt(f, data, k, o)
    BY <1>1, <1>2, <1>3
  <2>2. CASE o = L
    <3>1. ItemsEnd(data, o)
      BY <1>1, <2>2 DEF ItemsEnd
    <3>2. f[o] = <<>>
      BY <2>1, <3>1, ItemsAtCases
    <3> QED
      BY <2>1, <2>2, <3>2, ConcatEmptySeq
  <2>3. CASE o # L
    <3>1. o + 1 \in 1..L /\ o \in 0..(L - 1)
      BY <1>1, <2>3
    <3>2. data[o + 1].part = "header"
      <4>0. data[o + 1] \in Token
        BY <3>1
      <4>1. data[o + 1].part \in {"header", "body", "stale"}
        BY <4>0 DEF Token
      <4>2. data[o + 1].part # "stale"
        BY <3>1 DEF Framed
      <4>3. ASSUME data[o + 1].part = "body" PROVE FALSE
        <5> DEFINE j == o + 1
        <5>1. j \in 1..Len(data) /\ data[j].part = "body" /\ data[j] \in Token
          BY <3>1, <4>0, <4>3
        <5>2. j - 1 = o /\ (j > 1 => o # 0)
          BY <2>1
        <5> HIDE DEF j
        <5>3. j > 1 /\ data[j - 1] = [data[j] EXCEPT !.part = "header"]
          BY <5>1 DEF Framed
        <5>4. data[o].part = "header" /\ o # 0
          BY <5>1, <5>2, <5>3 DEF Token
        <5> QED
          BY <1>4, <5>4
      <4> QED
        BY <4>1, <4>2, <4>3
    <3>3. E(o + 1) = E(o)
      <4>1. ParseOne(data[o + 1], k) = <<>>
        BY <3>2 DEF ParseOne
      <4> QED
        BY <1>3, <2>1, <3>1, <4>1, ConcatEmptySeq
    <3>4. CASE o + 1 = L
      <4>1. ItemsEnd(data, o)
        BY <1>1, <3>4 DEF ItemsEnd
      <4>2. f[o] = <<>>
        BY <2>1, <4>1, ItemsAtCases
      <4> QED
        BY <2>1, <3>3, <3>4, <4>2, ConcatEmptySeq
    <3>5. CASE o + 1 # L
      <4>1. o + 2 \in 1..L /\ o + 1 \in 0..(L - 1) /\ o + 1 < L
              /\ o + 1 + 1 = o + 2
        BY <1>1, <3>1, <3>5
      <4>2. ~ItemsEnd(data, o)
        BY <1>1, <3>1, <3>2, <4>1 DEF ItemsEnd
      <4>3. f[o] = ParseOne(data[o + 2], k) \o f[o + 2]
        BY <2>1, <4>2, ItemsAtCases
      <4>4. data[o + 2].part = "body"
        <5>1. data[o + 1 + 1] = [data[o + 1] EXCEPT !.part = "body"]
          BY <3>1, <3>2, <4>1 DEF Framed
        <5>2. data[o + 1] \in Token
          BY <3>1
        <5> QED
          BY <4>1, <5>1, <5>2 DEF Token
      <4>5. E(o + 2) = E(o) \o ParseOne(data[o + 2], k)
        <5>1. E(o + 1 + 1) = E(o + 1) \o ParseOne(data[o + 1 + 1], k)
          BY <1>3, <4>1
        <5> QED
          BY <3>3, <4>1, <5>1
      <4>6. E(o + 2) \o f[o + 2] = E(L)
        <5>1. o + 2 \in T
          BY <1>4, <2>1, <4>1
        <5> QED
          BY <4>4, <5>1
      <4>7. ParseOne(data[o + 2], k) \in Seq(Nat) /\ f[o + 2] \in Seq(Nat)
        <5>1. data[o + 2] \in Byte /\ o + 2 \in 0..L
          BY <1>1, <4>1
        <5> QED
          BY <1>2, <5>1, ParseOneType
      <4>8. E(o) \o f[o] = (E(o) \o ParseOne(data[o + 2], k)) \o f[o + 2]
        <5> DEFINE a == E(o)
                   b == ParseOne(data[o + 2], k)
                   c == f[o + 2]
        <5>1. a \in Seq(Nat) /\ b \in Seq(Nat) /\ c \in Seq(Nat)
          BY <2>1, <4>7
        <5> HIDE DEF a, b, c
        <5>2. (a \o b) \o c = a \o (b \o c)
          BY <5>1, ConcatAssociative
        <5>3. f[o] = b \o c
          BY <4>3 DEF b, c
        <5> QED
          BY <5>2, <5>3 DEF a, b, c
      <4> QED
        BY <4>5, <4>6, <4>8
    <3> QED
      BY <3>4, <3>5
  <2> QED
    BY <2>2, <2>3
<1>5. \A o \in 0..L : o \in T
  <2>1. ASSUME NEW o \in 0..L, \A p \in 0..L : p > o => p \in T
        PROVE  o \in T
    <3>1. Start(o) => E(o) \o f[o] = E(L)
      BY <1>4, <2>1
    <3> QED
      BY <3>1
  <2> HIDE DEF T
  <2> QED
    BY <1>1, <2>1, Backward
<1>6. E(0) \o f[0] = E(L) /\ f[0] \in Seq(Nat)
  BY <1>1, <1>2, <1>5
<1>7. E(0) \o f[0] = f[0]
  <2>1. <<>> \o f[0] = f[0]
    BY <1>6, ConcatEmptySeq
  <2> QED
    BY <1>3, <2>1, Zenon
<1> QED
  BY <1>2, <1>6, <1>7 DEF E

\* What ParseItems prints is a sequence of items.
LEMMA ParseItemsType ==
    ASSUME NEW data \in Seq(Byte), NEW k
    PROVE  ParseItems(data, k) \in Seq(Nat)
<1>1. PICK f : /\ ParseItems(data, k) = f[0]
               /\ \A o \in 0..Len(data) : /\ f[o] = ItemsAt(f, data, k, o)
                                          /\ f[o] \in Seq(Nat)
  BY ItemsSteps
<1>2. 0 \in 0..Len(data)
  OBVIOUS
<1> QED
  BY <1>1, <1>2

-----------------------------------------------------------------------------
(* The chunks of the file. *)

Result == [code : {0, 1}, printed : Seq(Nat)]

\* What ParseFile does at a position, when f tells what it does behind it.
ChunksAt(f, bytes, pos) ==
    LET data == pos + HeaderUnits IN
    CASE data > Len(bytes) -> [code |-> 0, printed |-> <<>>]
      [] data <= Len(bytes) /\ bytes[pos + 1].part # "chunk" ->
             [code |-> 1, printed |-> <<>>]
      [] OTHER ->
             LET end == data + bytes[pos + 1].size IN
             IF end > Len(bytes) THEN [code |-> 1, printed |-> <<>>]
             ELSE [f[end] EXCEPT !.printed =
                      ParseItems(SubSeq(bytes, data + 1, end),
                                 bytes[pos + 1].key) \o @]

ReadsChunks(f, bytes) ==
    f = [pos \in 0..Len(bytes) |-> ChunksAt(f, bytes, pos)]

LEMMA ChunksIs ==
    ASSUME NEW bytes
    PROVE  ParseFile(bytes) = (CHOOSE f : ReadsChunks(f, bytes))[0]
BY Zenon DEF ParseFile, ReadsChunks, ChunksAt

\* The ends of the loop, and the step from a chunk to the next.
HeaderCut(bytes, pos) == pos + 2 > Len(bytes)
NoChunk(bytes, pos)   == ~HeaderCut(bytes, pos) /\ bytes[pos + 1].part # "chunk"
End(bytes, pos)       == pos + 2 + bytes[pos + 1].size
DataCut(bytes, pos)   == /\ ~HeaderCut(bytes, pos)
                         /\ bytes[pos + 1].part = "chunk"
                         /\ End(bytes, pos) > Len(bytes)
Intact(bytes, pos)    == /\ ~HeaderCut(bytes, pos)
                         /\ bytes[pos + 1].part = "chunk"
                         /\ ~(End(bytes, pos) > Len(bytes))
Data(bytes, pos)      == SubSeq(bytes, pos + 2 + 1, End(bytes, pos))
Items(bytes, pos)     == ParseItems(Data(bytes, pos), bytes[pos + 1].key)

\* A chunk is followed by the next one further on.
LEMMA EndBehind ==
    ASSUME NEW bytes \in Seq(Byte), NEW pos \in 0..Len(bytes),
           Intact(bytes, pos)
    PROVE  /\ End(bytes, pos) \in 0..Len(bytes)
           /\ End(bytes, pos) >= pos + 2
           /\ bytes[pos + 1] \in ChunkByte
           /\ Data(bytes, pos) \in Seq(Byte)
           /\ Len(Data(bytes, pos)) = bytes[pos + 1].size
           /\ \A i \in 1..Len(Data(bytes, pos)) :
                 Data(bytes, pos)[i] = bytes[pos + 2 + i]
<1>1. pos + 1 \in 1..Len(bytes) /\ Len(bytes) \in Nat /\ pos \in Nat
  BY DEF Intact, HeaderCut
<1>2. bytes[pos + 1] \in Byte /\ bytes[pos + 1].part = "chunk"
  BY <1>1 DEF Intact
<1>3. bytes[pos + 1] \in ChunkByte
  BY <1>2 DEF Byte, ChunkByte, Token
<1>4. bytes[pos + 1].size \in Nat
  BY <1>3 DEF ChunkByte
<1> DEFINE e == End(bytes, pos)
<1>5. e = pos + 2 + bytes[pos + 1].size /\ ~(e > Len(bytes))
  BY DEF Intact, End
<1>6. e \in Int /\ e \in 0..Len(bytes) /\ e >= pos + 2
  BY <1>1, <1>4, <1>5
<1> HIDE DEF e
<1>7. \A i \in (pos + 2 + 1)..e : bytes[i] \in Byte
  BY <1>1, <1>6
<1> DEFINE s == SubSeq(bytes, pos + 2 + 1, e)
           a == pos + 2 + 1
<1>8. /\ s \in Seq(Byte)
      /\ Len(s) = IF a <= e THEN e - a + 1 ELSE 0
      /\ \A i \in 1..(e - a + 1) : s[i] = bytes[a + i - 1]
  BY <1>1, <1>6, <1>7, SubSeqProperties
<1>9. Data(bytes, pos) = s
  BY DEF Data, e
<1> HIDE DEF s
<1>10. Len(s) = bytes[pos + 1].size /\ Len(s) = e - a + 1
  BY <1>1, <1>4, <1>5, <1>6, <1>8
<1>11. ASSUME NEW i \in 1..Len(s)
       PROVE  s[i] = bytes[pos + 2 + i]
  <2>1. a + i - 1 = pos + 2 + i
    BY <1>1
  <2>2. s[i] = bytes[a + i - 1]
    BY <1>8, <1>10
  <2> QED
    BY <2>1, <2>2
<1> QED
  BY <1>3, <1>6, <1>8, <1>9, <1>10, <1>11 DEF e

\* The result of a chunk with items before those of the chunks behind it.
Prepend(items, r) == [r EXCEPT !.printed = items \o @]

LEMMA ChunksAtCases ==
    ASSUME NEW f, NEW bytes \in Seq(Byte), NEW pos \in 0..Len(bytes)
    PROVE  /\ HeaderCut(bytes, pos) =>
                 ChunksAt(f, bytes, pos) = [code |-> 0, printed |-> <<>>]
           /\ NoChunk(bytes, pos) \/ DataCut(bytes, pos) =>
                 ChunksAt(f, bytes, pos) = [code |-> 1, printed |-> <<>>]
           /\ Intact(bytes, pos) =>
                 ChunksAt(f, bytes, pos) =
                     Prepend(Items(bytes, pos), f[End(bytes, pos)])
           /\ \/ HeaderCut(bytes, pos) \/ NoChunk(bytes, pos)
              \/ DataCut(bytes, pos) \/ Intact(bytes, pos)
<1>1. Len(bytes) \in Nat /\ pos \in Nat
  OBVIOUS
<1> DEFINE data == pos + 2
           e    == End(bytes, pos)
<1>2. ChunksAt(f, bytes, pos) =
        CASE data > Len(bytes) -> [code |-> 0, printed |-> <<>>]
          [] data <= Len(bytes) /\ bytes[pos + 1].part # "chunk" ->
                 [code |-> 1, printed |-> <<>>]
          [] OTHER ->
                 IF e > Len(bytes) THEN [code |-> 1, printed |-> <<>>]
                 ELSE Prepend(Items(bytes, pos), f[e])
  BY Zenon DEF ChunksAt, HeaderUnits, End, Items, Data, Prepend
<1>3. /\ HeaderCut(bytes, pos) <=> data > Len(bytes)
      /\ ~(data > Len(bytes)) <=> data <= Len(bytes)
  BY <1>1 DEF HeaderCut
<1> HIDE DEF data
<1>4. CASE HeaderCut(bytes, pos)
  <2>1. ChunksAt(f, bytes, pos) = [code |-> 0, printed |-> <<>>]
    BY <1>2, <1>3, <1>4
  <2> QED
    BY <1>4, <2>1 DEF NoChunk, DataCut, Intact
<1>5. CASE ~HeaderCut(bytes, pos) /\ bytes[pos + 1].part # "chunk"
  <2>1. ChunksAt(f, bytes, pos) = [code |-> 1, printed |-> <<>>]
    BY <1>2, <1>3, <1>5
  <2> QED
    BY <1>5, <2>1 DEF NoChunk, DataCut, Intact
<1>6. CASE ~HeaderCut(bytes, pos) /\ bytes[pos + 1].part = "chunk"
  <2>1. ChunksAt(f, bytes, pos) =
          IF e > Len(bytes) THEN [code |-> 1, printed |-> <<>>]
          ELSE Prepend(Items(bytes, pos), f[e])
    BY <1>2, <1>3, <1>6
  <2>2. CASE e > Len(bytes)
    <3>1. ChunksAt(f, bytes, pos) = [code |-> 1, printed |-> <<>>]
      BY <2>1, <2>2
    <3>2. DataCut(bytes, pos) /\ ~Intact(bytes, pos)
      BY <1>6, <2>2 DEF DataCut, Intact
    <3> QED
      BY <1>6, <3>1, <3>2 DEF NoChunk
  <2>3. CASE ~(e > Len(bytes))
    <3>1. ChunksAt(f, bytes, pos) = Prepend(Items(bytes, pos), f[e])
      BY <2>1, <2>3
    <3>2. ~DataCut(bytes, pos) /\ Intact(bytes, pos)
      BY <1>6, <2>3 DEF DataCut, Intact
    <3> QED
      BY <1>6, <3>1, <3>2 DEF NoChunk
  <2> QED
    BY <2>2, <2>3
<1> QED
  BY <1>4, <1>5, <1>6

LEMMA ResultType ==
    /\ [code |-> 0, printed |-> <<>>] \in Result
    /\ [code |-> 1, printed |-> <<>>] \in Result
BY EmptySeq DEF Result

LEMMA PrependType ==
    ASSUME NEW items \in Seq(Nat), NEW r \in Result
    PROVE  /\ Prepend(items, r) \in Result
           /\ Prepend(items, r).code = r.code
           /\ Prepend(items, r).printed = items \o r.printed
           /\ r.printed \in Seq(Nat)
<1>1. r.printed \in Seq(Nat) /\ r.code \in {0, 1}
  BY DEF Result
<1> DEFINE t == items \o r.printed
<1>2. t \in Seq(Nat)
  BY <1>1, ConcatProperties
<1>3. Prepend(items, r) = [r EXCEPT !.printed = t]
  BY DEF Prepend
<1> HIDE DEF t
<1>4. /\ Prepend(items, r) \in Result
      /\ Prepend(items, r).code = r.code
      /\ Prepend(items, r).printed = t
  BY <1>2, <1>3 DEF Result
<1> QED
  BY <1>1, <1>4 DEF t

LEMMA ChunksAtType ==
    ASSUME NEW f, NEW bytes \in Seq(Byte), NEW pos \in 0..Len(bytes),
           \A p \in 0..Len(bytes) : p > pos => f[p] \in Result
    PROVE  ChunksAt(f, bytes, pos) \in Result
<1>1. CASE HeaderCut(bytes, pos) \/ NoChunk(bytes, pos) \/ DataCut(bytes, pos)
  <2>1. \/ ChunksAt(f, bytes, pos) = [code |-> 0, printed |-> <<>>]
        \/ ChunksAt(f, bytes, pos) = [code |-> 1, printed |-> <<>>]
    BY <1>1, ChunksAtCases
  <2> QED
    BY <2>1, ResultType
<1>2. CASE Intact(bytes, pos)
  <2> DEFINE e == End(bytes, pos)
             r == Items(bytes, pos)
  <2>1. e \in 0..Len(bytes) /\ e > pos /\ Data(bytes, pos) \in Seq(Byte)
    BY <1>2, EndBehind
  <2>2. r \in Seq(Nat)
    BY <2>1, ParseItemsType DEF Items
  <2>3. f[e] \in Result
    BY <2>1
  <2>4. ChunksAt(f, bytes, pos) = Prepend(r, f[e])
    BY <1>2, ChunksAtCases
  <2> HIDE DEF e, r
  <2> QED
    BY <2>2, <2>3, <2>4, PrependType
<1> QED
  BY <1>1, <1>2, ChunksAtCases

\* Only what lies behind counts.
LEMMA ChunksAtLocal ==
    ASSUME NEW f, NEW g, NEW bytes \in Seq(Byte), NEW pos \in 0..Len(bytes),
           \A p \in 0..Len(bytes) : p > pos => g[p] = f[p]
    PROVE  ChunksAt(g, bytes, pos) = ChunksAt(f, bytes, pos)
<1>1. CASE HeaderCut(bytes, pos)
  BY <1>1, ChunksAtCases
<1>2. CASE NoChunk(bytes, pos) \/ DataCut(bytes, pos)
  BY <1>2, ChunksAtCases
<1>3. CASE Intact(bytes, pos)
  <2> DEFINE e == End(bytes, pos)
  <2>1. e \in 0..Len(bytes) /\ e > pos
    BY <1>3, EndBehind
  <2>2. g[e] = f[e]
    BY <2>1
  <2>3. ChunksAt(g, bytes, pos)
          = Prepend(Items(bytes, pos), g[e])
    BY <1>3, ChunksAtCases
  <2>4. ChunksAt(f, bytes, pos)
          = Prepend(Items(bytes, pos), f[e])
    BY <1>3, ChunksAtCases
  <2> QED
    BY <2>2, <2>3, <2>4
<1> QED
  BY <1>1, <1>2, <1>3, ChunksAtCases

LEMMA ChunksExist ==
    ASSUME NEW bytes \in Seq(Byte)
    PROVE  \E f : ReadsChunks(f, bytes)
<1> DEFINE L == Len(bytes)
           Fun == [0..L -> Result]
           From(f, o) == \A p \in o..L : f[p] = ChunksAt(f, bytes, p)
           T == {o \in 0..L : \E f \in Fun : From(f, o)}
<1>1. L \in Nat
  OBVIOUS
<1>2. ASSUME NEW o \in 0..L, NEW f \in Fun,
             \A p \in (o + 1)..L : f[p] = ChunksAt(f, bytes, p)
      PROVE  o \in T
  <2> DEFINE v == ChunksAt(f, bytes, o)
             g == [f EXCEPT ![o] = v]
  <2>1. v \in Result
    <3>1. \A p \in 0..Len(bytes) : p > o => f[p] \in Result
      OBVIOUS
    <3> QED
      BY <3>1, ChunksAtType
  <2> HIDE DEF v
  <2>2. g \in Fun /\ g[o] = v /\ \A p \in 0..L : p # o => g[p] = f[p]
    BY <2>1
  <2> HIDE DEF g
  <2>3. ASSUME NEW p \in o..L
        PROVE  g[p] = ChunksAt(g, bytes, p)
    <3>1. p \in 0..L /\ \A q \in 0..L : q > p => g[q] = f[q]
      BY <1>1, <2>2
    <3>2. ChunksAt(g, bytes, p) = ChunksAt(f, bytes, p)
      BY <3>1, ChunksAtLocal
    <3>3. CASE p = o
      BY <2>2, <3>2, <3>3 DEF v
    <3>4. CASE p # o
      <4>1. p \in (o + 1)..L
        BY <1>1, <3>4
      <4> QED
        BY <1>2, <2>2, <3>1, <3>2, <3>4, <4>1
    <3> QED
      BY <3>3, <3>4
  <2> QED
    BY <2>2, <2>3
<1>3. ASSUME NEW o \in 0..L, \A p \in 0..L : p > o => p \in T
      PROVE  o \in T
  <2>1. CASE o = L
    <3> DEFINE f == [p \in 0..L |-> [code |-> 0, printed |-> <<>>]]
    <3>1. f \in Fun /\ \A p \in (o + 1)..L : f[p] = ChunksAt(f, bytes, p)
      BY <1>1, <2>1 DEF Result
    <3> HIDE DEF f, T, Fun
    <3> QED
      BY <1>2, <3>1
  <2>2. CASE o # L
    <3>1. o + 1 \in 0..L /\ o + 1 > o
      BY <1>1, <2>2
    <3>2. o + 1 \in T
      BY <1>3, <3>1
    <3>3. PICK f \in Fun : From(f, o + 1)
      BY <3>2
    <3> HIDE DEF T, Fun
    <3> QED
      BY <1>2, <3>3
  <2> QED
    BY <2>1, <2>2
<1>4. 0 \in T
  <2> HIDE DEF T
  <2>1. \A o \in 0..L : o \in T
    BY <1>1, <1>3, Backward
  <2> QED
    BY <1>1, <2>1
<1>5. PICK f \in Fun : From(f, 0)
  BY <1>4
<1>6. f = [o \in 0..Len(bytes) |-> ChunksAt(f, bytes, o)]
  BY <1>5
<1> QED
  BY <1>6 DEF ReadsChunks

\* f is the function of the position whose value at 0 ParseFile is.
Reader(f, bytes) ==
    /\ ParseFile(bytes) = f[0]
    /\ \A pos \in 0..Len(bytes) : /\ f[pos] = ChunksAt(f, bytes, pos)
                                  /\ f[pos] \in Result

LEMMA ChunksSteps ==
    ASSUME NEW bytes \in Seq(Byte)
    PROVE  \E f : Reader(f, bytes)
<1>1. PICK f : f = CHOOSE g : ReadsChunks(g, bytes)
  OBVIOUS
<1>2. ReadsChunks(f, bytes)
  BY <1>1, ChunksExist, Zenon
<1>3. ParseFile(bytes) = f[0]
  BY <1>1, ChunksIs
<1>4. \A o \in 0..Len(bytes) : f[o] = ChunksAt(f, bytes, o)
  <2> DEFINE h(o) == ChunksAt(f, bytes, o)
  <2>1. f = [o \in 0..Len(bytes) |-> h(o)]
    BY <1>2 DEF ReadsChunks
  <2> HIDE DEF h
  <2>2. \A o \in 0..Len(bytes) : f[o] = h(o)
    BY <2>1
  <2> QED
    BY <2>2 DEF h
<1> DEFINE T == {o \in 0..Len(bytes) : f[o] \in Result}
<1>5. ASSUME NEW o \in 0..Len(bytes),
             \A p \in 0..Len(bytes) : p > o => p \in T
      PROVE  o \in T
  <2>1. \A p \in 0..Len(bytes) : p > o => f[p] \in Result
    BY <1>5
  <2>2. f[o] \in Result
    BY <1>4, <2>1, ChunksAtType
  <2> QED
    BY <2>2
<1>6. \A o \in 0..Len(bytes) : o \in T
  <2>1. Len(bytes) \in Nat
    OBVIOUS
  <2> HIDE DEF T
  <2> QED
    BY <1>5, <2>1, Backward
<1> QED
  BY <1>3, <1>4, <1>6 DEF Reader

\* Where a complete chunk lies, its entries are read.
LEMMA ChunkRead ==
    ASSUME NEW b \in Seq(Byte), NEW c \in Chunk, NEW pos \in Nat,
           Whole(c), Framed(c.data), pos + 2 + c.size <= Len(b),
           \A i \in 1..(c.size + 2) : b[pos + i] = Bytes(c)[i]
    PROVE  /\ pos \in 0..Len(b)
           /\ Intact(b, pos)
           /\ End(b, pos) = pos + 2 + c.size
           /\ Items(b, pos) = Entries(c)
<1>1. /\ c.data \in Seq(Token) /\ c.size \in Nat /\ Len(b) \in Nat
      /\ Len(c.data) = c.size
  BY DEF Chunk, Whole
<1>2. pos \in 0..Len(b) /\ ~HeaderCut(b, pos)
  BY <1>1 DEF HeaderCut
<1>3. b[pos + 1] = [part |-> "chunk", size |-> c.size, key |-> c.key]
  <2>1. 1 \in 1..(c.size + 2)
    BY <1>1
  <2>2. b[pos + 1] = Bytes(c)[1]
    BY <2>1
  <2> QED
    BY <2>2, BytesType
<1>4. b[pos + 1].part = "chunk" /\ b[pos + 1].size = c.size
        /\ b[pos + 1].key = c.key
  BY <1>3
<1>5. End(b, pos) = pos + 2 + c.size
  BY <1>4 DEF End
<1>6. Intact(b, pos)
  BY <1>1, <1>2, <1>4, <1>5 DEF Intact
<1>7. Data(b, pos) = c.data
  <2> DEFINE d == Data(b, pos)
  <2>1. /\ d \in Seq(Byte) /\ Len(d) = c.size
        /\ \A i \in 1..Len(d) : d[i] = b[pos + 2 + i]
    BY <1>2, <1>4, <1>6, EndBehind
  <2>2. c.data \in Seq(Byte)
    BY <1>1, SeqMonotonic DEF Byte
  <2> HIDE DEF d
  <2>3. ASSUME NEW i \in 1..Len(d)
        PROVE  d[i] = c.data[i]
    <3>1. i + 2 \in 1..(c.size + 2) /\ pos + (i + 2) = pos + 2 + i
            /\ i \in 1..Len(c.data)
      BY <1>1, <2>1
    <3>2. b[pos + (i + 2)] = Bytes(c)[i + 2]
      BY <3>1
    <3>3. Bytes(c)[i + 2] = c.data[i]
      BY <3>1, BytesType
    <3> QED
      BY <2>1, <3>1, <3>2, <3>3
  <2> DEFINE e == c.data
  <2>4. e \in Seq(Byte) /\ Len(d) = Len(e) /\ \A i \in 1..Len(d) : d[i] = e[i]
    BY <1>1, <2>1, <2>2, <2>3
  <2> HIDE DEF e
  <2>5. d = e
    BY <2>1, <2>4, SeqEqual
  <2> QED
    BY <2>5 DEF d, e
<1>8. Items(b, pos) = ParseItems(c.data, c.key)
  BY <1>4, <1>7 DEF Items
<1>9. ParseItems(c.data, c.key) = Parsed(c.data, c.key, Len(c.data))
  BY <1>1, FramedItems
<1>10. Parsed(c.data, c.key, Len(c.data)) = Entries(c)
  BY DEF Parsed, Entries
<1> QED
  BY <1>2, <1>5, <1>6, <1>8, <1>9, <1>10

\* Where the m-th chunk lies in what was written.
LEMMA ChunkPosition ==
    ASSUME TypeOK, NEW m \in 0..(Len(file) - 1), NEW n \in (m + 1)..Len(file)
    PROVE  /\ file[m + 1] \in Chunk
           /\ Len(Written(m)) \in Nat
           /\ Len(Written(m + 1)) =
                  Len(Written(m)) + 2 + Len(file[m + 1].data)
           /\ \A i \in 1..(Len(file[m + 1].data) + 2) :
                 Written(n)[Len(Written(m)) + i] = Bytes(file[m + 1])[i]
<1>1. /\ Len(file) \in Nat /\ m \in 0..Len(file) /\ m + 1 \in 0..Len(file)
      /\ m + 1 \in 1..Len(file)
  BY DEF TypeOK
<1>2. file[m + 1] \in Chunk
  BY <1>1 DEF TypeOK
<1> DEFINE s == Written(m)
           t == Bytes(file[m + 1])
<1>3. s \in Seq(Byte) /\ t \in Seq(Byte)
  BY <1>1, <1>2, WrittenType, BytesType
<1> DEFINE l == Len(file[m + 1].data)
<1>9. Len(t) = l + 2
  BY <1>2, BytesType
<1>10. l \in Nat
  <2>1. file[m + 1].data \in Seq(Token)
    BY <1>2 DEF Chunk
  <2> QED
    BY <2>1
<1>4. Written(m + 1) = s \o t
  BY WrittenStep
<1>5. /\ Len(Written(m + 1)) <= Len(Written(n))
      /\ \A i \in 1..Len(Written(m + 1)) : Written(n)[i] = Written(m + 1)[i]
  BY <1>1, WrittenPrefix
<1> HIDE DEF s, t, l
<1>6. /\ Len(s \o t) = Len(s) + Len(t)
      /\ \A i \in 1..(Len(s) + Len(t)) :
            (s \o t)[i] = IF i <= Len(s) THEN s[i] ELSE t[i - Len(s)]
      /\ Len(s) \in Nat
  BY <1>3, ConcatProperties
<1>7. ASSUME NEW i \in 1..(l + 2)
      PROVE  Written(n)[Len(s) + i] = t[i]
  <2>1. /\ Len(s) + i \in 1..(Len(s) + Len(t))
        /\ ~(Len(s) + i <= Len(s))
        /\ Len(s) + i - Len(s) = i
    BY <1>6, <1>9, <1>10
  <2>2. (s \o t)[Len(s) + i] = t[i]
    BY <1>6, <2>1
  <2> QED
    BY <1>4, <1>5, <1>6, <2>1, <2>2
<1>8. Len(Written(m + 1)) = Len(s) + 2 + l
  BY <1>4, <1>6, <1>9, <1>10
<1> QED
  BY <1>2, <1>6, <1>7, <1>8 DEF s, t, l

\* The parser reads the first n chunks, when they are complete, and goes on
\* behind them.
LEMMA Chain ==
    ASSUME TypeOK, NEW b \in Seq(Byte), NEW f, Reader(f, b),
           NEW n \in 0..Len(file), Len(Written(n)) <= Len(b),
           \A i \in 1..Len(Written(n)) : b[i] = Written(n)[i],
           \A m \in 1..n : Whole(file[m]) /\ Framed(file[m].data)
    PROVE  /\ f[0].code = f[Len(Written(n))].code
           /\ f[0].printed = EntriesUpTo(n) \o f[Len(Written(n))].printed
<1> DEFINE W(m) == Len(Written(m))
           Upto(m) == /\ f[0].code = f[W(m)].code
                      /\ f[0].printed = EntriesUpTo(m) \o f[W(m)].printed
           T == {m \in 0..n : Upto(m)}
<1>1. Len(file) \in Nat /\ n \in Nat /\ Len(b) \in Nat
  BY DEF TypeOK
<1>2. ASSUME NEW m \in 0..n
      PROVE  W(m) \in 0..Len(b) /\ f[W(m)] \in Result
  <2>1. m \in 0..Len(file) /\ n \in m..Len(file)
    BY <1>1
  <2>2. W(m) <= W(n) /\ W(m) \in Nat /\ W(n) \in Nat
    BY <2>1, WrittenPrefix, WrittenType
  <2>3. W(m) \in 0..Len(b)
    BY <1>1, <2>2
  <2> QED
    BY <2>3 DEF Reader
<1>6. \A i \in 1..W(n) : b[i] = Written(n)[i]
  OBVIOUS
<1>3. Upto(0)
  <2>1. W(0) = 0 /\ EntriesUpTo(0) = <<>>
    BY WrittenStep, EntriesStep
  <2>2. f[0] \in Result
    BY <1>2, <2>1
  <2>3. f[0].printed \in Seq(Nat)
    BY <2>2 DEF Result
  <2>4. <<>> \o f[0].printed = f[0].printed
    BY <2>3, ConcatEmptySeq
  <2>5. EntriesUpTo(0) \o f[W(0)].printed = f[0].printed
    BY <2>1, <2>4, Zenon
  <2>6. f[W(0)].code = f[0].code
    BY <2>1
  <2> QED
    BY <2>5, <2>6
<1>4. ASSUME NEW m \in 0..(n - 1), Upto(m)
      PROVE  Upto(m + 1)
  <2> DEFINE c == file[m + 1]
  <2>1. /\ m \in 0..(Len(file) - 1) /\ n \in (m + 1)..Len(file)
        /\ m \in 0..n /\ m + 1 \in 0..n /\ m + 1 \in 1..n
        /\ m \in 0..Len(file)
    BY <1>1
  <2>2. /\ c \in Chunk /\ W(m) \in Nat /\ W(m + 1) = W(m) + 2 + Len(c.data)
        /\ \A i \in 1..(Len(c.data) + 2) : Written(n)[W(m) + i] = Bytes(c)[i]
    BY <2>1, ChunkPosition
  <2>3. Whole(c) /\ Framed(c.data) /\ Len(c.data) = c.size /\ c.size \in Nat
    <3>1. Whole(c) /\ Framed(c.data)
      BY <2>1
    <3> QED
      BY <2>2, <3>1 DEF Whole, Chunk
  <2>4. W(m + 1) <= W(n) /\ W(n) \in Nat
    BY <1>1, <2>1, WrittenPrefix, WrittenType
  <2>16. W(n) <= Len(b)
    OBVIOUS
  <2> HIDE DEF c, W
  <2>5. ASSUME NEW i \in 1..(c.size + 2)
        PROVE  b[W(m) + i] = Bytes(c)[i]
    <3>1. W(m) + i \in 1..W(n)
      <4> DEFINE p == W(m)
                 q == W(m + 1)
                 l == W(n)
      <4>1. /\ p \in Nat /\ q = p + 2 + c.size /\ q <= l /\ l \in Nat
            /\ c.size \in Nat
        BY <2>2, <2>3, <2>4
      <4> HIDE DEF p, q, l
      <4>2. p + i \in 1..l
        BY <4>1
      <4> QED
        BY <4>2 DEF p, l
    <3>2. b[W(m) + i] = Written(n)[W(m) + i]
      BY <1>6, <3>1
    <3> QED
      BY <2>2, <2>3, <3>2
  <2>6. W(m) + 2 + c.size = W(m + 1) /\ W(m + 1) <= Len(b)
    BY <1>1, <2>2, <2>3, <2>4, <2>16
  <2>7. /\ W(m) \in 0..Len(b)
        /\ Intact(b, W(m))
        /\ End(b, W(m)) = W(m + 1)
        /\ Items(b, W(m)) = Entries(c)
    BY <2>2, <2>3, <2>5, <2>6, ChunkRead
  <2>8. f[W(m)] = Prepend(Entries(c), f[W(m + 1)])
    <3>1. f[W(m)] = ChunksAt(f, b, W(m))
      BY <2>7 DEF Reader
    <3> QED
      BY <2>7, <3>1, ChunksAtCases
  <2>9. /\ f[W(m + 1)] \in Result /\ Entries(c) \in Seq(Nat)
        /\ EntriesUpTo(m) \in Seq(Nat)
    BY <1>2, <2>1, <2>2, EntriesType, EntriesStep
  <2>10. /\ f[W(m)].code = f[W(m + 1)].code
         /\ f[W(m)].printed = Entries(c) \o f[W(m + 1)].printed
         /\ f[W(m + 1)].printed \in Seq(Nat)
    <3> DEFINE r == f[W(m + 1)]
               y == Entries(c)
    <3>1. f[W(m)] = Prepend(y, r) /\ y \in Seq(Nat) /\ r \in Result
      BY <2>8, <2>9
    <3> HIDE DEF r, y
    <3>2. /\ f[W(m)].code = r.code /\ f[W(m)].printed = y \o r.printed
          /\ r.printed \in Seq(Nat)
      BY <3>1, PrependType
    <3> QED
      BY <3>2 DEF r, y
  <2> DEFINE a == EntriesUpTo(m)
             e == Entries(c)
             r == f[W(m + 1)].printed
  <2>11. EntriesUpTo(m + 1) = a \o e
    BY <2>1, EntriesStep DEF c
  <2>12. a \in Seq(Nat) /\ e \in Seq(Nat) /\ r \in Seq(Nat)
    BY <2>9, <2>10
  <2>13. f[0].printed = a \o (e \o r)
    <3>1. f[0].printed = a \o f[W(m)].printed
      BY <1>4
    <3> QED
      BY <2>10, <3>1, Zenon
  <2> HIDE DEF a, e, r
  <2>14. (a \o e) \o r = a \o (e \o r)
    BY <2>12, ItemsConcat
  <2>15. f[0].printed = EntriesUpTo(m + 1) \o f[W(m + 1)].printed
    <3>1. f[0].printed = EntriesUpTo(m + 1) \o r
      BY <2>11, <2>13, <2>14
    <3> QED
      BY <3>1 DEF r
  <2> QED
    BY <1>4, <2>10, <2>15
<1> HIDE DEF Upto
<1>5. \A m \in 0..n : m \in T
  <2>1. 0 \in T
    BY <1>1, <1>3
  <2>2. ASSUME NEW m \in 0..(n - 1), m \in T
        PROVE  m + 1 \in T
    BY <1>1, <1>4, <2>2
  <2> HIDE DEF T
  <2> QED
    BY <1>1, <2>1, <2>2, Forward
<1>7. Upto(n)
  BY <1>1, <1>5
<1> QED
  BY <1>7 DEF Upto

-----------------------------------------------------------------------------
(***************************************************************************)
(* What the reader needs to know of the log file beyond the framing and    *)
(* the order: that no chunk is longer than its header says, and that the   *)
(* keys are numbered from 1.                                               *)
(***************************************************************************)

Keyed(data) == \A j \in 1..Len(data) : data[j].part = "body" => data[j].key > 0

\* A chunk is not longer than its header says.
Sized(c) == Len(c.data) <= c.size

LogInv ==
    /\ rpc = "write_data" => file[Len(file)].size = chunk_size
    /\ pc[Ctor] # "open" => key > 0
    /\ \A c \in Caches : Keyed(buf[c].data)
    /\ \A n \in 1..Len(file) :
          Sized(file[n]) /\ Keyed(file[n].data) /\ file[n].key <= key

\* The size is read before the chunk is written.
LEMMA SizeStays ==
    ASSUME [Next]_vars, rpc = "write_data", rpc' = "write_data"
    PROVE  chunk_size' = chunk_size
<1>1. ASSUME NEW t \in Procs, Continue(t) \/ LogCall(t) \/ FlushCall(t)
      PROVE  chunk_size' = chunk_size
  BY <1>1
     DEF Continue, LogCall, FlushCall, Encode, PushHeader, PushBody,
         NeedCacheToFile, LoadSlaveFree, StoreSlaveFree, SwapCache,
         PrepareToFile, PrepareSlave, PostIdle, AwaitSlave, AwaitMaster,
         runner
<1>2. CASE Recover
  BY <1>2 DEF Recover, Construct, RecoverSlave, RecoverMaster, runner
<1>3. CASE CacheToFile
  BY <1>3
     DEF CacheToFile, TakeTask, CheckFree, CheckEmpty, ReadSize,
         UpdateFilePath, WriteHeader, WriteData, ClearSlave, StoreFree,
         RunnerGoto
<1>4. CASE Crash
  BY <1>4 DEF Crash
<1> QED
  BY <1>1, <1>2, <1>3, <1>4 DEF Next, vars, runner, Procs

\* Every step keeps LogInv.
LEMMA LogStep ==
    ASSUME SinkInv, TypeOK', CallInv, LogInv, [Next]_vars
    PROVE  LogInv'
<1>1. /\ TypeOK /\ TypeOK' /\ key \in Nat /\ key' \in Nat /\ key <= key'
      /\ master \in Caches /\ slave \in Caches
  <2>1. TypeOK /\ TypeOK'
    BY DEF SinkInv
  <2> QED
    BY <2>1, OneWay DEF TypeOK
<1>2. /\ \A c \in Caches : Keyed(buf[c].data)
      /\ \A n \in 1..Len(file) :
            Sized(file[n]) /\ Keyed(file[n].data) /\ file[n].key <= key
      /\ \A n \in 1..Len(file) : file[n].key <= key'
  <2>1. \A n \in 1..Len(file) : file[n] \in Chunk
    BY <1>1 DEF TypeOK
  <2>2. \A n \in 1..Len(file) : file[n].key \in Nat
    BY <2>1 DEF Chunk
  <2> QED
    BY <1>1, <2>2 DEF LogInv
<1>3. pc'[Ctor] # "open" => key' > 0
  <2>1. CASE Construct
    BY <1>1, <2>1 DEF Construct
  <2>2. CASE ~Construct
    BY <1>1, <2>2, OpenStays DEF LogInv
  <2> QED
    BY <2>1, <2>2
<1>4. ASSUME \A c \in Caches : Keyed(buf'[c].data),
             file' = file, rpc' = "write_data" => rpc = "write_data"
      PROVE  LogInv'
  BY <1>2, <1>3, <1>4, SizeStays DEF LogInv
<1>5. ASSUME \A c \in Caches : buf'[c].data = buf[c].data,
             file' = file, rpc' = "write_data" => rpc = "write_data"
      PROVE  LogInv'
  BY <1>2, <1>4, <1>5
<1>6. CASE Still
  BY <1>5, <1>6, StillData
<1>7. CASE Construct
  BY <1>1, <1>5, <1>7, ConstructData DEF Construct, runner
<1>8. ASSUME NEW t \in Procs, PushHeader(t) \/ PushBody(t)
      PROVE  LogInv'
  <2>1. file' = file /\ rpc' = rpc
    BY <1>8 DEF PushHeader, PushBody, runner
  <2>2. key > 0
    <3>1. pc[t] \in {"push_header", "push_body"}
      BY <1>8 DEF PushHeader, PushBody, Goto
    <3>2. t \in Threads
      BY <3>1 DEF Procs, CallInv, PlacesOK, CtorPCs
    <3>3. pc[Ctor] = "done"
      BY <3>1, <3>2 DEF SinkInv, CtorFirst
    <3> QED
      BY <3>3 DEF LogInv
  <2>3. PICK x \in Token :
          /\ buf' = [buf EXCEPT ![master] = Push(@, x)]
          /\ x.key = key
    <3>1. ItemHeader(nextId) \in Token /\ ItemBody(nextId) \in Token
      BY <1>1, TokenType DEF TypeOK
    <3> QED
      BY <1>8, <3>1 DEF PushHeader, PushBody, ItemHeader, ItemBody
  <2>4. /\ buf[master].data \in Seq(Token)
        /\ buf'[master].data = Append(buf[master].data, x)
        /\ \A c \in Caches \ {master} : buf'[c] = buf[c]
    BY <1>1, <2>3, PushData
  <2>5. Keyed(Append(buf[master].data, x))
    <3> DEFINE d == buf[master].data
    <3>1. /\ Keyed(d) /\ d \in Seq(Token)
      BY <1>1, <1>2, <2>4
    <3> HIDE DEF d
    <3>2. \A j \in 1..Len(Append(d, x)) :
             \/ j \in 1..Len(d) /\ Append(d, x)[j] = d[j]
             \/ Append(d, x)[j] = x
      BY <3>1
    <3>3. Keyed(Append(d, x))
      BY <2>2, <2>3, <3>1, <3>2 DEF Keyed
    <3> QED
      BY <3>3 DEF d
  <2>6. \A c \in Caches : Keyed(buf'[c].data)
    BY <1>2, <2>4, <2>5
  <2> QED
    BY <1>4, <2>1, <2>6
<1>9. ASSUME NEW t \in Procs, SwapCache(t)
      PROVE  LogInv'
  BY <1>5, <1>9 DEF SwapCache, runner
<1>10. CASE WriteHeader
  <2>1. CASE file' = file /\ rpc' = "clear"
    <3>1. buf' = buf
      BY <1>1, <1>10, HeaderData
    <3> QED
      BY <1>5, <2>1, <3>1
  <2>2. CASE ~(file' = file /\ rpc' = "clear")
    <3>1. /\ buf' = buf /\ key' = key /\ chunk_size' = chunk_size
          /\ Len(file) \in Nat
          /\ Len(file') = Len(file) + 1
          /\ \A n \in 1..Len(file) : file'[n] = file[n]
          /\ file'[Len(file) + 1].data = <<>>
          /\ file'[Len(file) + 1].key = key
          /\ file'[Len(file) + 1].size = chunk_size
      BY <1>1, <1>10, <2>2, HeaderData DEF WriteHeader
    <3>2. chunk_size \in Nat
      BY <1>1 DEF TypeOK
    <3>3. Sized(file'[Len(file) + 1]) /\ Keyed(file'[Len(file) + 1].data)
      BY <3>1, <3>2 DEF Sized, Keyed
    <3>4. \A n \in 1..Len(file') :
            Sized(file'[n]) /\ Keyed(file'[n].data) /\ file'[n].key <= key'
      <4>1. \A n \in 1..Len(file') : n \in 1..Len(file) \/ n = Len(file) + 1
        BY <3>1
      <4> QED
        BY <1>1, <1>2, <3>1, <3>3, <4>1
    <3> QED
      BY <1>2, <1>3, <3>1, <3>4 DEF LogInv
  <2> QED
    BY <2>1, <2>2
<1>11. CASE WriteData
  <2>1. /\ UNCHANGED <<buf, key>>
        /\ rpc = "write_data" /\ rpc' = "clear"
        /\ Len(file) \in Nat \ {0}
        /\ Len(file') = Len(file)
        /\ \A m \in 1..Len(file) :
              file'[m].key = file[m].key /\ file'[m].size = file[m].size
        /\ \A m \in 1..(Len(file) - 1) : file'[m] = file[m]
    BY <1>11, WriteDataData
  <2>2. PICK n \in 0..chunk_size :
          /\ Len(file'[Len(file)].data) = n
          /\ \A j \in 1..n :
                file'[Len(file)].data[j] =
                    IF j <= Size(buf[slave]) THEN buf[slave].data[j]
                                             ELSE Stale
    BY <1>11, WriteDataData
  <2>3. Sized(file'[Len(file)])
    BY <1>1, <2>1, <2>2 DEF Sized, LogInv, TypeOK
  <2>4. Keyed(file'[Len(file)].data)
    <3>1. Size(buf[slave]) = Len(buf[slave].data) /\ Len(buf[slave].data) \in Nat
      BY <1>1, DataTypes, TokenTypes
    <3>2. Stale.part # "body"
      BY DEF Stale
    <3>3. chunk_size \in Nat
      BY <1>1 DEF TypeOK
    <3>4. \A j \in 1..n : j <= Size(buf[slave]) => j \in 1..Len(buf[slave].data)
      BY <3>1, <3>3
    <3> QED
      BY <1>1, <1>2, <2>2, <3>2, <3>4 DEF Keyed
  <2>5. \A m \in 1..Len(file') : m \in 1..(Len(file) - 1) \/ m = Len(file)
    BY <2>1
  <2>6. \A m \in 1..Len(file') : m \in 1..Len(file)
    BY <2>1
  <2>7. \A m \in 1..Len(file') :
          Sized(file'[m]) /\ Keyed(file'[m].data) /\ file'[m].key <= key'
    BY <1>2, <2>1, <2>3, <2>4, <2>5, <2>6
  <2> QED
    BY <1>2, <1>3, <2>1, <2>7 DEF LogInv
<1>12. CASE ClearSlave
  <2>1. /\ file' = file /\ rpc' = "store_free"
        /\ buf'[slave].data = <<>>
        /\ \A c \in Caches \ {slave} : buf'[c] = buf[c]
    BY <1>1, <1>12, ClearData DEF ClearSlave, RunnerGoto
  <2>2. Keyed(<<>>)
    BY DEF Keyed
  <2> QED
    BY <1>2, <1>4, <2>1, <2>2
<1>13. CASE Crash
  BY <1>5, <1>13 DEF Crash
<1> QED
  BY <1>6, <1>7, <1>8, <1>9, <1>10, <1>11, <1>12, <1>13, DataCases

LEMMA LogInvariant ==
    Spec => [](SinkInv /\ CallInv /\ LogInv)
<1>1. Init => SinkInv /\ CallInv /\ LogInv
  <2> SUFFICES ASSUME Init
               PROVE  SinkInv /\ CallInv /\ LogInv
    OBVIOUS
  <2>1. pc[Ctor] = "open" /\ \A c \in Caches : buf[c].data = <<>>
    BY DEF Init, NoFile, Procs
  <2>2. LogInv
    BY <2>1 DEF Init, LogInv, Keyed
  <2> QED
    BY <2>2, SinkInit, CallInit
<1>2. SinkInv /\ CallInv /\ LogInv /\ [Next]_vars
        => (SinkInv /\ CallInv /\ LogInv)'
  <2> SUFFICES ASSUME SinkInv, CallInv, LogInv, [Next]_vars
               PROVE  (SinkInv /\ CallInv /\ LogInv)'
    OBVIOUS
  <2>1. SinkInv' /\ TypeOK'
    BY SinkStep DEF SinkInv
  <2> QED
    BY <2>1, CallStep, LogStep
<1> QED
  BY <1>1, <1>2, PTL DEF Spec

-----------------------------------------------------------------------------
(* The parser reads the log. *)

\* A reader that ends behind the first n chunks, which are complete, has
\* printed their entries and nothing else.
LEMMA ReadTo ==
    ASSUME TypeOK, NEW b \in Seq(Byte), NEW f, Reader(f, b),
           NEW n \in 0..Len(file), Len(Written(n)) <= Len(b),
           \A i \in 1..Len(Written(n)) : b[i] = Written(n)[i],
           \A m \in 1..n : Whole(file[m]) /\ Framed(file[m].data),
           NEW r \in {0, 1},
           ChunksAt(f, b, Len(Written(n))) = [code |-> r, printed |-> <<>>]
    PROVE  ParseFile(b) = [code |-> r, printed |-> EntriesUpTo(n)]
<1>1. Len(Written(n)) \in 0..Len(b)
  <2>1. Written(n) \in Seq(Byte)
    BY WrittenType
  <2> QED
    BY <2>1
<1>2. 0 \in 0..Len(b)
  BY <1>1
<1>3. /\ f[Len(Written(n))] = [code |-> r, printed |-> <<>>]
      /\ f[0] \in Result /\ ParseFile(b) = f[0]
  BY <1>1, <1>2 DEF Reader
<1>4. /\ f[0].code = f[Len(Written(n))].code
      /\ f[0].printed = EntriesUpTo(n) \o f[Len(Written(n))].printed
  BY Chain
<1>5. f[0].code = r /\ f[0].printed = EntriesUpTo(n) \o <<>>
  BY <1>3, <1>4
<1>6. EntriesUpTo(n) \o <<>> = EntriesUpTo(n)
  <2>1. EntriesUpTo(n) \in Seq(Nat)
    BY EntriesStep
  <2> HIDE DEF EntriesUpTo
  <2> QED
    BY <2>1, ConcatEmptySeq
<1>7. f[0] = [code |-> f[0].code, printed |-> f[0].printed]
  <2>1. f[0] \in Result
    BY <1>3
  <2> QED
    BY <2>1 DEF Result
<1> QED
  BY <1>3, <1>5, <1>6, <1>7, Zenon

\* A prefix of what was written.
LEMMA CutType ==
    ASSUME NEW s \in Seq(Byte), NEW cut \in 0..Len(s)
    PROVE  /\ SubSeq(s, 1, cut) \in Seq(Byte)
           /\ Len(SubSeq(s, 1, cut)) = cut
           /\ \A i \in 1..cut : SubSeq(s, 1, cut)[i] = s[i]
OBVIOUS

\* The cut, at the end of the chunk or before it: w units are there, and the
\* header promises n.
LEMMA CutCases ==
    ASSUME NEW begin \in Nat, NEW w \in Nat, NEW n \in Nat, w <= n,
           NEW all, all = begin + 2 + w, NEW full, full = begin + 2 + n,
           NEW cut \in Nat, cut <= all
    PROVE  /\ cut = full => n = w /\ all = full /\ all = cut
           /\ cut # full => full > cut
OBVIOUS

\* The state predicate, from the invariants of the sink.
LEMMA ReadsLog ==
    ASSUME TypeOK, ItemFraming, LogInv
    PROVE  ParserReadsLog
<1> SUFFICES ASSUME ~raced, JustWritten,
                    \A m \in 1..(Len(file) - 1) : Whole(file[m])
             PROVE  LET last  == Len(file)
                        bytes == Written(last)
                        begin == Len(bytes) - Len(Bytes(file[last]))
                        full  == begin + HeaderUnits + file[last].size
                    IN  \A cut \in begin..Len(bytes) :
                           ParseFile(SubSeq(bytes, 1, cut)) =
                             [code    |-> IF \/ cut < begin + HeaderUnits
                                             \/ cut = full
                                          THEN 0 ELSE 1,
                              printed |-> EntriesUpTo(IF cut = full THEN last
                                                              ELSE last - 1)]
  BY DEF ParserReadsLog
<1> DEFINE last  == Len(file)
           c     == file[last]
           bytes == Written(last)
           begin == Len(bytes) - Len(Bytes(c))
           full  == begin + HeaderUnits + c.size
<1>1. last \in Nat \ {0}
  BY DEF JustWritten, TypeOK
<1>2. /\ last \in 1..Len(file) /\ last - 1 \in 0..(Len(file) - 1)
      /\ last - 1 \in 0..Len(file) /\ last \in 0..Len(file)
      /\ last \in ((last - 1) + 1)..Len(file) /\ (last - 1) + 1 = last
  BY <1>1
<1>3. /\ c \in Chunk
      /\ Len(Written(last - 1)) \in Nat
      /\ Len(bytes) = Len(Written(last - 1)) + 2 + Len(c.data)
      /\ \A i \in 1..(Len(c.data) + 2) :
            bytes[Len(Written(last - 1)) + i] = Bytes(c)[i]
  <2>1. /\ file[(last - 1) + 1] \in Chunk
        /\ Len(Written(last - 1)) \in Nat
        /\ Len(Written((last - 1) + 1)) =
               Len(Written(last - 1)) + 2 + Len(file[(last - 1) + 1].data)
        /\ \A i \in 1..(Len(file[(last - 1) + 1].data) + 2) :
              Written(last)[Len(Written(last - 1)) + i]
                  = Bytes(file[(last - 1) + 1])[i]
    <3> HIDE DEF last
    <3> QED
      BY <1>2, ChunkPosition
  <2> QED
    BY <1>2, <2>1
<1>4. /\ Len(Bytes(c)) = Len(c.data) + 2
      /\ Bytes(c)[1] = [part |-> "chunk", size |-> c.size, key |-> c.key]
      /\ c.size \in Nat /\ Len(c.data) \in Nat
  BY <1>3, BytesType DEF Chunk
<1>5. Len(c.data) <= c.size
  BY <1>2 DEF LogInv, Sized
<1>6. begin = Len(Written(last - 1))
  <2> HIDE DEF c, bytes, last
  <2> QED
    BY <1>3, <1>4
<1>7. bytes \in Seq(Byte) /\ Written(last - 1) \in Seq(Byte)
  BY <1>2, WrittenType
<1>8. \A i \in 1..begin : bytes[i] = Written(last - 1)[i]
  <2>1. last \in (last - 1)..Len(file)
    BY <1>1
  <2> HIDE DEF last
  <2>2. \A i \in 1..Len(Written(last - 1)) :
           Written(last)[i] = Written(last - 1)[i]
    BY <1>2, <2>1, WrittenPrefix
  <2> QED
    BY <1>6, <2>2
<1>9. full = begin + 2 + c.size
  BY DEF HeaderUnits
<1>10. \A m \in 1..last : Framed(file[m].data)
  BY DEF ItemFraming
<1> SUFFICES ASSUME NEW cut \in begin..Len(bytes)
             PROVE  ParseFile(SubSeq(bytes, 1, cut)) =
                        [code    |-> IF cut < begin + HeaderUnits \/ cut = full
                                     THEN 0 ELSE 1,
                         printed |-> EntriesUpTo(IF cut = full THEN last
                                                         ELSE last - 1)]
  OBVIOUS
<1> DEFINE b == SubSeq(bytes, 1, cut)
<1>11. Len(bytes) \in Nat /\ begin \in Nat /\ cut \in 0..Len(bytes)
         /\ cut \in Nat /\ begin <= cut /\ cut <= Len(bytes)
  <2> HIDE DEF bytes, c, last
  <2>1. Len(bytes) \in Nat
    BY <1>7
  <2>2. begin \in Nat
    BY <1>3, <1>6
  <2> HIDE DEF begin
  <2> QED
    BY <2>1, <2>2
<1>12. /\ b \in Seq(Byte) /\ Len(b) = cut
       /\ \A i \in 1..cut : b[i] = bytes[i]
  <2> HIDE DEF bytes
  <2> QED
    BY <1>7, <1>11, CutType
<1>13. PICK f : Reader(f, b)
  BY <1>12, ChunksSteps
<1> HIDE DEF b, bytes, full, begin, c, last
<1>16. /\ Len(bytes) = begin + 2 + Len(c.data) /\ full = begin + 2 + c.size
       /\ begin \in Nat /\ Len(c.data) \in Nat /\ c.size \in Nat
       /\ Len(c.data) <= c.size /\ cut \in Nat /\ cut <= Len(bytes)
  <2>1. Len(bytes) = begin + 2 + Len(c.data)
    BY <1>3, <1>6
  <2> QED
    BY <1>4, <1>5, <1>9, <1>11, <2>1
<1>17. /\ cut = full =>
              c.size = Len(c.data) /\ Len(bytes) = full /\ Len(bytes) = cut
       /\ cut # full => full > cut
  <2> DEFINE w == Len(c.data)
             n == c.size
             l == Len(bytes)
  <2>1. /\ l = begin + 2 + w /\ full = begin + 2 + n
        /\ begin \in Nat /\ w \in Nat /\ n \in Nat
        /\ w <= n /\ cut \in Nat /\ cut <= l
    BY <1>16
  <2> HIDE DEF w, n, l
  <2>2. /\ cut = full => n = w /\ l = full /\ l = cut
        /\ cut # full => full > cut
    BY <2>1, CutCases
  <2> QED
    BY <2>2 DEF w, n, l
<1>14. CASE cut = full
  <2>1. c.size = Len(c.data) /\ Len(bytes) = full /\ Len(bytes) = cut
    BY <1>14, <1>17
  <2>2. \A m \in 1..last : Whole(file[m]) /\ Framed(file[m].data)
    <3>1. \A m \in 1..last : m \in 1..(last - 1) \/ m = last
      BY <1>1
    <3> QED
      BY <1>10, <2>1, <3>1 DEF Whole, last, c
  <2>3. /\ Len(Written(last)) = cut
        /\ \A i \in 1..Len(Written(last)) : b[i] = Written(last)[i]
    BY <1>12, <2>1 DEF bytes
  <2>4. ChunksAt(f, b, Len(Written(last))) = [code |-> 0, printed |-> <<>>]
    <3>1. HeaderCut(b, cut) /\ cut \in 0..Len(b)
      BY <1>11, <1>12 DEF HeaderCut
    <3> QED
      BY <1>12, <2>3, <3>1, ChunksAtCases
  <2>5. Len(Written(last)) <= Len(b)
    BY <1>11, <1>12, <2>3
  <2>6. ParseFile(b) = [code |-> 0, printed |-> EntriesUpTo(last)]
    BY <1>2, <1>12, <1>13, <2>2, <2>3, <2>4, <2>5, ReadTo
  <2> QED
    BY <1>14, <2>6 DEF b
<1>15. CASE cut # full
  <2>1. \A m \in 1..(last - 1) : Whole(file[m]) /\ Framed(file[m].data)
    <3>1. \A m \in 1..(last - 1) : m \in 1..last
      BY <1>1
    <3> QED
      BY <1>10, <3>1 DEF last
  <2>2. /\ Len(Written(last - 1)) <= Len(b)
        /\ \A i \in 1..Len(Written(last - 1)) : b[i] = Written(last - 1)[i]
    BY <1>6, <1>8, <1>11, <1>12
  <2>3. begin \in 0..Len(b)
    BY <1>11, <1>12
  <2>4. ASSUME NEW r \in {0, 1},
               ChunksAt(f, b, begin) = [code |-> r, printed |-> <<>>]
        PROVE  ParseFile(b) = [code |-> r, printed |-> EntriesUpTo(last - 1)]
    BY <1>2, <1>6, <1>12, <1>13, <2>1, <2>2, <2>4, ReadTo
  <2>5. CASE cut < begin + 2
    <3>1. HeaderCut(b, begin)
      BY <1>12, <2>5 DEF HeaderCut
    <3>2. ChunksAt(f, b, begin) = [code |-> 0, printed |-> <<>>]
      BY <1>12, <2>3, <3>1, ChunksAtCases
    <3>3. ParseFile(b) = [code |-> 0, printed |-> EntriesUpTo(last - 1)]
      BY <2>4, <3>2
    <3> QED
      BY <1>15, <2>5, <3>3 DEF b, HeaderUnits
  <2>6. CASE ~(cut < begin + 2)
    <3>1. b[begin + 1] = Bytes(c)[1]
      <4>1. begin + 1 \in 1..cut /\ 1 \in 1..(Len(c.data) + 2)
        BY <1>4, <1>11, <2>6
      <4> QED
        BY <1>3, <1>6, <1>12, <4>1
    <3>2. b[begin + 1].part = "chunk" /\ b[begin + 1].size = c.size
      BY <1>4, <3>1
    <3>3. full > cut
      BY <1>15, <1>17
    <3>4. DataCut(b, begin)
      BY <1>9, <1>11, <1>12, <2>6, <3>2, <3>3 DEF DataCut, HeaderCut, End
    <3>5. ChunksAt(f, b, begin) = [code |-> 1, printed |-> <<>>]
      BY <1>12, <2>3, <3>4, ChunksAtCases
    <3>6. ParseFile(b) = [code |-> 1, printed |-> EntriesUpTo(last - 1)]
      BY <2>4, <3>5
    <3> QED
      BY <1>15, <2>6, <3>6 DEF b, HeaderUnits
  <2> QED
    BY <2>5, <2>6
<1> QED
  BY <1>14, <1>15

\* tools/log_parser.cpp reads what EffectiveSink wrote, wherever the last
\* chunk ends: it prints the entries of every complete chunk, once, in the
\* order of writing, and of an incomplete last chunk none; it fails exactly
\* when that chunk has its header but not all of its data.  For any number of
\* threads, items, chunks and crashes, unless the unguarded window was
\* overlapped.
THEOREM LogIsReadable == Spec => []ParserReadsLog
<1>1. SinkInv /\ FramingInv /\ LogInv => ParserReadsLog
  BY ReadsLog DEF SinkInv, FramingInv, ItemFraming
<1> QED
  BY FramingInvariant, LogInvariant, <1>1, PTL

-----------------------------------------------------------------------------
(* Nothing is printed out of order. *)

Increasing(s) == \A i, j \in 1..Len(s) : i < j => s[i] < s[j]

\* An item whose body lies in b behind lo and not behind hi.
BodyIn(x, b, lo, hi) ==
    \E p \in 1..Len(b) :
        lo < p /\ p <= hi /\ b[p].part = "body" /\ b[p].id = x

\* The items of s are such, in ascending order.
Drawn(s, b, lo, hi) ==
    /\ s \in Seq(Nat)
    /\ Increasing(s)
    /\ \A i \in 1..Len(s) : BodyIn(s[i], b, lo, hi)

LEMMA DrawnNothing ==
    ASSUME NEW b, NEW lo, NEW hi
    PROVE  Drawn(<<>>, b, lo, hi)
BY DEF Drawn, Increasing

\* From an interval within another.
LEMMA DrawnWider ==
    ASSUME NEW b \in Seq(Byte), NEW s, NEW lo \in Int, NEW hi \in Int,
           NEW l \in Int, NEW h \in Int, l <= lo, hi <= h, Drawn(s, b, lo, hi)
    PROVE  Drawn(s, b, l, h)
<1>1. ASSUME NEW i \in 1..Len(s)
      PROVE  BodyIn(s[i], b, l, h)
  <2>1. BodyIn(s[i], b, lo, hi)
    BY DEF Drawn
  <2>2. PICK p \in 1..Len(b) :
          lo < p /\ p <= hi /\ b[p].part = "body" /\ b[p].id = s[i]
    BY <2>1 DEF BodyIn
  <2>3. l < p /\ p <= h /\ b[p].part = "body" /\ b[p].id = s[i]
    BY <2>2
  <2> QED
    BY <2>3 DEF BodyIn
<1> QED
  BY <1>1 DEF Drawn

\* From one interval and from the next, of bytes whose bodies ascend.
LEMMA DrawnConcat ==
    ASSUME NEW b \in Seq(Byte), Sorted(b), NEW s, NEW t,
           NEW lo \in Int, NEW mid \in Int, NEW hi \in Int,
           lo <= mid, mid <= hi, Drawn(s, b, lo, mid), Drawn(t, b, mid, hi)
    PROVE  Drawn(s \o t, b, lo, hi)
<1>1. s \in Seq(Nat) /\ t \in Seq(Nat) /\ Increasing(s) /\ Increasing(t)
  BY DEF Drawn
<1> DEFINE u == s \o t
           m == Len(s)
           n == Len(t)
<1>2. /\ u \in Seq(Nat) /\ Len(u) = m + n /\ m \in Nat /\ n \in Nat
      /\ \A i \in 1..m : u[i] = s[i]
      /\ \A i \in (m + 1)..(m + n) : u[i] = t[i - m]
  BY <1>1
<1> HIDE DEF u, m, n
<1>3. ASSUME NEW i \in 1..Len(u)
      PROVE  \/ i \in 1..m /\ u[i] = s[i]
             \/ /\ i > m /\ i - m \in 1..n /\ u[i] = t[i - m]
  <2>1. i \in 1..m \/ i \in (m + 1)..(m + n)
    BY <1>2
  <2>2. CASE i \in 1..m
    BY <1>2, <2>2
  <2>3. CASE i \in (m + 1)..(m + n)
    <3>1. u[i] = t[i - m]
      BY <1>2, <2>3
    <3>2. i > m /\ i - m \in 1..n
      BY <1>2, <2>3
    <3> QED
      BY <3>1, <3>2
  <2> QED
    BY <2>1, <2>2, <2>3
<1>4. ASSUME NEW i \in 1..m, NEW j \in 1..n
      PROVE  s[i] < t[j]
  <2>1. BodyIn(s[i], b, lo, mid) /\ BodyIn(t[j], b, mid, hi)
    BY DEF Drawn, m, n
  <2>2. PICK p \in 1..Len(b) : p <= mid /\ b[p].part = "body" /\ b[p].id = s[i]
    BY <2>1 DEF BodyIn
  <2>3. PICK q \in 1..Len(b) : mid < q /\ b[q].part = "body" /\ b[q].id = t[j]
    BY <2>1 DEF BodyIn
  <2>4. p \in Bodies(b) /\ q \in Bodies(b) /\ p < q
    BY <2>2, <2>3 DEF Bodies
  <2> QED
    BY <2>2, <2>3, <2>4 DEF Sorted
<1>5. Increasing(u)
  <2> SUFFICES ASSUME NEW i \in 1..Len(u), NEW j \in 1..Len(u), i < j
               PROVE  u[i] < u[j]
    BY DEF Increasing
  <2>1. CASE i > m
    <3>1. j > m /\ i - m < j - m
      BY <1>2, <2>1
    <3>3. ~(i \in 1..m) /\ ~(j \in 1..m)
      BY <1>2, <2>1, <3>1
    <3>2. /\ i - m \in 1..n /\ u[i] = t[i - m]
          /\ j - m \in 1..n /\ u[j] = t[j - m]
      BY <1>3, <3>3
    <3> QED
      BY <1>1, <3>1, <3>2 DEF Increasing, n
  <2>2. CASE ~(i > m) /\ j > m
    <3>1. i \in 1..m /\ u[i] = s[i] /\ j - m \in 1..n /\ u[j] = t[j - m]
      <4>1. ~(i > m) /\ ~(j \in 1..m)
        BY <1>2, <2>2
      <4> QED
        BY <1>3, <4>1
    <3> QED
      BY <1>4, <3>1
  <2>3. CASE ~(j > m)
    <3>1. i \in 1..m /\ u[i] = s[i] /\ j \in 1..m /\ u[j] = s[j]
      <4>1. ~(i > m) /\ ~(j > m)
        BY <1>2, <2>3
      <4> QED
        BY <1>3, <4>1
    <3> QED
      BY <1>1, <3>1 DEF Increasing, m
  <2> QED
    BY <2>1, <2>2, <2>3
<1>6. Drawn(s, b, lo, hi) /\ Drawn(t, b, lo, hi)
  BY DrawnWider
<1>7. \A i \in 1..Len(u) : BodyIn(u[i], b, lo, hi)
  BY <1>3, <1>6 DEF Drawn, m, n
<1>8. Drawn(u, b, lo, hi)
  BY <1>2, <1>5, <1>7 DEF Drawn
<1> QED
  BY <1>8 DEF u

\* The body at p, if it is one and has the key.
LEMMA DrawnOne ==
    ASSUME NEW b \in Seq(Byte), NEW p \in 1..Len(b), NEW k
    PROVE  Drawn(ParseOne(b[p], k), b, p - 1, p)
<1>1. CASE b[p].part = "body" /\ b[p].key = k
  <2>1. ParseOne(b[p], k) = <<b[p].id>>
    BY <1>1 DEF ParseOne
  <2>2. ParseOne(b[p], k) \in Seq(Nat)
    <3>1. b[p] \in Byte
      OBVIOUS
    <3> QED
      BY <3>1, ParseOneType
  <2>3. BodyIn(b[p].id, b, p - 1, p)
    BY <1>1 DEF BodyIn
  <2> DEFINE x == b[p].id
  <2>4. ParseOne(b[p], k) = <<x>> /\ <<x>> \in Seq(Nat) /\ BodyIn(x, b, p - 1, p)
    BY <2>1, <2>2, <2>3
  <2> HIDE DEF x
  <2>5. Drawn(<<x>>, b, p - 1, p)
    BY <2>4 DEF Drawn, Increasing
  <2> QED
    BY <2>4, <2>5
<1>2. CASE ~(b[p].part = "body" /\ b[p].key = k)
  <2>1. ParseOne(b[p], k) = <<>>
    BY <1>2 DEF ParseOne
  <2> QED
    BY <2>1, DrawnNothing
<1> QED
  BY <1>1, <1>2

\* Where data lies in b.
LiesAt(data, b, pos) == \A i \in 1..Len(data) : data[i] = b[pos + i]

\* The items of any data, whole or torn, whatever they look like.
LEMMA DrawnItems ==
    ASSUME NEW b \in Seq(Byte), Sorted(b), NEW pos \in Nat,
           NEW data \in Seq(Byte), pos + Len(data) <= Len(b),
           LiesAt(data, b, pos), NEW k
    PROVE  Drawn(ParseItems(data, k), b, pos, pos + Len(data))
<1> DEFINE L == Len(data)
<1>1. PICK f : /\ ParseItems(data, k) = f[0]
               /\ \A o \in 0..L : /\ f[o] = ItemsAt(f, data, k, o)
                                  /\ f[o] \in Seq(Nat)
  BY ItemsSteps
<1>2. L \in Nat /\ Len(b) \in Nat /\ pos + L <= Len(b)
  OBVIOUS
<1> DEFINE T == {o \in 0..L : Drawn(f[o], b, pos + o, pos + L)}
<1> HIDE DEF L
<1>3. ASSUME NEW o \in 0..L, \A q \in 0..L : q > o => q \in T
      PROVE  o \in T
  <2>3. f[o] = ItemsAt(f, data, k, o)
    BY <1>1
  <2>4. o \in Nat
    BY <1>2
  <2>1. CASE ItemsEnd(data, o)
    <3>1. f[o] = <<>>
      BY <2>1, <2>3, <2>4, ItemsAtCases
    <3> QED
      BY <3>1, DrawnNothing
  <2>2. CASE ~ItemsEnd(data, o)
    <3>1. f[o] = ParseOne(data[o + 2], k) \o f[o + 2]
      <4>1. ItemsAt(f, data, k, o) = ParseOne(data[o + 2], k) \o f[o + 2]
        BY <2>2, <2>4, ItemsAtCases
      <4> QED
        BY <2>3, <4>1, Zenon
    <3>2. /\ o + 2 \in 0..L /\ o + 2 \in 1..L /\ o + 2 > o
          /\ pos + (o + 2) \in 1..Len(b)
      <4>1. ~(o + 2 > L)
        BY <2>2 DEF ItemsEnd, L
      <4> QED
        BY <1>2, <2>4, <4>1
    <3>3. data[o + 2] = b[pos + (o + 2)]
      BY <3>2 DEF L, LiesAt
    <3>4. Drawn(ParseOne(data[o + 2], k), b, pos + (o + 2) - 1, pos + (o + 2))
      <4> DEFINE p == pos + (o + 2)
      <4>1. p \in 1..Len(b) /\ data[o + 2] = b[p]
        BY <3>2, <3>3
      <4> HIDE DEF p
      <4>2. Drawn(ParseOne(b[p], k), b, p - 1, p)
        BY <4>1, DrawnOne
      <4>3. Drawn(ParseOne(data[o + 2], k), b, p - 1, p)
        BY <4>1, <4>2, Zenon
      <4> QED
        BY <4>3 DEF p
    <3>5. Drawn(f[o + 2], b, pos + (o + 2), pos + L)
      BY <1>3, <3>2
    <3> DEFINE s  == ParseOne(data[o + 2], k)
               t  == f[o + 2]
               m  == pos + (o + 2)
               lo == pos + o
               hi == pos + L
    <3>6. /\ Drawn(s, b, m - 1, m) /\ Drawn(t, b, m, hi)
          /\ m \in Int /\ lo \in Int /\ hi \in Int /\ lo <= m - 1 /\ lo <= m
          /\ m <= hi /\ m - 1 \in Int /\ m <= m
      BY <1>2, <3>2, <3>4, <3>5
    <3> HIDE DEF s, t, m, lo, hi
    <3>7. Drawn(s, b, lo, m)
      BY <3>6, DrawnWider
    <3>8. Drawn(s \o t, b, lo, hi)
      BY <3>6, <3>7, DrawnConcat
    <3> QED
      BY <3>1, <3>8 DEF s, t, lo, hi
  <2> QED
    BY <2>1, <2>2
<1>4. \A o \in 0..L : o \in T
  <2> HIDE DEF T
  <2> QED
    BY <1>2, <1>3, Backward
<1>5. Drawn(f[0], b, pos + 0, pos + L)
  BY <1>2, <1>4
<1>6. pos + 0 = pos
  OBVIOUS
<1> QED
  BY <1>1, <1>5, <1>6 DEF L

\* What the parser prints of any file, whole or torn, is in the order of the
\* bodies in it.
LEMMA DrawnFile ==
    ASSUME NEW b \in Seq(Byte), Sorted(b)
    PROVE  Drawn(ParseFile(b).printed, b, 0, Len(b))
<1> DEFINE N == Len(b)
<1>1. PICK f : Reader(f, b)
  BY ChunksSteps
<1>2. N \in Nat
  OBVIOUS
<1> DEFINE T == {pos \in 0..N : Drawn(f[pos].printed, b, pos, N)}
<1> HIDE DEF N
<1>3. ASSUME NEW pos \in 0..N, \A q \in 0..N : q > pos => q \in T
      PROVE  pos \in T
  <2>1. pos \in 0..Len(b) /\ f[pos] = ChunksAt(f, b, pos) /\ pos \in Nat
    BY <1>1, <1>2 DEF Reader, N
  <2>2. CASE HeaderCut(b, pos) \/ NoChunk(b, pos) \/ DataCut(b, pos)
    <3>1. f[pos].printed = <<>>
      BY <2>1, <2>2, ChunksAtCases
    <3> QED
      BY <3>1, DrawnNothing
  <2>3. CASE Intact(b, pos)
    <3> DEFINE e == End(b, pos)
               d == Data(b, pos)
               s == Items(b, pos)
    <3>1. /\ e \in 0..N /\ e >= pos + 2 /\ d \in Seq(Byte)
          /\ Len(d) = b[pos + 1].size /\ b[pos + 1] \in ChunkByte
          /\ \A i \in 1..Len(d) : d[i] = b[pos + 2 + i]
      BY <2>1, <2>3, EndBehind DEF N
    <3>2. pos + 2 + Len(d) = e /\ pos + 2 \in Nat
      BY <2>1, <3>1 DEF End
    <3>3. Drawn(s, b, pos + 2, e)
      <4>1. e <= Len(b)
        BY <1>2, <3>1 DEF N
      <4> HIDE DEF d, e
      <4>2. Drawn(ParseItems(d, b[pos + 1].key), b, pos + 2, pos + 2 + Len(d))
        BY <3>1, <3>2, <4>1, DrawnItems DEF LiesAt
      <4> QED
        BY <3>2, <4>2 DEF Items, d
    <3>4. f[pos] = Prepend(s, f[e])
      BY <2>1, <2>3, ChunksAtCases
    <3>5. f[e] \in Result /\ s \in Seq(Nat)
      BY <1>1, <3>1, <3>3 DEF Reader, N, Drawn
    <3>6. e \in T
      BY <1>2, <1>3, <2>1, <3>1
    <3> HIDE DEF s, e
    <3>7. f[pos].printed = s \o f[e].printed
      BY <3>4, <3>5, PrependType
    <3>8. Drawn(f[e].printed, b, e, N) /\ e \in Int /\ e <= N /\ pos <= e
            /\ pos <= pos + 2 /\ pos + 2 \in Int /\ e <= e
      BY <1>2, <2>1, <3>1, <3>6
    <3>9. Drawn(s, b, pos, e)
      BY <2>1, <3>3, <3>8, DrawnWider
    <3> DEFINE t == f[e].printed
    <3>10. Drawn(t, b, e, N)
      BY <3>8
    <3> HIDE DEF t
    <3>11. Drawn(s \o t, b, pos, N)
      BY <1>2, <2>1, <3>8, <3>9, <3>10, DrawnConcat
    <3> QED
      BY <3>7, <3>11 DEF t
  <2> QED
    BY <2>1, <2>2, <2>3, ChunksAtCases
<1>4. \A pos \in 0..N : pos \in T
  <2> HIDE DEF T
  <2> QED
    BY <1>2, <1>3, Backward
<1>5. Drawn(f[0].printed, b, 0, N)
  BY <1>2, <1>4
<1> QED
  BY <1>1, <1>5 DEF Reader, N

-----------------------------------------------------------------------------
(* A torn chunk does no harm to the others. *)

\* Before any crash all keys are 1, and the bodies of the chunks ascend.
LEMMA BodiesAscend ==
    ASSUME TypeOK, LogInv, WrittenInOrder, ~raced, key = 1,
           NEW m \in 1..Len(file), NEW n \in 1..Len(file),
           NEW j \in Bodies(file[m].data), NEW i \in Bodies(file[n].data),
           m < n \/ (m = n /\ j < i)
    PROVE  file[m].data[j].id < file[n].data[i].id
<1>1. /\ j \in 1..Len(file[m].data) /\ file[m].data[j].part = "body"
      /\ i \in 1..Len(file[n].data) /\ file[n].data[i].part = "body"
  BY DEF Bodies
<1>2. \/ file[m].data[j].id < file[n].data[i].id
      \/ file[n].key > file[n].data[i].key
  BY <1>1 DEF WrittenInOrder
<1>3. file[n].data[i].key > 0 /\ file[n].key <= 1
  BY <1>1 DEF LogInv, Keyed
<1>4. file[n].key \in Nat /\ file[n].data[i].key \in Nat
  <2>1. file[n] \in Chunk /\ file[n].data \in Seq(Token)
    BY DataTypes DEF TypeOK
  <2>2. file[n].data[i].key \in Nat
    BY <1>1, <2>1, TokenTypes
  <2> QED
    BY <2>1, <2>2 DEF Chunk
<1> QED
  BY <1>2, <1>3, <1>4

\* A body in the bytes of the first n chunks is a body of one of them.
FromChunk(n, i) ==
    \E m \in 1..n : \E j \in Bodies(file[m].data) :
        Written(n)[i] = file[m].data[j]

\* So they ascend in the log file.
LEMMA WrittenAscends ==
    ASSUME TypeOK, LogInv, WrittenInOrder, ~raced, key = 1
    PROVE  Sorted(Written(Len(file)))
<1> DEFINE N == Len(file)
           Good(n) == /\ Sorted(Written(n))
                      /\ \A i \in Bodies(Written(n)) : FromChunk(n, i)
           T == {n \in 0..N : Good(n)}
<1>1. N \in Nat
  BY DEF TypeOK
<1>2. Good(0)
  <2>1. Written(0) = <<>>
    BY WrittenStep
  <2>2. Bodies(<<>>) = {}
    BY DEF Bodies
  <2>3. Bodies(Written(0)) = {}
    BY <2>1, <2>2
  <2> HIDE DEF Good
  <2>4. Sorted(Written(0)) /\ \A i \in Bodies(Written(0)) : FromChunk(0, i)
    BY <2>3 DEF Sorted
  <2> QED
    BY <2>4 DEF Good
<1>3. ASSUME NEW n \in 0..(N - 1), Good(n)
      PROVE  Good(n + 1)
  <2> DEFINE c == file[n + 1]
             u == Written(n)
             v == Bytes(c)
             w == Written(n + 1)
  <2>1. /\ n + 1 \in 1..N /\ n \in 0..N /\ n \in Nat
        /\ \A m \in 1..n : m \in 1..N /\ m < n + 1 /\ m \in 1..(n + 1)
        /\ n + 1 \in 1..(n + 1)
    BY <1>1
  <2>2. c \in Chunk
    BY <2>1 DEF TypeOK
  <2>3. w = u \o v
    BY WrittenStep
  <2>4. u \in Seq(Byte)
    BY <2>1, WrittenType
  <2>5. /\ v \in Seq(Byte) /\ Len(v) = Len(c.data) + 2
        /\ v[1].part # "body" /\ v[2].part # "body"
        /\ \A j \in 1..Len(c.data) : v[j + 2] = c.data[j]
    <3> HIDE DEF c
    <3>1. /\ v \in Seq(Byte) /\ Len(v) = Len(c.data) + 2
          /\ v[1] = [part |-> "chunk", size |-> c.size, key |-> c.key]
          /\ v[2].part = "pub_key"
          /\ \A j \in 1..Len(c.data) : v[j + 2] = c.data[j]
      BY <2>2, BytesType
    <3> HIDE DEF v
    <3> QED
      BY <3>1
  <2>6. Len(c.data) \in Nat /\ Len(u) \in Nat
    BY <2>2, <2>4 DEF Chunk
  <2>7. Sorted(u) /\ \A i \in Bodies(u) : FromChunk(n, i)
    BY <1>3
  <2> HIDE DEF c, u, v, w, Good
  <2>8. /\ Len(w) = Len(u) + Len(v)
        /\ \A i \in 1..Len(u) : w[i] = u[i]
        /\ \A i \in 1..Len(v) : w[Len(u) + i] = v[i]
    <3>1. u \in Seq(Byte) /\ v \in Seq(Byte)
      BY <2>4, <2>5
    <3>2. /\ Len(u \o v) = Len(u) + Len(v)
          /\ \A i \in 1..Len(u) : (u \o v)[i] = u[i]
          /\ \A i \in 1..Len(v) : (u \o v)[Len(u) + i] = v[i]
      BY <3>1
    <3> QED
      BY <2>3, <3>2
  <2>9. ASSUME NEW i \in Bodies(w)
        PROVE  \/ i \in Bodies(u) /\ w[i] = u[i]
               \/ \E j \in Bodies(c.data) :
                     i = Len(u) + 2 + j /\ w[i] = c.data[j]
    <3>1. i \in 1..Len(w) /\ w[i].part = "body"
      BY DEF Bodies
    <3>2. CASE i <= Len(u)
      <4>1. i \in 1..Len(u)
        BY <2>6, <2>8, <3>1, <3>2
      <4> QED
        BY <2>8, <3>1, <4>1 DEF Bodies
    <3>3. CASE ~(i <= Len(u))
      <4>1. i - Len(u) \in 1..Len(v) /\ Len(u) + (i - Len(u)) = i
        BY <2>5, <2>6, <2>8, <3>1, <3>3
      <4>2. w[i] = v[i - Len(u)]
        BY <2>8, <4>1
      <4>3. i - Len(u) # 1 /\ i - Len(u) # 2
        BY <2>5, <3>1, <4>2
      <4> DEFINE j == i - Len(u) - 2
      <4>4. j \in 1..Len(c.data) /\ j + 2 = i - Len(u) /\ i = Len(u) + 2 + j
        <5> DEFINE p == Len(u)
                   q == Len(c.data)
                   r == Len(v)
        <5>1. /\ i - p \in 1..r /\ r = q + 2 /\ p \in Nat /\ q \in Nat
              /\ p + (i - p) = i /\ i - p # 1 /\ i - p # 2 /\ i \in Nat
          BY <2>5, <2>6, <3>1, <4>1, <4>3
        <5> HIDE DEF p, q, r
        <5>2. /\ i - p - 2 \in 1..q /\ (i - p - 2) + 2 = i - p
              /\ i = p + 2 + (i - p - 2)
          BY <5>1
        <5> QED
          BY <5>2 DEF p, q
      <4>5. w[i] = c.data[j]
        BY <2>5, <4>2, <4>4
      <4> HIDE DEF j
      <4>6. j \in Bodies(c.data)
        BY <3>1, <4>4, <4>5 DEF Bodies
      <4> QED
        BY <4>4, <4>5, <4>6
    <3> QED
      BY <3>2, <3>3
  <2>10. ASSUME NEW i \in Bodies(w)
         PROVE  FromChunk(n + 1, i)
    <3>1. CASE i \in Bodies(u) /\ w[i] = u[i]
      <4>1. PICK m \in 1..n : \E j \in Bodies(file[m].data) :
              u[i] = file[m].data[j]
        BY <2>7, <3>1 DEF FromChunk, u
      <4> QED
        BY <2>1, <3>1, <4>1 DEF FromChunk, w
    <3>2. CASE \E j \in Bodies(c.data) : w[i] = c.data[j]
      BY <2>1, <3>2 DEF FromChunk, w, c
    <3> QED
      BY <2>9, <3>1, <3>2
  <2>11. ASSUME NEW i \in Bodies(w), NEW k \in Bodies(w), i < k
         PROVE  w[i].id < w[k].id
    <3>1. CASE k \in Bodies(u) /\ w[k] = u[k]
      <4>1. i \in Bodies(u) /\ w[i] = u[i]
        <5>1. k <= Len(u) /\ k \in Nat
          BY <2>6, <3>1 DEF Bodies
        <5>2. ~(\E j \in Bodies(c.data) : i = Len(u) + 2 + j)
          BY <2>6, <2>11, <5>1 DEF Bodies
        <5> QED
          BY <2>9, <5>2
      <4> QED
        BY <2>7, <2>11, <3>1, <4>1 DEF Sorted
    <3>2. ASSUME NEW l \in Bodies(c.data), k = Len(u) + 2 + l,
                 w[k] = c.data[l]
          PROVE  w[i].id < w[k].id
      <4>1. CASE i \in Bodies(u) /\ w[i] = u[i]
        <5>1. PICK m \in 1..n : \E j \in Bodies(file[m].data) :
                u[i] = file[m].data[j]
          BY <2>7, <4>1 DEF FromChunk, u
        <5>2. PICK j \in Bodies(file[m].data) : u[i] = file[m].data[j]
          BY <5>1
        <5>3. file[m].data[j].id < file[n + 1].data[l].id
          BY <2>1, BodiesAscend DEF c
        <5> QED
          BY <3>2, <4>1, <5>2, <5>3 DEF c
      <4>2. ASSUME NEW j \in Bodies(c.data), i = Len(u) + 2 + j,
                   w[i] = c.data[j]
            PROVE  w[i].id < w[k].id
        <5>1. j < l
          BY <2>6, <2>11, <3>2, <4>2 DEF Bodies
        <5>2. file[n + 1].data[j].id < file[n + 1].data[l].id
          BY <2>1, <5>1, BodiesAscend DEF c
        <5> QED
          BY <3>2, <4>2, <5>2 DEF c
      <4> QED
        BY <2>9, <4>1, <4>2
    <3> QED
      BY <2>9, <3>1, <3>2
  <2>12. Sorted(w)
    BY <2>11 DEF Sorted
  <2> QED
    BY <2>10, <2>12 DEF Good, w
<1> HIDE DEF Good
<1>4. 0 \in T
  BY <1>1, <1>2
<1>5. \A n \in 0..(N - 1) : n \in T => n + 1 \in T
  <2> SUFFICES ASSUME NEW n \in 0..(N - 1), n \in T
               PROVE  n + 1 \in T
    OBVIOUS
  <2>1. Good(n + 1)
    BY <1>3
  <2> QED
    BY <1>1, <2>1
<1>6. \A n \in 0..N : n \in T
  <2> HIDE DEF T, N
  <2> QED
    BY <1>1, <1>4, <1>5, Forward
<1>7. Good(N)
  <2>1. N \in 0..N
    BY <1>1
  <2> HIDE DEF N
  <2> QED
    BY <1>6, <2>1
<1> QED
  BY <1>7 DEF Good

\* The number of chunks before the first torn one.
LEMMA SoundExists ==
    ASSUME NEW N \in Nat, NEW torn \in SUBSET (1..N)
    PROVE  \E n \in 0..N : /\ n + 1 \in torn \/ n = N
                           /\ \A m \in torn : n < m
<1>1. CASE torn = {}
  BY <1>1
<1>2. CASE torn # {}
  <2>1. PICK x \in torn : \A y \in torn : x <= y
    <3>1. torn \subseteq Nat
      OBVIOUS
    <3> QED
      BY <1>2, <3>1, LeastOf
  <2>2. x - 1 \in 0..N /\ (x - 1) + 1 = x
    BY <2>1
  <2>3. \A m \in torn : x - 1 < m
    BY <2>1
  <2> QED
    BY <2>1, <2>2, <2>3
<1> QED
  BY <1>1, <1>2

\* What a sequence is joined with follows it.
LEMMA PrefixOfConcat ==
    ASSUME NEW s \in Seq(Nat), NEW t \in Seq(Nat)
    PROVE  IsPrefix(s, s \o t)
<1>1. /\ Len(s \o t) = Len(s) + Len(t) /\ Len(s) \in Nat /\ Len(t) \in Nat
      /\ s \o t \in Seq(Nat)
      /\ \A i \in 1..Len(s) : (s \o t)[i] = s[i]
  OBVIOUS
<1> DEFINE u == s \o t
<1> HIDE DEF u
<1>2. SubSeq(s, 1, Len(s)) = s
  OBVIOUS
<1>3. SubSeq(u, 1, Len(s)) = s
  <2>1. /\ Len(SubSeq(u, 1, Len(s))) = Len(s)
        /\ SubSeq(u, 1, Len(s)) \in Seq(Nat)
        /\ \A i \in 1..Len(s) : SubSeq(u, 1, Len(s))[i] = s[i]
    BY <1>1 DEF u
  <2> QED
    BY <2>1
<1> QED
  BY <1>1, <1>2, <1>3 DEF IsPrefix, u

\* The state predicate, from the invariants of the sink.
LEMMA TornHarmless ==
    ASSUME TypeOK, ItemFraming, WrittenInOrder, LogInv
    PROVE  TornChunkContained
<1> SUFFICES ASSUME ~raced
             PROVE  LET torn    == {m \in 1..Len(file) : ~Whole(file[m])}
                        sound   == CHOOSE n \in 0..Len(file) :
                                       /\ n + 1 \in torn \/ n = Len(file)
                                       /\ \A m \in torn : n < m
                        printed == ParseFile(Written(Len(file))).printed
                    IN  /\ IsPrefix(EntriesUpTo(sound), printed)
                        /\ key = 1 => \A i, j \in 1..Len(printed) :
                                          i < j => printed[i] < printed[j]
  BY DEF TornChunkContained
<1> DEFINE N       == Len(file)
           torn    == {m \in 1..N : ~Whole(file[m])}
           sound   == CHOOSE n \in 0..N : /\ n + 1 \in torn \/ n = N
                                          /\ \A m \in torn : n < m
           b       == Written(N)
           printed == ParseFile(b).printed
<1>1. N \in Nat
  BY DEF TypeOK
<1>2. sound \in 0..N /\ \A m \in torn : sound < m
  <2>1. torn \in SUBSET (1..N)
    OBVIOUS
  <2> HIDE DEF N, torn
  <2>2. \E n \in 0..N : /\ n + 1 \in torn \/ n = N
                        /\ \A m \in torn : n < m
    BY <1>1, <2>1, SoundExists
  <2> QED
    BY <2>2
<1>3. b \in Seq(Byte)
  <2>1. N \in 0..Len(file)
    BY <1>1
  <2> QED
    BY <2>1, WrittenType
<1>4. PICK f : Reader(f, b)
  BY <1>3, ChunksSteps
<1> HIDE DEF sound
<1>5. /\ Len(Written(sound)) <= Len(b)
      /\ \A i \in 1..Len(Written(sound)) : b[i] = Written(sound)[i]
  <2>1. N \in sound..Len(file)
    BY <1>1, <1>2
  <2> QED
    BY <1>2, <2>1, WrittenPrefix
<1>6. \A m \in 1..sound : Whole(file[m]) /\ Framed(file[m].data)
  <2> SUFFICES ASSUME NEW m \in 1..sound
               PROVE  Whole(file[m]) /\ Framed(file[m].data)
    OBVIOUS
  <2>1. m \in 1..N /\ ~(sound < m)
    BY <1>1, <1>2
  <2>2. m \notin torn
    BY <1>2, <2>1
  <2> QED
    BY <2>1, <2>2 DEF ItemFraming
<1>7. f[0].printed = EntriesUpTo(sound) \o f[Len(Written(sound))].printed
  BY <1>2, <1>3, <1>4, <1>5, <1>6, Chain
<1>8. printed = f[0].printed
  BY <1>4 DEF Reader
<1>9. /\ EntriesUpTo(sound) \in Seq(Nat)
      /\ f[Len(Written(sound))].printed \in Seq(Nat)
  <2>1. Len(Written(sound)) \in 0..Len(b)
    <3>1. Written(sound) \in Seq(Byte)
      BY <1>2, WrittenType
    <3> HIDE DEF b
    <3> QED
      BY <1>3, <1>5, <3>1
  <2>2. f[Len(Written(sound))] \in Result
    BY <1>4, <2>1 DEF Reader
  <2> QED
    BY <1>2, <2>2, EntriesStep DEF Result
<1>10. IsPrefix(EntriesUpTo(sound), printed)
  <2> DEFINE s == EntriesUpTo(sound)
             t == f[Len(Written(sound))].printed
  <2>1. printed = s \o t /\ s \in Seq(Nat) /\ t \in Seq(Nat)
    BY <1>7, <1>8, <1>9
  <2> HIDE DEF s, t, printed
  <2>2. IsPrefix(s, printed)
    BY <2>1, PrefixOfConcat
  <2> QED
    BY <2>2 DEF s
<1>11. ASSUME key = 1
       PROVE  \A i, j \in 1..Len(printed) : i < j => printed[i] < printed[j]
  <2>1. Sorted(b)
    BY <1>11, WrittenAscends
  <2>2. Drawn(printed, b, 0, Len(b))
    <3> HIDE DEF b
    <3> QED
      BY <1>3, <2>1, DrawnFile
  <2> HIDE DEF printed
  <2> QED
    BY <2>2 DEF Drawn, Increasing
<1> QED
  BY <1>10, <1>11 DEF sound

\* A chunk cut short with others behind it, which a failed write or a crash
\* leaves, costs the entries of no chunk before it, although the parser takes
\* the next chunk for its data; and while the first process runs nothing is
\* printed out of order.  For any number of threads, items, chunks and
\* crashes, unless the unguarded window was overlapped.
THEOREM TornChunkDoesNoHarm == Spec => []TornChunkContained
<1>1. SinkInv /\ FramingInv /\ OrderInv /\ LogInv => TornChunkContained
  BY TornHarmless
     DEF SinkInv, FramingInv, ItemFraming, OrderInv, Ordered, WrittenInOrder
<1> QED
  BY FramingInvariant, OrderInvariant, LogInvariant, <1>1, PTL

-----------------------------------------------------------------------------
(* Everything a Flush has promised is printed. *)

\* A sequence more before or behind.
LEMMA ContainsConcat ==
    ASSUME NEW s \in Seq(Nat), NEW t \in Seq(Nat), NEW x,
           Contains(s, x) \/ Contains(t, x)
    PROVE  Contains(s \o t, x)
<1> DEFINE u == s \o t
<1>1. /\ Len(s) \in Nat /\ Len(t) \in Nat /\ Len(u) = Len(s) + Len(t)
      /\ \A i \in 1..Len(s) : u[i] = s[i]
      /\ \A i \in 1..Len(t) : u[Len(s) + i] = t[i]
  OBVIOUS
<1> HIDE DEF u
<1>2. ASSUME NEW i \in 1..Len(s), s[i] = x
      PROVE  Contains(u, x)
  <2>1. i \in 1..Len(u) /\ u[i] = x
    BY <1>1, <1>2
  <2> QED
    BY <2>1 DEF Contains
<1>3. ASSUME NEW i \in 1..Len(t), t[i] = x
      PROVE  Contains(u, x)
  <2>1. Len(s) + i \in 1..Len(u) /\ u[Len(s) + i] = x
    BY <1>1, <1>3
  <2> QED
    BY <2>1 DEF Contains
<1>4. Contains(u, x)
  BY <1>2, <1>3 DEF Contains
<1> QED
  BY <1>4 DEF u

LEMMA JoinedLater ==
    ASSUME NEW f, NEW s, NEW m, m # 1
    PROVE  Joined(f, s, m) = f[m - 1] \o s[m]
BY Zenon DEF Joined

\* What one of the sequences contains, all of them joined do.
LEMMA FlattenContains ==
    ASSUME NEW s \in Seq(Seq(Nat)), NEW i \in 1..Len(s), NEW x,
           Contains(s[i], x)
    PROVE  Contains(FlattenSeq(s), x)
<1>1. Len(s) \in Nat /\ s # <<>>
  OBVIOUS
<1>2. PICK f : /\ FlattenSeq(s) = f[Len(s)]
               /\ \A k \in 1..Len(s) : f[k] = Joined(f, s, k)
  BY <1>1, FlattenSteps
<1> DEFINE Good(k) == k > 0 => /\ f[k] \in Seq(Nat)
                               /\ k >= i => Contains(f[k], x)
           T == {k \in 0..Len(s) : Good(k)}
<1>3. 0 \in T
  BY <1>1
<1>4. ASSUME NEW k \in 0..(Len(s) - 1), k \in T
      PROVE  k + 1 \in T
  <2>1. k + 1 \in 1..Len(s) /\ s[k + 1] \in Seq(Nat)
    BY <1>1
  <2>2. f[k + 1] = Joined(f, s, k + 1)
    BY <1>2, <2>1
  <2>3. CASE k = 0
    <3>1. f[k + 1] = s[k + 1]
      BY <2>2, <2>3 DEF Joined
    <3>2. k + 1 >= i => k + 1 = i
      BY <1>1, <2>3
    <3> QED
      BY <2>1, <3>1, <3>2
  <2>4. CASE k > 0
    <3>1. f[k + 1] = f[k] \o s[k + 1]
      <4> DEFINE m == k + 1
      <4>1. m # 1 /\ m - 1 = k
        BY <2>4
      <4>2. f[m] = Joined(f, s, m)
        BY <2>2
      <4> HIDE DEF m
      <4>3. f[m] = f[k] \o s[m]
        BY <4>1, <4>2, JoinedLater, Zenon
      <4> QED
        BY <4>3 DEF m
    <3>2. f[k] \in Seq(Nat) /\ (k >= i => Contains(f[k], x))
      BY <1>4, <2>4
    <3>3. f[k + 1] \in Seq(Nat)
      BY <2>1, <3>1, <3>2
    <3>4. k + 1 >= i => k >= i \/ k + 1 = i
      BY <1>1
    <3>5. k + 1 >= i => Contains(f[k], x) \/ Contains(s[k + 1], x)
      BY <3>2, <3>4
    <3>6. k + 1 >= i => Contains(f[k] \o s[k + 1], x)
      BY <2>1, <3>2, <3>5, ContainsConcat
    <3>7. Good(k + 1)
      BY <3>1, <3>3, <3>6
    <3> HIDE DEF Good
    <3> QED
      BY <1>1, <3>7
  <2> QED
    BY <2>3, <2>4
<1>5. \A k \in 0..Len(s) : k \in T
  <2> HIDE DEF T
  <2> QED
    BY <1>1, <1>3, <1>4, Forward
<1>6. Len(s) \in 0..Len(s) /\ Len(s) > 0 /\ Len(s) >= i
  BY <1>1
<1> QED
  BY <1>2, <1>5, <1>6

\* The entries of the first N chunks contain every item whose body one of
\* them holds, with the key of its header.
LEMMA EntriesContain ==
    ASSUME TypeOK, NEW N \in 0..Len(file), NEW n \in 1..N,
           NEW j \in 1..Len(file[n].data),
           file[n].data[j].part = "body", file[n].data[j].key = file[n].key
    PROVE  Contains(EntriesUpTo(N), file[n].data[j].id)
<1> DEFINE c == file[n]
           x == c.data[j].id
           e == [i \in 1..Len(c.data) |-> ParseOne(c.data[i], c.key)]
           f == [m \in 1..N |-> Entries(file[m])]
<1>1. Len(file) \in Nat /\ N \in Nat /\ \A m \in 1..N : file[m] \in Chunk
  BY DEF TypeOK
<1>2. c \in Chunk
  BY <1>1
<1>3. c.data \in Seq(Token) /\ Len(c.data) \in Nat
  BY <1>2 DEF Chunk
<1>4. e \in Seq(Seq(Nat)) /\ Len(e) = Len(c.data)
  <2>1. \A i \in 1..Len(c.data) : ParseOne(c.data[i], c.key) \in Seq(Nat)
    BY <1>3, ParseOneType DEF Byte
  <2>2. e \in [1..Len(c.data) -> Seq(Nat)]
    BY <2>1
  <2> HIDE DEF e
  <2> QED
    BY <1>3, <2>2, FunctionSeq
<1>5. e[j] = <<x>>
  <2>1. e[j] = ParseOne(c.data[j], c.key)
    OBVIOUS
  <2> QED
    BY <2>1 DEF ParseOne
<1>6. Contains(e[j], x)
  <2>1. Len(<<x>>) = 1 /\ <<x>>[1] = x
    OBVIOUS
  <2> HIDE DEF e, x
  <2> QED
    BY <1>5, <2>1 DEF Contains
<1>7. Contains(Entries(c), x)
  <2>1. Entries(c) = FlattenSeq(e)
    BY DEF Entries
  <2>2. j \in 1..Len(e)
    BY <1>4
  <2> HIDE DEF e, x
  <2>3. Contains(FlattenSeq(e), x)
    BY <1>4, <1>6, <2>2, FlattenContains
  <2> QED
    BY <2>1, <2>3
<1>8. f \in Seq(Seq(Nat)) /\ Len(f) = N
  <2>1. \A m \in 1..N : Entries(file[m]) \in Seq(Nat)
    BY <1>1, EntriesType
  <2>2. f \in [1..N -> Seq(Nat)]
    BY <2>1
  <2> HIDE DEF f
  <2> QED
    BY <1>1, <2>2, FunctionSeq
<1>9. f[n] = Entries(c) /\ n \in 1..Len(f)
  <2>1. f[n] = Entries(c)
    OBVIOUS
  <2> HIDE DEF f
  <2> QED
    BY <1>8, <2>1
<1>10. EntriesUpTo(N) = FlattenSeq(f)
  BY DEF EntriesUpTo
<1> HIDE DEF f, e, x, c
<1>11. Contains(FlattenSeq(f), x)
  <2>1. Contains(f[n], x)
    BY <1>7, <1>9
  <2> QED
    BY <1>8, <1>9, <2>1, FlattenContains
<1> QED
  BY <1>10, <1>11 DEF x, c

\* No body of data is of a later process.
NotNewer(data, k) ==
    \A j \in 1..Len(data) : data[j].part = "body" => data[j].key <= k

\* While the first process runs or has just died, every chunk is whole but
\* the last one, and that one has its data or none.
AllButLast ==
    \A n \in 1..Len(file) :
        Whole(file[n]) \/ (n = Len(file) /\ file[n].data = <<>>)

WholeInv ==
    /\ \A n \in 1..Len(file) : file[n].key > 0 /\ NotNewer(file[n].data, key)
    /\ key = 0 => file = <<>>
    /\ Undisturbed /\ key <= 1 =>
          /\ AllButLast
          /\ pc[Ctor] # "open" /\ rpc # "write_data" =>
                \A n \in 1..Len(file) : Whole(file[n])

\* Every step keeps it: there is no second process yet that could append to
\* a file whose last chunk was cut short by a crash.
LEMMA WholeStep ==
    ASSUME SinkInv, CallInv, TypeOK', LogInv, WholeInv, [Next]_vars
    PROVE  WholeInv'
<1>1. /\ TypeOK /\ TypeOK' /\ key \in Nat /\ key' \in Nat /\ key <= key'
      /\ Undisturbed' => Undisturbed
      /\ master \in Caches /\ slave \in Caches
      /\ \A n \in 1..Len(file) : file[n].data \in Seq(Token)
      /\ Len(file) \in Nat
  <2>1. TypeOK /\ TypeOK'
    BY DEF SinkInv
  <2> QED
    BY <2>1, OneWay, DataTypes DEF TypeOK, Undisturbed
<1>2. ASSUME NEW n \in 1..Len(file)
      PROVE  file[n].key > 0 /\ NotNewer(file[n].data, key')
  <2>1. /\ file[n].key > 0 /\ NotNewer(file[n].data, key)
        /\ \A j \in 1..Len(file[n].data) : file[n].data[j].key \in Nat
    BY <1>1, TokenTypes DEF WholeInv
  <2> QED
    BY <1>1, <2>1 DEF NotNewer
<1>3. ASSUME file' = file, ~Construct,
             rpc' = "write_data" \/ rpc = "write_data" => rpc' = rpc
      PROVE  WholeInv'
  <2>1. pc'[Ctor] # "open" => pc[Ctor] # "open"
    BY <1>3, OpenStays
  <2>2. key' = 0 => file' = <<>>
    BY <1>1, <1>3 DEF WholeInv
  <2>3. key' <= 1 => key <= 1
    BY <1>1
  <2> QED
    BY <1>1, <1>2, <1>3, <2>1, <2>2, <2>3 DEF WholeInv, AllButLast
<1>4. CASE Still
  <2>1. file' = file /\ key' = key /\ (rpc' = "write_data" => rpc' = rpc)
    BY <1>4, StillData
  <2>2. ~Construct
    BY <1>1, <2>1 DEF Construct
  <2>3. rpc = "write_data" => rpc' = rpc
    BY <1>4
       DEF Still, RecoverSlave, RecoverMaster, TakeTask, CheckFree, CheckEmpty,
           ReadSize, UpdateFilePath, StoreFree, LogCall, FlushCall, Encode,
           NeedCacheToFile, LoadSlaveFree, StoreSlaveFree, PrepareToFile,
           PrepareSlave, PostIdle, AwaitSlave, AwaitMaster, vars, runner,
           RunnerGoto
  <2> QED
    BY <1>3, <2>1, <2>2, <2>3
<1>5. CASE Construct
  <2>1. /\ file' = file /\ key' = key + 1 /\ rpc' = rpc
        /\ Undisturbed' <=> Undisturbed
    BY <1>5 DEF Construct, runner, history, Undisturbed
  <2>2. \A n \in 1..Len(file') :
           file'[n].key > 0 /\ NotNewer(file'[n].data, key')
    BY <1>2, <2>1
  <2>3. key' <= 1 => key = 0
    BY <1>1, <2>1
  <2>4. key' <= 1 => file' = <<>>
    BY <2>1, <2>3 DEF WholeInv
  <2>5. file' = <<>> => /\ AllButLast'
                        /\ \A n \in 1..Len(file') : Whole(file'[n])
    BY DEF AllButLast
  <2>6. key' # 0
    BY <1>1, <2>1
  <2> QED
    BY <2>2, <2>4, <2>5, <2>6 DEF WholeInv
<1>6. CASE \E t \in Procs : PushHeader(t) \/ PushBody(t)
  <2>1. file' = file /\ rpc' = rpc /\ ~Construct
    BY <1>6 DEF PushHeader, PushBody, runner, Construct, Goto, CallInv, PlacesOK,
                CtorPCs, SinkInv, TypeOK, Procs
  <2> QED
    BY <1>3, <2>1
<1>7. CASE \E t \in Procs : SwapCache(t)
  <2>1. file' = file /\ rpc' = rpc /\ key' = key
    BY <1>7 DEF SwapCache, runner
  <2>2. ~Construct
    BY <1>1, <2>1 DEF Construct
  <2> QED
    BY <1>3, <2>1, <2>2
<1>8. CASE WriteHeader
  <2>1. rpc = "write_header" /\ key' = key
    BY <1>1, <1>8, HeaderData DEF WriteHeader, RunnerGoto
  <2>2. ~Construct
    BY <1>1, <2>1 DEF Construct
  <2>3. CASE file' = file /\ rpc' = "clear"
    BY <1>3, <2>1, <2>2, <2>3
  <2>4. CASE ~(file' = file /\ rpc' = "clear")
    <3>1. /\ rpc' = "write_data"
          /\ Len(file') = Len(file) + 1
          /\ \A n \in 1..Len(file) : file'[n] = file[n]
          /\ file'[Len(file) + 1].data = <<>>
          /\ file'[Len(file) + 1].key = key
      BY <1>1, <1>8, <2>4, HeaderData
    <3>2. pc[Ctor] # "open"
      BY <2>1 DEF SinkInv, RecoveryStart
    <3>3. key > 0 /\ key' > 0
      BY <1>1, <2>1, <3>2 DEF LogInv
    <3>4. \A n \in 1..Len(file') : n \in 1..Len(file) \/ n = Len(file) + 1
      BY <1>1, <3>1
    <3>5. NotNewer(file'[Len(file) + 1].data, key')
      BY <3>1 DEF NotNewer
    <3>6. \A n \in 1..Len(file') :
             file'[n].key > 0 /\ NotNewer(file'[n].data, key')
      BY <1>2, <3>1, <3>3, <3>4, <3>5
    <3>7. Undisturbed' /\ key' <= 1 => AllButLast'
      <4>1. Undisturbed' /\ key' <= 1 => \A n \in 1..Len(file) : Whole(file[n])
        BY <1>1, <2>1, <3>2 DEF WholeInv
      <4> QED
        BY <3>1, <3>4, <4>1 DEF AllButLast
    <3>8. key' # 0
      BY <1>1, <3>3
    <3> QED
      BY <3>1, <3>6, <3>7, <3>8 DEF WholeInv
  <2> QED
    BY <2>3, <2>4
<1>9. CASE WriteData
  <2>1. /\ UNCHANGED <<buf, slave, key, pc>>
        /\ rpc = "write_data" /\ rpc' = "clear"
        /\ Len(file) \in Nat \ {0}
        /\ Len(file') = Len(file)
        /\ \A m \in 1..Len(file) :
              file'[m].key = file[m].key /\ file'[m].size = file[m].size
        /\ \A m \in 1..(Len(file) - 1) : file'[m] = file[m]
    BY <1>9, WriteDataData
  <2>2. PICK n \in 0..chunk_size :
          /\ Len(file'[Len(file)].data) = n
          /\ \A j \in 1..n :
                file'[Len(file)].data[j] =
                    IF j <= Size(buf[slave]) THEN buf[slave].data[j]
                                             ELSE Stale
          /\ ~raced /\ ~ioFailed' => file'[Len(file)].data = buf[slave].data
    BY <1>9, WriteDataData
  <2>3. /\ Size(buf[slave]) = Len(buf[slave].data)
        /\ Len(buf[slave].data) \in Nat /\ chunk_size \in Nat
    BY <1>1, DataTypes, TokenTypes DEF TypeOK
  <2>4. NotNewer(file'[Len(file)].data, key')
    <3>1. Stale.part # "body"
      BY DEF Stale
    <3>2. \A j \in 1..n : j <= Size(buf[slave]) => j \in 1..Len(buf[slave].data)
      BY <2>3
    <3>3. \A j \in 1..Len(buf[slave].data) : buf[slave].data[j].key <= key'
      BY <1>1, <2>1 DEF CallInv, TokensOK, TokenOK
    <3> QED
      BY <2>2, <3>1, <3>2, <3>3 DEF NotNewer
  <2>5. Undisturbed' => Whole(file'[Len(file)])
    <3> SUFFICES ASSUME Undisturbed' PROVE Whole(file'[Len(file)])
      OBVIOUS
    <3>1. ~raced /\ ~ioFailed'
      BY <1>1 DEF Undisturbed
    <3>2. Len(file'[Len(file)].data) = Size(buf[slave])
      BY <2>2, <2>3, <3>1
    <3>3. chunk_size = Size(buf[slave])
      BY <2>1, <3>1 DEF SinkInv, ChunkIsSlave
    <3>4. Len(file) \in 1..Len(file)
      BY <2>1
    <3>5. file'[Len(file)].size = chunk_size
      BY <2>1, <3>4 DEF LogInv
    <3> QED
      BY <3>2, <3>3, <3>5 DEF Whole
  <2>6. \A m \in 1..Len(file') :
           m \in 1..Len(file) /\ (m \in 1..(Len(file) - 1) \/ m = Len(file))
    BY <2>1
  <2>7. \A m \in 1..Len(file') :
           file'[m].key > 0 /\ NotNewer(file'[m].data, key')
    BY <1>2, <2>1, <2>4, <2>6
  <2>8. Undisturbed' /\ key' <= 1 => \A m \in 1..Len(file') : Whole(file'[m])
    <3>1. Undisturbed' /\ key' <= 1 =>
             \A m \in 1..(Len(file) - 1) : Whole(file[m])
      BY <1>1, <2>1 DEF WholeInv, AllButLast
    <3> QED
      BY <2>1, <2>5, <2>6, <3>1
  <2>9. key' # 0
    <3>1. key # 0
      BY <2>1 DEF WholeInv
    <3> QED
      BY <2>1, <3>1
  <2> QED
    BY <2>7, <2>8, <2>9 DEF WholeInv, AllButLast
<1>10. CASE ClearSlave
  <2>1. file' = file /\ rpc = "clear" /\ rpc' = "store_free" /\ key' = key
    BY <1>10 DEF ClearSlave, RunnerGoto
  <2>2. ~Construct
    BY <1>1, <2>1 DEF Construct
  <2> QED
    BY <1>3, <2>1, <2>2
<1>11. CASE Crash
  <2>1. file' = file /\ key' = key /\ pc'[Ctor] = "open"
    BY <1>11 DEF Crash, Procs
  <2> QED
    BY <1>1, <1>2, <2>1 DEF WholeInv, AllButLast
<1> QED
  BY <1>4, <1>5, <1>6, <1>7, <1>8, <1>9, <1>10, <1>11, DataCases

LEMMA WholeInvariant ==
    Spec => [](SinkInv /\ CallInv /\ LogInv /\ WholeInv)
<1>1. Init => WholeInv
  BY DEF Init, WholeInv, AllButLast
<1>2. SinkInv /\ CallInv /\ LogInv /\ WholeInv /\ [Next]_vars => WholeInv'
  <2> SUFFICES ASSUME SinkInv, CallInv, LogInv, WholeInv, [Next]_vars
               PROVE  WholeInv'
    OBVIOUS
  <2>1. TypeOK'
    BY SinkStep DEF SinkInv
  <2> QED
    BY <2>1, WholeStep
<1>3. Spec => Init /\ [][Next]_vars
  BY DEF Spec
<1> QED
  BY <1>1, <1>2, <1>3, LogInvariant, PTL

\* The state predicate: what is in the log file is in a chunk that is whole,
\* and so is every chunk before it, so that the parser gets there.
LEMMA PromisedPrinted ==
    ASSUME TypeOK, ItemFraming, FlushDurable, LogInv, WholeInv
    PROVE  FlushedIsPrinted
<1> SUFFICES ASSUME Undisturbed, key = 1, NEW i \in promised
             PROVE  Contains(ParseFile(Written(Len(file))).printed, i)
  BY DEF FlushedIsPrinted
<1> DEFINE N == Len(file)
           M == IF \A m \in 1..N : Whole(file[m]) THEN N ELSE N - 1
           b == Written(N)
<1>1. N \in Nat
  BY DEF TypeOK
<1>2. PICK n \in 1..N : HasBody(file[n].data, i)
  BY DEF FlushDurable, OnFile
<1>3. PICK j \in 1..Len(file[n].data) :
          file[n].data[j].part = "body" /\ file[n].data[j].id = i
  BY <1>2 DEF HasBody
<1>4. \A m \in 1..N : Whole(file[m]) \/ (m = N /\ file[m].data = <<>>)
  BY DEF WholeInv, AllButLast
<1>5. /\ M \in 0..N /\ n \in 1..M
      /\ \A m \in 1..M : Whole(file[m])
  <2>1. file[n].data # <<>>
    BY <1>3
  <2>2. CASE \A m \in 1..N : Whole(file[m])
    <3>1. M = N
      BY <2>2
    <3> HIDE DEF M
    <3> QED
      BY <1>1, <2>2, <3>1
  <2>3. CASE ~\A m \in 1..N : Whole(file[m])
    <3>1. M = N - 1
      BY <2>3
    <3>2. file[N].data = <<>>
      BY <1>4, <2>3
    <3>3. n # N
      BY <2>1, <3>2
    <3> HIDE DEF M
    <3>4. n \in 1..M /\ M \in 0..N
      BY <1>1, <1>2, <3>1, <3>3
    <3>5. \A m \in 1..M : m \in 1..N /\ m # N
      BY <1>1, <3>1
    <3> QED
      BY <1>4, <3>4, <3>5
  <2> QED
    BY <2>2, <2>3
<1> HIDE DEF M
<1>6. b \in Seq(Byte)
  <2>1. N \in 0..Len(file)
    BY <1>1
  <2> QED
    BY <2>1, WrittenType
<1>7. PICK f : Reader(f, b)
  BY <1>6, ChunksSteps
<1>8. /\ Len(Written(M)) <= Len(b)
      /\ \A k \in 1..Len(Written(M)) : b[k] = Written(M)[k]
  <2>1. N \in M..Len(file)
    BY <1>1, <1>5
  <2> QED
    BY <1>5, <2>1, WrittenPrefix
<1>9. \A m \in 1..M : Whole(file[m]) /\ Framed(file[m].data)
  <2>1. \A m \in 1..M : m \in 1..N
    BY <1>1, <1>5
  <2> QED
    BY <1>5, <2>1 DEF ItemFraming, Undisturbed
<1>10. f[0].printed = EntriesUpTo(M) \o f[Len(Written(M))].printed
  BY <1>5, <1>6, <1>7, <1>8, <1>9, Chain
<1>11. ParseFile(b).printed = f[0].printed
  BY <1>7 DEF Reader
<1>12. /\ EntriesUpTo(M) \in Seq(Nat)
       /\ f[Len(Written(M))].printed \in Seq(Nat)
  <2>1. Len(Written(M)) \in 0..Len(b)
    <3>1. Written(M) \in Seq(Byte)
      BY <1>5, WrittenType
    <3> HIDE DEF b
    <3> QED
      BY <1>6, <1>8, <3>1
  <2>2. f[Len(Written(M))] \in Result
    BY <1>7, <2>1 DEF Reader
  <2> QED
    BY <1>5, <2>2, EntriesStep DEF Result
<1>13. Contains(EntriesUpTo(M), i)
  <2>1. file[n].data[j].key = file[n].key
    <3>1. /\ file[n].key > 0 /\ file[n].key <= 1
          /\ file[n].data[j].key > 0 /\ file[n].data[j].key <= 1
      BY <1>3 DEF LogInv, Keyed, WholeInv, NotNewer
    <3>2. file[n].key \in Nat
      <4>1. file[n] \in Chunk
        BY DEF TypeOK
      <4> QED
        BY <4>1 DEF Chunk
    <3>3. file[n].data[j].key \in Nat
      <4>1. file[n].data \in Seq(Token)
        BY DataTypes
      <4> QED
        BY <4>1, TokenTypes
    <3> QED
      BY <3>1, <3>2, <3>3
  <2> QED
    BY <1>3, <1>5, <2>1, EntriesContain
<1>14. Contains(EntriesUpTo(M) \o f[Len(Written(M))].printed, i)
  <2> DEFINE s == EntriesUpTo(M)
             t == f[Len(Written(M))].printed
  <2>1. s \in Seq(Nat) /\ t \in Seq(Nat) /\ Contains(s, i)
    BY <1>12, <1>13
  <2> HIDE DEF s, t
  <2>2. Contains(s \o t, i)
    BY <2>1, ContainsConcat
  <2> QED
    BY <2>2 DEF s, t
<1> QED
  BY <1>10, <1>11, <1>14

\* End to end, for any number of threads, items and flushes: what was
\* accepted before a Flush that returned is printed by tools/log_parser.cpp,
\* also while the next chunk is being written or when the process died in
\* the write; unless the unguarded window was overlapped, a write failed or
\* another process recovered the caches.
THEOREM FlushedReachesReader == Spec => []FlushedIsPrinted
<1>1. SinkInv /\ FramingInv /\ FlushInv /\ LogInv /\ WholeInv => FlushedIsPrinted
  BY PromisedPrinted DEF SinkInv, FramingInv, ItemFraming, FlushInv
<1> QED
  BY FramingInvariant, FlushInvariant, WholeInvariant, <1>1, PTL
=============================================================================
