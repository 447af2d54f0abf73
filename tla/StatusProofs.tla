------------------------------ MODULE StatusProofs ----------------------------
(***************************************************************************)
(* Proofs about the text of the bar, for every number of blocks, all their *)
(* signals and icons, every limit of the output and every layout.          *)
(***************************************************************************)
EXTENDS Status, UtilProofs

-------------------------------------------------------------------------------
(* The truncation of a line.                                               *)

\* The numbers that the size of the buffer comes from.
LEMMA Numbers ==
  /\ BlockCount \in Nat \ {0}
  /\ MAX_BLOCK_OUTPUT_LENGTH \in Nat
  /\ MaxOutput \in Nat
  /\ Size = MaxOutput + 1
  /\ DelimiterLength \in Nat
BY StatusAssumption DEF MaxOutput, Size, UTF8_MAX_BYTE_COUNT

\* The characters that begin in the first i bytes.
Starts(bytes, i) == {p \in 1 .. i : bytes[p] # Continuation}

\* All of these end there.
Boundary(bytes, i) ==
  /\ i \in 0 .. Len(bytes)
  /\ \A p \in Starts(bytes, i) : p + Width(bytes[p]) - 1 <= i

\* A line is UTF-8 but for its last character, which the end of the buffer may have cut.
LEMMA LinesAreUtf8 ==
  ASSUME NEW bytes \in Lines
  PROVE  /\ bytes \in Seq(0 .. UTF8_MAX_BYTE_COUNT)
         /\ Len(bytes) \in 0 .. MaxOutput
         /\ \A p \in 1 .. Len(bytes) :
              bytes[p] \in 0 .. 4 /\ Width(bytes[p]) \in Nat \ {0}
         /\ \A p \in 1 .. Len(bytes) :
              bytes[p] = Continuation <=>
                \E q \in 1 .. Len(bytes) :
                  /\ bytes[q] # Continuation
                  /\ q < p /\ p <= q + Width(bytes[q]) - 1
         /\ \A p \in 1 .. Len(bytes) :
              bytes[p] # Continuation /\ p + Width(bytes[p]) - 1 > Len(bytes)
                => Len(bytes) = MaxOutput
<1>1. PICK n \in 0 .. MaxOutput : bytes \in [1 .. n -> Bytes]
  BY DEF Lines
<1>2. n \in Nat /\ n <= MaxOutput /\ MaxOutput \in Nat
  BY Numbers
<1>3. bytes \in [1 .. n -> 0 .. UTF8_MAX_BYTE_COUNT]
  BY <1>1, StatusAssumption
<1>4. bytes \in Seq(0 .. UTF8_MAX_BYTE_COUNT) /\ Len(bytes) = n /\ DOMAIN bytes = 1 .. n
  <2> DEFINE byte == 0 .. UTF8_MAX_BYTE_COUNT
  <2>1. bytes \in [1 .. n -> byte]
    BY <1>3
  <2> HIDE DEF byte
  <2>2. bytes \in Seq(byte) /\ Len(bytes) = n /\ DOMAIN bytes = 1 .. n
    BY <1>2, <2>1
  <2> QED
    BY <2>2 DEF byte
<1>5. \A p \in 1 .. n : bytes[p] \in 0 .. 4 /\ Width(bytes[p]) \in Nat \ {0}
  BY <1>3 DEF UTF8_MAX_BYTE_COUNT, Width
<1>6. IsUtf8(bytes)
  BY DEF Lines
<1>7. \A p \in 1 .. n :
        bytes[p] = Continuation <=>
          \E q \in 1 .. n : /\ bytes[q] # Continuation
                            /\ q < p /\ p <= q + Width(bytes[q]) - 1
  BY <1>4, <1>6 DEF IsUtf8
<1>8. \A p \in 1 .. n :
        bytes[p] # Continuation /\ p + Width(bytes[p]) - 1 > n => n = MaxOutput
  BY <1>4, <1>6 DEF IsUtf8
<1> QED
  BY <1>2, <1>4, <1>5, <1>7, <1>8

\* Behind whole characters there is another one, or the end.
LEMMA CharacterFollows ==
  ASSUME NEW bytes \in Lines, NEW i, Boundary(bytes, i), i < Len(bytes)
  PROVE  /\ ByteAt(bytes, i) = bytes[i + 1]
         /\ bytes[i + 1] # NUL
         /\ bytes[i + 1] # Continuation
         /\ Width(bytes[i + 1]) \in Nat \ {0}
         /\ i + Width(bytes[i + 1]) > Len(bytes) => Len(bytes) = MaxOutput
         /\ \A p \in i + 2 .. i + Width(bytes[i + 1]) :
              p <= Len(bytes) => bytes[p] = Continuation
<1>1. i \in Nat /\ Len(bytes) \in Nat /\ i + 1 \in 1 .. Len(bytes)
  BY LinesAreUtf8 DEF Boundary
<1>2. bytes[i + 1] \in 0 .. 4 /\ Width(bytes[i + 1]) \in Nat \ {0}
  BY <1>1, LinesAreUtf8
<1>3. bytes[i + 1] # Continuation
  <2> SUFFICES ASSUME bytes[i + 1] = Continuation PROVE FALSE
    OBVIOUS
  <2>1. PICK q \in 1 .. Len(bytes) :
          /\ bytes[q] # Continuation
          /\ q < i + 1 /\ i + 1 <= q + Width(bytes[q]) - 1
    BY <1>1, LinesAreUtf8
  <2>2. q \in Starts(bytes, i)
    BY <1>1, <2>1 DEF Starts
  <2>3. q + Width(bytes[q]) - 1 <= i
    BY <2>2 DEF Boundary
  <2>4. Width(bytes[q]) \in Nat
    BY LinesAreUtf8
  <2> QED
    BY <1>1, <2>1, <2>3, <2>4
<1>4. ByteAt(bytes, i) = bytes[i + 1] /\ bytes[i + 1] # NUL
  BY <1>2 DEF ByteAt, NUL
<1>5. i + Width(bytes[i + 1]) > Len(bytes) => Len(bytes) = MaxOutput
  <2>1. (i + 1) + Width(bytes[i + 1]) - 1 = i + Width(bytes[i + 1])
    BY <1>1, <1>2
  <2> QED
    BY <1>1, <1>3, <2>1, LinesAreUtf8
<1>6. ASSUME NEW p \in i + 2 .. i + Width(bytes[i + 1]), p <= Len(bytes)
      PROVE  bytes[p] = Continuation
  <2>1. p \in 1 .. Len(bytes) /\ i + 1 < p /\ p <= (i + 1) + Width(bytes[i + 1]) - 1
    BY <1>1, <1>2, <1>6
  <2> QED
    BY <1>1, <1>3, <2>1, LinesAreUtf8
<1> QED
  BY <1>2, <1>3, <1>4, <1>5, <1>6

\* Finitely many characters begin there.
LEMMA StartsFinite ==
  ASSUME NEW bytes, NEW i \in Nat
  PROVE  IsFiniteSet(Starts(bytes, i)) /\ Cardinality(Starts(bytes, i)) \in Nat
<1>1. IsFiniteSet(1 .. i)
  BY FS_Interval
<1>2. Starts(bytes, i) \subseteq 1 .. i
  BY DEF Starts
<1> QED
  BY <1>1, <1>2, FS_Subset, FS_CardinalityType

\* After n passes the index is behind whole characters, n of them unless the line or
\* the buffer has no place for the next.
Reached(bytes, i, n) ==
  /\ Boundary(bytes, i)
  /\ Cardinality(Starts(bytes, i)) <= n
  /\ \/ Cardinality(Starts(bytes, i)) = n
     \/ i = Len(bytes)
     \/ i + Width(bytes[i + 1]) > MaxOutput

\* A pass of the loop goes on by one whole character, or has come to an end.
LEMMA PassReaches ==
  ASSUME NEW bytes \in Lines, NEW n \in Nat, NEW i, Reached(bytes, i, n)
  PROVE  Reached(bytes, Pass(bytes, Size, i), n + 1)
<1> DEFINE w == Width(bytes[i + 1])
<1>1. /\ Boundary(bytes, i) /\ i \in Nat /\ i <= Len(bytes)
      /\ Len(bytes) \in Nat /\ Len(bytes) <= MaxOutput /\ MaxOutput \in Nat
      /\ Cardinality(Starts(bytes, i)) \in Nat /\ Cardinality(Starts(bytes, i)) <= n
  BY LinesAreUtf8, Numbers, StartsFinite DEF Reached, Boundary
<1>2. CASE i = Len(bytes)
  <2>1. Pass(bytes, Size, i) = i
    BY <1>1, <1>2 DEF Pass, ByteAt
  <2> QED
    BY <1>1, <1>2, <2>1 DEF Reached
<1>3. CASE i < Len(bytes) /\ i + w > MaxOutput
  <2>1. ByteAt(bytes, i) = bytes[i + 1] /\ w \in Nat
    BY <1>1, <1>3, CharacterFollows
  <2>2. i + w >= Size
    BY <1>1, <1>3, <2>1, Numbers
  <2>3. Pass(bytes, Size, i) = i
    BY <2>1, <2>2 DEF Pass
  <2> QED
    BY <1>1, <1>3, <2>3 DEF Reached
<1>4. CASE i < Len(bytes) /\ ~(i + w > MaxOutput)
  <2>1. /\ ByteAt(bytes, i) = bytes[i + 1] /\ bytes[i + 1] # NUL
        /\ bytes[i + 1] # Continuation
        /\ w \in Nat \ {0}
        /\ i + w > Len(bytes) => Len(bytes) = MaxOutput
        /\ \A p \in i + 2 .. i + w : p <= Len(bytes) => bytes[p] = Continuation
    BY <1>1, <1>4, CharacterFollows
  <2>2. i + w <= Len(bytes) /\ ~(i + w >= Size)
    BY <1>1, <1>4, <2>1, Numbers
  <2>3. Pass(bytes, Size, i) = i + w
    BY <2>1, <2>2 DEF Pass
  <2> HIDE DEF w
  <2>4. Starts(bytes, i + w) = Starts(bytes, i) \cup {i + 1}
    <3>1. ASSUME NEW p \in Starts(bytes, i + w)
          PROVE  p \in Starts(bytes, i) \cup {i + 1}
      <4>1. p \in 1 .. i + w /\ bytes[p] # Continuation
        BY DEF Starts
      <4>2. p \notin i + 2 .. i + w
        BY <1>1, <2>1, <2>2, <4>1
      <4>3. p \in 1 .. i \/ p = i + 1
        BY <1>1, <2>1, <4>1, <4>2
      <4> QED
        BY <4>1, <4>3 DEF Starts
    <3>2. Starts(bytes, i) \cup {i + 1} \subseteq Starts(bytes, i + w)
      BY <1>1, <2>1 DEF Starts
    <3> QED
      BY <3>1, <3>2
  <2>5. Cardinality(Starts(bytes, i + w)) = Cardinality(Starts(bytes, i)) + 1
    <3>1. i + 1 \notin Starts(bytes, i)
      BY <1>1 DEF Starts
    <3>2. IsFiniteSet(Starts(bytes, i))
      BY <1>1, StartsFinite
    <3> QED
      BY <2>4, <3>1, <3>2, FS_AddElement
  <2>6. Boundary(bytes, i + w)
    <3>1. ASSUME NEW p \in Starts(bytes, i + w)
          PROVE  p + Width(bytes[p]) - 1 <= i + w
      <4>1. CASE p \in Starts(bytes, i)
        <5>1. p + Width(bytes[p]) - 1 <= i /\ p \in 1 .. Len(bytes)
          BY <1>1, <4>1 DEF Boundary, Starts
        <5>2. Width(bytes[p]) \in Nat
          BY <5>1, LinesAreUtf8
        <5> QED
          BY <1>1, <2>1, <5>1, <5>2
      <4>2. CASE p = i + 1
        BY <1>1, <2>1, <4>2 DEF w
      <4> QED
        BY <2>4, <4>1, <4>2
    <3> QED
      BY <1>1, <2>1, <2>2, <3>1 DEF Boundary
  <2>7. Cardinality(Starts(bytes, i)) = n
    BY <1>1, <1>4, <2>1 DEF Reached, w
  <2> QED
    BY <1>1, <2>3, <2>5, <2>6, <2>7 DEF Reached
<1>5. w \in Int \/ i = Len(bytes)
  BY <1>1, CharacterFollows
<1> QED
  BY <1>1, <1>2, <1>3, <1>4, <1>5

\* The result of the truncation is behind the most whole characters that the limit
\* allows.
LEMMA TruncatedIsWhole ==
  ASSUME NEW bytes \in Lines
  PROVE  /\ truncate_utf8_string(bytes, Size, MAX_BLOCK_OUTPUT_LENGTH)
              = Max(WholeBeginnings(bytes))
         /\ truncate_utf8_string(bytes, Size, MAX_BLOCK_OUTPUT_LENGTH) \in 0 .. MaxOutput
<1> DEFINE limit == MAX_BLOCK_OUTPUT_LENGTH
           whole == WholeBeginnings(bytes)
<1>1. limit \in Nat /\ bytes \in Seq(0 .. UTF8_MAX_BYTE_COUNT)
  BY Numbers, LinesAreUtf8
<1>2. PICK index : /\ Passes(index, bytes, Size, limit)
                   /\ truncate_utf8_string(bytes, Size, limit) = index[limit]
  BY <1>1, TruncateIsPasses
<1> DEFINE good == {n \in Nat : n <= limit => Reached(bytes, index[n], n)}
<1>3. 0 \in good
  <2>1. Starts(bytes, 0) = {}
    BY DEF Starts
  <2>2. Boundary(bytes, 0)
    BY <2>1, LinesAreUtf8 DEF Boundary
  <2>3. Cardinality(Starts(bytes, 0)) = 0
    BY <2>1, FS_EmptySet
  <2> QED
    BY <1>2, <2>2, <2>3 DEF Reached, Passes
<1>4. ASSUME NEW n \in Nat, n \in good
      PROVE  n + 1 \in good
  <2> SUFFICES ASSUME n + 1 <= limit PROVE Reached(bytes, index[n + 1], n + 1)
    OBVIOUS
  <2>1. Reached(bytes, index[n], n)
    BY <1>1, <1>4
  <2>2. index[n + 1] = Pass(bytes, Size, index[n])
    <3>1. n + 1 \in 1 .. limit /\ (n + 1) - 1 = n
      BY <1>1
    <3> QED
      BY <1>2, <3>1, Zenon DEF Passes
  <2> QED
    BY <2>1, <2>2, PassReaches
<1>5. limit \in good
  <2> HIDE DEF good, limit
  <2> QED
    BY <1>1, <1>3, <1>4, SetInduction
<1> DEFINE i == index[limit]
<1>6. /\ Boundary(bytes, i) /\ i \in Nat /\ i <= Len(bytes) /\ Len(bytes) \in Nat
      /\ Len(bytes) <= MaxOutput /\ MaxOutput \in Nat
      /\ Cardinality(Starts(bytes, i)) <= limit
      /\ \/ Cardinality(Starts(bytes, i)) = limit
         \/ i = Len(bytes)
         \/ i + Width(bytes[i + 1]) > MaxOutput
  <2>1. Reached(bytes, i, limit)
    BY <1>1, <1>5
  <2>2. Boundary(bytes, i)
    BY <2>1 DEF Reached
  <2>3. i \in Nat /\ i <= Len(bytes) /\ Len(bytes) \in Nat /\ Len(bytes) <= MaxOutput
        /\ MaxOutput \in Nat
    BY <2>2, LinesAreUtf8, Numbers DEF Boundary
  <2> HIDE DEF i, limit
  <2> QED
    BY <2>1, <2>2, <2>3 DEF Reached
<1> HIDE DEF i
<1>7. whole = {n \in 0 .. Len(bytes) : Cardinality(Starts(bytes, n)) <= limit /\ Boundary(bytes, n)}
  BY DEF WholeBeginnings, Starts, Boundary
<1> HIDE DEF whole
<1>8. i \in whole
  BY <1>6, <1>7
<1>9. ASSUME NEW m \in whole
      PROVE  m <= i
  <2> SUFFICES ASSUME i < m PROVE FALSE
    BY <1>6, <1>7
  <2>1. /\ m \in Nat /\ m <= Len(bytes) /\ Boundary(bytes, m)
        /\ Cardinality(Starts(bytes, m)) <= limit
    BY <1>6, <1>7
  <2>2. bytes[i + 1] # Continuation /\ Width(bytes[i + 1]) \in Nat \ {0} /\ i < Len(bytes)
    <3>1. i < Len(bytes)
      BY <1>6, <2>1
    <3> QED
      BY <1>6, <3>1, CharacterFollows
  <2>3. i + 1 \in Starts(bytes, m)
    BY <1>6, <2>1, <2>2 DEF Starts
  <2>4. CASE i + Width(bytes[i + 1]) > MaxOutput
    <3>1. (i + 1) + Width(bytes[i + 1]) - 1 <= m
      BY <2>1, <2>3 DEF Boundary
    <3> QED
      BY <1>6, <2>1, <2>2, <2>4, <3>1
  <2>5. CASE Cardinality(Starts(bytes, i)) = limit
    <3>1. Starts(bytes, i) \cup {i + 1} \subseteq Starts(bytes, m)
      BY <1>6, <2>1, <2>3 DEF Starts
    <3>2. IsFiniteSet(Starts(bytes, i)) /\ IsFiniteSet(Starts(bytes, m))
      BY <1>6, <2>1, StartsFinite
    <3>3. i + 1 \notin Starts(bytes, i)
      BY <1>6 DEF Starts
    <3>4. Cardinality(Starts(bytes, i) \cup {i + 1}) = limit + 1
      BY <2>5, <3>2, <3>3, FS_AddElement
    <3>5. Cardinality(Starts(bytes, i) \cup {i + 1}) <= Cardinality(Starts(bytes, m))
      BY <3>1, <3>2, FS_Subset
    <3>6. Cardinality(Starts(bytes, m)) \in Nat
      BY <2>1, StartsFinite
    <3> HIDE DEF limit
    <3> QED
      BY <1>1, <2>1, <3>4, <3>5, <3>6
  <2> QED
    BY <1>6, <2>2, <2>4, <2>5
<1>10. whole \in SUBSET Nat
  BY <1>6, <1>7
<1>11. Max(whole) = i
  <2>1. Max(whole) \in whole /\ \A m \in whole : m <= Max(whole)
    BY <1>6, <1>8, <1>9, <1>10, GreatestOfBounded
  <2>2. Max(whole) <= i /\ i <= Max(whole)
    BY <1>8, <1>9, <2>1
  <2>3. Max(whole) \in Nat
    BY <1>10, <2>1
  <2> QED
    BY <1>6, <2>2, <2>3
<1> QED
  BY <1>2, <1>6, <1>11 DEF i, whole

-------------------------------------------------------------------------------
(* The invariant.                                                          *)

Tokens ==
  [kind : {"icon", "output", "delimiter", "marker"},
   block : BlockIds \cup {0},
   length : Nat]

\* A token that belongs to a block with a signal comes after the marker of that
\* block, and no other marker is between the two.
Marked(text, k) ==
  text[k].kind # "marker" /\ text[k].block # 0 /\ Signal[text[k].block] > 0 =>
    \E m \in 1 .. k - 1 :
      /\ text[m].kind = "marker"
      /\ text[m].block = text[k].block
      /\ \A j \in m + 1 .. k : text[j].kind # "marker"

WellMarked(text) ==
  /\ text \in Seq(Tokens)
  /\ layout.clickable = 1 => \A k \in 1 .. Len(text) : Marked(text, k)

\* The outputs have lengths, the index of the loop is one, and the texts that are
\* being put together, compared and shown are well marked.
StatusInv ==
  /\ layout \in Layouts
  /\ output \in [BlockIds -> 0 .. MaxOutput]
  /\ next \in 0 .. BlockCount + 1
  /\ WellMarked(current)
  /\ WellMarked(previous)
  /\ WellMarked(shown)

-------------------------------------------------------------------------------
(* Texts.                                                                  *)

LEMMA EmptyIsMarked == WellMarked(<<>>)
BY DEF WellMarked

LEMMA DelimiterIsMarked == WellMarked(<<Delimiter>>)
<1>1. Delimiter \in Tokens /\ Delimiter.block = 0
  BY StatusAssumption DEF Delimiter, Tokens
<1> QED
  BY <1>1 DEF WellMarked, Marked

\* What is put behind a text takes none of its markers away.
LEMMA JoinIsMarked ==
  ASSUME NEW before, NEW after, WellMarked(before), WellMarked(after)
  PROVE  WellMarked(before \o after)
<1> DEFINE text == before \o after
<1>1. before \in Seq(Tokens) /\ after \in Seq(Tokens)
  BY DEF WellMarked
<1>2. /\ text \in Seq(Tokens)
      /\ Len(before) \in Nat /\ Len(after) \in Nat
      /\ Len(text) = Len(before) + Len(after)
      /\ \A k \in 1 .. Len(before) : text[k] = before[k]
      /\ \A k \in 1 .. Len(after) : text[Len(before) + k] = after[k]
  BY <1>1
<1> HIDE DEF text
<1>3. ASSUME layout.clickable = 1, NEW k \in 1 .. Len(before)
      PROVE  Marked(text, k)
  <2>1. Marked(before, k)
    BY <1>3 DEF WellMarked
  <2>2. \A j \in 1 .. k : text[j] = before[j]
    BY <1>2
  <2>3. ASSUME text[k].kind # "marker", text[k].block # 0, Signal[text[k].block] > 0
        PROVE  \E m \in 1 .. k - 1 :
                 /\ text[m].kind = "marker"
                 /\ text[m].block = text[k].block
                 /\ \A j \in m + 1 .. k : text[j].kind # "marker"
    <3>1. PICK m \in 1 .. k - 1 :
            /\ before[m].kind = "marker"
            /\ before[m].block = before[k].block
            /\ \A j \in m + 1 .. k : before[j].kind # "marker"
      BY <2>1, <2>2, <2>3 DEF Marked
    <3>2. /\ text[m] = before[m]
          /\ \A j \in m + 1 .. k : text[j] = before[j]
      BY <2>2
    <3> QED
      BY <2>2, <3>1, <3>2
  <2> QED
    BY <2>3 DEF Marked
<1>4. ASSUME layout.clickable = 1, NEW i \in 1 .. Len(after)
      PROVE  Marked(text, Len(before) + i)
  <2> DEFINE k == Len(before) + i
  <2>1. Marked(after, i) /\ text[k] = after[i] /\ k \in Nat
    BY <1>2, <1>4 DEF WellMarked
  <2>2. ASSUME text[k].kind # "marker", text[k].block # 0, Signal[text[k].block] > 0
        PROVE  \E m \in 1 .. k - 1 :
                 /\ text[m].kind = "marker"
                 /\ text[m].block = text[k].block
                 /\ \A j \in m + 1 .. k : text[j].kind # "marker"
    <3>1. PICK m \in 1 .. i - 1 :
            /\ after[m].kind = "marker"
            /\ after[m].block = after[i].block
            /\ \A j \in m + 1 .. i : after[j].kind # "marker"
      BY <2>1, <2>2 DEF Marked
    <3>2. Len(before) + m \in 1 .. k - 1 /\ text[Len(before) + m] = after[m]
      BY <1>2
    <3>3. ASSUME NEW j \in Len(before) + m + 1 .. k
          PROVE  text[j].kind # "marker"
      <4>1. j - Len(before) \in m + 1 .. i /\ j = Len(before) + (j - Len(before))
        BY <1>2
      <4>2. text[j] = after[j - Len(before)]
        BY <1>2, <4>1
      <4> QED
        BY <3>1, <4>1, <4>2
    <3> QED
      BY <2>1, <3>1, <3>2, <3>3
  <2> QED
    BY <2>2 DEF Marked
<1>5. ASSUME layout.clickable = 1, NEW k \in 1 .. Len(text)
      PROVE  Marked(text, k)
  <2>1. CASE k \in 1 .. Len(before)
    BY <1>3, <1>5, <2>1
  <2>2. CASE k \notin 1 .. Len(before)
    <3>1. k - Len(before) \in 1 .. Len(after) /\ k = Len(before) + (k - Len(before))
      BY <1>2, <2>2
    <3> QED
      BY <1>4, <1>5, <3>1
  <2> QED
    BY <2>1, <2>2
<1>6. WellMarked(text)
  BY <1>2, <1>5 DEF WellMarked
<1> QED
  BY <1>6 DEF text

LEMMA WhenIsMarked ==
  ASSUME NEW condition \in BOOLEAN, NEW text, WellMarked(text)
  PROVE  WellMarked(When(condition, text))
BY EmptyIsMarked DEF When

\* What a block puts into the bar begins with its marker.
LEMMA SegmentIsMarked ==
  ASSUME NEW b \in BlockIds, output \in [BlockIds -> 0 .. MaxOutput]
  PROVE  WellMarked(Segment(b))
<1> DEFINE marker == When(layout.clickable = 1 /\ Signal[b] > 0, <<Marker(b)>>)
           icon == When(IconLength[b] > 0, <<Text(b, "icon", IconLength[b])>>)
           out == <<Text(b, "output", output[b])>>
<1>1. /\ Marker(b) \in Tokens /\ Marker(b).kind = "marker" /\ Marker(b).block = b
      /\ Text(b, "icon", IconLength[b]) \in Tokens
      /\ Text(b, "icon", IconLength[b]).kind = "icon"
      /\ Text(b, "icon", IconLength[b]).block = b
      /\ Text(b, "output", output[b]) \in Tokens
      /\ Text(b, "output", output[b]).kind = "output"
      /\ Text(b, "output", output[b]).block = b
  BY StatusAssumption, Numbers DEF Marker, Text, Tokens
<1>2. Segment(b) = (marker \o icon) \o out
  BY DEF Segment
<1>3. icon \in Seq(Tokens) /\ out \in Seq(Tokens) /\ marker \in Seq(Tokens)
  BY <1>1 DEF When
<1>4. /\ \A k \in 1 .. Len(icon) : icon[k].kind # "marker" /\ icon[k].block = b
      /\ \A k \in 1 .. Len(out) : out[k].kind # "marker" /\ out[k].block = b
  BY <1>1 DEF When
<1>5. \A k \in 1 .. Len(marker) : marker[k].kind = "marker" /\ marker[k].block = b
  BY <1>1 DEF When
<1>6. layout.clickable = 1 /\ Signal[b] > 0 => Len(marker) = 1
  BY DEF When
<1>7. Len(marker) <= 1
  BY DEF When
<1> DEFINE text == (marker \o icon) \o out
           n == Len(marker)
<1> HIDE DEF marker, icon, out
<1>8. /\ text \in Seq(Tokens) /\ n \in Nat /\ Len(text) \in Nat
      /\ \A k \in 1 .. n : text[k] = marker[k]
      /\ \A k \in n + 1 .. Len(text) : text[k].kind # "marker" /\ text[k].block = b
  <2>1. marker \o icon \in Seq(Tokens)
    BY <1>3
  <2>2. /\ Len(marker \o icon) = n + Len(icon) /\ Len(text) = n + Len(icon) + Len(out)
        /\ n \in Nat /\ Len(icon) \in Nat /\ Len(out) \in Nat
    BY <1>3, <2>1
  <2>3. \A k \in 1 .. n : text[k] = marker[k]
    BY <1>3, <2>1, <2>2
  <2>4. \A k \in n + 1 .. n + Len(icon) : text[k] = icon[k - n]
    BY <1>3, <2>1, <2>2
  <2>5. \A k \in n + Len(icon) + 1 .. Len(text) : text[k] = out[k - (n + Len(icon))]
    BY <1>3, <2>1, <2>2
  <2>6. ASSUME NEW k \in n + 1 .. Len(text)
        PROVE  text[k].kind # "marker" /\ text[k].block = b
    <3>1. CASE k <= n + Len(icon)
      <4>1. k - n \in 1 .. Len(icon) /\ text[k] = icon[k - n]
        BY <2>2, <2>4, <3>1
      <4> QED
        BY <1>4, <4>1
    <3>2. CASE k > n + Len(icon)
      <4>1. k - (n + Len(icon)) \in 1 .. Len(out) /\ text[k] = out[k - (n + Len(icon))]
        BY <2>2, <2>5, <3>2
      <4> QED
        BY <1>4, <4>1
    <3> QED
      BY <2>2, <3>1, <3>2
  <2> QED
    BY <1>3, <2>1, <2>2, <2>3, <2>6
<1> HIDE DEF text
<1>9. ASSUME layout.clickable = 1, NEW k \in 1 .. Len(text)
      PROVE  Marked(text, k)
  <2>1. CASE k <= n
    BY <1>5, <1>8, <2>1 DEF Marked
  <2>2. CASE k > n /\ ~(Signal[b] > 0)
    BY <1>8, <2>2 DEF Marked
  <2>3. CASE k > n /\ Signal[b] > 0
    <3>1. n = 1
      BY <1>6, <1>9, <2>3
    <3>2. text[1].kind = "marker" /\ text[1].block = b
      BY <1>5, <1>8, <3>1
    <3>3. text[k].block = b /\ \A j \in 2 .. k : text[j].kind # "marker"
      BY <1>8, <2>3, <3>1
    <3> QED
      BY <2>3, <3>1, <3>2, <3>3 DEF Marked
  <2> QED
    BY <1>8, <2>1, <2>2, <2>3
<1>10. WellMarked(text)
  BY <1>8, <1>9 DEF WellMarked
<1> QED
  BY <1>2, <1>10 DEF text

-------------------------------------------------------------------------------
(* The rounds of the bar.                                                  *)

LEMMA MarkedStays ==
  ASSUME NEW text, WellMarked(text), UNCHANGED layout
  PROVE  /\ text \in Seq(Tokens)
         /\ layout'.clickable = 1 => \A k \in 1 .. Len(text) : Marked(text, k)
BY DEF WellMarked

LEMMA StatusStart ==
  ASSUME Init
  PROVE  StatusInv
<1>1. BlockCount \in Nat
  BY StatusAssumption
<1>2. output \in [BlockIds -> 0 .. MaxOutput]
  BY Numbers DEF Init
<1> QED
  BY <1>1, <1>2, EmptyIsMarked DEF Init, StatusInv

LEMMA UpdatedKeepsInv ==
  ASSUME StatusInv, NEW b \in BlockIds, BlockUpdated(b)
  PROVE  StatusInv'
<1>1. output' \in [BlockIds -> 0 .. MaxOutput]
  <2>1. truncate_utf8_string(line', Size, MAX_BLOCK_OUTPUT_LENGTH) \in 0 .. MaxOutput
    BY TruncatedIsWhole DEF BlockUpdated
  <2> QED
    BY <2>1 DEF BlockUpdated, StatusInv
<1> QED
  BY <1>1, MarkedStays DEF BlockUpdated, StatusInv, WellMarked, Marked

LEMMA BeginsKeepsInv ==
  ASSUME StatusInv, UpdateBegins
  PROVE  StatusInv'
<1>1. BlockCount \in Nat
  BY StatusAssumption
<1>2. WellMarked(current) /\ WellMarked(<<>>) /\ WellMarked(shown)
  BY EmptyIsMarked DEF StatusInv
<1> QED
  BY <1>1, <1>2 DEF UpdateBegins, StatusInv, WellMarked, Marked

LEMMA BlockKeepsInv ==
  ASSUME StatusInv, AppendBlock \/ SkipBlock
  PROVE  StatusInv'
<1>1. next \in BlockIds /\ next' \in 0 .. BlockCount + 1 /\ UNCHANGED <<layout, output, previous, shown>>
  BY StatusAssumption DEF AppendBlock, SkipBlock, BlockIds
<1>2. WellMarked(current')
  <2>1. CASE AppendBlock
    <3> DEFINE delimiter == When(layout.leading = 1 \/ current # <<>>, <<Delimiter>>)
    <3>1. WellMarked(delimiter)
      BY DelimiterIsMarked, WhenIsMarked
    <3>2. WellMarked(Segment(next))
      BY <1>1, SegmentIsMarked DEF StatusInv
    <3>3. WellMarked((current \o delimiter) \o Segment(next))
      BY <3>1, <3>2, JoinIsMarked DEF StatusInv
    <3> QED
      BY <2>1, <3>3 DEF AppendBlock
  <2>2. CASE SkipBlock
    BY <2>2 DEF SkipBlock, StatusInv
  <2> QED
    BY <2>1, <2>2
<1> QED
  BY <1>1, <1>2 DEF StatusInv, WellMarked, Marked

LEMMA EndsKeepsInv ==
  ASSUME StatusInv, UpdateEnds
  PROVE  StatusInv'
<1>1. WellMarked(current')
  <2> DEFINE delimiter == When(layout.trailing = 1 /\ current # <<>>, <<Delimiter>>)
  <2>1. WellMarked(delimiter)
    BY DelimiterIsMarked, WhenIsMarked
  <2>2. WellMarked(current \o delimiter)
    BY <2>1, JoinIsMarked DEF StatusInv
  <2> QED
    BY <2>2 DEF UpdateEnds
<1>2. WellMarked(shown') /\ WellMarked(previous')
  BY <1>1, EmptyIsMarked DEF UpdateEnds, StatusInv
<1>3. next' \in 0 .. BlockCount + 1 /\ UNCHANGED <<layout, output>>
  BY StatusAssumption DEF UpdateEnds
<1> QED
  BY <1>1, <1>2, <1>3 DEF StatusInv, WellMarked, Marked

\* A click on a token of a block with a signal: the last marker before it is its own.
LEMMA OwnMarkerIsLast ==
  ASSUME StatusInv, layout.clickable = 1, NEW b \in BlockIds, Signal[b] > 0,
         NEW k \in OfBlock(shown, b)
  PROVE  Clicked(shown, k) = Signal[b]
<1>1. /\ k \in 1 .. Len(shown) /\ Marked(shown, k)
      /\ shown[k].kind # "marker" /\ shown[k].block = b /\ b # 0
  BY DEF OfBlock, StatusInv, WellMarked, BlockIds
<1>2. PICK m \in 1 .. k - 1 :
        /\ shown[m].kind = "marker"
        /\ shown[m].block = b
        /\ \A j \in m + 1 .. k : shown[j].kind # "marker"
  BY <1>1 DEF Marked
<1> DEFINE markers == {j \in 1 .. k : shown[j].kind = "marker"}
<1>3. m \in markers /\ \A j \in markers : m >= j
  BY <1>1, <1>2
<1>4. Max(markers) = m
  <2>1. \A x \in markers : (\A y \in markers : x >= y) => x = m
    BY <1>3
  <2> HIDE DEF markers
  <2> QED
    BY <1>3, <2>1 DEF Max
<1>5. markers # {}
  BY <1>3
<1> QED
  BY <1>2, <1>4, <1>5 DEF Clicked

-------------------------------------------------------------------------------
(* The theorems.                                                           *)

\* Whatever the bar shows, puts together or has shown last, each icon and output of
\* a block with a signal comes right after the marker of that block.
THEOREM StatusInvariant == Spec => []StatusInv
<1>1. Init => StatusInv
  BY StatusStart
<1>2. StatusInv /\ [Next]_vars => StatusInv'
  <2> SUFFICES ASSUME StatusInv, [Next]_vars
               PROVE  StatusInv'
    OBVIOUS
  <2>1. CASE \E b \in BlockIds : BlockUpdated(b)
    BY <2>1, UpdatedKeepsInv
  <2>2. CASE UpdateBegins
    BY <2>2, BeginsKeepsInv
  <2>3. CASE AppendBlock \/ SkipBlock
    BY <2>3, BlockKeepsInv
  <2>4. CASE UpdateEnds
    BY <2>4, EndsKeepsInv
  <2>5. CASE UNCHANGED vars
    BY <2>5 DEF vars, StatusInv, WellMarked, Marked
  <2> QED
    BY <2>1, <2>2, <2>3, <2>4, <2>5 DEF Next
<1> QED
  BY <1>1, <1>2, PTL DEF Spec

\* A click on the icon or the output of a block raises the signal of that block,
\* whichever blocks have an output, a signal or an icon beside it, and however often
\* they have changed since.
THEOREM ClicksReachTheirBlock == Spec => []ClickReachesBlock
<1>1. StatusInv => ClickReachesBlock
  BY OwnMarkerIsLast DEF ClickReachesBlock
<1> QED
  BY <1>1, StatusInvariant, PTL

\* What the bar shows of a block is what the limit allows of its last line: every
\* character whole, and as many as possible, for all lines and limits.
THEOREM OutputsAreWhole == Spec => []OutputIsWhole
<1>1. Init => OutputIsWhole
  BY DEF Init, OutputIsWhole
<1>2. ASSUME StatusInv, OutputIsWhole, [Next]_vars
      PROVE  OutputIsWhole'
  <2>1. ASSUME NEW b \in BlockIds, BlockUpdated(b)
        PROVE  OutputIsWhole'
    <3>1. /\ line' \in Lines /\ last' = b
          /\ output' = [output EXCEPT ![b] =
                          truncate_utf8_string(line', Size, MAX_BLOCK_OUTPUT_LENGTH)]
      BY <2>1 DEF BlockUpdated
    <3>2. output'[b] = truncate_utf8_string(line', Size, MAX_BLOCK_OUTPUT_LENGTH)
      BY <1>2, <3>1 DEF StatusInv
    <3>3. output'[b] = Max(WholeBeginnings(line'))
      BY <3>1, <3>2, TruncatedIsWhole
    <3> QED
      BY <3>1, <3>3 DEF OutputIsWhole
  <2>2. CASE UpdateBegins
    BY <2>2 DEF UpdateBegins, OutputIsWhole
  <2>3. CASE UNCHANGED <<line, output, last>>
    BY <1>2, <2>3 DEF OutputIsWhole
  <2> QED
    BY <1>2, <2>1, <2>2, <2>3 DEF Next, AppendBlock, SkipBlock, UpdateEnds, vars
<1> QED
  BY <1>1, <1>2, StatusInvariant, PTL DEF Spec

-------------------------------------------------------------------------------
(* The length of the text.                                                 *)

Share(token, kinds) == IF token.kind \in kinds THEN token.length ELSE 0

\* The sums over the beginnings of a text.
Sums(sum, text, kinds) ==
  /\ sum \in [0 .. Len(text) -> Nat]
  /\ sum[0] = 0
  /\ \A n \in 1 .. Len(text) : sum[n] = sum[n - 1] + Share(text[n], kinds)

\* A token adds a number of bytes.
LEMMA ShareIsNumber ==
  ASSUME NEW text \in Seq(Tokens), NEW kinds, NEW n \in 1 .. Len(text)
  PROVE  Share(text[n], kinds) \in Nat
<1>1. text[n] \in Tokens
  OBVIOUS
<1> QED
  BY <1>1 DEF Tokens, Share

\* The length is the sum that adds one token after the other.
LEMMA LengthIsSum ==
  ASSUME NEW text \in Seq(Tokens), NEW kinds
  PROVE  \E sum : Sums(sum, text, kinds) /\ LengthOf(text, kinds) = sum[Len(text)]
<1> DEFINE N == Len(text)
           Rec(f) == f = [n \in 0 .. N |->
                            IF n = 0 THEN 0
                            ELSE f[n - 1]
                                   + (IF text[n].kind \in kinds THEN text[n].length ELSE 0)]
           sum == CHOOSE f : Rec(f)
<1>1. LengthOf(text, kinds) = sum[N]
  BY DEF LengthOf
<1>2. N \in Nat /\ \A n \in 1 .. N : Share(text[n], kinds) \in Nat
  BY ShareIsNumber
<1>3. \E f : Rec(f)
  <2> DEFINE g == [n \in 1 .. N |-> [t \in Nat |-> t + Share(text[n], kinds)]]
  <2>1. g \in [1 .. N -> [Nat -> Nat]]
    <3>1. ASSUME NEW n \in 1 .. N
          PROVE  [t \in Nat |-> t + Share(text[n], kinds)] \in [Nat -> Nat]
      BY <1>2
    <3> QED
      BY <3>1
  <2>2. PICK f \in [0 .. N -> Nat] : Iterated(f, N, 0, g)
    <3> HIDE DEF g, N
    <3> QED
      BY <1>2, <2>1, IterationExists
  <2>3. ASSUME NEW n \in 0 .. N
        PROVE  f[n] = IF n = 0 THEN 0 ELSE f[n - 1] + Share(text[n], kinds)
    <3>1. f[n] = IF n = 0 THEN 0 ELSE g[n][f[n - 1]]
      <4> HIDE DEF g
      <4> QED
        BY <2>2 DEF Iterated
    <3>2. CASE n = 0
      BY <3>1, <3>2
    <3>3. CASE n # 0
      <4>1. n \in 1 .. N /\ f[n - 1] \in Nat
        <5> HIDE DEF N, g, Rec
        <5>1. n \in 1 .. N /\ n - 1 \in 0 .. N
          BY <1>2, <3>3
        <5> QED
          BY <5>1
      <4>2. g[n][f[n - 1]] = f[n - 1] + Share(text[n], kinds)
        BY <4>1
      <4> QED
        BY <3>1, <3>3, <4>2
    <3> QED
      BY <3>2, <3>3
  <2>4. f = [n \in 0 .. N |-> f[n]]
    OBVIOUS
  <2>5. Rec(f)
    BY <2>3, <2>4 DEF Share
  <2> QED
    BY <2>5
<1>4. Rec(sum)
  <2> HIDE DEF Rec
  <2> QED
    BY <1>3
<1> HIDE DEF sum
<1>5. ASSUME NEW n \in 0 .. N
      PROVE  sum[n] = IF n = 0 THEN 0 ELSE sum[n - 1] + Share(text[n], kinds)
  BY <1>4 DEF Share
<1> DEFINE good == {n \in Nat : n <= N => sum[n] \in Nat}
<1>6. 0 \in good
  <2>1. 0 \in 0 .. N
    BY <1>2
  <2> QED
    BY <1>5, <2>1
<1>7. ASSUME NEW n \in Nat, n \in good
      PROVE  n + 1 \in good
  <2> SUFFICES ASSUME n + 1 <= N PROVE sum[n + 1] \in Nat
    OBVIOUS
  <2>1. n + 1 \in 0 .. N /\ n + 1 # 0 /\ (n + 1) - 1 = n /\ sum[n] \in Nat /\ n + 1 \in 1 .. N
    BY <1>2, <1>7
  <2> HIDE DEF N
  <2>2. sum[n + 1] = sum[n] + Share(text[n + 1], kinds)
    BY <1>5, <2>1, Zenon
  <2> QED
    BY <1>2, <2>1, <2>2
<1>8. Nat \subseteq good
  <2> HIDE DEF good
  <2> QED
    BY <1>6, <1>7, SetInduction
<1>9. Sums(sum, text, kinds)
  <2>1. sum = [n \in 0 .. N |-> sum[n]]
    BY <1>4
  <2>2. \A n \in 0 .. N : sum[n] \in Nat
    BY <1>2, <1>8
  <2>3. sum \in [0 .. N -> Nat]
    BY <2>1, <2>2
  <2>4. sum[0] = 0
    <3>1. 0 \in 0 .. N
      BY <1>2
    <3> QED
      BY <1>5, <3>1
  <2>5. \A n \in 1 .. N : sum[n] = sum[n - 1] + Share(text[n], kinds)
    BY <1>2, <1>5
  <2> QED
    BY <2>3, <2>4, <2>5 DEF Sums
<1> QED
  BY <1>1, <1>9 DEF sum

\* A text has a number of bytes.
LEMMA LengthIsNumber ==
  ASSUME NEW text \in Seq(Tokens), NEW kinds
  PROVE  LengthOf(text, kinds) \in Nat
<1>1. PICK sum : Sums(sum, text, kinds) /\ LengthOf(text, kinds) = sum[Len(text)]
  BY LengthIsSum
<1> QED
  BY <1>1 DEF Sums

\* An empty text has none.
LEMMA LengthOfNone ==
  ASSUME NEW kinds
  PROVE  LengthOf(<<>>, kinds) = 0
<1>1. <<>> \in Seq(Tokens) /\ Len(<<>>) = 0
  OBVIOUS
<1>2. PICK sum : Sums(sum, <<>>, kinds) /\ LengthOf(<<>>, kinds) = sum[Len(<<>>)]
  BY <1>1, LengthIsSum
<1> QED
  BY <1>1, <1>2 DEF Sums

\* One token is as long as it is.
LEMMA LengthOfOne ==
  ASSUME NEW token \in Tokens, NEW kinds
  PROVE  LengthOf(<<token>>, kinds) = Share(token, kinds)
<1> DEFINE text == <<token>>
<1>1. text \in Seq(Tokens) /\ Len(text) = 1 /\ text[1] = token
  OBVIOUS
<1> HIDE DEF text
<1>2. PICK sum : Sums(sum, text, kinds) /\ LengthOf(text, kinds) = sum[Len(text)]
  BY <1>1, LengthIsSum
<1>3. sum[1] = sum[0] + Share(text[1], kinds) /\ sum[0] = 0
  BY <1>1, <1>2 DEF Sums
<1>4. Share(token, kinds) \in Nat
  BY DEF Tokens, Share
<1>5. LengthOf(text, kinds) = Share(token, kinds)
  BY <1>1, <1>2, <1>3, <1>4
<1> QED
  BY <1>5 DEF text

\* The length of two texts put together is the sum of their lengths.
LEMMA LengthOfJoin ==
  ASSUME NEW before \in Seq(Tokens), NEW after \in Seq(Tokens), NEW kinds
  PROVE  LengthOf(before \o after, kinds) = LengthOf(before, kinds) + LengthOf(after, kinds)
<1> DEFINE text == before \o after
           m == Len(before)
           n == Len(after)
<1>1. /\ text \in Seq(Tokens)
      /\ m \in Nat /\ n \in Nat /\ Len(text) = m + n
      /\ \A k \in 1 .. m : text[k] = before[k]
      /\ \A k \in 1 .. n : text[m + k] = after[k]
  OBVIOUS
<1> HIDE DEF text, m, n
<1>2. PICK sum : Sums(sum, text, kinds) /\ LengthOf(text, kinds) = sum[Len(text)]
  BY <1>1, LengthIsSum
<1>3. PICK sumB : Sums(sumB, before, kinds) /\ LengthOf(before, kinds) = sumB[m]
  BY LengthIsSum DEF m
<1>4. PICK sumA : Sums(sumA, after, kinds) /\ LengthOf(after, kinds) = sumA[n]
  BY LengthIsSum DEF n
<1>5. /\ sum \in [0 .. m + n -> Nat] /\ sum[0] = 0
      /\ \A k \in 1 .. m + n : sum[k] = sum[k - 1] + Share(text[k], kinds)
  BY <1>1, <1>2 DEF Sums
<1>6. /\ sumB \in [0 .. m -> Nat] /\ sumB[0] = 0
      /\ \A k \in 1 .. m : sumB[k] = sumB[k - 1] + Share(before[k], kinds)
  BY <1>3 DEF Sums, m
<1>7. /\ sumA \in [0 .. n -> Nat] /\ sumA[0] = 0
      /\ \A k \in 1 .. n : sumA[k] = sumA[k - 1] + Share(after[k], kinds)
  BY <1>4 DEF Sums, n
<1> DEFINE goodB == {k \in Nat : k <= m => sum[k] = sumB[k]}
           goodA == {k \in Nat : k <= n => sum[m + k] = sumB[m] + sumA[k]}
<1>8. m \in goodB
  <2>1. 0 \in goodB
    BY <1>5, <1>6
  <2>2. ASSUME NEW k \in Nat, k \in goodB
        PROVE  k + 1 \in goodB
    <3> SUFFICES ASSUME k + 1 <= m PROVE sum[k + 1] = sumB[k + 1]
      OBVIOUS
    <3>1. k + 1 \in 1 .. m /\ k + 1 \in 1 .. m + n /\ (k + 1) - 1 = k /\ sum[k] = sumB[k]
      BY <1>1, <2>2
    <3>2. sum[k + 1] = sum[k] + Share(text[k + 1], kinds)
      BY <1>5, <3>1, Zenon
    <3>3. sumB[k + 1] = sumB[k] + Share(before[k + 1], kinds)
      BY <1>6, <3>1, Zenon
    <3>4. text[k + 1] = before[k + 1]
      BY <1>1, <3>1
    <3> QED
      BY <3>1, <3>2, <3>3, <3>4
  <2> HIDE DEF goodB
  <2> QED
    BY <1>1, <2>1, <2>2, SetInduction
<1>9. sum[m] = sumB[m] /\ sumB[m] \in Nat
  BY <1>1, <1>6, <1>8
<1>10. n \in goodA
  <2>1. 0 \in goodA
    BY <1>1, <1>7, <1>9
  <2>2. ASSUME NEW k \in Nat, k \in goodA
        PROVE  k + 1 \in goodA
    <3> SUFFICES ASSUME k + 1 <= n PROVE sum[m + (k + 1)] = sumB[m] + sumA[k + 1]
      OBVIOUS
    <3>1. /\ k + 1 \in 1 .. n /\ (k + 1) - 1 = k /\ k \in 0 .. n
          /\ m + (k + 1) \in 1 .. m + n /\ (m + (k + 1)) - 1 = m + k
          /\ sum[m + k] = sumB[m] + sumA[k]
      BY <1>1, <2>2
    <3>2. sum[m + (k + 1)] = sum[m + k] + Share(text[m + (k + 1)], kinds)
      BY <1>5, <3>1, Zenon
    <3>3. sumA[k + 1] = sumA[k] + Share(after[k + 1], kinds)
      BY <1>7, <3>1, Zenon
    <3>4. text[m + (k + 1)] = after[k + 1]
      BY <1>1, <3>1
    <3>5. Share(after[k + 1], kinds) \in Nat /\ sumA[k] \in Nat
      BY <1>7, <3>1, ShareIsNumber DEF n
    <3> QED
      BY <1>9, <3>1, <3>2, <3>3, <3>4, <3>5
  <2> HIDE DEF goodA
  <2> QED
    BY <1>1, <2>1, <2>2, SetInduction
<1>11. sum[m + n] = sumB[m] + sumA[n]
  BY <1>1, <1>10
<1> QED
  BY <1>1, <1>2, <1>3, <1>4, <1>11 DEF text

\* The space for n outputs and d delimiters.
Room(n, d) == n * MaxOutput + d * DelimiterLength

\* More outputs and delimiters take more room.
LEMMA MoreRoom ==
  ASSUME NEW n \in Nat, NEW d \in Nat, NEW m \in n .. n + BlockCount, NEW e \in Nat, d <= e
  PROVE  Room(n, d) <= Room(m, e) /\ Room(n, d) \in Nat
<1> DEFINE x == MaxOutput
           y == DelimiterLength
<1>1. x \in Nat /\ y \in Nat /\ m \in Nat /\ n <= m
  BY Numbers
<1> HIDE DEF x, y
<1>2. (m - n) * x \in Nat /\ (e - d) * y \in Nat /\ n * x \in Nat /\ d * y \in Nat
  BY <1>1, Z3
<1>3. m * x = n * x + (m - n) * x /\ e * y = d * y + (e - d) * y
  BY <1>1, Z3
<1>4. n * x + d * y <= m * x + e * y
  BY <1>2, <1>3
<1> QED
  BY <1>2, <1>4 DEF Room, x, y

\* The room of one more output, or of one more delimiter.
LEMMA RoomForNext ==
  ASSUME NEW n \in Nat, NEW d \in Nat
  PROVE  /\ Room(n + 1, d) = Room(n, d) + MaxOutput
         /\ Room(n, d + 1) = Room(n, d) + DelimiterLength
<1> DEFINE x == MaxOutput
           y == DelimiterLength
<1>1. x \in Nat /\ y \in Nat
  BY Numbers
<1> HIDE DEF x, y
<1>2. (n + 1) * x = n * x + x /\ (d + 1) * y = d * y + y
  BY <1>1, Z3
<1>3. n * x \in Nat /\ d * y \in Nat
  BY <1>1, Z3
<1>4. /\ (n + 1) * x + d * y = (n * x + d * y) + x
      /\ n * x + (d + 1) * y = (n * x + d * y) + y
  BY <1>1, <1>2, <1>3
<1> QED
  BY <1>4 DEF Room, x, y

\* The kinds that have a place of their own.
Placed == {"output", "delimiter"}

\* A conditional delimiter takes its length or nothing.
LEMMA DelimiterTakes ==
  ASSUME NEW condition \in BOOLEAN
  PROVE  /\ When(condition, <<Delimiter>>) \in Seq(Tokens)
         /\ LengthOf(When(condition, <<Delimiter>>), Placed)
              = IF condition THEN DelimiterLength ELSE 0
<1>1. Delimiter \in Tokens
  BY StatusAssumption DEF Delimiter, Tokens
<1>2. Share(Delimiter, Placed) = DelimiterLength
  BY DEF Share, Delimiter, Placed
<1> QED
  BY <1>1, <1>2, LengthOfOne, LengthOfNone DEF When

\* Of the segment of a block only the output counts, besides the marker.
LEMMA SegmentTakes ==
  ASSUME NEW b \in BlockIds, output \in [BlockIds -> 0 .. MaxOutput]
  PROVE  /\ Segment(b) \in Seq(Tokens)
         /\ Segment(b) # <<>>
         /\ LengthOf(Segment(b), Placed) <= MaxOutput
<1> DEFINE marker == When(layout.clickable = 1 /\ Signal[b] > 0, <<Marker(b)>>)
           icon == When(IconLength[b] > 0, <<Text(b, "icon", IconLength[b])>>)
           out == <<Text(b, "output", output[b])>>
<1>1. /\ Marker(b) \in Tokens
      /\ Text(b, "icon", IconLength[b]) \in Tokens
      /\ Text(b, "output", output[b]) \in Tokens
  BY StatusAssumption, Numbers DEF Marker, Text, Tokens
<1>2. /\ Share(Marker(b), Placed) = 0
      /\ Share(Text(b, "icon", IconLength[b]), Placed) = 0
      /\ Share(Text(b, "output", output[b]), Placed) = output[b]
  BY DEF Share, Marker, Text, Placed
<1>3. marker \in Seq(Tokens) /\ LengthOf(marker, Placed) = 0
  BY <1>1, <1>2, LengthOfOne, LengthOfNone DEF When
<1>4. icon \in Seq(Tokens) /\ LengthOf(icon, Placed) = 0
  BY <1>1, <1>2, LengthOfOne, LengthOfNone DEF When
<1>5. out \in Seq(Tokens) /\ LengthOf(out, Placed) = output[b] /\ Len(out) = 1
  BY <1>1, <1>2, LengthOfOne
<1>6. Segment(b) = (marker \o icon) \o out
  BY DEF Segment
<1> HIDE DEF marker, icon, out
<1>7. marker \o icon \in Seq(Tokens) /\ LengthOf(marker \o icon, Placed) = 0
  BY <1>3, <1>4, LengthOfJoin
<1> DEFINE front == marker \o icon
<1> HIDE DEF front
<1>8. front \o out \in Seq(Tokens) /\ LengthOf(front \o out, Placed) = output[b]
  <2>1. front \in Seq(Tokens) /\ LengthOf(front, Placed) = 0
    BY <1>7 DEF front
  <2> QED
    BY <1>5, <2>1, LengthOfJoin
<1>9. Len(front \o out) = Len(front) + 1 /\ Len(front) \in Nat
  <2>1. front \in Seq(Tokens) /\ out \in Seq(Tokens)
    BY <1>5, <1>7 DEF front
  <2>2. Len(front \o out) = Len(front) + Len(out) /\ Len(front) \in Nat
    BY <2>1
  <2> QED
    BY <1>5, <2>2
<1>10. front \o out # <<>>
  BY <1>9
<1>11. output[b] <= MaxOutput
  BY Numbers
<1> QED
  BY <1>6, <1>8, <1>10, <1>11 DEF front

\* While the text is put together it has no more than the outputs of the blocks up to
\* the last one, with a delimiter before each but the first, and one at each end that is
\* to have one.
RoundFits ==
  next > 0 /\ current # <<>> =>
    /\ next >= 2
    /\ LengthOf(current, Placed) <= Room(next - 1, next - 2 + layout.leading)

RestFits ==
  next = 0 /\ current # <<>> =>
    LengthOf(current, Placed)
      <= Room(BlockCount, BlockCount - 1 + layout.leading + layout.trailing)

\* The settings are 0 or 1.
LEMMA LayoutIsBits ==
  ASSUME StatusInv
  PROVE  layout.leading \in {0, 1} /\ layout.trailing \in {0, 1} /\ layout.clickable \in {0, 1}
BY StatusAssumption DEF StatusInv

\* A block that is appended keeps within the room of the blocks so far.
LEMMA AppendFits ==
  ASSUME StatusInv, RoundFits, AppendBlock
  PROVE  RoundFits'
<1> DEFINE l == layout.leading
           delimiter == When(l = 1 \/ current # <<>>, <<Delimiter>>)
           dot == DelimiterLength
<1>1. /\ next \in Nat \ {0} /\ next <= BlockCount /\ next \in BlockIds
      /\ next' = next + 1 /\ layout' = layout
      /\ l \in {0, 1} /\ BlockCount \in Nat /\ MaxOutput \in Nat /\ dot \in Nat
  BY LayoutIsBits, Numbers DEF AppendBlock, BlockIds
<1>2. current \in Seq(Tokens)
  BY DEF StatusInv, WellMarked
<1>3. delimiter \in Seq(Tokens)
      /\ LengthOf(delimiter, Placed) = IF l = 1 \/ current # <<>> THEN dot ELSE 0
  BY DelimiterTakes
<1>4. Segment(next) \in Seq(Tokens) /\ LengthOf(Segment(next), Placed) <= MaxOutput
      /\ LengthOf(Segment(next), Placed) \in Nat
  BY <1>1, SegmentTakes, LengthIsNumber DEF StatusInv
<1>5. current' = (current \o delimiter) \o Segment(next)
  BY DEF AppendBlock
<1>6. LengthOf(current', Placed)
        = LengthOf(current, Placed) + LengthOf(delimiter, Placed) + LengthOf(Segment(next), Placed)
  <2> HIDE DEF delimiter
  <2>1. current \o delimiter \in Seq(Tokens)
        /\ LengthOf(current \o delimiter, Placed)
             = LengthOf(current, Placed) + LengthOf(delimiter, Placed)
    BY <1>2, <1>3, LengthOfJoin
  <2> QED
    BY <1>4, <1>5, <2>1, LengthOfJoin
<1> HIDE DEF delimiter, l, dot
<1>7. LengthOf(current', Placed) <= Room(next, next - 1 + l)
  <2>1. CASE current = <<>>
    <3>1. LengthOf(current', Placed) <= (IF l = 1 THEN dot ELSE 0) + MaxOutput
      <4>1. LengthOf(current, Placed) = 0
        BY <2>1, LengthOfNone
      <4> QED
        BY <1>1, <1>3, <1>4, <1>6, <2>1, <4>1
    <3>2. Room(1, l) = MaxOutput + (IF l = 1 THEN dot ELSE 0)
      BY <1>1 DEF Room, dot
    <3>3. Room(1, l) <= Room(next, next - 1 + l)
      <4>1. 1 \in Nat /\ l \in Nat /\ next \in 1 .. 1 + BlockCount
            /\ next - 1 + l \in Nat /\ l <= next - 1 + l
        BY <1>1
      <4> QED
        BY <4>1, MoreRoom
    <3>4. Room(next, next - 1 + l) \in Int
      <4>1. next \in Nat /\ next - 1 + l \in Nat /\ next \in next .. next + BlockCount
        BY <1>1
      <4> QED
        BY <4>1, MoreRoom
    <3> DEFINE length == LengthOf(current', Placed)
               one == Room(1, l)
               room == Room(next, next - 1 + l)
    <3>5. length \in Nat
      <4>1. current \o delimiter \in Seq(Tokens)
        BY <1>2, <1>3
      <4>2. current' \in Seq(Tokens)
        BY <1>4, <1>5, <4>1
      <4> QED
        BY <4>2, LengthIsNumber
    <3>6. length <= one
      BY <1>1, <3>1, <3>2
    <3>7. one \in Nat
      BY <1>1, <3>2
    <3> HIDE DEF length, one, room
    <3>8. length <= room
      BY <3>3, <3>4, <3>5, <3>6, <3>7 DEF one, room
    <3> QED
      BY <3>8 DEF length, room
  <2>2. CASE current # <<>>
    <3>1. next >= 2 /\ LengthOf(current, Placed) <= Room(next - 1, next - 2 + l)
      BY <1>1, <2>2 DEF RoundFits, l
    <3>2. /\ next - 1 \in Nat /\ next - 2 + l \in Nat
          /\ (next - 1) + 1 = next /\ (next - 2 + l) + 1 = next - 1 + l
          /\ next - 1 \in next - 1 .. next - 1 + BlockCount
          /\ next - 1 + l \in Nat
      BY <1>1, <3>1
    <3>3. /\ Room(next, next - 1 + l) = Room(next - 1, next - 1 + l) + MaxOutput
          /\ Room(next - 1, next - 1 + l) = Room(next - 1, next - 2 + l) + dot
      BY <3>2, RoomForNext DEF dot
    <3>4. Room(next - 1, next - 2 + l) \in Nat
      BY <3>2, MoreRoom
    <3>5. LengthOf(current, Placed) \in Nat
      BY <1>2, LengthIsNumber
    <3> QED
      BY <1>1, <1>3, <1>4, <1>6, <2>2, <3>1, <3>3, <3>4, <3>5
  <2> QED
    BY <2>1, <2>2
<1> QED
  <2>1. next' - 1 = next /\ next' - 2 + l = next - 1 + l /\ next' >= 2
    BY <1>1
  <2>2. layout'.leading = l
    BY <1>1 DEF l
  <2> QED
    BY <1>7, <2>1, <2>2 DEF RoundFits

\* A block without output takes none.
LEMMA SkipFits ==
  ASSUME StatusInv, RoundFits, SkipBlock
  PROVE  RoundFits'
<1> DEFINE l == layout.leading
<1>1. /\ next \in Nat \ {0} /\ next' = next + 1 /\ layout' = layout /\ current' = current
      /\ l \in {0, 1} /\ BlockCount \in Nat
  BY LayoutIsBits, Numbers DEF SkipBlock, BlockIds
<1>2. SUFFICES ASSUME current # <<>>
               PROVE  next' >= 2 /\ LengthOf(current, Placed) <= Room(next' - 1, next' - 2 + l)
  BY <1>1 DEF RoundFits
<1>3. next >= 2 /\ LengthOf(current, Placed) <= Room(next - 1, next - 2 + l)
  BY <1>1, <1>2 DEF RoundFits
<1> HIDE DEF l
<1>4. /\ next - 1 \in Nat /\ next - 2 + l \in Nat
      /\ next' - 1 = next /\ next' - 2 + l = next - 1 + l
      /\ next \in next - 1 .. next - 1 + BlockCount
      /\ next - 1 + l \in Nat /\ next - 2 + l <= next - 1 + l
  BY <1>1, <1>3, Numbers
<1>5. /\ Room(next - 1, next - 2 + l) <= Room(next, next - 1 + l)
      /\ Room(next - 1, next - 2 + l) \in Nat
  BY <1>4, MoreRoom
<1>6. Room(next, next - 1 + l) \in Nat
  <2>1. next \in Nat /\ next \in next .. next + BlockCount
    BY <1>1
  <2> QED
    BY <1>4, <2>1, MoreRoom
<1>7. LengthOf(current, Placed) \in Nat
  BY LengthIsNumber DEF StatusInv, WellMarked
<1> QED
  BY <1>1, <1>3, <1>4, <1>5, <1>6, <1>7

\* The delimiter at the end has its place.
LEMMA EndsFits ==
  ASSUME StatusInv, RoundFits, UpdateEnds
  PROVE  RestFits'
<1> DEFINE l == layout.leading
           t == layout.trailing
           delimiter == When(t = 1 /\ current # <<>>, <<Delimiter>>)
           dot == DelimiterLength
<1>1. /\ next = BlockCount + 1 /\ BlockCount \in Nat \ {0} /\ layout' = layout
      /\ l \in {0, 1} /\ t \in {0, 1} /\ dot \in Nat
      /\ current' = current \o delimiter
  BY LayoutIsBits, Numbers DEF UpdateEnds
<1>2. current \in Seq(Tokens)
  BY DEF StatusInv, WellMarked
<1>3. delimiter \in Seq(Tokens)
      /\ LengthOf(delimiter, Placed) = IF t = 1 /\ current # <<>> THEN dot ELSE 0
  BY DelimiterTakes
<1>4. current = <<>> => current' = <<>>
  BY <1>1 DEF When
<1> HIDE DEF delimiter, l, t, dot
<1>5. LengthOf(current', Placed) = LengthOf(current, Placed) + LengthOf(delimiter, Placed)
  BY <1>1, <1>2, <1>3, LengthOfJoin
<1>6. ASSUME current # <<>>
      PROVE  LengthOf(current', Placed) <= Room(BlockCount, BlockCount - 1 + l + t)
  <2>1. next - 1 = BlockCount /\ next - 2 + l = BlockCount - 1 + l /\ next > 0
    BY <1>1
  <2>2. LengthOf(current, Placed) <= Room(BlockCount, BlockCount - 1 + l)
    BY <1>6, <2>1 DEF RoundFits, l
  <2>3. /\ BlockCount \in Nat /\ BlockCount - 1 + l \in Nat
        /\ BlockCount \in BlockCount .. BlockCount + BlockCount
    BY <1>1
  <2>4. /\ Room(BlockCount, (BlockCount - 1 + l) + 1) = Room(BlockCount, BlockCount - 1 + l) + dot
        /\ Room(BlockCount, BlockCount - 1 + l) \in Nat
    <3> DEFINE d == BlockCount - 1 + l
    <3>1. d \in Nat
      BY <2>3
    <3> HIDE DEF d
    <3>2. Room(BlockCount, d + 1) = Room(BlockCount, d) + dot
      BY <2>3, <3>1, RoomForNext DEF dot
    <3>3. d <= d
      BY <3>1
    <3>4. Room(BlockCount, d) \in Nat
      BY <2>3, <3>1, <3>3, MoreRoom
    <3> QED
      BY <3>2, <3>4 DEF d
  <2>5. LengthOf(current, Placed) \in Nat
    BY <1>2, LengthIsNumber
  <2>6. CASE t = 1
    <3>1. BlockCount - 1 + l + t = (BlockCount - 1 + l) + 1
      BY <2>6
    <3>2. LengthOf(delimiter, Placed) = dot
      BY <1>3, <1>6, <2>6
    <3> QED
      BY <1>1, <1>5, <2>2, <2>4, <2>5, <3>1, <3>2
  <2>7. CASE t = 0
    <3>1. BlockCount - 1 + l + t = BlockCount - 1 + l
      BY <1>1, <2>3, <2>7
    <3>2. LengthOf(delimiter, Placed) = 0
      BY <1>3, <2>7
    <3> QED
      BY <1>5, <2>2, <2>5, <3>1, <3>2
  <2> QED
    BY <1>1, <2>6, <2>7
<1> QED
  BY <1>1, <1>4, <1>6 DEF RestFits, l, t

\* What fits into the room of the outputs and delimiters fits into the buffer: one marker
\* at most is counted, and only if blocks are clickable.
LEMMA RoomIsBuffer ==
  ASSUME StatusInv, RoundFits, RestFits
  PROVE  FitsBuffer
<1> DEFINE l == layout.leading
           t == layout.trailing
           c == layout.clickable
           d == BlockCount - 1 + l + t
           length == LengthOf(current, Placed)
           markers == LengthOf(current, {"marker"})
<1>1. /\ l \in {0, 1} /\ t \in {0, 1} /\ c \in {0, 1} /\ BlockCount \in Nat \ {0}
      /\ d \in Nat /\ next \in 0 .. BlockCount + 1
  BY LayoutIsBits, Numbers DEF StatusInv
<1>2. length \in Nat /\ markers \in Nat
  BY LengthIsNumber DEF StatusInv, WellMarked
<1>3. StatusLength = Room(BlockCount, d) + c + 1
  <2>1. BlockCount * MaxOutput \in Nat /\ d * DelimiterLength \in Nat
    BY <1>1, Numbers, Z3
  <2> QED
    BY <1>1, <2>1 DEF StatusLength, Room
<1>4. Min({c, markers}) <= c /\ Min({c, markers}) \in Nat
  <2> DEFINE S == {c, markers}
  <2>1. \E x \in S : \A y \in S : x <= y
    BY <1>1, <1>2
  <2>2. Min(S) \in S /\ \A y \in S : Min(S) <= y
    <3> HIDE DEF S
    <3> QED
      BY <2>1 DEF Min
  <2>3. S \subseteq Nat /\ c \in S
    BY <1>1, <1>2
  <2> HIDE DEF S, c
  <2> QED
    BY <2>2, <2>3 DEF S
<1> HIDE DEF l, t, c, length, markers
<1>5. Room(BlockCount, d) \in Nat
  <2>1. BlockCount \in Nat /\ BlockCount \in BlockCount .. BlockCount + BlockCount
    BY <1>1
  <2> QED
    BY <1>1, <2>1, MoreRoom
<1>6. length <= Room(BlockCount, d)
  <2>1. CASE current = <<>>
    BY <1>5, <2>1, LengthOfNone DEF length
  <2>2. CASE current # <<>> /\ next = 0
    BY <2>2 DEF RestFits, length, l, t
  <2>3. CASE current # <<>> /\ next > 0
    <3>1. next >= 2 /\ length <= Room(next - 1, next - 2 + l)
      BY <2>3 DEF RoundFits, length, l
    <3>2. /\ next - 1 \in Nat /\ next - 2 + l \in Nat
          /\ BlockCount \in next - 1 .. next - 1 + BlockCount
          /\ next - 2 + l <= d
      BY <1>1, <3>1
    <3>3. /\ Room(next - 1, next - 2 + l) <= Room(BlockCount, d)
          /\ Room(next - 1, next - 2 + l) \in Nat
      <4> HIDE DEF d
      <4> QED
        BY <1>1, <3>2, MoreRoom
    <3> HIDE DEF d
    <3> QED
      BY <1>2, <1>5, <3>1, <3>3
  <2> QED
    BY <1>1, <2>1, <2>2, <2>3
<1>7. Counted(current) = length + Min({c, markers})
  BY DEF Counted, Placed, length, markers, c
<1> HIDE DEF d
<1>8. Counted(current) + 1 <= StatusLength
  BY <1>1, <1>2, <1>3, <1>4, <1>5, <1>6, <1>7
<1> QED
  BY <1>8 DEF FitsBuffer

\* The text always fits into the buffer, for every number of blocks, every limit of the
\* output and every delimiter, apart from icons and markers.
THEOREM TextFits == Spec => []FitsBuffer
<1>1. Init => RoundFits /\ RestFits
  BY DEF Init, RoundFits, RestFits
<1>2. ASSUME StatusInv, RoundFits, RestFits, [Next]_vars
      PROVE  RoundFits' /\ RestFits'
  <2>1. CASE UNCHANGED <<layout, current, next>>
    BY <1>2, <2>1 DEF RoundFits, RestFits
  <2>2. CASE UpdateBegins
    BY <2>2 DEF UpdateBegins, RoundFits, RestFits
  <2>3. CASE AppendBlock
    <3>1. next' # 0
      BY <2>3, Numbers DEF AppendBlock, BlockIds
    <3> QED
      BY <1>2, <2>3, <3>1, AppendFits DEF RestFits
  <2>4. CASE SkipBlock
    <3>1. next' # 0
      BY <2>4, Numbers DEF SkipBlock, BlockIds
    <3> QED
      BY <1>2, <2>4, <3>1, SkipFits DEF RestFits
  <2>5. CASE UpdateEnds
    <3>1. next' = 0
      BY <2>5 DEF UpdateEnds
    <3> QED
      BY <1>2, <2>5, <3>1, EndsFits DEF RoundFits
  <2> QED
    BY <1>2, <2>1, <2>2, <2>3, <2>4, <2>5 DEF Next, BlockUpdated, vars
<1>3. StatusInv /\ RoundFits /\ RestFits => FitsBuffer
  BY RoomIsBuffer
<1> QED
  BY <1>1, <1>2, <1>3, StatusInvariant, PTL DEF Spec

-------------------------------------------------------------------------------
(* The joined outputs.                                                     *)

\* The texts that parts put together one by one become, after each of them.
Accumulates(h, n, parts, S) ==
  /\ h \in [0 .. n -> Seq(S)]
  /\ h[0] = <<>>
  /\ \A k \in 1 .. n : h[k] = h[k - 1] \o parts[k]

\* The parts can be put together one after the other.
LEMMA AccumulationExists ==
  ASSUME NEW n \in Nat, NEW S, NEW parts \in [1 .. n -> Seq(S)]
  PROVE  \E h : Accumulates(h, n, parts, S)
<1> DEFINE T == Seq(S)
           g == [k \in 1 .. n |-> [t \in T |-> t \o parts[k]]]
<1>1. g \in [1 .. n -> [T -> T]]
  <2>1. ASSUME NEW k \in 1 .. n
        PROVE  [t \in T |-> t \o parts[k]] \in [T -> T]
    <3>1. parts[k] \in Seq(S)
      OBVIOUS
    <3>2. \A t \in T : t \o parts[k] \in T
      BY <3>1
    <3> QED
      BY <3>2
  <2> HIDE DEF T
  <2> QED
    BY <2>1
<1>2. <<>> \in T
  OBVIOUS
<1>3. PICK h \in [0 .. n -> T] : Iterated(h, n, <<>>, g)
  <2> HIDE DEF g, T
  <2> QED
    BY <1>1, <1>2, IterationExists
<1>4. h[0] = <<>>
  <2>1. 0 \in 0 .. n
    OBVIOUS
  <2> HIDE DEF g
  <2> QED
    BY <1>3, <2>1 DEF Iterated
<1>5. ASSUME NEW k \in 1 .. n
      PROVE  h[k] = h[k - 1] \o parts[k]
  <2>1. k \in 0 .. n /\ k # 0 /\ k - 1 \in 0 .. n
    OBVIOUS
  <2>2. h[k] = g[k][h[k - 1]]
    <3> HIDE DEF g
    <3> QED
      BY <1>3, <2>1 DEF Iterated
  <2>3. h[k - 1] \in T
    BY <1>3, <2>1
  <2> HIDE DEF T
  <2> QED
    BY <2>2, <2>3
<1> QED
  BY <1>3, <1>4, <1>5 DEF Accumulates

\* What FlattenSeq gives is the last of these texts.
LEMMA FlattenIsLast ==
  ASSUME NEW n \in Nat \ {0}, NEW S, NEW parts \in [1 .. n -> Seq(S)],
         NEW h, Accumulates(h, n, parts, S)
  PROVE  FlattenSeq(parts) = h[n]
<1> DEFINE Rec(f) == f = [i \in 1 .. n |-> IF i = 1 THEN parts[i] ELSE f[i - 1] \o parts[i]]
           flatten == CHOOSE f : Rec(f)
<1>1. parts \in Seq(Seq(S)) /\ Len(parts) = n
  <2> DEFINE T == Seq(S)
  <2>1. parts \in [1 .. n -> T]
    OBVIOUS
  <2> HIDE DEF T
  <2>2. parts \in Seq(T) /\ Len(parts) = n
    BY <2>1
  <2> QED
    BY <2>2 DEF T
<1>2. FlattenSeq(parts) = flatten[n]
  <2>1. ~(Len(parts) = 0)
    BY <1>1
  <2>2. FlattenSeq(parts) = flatten[Len(parts)]
    BY <1>1, <2>1 DEF FlattenSeq
  <2> QED
    BY <1>1, <2>2
<1>3. /\ h \in [0 .. n -> Seq(S)] /\ h[0] = <<>>
      /\ \A k \in 1 .. n : h[k] = h[k - 1] \o parts[k]
  BY DEF Accumulates
<1>4. h[1] = parts[1]
  <2>1. 1 \in 1 .. n /\ 1 - 1 = 0 /\ parts[1] \in Seq(S)
    OBVIOUS
  <2>2. h[1] = <<>> \o parts[1]
    BY <1>3, <2>1
  <2> QED
    BY <2>1, <2>2
<1>5. \E f : Rec(f)
  <2> DEFINE f == [i \in 1 .. n |-> h[i]]
  <2>1. ASSUME NEW i \in 1 .. n
        PROVE  h[i] = IF i = 1 THEN parts[i] ELSE f[i - 1] \o parts[i]
    <3>1. CASE i = 1
      BY <1>4, <3>1
    <3>2. CASE i # 1
      <4>1. i - 1 \in 1 .. n
        BY <3>2
      <4>2. f[i - 1] = h[i - 1]
        BY <4>1
      <4> QED
        BY <1>3, <3>2, <4>2
    <3> QED
      BY <3>1, <3>2
  <2>2. Rec(f)
    BY <2>1
  <2> QED
    BY <2>2
<1>6. Rec(flatten)
  <2> HIDE DEF Rec
  <2> QED
    BY <1>5
<1> HIDE DEF flatten
<1>7. \A i \in 1 .. n : flatten[i] = IF i = 1 THEN parts[i] ELSE flatten[i - 1] \o parts[i]
  BY <1>6
<1> DEFINE good == {i \in Nat : i \in 1 .. n => flatten[i] = h[i]}
<1>8. 0 \in good
  OBVIOUS
<1>9. ASSUME NEW i \in Nat, i \in good
      PROVE  i + 1 \in good
  <2> SUFFICES ASSUME i + 1 \in 1 .. n PROVE flatten[i + 1] = h[i + 1]
    OBVIOUS
  <2>1. CASE i = 0
    <3>1. flatten[1] = parts[1]
      BY <1>7, <2>1
    <3> QED
      BY <1>4, <2>1, <3>1
  <2>2. CASE i # 0
    <3>1. i \in 1 .. n /\ (i + 1) - 1 = i /\ i + 1 # 1
      BY <2>2
    <3>2. flatten[i + 1] = flatten[i] \o parts[i + 1]
      BY <1>7, <3>1, Zenon
    <3>3. h[i + 1] = h[i] \o parts[i + 1]
      BY <1>3, <3>1, Zenon
    <3> QED
      BY <1>9, <3>1, <3>2, <3>3
  <2> QED
    BY <2>1, <2>2
<1>10. n \in good
  <2> HIDE DEF good
  <2> QED
    BY <1>8, <1>9, SetInduction
<1>11. flatten[n] = h[n]
  BY <1>10
<1> QED
  BY <1>2, <1>11

\* It does not matter in which order texts are put together.
LEMMA JoinAssociates ==
  ASSUME NEW S, NEW r \in Seq(S), NEW s \in Seq(S), NEW t \in Seq(S)
  PROVE  (r \o s) \o t = r \o (s \o t)
<1> DEFINE a == Len(r)
           b == Len(s)
           c == Len(t)
<1>1. a \in Nat /\ b \in Nat /\ c \in Nat
  OBVIOUS
<1>2. /\ r \o s \in Seq(S) /\ Len(r \o s) = a + b
      /\ s \o t \in Seq(S) /\ Len(s \o t) = b + c
  OBVIOUS
<1>3. /\ (r \o s) \o t \in Seq(S) /\ Len((r \o s) \o t) = a + b + c
      /\ r \o (s \o t) \in Seq(S) /\ Len(r \o (s \o t)) = a + b + c
  BY <1>1, <1>2
<1>4. ASSUME NEW k \in 1 .. a + b + c
      PROVE  ((r \o s) \o t)[k] = (r \o (s \o t))[k]
  <2>1. CASE k <= a
    BY <1>1, <1>2, <2>1
  <2>2. CASE k > a /\ k <= a + b
    BY <1>1, <1>2, <2>2
  <2>3. CASE k > a + b
    BY <1>1, <1>2, <2>3
  <2> QED
    BY <1>1, <2>1, <2>2, <2>3
<1> QED
  BY <1>3, <1>4

\* What a block adds to the text, and the delimiter in front of all.
Part(b) ==
  When(b \in Visible, When(\E c \in Visible : c < b, <<Delimiter>>) \o Segment(b))

Parts == [b \in BlockIds |-> Part(b)]

Lead == When(layout.leading = 1, <<Delimiter>>)

VisibleBefore(n) == {b \in Visible : b < n}

\* The text of the blocks before the loop's index.
JoinedSoFar ==
  \E h : /\ Accumulates(h, BlockCount, Parts, Tokens)
         /\ current = When(VisibleBefore(next) # {}, Lead \o h[next - 1])
         /\ current = <<>> <=> VisibleBefore(next) = {}
         /\ VisibleBefore(next) = {} => h[next - 1] = <<>>

\* The root window has the text of the last round, which is what a round compares with,
\* and the text of a round is that of the blocks that it has looked at.
JoinInv ==
  /\ next = 0 => shown = current /\ (last = 0 => current = Joined)
  /\ next > 0 => previous = shown /\ last = 0 /\ JoinedSoFar

\* Each block contributes a text.
LEMMA PartsAreTexts ==
  ASSUME StatusInv
  PROVE  /\ Parts \in [1 .. BlockCount -> Seq(Tokens)]
         /\ Lead \in Seq(Tokens) /\ <<Delimiter>> \in Seq(Tokens)
         /\ \A b \in BlockIds : Segment(b) \in Seq(Tokens) /\ Segment(b) # <<>>
<1>1. Lead \in Seq(Tokens) /\ \A condition \in BOOLEAN : When(condition, <<Delimiter>>) \in Seq(Tokens)
  BY DelimiterTakes DEF Lead
<1>2. \A b \in BlockIds : Segment(b) \in Seq(Tokens) /\ Segment(b) # <<>>
  BY SegmentTakes DEF StatusInv
<1>3. ASSUME NEW b \in BlockIds
      PROVE  Part(b) \in Seq(Tokens)
  <2> DEFINE delimiter == When(\E c \in Visible : c < b, <<Delimiter>>)
  <2>1. delimiter \in Seq(Tokens)
    BY <1>1
  <2>2. Segment(b) \in Seq(Tokens)
    BY <1>2
  <2> HIDE DEF delimiter
  <2>3. delimiter \o Segment(b) \in Seq(Tokens)
    BY <2>1, <2>2
  <2>4. When(b \in Visible, delimiter \o Segment(b)) \in Seq(Tokens)
    BY <2>3 DEF When
  <2> QED
    BY <2>4 DEF Part, delimiter
<1>4. Parts \in [1 .. BlockCount -> Seq(Tokens)]
  BY <1>3 DEF Parts, BlockIds
<1>5. <<Delimiter>> \in Seq(Tokens)
  BY <1>1 DEF When
<1> QED
  BY <1>1, <1>2, <1>4, <1>5

\* It is the same throughout a round.
LEMMA PartsStay ==
  ASSUME UNCHANGED <<layout, output>>
  PROVE  /\ Parts' = Parts /\ Lead' = Lead /\ Joined' = Joined
         /\ \A n : VisibleBefore(n)' = VisibleBefore(n)
<1>1. Visible' = Visible
  BY DEF Visible
<1>2. ASSUME NEW b \in BlockIds PROVE Segment(b)' = Segment(b)
  BY DEF Segment
<1>3. ASSUME NEW b \in BlockIds PROVE Part(b)' = Part(b)
  BY <1>1, <1>2 DEF Part
<1>4. Parts' = Parts
  BY <1>3 DEF Parts
<1>5. Lead' = Lead /\ \A n : VisibleBefore(n)' = VisibleBefore(n)
  BY <1>1 DEF Lead, VisibleBefore
<1>6. Joined = When(Visible # {},
                    Lead \o FlattenSeq(Parts) \o When(layout.trailing = 1, <<Delimiter>>))
  BY DEF Joined, Parts, Part, Lead
<1>7. Joined' = When(Visible' # {},
                     Lead' \o FlattenSeq(Parts') \o When(layout'.trailing = 1, <<Delimiter>>))
  BY DEF Joined, Parts, Part, Lead
<1>8. Joined' = Joined
  BY <1>1, <1>4, <1>5, <1>6, <1>7
<1> QED
  BY <1>4, <1>5, <1>8

\* A round starts with an empty text and no block.
LEMMA RoundStartsJoined ==
  ASSUME StatusInv, JoinInv, UpdateBegins
  PROVE  JoinInv'
<1>1. PICK h : Accumulates(h, BlockCount, Parts, Tokens)
  BY PartsAreTexts, AccumulationExists, Numbers
<1>2. /\ next = 0 /\ next' = 1 /\ current' = <<>> /\ previous' = current /\ shown' = shown
      /\ last' = 0 /\ layout' = layout /\ output' = output
  BY DEF UpdateBegins
<1>3. VisibleBefore(next') = {}
  BY <1>2 DEF VisibleBefore, Visible, BlockIds
<1>4. h[0] = <<>> /\ next' - 1 = 0
  BY <1>1, <1>2 DEF Accumulates
<1>5. /\ Parts' = Parts /\ Lead' = Lead /\ VisibleBefore(next)' = VisibleBefore(next')
  BY <1>2, PartsStay DEF VisibleBefore, Visible
<1>6. /\ Accumulates(h, BlockCount, Parts', Tokens)
      /\ current' = When(VisibleBefore(next)' # {}, Lead' \o h[next' - 1])
      /\ current' = <<>> <=> VisibleBefore(next)' = {}
      /\ VisibleBefore(next)' = {} => h[next' - 1] = <<>>
  BY <1>1, <1>2, <1>3, <1>4, <1>5 DEF When
<1>7. JoinedSoFar'
  BY <1>6 DEF JoinedSoFar, Accumulates
<1> QED
  BY <1>2, <1>7 DEF JoinInv

\* A block with an output adds its part.
LEMMA AppendJoins ==
  ASSUME StatusInv, JoinInv, AppendBlock
  PROVE  JoinInv'
<1> DEFINE seen == VisibleBefore(next)
           segment == Segment(next)
           delimiter == When(layout.leading = 1 \/ current # <<>>, <<Delimiter>>)
           D == <<Delimiter>>
<1>1. /\ next \in BlockIds /\ next \in Nat \ {0} /\ next \in 1 .. BlockCount
      /\ next' = next + 1 /\ layout' = layout /\ output' = output
      /\ previous' = previous /\ shown' = shown /\ last' = last
      /\ current' = (current \o delimiter) \o segment
      /\ next \in Visible /\ BlockCount \in Nat
  BY Numbers DEF AppendBlock, Visible, BlockIds
<1>2. PICK h : /\ Accumulates(h, BlockCount, Parts, Tokens)
               /\ current = When(seen # {}, Lead \o h[next - 1])
               /\ current = <<>> <=> seen = {}
               /\ seen = {} => h[next - 1] = <<>>
  BY <1>1 DEF JoinInv, JoinedSoFar
<1>3. /\ h[next - 1] \in Seq(Tokens) /\ h[next] = h[next - 1] \o Part(next)
      /\ h[next] \in Seq(Tokens)
  <2>1. Parts[next] = Part(next) /\ next - 1 \in 0 .. BlockCount /\ next \in 0 .. BlockCount
    BY <1>1 DEF Parts
  <2> QED
    BY <1>1, <1>2, <2>1 DEF Accumulates
<1>4. Lead \in Seq(Tokens) /\ D \in Seq(Tokens) /\ segment \in Seq(Tokens) /\ segment # <<>>
  BY <1>1, PartsAreTexts
<1>5. Part(next) = When(seen # {}, D) \o segment
  <2>1. (\E c \in Visible : c < next) <=> seen # {}
    BY DEF VisibleBefore
  <2> QED
    BY <1>1, <2>1 DEF Part, When
<1>6. current' = Lead \o h[next]
  <2>1. CASE seen = {}
    <3>1. Part(next) = <<>> \o segment /\ current = <<>> /\ h[next - 1] = <<>>
          /\ delimiter = Lead
      BY <1>2, <1>5, <2>1 DEF When, Lead
    <3> HIDE DEF segment, delimiter
    <3>2. h[next] = segment
      BY <1>3, <1>4, <3>1
    <3>3. current' = Lead \o segment
      BY <1>1, <1>4, <3>1
    <3> QED
      BY <3>2, <3>3
  <2>2. CASE seen # {}
    <3>1. /\ Part(next) = D \o segment /\ current = Lead \o h[next - 1] /\ current # <<>>
          /\ delimiter = D
      BY <1>2, <1>5, <2>2 DEF When
    <3> DEFINE before == h[next - 1]
    <3> HIDE DEF segment, delimiter, D, before
    <3>2. before \in Seq(Tokens) /\ D \o segment \in Seq(Tokens)
          /\ Lead \o before \in Seq(Tokens)
      BY <1>3, <1>4 DEF before
    <3>3. current' = ((Lead \o before) \o D) \o segment
      BY <1>1, <3>1 DEF before
    <3> DEFINE front == Lead \o before
               part == D \o segment
    <3>4. (front \o D) \o segment = front \o (D \o segment)
      <4> HIDE DEF front
      <4>1. front \in Seq(Tokens)
        BY <3>2 DEF front
      <4> QED
        BY <1>4, <4>1, JoinAssociates
    <3>5. front \o part = Lead \o (before \o part)
      <4> HIDE DEF part
      <4>1. Lead \in Seq(Tokens) /\ before \in Seq(Tokens) /\ part \in Seq(Tokens)
        BY <1>4, <3>2 DEF part
      <4> QED
        BY <4>1, JoinAssociates
    <3>6. h[next] = before \o (D \o segment)
      BY <1>3, <3>1 DEF before
    <3> QED
      BY <3>3, <3>4, <3>5, <3>6
  <2> QED
    BY <2>1, <2>2
<1>7. current' # <<>>
  <2>1. current \in Seq(Tokens) /\ delimiter \in Seq(Tokens)
    BY DelimiterTakes DEF StatusInv, WellMarked
  <2> HIDE DEF delimiter, segment
  <2>2. current \o delimiter \in Seq(Tokens)
    BY <2>1
  <2> DEFINE front == current \o delimiter
  <2>3. front \in Seq(Tokens)
    BY <2>2
  <2> HIDE DEF front
  <2>4. Len(front \o segment) = Len(front) + Len(segment) /\ Len(front) \in Nat
        /\ Len(segment) \in Nat /\ Len(segment) # 0
    BY <1>4, <2>3
  <2>5. front \o segment # <<>>
    BY <2>4
  <2> QED
    BY <1>1, <2>5 DEF front
<1>8. VisibleBefore(next') # {}
  BY <1>1 DEF VisibleBefore
<1>9. Parts' = Parts /\ Lead' = Lead /\ VisibleBefore(next)' = VisibleBefore(next')
  BY <1>1, PartsStay DEF VisibleBefore, Visible
<1>10. next' - 1 = next
  BY <1>1
<1>11. /\ Accumulates(h, BlockCount, Parts', Tokens)
       /\ current' = When(VisibleBefore(next)' # {}, Lead' \o h[next' - 1])
       /\ current' = <<>> <=> VisibleBefore(next)' = {}
       /\ VisibleBefore(next)' = {} => h[next' - 1] = <<>>
  BY <1>2, <1>6, <1>7, <1>8, <1>9, <1>10 DEF When
<1>12. JoinedSoFar'
  BY <1>11 DEF JoinedSoFar, Accumulates
<1> QED
  BY <1>1, <1>12 DEF JoinInv

\* A block without output adds an empty one.
LEMMA SkipJoins ==
  ASSUME StatusInv, JoinInv, SkipBlock
  PROVE  JoinInv'
<1>1. /\ next \in BlockIds /\ next \in Nat \ {0} /\ next \in 1 .. BlockCount
      /\ next' = next + 1 /\ layout' = layout /\ output' = output /\ current' = current
      /\ previous' = previous /\ shown' = shown /\ last' = last
      /\ next \notin Visible /\ BlockCount \in Nat
  BY Numbers DEF SkipBlock, Visible, BlockIds
<1>2. PICK h : /\ Accumulates(h, BlockCount, Parts, Tokens)
               /\ current = When(VisibleBefore(next) # {}, Lead \o h[next - 1])
               /\ current = <<>> <=> VisibleBefore(next) = {}
               /\ VisibleBefore(next) = {} => h[next - 1] = <<>>
  BY <1>1 DEF JoinInv, JoinedSoFar
<1>3. h[next] = h[next - 1]
  <2>1. Parts[next] = <<>> /\ next - 1 \in 0 .. BlockCount
    BY <1>1 DEF Parts, Part, When
  <2>2. h[next - 1] \in Seq(Tokens) /\ h[next] = h[next - 1] \o <<>>
    BY <1>1, <1>2, <2>1 DEF Accumulates
  <2> QED
    BY <2>2
<1>4. VisibleBefore(next') = VisibleBefore(next)
  <2>1. \A b \in Visible : b \in Int /\ b # next
    BY <1>1 DEF Visible, BlockIds
  <2> QED
    BY <1>1, <2>1 DEF VisibleBefore
<1>5. Parts' = Parts /\ Lead' = Lead /\ VisibleBefore(next)' = VisibleBefore(next')
  BY <1>1, PartsStay DEF VisibleBefore, Visible
<1>6. next' - 1 = next
  BY <1>1
<1>7. /\ Accumulates(h, BlockCount, Parts', Tokens)
      /\ current' = When(VisibleBefore(next)' # {}, Lead' \o h[next' - 1])
      /\ current' = <<>> <=> VisibleBefore(next)' = {}
      /\ VisibleBefore(next)' = {} => h[next' - 1] = <<>>
  BY <1>1, <1>2, <1>3, <1>4, <1>5, <1>6
<1>8. JoinedSoFar'
  BY <1>7 DEF JoinedSoFar, Accumulates
<1> QED
  BY <1>1, <1>8 DEF JoinInv

\* At the end of a round all blocks have been joined.
LEMMA EndsJoin ==
  ASSUME StatusInv, JoinInv, UpdateEnds
  PROVE  JoinInv'
<1> DEFINE trail == When(layout.trailing = 1, <<Delimiter>>)
<1>1. /\ next = BlockCount + 1 /\ BlockCount \in Nat \ {0} /\ next > 0
      /\ next' = 0 /\ layout' = layout /\ output' = output /\ last' = last
      /\ current' = current \o When(layout.trailing = 1 /\ current # <<>>, <<Delimiter>>)
      /\ shown' = IF current' # previous THEN current' ELSE shown
  BY Numbers DEF UpdateEnds
<1>2. PICK h : /\ Accumulates(h, BlockCount, Parts, Tokens)
               /\ current = When(VisibleBefore(next) # {}, Lead \o h[next - 1])
               /\ current = <<>> <=> VisibleBefore(next) = {}
  BY <1>1 DEF JoinInv, JoinedSoFar
<1>3. VisibleBefore(next) = Visible
  BY <1>1 DEF VisibleBefore, Visible, BlockIds
<1>4. h[next - 1] = FlattenSeq(Parts)
  <2>1. FlattenSeq(Parts) = h[BlockCount]
    BY <1>1, <1>2, PartsAreTexts, FlattenIsLast
  <2>2. next - 1 = BlockCount
    BY <1>1
  <2> QED
    BY <2>1, <2>2
<1>5. Joined = When(Visible # {}, Lead \o FlattenSeq(Parts) \o trail)
  BY DEF Joined, Parts, Part, Lead
<1>6. current' = Joined
  <2>1. CASE Visible = {}
    BY <1>1, <1>2, <1>3, <1>5, <2>1 DEF When
  <2>2. CASE Visible # {}
    <3>1. current = Lead \o FlattenSeq(Parts) /\ current # <<>>
      BY <1>2, <1>3, <1>4, <2>2 DEF When
    <3>2. current' = current \o trail
      BY <1>1, <3>1
    <3> QED
      BY <1>5, <2>2, <3>1, <3>2 DEF When
  <2> QED
    BY <2>1, <2>2
<1>7. shown' = current'
  BY <1>1 DEF JoinInv
<1>8. Joined' = Joined
  BY <1>1, PartsStay
<1>9. next' = 0 /\ ~(next' > 0) /\ current' = Joined'
  BY <1>1, <1>6, <1>8
<1> QED
  BY <1>7, <1>9 DEF JoinInv

\* After every round the bar shows the outputs of the blocks, joined, and nothing else:
\* the text that is put together block by block is that of the definition, and a round
\* that writes nothing finds it on the root window.
THEOREM BarShowsJoined == Spec => []BarIsJoined
<1>1. Init => JoinInv
  <2> SUFFICES ASSUME Init PROVE JoinInv
    OBVIOUS
  <2>1. Visible = {}
    BY DEF Init, Visible
  <2>2. Joined = <<>>
    BY <2>1 DEF Joined, When
  <2> QED
    BY <2>2 DEF Init, JoinInv
<1>2. ASSUME StatusInv, JoinInv, [Next]_vars
      PROVE  JoinInv'
  <2>1. ASSUME NEW b \in BlockIds, BlockUpdated(b)
        PROVE  JoinInv'
    <3>1. b # 0
      BY Numbers DEF BlockIds
    <3> QED
      BY <1>2, <2>1, <3>1 DEF BlockUpdated, JoinInv
  <2>2. CASE UNCHANGED vars
    <3>1. Joined' = Joined /\ Parts' = Parts /\ Lead' = Lead
          /\ VisibleBefore(next)' = VisibleBefore(next)
      BY <2>2, PartsStay DEF vars, VisibleBefore, Visible
    <3>2. JoinedSoFar => JoinedSoFar'
      BY <2>2, <3>1 DEF vars, JoinedSoFar, Accumulates
    <3> QED
      BY <1>2, <2>2, <3>1, <3>2 DEF vars, JoinInv
  <2> QED
    BY <1>2, <2>1, <2>2, RoundStartsJoined, AppendJoins, SkipJoins, EndsJoin DEF Next
<1>3. JoinInv => BarIsJoined
  BY DEF JoinInv, BarIsJoined
<1> QED
  BY <1>1, <1>2, <1>3, StatusInvariant, PTL DEF Spec
===============================================================================
