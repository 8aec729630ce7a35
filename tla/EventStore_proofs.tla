--------------------------- MODULE EventStore_proofs ---------------------------
(***************************************************************************)
(* Proofs about EventStore, for every value of its constants: the types,   *)
(* the open segment that no crash spoils, the suppression of duplicates    *)
(* that is exact, the memory that agrees with the directory, the bound on  *)
(* its size, and the refinement of EventLog.                               *)
(***************************************************************************)
EXTENDS MCEventStore, SequenceTheorems, FiniteSetTheorems, WellFoundedInduction, TLAPS

-----------------------------------------------------------------------------
(* Lemmas about the operators                                              *)

\* A set of naturals that is not empty has a least element.
LEMMA LeastNumber ==
    ASSUME NEW T \in SUBSET Nat, T # {}
    PROVE  \E x \in T : \A y \in T : x <= y
<1>1. PICK x \in T : \A y \in T : ~(<<y, x>> \in OpToRel(<, Nat))
  BY NatLessThanWellFounded, WFMin
<1>2. \A y \in T : <<y, x>> \in OpToRel(<, Nat) <=> y < x
  BY DEF OpToRel
<1>3. \A y \in T : ~(y < x)
  BY <1>1, <1>2
<1>4. \A y \in T : x \in Nat /\ y \in Nat
  OBVIOUS
<1>5. \A m, n \in Nat : ~(n < m) => m <= n
  OBVIOUS
<1>. QED BY <1>3, <1>4, <1>5

\* The lowest of some segment numbers is one of them, and no other is below.
LEMMA LowestIsBottom ==
    ASSUME NEW S \in SUBSET Numbers, S # {}, MaxSegments \in Nat
    PROVE  Lowest(S) \in S /\ \A m \in S : Lowest(S) <= m
<1>1. S \in SUBSET Nat
  BY DEF Numbers
<1>2. \E n \in S : \A m \in S : n <= m
  BY <1>1, LeastNumber
<1>. QED BY <1>2 DEF Lowest

\* The highest of some segment numbers is one of them, and no other is above.
LEMMA HighestIsTop ==
    ASSUME NEW S \in SUBSET Numbers, S # {}, MaxSegments \in Nat
    PROVE  Highest(S) \in S /\ \A m \in S : m <= Highest(S)
<1>. DEFINE T == {MaxSegments - n : n \in S}
<1>1. \A n \in S : n \in Nat /\ MaxSegments - n \in Nat
  BY DEF Numbers
<1>2. T \in SUBSET Nat /\ T # {}
  BY <1>1
<1>3. PICK x \in T : \A y \in T : x <= y
  <2>. HIDE DEF T
  <2>. QED BY <1>2, LeastNumber
<1>4. PICK n \in S : x = MaxSegments - n
  OBVIOUS
<1>5. ASSUME NEW m \in S
      PROVE  m <= n
  <2>1. x <= MaxSegments - m
    BY <1>3
  <2>. QED BY <1>1, <1>4, <2>1
<1>. HIDE DEF T
<1>. QED BY <1>5 DEF Highest

\* The fields of a segment and of what the writes leave of it.
LEMMA WrittenFields ==
    ASSUME NEW seg \in Segment, pending \in Events, clock \in Nat
    PROVE  /\ Written(seg) \in Segment
           /\ Written(seg).exists = seg.exists
           /\ Written(seg).torn = seg.torn
           /\ Written(seg).corrupt = seg.corrupt
           /\ Written(seg).records = Append(seg.records, pending)
           /\ Len(Written(seg).records) = Len(seg.records) + 1
           /\ Written(seg).mtime = clock
<1>. DEFINE r == Append(seg.records, pending)
            b == IF seg.records = <<>> THEN clock ELSE seg.born
<1>1. seg.records \in Seq(Events)
  BY DEF Segment
<1>2. r \in Seq(Events) /\ Len(r) = Len(seg.records) + 1
  BY <1>1, AppendProperties
<1>3. b \in Nat
  BY DEF Segment
<1>. DEFINE x == [seg EXCEPT !.records = r]
            y == [x EXCEPT !.mtime = clock]
            z == [y EXCEPT !.born = b]
<1>4. Written(seg) = z
  BY DEF Written, Segment
<1>. HIDE DEF r, b
<1>5. /\ x \in Segment /\ x.records = r /\ x.exists = seg.exists
      /\ x.torn = seg.torn /\ x.corrupt = seg.corrupt
  BY <1>2 DEF Segment
<1>. HIDE DEF x
<1>6. /\ y \in Segment /\ y.records = r /\ y.exists = seg.exists
      /\ y.torn = seg.torn /\ y.corrupt = seg.corrupt /\ y.mtime = clock
  BY <1>5 DEF Segment
<1>. HIDE DEF y
<1>7. /\ z \in Segment /\ z.records = r /\ z.exists = seg.exists
      /\ z.torn = seg.torn /\ z.corrupt = seg.corrupt /\ z.mtime = clock
  BY <1>3, <1>6 DEF Segment
<1>. HIDE DEF z
<1>. QED BY <1>2, <1>4, <1>7 DEF r

\* A torn line leaves the records of a segment.
LEMMA TornFields ==
    ASSUME NEW seg \in Segment, clock \in Nat
    PROVE  /\ Torn(seg) \in Segment /\ Torn(seg).exists = seg.exists
           /\ Torn(seg).records = seg.records /\ Torn(seg).corrupt = seg.corrupt
           /\ Torn(seg).mtime = clock
<1>. DEFINE x == [seg EXCEPT !.torn = TRUE]
            y == [x EXCEPT !.mtime = clock]
<1>1. Torn(seg) = y
  BY DEF Torn, Segment
<1>2. /\ x \in Segment /\ x.exists = seg.exists
      /\ x.records = seg.records /\ x.corrupt = seg.corrupt
  BY DEF Segment
<1>. HIDE DEF x
<1>3. /\ y \in Segment /\ y.exists = seg.exists
      /\ y.records = seg.records /\ y.corrupt = seg.corrupt /\ y.mtime = clock
  BY <1>2 DEF Segment
<1>. HIDE DEF y
<1>. QED BY <1>1, <1>3

\* Damage leaves the other fields.
LEMMA CorruptFields ==
    ASSUME NEW seg \in Segment
    PROVE  /\ [seg EXCEPT !.corrupt = TRUE] \in Segment
           /\ [seg EXCEPT !.corrupt = TRUE].exists = seg.exists
           /\ [seg EXCEPT !.corrupt = TRUE].records = seg.records
           /\ [seg EXCEPT !.corrupt = TRUE].torn = seg.torn
           /\ [seg EXCEPT !.corrupt = TRUE].mtime = seg.mtime
           /\ [seg EXCEPT !.corrupt = TRUE].corrupt
BY DEF Segment

\* The segments that are not there, and those just opened.
LEMMA EmptyFields ==
    ASSUME clock \in Nat
    PROVE  /\ NoSegment \in Segment /\ ~NoSegment.exists
           /\ NoSegment.records = <<>> /\ ~NoSegment.torn /\ ~NoSegment.corrupt
           /\ EmptySegment \in Segment /\ EmptySegment.exists
           /\ ~EmptySegment.torn /\ ~EmptySegment.corrupt
           /\ EmptySegment.records = <<>> /\ Len(EmptySegment.records) = 0
           /\ EmptySegment.mtime = clock
<1>. DEFINE x == [NoSegment EXCEPT !.exists = TRUE]
            y == [x EXCEPT !.born = clock]
            z == [y EXCEPT !.mtime = clock]
<1>1. /\ NoSegment \in Segment /\ ~NoSegment.exists /\ NoSegment.records = <<>>
      /\ ~NoSegment.torn /\ ~NoSegment.corrupt
  BY DEF NoSegment, Segment
<1>2. EmptySegment = z
  BY <1>1 DEF EmptySegment, Segment
<1>3. x \in Segment /\ x.exists /\ ~x.torn /\ ~x.corrupt /\ x.records = <<>>
  BY <1>1 DEF Segment
<1>. HIDE DEF x
<1>4. y \in Segment /\ y.exists /\ ~y.torn /\ ~y.corrupt /\ y.records = <<>>
  BY <1>3 DEF Segment
<1>. HIDE DEF y
<1>5. /\ z \in Segment /\ z.exists /\ ~z.torn /\ ~z.corrupt /\ z.records = <<>>
      /\ z.mtime = clock
  BY <1>4 DEF Segment
<1>. HIDE DEF z
<1>. QED BY <1>1, <1>2, <1>5

\* A deque keeps at most Window elements, all of them of the sequence it was
\* given, and a sequence that fits is kept as it is.
LEMMA NewestProperties ==
    ASSUME NEW s \in Seq(Events), Window \in Nat \ {0}
    PROVE  /\ Newest(s) \in Seq(Events)
           /\ Len(Newest(s)) <= Window
           /\ Len(s) <= Window => Newest(s) = s
<1>1. Len(s) \in Nat
  BY LenProperties
<1>2. CASE Len(s) <= Window
  BY <1>1, <1>2 DEF Newest
<1>3. CASE Len(s) > Window
  <2>. DEFINE first == Len(s) - Window + 1
  <2>1. first \in 1..Len(s) /\ Len(s) \in first-1 .. Len(s) /\ Len(s) - first + 1 = Window
    BY <1>1, <1>3
  <2>2. SubSeq(s, first, Len(s)) \in Seq(Events) /\ Len(SubSeq(s, first, Len(s))) = Window
    <3>. HIDE DEF first
    <3>1. Len(s) >= first /\ first \in Nat
      BY <1>1, <2>1
    <3>. QED BY <1>1, <2>1, <3>1, SubSeqProperties
  <2>. QED BY <1>1, <1>3, <2>2 DEF Newest
<1>. QED BY <1>1, <1>2, <1>3

\* _open_segment, given a free number: the new segment is empty and whole,
\* and the directory has no other.
LEMMA OpenSegmentFields ==
    ASSUME TypeOK, OpenSegment, sequence <= MaxSegments, ConstantsAssumption
    PROVE  /\ segments' \in [Numbers -> Segment]
           /\ current' = sequence /\ current' \in Numbers
           /\ sequence' = sequence + 1 /\ sequence' \in 1..(MaxSegments + 1)
           /\ Present' \subseteq Present \cup {sequence}
           /\ segments'[sequence].exists
           /\ sequence \notin Present =>
                /\ segments' = [segments EXCEPT ![sequence] = EmptySegment]
                /\ ~segments'[sequence].torn /\ ~segments'[sequence].corrupt
                /\ Len(segments'[sequence].records) = 0
<1>1. /\ MaxSegments \in Nat /\ sequence \in Numbers /\ clock \in Nat
      /\ segments \in [Numbers -> Segment] /\ sequence + 1 \in 1..(MaxSegments + 1)
  BY DEF TypeOK, ConstantsAssumption, Numbers
<1>2. Opened(segments[sequence]) \in Segment /\ Opened(segments[sequence]).exists
  BY <1>1, EmptyFields DEF Opened
<1>3. sequence \notin Present => Opened(segments[sequence]) = EmptySegment
  BY <1>1 DEF Opened, Present
<1>. HIDE DEF Opened
<1>4. /\ segments' \in [Numbers -> Segment]
      /\ segments'[sequence] = Opened(segments[sequence])
      /\ \A n \in Numbers \ {sequence} : segments'[n] = segments[n]
  BY <1>1, <1>2 DEF OpenSegment
<1>5. Present' \subseteq Present \cup {sequence}
  BY <1>4 DEF Present
<1>. QED BY <1>1, <1>2, <1>3, <1>4, <1>5, EmptyFields DEF OpenSegment

-----------------------------------------------------------------------------
(* The log, segment by segment                                             *)

\* What a segment adds to the log.
Piece(seg) == IF seg.corrupt THEN <<>> ELSE seg.records

\* f gives the log, or the size, of the segments segs up to each number.
IsLog(f, segs) ==
    f = [n \in 0..MaxSegments |-> IF n = 0 THEN <<>> ELSE f[n - 1] \o Piece(segs[n])]
IsTotal(f, segs) ==
    f = [n \in 0..MaxSegments |-> IF n = 0 THEN 0 ELSE f[n - 1] + Size(segs[n])]

\* What holds of the number k and passes from each number to the next holds
\* of all from k on.
LEMMA Upwards ==
    ASSUME NEW M \in Nat, NEW k \in 0..M, NEW G, k \in G,
           \A n \in (k + 1)..M : n - 1 \in G => n \in G
    PROVE  \A n \in k..M : n \in G
<1>. DEFINE Bad == {n \in Nat : n \in k..M /\ n \notin G}
<1>1. SUFFICES ASSUME Bad # {} PROVE FALSE
  OBVIOUS
<1>2. PICK m \in Bad : \A n \in Bad : m <= n
  <2>1. Bad \in SUBSET Nat
    OBVIOUS
  <2>. HIDE DEF Bad
  <2>. QED BY <1>1, <2>1, LeastNumber
<1>3. m \in (k + 1)..M
  OBVIOUS
<1>4. m - 1 \in Nat /\ m - 1 \in k..M /\ ~(m <= m - 1)
  BY <1>3
<1>5. m - 1 \in G
  BY <1>2, <1>4
<1>. QED BY <1>2, <1>3, <1>5

\* The recursion of the log has a solution, for any segments.
LEMMA LogExists ==
    ASSUME NEW segs, NEW M \in Nat
    PROVE  \E f : f = [n \in 0..M |-> IF n = 0 THEN <<>> ELSE f[n - 1] \o Piece(segs[n])]
<1>. DEFINE Eq(f, m) == f = [n \in 0..m |-> IF n = 0 THEN <<>> ELSE f[n - 1] \o Piece(segs[n])]
            G == {m \in Nat : \E f : Eq(f, m)}
<1>1. 0 \in G
  <2>. DEFINE f == [n \in 0..0 |-> <<>>]
  <2>1. f = [n \in 0..0 |-> IF n = 0 THEN <<>> ELSE f[n - 1] \o Piece(segs[n])]
    OBVIOUS
  <2>. QED BY <2>1
<1>2. ASSUME NEW m \in 1..M, m - 1 \in G
      PROVE  m \in G
  <2>1. PICK f : Eq(f, m - 1)
    BY <1>2
  <2>. DEFINE g == [n \in 0..m |-> IF n = m THEN f[m - 1] \o Piece(segs[m]) ELSE f[n]]
  <2>2. ASSUME NEW n \in 0..m
        PROVE  g[n] = IF n = 0 THEN <<>> ELSE g[n - 1] \o Piece(segs[n])
    <3>1. /\ m \in Nat /\ m # 0 /\ m - 1 \in 0..(m - 1)
          /\ g[m] = f[m - 1] \o Piece(segs[m])
          /\ \A k \in 0..(m - 1) : g[k] = f[k]
      OBVIOUS
    <3>2. \A k \in 0..(m - 1) : f[k] = IF k = 0 THEN <<>> ELSE f[k - 1] \o Piece(segs[k])
      BY <2>1
    <3>. HIDE DEF g
    <3>3. CASE n = m
      <4>1. g[m - 1] = f[m - 1]
        BY <3>1
      <4>. QED BY <3>1, <3>3, <4>1
    <3>4. CASE n # m
      <4>1. n \in 0..(m - 1) /\ g[n] = f[n]
        BY <3>1, <3>4
      <4>2. CASE n = 0
        BY <3>2, <4>1, <4>2
      <4>3. CASE n # 0
        <5>1. n - 1 \in 0..(m - 1)
          BY <4>1, <4>3
        <5>2. g[n - 1] = f[n - 1]
          BY <3>1, <5>1
        <5>. QED BY <3>2, <4>1, <4>3, <5>2
      <4>. QED BY <4>2, <4>3
    <3>. QED BY <3>3, <3>4
  <2>3. g = [n \in 0..m |-> g[n]]
    OBVIOUS
  <2>4. g = [n \in 0..m |-> IF n = 0 THEN <<>> ELSE g[n - 1] \o Piece(segs[n])]
    <3>. HIDE DEF g
    <3>. QED BY <2>2, <2>3
  <2>. HIDE DEF g
  <2>5. m \in Nat /\ Eq(g, m)
    BY <2>4
  <2>. QED BY <2>5
<1>3. M \in G
  <2>. HIDE DEF G
  <2>1. \A n \in 0..M : n \in G
    BY <1>1, <1>2, Upwards
  <2>. QED BY <2>1
<1>. QED BY <1>3

\* And so has the recursion of the sizes.
LEMMA TotalExists ==
    ASSUME NEW segs, NEW M \in Nat
    PROVE  \E f : f = [n \in 0..M |-> IF n = 0 THEN 0 ELSE f[n - 1] + Size(segs[n])]
<1>. DEFINE Eq(f, m) == f = [n \in 0..m |-> IF n = 0 THEN 0 ELSE f[n - 1] + Size(segs[n])]
            G == {m \in Nat : \E f : Eq(f, m)}
<1>1. 0 \in G
  <2>. DEFINE f == [n \in 0..0 |-> 0]
  <2>1. f = [n \in 0..0 |-> IF n = 0 THEN 0 ELSE f[n - 1] + Size(segs[n])]
    OBVIOUS
  <2>. QED BY <2>1
<1>2. ASSUME NEW m \in 1..M, m - 1 \in G
      PROVE  m \in G
  <2>1. PICK f : Eq(f, m - 1)
    BY <1>2
  <2>. DEFINE g == [n \in 0..m |-> IF n = m THEN f[m - 1] + Size(segs[m]) ELSE f[n]]
  <2>2. ASSUME NEW n \in 0..m
        PROVE  g[n] = IF n = 0 THEN 0 ELSE g[n - 1] + Size(segs[n])
    <3>1. /\ m \in Nat /\ m # 0 /\ m - 1 \in 0..(m - 1)
          /\ g[m] = f[m - 1] + Size(segs[m])
          /\ \A k \in 0..(m - 1) : g[k] = f[k]
      OBVIOUS
    <3>2. \A k \in 0..(m - 1) : f[k] = IF k = 0 THEN 0 ELSE f[k - 1] + Size(segs[k])
      BY <2>1
    <3>. HIDE DEF g
    <3>3. CASE n = m
      <4>1. g[m - 1] = f[m - 1]
        BY <3>1
      <4>. QED BY <3>1, <3>3, <4>1
    <3>4. CASE n # m
      <4>1. n \in 0..(m - 1) /\ g[n] = f[n]
        BY <3>1, <3>4
      <4>2. CASE n = 0
        BY <3>2, <4>1, <4>2
      <4>3. CASE n # 0
        <5>1. n - 1 \in 0..(m - 1)
          BY <4>1, <4>3
        <5>2. g[n - 1] = f[n - 1]
          BY <3>1, <5>1
        <5>. QED BY <3>2, <4>1, <4>3, <5>2
      <4>. QED BY <4>2, <4>3
    <3>. QED BY <3>3, <3>4
  <2>3. g = [n \in 0..m |-> g[n]]
    OBVIOUS
  <2>4. g = [n \in 0..m |-> IF n = 0 THEN 0 ELSE g[n - 1] + Size(segs[n])]
    <3>. HIDE DEF g
    <3>. QED BY <2>2, <2>3
  <2>. HIDE DEF g
  <2>5. m \in Nat /\ Eq(g, m)
    BY <2>4
  <2>. QED BY <2>5
<1>3. M \in G
  <2>. HIDE DEF G
  <2>1. \A n \in 0..M : n \in G
    BY <1>1, <1>2, Upwards
  <2>. QED BY <2>1
<1>. QED BY <1>3

\* LogUpTo and TotalUpTo are what their recursions say.
LEMMA UpToIs == IsLog(LogUpTo, segments) /\ IsTotal(TotalUpTo, segments)
<1>1. MaxSegments \in Nat
  BY ConstantsAssumption DEF ConstantsAssumption
<1>2. PICK s : s = segments
  OBVIOUS
<1>3. IsLog(LogUpTo, segments)
  <2>. DEFINE Eq(f) == f = [n \in 0..MaxSegments |->
                  IF n = 0 THEN <<>> ELSE f[n - 1] \o Piece(segments[n])]
  <2>1. \E f : Eq(f)
    BY <1>1, <1>2, LogExists
  <2>2. Eq(CHOOSE f : Eq(f))
    <3>. HIDE DEF Eq
    <3>. QED BY <2>1
  <2>. QED BY <2>2 DEF IsLog, LogUpTo, Piece
<1>4. IsTotal(TotalUpTo, segments)
  <2>. DEFINE Eq(f) == f = [n \in 0..MaxSegments |->
                  IF n = 0 THEN 0 ELSE f[n - 1] + Size(segments[n])]
  <2>1. \E f : Eq(f)
    BY <1>1, <1>2, TotalExists
  <2>2. Eq(CHOOSE f : Eq(f))
    <3>. HIDE DEF Eq
    <3>. QED BY <2>1
  <2>. QED BY <2>2 DEF IsTotal, TotalUpTo
<1>. QED BY <1>3, <1>4

\* The recursion, one segment at a time; where the segments add nothing, the
\* log stays what it is.
LEMMA LogRecursion ==
    ASSUME NEW f, NEW segs \in [Numbers -> Segment], MaxSegments \in Nat, IsLog(f, segs)
    PROVE  /\ f[0] = <<>>
           /\ \A n \in Numbers : f[n] = f[n - 1] \o Piece(segs[n])
           /\ \A n \in Numbers : Piece(segs[n]) \in Seq(Events)
           /\ \A n \in 0..MaxSegments : f[n] \in Seq(Events)
<1>1. f[0] = <<>> /\ \A n \in Numbers : f[n] = f[n - 1] \o Piece(segs[n])
  BY DEF IsLog, Numbers
<1>2. \A n \in Numbers : Piece(segs[n]) \in Seq(Events)
  <2>1. <<>> \in Seq(Events)
    OBVIOUS
  <2>. QED BY <2>1 DEF Piece, Segment
<1>. DEFINE G == {n \in 0..MaxSegments : f[n] \in Seq(Events)}
<1>3. 0 \in G
  <2>1. <<>> \in Seq(Events) /\ 0 \in 0..MaxSegments
    OBVIOUS
  <2>. QED BY <1>1, <2>1
<1>4. ASSUME NEW n \in 1..MaxSegments, n - 1 \in G
      PROVE  n \in G
  <2>1. n \in Numbers /\ n \in 0..MaxSegments
    BY DEF Numbers
  <2>2. f[n - 1] \o Piece(segs[n]) \in Seq(Events)
    BY <1>2, <1>4, <2>1, ConcatProperties
  <2>3. f[n] \in Seq(Events)
    BY <1>1, <2>1, <2>2
  <2>. QED BY <2>1, <2>3
<1>5. \A n \in 0..MaxSegments : n \in G
  <2>. HIDE DEF G
  <2>. QED BY <1>3, <1>4, Upwards
<1>. QED BY <1>1, <1>2, <1>5

LEMMA LogGap ==
    ASSUME NEW f, NEW segs \in [Numbers -> Segment], MaxSegments \in Nat, IsLog(f, segs),
           NEW k \in 0..MaxSegments, NEW m \in k..MaxSegments,
           \A n \in (k + 1)..m : Piece(segs[n]) = <<>>
    PROVE  f[m] = f[k]
<1>1. /\ \A n \in Numbers : f[n] = f[n - 1] \o Piece(segs[n])
      /\ \A n \in 0..MaxSegments : f[n] \in Seq(Events)
  BY LogRecursion
<1>. DEFINE G == {n \in 0..m : f[n] = f[k]}
<1>2. k \in G
  OBVIOUS
<1>3. ASSUME NEW n \in (k + 1)..m, n - 1 \in G
      PROVE  n \in G
  <2>1. n \in Numbers /\ n - 1 \in 0..MaxSegments
    BY DEF Numbers
  <2>2. f[n] = f[n - 1] \o <<>>
    BY <1>1, <2>1
  <2>3. f[n - 1] \in Seq(Events)
    BY <1>1, <2>1
  <2>4. f[n] = f[n - 1]
    BY <2>2, <2>3, ConcatEmptySeq
  <2>. QED BY <1>3, <2>4
<1>4. m \in Nat /\ k \in 0..m
  OBVIOUS
<1>5. \A n \in k..m : n \in G
  <2>. HIDE DEF G
  <2>. QED BY <1>2, <1>3, <1>4, Upwards
<1>6. m \in k..m
  OBVIOUS
<1>. QED BY <1>5, <1>6

\* log and log2 differ in the place of segment c, where one directory has
\* segs[c] and the other segs2[c].
DifferAt(c, log, segs, log2, segs2) ==
    \E a, b \in Seq(Events) :
        /\ log = (a \o Piece(segs[c])) \o b
        /\ log2 = (a \o Piece(segs2[c])) \o b
        /\ (\A n \in Numbers : n < c => Piece(segs[n]) = <<>>) => a = <<>>
        /\ (\A n \in Numbers : c < n => Piece(segs[n]) = <<>>) => b = <<>>

\* Two directories that differ in one segment: their logs differ in its place.
LEMMA LogSplit ==
    ASSUME NEW f, NEW segs \in [Numbers -> Segment], IsLog(f, segs),
           NEW g, NEW segs2 \in [Numbers -> Segment], IsLog(g, segs2),
           MaxSegments \in Nat, NEW c \in Numbers,
           \A n \in Numbers \ {c} : Piece(segs2[n]) = Piece(segs[n])
    PROVE  DifferAt(c, f[MaxSegments], segs, g[MaxSegments], segs2)
<1>. DEFINE M == MaxSegments
            p == Piece(segs[c])
            q == Piece(segs2[c])
<1>1. /\ f[0] = <<>> /\ \A n \in Numbers : f[n] = f[n - 1] \o Piece(segs[n])
      /\ \A n \in Numbers : Piece(segs[n]) \in Seq(Events)
      /\ \A n \in 0..MaxSegments : f[n] \in Seq(Events)
  BY LogRecursion
<1>2. /\ g[0] = <<>> /\ \A n \in Numbers : g[n] = g[n - 1] \o Piece(segs2[n])
      /\ \A n \in Numbers : Piece(segs2[n]) \in Seq(Events)
      /\ \A n \in 0..MaxSegments : g[n] \in Seq(Events)
  BY LogRecursion
<1>3. /\ c \in 1..M /\ c - 1 \in 0..M /\ p \in Seq(Events) /\ q \in Seq(Events)
      /\ f[c] = f[c - 1] \o p /\ g[c] = g[c - 1] \o q
  <2>1. c \in 1..M /\ c - 1 \in 0..M
    BY DEF Numbers
  <2>. QED BY <1>1, <1>2, <2>1
<1>4. f[c - 1] = g[c - 1]
  <2>. DEFINE G == {n \in 0..(c - 1) : f[n] = g[n]}
  <2>1. 0 \in G
    BY <1>1, <1>2, <1>3
  <2>2. ASSUME NEW n \in 1..(c - 1), n - 1 \in G
        PROVE  n \in G
    <3>1. n \in Numbers \ {c}
      BY <1>3 DEF Numbers
    <3>2. /\ f[n] = f[n - 1] \o Piece(segs[n]) /\ g[n] = g[n - 1] \o Piece(segs2[n])
          /\ f[n - 1] = g[n - 1] /\ Piece(segs2[n]) = Piece(segs[n])
      BY <1>1, <1>2, <2>2, <3>1
    <3>3. n \in 0..(c - 1)
      BY <1>3
    <3>. QED BY <3>2, <3>3
  <2>3. c - 1 \in Nat
    BY <1>3
  <2>4. \A n \in 0..(c - 1) : n \in G
    <3>. HIDE DEF G
    <3>. QED BY <2>1, <2>2, <2>3, Upwards
  <2>. QED BY <2>3, <2>4
<1>. DEFINE a == f[c - 1]
            H == {n \in c..M : \E b \in Seq(Events) : f[n] = (a \o p) \o b /\ g[n] = (a \o q) \o b}
<1>5. a \in Seq(Events) /\ a \o p \in Seq(Events) /\ a \o q \in Seq(Events)
  BY <1>1, <1>3, ConcatProperties
<1>6. (\A n \in Numbers : n < c => Piece(segs[n]) = <<>>) => a = <<>>
  <2>1. SUFFICES ASSUME \A n \in Numbers : n < c => Piece(segs[n]) = <<>>
                 PROVE  a = <<>>
    OBVIOUS
  <2>2. \A n \in (0 + 1)..(c - 1) : Piece(segs[n]) = <<>>
    BY <1>3, <2>1 DEF Numbers
  <2>3. 0 \in 0..MaxSegments /\ c - 1 \in 0..MaxSegments
    BY <1>3
  <2>4. f[c - 1] = f[0]
    BY <2>2, <2>3, LogGap
  <2>. QED BY <1>1, <2>4
<1>7. CASE \A n \in Numbers : c < n => Piece(segs[n]) = <<>>
  <2>1. \A n \in Numbers : c < n => Piece(segs2[n]) = <<>>
    BY <1>3, <1>7 DEF Numbers
  <2>2. \A n \in (c + 1)..M : Piece(segs[n]) = <<>> /\ Piece(segs2[n]) = <<>>
    BY <1>3, <1>7, <2>1 DEF Numbers
  <2>3. c \in 0..MaxSegments /\ M \in c..MaxSegments
    BY <1>3
  <2>4. f[M] = f[c]
    BY <2>2, <2>3, LogGap
  <2>5. g[M] = g[c]
    BY <2>2, <2>3, LogGap
  <2>6. <<>> \in Seq(Events) /\ (a \o p) \o <<>> = a \o p /\ (a \o q) \o <<>> = a \o q
    <3>. HIDE DEF a, p, q
    <3>. QED BY <1>5, ConcatEmptySeq
  <2>7. f[M] = (a \o p) \o <<>> /\ g[M] = (a \o q) \o <<>>
    BY <1>3, <1>4, <2>4, <2>5, <2>6
  <2>. QED BY <1>5, <1>6, <2>6, <2>7 DEF DifferAt
<1>8. CASE ~ \A n \in Numbers : c < n => Piece(segs[n]) = <<>>
  <2>1. c \in H
    <3>1. <<>> \in Seq(Events) /\ (a \o p) \o <<>> = a \o p /\ (a \o q) \o <<>> = a \o q
      <4>. HIDE DEF a, p, q
      <4>. QED BY <1>5, ConcatEmptySeq
    <3>2. c \in c..M /\ f[c] = (a \o p) \o <<>> /\ g[c] = (a \o q) \o <<>>
      <4>1. f[c] = a \o p /\ g[c] = a \o q /\ c \in c..M
        BY <1>3, <1>4
      <4>. HIDE DEF a, p, q
      <4>. QED BY <3>1, <4>1
    <3>. QED BY <3>1, <3>2
  <2>2. ASSUME NEW n \in (c + 1)..M, n - 1 \in H
        PROVE  n \in H
    <3>1. n \in Numbers \ {c} /\ n \in c..M
      BY <1>3 DEF Numbers
    <3>2. PICK b \in Seq(Events) : f[n - 1] = (a \o p) \o b /\ g[n - 1] = (a \o q) \o b
      BY <2>2
    <3>. DEFINE r == Piece(segs[n])
    <3>3. r \in Seq(Events) /\ f[n] = ((a \o p) \o b) \o r /\ g[n] = ((a \o q) \o b) \o r
      BY <1>1, <1>2, <3>1, <3>2
    <3>4. /\ ((a \o p) \o b) \o r = (a \o p) \o (b \o r)
          /\ ((a \o q) \o b) \o r = (a \o q) \o (b \o r)
      <4>. DEFINE v == a \o p
                  w == a \o q
      <4>1. v \in Seq(Events) /\ w \in Seq(Events) /\ r \in Seq(Events)
        BY <1>5, <3>3
      <4>. HIDE DEF v, w, r
      <4>2. (v \o b) \o r = v \o (b \o r)
        BY <4>1, ConcatAssociative
      <4>3. (w \o b) \o r = w \o (b \o r)
        BY <4>1, ConcatAssociative
      <4>. QED BY <4>2, <4>3 DEF v, w
    <3>5. b \o r \in Seq(Events)
      BY <3>3, ConcatProperties
    <3>. QED BY <3>1, <3>3, <3>4, <3>5
  <2>3. c \in 0..M
    BY <1>3
  <2>4. \A n \in c..M : n \in H
    <3>. HIDE DEF H
    <3>. QED BY <2>1, <2>2, <2>3, Upwards
  <2>5. M \in H
    <3>1. M \in c..M
      BY <1>3
    <3>. HIDE DEF H
    <3>. QED BY <2>4, <3>1
  <2>6. PICK b \in Seq(Events) : f[M] = (a \o p) \o b /\ g[M] = (a \o q) \o b
    BY <2>5
  <2>. QED BY <1>5, <1>6, <1>8, <2>6 DEF DifferAt
<1>. QED BY <1>7, <1>8

\* Where one segment has a size and the others none, the total is its size.
LEMMA TotalOfOne ==
    ASSUME NEW f, NEW segs, IsTotal(f, segs), MaxSegments \in Nat, NEW c \in Numbers,
           Size(segs[c]) \in Nat, \A n \in Numbers \ {c} : Size(segs[n]) = 0
    PROVE  f[MaxSegments] = Size(segs[c])
<1>1. f[0] = 0 /\ \A n \in 1..MaxSegments : f[n] = f[n - 1] + Size(segs[n])
  BY DEF IsTotal
<1>2. c \in 1..MaxSegments /\ \A n \in 1..MaxSegments : n # c => Size(segs[n]) = 0
  BY DEF Numbers
<1>. DEFINE z == Size(segs[c])
            G == {n \in 0..MaxSegments : f[n] = IF n < c THEN 0 ELSE z}
<1>3. 0 \in G
  BY <1>1, <1>2
<1>4. ASSUME NEW n \in 1..MaxSegments, n - 1 \in G
      PROVE  n \in G
  <2>1. f[n] = f[n - 1] + Size(segs[n]) /\ f[n - 1] = IF n - 1 < c THEN 0 ELSE z
    BY <1>1, <1>4
  <2>2. CASE n = c
    BY <1>2, <2>1, <2>2
  <2>3. CASE n # c
    <3>1. Size(segs[n]) = 0 /\ (n - 1 < c <=> n < c)
      BY <1>2, <2>3
    <3>. QED BY <2>1, <3>1
  <2>. QED BY <2>2, <2>3
<1>5. \A n \in 0..MaxSegments : n \in G
  <2>. HIDE DEF G
  <2>. QED BY <1>3, <1>4, Upwards
<1>. QED BY <1>2, <1>5

\* Directories whose segments add the same to the log have the same log.
LEMMA LogSame ==
    ASSUME NEW f, NEW segs \in [Numbers -> Segment], IsLog(f, segs),
           NEW g, NEW segs2 \in [Numbers -> Segment], IsLog(g, segs2),
           MaxSegments \in Nat, \A n \in Numbers : Piece(segs2[n]) = Piece(segs[n])
    PROVE  \A n \in 0..MaxSegments : g[n] = f[n]
<1>1. f[0] = <<>> /\ \A n \in Numbers : f[n] = f[n - 1] \o Piece(segs[n])
  BY LogRecursion
<1>2. g[0] = <<>> /\ \A n \in Numbers : g[n] = g[n - 1] \o Piece(segs2[n])
  BY LogRecursion
<1>. DEFINE G == {n \in 0..MaxSegments : g[n] = f[n]}
<1>3. 0 \in G
  BY <1>1, <1>2
<1>4. ASSUME NEW n \in 1..MaxSegments, n - 1 \in G
      PROVE  n \in G
  <2>1. n \in Numbers /\ n \in 0..MaxSegments
    BY DEF Numbers
  <2>2. /\ f[n] = f[n - 1] \o Piece(segs[n]) /\ g[n] = g[n - 1] \o Piece(segs2[n])
        /\ g[n - 1] = f[n - 1] /\ Piece(segs2[n]) = Piece(segs[n])
    BY <1>1, <1>2, <1>4, <2>1
  <2>. QED BY <2>1, <2>2
<1>5. \A n \in 0..MaxSegments : n \in G
  <2>. HIDE DEF G
  <2>. QED BY <1>3, <1>4, Upwards
<1>. QED BY <1>5

LEMMA UpToIsNext == (IsLog(LogUpTo, segments) /\ IsTotal(TotalUpTo, segments))'
BY UpToIs, PTL

\* The log of the directory is a sequence of events.
LEMMA LogType ==
    ASSUME segments \in [Numbers -> Segment]
    PROVE  Log \in Seq(Events) /\ \A n \in 0..MaxSegments : LogUpTo[n] \in Seq(Events)
<1>1. MaxSegments \in Nat
  BY ConstantsAssumption DEF ConstantsAssumption
<1>2. PICK f, segs : f = LogUpTo /\ segs = segments
  OBVIOUS
<1>3. IsLog(f, segs)
  BY <1>2, UpToIs
<1>4. \A n \in 0..MaxSegments : f[n] \in Seq(Events)
  BY <1>1, <1>2, <1>3, LogRecursion
<1>. QED BY <1>1, <1>2, <1>4 DEF Log

\* A step that changes nothing of what the segments add changes no log.
LEMMA LogStays ==
    ASSUME segments \in [Numbers -> Segment], (segments \in [Numbers -> Segment])',
           \A n \in Numbers : Piece(segments'[n]) = Piece(segments[n])
    PROVE  Log' = Log /\ \A n \in 0..MaxSegments : LogUpTo'[n] = LogUpTo[n]
<1>1. MaxSegments \in Nat
  BY ConstantsAssumption DEF ConstantsAssumption
<1>2. PICK f, segs, g, segs2 :
          f = LogUpTo /\ segs = segments /\ g = LogUpTo' /\ segs2 = segments'
  OBVIOUS
<1>3. IsLog(f, segs)
  BY <1>2, UpToIs
<1>4. IsLog(g, segs2)
  BY <1>2, UpToIsNext
<1>5. \A n \in 0..MaxSegments : g[n] = f[n]
  BY <1>1, <1>2, <1>3, <1>4, LogSame
<1>. QED BY <1>1, <1>2, <1>5 DEF Log

\* A step that changes one segment changes the log in its place.
LEMMA LogChanges ==
    ASSUME segments \in [Numbers -> Segment], (segments \in [Numbers -> Segment])',
           NEW c \in Numbers, \A n \in Numbers \ {c} : segments'[n] = segments[n]
    PROVE  DifferAt(c, Log, segments, Log', segments')
<1>1. MaxSegments \in Nat
  BY ConstantsAssumption DEF ConstantsAssumption
<1>2. PICK f, segs, g, segs2 :
          f = LogUpTo /\ segs = segments /\ g = LogUpTo' /\ segs2 = segments'
  OBVIOUS
<1>3. IsLog(f, segs)
  BY <1>2, UpToIs
<1>4. IsLog(g, segs2)
  BY <1>2, UpToIsNext
<1>5. \A n \in Numbers \ {c} : Piece(segs2[n]) = Piece(segs[n])
  BY <1>2
<1>6. DifferAt(c, f[MaxSegments], segs, g[MaxSegments], segs2)
  <2>1. segs \in [Numbers -> Segment] /\ segs2 \in [Numbers -> Segment]
    BY <1>2
  <2>. QED BY <1>1, <1>3, <1>4, <1>5, <2>1, LogSplit
<1>7. Log = f[MaxSegments] /\ Log' = g[MaxSegments]
  BY <1>2 DEF Log
<1>. QED BY <1>2, <1>6, <1>7

-----------------------------------------------------------------------------
(* Types                                                                   *)

Running == {"idle", "writing", "bounding", "remembering"}

\* The types, with what the process knows where it is: while it recovers,
\* the bound leaves a number for its segment; while it serves, one is open.
TypeInv ==
    /\ TypeOK
    /\ pc = "recovering" => sequence <= MaxSegments
    /\ pc \in {"writing", "remembering"} => pending \in Events
    /\ pc \in Running => current \in Numbers

LEMMA TypeStep == TypeInv /\ [Next]_vars => TypeInv'
<1>. SUFFICES ASSUME TypeInv, [Next]_vars
              PROVE  TypeInv'
  OBVIOUS
<1>. USE ConstantsAssumption
<1>0. MaxSegments \in Nat \ {0} /\ Window \in Nat \ {0}
  BY DEF ConstantsAssumption
<1>1. CASE Boot
  <2>1. Present \subseteq Numbers
    BY DEF Present
  <2>2. NextSequence \in 1..MaxSegments
    <3>1. CASE Present = {}
      BY <1>0, <3>1 DEF NextSequence
    <3>2. CASE Present # {}
      <4>1. Highest(Present) \in Numbers
        BY <1>0, <2>1, <3>2, HighestIsTop
      <4>. QED BY <1>0, <1>1, <3>2, <4>1 DEF Boot, NextSequence, Numbers
    <3>. QED BY <3>1, <3>2
  <2>3. <<>> \in Seq(Events)
    OBVIOUS
  <2>. QED BY <1>0, <1>1, <2>1, <2>2, <2>3 DEF Boot, TypeInv, TypeOK, disk, world, Running
<1>2. CASE RecoverSegment
  <2>. DEFINE n == Lowest(unread)
  <2>1. n \in Numbers
    BY <1>0, <1>2, LowestIsBottom DEF RecoverSegment, TypeInv, TypeOK
  <2>. HIDE DEF n
  <2>2. CASE ~segments[n].corrupt /\ memory' = Newest(memory \o segments[n].records) /\ UNCHANGED disk
    <3>1. segments[n].records \in Seq(Events) /\ memory \in Seq(Events)
      BY <2>1 DEF TypeInv, TypeOK, Segment
    <3>2. memory' \in Seq(Events)
      BY <1>0, <2>2, <3>1, ConcatProperties, NewestProperties
    <3>. QED BY <1>2, <2>2, <3>2 DEF RecoverSegment, TypeInv, TypeOK, disk, world, Running
  <2>3. CASE /\ segments' = [segments EXCEPT ![n] = NoSegment]
             /\ quarantine' = quarantine \cup {n}
             /\ UNCHANGED memory
    <3>1. segments' \in [Numbers -> Segment] /\ quarantine' \subseteq Numbers
      BY <2>1, <2>3, EmptyFields DEF TypeInv, TypeOK
    <3>. QED BY <1>2, <2>3, <3>1 DEF RecoverSegment, TypeInv, TypeOK, world, Running
  <2>. QED BY <1>2, <2>2, <2>3 DEF RecoverSegment, n
<1>3. CASE StartWriting
  <2>1. TypeOK /\ OpenSegment /\ sequence <= MaxSegments
    BY <1>3 DEF StartWriting, TypeInv
  <2>2. /\ segments' \in [Numbers -> Segment] /\ current' \in Numbers
        /\ sequence' \in 1..(MaxSegments + 1)
    BY <2>1, OpenSegmentFields
  <2>3. order' \in Seq(Events)
    BY <1>0, <1>3, NewestProperties DEF StartWriting, TypeInv, TypeOK
  <2>4. ids' \subseteq Events
    BY <1>3, <2>3 DEF StartWriting, Elements
  <2>5. current' \in 0..MaxSegments
    BY <1>0, <2>2 DEF Numbers
  <2>6. known' \in Seq(Events)
    BY <1>3, LogType DEF StartWriting, TypeInv, TypeOK
  <2>. QED BY <1>3, <2>2, <2>3, <2>4, <2>5, <2>6 DEF StartWriting, TypeInv, TypeOK, world, Running
<1>4. CASE WriteRecord
  <2>1. Written(segments[current]) \in Segment
    BY <1>4, WrittenFields DEF WriteRecord, TypeInv, TypeOK, Running
  <2>2. segments' \in [Numbers -> Segment]
    BY <1>4, <2>1 DEF WriteRecord, TypeInv, TypeOK
  <2>3. known' \in Seq(Events)
    BY <1>4, AppendProperties DEF WriteRecord, TypeInv, TypeOK
  <2>. QED BY <1>4, <2>2, <2>3 DEF WriteRecord, TypeInv, TypeOK, world, Running
<1>5. CASE WriteRaises
  <2>1. Written(segments[current]) \in Segment /\ Torn(segments[current]) \in Segment
    BY <1>5, WrittenFields, TornFields DEF WriteRaises, TypeInv, TypeOK, Running
  <2>2. segments' \in [Numbers -> Segment]
    BY <1>5, <2>1 DEF WriteRaises, TypeInv, TypeOK
  <2>. QED BY <1>5, <2>2 DEF WriteRaises, TypeInv, TypeOK, world, Running
<1>6. CASE Unlink
  <2>1. segments' \in [Numbers -> Segment]
    BY <1>6, EmptyFields DEF Unlink, TypeInv, TypeOK
  <2>. QED BY <1>6, <2>1 DEF Unlink, TypeInv, TypeOK, process, world, Running
<1>7. CASE BoundsEnforced
  BY <1>7 DEF BoundsEnforced, TypeInv, TypeOK, disk, world, Running
<1>8. CASE UpdateMemory
  <2>1. pending \in Events /\ memory \in Seq(Events) /\ order \in Seq(Events) /\ ids \subseteq Events
    BY <1>8 DEF UpdateMemory, TypeInv, TypeOK
  <2>2. Append(memory, pending) \in Seq(Events) /\ Append(order, pending) \in Seq(Events)
    BY <2>1, AppendProperties
  <2>3. memory' \in Seq(Events) /\ order' \in Seq(Events)
    BY <1>0, <1>8, <2>2, NewestProperties DEF UpdateMemory
  <2>4. ids' \subseteq Events
    BY <1>8, <2>1 DEF UpdateMemory, IdsAfter
  <2>. QED BY <1>8, <2>3, <2>4 DEF UpdateMemory, TypeInv, TypeOK, disk, world, Running
<1>9. ASSUME NEW e \in Events, Remember(e)
      PROVE  TypeInv'
  <2>1. CASE UNCHANGED <<segments, current, sequence>>
    BY <1>9, <2>1 DEF Remember, TypeInv, TypeOK, world, Running
  <2>2. CASE sequence <= MaxSegments /\ OpenSegment
    <3>1. /\ segments' \in [Numbers -> Segment] /\ current' \in Numbers
          /\ sequence' \in 1..(MaxSegments + 1)
      BY <2>2, OpenSegmentFields DEF TypeInv
    <3>2. current' \in 0..MaxSegments
      BY <1>0, <3>1 DEF Numbers
    <3>. QED BY <1>9, <3>1, <3>2 DEF Remember, TypeInv, TypeOK, world, Running
  <2>. QED BY <1>9, <2>1, <2>2 DEF Remember
<1>10. CASE Crash
  <2>1. segments' \in [Numbers -> Segment]
    <3>1. CASE UNCHANGED segments
      BY <3>1 DEF TypeInv, TypeOK
    <3>2. CASE pc = "writing" /\ segments' = [segments EXCEPT ![current] = Torn(@)]
      BY <3>2, TornFields DEF TypeInv, TypeOK, Running
    <3>. QED BY <1>10, <3>1, <3>2 DEF Crash
  <2>2. crashes' \in Nat
    BY <1>10 DEF Crash, TypeInv, TypeOK
  <2>3. <<>> \in Seq(Events)
    OBVIOUS
  <2>. QED BY <1>10, <2>1, <2>2, <2>3 DEF Crash, GoDown, TypeInv, TypeOK, Running
<1>11. CASE Corrupt
  <2>1. PICK n \in Present : segments' = [segments EXCEPT ![n].corrupt = TRUE]
    BY <1>11 DEF Corrupt
  <2>2. n \in Numbers /\ segments[n] \in Segment
    BY DEF Present, TypeInv, TypeOK
  <2>3. [segments[n] EXCEPT !.corrupt = TRUE] \in Segment
    BY <2>2 DEF Segment
  <2>4. segments' = [segments EXCEPT ![n] = [segments[n] EXCEPT !.corrupt = TRUE]]
    BY <2>1, <2>2 DEF TypeInv, TypeOK
  <2>5. segments' \in [Numbers -> Segment]
    BY <2>2, <2>3, <2>4 DEF TypeInv, TypeOK
  <2>6. corruptions' \in Nat
    BY <1>11 DEF Corrupt, TypeInv, TypeOK
  <2>. QED BY <1>11, <2>5, <2>6 DEF Corrupt, TypeInv, TypeOK, process, Running
<1>12. CASE Tick
  BY <1>12 DEF Tick, TypeInv, TypeOK, disk, process, Running
<1>13. CASE UNCHANGED vars
  BY <1>13 DEF TypeInv, TypeOK, vars, disk, process, world, Running
<1>. QED
  BY <1>1, <1>2, <1>3, <1>4, <1>5, <1>6, <1>7, <1>8, <1>9, <1>10, <1>11, <1>12, <1>13
     DEF Next, StoreStep

\* The types hold from the empty directory on.
LEMMA TypeInit == Init => TypeInv
<1>. SUFFICES ASSUME Init
              PROVE  TypeInv
  OBVIOUS
<1>1. clock \in Nat /\ segments \in [Numbers -> Segment]
  BY EmptyFields DEF Init
<1>2. MaxSegments \in Nat \ {0} /\ <<>> \in Seq(Events)
  BY ConstantsAssumption DEF ConstantsAssumption
<1>. QED BY <1>1, <1>2 DEF Init, TypeInv, TypeOK, Running

LEMMA TypeInvariant == Spec => []TypeInv
BY TypeInit, TypeStep, PTL DEF Spec

\* The types of the store's variables, in every crash and restart
\* (store.py as a whole).
THEOREM TypeCorrect == Spec => []TypeOK
<1>1. TypeInv => TypeOK
  BY DEF TypeInv
<1>. QED BY <1>1, TypeInvariant, PTL

-----------------------------------------------------------------------------
(* The open segment                                                        *)

\* Numbers are never used again while the process lives, so the segment it
\* opened was not there; the record about to be written fits in it.
SegmentInv ==
    /\ pc \in Running \cup {"recovering"} => \A n \in Present : n < sequence
    /\ OpenSegmentIsWhole
    /\ pc = "writing" => Len(segments[current].records) + 1 <= SegmentBytes

LEMMA SegmentStep == TypeInv /\ SegmentInv /\ [Next]_vars => SegmentInv'
<1>. SUFFICES ASSUME TypeInv, SegmentInv, [Next]_vars
              PROVE  SegmentInv'
  OBVIOUS
<1>. USE ConstantsAssumption
<1>0. /\ MaxSegments \in Nat \ {0} /\ SegmentBytes \in Nat \ {0}
      /\ sequence \in Nat /\ Present \subseteq Numbers /\ Numbers \subseteq Nat
      /\ segments \in [Numbers -> Segment]
  BY DEF ConstantsAssumption, TypeInv, TypeOK, Present, Numbers
<1>1. CASE Boot
  <2>1. Present' = Present
    BY <1>1 DEF Boot, disk, Present
  <2>2. ASSUME NEW n \in Present
        PROVE  n < NextSequence
    <3>1. Highest(Present) \in Present /\ n <= Highest(Present)
      BY <1>0, HighestIsTop
    <3>2. Highest(Present) \in Nat /\ n \in Nat
      BY <1>0, <3>1
    <3>3. NextSequence = Highest(Present) + 1
      BY DEF NextSequence
    <3>. QED BY <3>1, <3>2, <3>3
  <2>. QED BY <1>1, <2>1, <2>2 DEF Boot, SegmentInv, OpenSegmentIsWhole, Running
<1>2. CASE RecoverSegment
  <2>1. Present' \subseteq Present
    <3>1. CASE UNCHANGED disk
      BY <3>1 DEF Present, disk
    <3>2. CASE segments' = [segments EXCEPT ![Lowest(unread)] = NoSegment]
      BY <1>0, <3>2 DEF Present, NoSegment
    <3>. QED BY <1>2, <3>1, <3>2 DEF RecoverSegment
  <2>. QED BY <1>2, <2>1 DEF RecoverSegment, SegmentInv, OpenSegmentIsWhole, Running
<1>3. ASSUME OpenSegment, sequence <= MaxSegments, \A n \in Present : n < sequence
      PROVE  /\ \A n \in Present' : n < sequence'
             /\ segments'[current'].exists
             /\ ~segments'[current'].torn /\ ~segments'[current'].corrupt
             /\ Len(segments'[current'].records) = 0
  <2>1. sequence \notin Present
    BY <1>0, <1>3
  <2>2. /\ Present' \subseteq Present \cup {sequence}
        /\ sequence' = sequence + 1 /\ current' = sequence
        /\ segments'[sequence].exists
        /\ ~segments'[sequence].torn /\ ~segments'[sequence].corrupt
        /\ Len(segments'[sequence].records) = 0
    BY <1>3, <2>1, OpenSegmentFields DEF TypeInv
  <2>3. \A n \in Present' : n < sequence'
    BY <1>0, <1>3, <2>2
  <2>. QED BY <2>2, <2>3
<1>4. CASE StartWriting
  <2>1. OpenSegment /\ sequence <= MaxSegments /\ \A n \in Present : n < sequence
    BY <1>4 DEF StartWriting, TypeInv, SegmentInv
  <2>. QED BY <1>0, <1>3, <1>4, <2>1 DEF StartWriting, SegmentInv, OpenSegmentIsWhole, Running
<1>5. CASE WriteRecord
  <2>. DEFINE w == Written(segments[current])
  <2>1. /\ pc = "writing" /\ current \in Numbers /\ segments[current] \in Segment
        /\ pending \in Events /\ clock \in Nat
    BY <1>5 DEF WriteRecord, TypeInv, TypeOK, Running
  <2>2. /\ w.exists = segments[current].exists /\ w.torn = segments[current].torn
        /\ w.corrupt = segments[current].corrupt
        /\ Len(w.records) = Len(segments[current].records) + 1
    BY <2>1, WrittenFields
  <2>. HIDE DEF w
  <2>3. segments' = [segments EXCEPT ![current] = w]
    BY <1>5 DEF WriteRecord, w
  <2>4. Present' = Present
    BY <1>0, <2>1, <2>2, <2>3 DEF Present
  <2>5. segments'[current] = w
    BY <1>0, <2>1, <2>3
  <2>. QED
    BY <1>5, <2>1, <2>2, <2>4, <2>5 DEF WriteRecord, SegmentInv, OpenSegmentIsWhole, Running
<1>6. CASE Unlink
  <2>. DEFINE others == Present \ {current}
  <2>1. Victims \subseteq others
    <3>1. Expired \subseteq others
      BY DEF Expired
    <3>2. Expired # {} => Lowest(Expired) \in Expired
      BY <1>0, <3>1, LowestIsBottom
    <3>3. others # {} => Lowest(others) \in others
      BY <1>0, LowestIsBottom
    <3>. HIDE DEF others
    <3>. QED BY <3>1, <3>2, <3>3 DEF Victims, others
  <2>2. PICK n \in Present \ {current} : segments' = [segments EXCEPT ![n] = NoSegment]
    BY <1>6, <2>1 DEF Unlink
  <2>3. Present' \subseteq Present
    BY <1>0, <2>2 DEF Present, NoSegment
  <2>4. segments'[current] = segments[current]
    BY <1>0, <1>6, <2>2 DEF Unlink, TypeInv, Running
  <2>. QED
    BY <1>6, <2>3, <2>4 DEF Unlink, process, SegmentInv, OpenSegmentIsWhole, Running
<1>7. CASE BoundsEnforced
  <2>1. Present' = Present
    BY <1>7 DEF BoundsEnforced, disk, Present
  <2>. QED
    BY <1>7, <2>1 DEF BoundsEnforced, disk, SegmentInv, OpenSegmentIsWhole, Running
<1>8. CASE UpdateMemory
  <2>1. Present' = Present
    BY <1>8 DEF UpdateMemory, disk, Present
  <2>. QED BY <1>8, <2>1 DEF UpdateMemory, disk, SegmentInv, OpenSegmentIsWhole, Running
<1>9. ASSUME NEW e \in Events, Remember(e)
      PROVE  SegmentInv'
  <2>1. CASE ~MustRotate /\ UNCHANGED <<segments, current, sequence>>
    <3>1. Len(segments[current].records) + 1 <= SegmentBytes
      <4>1. segments[current].records \in Seq(Events) /\ ~segments[current].torn
        BY <1>0, <1>9 DEF Remember, TypeInv, SegmentInv, OpenSegmentIsWhole, Running, Segment
      <4>2. Len(segments[current].records) \in Nat
        BY <4>1, LenProperties
      <4>. QED BY <1>0, <2>1, <4>1, <4>2 DEF MustRotate, Size
    <3>2. Present' = Present
      BY <2>1 DEF Present
    <3>. QED
      BY <1>9, <2>1, <3>1, <3>2 DEF Remember, SegmentInv, OpenSegmentIsWhole, Running
  <2>2. CASE sequence <= MaxSegments /\ OpenSegment
    <3>1. \A n \in Present : n < sequence
      BY <1>9 DEF Remember, SegmentInv, Running
    <3>. QED
      BY <1>0, <1>3, <1>9, <2>2, <3>1 DEF Remember, SegmentInv, OpenSegmentIsWhole, Running
  <2>. QED BY <1>9, <2>1, <2>2 DEF Remember
<1>10. CASE WriteRaises
  BY <1>10 DEF WriteRaises, SegmentInv, OpenSegmentIsWhole, Running
<1>11. CASE Crash
  BY <1>11 DEF Crash, GoDown, SegmentInv, OpenSegmentIsWhole, Running
<1>12. CASE Corrupt
  BY <1>12 DEF Corrupt, process, SegmentInv, OpenSegmentIsWhole, Running
<1>13. CASE Tick \/ UNCHANGED vars
  <2>1. UNCHANGED <<pc, segments, current, sequence>>
    BY <1>13 DEF Tick, vars, disk, process
  <2>2. Present' = Present
    BY <2>1 DEF Present
  <2>. QED BY <2>1, <2>2 DEF SegmentInv, OpenSegmentIsWhole, Running
<1>. QED
  BY <1>1, <1>2, <1>4, <1>5, <1>6, <1>7, <1>8, <1>9, <1>10, <1>11, <1>12, <1>13
     DEF Next, StoreStep

LEMMA SegmentInvariant == Spec => []SegmentInv
<1>1. Init => SegmentInv
  BY DEF Init, SegmentInv, OpenSegmentIsWhole, Running
<1>. QED BY <1>1, TypeInvariant, SegmentStep, PTL DEF Spec

\* The segment being written is a whole file of this process, within the
\* segment size (store.py _next_sequence, _open_segment, append).
THEOREM SegmentCorrect == Spec => []OpenSegmentIsWhole
<1>1. SegmentInv => OpenSegmentIsWhole
  BY DEF SegmentInv
<1>. QED BY <1>1, SegmentInvariant, PTL

-----------------------------------------------------------------------------
(* The window of duplicates                                                *)

\* Once the process serves, the ids are kept in the order of the memory and
\* within its window; while it recovers, nothing is suppressed.
MemoryInv ==
    /\ Len(memory) <= Window
    /\ pc # "recovering" => order = memory
    /\ pc = "recovering" => ids = {}
    /\ ids \subseteq Elements(memory)

\* Remembering one more event: what leaves the window leaves the set.
LEMMA RememberKeepsWindow ==
    ASSUME NEW s \in Seq(Events), NEW e \in Events, NEW kept \in SUBSET Elements(s),
           Len(s) <= Window, Window \in Nat \ {0}
    PROVE  (IF Len(s) = Window THEN kept \ {Head(s)} ELSE kept) \cup {e}
               \subseteq Elements(Newest(Append(s, e)))
<1>. DEFINE t == Append(s, e)
            n == Len(s)
<1>1. /\ t \in Seq(Events) /\ Len(t) = n + 1 /\ n \in Nat
      /\ \A i \in 1..n : t[i] = s[i]
      /\ t[n + 1] = e
  BY AppendProperties, LenProperties
<1>. HIDE DEF t
<1>2. CASE n < Window
  <2>1. Newest(t) = t /\ n # Window
    BY <1>1, <1>2 DEF Newest
  <2>2. kept \subseteq Elements(t)
    BY <1>1 DEF Elements
  <2>3. e \in Elements(t)
    BY <1>1 DEF Elements
  <2>. QED BY <2>1, <2>2, <2>3 DEF t
<1>3. CASE n = Window
  <2>. DEFINE u == SubSeq(t, 2, n + 1)
  <2>1. Newest(t) = u
    BY <1>1, <1>3 DEF Newest
  <2>2. Len(u) = n /\ \A i \in 1..n : u[i] = t[i + 1]
    <3>1. \A i \in 2..(n + 1) : t[i] \in Events
      BY <1>1, ElementOfSeq
    <3>2. 2 <= n + 1 /\ (n + 1) - 2 + 1 = n /\ n + 1 \in Int
      BY <1>1, <1>3
    <3>3. /\ Len(SubSeq(t, 2, n + 1)) = n
          /\ \A i \in 1..n : SubSeq(t, 2, n + 1)[i] = t[2 + i - 1]
      BY <3>1, <3>2, SubSeqProperties
    <3>4. \A i \in 1..n : 2 + i - 1 = i + 1
      BY <1>1
    <3>. QED BY <3>3, <3>4
  <2>. HIDE DEF u
  <2>3. ASSUME NEW k \in kept, k # Head(s)
        PROVE  k \in Elements(u)
    <3>1. PICK i \in 1..n : s[i] = k
      BY DEF Elements
    <3>2. i # 1
      BY <2>3, <3>1
    <3>3. i - 1 \in 1..n /\ (i - 1) + 1 = i
      BY <1>1, <3>1, <3>2
    <3>4. u[i - 1] = k
      BY <1>1, <2>2, <3>1, <3>3
    <3>. QED BY <2>2, <3>3, <3>4 DEF Elements
  <2>4. e \in Elements(u)
    <3>1. n \in 1..n
      BY <1>1, <1>3
    <3>. QED BY <1>1, <2>2, <3>1 DEF Elements
  <2>. QED BY <1>3, <2>1, <2>3, <2>4 DEF t
<1>. QED BY <1>1, <1>2, <1>3

LEMMA MemoryStep == TypeInv /\ MemoryInv /\ [Next]_vars => MemoryInv'
<1>. SUFFICES ASSUME TypeInv, MemoryInv, [Next]_vars
              PROVE  MemoryInv'
  OBVIOUS
<1>. USE ConstantsAssumption
<1>0. Window \in Nat \ {0} /\ memory \in Seq(Events) /\ order \in Seq(Events)
  BY DEF ConstantsAssumption, TypeInv, TypeOK
<1>1. CASE Boot \/ Crash
  <2>1. /\ memory' = <<>> /\ order' = <<>> /\ ids' = {}
        /\ Len(<<>>) <= Window
    BY <1>0, <1>1 DEF Boot, Crash, GoDown
  <2>. QED BY <2>1 DEF MemoryInv
<1>2. CASE RecoverSegment
  <2>1. Lowest(unread) \in Numbers
    BY <1>2, LowestIsBottom DEF RecoverSegment, TypeInv, TypeOK, ConstantsAssumption
  <2>2. segments[Lowest(unread)].records \in Seq(Events)
    BY <2>1 DEF TypeInv, TypeOK, Segment
  <2>3. Len(memory') <= Window
    BY <1>0, <1>2, <2>2, ConcatProperties, NewestProperties DEF RecoverSegment, MemoryInv
  <2>. QED BY <1>2, <2>3 DEF RecoverSegment, MemoryInv, Elements
<1>3. CASE StartWriting
  <2>1. order' = memory /\ memory' = memory
    BY <1>0, <1>3, NewestProperties DEF StartWriting, MemoryInv
  <2>. QED BY <1>3, <2>1 DEF StartWriting, MemoryInv
<1>4. CASE UpdateMemory
  <2>1. order = memory /\ pending \in Events /\ ids \in SUBSET Elements(memory)
    BY <1>4 DEF UpdateMemory, MemoryInv, TypeInv
  <2>2. memory' = order' /\ order' = Newest(Append(order, pending)) /\ pc' = "idle"
    BY <1>4, <2>1 DEF UpdateMemory
  <2>3. Append(order, pending) \in Seq(Events)
    BY <1>0, <2>1, AppendProperties
  <2>4. Len(order') <= Window
    BY <1>0, <2>2, <2>3, NewestProperties
  <2>5. ids' \subseteq Elements(order')
    BY <1>0, <1>4, <2>1, <2>2, RememberKeepsWindow DEF UpdateMemory, IdsAfter, MemoryInv
  <2>. QED BY <2>2, <2>4, <2>5 DEF MemoryInv
<1>5. ASSUME NEW e \in Events, Remember(e)
      PROVE  MemoryInv'
  BY <1>5 DEF Remember, MemoryInv
<1>6. CASE WriteRecord \/ WriteRaises \/ BoundsEnforced
  BY <1>6 DEF WriteRecord, WriteRaises, BoundsEnforced, MemoryInv
<1>7. CASE Unlink \/ Corrupt \/ Tick \/ UNCHANGED vars
  BY <1>7 DEF Unlink, Corrupt, Tick, vars, process, MemoryInv
<1>. QED
  BY <1>1, <1>2, <1>3, <1>4, <1>5, <1>6, <1>7 DEF Next, StoreStep

\* An event that remember() refuses as a duplicate is one query() still
\* serves, for every window (store.py remember, query).
THEOREM SuppressionCorrect == Spec => []SuppressesOnlyKnown
<1>1. Init => MemoryInv
  <2>1. Len(<<>>) <= Window
    BY ConstantsAssumption DEF ConstantsAssumption
  <2>. QED BY <2>1 DEF Init, MemoryInv
<1>2. MemoryInv => SuppressesOnlyKnown
  BY DEF MemoryInv, SuppressesOnlyKnown
<1>. QED BY <1>1, <1>2, TypeInvariant, MemoryStep, PTL DEF Spec

-----------------------------------------------------------------------------
(* Sequences read from their end                                           *)

\* The element i places before the last one.
Back(s, i) == s[Len(s) - i]

\* Two sequences that agree from their end are one.
LEMMA BackEqual ==
    ASSUME NEW s \in Seq(Events), NEW t \in Seq(Events), Len(s) = Len(t),
           \A i \in 0..(Len(s) - 1) : Back(s, i) = Back(t, i)
    PROVE  s = t
<1>1. Len(s) \in Nat
  BY LenProperties
<1>2. ASSUME NEW k \in 1..Len(s)
      PROVE  s[k] = t[k]
  <2>1. Len(s) - k \in 0..(Len(s) - 1) /\ Len(s) - (Len(s) - k) = k
    BY <1>1
  <2>2. Back(s, Len(s) - k) = Back(t, Len(s) - k)
    BY <2>1
  <2>. QED BY <2>1, <2>2 DEF Back
<1>. QED BY <1>2, SeqEqual

\* The end of a concatenation is the end of its second part.
LEMMA ConcatBack ==
    ASSUME NEW s \in Seq(Events), NEW t \in Seq(Events)
    PROVE  /\ s \o t \in Seq(Events) /\ Len(s \o t) = Len(s) + Len(t)
           /\ Len(s) \in Nat /\ Len(t) \in Nat
           /\ \A i \in 0..(Len(t) - 1) : Back(s \o t, i) = Back(t, i)
           /\ \A i \in Len(t)..(Len(s) + Len(t) - 1) : Back(s \o t, i) = Back(s, i - Len(t))
<1>. DEFINE m == Len(s)
            n == Len(t)
            u == s \o t
<1>1. /\ u \in Seq(Events) /\ Len(u) = m + n /\ m \in Nat /\ n \in Nat
      /\ \A i \in 1..(m + n) : u[i] = IF i <= m THEN s[i] ELSE t[i - m]
  BY ConcatProperties, LenProperties
<1>. HIDE DEF u
<1>2. ASSUME NEW i \in 0..(n - 1)
      PROVE  Back(u, i) = Back(t, i)
  <2>1. (m + n) - i \in 1..(m + n) /\ ~((m + n) - i <= m) /\ ((m + n) - i) - m = n - i
    BY <1>1
  <2>. QED BY <1>1, <2>1 DEF Back
<1>3. ASSUME NEW i \in n..(m + n - 1)
      PROVE  Back(u, i) = Back(s, i - n)
  <2>1. (m + n) - i \in 1..(m + n) /\ (m + n) - i <= m /\ (m + n) - i = m - (i - n)
    BY <1>1
  <2>. QED BY <1>1, <2>1 DEF Back
<1>. QED BY <1>1, <1>2, <1>3 DEF u

\* What is appended comes last.
LEMMA AppendBack ==
    ASSUME NEW s \in Seq(Events), NEW e \in Events
    PROVE  /\ Append(s, e) \in Seq(Events)
           /\ Len(s) \in Nat /\ Len(Append(s, e)) = Len(s) + 1
           /\ Back(Append(s, e), 0) = e
           /\ \A i \in 1..Len(s) : Back(Append(s, e), i) = Back(s, i - 1)
<1>. DEFINE m == Len(s)
            u == Append(s, e)
<1>1. /\ u \in Seq(Events) /\ Len(u) = m + 1 /\ m \in Nat
      /\ \A i \in 1..m : u[i] = s[i]
      /\ u[m + 1] = e
  BY AppendProperties, LenProperties
<1>. HIDE DEF u
<1>2. Back(u, 0) = e
  <2>1. (m + 1) - 0 = m + 1
    BY <1>1
  <2>. QED BY <1>1, <2>1 DEF Back
<1>3. ASSUME NEW i \in 1..m
      PROVE  Back(u, i) = Back(s, i - 1)
  <2>1. (m + 1) - i \in 1..m /\ (m + 1) - i = m - (i - 1)
    BY <1>1
  <2>. QED BY <1>1, <2>1 DEF Back
<1>. QED BY <1>1, <1>2, <1>3 DEF u

\* A deque with maxlen is the end of what went into it.
LEMMA NewestBack ==
    ASSUME NEW s \in Seq(Events), Window \in Nat \ {0}
    PROVE  /\ Newest(s) \in Seq(Events)
           /\ Len(s) \in Nat
           /\ Len(Newest(s)) = IF Len(s) > Window THEN Window ELSE Len(s)
           /\ \A i \in 0..(Window - 1) : i < Len(s) => Back(Newest(s), i) = Back(s, i)
<1>. DEFINE m == Len(s)
<1>1. m \in Nat
  BY LenProperties
<1>2. CASE m <= Window
  <2>1. Newest(s) = s /\ ~(m > Window)
    BY <1>1, <1>2 DEF Newest
  <2>. QED BY <1>1, <2>1
<1>3. CASE m > Window
  <2>. DEFINE first == m - Window + 1
              u == SubSeq(s, first, m)
  <2>1. first \in 1..m /\ first <= m /\ (m - first) + 1 = Window
    BY <1>1, <1>3
  <2>2. \A i \in first..m : s[i] \in Events
    <3>1. \A i \in 1..m : s[i] \in Events
      BY ElementOfSeq
    <3>. HIDE DEF first
    <3>. QED BY <1>1, <2>1, <3>1
  <2>. HIDE DEF first
  <2>3. u \in Seq(Events) /\ Len(u) = Window /\ \A i \in 1..Window : u[i] = s[first + i - 1]
    <3>1. first \in Int /\ m \in Int
      BY <1>1, <2>1
    <3>. HIDE DEF m
    <3>. QED BY <2>1, <2>2, <3>1, SubSeqProperties
  <2>4. Newest(s) = u
    BY <1>3 DEF Newest, first
  <2>. HIDE DEF u
  <2>5. ASSUME NEW i \in 0..(Window - 1)
        PROVE  Back(u, i) = Back(s, i)
    <3>1. Window - i \in 1..Window /\ first + (Window - i) - 1 = m - i
      BY <1>1, <2>1
    <3>. QED BY <2>3, <3>1 DEF Back
  <2>. QED BY <1>1, <1>3, <2>3, <2>4, <2>5
<1>. QED BY <1>1, <1>2, <1>3

\* A deque fed from a deque holds what it would hold fed from the start.
LEMMA NewestOfNewest ==
    ASSUME NEW s \in Seq(Events), NEW t \in Seq(Events), Window \in Nat \ {0}
    PROVE  Newest(Newest(s) \o t) = Newest(s \o t)
<1>. DEFINE d == Newest(s)
            x == d \o t
            y == s \o t
            m == Len(s)
            n == Len(t)
            w == Window
<1>1. /\ d \in Seq(Events) /\ m \in Nat
      /\ Len(d) = IF m > w THEN w ELSE m
      /\ \A i \in 0..(w - 1) : i < m => Back(d, i) = Back(s, i)
  BY NewestBack
<1>. HIDE DEF d
<1>2. /\ x \in Seq(Events) /\ Len(x) = Len(d) + n /\ n \in Nat
      /\ \A i \in 0..(n - 1) : Back(x, i) = Back(t, i)
      /\ \A i \in n..(Len(d) + n - 1) : Back(x, i) = Back(d, i - n)
  BY <1>1, ConcatBack
<1>3. /\ y \in Seq(Events) /\ Len(y) = m + n
      /\ \A i \in 0..(n - 1) : Back(y, i) = Back(t, i)
      /\ \A i \in n..(m + n - 1) : Back(y, i) = Back(s, i - n)
  BY ConcatBack
<1>. HIDE DEF x, y
<1>4. /\ Newest(x) \in Seq(Events)
      /\ Len(Newest(x)) = IF Len(x) > w THEN w ELSE Len(x)
      /\ \A i \in 0..(w - 1) : i < Len(x) => Back(Newest(x), i) = Back(x, i)
  BY <1>2, NewestBack
<1>5. /\ Newest(y) \in Seq(Events)
      /\ Len(Newest(y)) = IF Len(y) > w THEN w ELSE Len(y)
      /\ \A i \in 0..(w - 1) : i < Len(y) => Back(Newest(y), i) = Back(y, i)
  BY <1>3, NewestBack
<1>6. Len(Newest(x)) = Len(Newest(y))
  <2>1. ASSUME NEW a \in Nat, NEW b \in Nat, NEW c \in Nat \ {0},
               NEW ld \in Nat, NEW lx \in Nat, NEW ly \in Nat,
               ld = (IF a > c THEN c ELSE a), lx = ld + b, ly = a + b
        PROVE  (IF lx > c THEN c ELSE lx) = (IF ly > c THEN c ELSE ly)
    BY <2>1
  <2>2. Len(d) \in Nat /\ Len(x) \in Nat /\ Len(y) \in Nat
    BY <1>1, <1>2, <1>3, LenProperties
  <2>3. (IF Len(x) > w THEN w ELSE Len(x)) = (IF Len(y) > w THEN w ELSE Len(y))
    BY <1>1, <1>2, <1>3, <2>1, <2>2
  <2>. QED BY <1>4, <1>5, <2>3
<1>7. ASSUME NEW i \in 0..(Len(Newest(x)) - 1)
      PROVE  Back(Newest(x), i) = Back(Newest(y), i)
  <2>1. i \in 0..(w - 1) /\ i < Len(x) /\ i < Len(y)
    BY <1>1, <1>2, <1>3, <1>4
  <2>2. Back(x, i) = Back(y, i)
    <3>1. CASE i < n
      <4>1. i \in 0..(n - 1)
        BY <1>2, <2>1, <3>1
      <4>. QED BY <1>2, <1>3, <4>1
    <3>2. CASE ~(i < n)
      <4>1. /\ i \in n..(Len(d) + n - 1) /\ i \in n..(m + n - 1)
            /\ i - n \in 0..(w - 1) /\ i - n < m
        BY <1>1, <1>2, <1>3, <2>1, <3>2
      <4>. QED BY <1>1, <1>2, <1>3, <4>1
    <3>. QED BY <3>1, <3>2
  <2>. QED BY <1>4, <1>5, <2>1, <2>2
<1>8. Newest(x) = Newest(y)
  BY <1>4, <1>5, <1>6, <1>7, BackEqual
<1>. QED BY <1>8 DEF x, y, d

-----------------------------------------------------------------------------
(* The window: the newest events of a log                                  *)

\* What mem serves includes the newest Window events of log, in their order.
Shows(mem, log) ==
    \A i \in 0..(Window - 1) : i < Len(log) => i < Len(mem) /\ Back(mem, i) = Back(log, i)

\* No event is twice among the newest Window events of a log.
Distinct(log) ==
    \A i, j \in 0..(Window - 1) : i < j /\ j < Len(log) => Back(log, i) # Back(log, j)

\* An event is not among them.
Fresh(e, log) == \A i \in 0..(Window - 1) : i < Len(log) => Back(log, i) # e

\* A deque with maxlen shows what went into it.
LEMMA NewestShows ==
    ASSUME NEW s \in Seq(Events), Window \in Nat \ {0}
    PROVE  Shows(Newest(s), s)
<1>1. /\ Len(s) \in Nat
      /\ Len(Newest(s)) = IF Len(s) > Window THEN Window ELSE Len(s)
      /\ \A i \in 0..(Window - 1) : i < Len(s) => Back(Newest(s), i) = Back(s, i)
  BY NewestBack
<1>2. ASSUME NEW i \in 0..(Window - 1), i < Len(s)
      PROVE  i < Len(Newest(s))
  BY <1>1, <1>2
<1>. QED BY <1>1, <1>2 DEF Shows

\* Appending to both keeps the log shown.
LEMMA ShowsAppend ==
    ASSUME NEW mem \in Seq(Events), NEW log \in Seq(Events), NEW e \in Events,
           Window \in Nat \ {0}, Shows(mem, log)
    PROVE  Shows(Newest(Append(mem, e)), Append(log, e))
<1>. DEFINE x == Append(mem, e)
            y == Append(log, e)
<1>1. /\ x \in Seq(Events) /\ Len(x) = Len(mem) + 1 /\ Len(mem) \in Nat
      /\ Back(x, 0) = e /\ \A i \in 1..Len(mem) : Back(x, i) = Back(mem, i - 1)
  BY AppendBack
<1>2. /\ Len(y) = Len(log) + 1 /\ Len(log) \in Nat
      /\ Back(y, 0) = e /\ \A i \in 1..Len(log) : Back(y, i) = Back(log, i - 1)
  BY AppendBack
<1>. HIDE DEF x, y
<1>3. Shows(Newest(x), x)
  BY <1>1, NewestShows
<1>4. ASSUME NEW i \in 0..(Window - 1), i < Len(y)
      PROVE  i < Len(x) /\ Back(x, i) = Back(y, i)
  <2>1. CASE i = 0
    BY <1>1, <1>2, <2>1
  <2>2. CASE i # 0
    <3>1. i \in 1..Len(log) /\ i - 1 \in 0..(Window - 1) /\ i - 1 < Len(log)
      BY <1>2, <1>4, <2>2
    <3>2. i - 1 < Len(mem) /\ Back(mem, i - 1) = Back(log, i - 1)
      BY <3>1 DEF Shows
    <3>3. i \in 1..Len(mem) /\ i < Len(x)
      BY <1>1, <3>1, <3>2
    <3>. QED BY <1>1, <1>2, <3>1, <3>2, <3>3
  <2>. QED BY <2>1, <2>2
<1>5. Shows(Newest(x), y)
  <2>1. SUFFICES ASSUME NEW i \in 0..(Window - 1), i < Len(y)
                 PROVE  i < Len(Newest(x)) /\ Back(Newest(x), i) = Back(y, i)
    BY DEF Shows
  <2>2. i < Len(x) /\ Back(x, i) = Back(y, i)
    BY <1>4, <2>1
  <2>3. i < Len(Newest(x)) /\ Back(Newest(x), i) = Back(x, i)
    BY <1>3, <2>2 DEF Shows
  <2>. QED BY <2>2, <2>3
<1>. QED BY <1>5 DEF x, y

\* A log that lost its old end is still shown, and still has no event twice.
LEMMA CutKeeps ==
    ASSUME NEW old \in Seq(Events), NEW log \in Seq(Events), Window \in Nat \ {0}
    PROVE  /\ \A mem : Shows(mem, old \o log) => Shows(mem, log)
           /\ Distinct(old \o log) => Distinct(log)
<1>1. /\ Len(old \o log) = Len(old) + Len(log)
      /\ Len(old) \in Nat /\ Len(log) \in Nat
      /\ \A i \in 0..(Len(log) - 1) : Back(old \o log, i) = Back(log, i)
  BY ConcatBack
<1>2. ASSUME NEW i \in 0..(Window - 1), i < Len(log)
      PROVE  i < Len(old \o log) /\ Back(old \o log, i) = Back(log, i)
  <2>1. i \in 0..(Len(log) - 1)
    BY <1>1, <1>2
  <2>. QED BY <1>1, <2>1
<1>3. ASSUME NEW mem, Shows(mem, old \o log)
      PROVE  Shows(mem, log)
  BY <1>2, <1>3 DEF Shows
<1>4. ASSUME Distinct(old \o log)
      PROVE  Distinct(log)
  <2>1. SUFFICES ASSUME NEW i \in 0..(Window - 1), NEW j \in 0..(Window - 1), i < j, j < Len(log)
                 PROVE  Back(log, i) # Back(log, j)
    BY DEF Distinct
  <2>2. i < Len(log)
    BY <1>1, <2>1
  <2>. QED BY <1>2, <1>4, <2>1, <2>2 DEF Distinct
<1>. QED BY <1>3, <1>4

\* s is the end of t, read from the end.
Ends(s, t) == Len(s) <= Len(t) /\ \A i \in 0..(Len(s) - 1) : Back(s, i) = Back(t, i)

LEMMA EndsIsSuffix ==
    ASSUME NEW s \in Seq(Events), NEW t \in Seq(Events), Ends(s, t)
    PROVE  IsSuffixOf(s, t)
<1>. DEFINE m == Len(t)
            first == Len(t) - Len(s) + 1
            u == SubSeq(t, first, m)
<1>1. Len(s) \in Nat /\ m \in Nat /\ Len(s) <= m
  BY LenProperties DEF Ends
<1>2. first \in 1..(m + 1) /\ (m - first) + 1 = Len(s)
  BY <1>1
<1>3. \A i \in first..m : t[i] \in Events
  <2>1. \A i \in 1..m : t[i] \in Events
    BY ElementOfSeq
  <2>. HIDE DEF first
  <2>. QED BY <1>1, <1>2, <2>1
<1>. HIDE DEF first
<1>4. /\ u \in Seq(Events)
      /\ Len(u) = IF first <= m THEN m - first + 1 ELSE 0
      /\ \A i \in 1..(m - first + 1) : u[i] = t[first + i - 1]
  <2>1. first \in Int /\ m \in Int
    BY <1>1, <1>2
  <2>. HIDE DEF m
  <2>. QED BY <1>3, <2>1, SubSeqProperties
<1>5. Len(u) = Len(s)
  BY <1>1, <1>2, <1>4
<1>. HIDE DEF u
<1>6. ASSUME NEW i \in 0..(Len(s) - 1)
      PROVE  Back(s, i) = Back(u, i)
  <2>1. Len(s) - i \in 1..(m - first + 1) /\ first + (Len(s) - i) - 1 = m - i
    BY <1>1, <1>2
  <2>2. u[Len(s) - i] = t[m - i]
    BY <1>4, <2>1
  <2>. QED BY <1>5, <2>2 DEF Back, Ends
<1>7. s = u
  BY <1>4, <1>5, <1>6, BackEqual
<1>. QED BY <1>1, <1>7 DEF IsSuffixOf, u, first

\* The end stays the end when both grow, and when its old part is cut off.
LEMMA EndsGrows ==
    ASSUME NEW s \in Seq(Events), NEW t \in Seq(Events), NEW e \in Events, Ends(s, t)
    PROVE  Ends(Append(s, e), Append(t, e))
<1>. DEFINE x == Append(s, e)
            y == Append(t, e)
<1>1. /\ Len(s) \in Nat /\ Len(x) = Len(s) + 1 /\ Back(x, 0) = e
      /\ \A i \in 1..Len(s) : Back(x, i) = Back(s, i - 1)
  BY AppendBack
<1>2. /\ Len(t) \in Nat /\ Len(y) = Len(t) + 1 /\ Back(y, 0) = e
      /\ \A i \in 1..Len(t) : Back(y, i) = Back(t, i - 1)
  BY AppendBack
<1>. HIDE DEF x, y
<1>3. Len(s) <= Len(t) /\ \A i \in 0..(Len(s) - 1) : Back(s, i) = Back(t, i)
  BY DEF Ends
<1>4. ASSUME NEW i \in 0..(Len(x) - 1)
      PROVE  Back(x, i) = Back(y, i)
  <2>1. CASE i = 0
    BY <1>1, <1>2, <2>1
  <2>2. CASE i # 0
    <3>1. i \in 1..Len(s) /\ i \in 1..Len(t) /\ i - 1 \in 0..(Len(s) - 1)
      BY <1>1, <1>2, <1>3, <2>2
    <3>. QED BY <1>1, <1>2, <1>3, <3>1
  <2>. QED BY <2>1, <2>2
<1>5. Len(x) <= Len(y)
  BY <1>1, <1>2, <1>3
<1>6. Ends(x, y)
  BY <1>4, <1>5 DEF Ends
<1>. QED BY <1>6 DEF x, y

LEMMA EndsCut ==
    ASSUME NEW old \in Seq(Events), NEW s \in Seq(Events), NEW t \in Seq(Events),
           Ends(old \o s, t)
    PROVE  Ends(s, t)
<1>1. /\ Len(old \o s) = Len(old) + Len(s) /\ Len(old) \in Nat /\ Len(s) \in Nat
      /\ \A i \in 0..(Len(s) - 1) : Back(old \o s, i) = Back(s, i)
  BY ConcatBack
<1>2. Len(t) \in Nat /\ Len(old \o s) <= Len(t)
  BY LenProperties DEF Ends
<1>3. \A i \in 0..(Len(old \o s) - 1) : Back(old \o s, i) = Back(t, i)
  BY DEF Ends
<1>4. ASSUME NEW i \in 0..(Len(s) - 1)
      PROVE  Back(s, i) = Back(t, i)
  <2>1. i \in 0..(Len(old \o s) - 1)
    BY <1>1
  <2>. QED BY <1>1, <1>3, <2>1
<1>5. Len(s) <= Len(t)
  BY <1>1, <1>2
<1>. QED BY <1>4, <1>5 DEF Ends

\* An event that is not served is not among the newest of what is shown.
LEMMA UnknownIsFresh ==
    ASSUME NEW mem \in Seq(Events), NEW log \in Seq(Events), NEW e, Window \in Nat \ {0},
           Shows(mem, log), e \notin Elements(mem)
    PROVE  Fresh(e, log)
<1>1. SUFFICES ASSUME NEW i \in 0..(Window - 1), i < Len(log)
               PROVE  Back(log, i) # e
  BY DEF Fresh
<1>2. i < Len(mem) /\ Back(mem, i) = Back(log, i) /\ Len(mem) \in Nat
  BY <1>1, LenProperties DEF Shows
<1>3. Len(mem) - i \in 1..Len(mem)
  BY <1>2
<1>. QED BY <1>2, <1>3 DEF Back, Elements

\* A fresh event keeps the window free of repetitions.
LEMMA DistinctAppend ==
    ASSUME NEW log \in Seq(Events), NEW e \in Events, Window \in Nat \ {0},
           Distinct(log), Fresh(e, log)
    PROVE  Distinct(Append(log, e))
<1>. DEFINE y == Append(log, e)
<1>1. /\ Len(y) = Len(log) + 1 /\ Len(log) \in Nat
      /\ Back(y, 0) = e /\ \A i \in 1..Len(log) : Back(y, i) = Back(log, i - 1)
  BY AppendBack
<1>. HIDE DEF y
<1>2. ASSUME NEW i \in 0..(Window - 1), NEW j \in 0..(Window - 1), i < j, j < Len(y)
      PROVE  Back(y, i) # Back(y, j)
  <2>1. /\ j \in 1..Len(log) /\ j - 1 \in 0..(Window - 1) /\ j - 1 < Len(log)
    BY <1>1, <1>2
  <2>2. Back(y, j) = Back(log, j - 1)
    BY <1>1, <2>1
  <2>3. CASE i = 0
    BY <1>1, <2>1, <2>2, <2>3 DEF Fresh
  <2>4. CASE i # 0
    <3>1. /\ i \in 1..Len(log) /\ i - 1 \in 0..(Window - 1) /\ i - 1 < j - 1
      BY <1>1, <1>2, <2>1, <2>4
    <3>2. Back(y, i) = Back(log, i - 1)
      BY <1>1, <3>1
    <3>. QED BY <2>1, <2>2, <3>1, <3>2 DEF Distinct
  <2>. QED BY <2>3, <2>4
<1>3. Distinct(y)
  BY <1>2 DEF Distinct
<1>. QED BY <1>3 DEF y

\* A deque of a log without repetitions has none.
LEMMA DistinctNewest ==
    ASSUME NEW s \in Seq(Events), Window \in Nat \ {0}, Distinct(s)
    PROVE  Distinct(Newest(s))
<1>1. /\ Len(s) \in Nat
      /\ Len(Newest(s)) = IF Len(s) > Window THEN Window ELSE Len(s)
      /\ \A i \in 0..(Window - 1) : i < Len(s) => Back(Newest(s), i) = Back(s, i)
  BY NewestBack
<1>2. SUFFICES ASSUME NEW i \in 0..(Window - 1), NEW j \in 0..(Window - 1), i < j,
                      j < Len(Newest(s))
               PROVE  Back(Newest(s), i) # Back(Newest(s), j)
  BY DEF Distinct
<1>3. i < Len(s) /\ j < Len(s)
  BY <1>1, <1>2
<1>. QED BY <1>1, <1>2, <1>3 DEF Distinct

\* In a deque without repetitions each event counts once.
LEMMA DistinctCounts ==
    ASSUME NEW s \in Seq(Events), Window \in Nat \ {0}, Len(s) <= Window, Distinct(s)
    PROVE  Cardinality(Elements(s)) = Len(s)
<1>. DEFINE n == Len(s)
<1>1. n \in Nat /\ s \in [1..n -> Events]
  BY LenProperties
<1>2. ASSUME NEW i \in 1..n, NEW j \in 1..n, i < j
      PROVE  s[i] # s[j]
  <2>1. /\ n - j \in 0..(Window - 1) /\ n - i \in 0..(Window - 1)
        /\ n - j < n - i /\ n - i < n
        /\ n - (n - i) = i /\ n - (n - j) = j
    BY <1>1, <1>2
  <2>2. Back(s, n - j) # Back(s, n - i)
    BY <2>1 DEF Distinct
  <2>. QED BY <2>1, <2>2 DEF Back
<1>3. ASSUME NEW i \in 1..n, NEW j \in 1..n, s[i] = s[j]
      PROVE  i = j
  BY <1>1, <1>2, <1>3
<1>4. s \in [1..n -> Elements(s)]
  BY <1>1 DEF Elements
<1>5. \A x \in Elements(s) : \E i \in 1..n : s[i] = x
  BY DEF Elements
<1>6. s \in Bijection(1..n, Elements(s))
  BY <1>3, <1>4, <1>5 DEF Bijection, Injection, Surjection, IsInjective
<1>7. ExistsBijection(1..n, Elements(s))
  BY <1>6 DEF ExistsBijection
<1>. QED BY <1>1, <1>7, FS_CountingElements

\* The ids after one more event are the elements of the window after it: the
\* one that leaves the window leaves the set, and no other.
LEMMA WindowMoves ==
    ASSUME NEW s \in Seq(Events), NEW e \in Events, Window \in Nat \ {0},
           Len(s) <= Window, Distinct(s), e \notin Elements(s)
    PROVE  (IF Len(s) = Window THEN Elements(s) \ {Head(s)} ELSE Elements(s)) \cup {e}
               = Elements(Newest(Append(s, e)))
<1>. DEFINE n == Len(s)
            t == Append(s, e)
<1>1. /\ t \in Seq(Events) /\ Len(t) = n + 1 /\ n \in Nat
      /\ \A i \in 1..n : t[i] = s[i]
      /\ t[n + 1] = e
  BY AppendProperties, LenProperties
<1>. HIDE DEF t
<1>2. CASE n < Window
  <2>1. Newest(t) = t /\ n # Window
    BY <1>1, <1>2 DEF Newest
  <2>2. ASSUME NEW x
        PROVE  x \in Elements(t) <=> x \in Elements(s) \/ x = e
    <3>1. \A i : i \in 1..(n + 1) <=> i \in 1..n \/ i = n + 1
      BY <1>1
    <3>. QED BY <1>1, <3>1 DEF Elements
  <2>. QED BY <2>1, <2>2 DEF t
<1>3. CASE n = Window
  <2>. DEFINE u == SubSeq(t, 2, n + 1)
  <2>1. Newest(t) = u
    BY <1>1, <1>3 DEF Newest
  <2>2. Len(u) = n /\ \A i \in 1..n : u[i] = t[i + 1]
    <3>1. \A i \in 2..(n + 1) : t[i] \in Events
      BY <1>1, ElementOfSeq
    <3>2. 2 <= n + 1 /\ (n + 1) - 2 + 1 = n /\ n + 1 \in Int
      BY <1>1, <1>3
    <3>3. /\ Len(SubSeq(t, 2, n + 1)) = n
          /\ \A i \in 1..n : SubSeq(t, 2, n + 1)[i] = t[2 + i - 1]
      BY <3>1, <3>2, SubSeqProperties
    <3>4. \A i \in 1..n : 2 + i - 1 = i + 1
      BY <1>1
    <3>. QED BY <3>3, <3>4
  <2>. HIDE DEF u
  <2>3. 1 \in 1..n /\ n \in 1..n /\ Head(s) = s[1]
    <3>1. s # <<>>
      BY <1>1, <1>3
    <3>. QED BY <1>1, <1>3, <3>1
  <2>4. ASSUME NEW j \in 2..n
        PROVE  s[j] # Head(s)
    <3>1. /\ n - j \in 0..(Window - 1) /\ n - 1 \in 0..(Window - 1)
          /\ n - j < n - 1 /\ n - 1 < n
          /\ n - (n - j) = j /\ n - (n - 1) = 1
      BY <1>1, <1>3
    <3>2. Back(s, n - j) # Back(s, n - 1)
      BY <3>1 DEF Distinct
    <3>. QED BY <2>3, <3>1, <3>2 DEF Back
  <2>5. ASSUME NEW x
        PROVE  x \in Elements(u) <=> x \in Elements(s) \ {Head(s)} \/ x = e
    <3>1. ASSUME NEW i \in 1..n
          PROVE  u[i] \in Elements(s) \ {Head(s)} \/ u[i] = e
      <4>1. CASE i = n
        BY <1>1, <2>2, <2>3, <4>1
      <4>2. CASE i # n
        <5>1. i + 1 \in 1..n /\ i + 1 \in 2..n
          BY <1>1, <4>2
        <5>2. u[i] = s[i + 1]
          BY <1>1, <2>2, <5>1
        <5>3. s[i + 1] \in Elements(s)
          BY <5>1 DEF Elements
        <5>. QED BY <2>4, <5>1, <5>2, <5>3
      <4>. QED BY <4>1, <4>2
    <3>2. ASSUME NEW i \in 1..n, s[i] # Head(s)
          PROVE  s[i] \in Elements(u)
      <4>1. i # 1
        BY <2>3, <3>2
      <4>2. i - 1 \in 1..n /\ (i - 1) + 1 = i
        BY <1>1, <4>1
      <4>3. u[i - 1] = s[i]
        BY <1>1, <2>2, <4>2
      <4>. QED BY <2>2, <4>2, <4>3 DEF Elements
    <3>3. e \in Elements(u)
      BY <1>1, <2>2, <2>3 DEF Elements
    <3>4. Elements(u) = {u[i] : i \in 1..n} /\ Elements(s) = {s[i] : i \in 1..n}
      BY <2>2 DEF Elements
    <3>. QED BY <3>1, <3>2, <3>3, <3>4
  <2>. QED BY <1>3, <2>1, <2>5 DEF t
<1>. QED BY <1>1, <1>2, <1>3

-----------------------------------------------------------------------------
(* The directory                                                           *)

\* What is not there holds nothing; of two segments the lower number was
\* written first, and none in the future.
Orderly(segs, now) ==
    /\ \A n \in Numbers : ~segs[n].exists => segs[n].records = <<>> /\ ~segs[n].torn
    /\ \A n \in Numbers : segs[n].exists => segs[n].mtime <= now
    /\ \A m, n \in Numbers :
         segs[m].exists /\ segs[n].exists /\ m <= n => segs[m].mtime <= segs[n].mtime

\* The open segment has the last number that was given.
DirectoryInv ==
    /\ Orderly(segments, clock)
    /\ pc \in Running => current + 1 = sequence

\* Writing to the highest segment keeps the order, and so does unlinking one.
LEMMA TouchOrderly ==
    ASSUME NEW segs \in [Numbers -> Segment], NEW now \in Nat, Orderly(segs, now),
           NEW c \in Numbers, NEW x \in Segment, x.exists, x.mtime = now,
           MaxSegments \in Nat, \A n \in Numbers : segs[n].exists => n <= c
    PROVE  Orderly([segs EXCEPT ![c] = x], now)
<1>. DEFINE segs2 == [segs EXCEPT ![c] = x]
<1>1. segs2[c] = x /\ \A n \in Numbers \ {c} : segs2[n] = segs[n]
  OBVIOUS
<1>. HIDE DEF segs2
<1>2. \A n \in Numbers : n \in Nat
  BY DEF Numbers
<1>3. ASSUME NEW n \in Numbers
      PROVE  /\ ~segs2[n].exists => segs2[n].records = <<>> /\ ~segs2[n].torn
             /\ segs2[n].exists => segs2[n].mtime <= now
  BY <1>1 DEF Orderly
<1>4. ASSUME NEW m \in Numbers, NEW n \in Numbers, segs2[m].exists, segs2[n].exists, m <= n
      PROVE  segs2[m].mtime <= segs2[n].mtime
  <2>1. CASE n = c
    BY <1>1, <1>3, <1>4, <2>1
  <2>2. CASE n # c
    <3>1. n <= c /\ m # c
      BY <1>1, <1>2, <1>4, <2>2
    <3>. QED BY <1>1, <1>4, <2>2, <3>1 DEF Orderly
  <2>. QED BY <2>1, <2>2
<1>. QED BY <1>3, <1>4 DEF Orderly, segs2

LEMMA RemoveOrderly ==
    ASSUME NEW segs \in [Numbers -> Segment], NEW now \in Nat, Orderly(segs, now),
           NEW c \in Numbers
    PROVE  Orderly([segs EXCEPT ![c] = NoSegment], now)
<1>. DEFINE segs2 == [segs EXCEPT ![c] = NoSegment]
<1>1. segs2[c] = NoSegment /\ \A n \in Numbers \ {c} : segs2[n] = segs[n]
  OBVIOUS
<1>. HIDE DEF segs2
<1>2. ~NoSegment.exists /\ NoSegment.records = <<>> /\ ~NoSegment.torn
  BY DEF NoSegment
<1>3. Orderly(segs2, now)
  BY <1>1, <1>2 DEF Orderly
<1>. QED BY <1>3 DEF segs2

LEMMA DirectoryStep == TypeInv /\ SegmentInv /\ DirectoryInv /\ [Next]_vars => DirectoryInv'
<1>. SUFFICES ASSUME TypeInv, SegmentInv, DirectoryInv, [Next]_vars
              PROVE  DirectoryInv'
  OBVIOUS
<1>0. /\ MaxSegments \in Nat \ {0} /\ clock \in Nat /\ sequence \in Nat
      /\ segments \in [Numbers -> Segment] /\ Orderly(segments, clock)
      /\ \A n \in Numbers : n \in Nat
  BY ConstantsAssumption DEF ConstantsAssumption, TypeInv, TypeOK, DirectoryInv, Numbers
<1>1. CASE Boot \/ BoundsEnforced \/ UpdateMemory
  BY <1>1 DEF Boot, BoundsEnforced, UpdateMemory, disk, world, DirectoryInv, Running
<1>2. CASE RecoverSegment
  <2>1. Lowest(unread) \in Numbers
    BY <1>0, <1>2, LowestIsBottom DEF RecoverSegment, TypeInv, TypeOK
  <2>2. Orderly(segments', clock)
    <3>1. CASE UNCHANGED disk
      BY <1>0, <3>1 DEF disk
    <3>2. CASE segments' = [segments EXCEPT ![Lowest(unread)] = NoSegment]
      BY <1>0, <2>1, <3>2, RemoveOrderly
    <3>. QED BY <1>2, <3>1, <3>2 DEF RecoverSegment
  <2>. QED BY <1>2, <2>2 DEF RecoverSegment, world, DirectoryInv, Running
<1>3. ASSUME OpenSegment, sequence <= MaxSegments, \A n \in Present : n < sequence
      PROVE  Orderly(segments', clock) /\ current' + 1 = sequence'
  <2>1. sequence \in Numbers /\ sequence \notin Present
    BY <1>0, <1>3 DEF TypeInv, TypeOK, Numbers
  <2>2. segments' = [segments EXCEPT ![sequence] = EmptySegment]
    BY <1>3, <2>1, ConstantsAssumption, OpenSegmentFields DEF TypeInv
  <2>3. \A n \in Numbers : segments[n].exists => n <= sequence
    BY <1>0, <1>3 DEF Present
  <2>4. EmptySegment \in Segment /\ EmptySegment.exists /\ EmptySegment.mtime = clock
    BY <1>0, EmptyFields
  <2>5. Orderly(segments', clock)
    BY <1>0, <2>1, <2>2, <2>3, <2>4, TouchOrderly
  <2>6. current' + 1 = sequence'
    BY <1>3 DEF OpenSegment
  <2>. QED BY <2>5, <2>6
<1>4. CASE StartWriting
  <2>1. OpenSegment /\ sequence <= MaxSegments /\ \A n \in Present : n < sequence
    BY <1>4 DEF StartWriting, TypeInv, SegmentInv
  <2>. QED BY <1>3, <1>4, <2>1 DEF StartWriting, world, DirectoryInv
<1>5. ASSUME NEW e \in Events, Remember(e)
      PROVE  DirectoryInv'
  <2>1. CASE UNCHANGED <<segments, current, sequence>>
    BY <1>5, <2>1 DEF Remember, world, DirectoryInv, Running
  <2>2. CASE sequence <= MaxSegments /\ OpenSegment
    <3>1. \A n \in Present : n < sequence
      BY <1>5 DEF Remember, SegmentInv, Running
    <3>. QED BY <1>3, <1>5, <2>2, <3>1 DEF Remember, world, DirectoryInv
  <2>. QED BY <1>5, <2>1, <2>2 DEF Remember
\* What a write leaves of the open segment, written or torn.
<1>6. ASSUME pc = "writing",
             segments' \in {segments, [segments EXCEPT ![current] = Torn(@)],
                            [segments EXCEPT ![current] = Written(@)]}
      PROVE  Orderly(segments', clock)
  <2>1. /\ current \in Numbers /\ segments[current] \in Segment /\ segments[current].exists
        /\ pending \in Events /\ current + 1 = sequence
    BY <1>0, <1>6 DEF TypeInv, SegmentInv, OpenSegmentIsWhole, DirectoryInv, Running
  <2>2. \A n \in Numbers : segments[n].exists => n <= current
    <3>1. \A n \in Present : n < sequence
      BY <1>6 DEF SegmentInv, Running
    <3>2. current \in Nat
      BY <1>0, <2>1
    <3>. QED BY <1>0, <2>1, <3>1, <3>2 DEF Present
  <2>3. CASE segments' = [segments EXCEPT ![current] = Torn(@)]
    <3>1. /\ Torn(segments[current]) \in Segment /\ Torn(segments[current]).exists
          /\ Torn(segments[current]).mtime = clock
      BY <1>0, <2>1, TornFields
    <3>. QED BY <1>0, <2>1, <2>2, <2>3, <3>1, TouchOrderly
  <2>4. CASE segments' = [segments EXCEPT ![current] = Written(@)]
    <3>1. /\ Written(segments[current]) \in Segment /\ Written(segments[current]).exists
          /\ Written(segments[current]).mtime = clock
      BY <1>0, <2>1, WrittenFields
    <3>. QED BY <1>0, <2>1, <2>2, <2>4, <3>1, TouchOrderly
  <2>. QED BY <1>0, <1>6, <2>3, <2>4
<1>7. CASE WriteRecord
  BY <1>6, <1>7 DEF WriteRecord, world, DirectoryInv, Running
<1>8. CASE WriteRaises
  BY <1>6, <1>8 DEF WriteRaises, world, DirectoryInv, Running
<1>9. CASE Crash
  <2>1. Orderly(segments', clock)
    BY <1>0, <1>6, <1>9 DEF Crash
  <2>. QED BY <1>9, <2>1 DEF Crash, GoDown, DirectoryInv, Running
<1>10. CASE Unlink
  <2>1. PICK n \in Victims : segments' = [segments EXCEPT ![n] = NoSegment]
    BY <1>10 DEF Unlink
  <2>2. n \in Numbers
    <3>1. Expired \in SUBSET Numbers /\ Present \ {current} \in SUBSET Numbers
      BY DEF Expired, Present
    <3>2. Expired # {} => Lowest(Expired) \in Numbers
      BY <1>0, <3>1, LowestIsBottom
    <3>3. Present \ {current} # {} => Lowest(Present \ {current}) \in Numbers
      BY <1>0, <3>1, LowestIsBottom
    <3>. QED BY <3>2, <3>3 DEF Victims
  <2>3. Orderly(segments', clock)
    BY <1>0, <2>1, <2>2, RemoveOrderly
  <2>. QED BY <1>10, <2>3 DEF Unlink, process, world, DirectoryInv
<1>11. CASE Corrupt
  <2>1. PICK n \in Present : segments' = [segments EXCEPT ![n].corrupt = TRUE]
    BY <1>11 DEF Corrupt
  <2>. DEFINE x == [segments[n] EXCEPT !.corrupt = TRUE]
  <2>2. n \in Numbers /\ segments[n] \in Segment
    BY <1>0 DEF Present
  <2>3. x.exists = segments[n].exists /\ x.mtime = segments[n].mtime
    BY <2>2, CorruptFields
  <2>4. x.records = segments[n].records /\ x.torn = segments[n].torn
    BY <2>2, CorruptFields
  <2>5. segments'[n] = x /\ \A m \in Numbers \ {n} : segments'[m] = segments[m]
    BY <1>0, <2>1, <2>2
  <2>. HIDE DEF x
  <2>6. Orderly(segments', clock)
    BY <1>0, <2>3, <2>4, <2>5 DEF Orderly
  <2>. QED BY <1>11, <2>6 DEF Corrupt, process, DirectoryInv, Running
<1>12. CASE Tick
  <2>1. clock' = clock + 1 /\ UNCHANGED <<segments, pc, current, sequence>>
    BY <1>12 DEF Tick, disk, process
  <2>2. \A n \in Numbers : segments[n].mtime \in Nat
    BY <1>0 DEF Segment
  <2>3. Orderly(segments, clock + 1)
    BY <1>0, <2>2 DEF Orderly
  <2>. QED BY <2>1, <2>3 DEF DirectoryInv, Running
<1>13. CASE UNCHANGED vars
  BY <1>13 DEF vars, disk, process, world, DirectoryInv, Running
<1>. QED
  BY <1>1, <1>2, <1>4, <1>5, <1>7, <1>8, <1>9, <1>10, <1>11, <1>12, <1>13
     DEF Next, StoreStep

-----------------------------------------------------------------------------
(* What the steps do to the log                                            *)

\* Opening a segment under a number that is free adds nothing.
LEMMA OpenKeepsLog ==
    ASSUME TypeInv, TypeInv', DirectoryInv, OpenSegment, sequence \in Numbers \ Present
    PROVE  Log' = Log
<1>1. /\ segments \in [Numbers -> Segment] /\ segments' \in [Numbers -> Segment]
      /\ clock \in Nat /\ sequence <= MaxSegments
  <2>1. sequence \in Numbers /\ MaxSegments \in Nat
    BY ConstantsAssumption DEF ConstantsAssumption
  <2>2. sequence <= MaxSegments
    BY <2>1 DEF Numbers
  <2>. QED BY <2>2 DEF TypeInv, TypeOK
<1>2. segments' = [segments EXCEPT ![sequence] = EmptySegment]
  BY <1>1, ConstantsAssumption, OpenSegmentFields DEF TypeInv
<1>3. Piece(segments[sequence]) = <<>>
  BY DEF DirectoryInv, Orderly, Present, Piece
<1>4. Piece(EmptySegment) = <<>>
  BY <1>1, EmptyFields DEF Piece
<1>5. \A n \in Numbers : Piece(segments'[n]) = Piece(segments[n])
  BY <1>1, <1>2, <1>3, <1>4
<1>. QED BY <1>1, <1>5, LogStays

\* A record written to the open segment is the newest of the log.
LEMMA WriteAppends ==
    ASSUME TypeInv, TypeInv', SegmentInv, DirectoryInv, pc = "writing",
           segments' = [segments EXCEPT ![current] = Written(@)]
    PROVE  Log' = Append(Log, pending)
<1>1. /\ segments \in [Numbers -> Segment] /\ segments' \in [Numbers -> Segment]
      /\ clock \in Nat /\ pending \in Events /\ current \in Numbers
      /\ ~segments[current].corrupt
  BY DEF TypeInv, TypeOK, SegmentInv, OpenSegmentIsWhole, Running
<1>. DEFINE r == segments[current].records
            e == pending
<1>2. r \in Seq(Events)
  BY <1>1 DEF Segment
<1>3. /\ Written(segments[current]).corrupt = segments[current].corrupt
      /\ Written(segments[current]).records = Append(r, e)
  BY <1>1, WrittenFields
<1>4. Piece(segments[current]) = r /\ Piece(segments'[current]) = Append(r, e)
  BY <1>1, <1>3 DEF Piece
<1>5. \A n \in Numbers \ {current} : segments'[n] = segments[n]
  BY <1>1
<1>6. \A n \in Numbers : current < n => Piece(segments[n]) = <<>>
  <2>1. \A n \in Present : n < sequence
    BY DEF SegmentInv, Running
  <2>2. current + 1 = sequence /\ current \in Nat /\ \A n \in Numbers : n \in Nat
    BY <1>1 DEF DirectoryInv, Running, Numbers
  <2>3. \A n \in Numbers : current < n => ~segments[n].exists
    BY <2>1, <2>2 DEF Present
  <2>. QED BY <2>3 DEF DirectoryInv, Orderly, Piece
<1>7. DifferAt(current, Log, segments, Log', segments')
  BY <1>1, <1>5, LogChanges
<1>. HIDE DEF r
<1>8. PICK a, b \in Seq(Events) :
          Log = (a \o r) \o b /\ Log' = (a \o Append(r, e)) \o b /\ b = <<>>
  BY <1>4, <1>6, <1>7 DEF DifferAt
<1>9. Log = a \o r /\ Log' = a \o Append(r, e)
  <2>1. a \o r \in Seq(Events) /\ Append(r, e) \in Seq(Events)
    BY <1>1, <1>2, AppendProperties, ConcatProperties
  <2>2. a \o Append(r, e) \in Seq(Events)
    BY <2>1, ConcatProperties
  <2>. QED BY <1>8, <2>1, <2>2, ConcatEmptySeq
<1>10. a \o Append(r, e) = Append(a \o r, e)
  <2>1. <<e>> \in Seq(Events) /\ a \o r \in Seq(Events)
    BY <1>1, <1>2, ConcatProperties
  <2>2. Append(r, e) = r \o <<e>>
    BY <1>1, <1>2, AppendIsConcat
  <2>3. Append(a \o r, e) = (a \o r) \o <<e>>
    BY <1>1, <2>1, AppendIsConcat
  <2>4. (a \o r) \o <<e>> = a \o (r \o <<e>>)
    BY <1>2, <2>1, ConcatAssociative
  <2>. QED BY <2>2, <2>3, <2>4
<1>. QED BY <1>9, <1>10

\* A torn line is no record.
LEMMA TornKeepsLog ==
    ASSUME TypeInv, TypeInv', pc = "writing",
           segments' = [segments EXCEPT ![current] = Torn(@)]
    PROVE  Log' = Log
<1>1. /\ segments \in [Numbers -> Segment] /\ segments' \in [Numbers -> Segment]
      /\ clock \in Nat /\ current \in Numbers
  BY DEF TypeInv, TypeOK, Running
<1>2. /\ Torn(segments[current]).records = segments[current].records
      /\ Torn(segments[current]).corrupt = segments[current].corrupt
  BY <1>1, TornFields
<1>3. \A n \in Numbers : Piece(segments'[n]) = Piece(segments[n])
  BY <1>1, <1>2 DEF Piece
<1>. QED BY <1>1, <1>3, LogStays

\* Recovery moves what it cannot read out of the directory: no log changes.
LEMMA RecoverKeepsLog ==
    ASSUME TypeInv, TypeInv', RecoverSegment
    PROVE  Log' = Log /\ \A n \in 0..MaxSegments : LogUpTo'[n] = LogUpTo[n]
<1>1. /\ segments \in [Numbers -> Segment] /\ segments' \in [Numbers -> Segment]
      /\ MaxSegments \in Nat /\ clock \in Nat
  BY ConstantsAssumption DEF TypeInv, TypeOK, ConstantsAssumption
<1>2. \A n \in Numbers : Piece(segments'[n]) = Piece(segments[n])
  <2>1. CASE UNCHANGED disk
    BY <2>1 DEF disk
  <2>2. CASE /\ segments[Lowest(unread)].corrupt
             /\ segments' = [segments EXCEPT ![Lowest(unread)] = NoSegment]
    <3>1. Lowest(unread) \in Numbers
      BY <1>1, LowestIsBottom DEF RecoverSegment, TypeInv, TypeOK
    <3>2. Piece(NoSegment) = <<>>
      BY <1>1, EmptyFields DEF Piece
    <3>3. Piece(segments[Lowest(unread)]) = <<>>
      BY <2>2 DEF Piece
    <3>. QED BY <1>1, <2>2, <3>1, <3>2, <3>3
  <2>. QED BY <2>1, <2>2 DEF RecoverSegment
<1>. QED BY <1>1, <1>2, LogStays

\* enforce_bounds unlinks the segment that is first in the log.
LEMMA UnlinkForgets ==
    ASSUME TypeInv, TypeInv', SegmentInv, DirectoryInv, Unlink
    PROVE  \E old \in Seq(Events) : Log = old \o Log'
<1>1. /\ segments \in [Numbers -> Segment] /\ segments' \in [Numbers -> Segment]
      /\ MaxSegments \in Nat /\ clock \in Nat /\ current \in Numbers /\ pc = "bounding"
      /\ \A n \in Numbers : n \in Nat
  <2>1. MaxSegments \in Nat /\ \A n \in Numbers : n \in Nat
    BY ConstantsAssumption DEF ConstantsAssumption, Numbers
  <2>. QED BY <2>1 DEF TypeInv, TypeOK, Unlink, Running
<1>2. PICK v \in Victims : segments' = [segments EXCEPT ![v] = NoSegment]
  BY DEF Unlink
<1>3. v \in Present \ {current} /\ \A n \in Present : v <= n
  <2>1. Expired \in SUBSET Numbers /\ Present \ {current} \in SUBSET Numbers
    BY DEF Expired, Present
  <2>2. \A n \in Present : n <= current
    <3>1. \A n \in Present : n < sequence /\ n \in Nat
      BY <1>1 DEF SegmentInv, Running, Present
    <3>2. current + 1 = sequence /\ current \in Nat
      BY <1>1 DEF DirectoryInv, Running
    <3>. QED BY <3>1, <3>2
  <2>3. CASE Expired # {}
    <3>1. v = Lowest(Expired)
      BY <1>2, <2>3 DEF Victims
    <3>2. v \in Expired /\ \A n \in Expired : v <= n
      BY <1>1, <2>1, <2>3, <3>1, LowestIsBottom
    <3>3. v \in Present \ {current} /\ segments[v].mtime + Retention < clock
      BY <3>2 DEF Expired
    <3>4. ASSUME NEW n \in Present, ~(v <= n)
          PROVE  FALSE
      <4>1. n \in Numbers /\ v \in Numbers /\ n <= v /\ segments[n].exists /\ segments[v].exists
        BY <1>1, <3>3, <3>4 DEF Present
      <4>2. segments[n].mtime <= segments[v].mtime
        BY <4>1 DEF DirectoryInv, Orderly
      <4>3. n # current
        BY <1>1, <2>2, <3>3, <3>4, <4>1
      <4>4. /\ segments[n].mtime \in Nat /\ segments[v].mtime \in Nat /\ Retention \in Nat
        BY <1>1, <4>1, ConstantsAssumption DEF Segment, ConstantsAssumption
      <4>5. segments[n].mtime + Retention < clock
        BY <1>1, <3>3, <4>2, <4>4
      <4>6. n \in Expired
        BY <3>4, <4>3, <4>5 DEF Expired
      <4>. QED BY <3>2, <3>4, <4>6
    <3>. QED BY <3>3, <3>4
  <2>4. CASE Expired = {}
    <3>1. v = Lowest(Present \ {current}) /\ Present \ {current} # {}
      BY <1>2, <2>4 DEF Victims
    <3>2. v \in Present \ {current} /\ \A n \in Present \ {current} : v <= n
      BY <1>1, <2>1, <3>1, LowestIsBottom
    <3>. QED BY <2>2, <3>2
  <2>. QED BY <2>3, <2>4
<1>4. v \in Numbers /\ \A n \in Numbers \ {v} : segments'[n] = segments[n]
  BY <1>1, <1>2, <1>3 DEF Present
<1>5. Piece(segments'[v]) = <<>>
  BY <1>1, <1>2, <1>4, EmptyFields DEF Piece
<1>6. \A n \in Numbers : n < v => Piece(segments[n]) = <<>>
  <2>1. \A n \in Numbers : n < v => ~segments[n].exists
    BY <1>1, <1>3, <1>4 DEF Present
  <2>. QED BY <2>1 DEF DirectoryInv, Orderly, Piece
<1>7. DifferAt(v, Log, segments, Log', segments')
  BY <1>1, <1>4, LogChanges
<1>. DEFINE p == Piece(segments[v])
<1>8. p \in Seq(Events)
  <2>1. <<>> \in Seq(Events)
    OBVIOUS
  <2>. QED BY <1>1, <1>4, <2>1 DEF Piece, Segment
<1>. HIDE DEF p
<1>9. PICK a, b \in Seq(Events) :
          Log = (a \o p) \o b /\ Log' = (a \o <<>>) \o b /\ a = <<>>
  BY <1>5, <1>6, <1>7 DEF DifferAt, p
<1>10. <<>> \o p = p /\ <<>> \o <<>> = <<>> /\ <<>> \o b = b
  <2>1. <<>> \in Seq(Events)
    OBVIOUS
  <2>. QED BY <1>8, <2>1, ConcatEmptySeq
<1>. QED BY <1>8, <1>9, <1>10

-----------------------------------------------------------------------------
(* What query() serves and what a restart would recover                    *)

\* LogUpTo, one segment at a time, and past segments that are not there.
LEMMA LogUpToSteps ==
    ASSUME TypeInv, DirectoryInv
    PROVE  /\ LogUpTo[0] = <<>>
           /\ \A n \in Numbers : LogUpTo[n] = LogUpTo[n - 1] \o Piece(segments[n])
           /\ \A k \in 0..MaxSegments : \A m \in k..MaxSegments :
                ((k + 1)..m) \cap Present = {} => LogUpTo[m] = LogUpTo[k]
<1>1. MaxSegments \in Nat
  BY ConstantsAssumption DEF ConstantsAssumption
<1>2. PICK f, segs : f = LogUpTo /\ segs = segments
  OBVIOUS
<1>3. IsLog(f, segs) /\ segs \in [Numbers -> Segment]
  BY <1>2, UpToIs DEF TypeInv, TypeOK
<1>4. f[0] = <<>> /\ \A n \in Numbers : f[n] = f[n - 1] \o Piece(segs[n])
  BY <1>1, <1>3, LogRecursion
<1>5. ASSUME NEW k \in 0..MaxSegments, NEW m \in k..MaxSegments,
             ((k + 1)..m) \cap Present = {}
      PROVE  f[m] = f[k]
  <2>1. ASSUME NEW n \in (k + 1)..m
        PROVE  Piece(segs[n]) = <<>>
    <3>1. n \in Numbers
      BY <1>1 DEF Numbers
    <3>2. ~segments[n].exists
      BY <1>5, <3>1 DEF Present
    <3>. QED BY <1>2, <3>1, <3>2 DEF DirectoryInv, Orderly, Piece
  <2>. QED BY <1>1, <1>3, <2>1, LogGap
<1>. QED BY <1>2, <1>4, <1>5

\* While the process recovers, it has read the log up to some segment; from
\* then on it shows the newest of the log, the event in hand included once it
\* is written.
LogInv ==
    /\ pc = "recovering" =>
         \E k \in 0..MaxSegments :
            /\ unread = {n \in Present : k < n}
            /\ memory = Newest(LogUpTo[k])
    /\ pc \in {"idle", "writing"} => Shows(memory, Log)
    /\ pc = "bounding" /\ pending = None => Shows(memory, Log)
    /\ pc \in {"bounding", "remembering"} /\ pending # None =>
         Shows(Newest(Append(memory, pending)), Log)

\* All segments read, the memory is the newest part of the log.
LEMMA Recovered ==
    ASSUME TypeInv, DirectoryInv, LogInv, pc = "recovering", unread = {}
    PROVE  memory = Newest(Log) /\ Shows(memory, Log)
<1>1. MaxSegments \in Nat /\ Window \in Nat \ {0}
  BY ConstantsAssumption DEF ConstantsAssumption
<1>2. PICK k \in 0..MaxSegments : unread = {n \in Present : k < n} /\ memory = Newest(LogUpTo[k])
  BY DEF LogInv
<1>3. ((k + 1)..MaxSegments) \cap Present = {}
  BY <1>1, <1>2
<1>4. MaxSegments \in k..MaxSegments
  BY <1>1
<1>5. Log = LogUpTo[k]
  BY <1>3, <1>4, LogUpToSteps DEF Log
<1>6. Log \in Seq(Events)
  BY LogType DEF TypeInv, TypeOK
<1>7. PICK log : log = Log
  OBVIOUS
<1>8. Shows(Newest(log), log)
  BY <1>1, <1>6, <1>7, NewestShows
<1>. QED BY <1>2, <1>5, <1>7, <1>8

LEMMA LogStep ==
    TypeInv /\ TypeInv' /\ SegmentInv /\ DirectoryInv /\ DirectoryInv' /\ LogInv /\ [Next]_vars
        => LogInv'
<1>. SUFFICES ASSUME TypeInv, TypeInv', SegmentInv, DirectoryInv, DirectoryInv', LogInv, [Next]_vars
              PROVE  LogInv'
  OBVIOUS
<1>0. /\ MaxSegments \in Nat \ {0} /\ Window \in Nat \ {0} /\ None \notin Events
      /\ memory \in Seq(Events) /\ Log \in Seq(Events)
      /\ \A n \in Numbers : n \in Nat
  <2>1. Log \in Seq(Events)
    BY LogType DEF TypeInv, TypeOK
  <2>2. \A n \in Numbers : n \in Nat
    BY DEF Numbers
  <2>. QED BY <2>1, <2>2, ConstantsAssumption DEF ConstantsAssumption, TypeInv, TypeOK
<1>1. CASE Boot
  <2>1. LogUpTo'[0] = <<>>
    <3>1. (LogUpTo[0] = <<>>)'
      BY LogUpToSteps, PTL
    <3>. QED BY <3>1
  <2>2. Newest(<<>>) = <<>>
    <3>1. <<>> \in Seq(Events) /\ Len(<<>>) <= Window
      BY <1>0
    <3>. QED BY <1>0, <3>1, NewestProperties
  <2>3. Present' = Present /\ Present = {n \in Present : 0 < n}
    BY <1>0, <1>1 DEF Boot, disk, Present, Numbers
  <2>4. unread' = {n \in Present' : 0 < n}
    BY <1>1, <2>3 DEF Boot
  <2>5. memory' = Newest(LogUpTo'[0]) /\ pc' = "recovering"
    BY <1>1, <2>1, <2>2 DEF Boot
  <2>6. 0 \in 0..MaxSegments
    BY <1>0
  <2>. QED BY <2>4, <2>5, <2>6 DEF LogInv
<1>2. CASE RecoverSegment
  <2>. DEFINE n == Lowest(unread)
  <2>1. PICK k \in 0..MaxSegments : unread = {m \in Present : k < m} /\ memory = Newest(LogUpTo[k])
    BY <1>2 DEF RecoverSegment, LogInv
  <2>2. n \in unread /\ \A m \in unread : n <= m
    BY <1>0, <1>2, LowestIsBottom DEF RecoverSegment, TypeInv, TypeOK
  <2>. HIDE DEF n
  <2>3. n \in Numbers /\ n \in Present /\ k < n /\ n \in 0..MaxSegments /\ n \in Nat
    BY <1>0, <2>1, <2>2 DEF Present, Numbers
  <2>4. LogUpTo[n] = LogUpTo[k] \o Piece(segments[n])
    <3>1. ((k + 1)..(n - 1)) \cap Present = {}
      <4>1. SUFFICES ASSUME NEW m \in (k + 1)..(n - 1), m \in Present
                     PROVE  FALSE
        OBVIOUS
      <4>2. m \in unread
        BY <1>0, <2>1, <4>1 DEF Present
      <4>. QED BY <2>2, <2>3, <4>2
    <3>2. n - 1 \in k..MaxSegments
      BY <1>0, <2>3
    <3>3. LogUpTo[n - 1] = LogUpTo[k]
      BY <3>1, <3>2, LogUpToSteps
    <3>. QED BY <2>3, <3>3, LogUpToSteps
  <2>5. LogUpTo[k] \in Seq(Events) /\ LogUpTo'[n] = LogUpTo[n]
    BY <1>2, <2>3, LogType, RecoverKeepsLog DEF TypeInv, TypeOK
  <2>6. unread' = {m \in Present' : n < m}
    <3>1. \A m \in Numbers : n < m => segments'[m] = segments[m]
      BY <1>2, <2>3 DEF RecoverSegment, TypeInv, TypeOK, disk, n
    <3>2. Present' = {m \in Numbers : segments'[m].exists}
      BY DEF Present
    <3>3. unread' = unread \ {n}
      BY <1>2 DEF RecoverSegment, n
    <3>4. \A m \in unread : m = n \/ n < m
      BY <1>0, <2>1, <2>2, <2>3 DEF Present
    <3>5. ASSUME NEW m \in unread'
          PROVE  m \in Present' /\ n < m
      <4>1. m \in Present /\ m \in Numbers /\ n < m
        BY <2>1, <3>3, <3>4 DEF Present
      <4>2. segments'[m].exists
        BY <3>1, <4>1 DEF Present
      <4>. QED BY <3>2, <4>1, <4>2
    <3>6. ASSUME NEW m \in Present', n < m
          PROVE  m \in unread'
      <4>1. m \in Numbers /\ segments[m].exists
        BY <3>1, <3>2, <3>6
      <4>2. k < m /\ m # n
        BY <1>0, <2>3, <3>6, <4>1
      <4>3. m \in unread
        BY <2>1, <4>1, <4>2 DEF Present
      <4>. QED BY <3>3, <4>2, <4>3
    <3>. QED BY <3>5, <3>6
  <2>7. memory' = Newest(LogUpTo'[n])
    <3>1. CASE ~segments[n].corrupt /\ memory' = Newest(memory \o segments[n].records)
      <4>1. Piece(segments[n]) = segments[n].records /\ segments[n].records \in Seq(Events)
        BY <2>3, <3>1 DEF Piece, TypeInv, TypeOK, Segment
      <4>2. PICK s, t : s = LogUpTo[k] /\ t = segments[n].records
        OBVIOUS
      <4>3. Newest(Newest(s) \o t) = Newest(s \o t)
        BY <1>0, <2>5, <4>1, <4>2, NewestOfNewest
      <4>. QED BY <2>1, <2>4, <2>5, <3>1, <4>1, <4>2, <4>3
    <3>2. CASE segments[n].corrupt /\ UNCHANGED memory
      <4>1. LogUpTo[k] \o <<>> = LogUpTo[k]
        BY <2>5, ConcatEmptySeq
      <4>2. Piece(segments[n]) = <<>>
        BY <3>2 DEF Piece
      <4>. QED BY <2>1, <2>4, <2>5, <3>2, <4>1, <4>2
    <3>. QED BY <1>2, <3>1, <3>2 DEF RecoverSegment, n
  <2>8. pc' = "recovering"
    BY <1>2 DEF RecoverSegment
  <2>. QED BY <2>3, <2>6, <2>7, <2>8 DEF LogInv
<1>3. CASE StartWriting
  <2>1. sequence \in Numbers \ Present
    <3>1. sequence <= MaxSegments /\ sequence \in 1..(MaxSegments + 1) /\ \A n \in Present : n < sequence
      BY <1>3 DEF StartWriting, TypeInv, TypeOK, SegmentInv
    <3>2. sequence \in Nat
      BY <1>0, <3>1
    <3>. QED BY <1>0, <3>1, <3>2 DEF Numbers
  <2>2. Log' = Log
    BY <1>3, <2>1, OpenKeepsLog DEF StartWriting
  <2>3. Shows(memory, Log)
    BY <1>3, Recovered DEF StartWriting
  <2>4. pc' = "bounding" /\ pending' = None /\ memory' = memory
    BY <1>3 DEF StartWriting
  <2>. QED BY <2>2, <2>3, <2>4 DEF LogInv
<1>4. ASSUME NEW e \in Events, Remember(e)
      PROVE  LogInv'
  <2>1. pc = "idle" /\ pc' = "writing" /\ memory' = memory
    BY <1>4 DEF Remember
  <2>2. Log' = Log
    <3>1. CASE UNCHANGED segments
      BY <3>1, LogStays DEF TypeInv, TypeOK
    <3>2. CASE sequence <= MaxSegments /\ OpenSegment
      <4>1. sequence \in 1..(MaxSegments + 1) /\ \A n \in Present : n < sequence
        BY <2>1 DEF TypeInv, TypeOK, SegmentInv, Running
      <4>2. sequence \in Nat
        BY <1>0, <4>1
      <4>3. sequence \in Numbers \ Present
        BY <1>0, <3>2, <4>1, <4>2 DEF Numbers
      <4>. QED BY <3>2, <4>3, OpenKeepsLog
    <3>. QED BY <1>4, <3>1, <3>2 DEF Remember
  <2>. QED BY <2>1, <2>2 DEF LogInv
<1>5. CASE WriteRecord
  <2>1. /\ pc = "writing" /\ pc' = "bounding" /\ pending \in Events
        /\ memory' = memory /\ pending' = pending
    BY <1>5 DEF WriteRecord, TypeInv
  <2>2. Log' = Append(Log, pending)
    BY <1>5, WriteAppends DEF WriteRecord
  <2>3. Shows(memory, Log)
    BY <2>1 DEF LogInv
  <2>4. PICK mem, log, e : mem = memory /\ log = Log /\ e = pending
    OBVIOUS
  <2>5. Shows(Newest(Append(mem, e)), Append(log, e))
    BY <1>0, <2>1, <2>3, <2>4, ShowsAppend
  <2>6. Shows(Newest(Append(memory', pending')), Log')
    BY <2>1, <2>2, <2>4, <2>5
  <2>7. pending' # None
    BY <1>0, <2>1
  <2>. QED BY <2>1, <2>6, <2>7 DEF LogInv
<1>6. CASE Unlink
  <2>1. /\ pc = "bounding" /\ pc' = pc /\ memory' = memory /\ pending' = pending
    BY <1>6 DEF Unlink, process
  <2>2. PICK old \in Seq(Events) : Log = old \o Log'
    BY <1>6, UnlinkForgets
  <2>3. Log' \in Seq(Events)
    <3>1. (Log \in Seq(Events))'
      BY LogType, PTL DEF TypeInv, TypeOK
    <3>. QED BY <3>1
  <2>4. PICK log : log = Log'
    OBVIOUS
  <2>5. \A mem : Shows(mem, old \o log) => Shows(mem, log)
    BY <1>0, <2>3, <2>4, CutKeeps
  <2>6. \A mem : Shows(mem, Log) => Shows(mem, Log')
    BY <2>2, <2>4, <2>5
  <2>. QED BY <2>1, <2>6 DEF LogInv
<1>7. CASE BoundsEnforced
  <2>1. /\ pc = "bounding" /\ pc' = (IF pending = None THEN "idle" ELSE "remembering")
        /\ memory' = memory /\ pending' = pending /\ UNCHANGED segments
    BY <1>7 DEF BoundsEnforced, disk
  <2>2. Log' = Log
    BY <2>1, LogStays DEF TypeInv, TypeOK
  <2>. QED BY <2>1, <2>2 DEF LogInv
<1>8. CASE UpdateMemory
  <2>1. /\ pc = "remembering" /\ pc' = "idle" /\ pending \in Events
        /\ memory' = Newest(Append(memory, pending)) /\ UNCHANGED segments
    BY <1>8 DEF UpdateMemory, disk, TypeInv
  <2>2. Log' = Log /\ pending # None
    BY <1>0, <2>1, LogStays DEF TypeInv, TypeOK
  <2>. QED BY <2>1, <2>2 DEF LogInv
<1>9. CASE WriteRaises
  BY <1>9 DEF WriteRaises, LogInv
<1>10. CASE Crash
  BY <1>10 DEF Crash, GoDown, LogInv
<1>11. CASE Corrupt
  BY <1>11 DEF Corrupt, process, LogInv
<1>12. CASE Tick \/ UNCHANGED vars
  <2>1. UNCHANGED <<segments, pc, unread, memory, pending>>
    BY <1>12 DEF Tick, vars, disk, process
  <2>2. pc = "recovering" => UNCHANGED vars
    BY <1>12 DEF Tick
  <2>3. Log' = Log /\ \A n \in 0..MaxSegments : LogUpTo'[n] = LogUpTo[n]
    BY <2>1, LogStays DEF TypeInv, TypeOK
  <2>4. Present' = Present
    BY <2>1 DEF Present
  <2>. QED BY <2>1, <2>3, <2>4 DEF LogInv
<1>. QED
  BY <1>1, <1>2, <1>3, <1>4, <1>5, <1>6, <1>7, <1>8, <1>9, <1>10, <1>11, <1>12
     DEF Next, StoreStep

\* The memory is the newest part of what the process read and stored, with
\* the event in hand once it is written; the log is the end of that.
KnownInv ==
    /\ pc \in Running => Ends(Log, known)
    /\ pc \in {"idle", "writing"} => memory = Newest(known)
    /\ pc = "bounding" /\ pending = None => memory = Newest(known)
    /\ pc \in {"bounding", "remembering"} /\ pending # None =>
         Newest(Append(memory, pending)) = Newest(known)

LEMMA KnownStep ==
    TypeInv /\ TypeInv' /\ SegmentInv /\ DirectoryInv /\ LogInv /\ KnownInv /\ [Next]_vars
        => KnownInv'
<1>. SUFFICES ASSUME TypeInv, TypeInv', SegmentInv, DirectoryInv, LogInv, KnownInv, [Next]_vars
              PROVE  KnownInv'
  OBVIOUS
<1>0. /\ MaxSegments \in Nat \ {0} /\ Window \in Nat \ {0} /\ None \notin Events
      /\ known \in Seq(Events) /\ Log \in Seq(Events) /\ Log' \in Seq(Events)
  <2>1. Log \in Seq(Events)
    BY LogType DEF TypeInv, TypeOK
  <2>2. (Log \in Seq(Events))'
    BY LogType, PTL DEF TypeInv, TypeOK
  <2>. QED BY <2>1, <2>2, ConstantsAssumption DEF ConstantsAssumption, TypeInv, TypeOK
<1>1. CASE Boot
  BY <1>1 DEF Boot, KnownInv, Running
<1>2. CASE RecoverSegment
  BY <1>2 DEF RecoverSegment, KnownInv, Running
<1>3. CASE StartWriting
  <2>1. sequence <= MaxSegments /\ sequence \in 1..(MaxSegments + 1) /\ \A n \in Present : n < sequence
    BY <1>3 DEF StartWriting, TypeInv, TypeOK, SegmentInv
  <2>2. sequence \in Nat
    BY <1>0, <2>1
  <2>3. sequence \in Numbers \ Present
    BY <1>0, <2>1, <2>2 DEF Numbers
  <2>4. Log' = Log
    BY <1>3, <2>3, OpenKeepsLog DEF StartWriting
  <2>5. memory = Newest(Log)
    BY <1>3, Recovered DEF StartWriting
  <2>6. pc' = "bounding" /\ pending' = None /\ memory' = memory /\ known' = Log
    BY <1>3 DEF StartWriting
  <2>7. Ends(Log, Log)
    BY <1>0, LenProperties DEF Ends
  <2>. QED BY <2>4, <2>5, <2>6, <2>7 DEF KnownInv
<1>4. ASSUME NEW e \in Events, Remember(e)
      PROVE  KnownInv'
  <2>1. /\ pc = "idle" /\ pc' = "writing" /\ memory' = memory /\ known' = known
    BY <1>4 DEF Remember
  <2>2. Log' = Log
    <3>1. CASE UNCHANGED segments
      BY <3>1, LogStays DEF TypeInv, TypeOK
    <3>2. CASE sequence <= MaxSegments /\ OpenSegment
      <4>1. sequence \in 1..(MaxSegments + 1) /\ \A n \in Present : n < sequence
        BY <2>1 DEF TypeInv, TypeOK, SegmentInv, Running
      <4>2. sequence \in Nat
        BY <1>0, <4>1
      <4>3. sequence \in Numbers \ Present
        BY <1>0, <3>2, <4>1, <4>2 DEF Numbers
      <4>. QED BY <3>2, <4>3, OpenKeepsLog
    <3>. QED BY <1>4, <3>1, <3>2 DEF Remember
  <2>3. Ends(Log, known) /\ memory = Newest(known)
    BY <2>1 DEF KnownInv, Running
  <2>. QED BY <2>1, <2>2, <2>3 DEF KnownInv
<1>5. CASE WriteRecord
  <2>1. /\ pc = "writing" /\ pc' = "bounding" /\ pending \in Events
        /\ memory' = memory /\ pending' = pending /\ known' = Append(known, pending)
    BY <1>5 DEF WriteRecord, TypeInv
  <2>2. Log' = Append(Log, pending)
    BY <1>5, WriteAppends DEF WriteRecord
  <2>3. Ends(Log, known) /\ memory = Newest(known)
    BY <2>1 DEF KnownInv, Running
  <2>4. PICK log, k, e : log = Log /\ k = known /\ e = pending
    OBVIOUS
  <2>5. Ends(Append(log, e), Append(k, e))
    BY <1>0, <2>1, <2>3, <2>4, EndsGrows
  <2>6. Newest(Append(Newest(k), e)) = Newest(Append(k, e))
    <3>1. k \in Seq(Events) /\ e \in Events /\ <<e>> \in Seq(Events)
      BY <1>0, <2>1, <2>4
    <3>2. Newest(k) \in Seq(Events)
      BY <1>0, <3>1, NewestProperties
    <3>3. Newest(Newest(k) \o <<e>>) = Newest(k \o <<e>>)
      BY <1>0, <3>1, NewestOfNewest
    <3>4. Append(Newest(k), e) = Newest(k) \o <<e>> /\ Append(k, e) = k \o <<e>>
      BY <3>1, <3>2, AppendIsConcat
    <3>. QED BY <3>3, <3>4
  <2>7. Ends(Log', known')
    BY <2>1, <2>2, <2>4, <2>5
  <2>8. Newest(Append(memory', pending')) = Newest(known') /\ pending' # None
    BY <1>0, <2>1, <2>3, <2>4, <2>6
  <2>. QED BY <2>1, <2>7, <2>8 DEF KnownInv
<1>6. CASE Unlink
  <2>1. /\ pc = "bounding" /\ pc' = pc /\ memory' = memory /\ pending' = pending /\ known' = known
    BY <1>6 DEF Unlink, process
  <2>2. PICK old \in Seq(Events) : Log = old \o Log'
    BY <1>6, UnlinkForgets
  <2>3. PICK log, k : log = Log' /\ k = known
    OBVIOUS
  <2>4. Ends(old \o log, k)
    BY <2>1, <2>2, <2>3 DEF KnownInv, Running
  <2>5. Ends(log, k)
    BY <1>0, <2>3, <2>4, EndsCut
  <2>. QED BY <2>1, <2>3, <2>5 DEF KnownInv
<1>7. CASE BoundsEnforced
  <2>1. /\ pc = "bounding" /\ pc' = (IF pending = None THEN "idle" ELSE "remembering")
        /\ memory' = memory /\ pending' = pending /\ known' = known /\ UNCHANGED segments
    BY <1>7 DEF BoundsEnforced, disk
  <2>2. Log' = Log
    BY <2>1, LogStays DEF TypeInv, TypeOK
  <2>. QED BY <2>1, <2>2 DEF KnownInv, Running
<1>8. CASE UpdateMemory
  <2>1. /\ pc = "remembering" /\ pc' = "idle" /\ pending \in Events /\ known' = known
        /\ memory' = Newest(Append(memory, pending)) /\ UNCHANGED segments
    BY <1>8 DEF UpdateMemory, disk, TypeInv
  <2>2. Log' = Log /\ pending # None
    BY <1>0, <2>1, LogStays DEF TypeInv, TypeOK
  <2>. QED BY <2>1, <2>2 DEF KnownInv, Running
<1>9. CASE WriteRaises
  BY <1>9 DEF WriteRaises, KnownInv, Running
<1>10. CASE Crash
  BY <1>10 DEF Crash, GoDown, KnownInv, Running
<1>11. CASE Corrupt
  BY <1>11 DEF Corrupt, process, KnownInv, Running
<1>12. CASE Tick \/ UNCHANGED vars
  <2>1. UNCHANGED <<segments, pc, memory, pending, known>>
    BY <1>12 DEF Tick, vars, disk, process
  <2>2. Log' = Log
    BY <2>1, LogStays DEF TypeInv, TypeOK
  <2>. QED BY <2>1, <2>2 DEF KnownInv
<1>. QED
  BY <1>1, <1>2, <1>3, <1>4, <1>5, <1>6, <1>7, <1>8, <1>9, <1>10, <1>11, <1>12
     DEF Next, StoreStep

-----------------------------------------------------------------------------
(* The window is exact                                                     *)

\* The event in hand is not known.  Without damage no event is twice among
\* the newest of the log, nor, while the process serves, in the memory.
DistinctInv ==
    /\ pc \in {"writing", "bounding", "remembering"} => pending \notin ids
    /\ corruptions = 0 => Distinct(Log)
    /\ corruptions = 0 /\ pc \in Running => Distinct(memory) /\ ids = Elements(memory)

LEMMA DistinctStep ==
    TypeInv /\ TypeInv' /\ SegmentInv /\ DirectoryInv /\ MemoryInv /\ LogInv /\ DistinctInv
        /\ [Next]_vars => DistinctInv'
<1>. SUFFICES ASSUME TypeInv, TypeInv', SegmentInv, DirectoryInv,
                     MemoryInv, LogInv, DistinctInv, [Next]_vars
              PROVE  DistinctInv'
  OBVIOUS
<1>0. /\ MaxSegments \in Nat \ {0} /\ Window \in Nat \ {0} /\ None \notin Events
      /\ memory \in Seq(Events) /\ Log \in Seq(Events) /\ ids \subseteq Events
      /\ corruptions \in Nat
  <2>1. Log \in Seq(Events)
    BY LogType DEF TypeInv, TypeOK
  <2>. QED BY <2>1, ConstantsAssumption DEF ConstantsAssumption, TypeInv, TypeOK
<1>1. CASE Boot
  <2>1. UNCHANGED <<segments, corruptions>> /\ pc' = "recovering"
    BY <1>1 DEF Boot, disk, world
  <2>2. Log' = Log
    BY <2>1, LogStays DEF TypeInv, TypeOK
  <2>. QED BY <2>1, <2>2 DEF DistinctInv, Running
<1>2. CASE RecoverSegment
  <2>1. Log' = Log
    BY <1>2, RecoverKeepsLog
  <2>. QED BY <1>2, <2>1 DEF RecoverSegment, world, DistinctInv, Running
<1>3. ASSUME OpenSegment, sequence <= MaxSegments, \A n \in Present : n < sequence
      PROVE  Log' = Log
  <2>1. sequence \in 1..(MaxSegments + 1) /\ sequence \in Nat
    BY <1>0 DEF TypeInv, TypeOK
  <2>2. sequence \in Numbers \ Present
    BY <1>0, <1>3, <2>1 DEF Numbers
  <2>. QED BY <1>3, <2>2, OpenKeepsLog
<1>4. CASE StartWriting
  <2>1. /\ pc = "recovering" /\ unread = {} /\ pc' = "bounding" /\ pending' = None
        /\ memory' = memory /\ order' = Newest(memory) /\ ids' = Elements(order')
        /\ corruptions' = corruptions /\ OpenSegment
    BY <1>4 DEF StartWriting, world
  <2>2. Log' = Log
    BY <1>3, <2>1 DEF TypeInv, SegmentInv
  <2>3. memory = Newest(Log)
    BY <2>1, Recovered
  <2>4. order' = memory
    BY <1>0, <2>1, NewestProperties DEF MemoryInv
  <2>5. corruptions = 0 => Distinct(memory)
    <3>1. PICK log : log = Log
      OBVIOUS
    <3>2. Distinct(log) => Distinct(Newest(log))
      BY <1>0, <3>1, DistinctNewest
    <3>. QED BY <2>3, <3>1, <3>2 DEF DistinctInv
  <2>6. pending' \notin ids'
    <3>1. ids' \subseteq Events
      BY DEF TypeInv, TypeOK
    <3>. QED BY <1>0, <2>1, <3>1
  <2>. QED BY <2>1, <2>2, <2>4, <2>5, <2>6 DEF DistinctInv
<1>5. ASSUME NEW e \in Events, Remember(e)
      PROVE  DistinctInv'
  <2>1. /\ pc = "idle" /\ e \notin ids /\ pc' = "writing" /\ pending' = e
        /\ memory' = memory /\ ids' = ids /\ corruptions' = corruptions
    BY <1>5 DEF Remember, Known, world
  <2>2. Log' = Log
    <3>1. CASE UNCHANGED segments
      BY <3>1, LogStays DEF TypeInv, TypeOK
    <3>2. CASE sequence <= MaxSegments /\ OpenSegment
      BY <1>3, <2>1, <3>2 DEF SegmentInv, Running
    <3>. QED BY <1>5, <3>1, <3>2 DEF Remember
  <2>. QED BY <2>1, <2>2 DEF DistinctInv, Running
\* The event in hand is fresh, so it may follow the log.
<1>6. ASSUME pc = "writing", segments' = [segments EXCEPT ![current] = Written(@)]
      PROVE  corruptions = 0 => Distinct(Log')
  <2>1. SUFFICES ASSUME corruptions = 0
                 PROVE  Distinct(Log')
    OBVIOUS
  <2>2. Log' = Append(Log, pending) /\ pending \in Events
    BY <1>6, WriteAppends DEF TypeInv
  <2>3. Shows(memory, Log) /\ pending \notin Elements(memory) /\ Distinct(Log)
    BY <1>6, <2>1 DEF LogInv, DistinctInv, Running
  <2>4. PICK mem, log, e : mem = memory /\ log = Log /\ e = pending
    OBVIOUS
  <2>5. Fresh(e, log)
    BY <1>0, <2>3, <2>4, UnknownIsFresh
  <2>6. Distinct(Append(log, e))
    BY <1>0, <2>2, <2>3, <2>4, <2>5, DistinctAppend
  <2>. QED BY <2>2, <2>4, <2>6
<1>7. CASE WriteRecord
  <2>1. /\ pc = "writing" /\ pc' = "bounding"
        /\ UNCHANGED <<memory, ids, pending, corruptions>>
        /\ segments' = [segments EXCEPT ![current] = Written(@)]
    BY <1>7 DEF WriteRecord, world
  <2>. QED BY <1>6, <2>1 DEF DistinctInv, Running
<1>8. CASE WriteRaises
  <2>1. pc = "writing" /\ pc' = "failed" /\ corruptions' = corruptions
    BY <1>8 DEF WriteRaises, world
  <2>2. corruptions = 0 => Distinct(Log')
    <3>1. CASE UNCHANGED segments
      BY <3>1, LogStays DEF TypeInv, TypeOK, DistinctInv
    <3>2. CASE segments' = [segments EXCEPT ![current] = Torn(@)]
      BY <2>1, <3>2, TornKeepsLog DEF DistinctInv
    <3>3. CASE segments' = [segments EXCEPT ![current] = Written(@)]
      BY <1>6, <2>1, <3>3
    <3>. QED BY <1>8, <3>1, <3>2, <3>3 DEF WriteRaises
  <2>. QED BY <2>1, <2>2 DEF DistinctInv, Running
<1>9. CASE Unlink
  <2>1. UNCHANGED <<pc, memory, ids, pending, corruptions>>
    BY <1>9 DEF Unlink, process, world
  <2>2. PICK old \in Seq(Events) : Log = old \o Log'
    BY <1>9, UnlinkForgets
  <2>3. Log' \in Seq(Events)
    <3>1. (Log \in Seq(Events))'
      BY LogType, PTL DEF TypeInv, TypeOK
    <3>. QED BY <3>1
  <2>4. PICK log : log = Log'
    OBVIOUS
  <2>5. Distinct(old \o log) => Distinct(log)
    BY <1>0, <2>3, <2>4, CutKeeps
  <2>. QED BY <2>1, <2>2, <2>4, <2>5 DEF DistinctInv
<1>10. CASE BoundsEnforced
  <2>1. /\ pc = "bounding" /\ pc' \in {"idle", "remembering"}
        /\ UNCHANGED <<segments, memory, ids, pending, corruptions>>
    BY <1>10 DEF BoundsEnforced, disk, world
  <2>2. Log' = Log
    BY <2>1, LogStays DEF TypeInv, TypeOK
  <2>. QED BY <2>1, <2>2 DEF DistinctInv, Running
<1>11. CASE UpdateMemory
  <2>1. /\ pc = "remembering" /\ pc' = "idle" /\ pending \in Events
        /\ memory' = Newest(Append(memory, pending)) /\ ids' = IdsAfter
        /\ UNCHANGED <<segments, corruptions>>
    BY <1>11 DEF UpdateMemory, disk, world, TypeInv
  <2>2. Log' = Log
    BY <2>1, LogStays DEF TypeInv, TypeOK
  <2>3. ASSUME corruptions = 0
        PROVE  Distinct(memory') /\ ids' = Elements(memory')
    <3>1. /\ Distinct(memory) /\ ids = Elements(memory) /\ pending \notin Elements(memory)
          /\ order = memory /\ Len(memory) <= Window
      BY <2>1, <2>3 DEF DistinctInv, MemoryInv, Running
    <3>2. PICK mem, e : mem = memory /\ e = pending
      OBVIOUS
    <3>3. mem \in Seq(Events) /\ e \in Events /\ Append(mem, e) \in Seq(Events)
      BY <1>0, <2>1, <3>2, AppendProperties
    <3>4. Shows(mem, mem)
      BY DEF Shows
    <3>5. Fresh(e, mem)
      BY <1>0, <3>1, <3>2, <3>3, <3>4, UnknownIsFresh
    <3>6. Distinct(Append(mem, e))
      BY <1>0, <3>1, <3>2, <3>3, <3>5, DistinctAppend
    <3>7. Distinct(Newest(Append(mem, e)))
      BY <1>0, <3>3, <3>6, DistinctNewest
    <3>8. (IF Len(mem) = Window THEN Elements(mem) \ {Head(mem)} ELSE Elements(mem)) \cup {e}
              = Elements(Newest(Append(mem, e)))
      BY <1>0, <3>1, <3>2, <3>3, WindowMoves
    <3>9. IdsAfter = (IF Len(mem) = Window THEN Elements(mem) \ {Head(mem)}
                      ELSE Elements(mem)) \cup {e}
      BY <3>1, <3>2 DEF IdsAfter
    <3>. QED BY <2>1, <3>2, <3>7, <3>8, <3>9
  <2>. QED BY <2>1, <2>2, <2>3 DEF DistinctInv, Running
<1>12. CASE Crash
  <2>1. pc' = "down" /\ corruptions' = corruptions
    BY <1>12 DEF Crash, GoDown
  <2>2. Log' = Log
    <3>1. CASE UNCHANGED segments
      BY <3>1, LogStays DEF TypeInv, TypeOK
    <3>2. CASE pc = "writing" /\ segments' = [segments EXCEPT ![current] = Torn(@)]
      BY <3>2, TornKeepsLog
    <3>. QED BY <1>12, <3>1, <3>2 DEF Crash
  <2>. QED BY <2>1, <2>2 DEF DistinctInv, Running
<1>13. CASE Corrupt
  <2>1. pc' = "down" /\ corruptions' = corruptions + 1
    BY <1>13 DEF Corrupt, process
  <2>2. corruptions' # 0
    BY <1>0, <2>1
  <2>. QED BY <2>1, <2>2 DEF DistinctInv, Running
<1>14. CASE Tick \/ UNCHANGED vars
  <2>1. UNCHANGED <<segments, pc, memory, ids, pending, corruptions>>
    BY <1>14 DEF Tick, vars, disk, process, world
  <2>2. Log' = Log
    BY <2>1, LogStays DEF TypeInv, TypeOK
  <2>. QED BY <2>1, <2>2 DEF DistinctInv
<1>. QED
  BY <1>1, <1>2, <1>4, <1>5, <1>7, <1>8, <1>9, <1>10, <1>11, <1>12, <1>13, <1>14
     DEF Next, StoreStep

-----------------------------------------------------------------------------
(* The size of the directory                                               *)

\* Once enforce_bounds is done, the segments together are within max_bytes.
BoundInv == pc \in {"idle", "remembering"} => Total <= MaxBytes

LEMMA TotalType ==
    ASSUME TypeInv
    PROVE  Total \in Nat
<1>1. MaxSegments \in Nat
  BY ConstantsAssumption DEF ConstantsAssumption
<1>2. PICK f, segs : f = TotalUpTo /\ segs = segments
  OBVIOUS
<1>3. IsTotal(f, segs) /\ segs \in [Numbers -> Segment]
  BY <1>2, UpToIs DEF TypeInv, TypeOK
<1>4. f[0] = 0 /\ \A n \in 1..MaxSegments : f[n] = f[n - 1] + Size(segs[n])
  BY <1>1, <1>3 DEF IsTotal
<1>5. ASSUME NEW n \in 1..MaxSegments
      PROVE  Size(segs[n]) \in Nat
  <2>1. segs[n].records \in Seq(Events)
    BY <1>3 DEF Numbers, Segment
  <2>2. Len(segs[n].records) \in Nat
    BY <2>1, LenProperties
  <2>3. (IF segs[n].torn THEN 1 ELSE 0) \in Nat
    OBVIOUS
  <2>4. \A a, b \in Nat : a + b \in Nat
    OBVIOUS
  <2>. QED BY <2>2, <2>3, <2>4 DEF Size
<1>. DEFINE G == {n \in 0..MaxSegments : f[n] \in Nat}
<1>6. 0 \in G
  BY <1>1, <1>4
<1>7. ASSUME NEW n \in 1..MaxSegments, n - 1 \in G
      PROVE  n \in G
  BY <1>4, <1>5, <1>7
<1>8. \A n \in 0..MaxSegments : n \in G
  <2>. HIDE DEF G
  <2>. QED BY <1>1, <1>6, <1>7, Upwards
<1>. QED BY <1>1, <1>2, <1>8 DEF Total

LEMMA BoundStep ==
    TypeInv /\ SegmentInv /\ DirectoryInv /\ BoundInv /\ [Next]_vars => BoundInv'
<1>. SUFFICES ASSUME TypeInv, SegmentInv, DirectoryInv, BoundInv, [Next]_vars
              PROVE  BoundInv'
  OBVIOUS
<1>0. /\ MaxSegments \in Nat \ {0} /\ SegmentBytes \in Nat \ {0} /\ MaxBytes \in Nat
      /\ SegmentBytes <= MaxBytes
      /\ segments \in [Numbers -> Segment]
  BY ConstantsAssumption DEF ConstantsAssumption, TypeInv, TypeOK
<1>1. ASSUME UNCHANGED segments
      PROVE  Total' = Total
  BY <1>1 DEF Total, TotalUpTo, Size
<1>2. CASE BoundsEnforced
  <2>1. Total <= MaxBytes
    <3>1. /\ Expired = {} /\ ~(Total > MaxBytes /\ Present \ {current} # {})
          /\ current \in Numbers /\ pc = "bounding"
      BY <1>2 DEF BoundsEnforced, Victims, TypeInv, Running
    <3>2. CASE Present \ {current} = {}
      <4>1. ASSUME NEW n \in Numbers \ {current}
            PROVE  Size(segments[n]) = 0
        <5>1. ~segments[n].exists
          BY <3>2 DEF Present
        <5>2. segments[n].records = <<>> /\ ~segments[n].torn
          BY <5>1 DEF DirectoryInv, Orderly
        <5>. QED BY <5>2 DEF Size
      <4>2. /\ ~segments[current].torn /\ Len(segments[current].records) <= SegmentBytes
            /\ Len(segments[current].records) \in Nat
        <5>1. segments[current].records \in Seq(Events)
          BY <1>0, <3>1 DEF Segment
        <5>. QED BY <3>1, <5>1, LenProperties DEF SegmentInv, OpenSegmentIsWhole, Running
      <4>3. Size(segments[current]) = Len(segments[current].records)
        BY <4>2 DEF Size
      <4>4. PICK f, segs, c : f = TotalUpTo /\ segs = segments /\ c = current
        OBVIOUS
      <4>5. IsTotal(f, segs)
        BY <4>4, UpToIs
      <4>6. f[MaxSegments] = Size(segs[c])
        BY <1>0, <3>1, <4>1, <4>2, <4>3, <4>4, <4>5, TotalOfOne
      <4>7. Total = Len(segments[current].records)
        BY <4>3, <4>4, <4>6 DEF Total
      <4>. QED BY <1>0, <4>2, <4>7
    <3>3. CASE Present \ {current} # {} /\ ~(Total > MaxBytes)
      <4>1. Total \in Nat
        BY TotalType
      <4>. QED BY <1>0, <3>3, <4>1
    <3>. QED BY <3>1, <3>2, <3>3
  <2>2. Total' = Total
    BY <1>1, <1>2 DEF BoundsEnforced, disk
  <2>. QED BY <2>1, <2>2 DEF BoundInv
<1>3. CASE UpdateMemory
  <2>1. Total' = Total /\ pc = "remembering"
    BY <1>1, <1>3 DEF UpdateMemory, disk
  <2>. QED BY <2>1 DEF BoundInv
<1>4. CASE Tick \/ UNCHANGED vars
  <2>1. UNCHANGED <<segments, pc>>
    BY <1>4 DEF Tick, vars, disk, process
  <2>2. Total' = Total
    BY <1>1, <2>1
  <2>. QED BY <2>1, <2>2 DEF BoundInv
<1>5. CASE Boot \/ RecoverSegment \/ StartWriting \/ Corrupt
  BY <1>5 DEF Boot, RecoverSegment, StartWriting, Corrupt, process, BoundInv
<1>6. CASE WriteRecord \/ WriteRaises \/ Unlink
  BY <1>6 DEF WriteRecord, WriteRaises, Unlink, process, BoundInv
<1>7. CASE Crash
  BY <1>7 DEF Crash, GoDown, BoundInv
<1>8. ASSUME NEW e \in Events, Remember(e)
      PROVE  BoundInv'
  BY <1>8 DEF Remember, BoundInv
<1>. QED
  BY <1>2, <1>3, <1>4, <1>5, <1>6, <1>7, <1>8 DEF Next, StoreStep

-----------------------------------------------------------------------------
(* The theorems about the window, the log and its size                     *)

StoreInv ==
    /\ TypeInv /\ SegmentInv /\ DirectoryInv
    /\ MemoryInv /\ LogInv /\ KnownInv /\ DistinctInv /\ BoundInv

LEMMA StoreInit ==
    Init => DirectoryInv /\ MemoryInv /\ LogInv /\ KnownInv /\ DistinctInv /\ BoundInv
<1>. SUFFICES ASSUME Init
              PROVE  DirectoryInv /\ MemoryInv /\ LogInv /\ KnownInv /\ DistinctInv /\ BoundInv
  OBVIOUS
<1>1. MaxSegments \in Nat /\ Window \in Nat
  BY ConstantsAssumption DEF ConstantsAssumption
<1>2. \A n \in Numbers : segments[n] = NoSegment
  BY DEF Init
<1>3. TypeInv
  BY TypeInit
<1>4. /\ NoSegment.records = <<>> /\ ~NoSegment.torn /\ ~NoSegment.exists
      /\ ~NoSegment.corrupt
  BY DEF NoSegment
<1>5. DirectoryInv
  BY <1>2, <1>4 DEF Init, DirectoryInv, Orderly, Running
<1>6. Len(<<>>) = 0
  OBVIOUS
<1>7. MemoryInv
  <2>1. Len(memory) <= Window
    BY <1>1, <1>6 DEF Init
  <2>. QED BY <2>1 DEF Init, MemoryInv
<1>8. Log = <<>>
  <2>1. Present = {}
    BY <1>2, <1>4 DEF Present
  <2>2. 0 \in 0..MaxSegments /\ MaxSegments \in 0..MaxSegments
    BY <1>1
  <2>3. ((0 + 1)..MaxSegments) \cap Present = {}
    BY <2>1
  <2>4. LogUpTo[MaxSegments] = LogUpTo[0]
    BY <1>3, <1>5, <2>2, <2>3, LogUpToSteps
  <2>. QED BY <1>3, <1>5, <2>4, LogUpToSteps DEF Log
<1>9. DistinctInv
  <2>1. Distinct(<<>>)
    BY <1>6 DEF Distinct
  <2>. QED BY <1>8, <2>1 DEF Init, DistinctInv, Running
<1>. QED BY <1>5, <1>7, <1>9 DEF Init, LogInv, KnownInv, BoundInv, Running

LEMMA StoreInvariant == Spec => []StoreInv
<1>1. StoreInv /\ TypeInv' /\ SegmentInv' /\ DirectoryInv' /\ [Next]_vars => StoreInv'
  BY MemoryStep, LogStep, KnownStep, DistinctStep, BoundStep DEF StoreInv
<1>2. StoreInv /\ [Next]_vars => TypeInv' /\ SegmentInv' /\ DirectoryInv'
  BY TypeStep, SegmentStep, DirectoryStep DEF StoreInv
<1>3. Init => SegmentInv
  BY DEF Init, SegmentInv, OpenSegmentIsWhole, Running
<1>4. Init => StoreInv
  BY <1>3, TypeInit, StoreInit DEF StoreInv
<1>. QED BY <1>1, <1>2, <1>4, PTL DEF Spec

\* While nothing was damaged, the ids that are suppressed are exactly those
\* of the window, each once: no event is stored twice within a window, over
\* crashes at any point and restarts (store.py _recover, remember).
THEOREM WindowCorrect == Spec => []WindowIsExact
<1>1. StoreInv => WindowIsExact
  <2>. SUFFICES ASSUME StoreInv, corruptions = 0, pc \in Running
                PROVE  ids = Elements(order) /\ Cardinality(ids) = Len(order) /\ order = memory
    BY DEF WindowIsExact, Running
  <2>1. /\ order = memory /\ Distinct(memory) /\ ids = Elements(memory) /\ Len(memory) <= Window
    BY DEF StoreInv, MemoryInv, DistinctInv, Running
  <2>2. memory \in Seq(Events) /\ Window \in Nat \ {0}
    BY ConstantsAssumption DEF StoreInv, TypeInv, TypeOK, ConstantsAssumption
  <2>3. PICK mem : mem = memory
    OBVIOUS
  <2>4. Cardinality(Elements(mem)) = Len(mem)
    BY <2>1, <2>2, <2>3, DistinctCounts
  <2>. QED BY <2>1, <2>3, <2>4
<1>. QED BY <1>1, StoreInvariant, PTL

\* Between two calls query() serves the newest Window of what the process
\* recovered and stored since, and the directory, which a restart would read,
\* holds the end of that (store.py _recover, remember, enforce_bounds).
THEOREM MemoryCorrect == Spec => []MemoryMatchesDisk
<1>1. StoreInv => MemoryMatchesDisk
  <2>. SUFFICES ASSUME StoreInv, pc = "idle"
                PROVE  memory = Newest(known) /\ IsSuffixOf(Log, known)
    BY DEF MemoryMatchesDisk
  <2>1. memory = Newest(known) /\ Ends(Log, known)
    BY DEF StoreInv, KnownInv, Running
  <2>2. known \in Seq(Events) /\ Log \in Seq(Events)
    BY LogType DEF StoreInv, TypeInv, TypeOK
  <2>3. PICK log, k : log = Log /\ k = known
    OBVIOUS
  <2>4. IsSuffixOf(log, k)
    BY <2>1, <2>2, <2>3, EndsIsSuffix
  <2>. QED BY <2>1, <2>3, <2>4
<1>. QED BY <1>1, StoreInvariant, PTL

\* Between two calls the segments together are within max_bytes, whatever
\* crashes left behind (store.py enforce_bounds).
THEOREM SizeCorrect == Spec => []SizeBound
<1>1. StoreInv => SizeBound
  BY DEF StoreInv, BoundInv, SizeBound
<1>. QED BY <1>1, StoreInvariant, PTL

-----------------------------------------------------------------------------
(* The store implements the log                                            *)

\* A concatenation is cut where it was joined.
LEMMA SubSeqOfParts ==
    ASSUME NEW s \in Seq(Events), NEW t \in Seq(Events)
    PROVE  /\ SubSeq(s \o t, 1, Len(s)) = s
           /\ SubSeq(s \o t, Len(s) + 1, Len(s \o t)) = t
<1>. DEFINE u == s \o t
            m == Len(s)
            n == Len(t)
<1>1. /\ u \in Seq(Events) /\ Len(u) = m + n /\ m \in Nat /\ n \in Nat
      /\ \A i \in 1..(m + n) : u[i] = IF i <= m THEN s[i] ELSE t[i - m]
  BY ConcatProperties, LenProperties
<1>2. \A i \in 1..(m + n) : u[i] \in Events
  BY <1>1, ElementOfSeq
<1>. HIDE DEF u
<1>3. SubSeq(u, 1, m) = s
  <2>. DEFINE v == SubSeq(u, 1, m)
  <2>1. \A i \in 1..m : u[i] \in Events
    BY <1>1, <1>2
  <2>2. /\ v \in Seq(Events) /\ Len(v) = (IF 1 <= m THEN m - 1 + 1 ELSE 0)
        /\ \A i \in 1..(m - 1 + 1) : v[i] = u[1 + i - 1]
    <3>1. 1 \in Int /\ m \in Int
      BY <1>1
    <3>. HIDE DEF m
    <3>. QED BY <2>1, <3>1, SubSeqProperties
  <2>. HIDE DEF v
  <2>3. Len(v) = m
    BY <1>1, <2>2
  <2>4. ASSUME NEW i \in 1..Len(v)
        PROVE  v[i] = s[i]
    <3>1. i \in 1..(m - 1 + 1) /\ 1 + i - 1 = i /\ i \in 1..(m + n) /\ i <= m
      BY <1>1, <2>3
    <3>. QED BY <1>1, <2>2, <3>1
  <2>5. v = s
    BY <2>2, <2>3, <2>4, SeqEqual
  <2>. QED BY <2>5 DEF v
<1>4. SubSeq(u, m + 1, Len(u)) = t
  <2>. DEFINE a == m + 1
              z == Len(u)
              v == SubSeq(u, a, z)
  <2>1. a \in Int /\ z \in Int /\ a \in 1..(z + 1) /\ z = m + n
    BY <1>1
  <2>2. \A i \in a..z : u[i] \in Events
    BY <1>1, <1>2, <2>1
  <2>. HIDE DEF a, z
  <2>3. /\ v \in Seq(Events) /\ Len(v) = (IF a <= z THEN z - a + 1 ELSE 0)
        /\ \A i \in 1..(z - a + 1) : v[i] = u[a + i - 1]
    BY <2>1, <2>2, SubSeqProperties
  <2>. HIDE DEF v
  <2>4. Len(v) = n
    BY <1>1, <2>1, <2>3 DEF a
  <2>5. ASSUME NEW i \in 1..Len(v)
        PROVE  v[i] = t[i]
    <3>1. /\ i \in 1..(z - a + 1) /\ a + i - 1 = m + i /\ m + i \in 1..(m + n)
          /\ ~(m + i <= m) /\ (m + i) - m = i
      BY <1>1, <2>1, <2>4 DEF a
    <3>. QED BY <1>1, <2>3, <3>1
  <2>6. v = t
    BY <2>3, <2>4, <2>5, SeqEqual
  <2>. QED BY <2>6 DEF v, a, z
<1>. QED BY <1>3, <1>4 DEF u

\* What the abstract log forbids to add again is what Fresh speaks of.
LEMMA FreshMayBeAdded ==
    ASSUME NEW log \in Seq(Events), NEW e, Fresh(e, log), Window \in Nat \ {0}
    PROVE  e \notin Abstract!NewestOf(log)
<1>1. Len(log) \in Nat
  BY LenProperties
<1>2. ASSUME NEW i \in 1..Len(log), i > Len(log) - Window
      PROVE  log[i] # e
  <2>1. Len(log) - i \in 0..(Window - 1) /\ Len(log) - i < Len(log) /\ Len(log) - (Len(log) - i) = i
    BY <1>1, <1>2
  <2>. QED BY <2>1 DEF Fresh, Back
<1>. QED BY <1>2 DEF Abstract!NewestOf

\* A log that lost its old end forgot it.
LEMMA CutForgets ==
    ASSUME NEW old \in Seq(Events), NEW log \in Seq(Events), old # <<>>
    PROVE  \E k \in 1..Len(old \o log) : log = SubSeq(old \o log, k + 1, Len(old \o log))
<1>1. Len(old) \in Nat /\ Len(old) # 0 /\ Len(log) \in Nat /\ Len(old \o log) = Len(old) + Len(log)
  BY LenProperties, EmptySeq, ConcatProperties
<1>2. Len(old) \in 1..Len(old \o log)
  BY <1>1
<1>3. log = SubSeq(old \o log, Len(old) + 1, Len(old \o log))
  BY SubSeqOfParts
<1>. QED BY <1>2, <1>3

\* A log that lost a block is damaged.
LosesBlock(log, rest) ==
    \E i \in 1..Len(log) + 1, j \in 0..Len(log) :
        i <= j + 1 /\ rest = SubSeq(log, 1, i - 1) \o SubSeq(log, j + 1, Len(log))

LEMMA BlockLost ==
    ASSUME NEW a \in Seq(Events), NEW p \in Seq(Events), NEW b \in Seq(Events),
           NEW log, log = (a \o p) \o b
    PROVE  LosesBlock(log, a \o b)
<1>1. a \o p \in Seq(Events) /\ Len(a \o p) = Len(a) + Len(p) /\ p \o b \in Seq(Events)
  BY ConcatProperties
<1>2. /\ Len(log) = Len(a) + Len(p) + Len(b)
      /\ Len(a) \in Nat /\ Len(p) \in Nat /\ Len(b) \in Nat
  BY <1>1, ConcatProperties, LenProperties
<1>3. SubSeq(log, Len(a \o p) + 1, Len(log)) = b
  BY <1>1, SubSeqOfParts
<1>4. SubSeq(log, 1, Len(a)) = a
  <2>1. log = a \o (p \o b)
    BY ConcatAssociative
  <2>. QED BY <1>1, <2>1, SubSeqOfParts
<1>5. /\ Len(a) + 1 \in 1..Len(log) + 1 /\ (Len(a) + 1) - 1 = Len(a)
      /\ Len(a \o p) \in 0..Len(log) /\ Len(a) + 1 <= Len(a \o p) + 1
  BY <1>1, <1>2
<1>. QED BY <1>3, <1>4, <1>5 DEF LosesBlock

\* Every step of the store is a step of the log or leaves it alone.
LEMMA LogRefines ==
    StoreInv /\ StoreInv' /\ [Next]_vars => [Abstract!Next]_<<Log, corruptions > 0>>
<1>. SUFFICES ASSUME StoreInv, StoreInv', [Next]_vars
              PROVE  Abstract!Next \/ (Log' = Log /\ (corruptions' > 0) = (corruptions > 0))
  OBVIOUS
<1>. USE DEF StoreInv
<1>0. /\ MaxSegments \in Nat \ {0} /\ Window \in Nat \ {0} /\ Log \in Seq(Events)
      /\ Log' \in Seq(Events) /\ corruptions \in Nat
      /\ segments \in [Numbers -> Segment] /\ segments' \in [Numbers -> Segment]
  <2>1. Log \in Seq(Events)
    BY LogType DEF TypeInv, TypeOK
  <2>2. (Log \in Seq(Events))'
    BY LogType, PTL DEF TypeInv, TypeOK
  <2>. QED BY <2>1, <2>2, ConstantsAssumption DEF ConstantsAssumption, TypeInv, TypeOK
<1>1. ASSUME UNCHANGED <<segments, corruptions>>
      PROVE  Log' = Log /\ (corruptions' > 0) = (corruptions > 0)
  BY <1>0, <1>1, LogStays
<1>2. CASE Boot \/ BoundsEnforced \/ UpdateMemory \/ Tick \/ UNCHANGED vars
  <2>1. UNCHANGED <<segments, corruptions>>
    BY <1>2 DEF Boot, BoundsEnforced, UpdateMemory, Tick, vars, disk, world
  <2>. QED BY <1>1, <2>1
<1>3. CASE RecoverSegment
  <2>1. Log' = Log
    BY <1>3, RecoverKeepsLog
  <2>2. corruptions' = corruptions
    BY <1>3 DEF RecoverSegment, world
  <2>. QED BY <2>1, <2>2
<1>4. ASSUME OpenSegment, sequence <= MaxSegments, \A n \in Present : n < sequence
      PROVE  Log' = Log
  <2>1. sequence \in 1..(MaxSegments + 1) /\ sequence \in Nat
    BY <1>0 DEF TypeInv, TypeOK
  <2>2. sequence \in Numbers \ Present
    BY <1>0, <1>4, <2>1 DEF Numbers
  <2>. QED BY <1>4, <2>2, OpenKeepsLog
<1>5. CASE StartWriting
  <2>1. Log' = Log
    BY <1>4, <1>5 DEF StartWriting, TypeInv, SegmentInv
  <2>2. corruptions' = corruptions
    BY <1>5 DEF StartWriting, world
  <2>. QED BY <2>1, <2>2
<1>6. ASSUME NEW e \in Events, Remember(e)
      PROVE  Log' = Log /\ corruptions' = corruptions
  <2>1. CASE UNCHANGED segments
    BY <1>0, <1>6, <2>1, LogStays DEF Remember, world
  <2>2. CASE sequence <= MaxSegments /\ OpenSegment
    BY <1>4, <1>6, <2>2 DEF Remember, world, SegmentInv, Running
  <2>. QED BY <1>6, <2>1, <2>2 DEF Remember
\* A record is written: the log adds an event that is not among its newest.
<1>7. ASSUME pc = "writing", segments' = [segments EXCEPT ![current] = Written(@)],
             corruptions' = corruptions
      PROVE  Abstract!Next
  <2>1. Log' = Append(Log, pending) /\ pending \in Events
    BY <1>7, WriteAppends DEF TypeInv
  <2>2. corruptions > 0 \/ pending \notin Abstract!NewestOf(Log)
    <3>1. SUFFICES ASSUME ~(corruptions > 0)
                   PROVE  pending \notin Abstract!NewestOf(Log)
      OBVIOUS
    <3>2. corruptions = 0
      BY <1>0, <3>1
    <3>3. Shows(memory, Log) /\ pending \notin Elements(memory) /\ memory \in Seq(Events)
      BY <1>7, <3>2 DEF LogInv, DistinctInv, Running, TypeInv, TypeOK
    <3>4. PICK mem, log, e : mem = memory /\ log = Log /\ e = pending
      OBVIOUS
    <3>5. Fresh(e, log)
      BY <1>0, <3>3, <3>4, UnknownIsFresh
    <3>6. e \notin Abstract!NewestOf(log)
      BY <1>0, <3>4, <3>5, FreshMayBeAdded
    <3>. QED BY <3>4, <3>6 DEF Abstract!NewestOf
  <2>3. Abstract!Add(pending)
    BY <1>7, <2>1, <2>2 DEF Abstract!Add
  <2>. QED BY <2>1, <2>3 DEF Abstract!Next
<1>8. CASE WriteRecord
  BY <1>7, <1>8 DEF WriteRecord, world
<1>9. CASE WriteRaises
  <2>1. pc = "writing" /\ corruptions' = corruptions
    BY <1>9 DEF WriteRaises, world
  <2>2. CASE UNCHANGED segments
    BY <1>1, <2>1, <2>2
  <2>3. CASE segments' = [segments EXCEPT ![current] = Torn(@)]
    BY <2>1, <2>3, TornKeepsLog
  <2>4. CASE segments' = [segments EXCEPT ![current] = Written(@)]
    BY <1>7, <2>1, <2>4
  <2>. QED BY <1>9, <2>2, <2>3, <2>4 DEF WriteRaises
<1>10. CASE Crash
  <2>1. corruptions' = corruptions
    BY <1>10 DEF Crash
  <2>2. CASE UNCHANGED segments
    BY <1>1, <2>1, <2>2
  <2>3. CASE pc = "writing" /\ segments' = [segments EXCEPT ![current] = Torn(@)]
    BY <2>1, <2>3, TornKeepsLog
  <2>. QED BY <1>10, <2>2, <2>3 DEF Crash
<1>11. CASE Unlink
  <2>1. corruptions' = corruptions
    BY <1>11 DEF Unlink, world
  <2>2. PICK old \in Seq(Events) : Log = old \o Log'
    BY <1>11, UnlinkForgets
  <2>3. PICK log : log = Log'
    OBVIOUS
  <2>4. CASE old = <<>>
    <3>1. old \o log = log
      BY <1>0, <2>3, <2>4, ConcatEmptySeq
    <3>. QED BY <2>1, <2>2, <2>3, <3>1
  <2>5. CASE old # <<>>
    <3>1. \E k \in 1..Len(old \o log) : log = SubSeq(old \o log, k + 1, Len(old \o log))
      BY <1>0, <2>3, <2>5, CutForgets
    <3>2. \E k \in 1..Len(Log) : Log' = SubSeq(Log, k + 1, Len(Log))
      BY <2>2, <2>3, <3>1
    <3>3. Abstract!Forget
      BY <2>1, <3>2 DEF Abstract!Forget
    <3>. QED BY <3>3 DEF Abstract!Next
  <2>. QED BY <2>4, <2>5
\* A segment is damaged: a block of the log is lost.
<1>12. CASE Corrupt
  <2>1. PICK n \in Present : segments' = [segments EXCEPT ![n].corrupt = TRUE]
    BY <1>12 DEF Corrupt
  <2>2. n \in Numbers /\ corruptions' > 0
    BY <1>0, <1>12 DEF Present, Corrupt
  <2>3. segments'[n].corrupt /\ \A m \in Numbers \ {n} : segments'[m] = segments[m]
    BY <1>0, <2>1, <2>2, CorruptFields
  <2>4. Piece(segments'[n]) = <<>>
    BY <2>3 DEF Piece
  <2>5. DifferAt(n, Log, segments, Log', segments')
    BY <1>0, <2>2, <2>3, LogChanges
  <2>. DEFINE p == Piece(segments[n])
  <2>6. p \in Seq(Events)
    <3>1. <<>> \in Seq(Events)
      OBVIOUS
    <3>. QED BY <1>0, <2>2, <3>1 DEF Piece, Segment
  <2>7. PICK a, b \in Seq(Events) : Log = (a \o p) \o b /\ Log' = (a \o <<>>) \o b
    BY <2>4, <2>5 DEF DifferAt
  <2>8. Log' = a \o b
    BY <2>7, ConcatEmptySeq
  <2>9. PICK log, q : log = Log /\ q = p
    OBVIOUS
  <2>. HIDE DEF p
  <2>10. LosesBlock(log, a \o b)
    <3>1. q \in Seq(Events) /\ log = (a \o q) \o b
      BY <2>6, <2>7, <2>9
    <3>. QED BY <3>1, BlockLost
  <2>11. Abstract!Damage
    BY <2>2, <2>8, <2>9, <2>10 DEF Abstract!Damage, LosesBlock
  <2>. QED BY <2>11 DEF Abstract!Next
<1>. QED
  BY <1>2, <1>3, <1>5, <1>6, <1>8, <1>9, <1>10, <1>11, <1>12 DEF Next, StoreStep

\* The store implements the log: an event acknowledged is lost only at the
\* old end or in a damaged file, and none is stored twice among the newest
\* Window, through every crash and restart (store.py as a whole).
THEOREM StoreImplementsLog == Spec => ImplementsEventLog
<1>1. Init => Abstract!Init
  <2>. SUFFICES ASSUME Init
                PROVE  Log = <<>> /\ (corruptions > 0) = FALSE
    BY DEF Abstract!Init
  <2>1. TypeInv /\ DirectoryInv
    BY TypeInit, StoreInit
  <2>2. Present = {}
    BY DEF Init, Present, NoSegment
  <2>3. MaxSegments \in Nat
    BY ConstantsAssumption DEF ConstantsAssumption
  <2>4. 0 \in 0..MaxSegments /\ MaxSegments \in 0..MaxSegments
    BY <2>3
  <2>5. LogUpTo[MaxSegments] = LogUpTo[0]
    BY <2>1, <2>2, <2>4, LogUpToSteps
  <2>6. Log = <<>>
    BY <2>1, <2>5, LogUpToSteps DEF Log
  <2>7. corruptions = 0
    BY DEF Init
  <2>. QED BY <2>6, <2>7
<1>. QED BY <1>1, LogRefines, StoreInvariant, PTL DEF Spec, ImplementsEventLog, Abstract!Spec

=============================================================================
