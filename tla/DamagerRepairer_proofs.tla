------------------------ MODULE DamagerRepairer_proofs ------------------------
(***************************************************************************)
(* The damage region of NonRuleBasedDamagerRepairer is exactly large       *)
(* enough, for documents of every length and every number of lines.        *)
(***************************************************************************)
EXTENDS DamagerRepairer, WellFoundedInduction, SequenceTheorems, TLAPS

-----------------------------------------------------------------------------
(* Least and greatest elements *)

LEMMA MinExists ==
    ASSUME NEW S, S \subseteq Nat, S # {}
    PROVE  Min(S) \in S /\ \A x \in S : Min(S) <= x
PROOF
<1>1. PICK m \in S : \A y \in S : <<y, m>> \notin OpToRel(<, Nat)
    BY NatLessThanWellFounded, WFMin
<1>2. \A y \in S : ~(y < m)
    BY <1>1 DEF OpToRel
<1>3. \E x \in S : \A y \in S : x =< y
    BY <1>2
<1> QED
    BY <1>3 DEF Min

LEMMA MinIs ==
    ASSUME NEW S, S \subseteq Nat, NEW m \in S, \A x \in S : m <= x
    PROVE  Min(S) = m
PROOF
<1>1. PICK k \in Nat : k = Min(S) /\ k \in S /\ k <= m
    BY MinExists
<1>2. m <= k /\ m \in Nat
    BY <1>1
<1> QED
    BY <1>1, <1>2

LEMMA MaxExists ==
    ASSUME NEW b \in Nat, NEW S, S \subseteq 0..b, S # {}
    PROVE  Max(S) \in S /\ \A x \in S : x <= Max(S)
PROOF
<1> DEFINE D == {d \in 0..b : b - d \in S}
<1>1. PICK x \in S : TRUE
    OBVIOUS
<1>2. b - x \in 0..b /\ b - (b - x) = x
    BY <1>1
<1>3. b - x \in D
    BY <1>1, <1>2
<1>4. Min(D) \in D /\ \A d \in D : Min(D) <= d
    <2>1. D \subseteq Nat /\ D # {}
        BY <1>3
    <2> QED
        BY <2>1, MinExists
<1>5. PICK m \in S : m = b - Min(D) /\ Min(D) \in 0..b
    BY <1>4
<1>6. ASSUME NEW y \in S
      PROVE  m >= y
    <2>1. y \in 0..b /\ b - y \in 0..b /\ b - (b - y) = y
        OBVIOUS
    <2>2. b - y \in D
        BY <2>1
    <2>3. Min(D) <= b - y
        BY <1>4, <2>2
    <2> QED
        BY <1>5, <2>1, <2>3
<1> QED
    BY <1>5, <1>6 DEF Max

-----------------------------------------------------------------------------
(* Lines *)

\* The texts are the sequences of bounded length.
LEMMA TextIsSeq ==
    ASSUME NEW max \in Nat, NEW t
    PROVE  t \in Texts(max) <=> t \in Seq(Chars) /\ Len(t) <= max
PROOF
<1>1. ASSUME t \in Texts(max)
      PROVE  t \in Seq(Chars) /\ Len(t) <= max
    <2>1. PICK n \in 0..max : t \in [1..n -> Chars]
        BY <1>1 DEF Texts
    <2>2. t \in Seq(Chars)
        BY <2>1, SeqDef
    <2>3. Len(t) = n
        BY <2>1, <2>2, LenProperties
    <2> QED
        BY <2>2, <2>3
<1>2. ASSUME t \in Seq(Chars), Len(t) <= max
      PROVE  t \in Texts(max)
    <2>1. Len(t) \in 0..max /\ t \in [1..Len(t) -> Chars]
        BY <1>2, LenProperties
    <2> QED
        BY <2>1 DEF Texts
<1> QED
    BY <1>1, <1>2

\* The line of an offset starts at or before it, and every later line starts
\* after it.
LEMMA LineStartOfOffset ==
    ASSUME NEW t \in Seq(Chars), NEW i \in 0..Len(t)
    PROVE  /\ LineStartOf(t, i) \in 0..i
           /\ \A s \in LineStarts(t) : LineStartOf(t, i) < s => i < s
PROOF
<1> DEFINE S == {s \in LineStarts(t) : s <= i}
<1>1. Len(t) \in Nat
    OBVIOUS
<1>2. LineStarts(t) \subseteq 0..Len(t) /\ 0 \in LineStarts(t)
    BY <1>1 DEF LineStarts
<1>3. S \subseteq 0..i /\ S # {} /\ i \in Nat
    BY <1>1, <1>2
<1>4. Max(S) \in S /\ \A x \in S : x <= Max(S)
    BY <1>3, MaxExists
<1>5. LineStartOf(t, i) = Max(S)
    BY DEF LineStartOf
<1>6. \A s \in LineStarts(t) : s <= i => s \in S
    OBVIOUS
<1> HIDE DEF S
<1>7. LineStartOf(t, i) \in 0..i
    BY <1>3, <1>4, <1>5
<1>8. ASSUME NEW s \in LineStarts(t), LineStartOf(t, i) < s
      PROVE  i < s
    <2>1. s \in 0..Len(t)
        BY <1>2
    <2>2. s <= i => s <= LineStartOf(t, i)
        BY <1>4, <1>5, <1>6
    <2> QED
        BY <1>1, <1>7, <1>8, <2>1, <2>2
<1> QED
    BY <1>7, <1>8

\* A line ends where it starts or later, inside the document.
LEMMA LineEndAfterStart ==
    ASSUME NEW t \in Seq(Chars), NEW s \in 0..Len(t)
    PROVE  LineEnd(t, s) \in s..Len(t)
PROOF
<1> DEFINE E == {e \in s..Len(t) : e = Len(t) \/ IsDelimiter(t, e)}
<1>1. Len(t) \in Nat
    OBVIOUS
<1>2. E \subseteq Nat /\ Len(t) \in E
    BY <1>1
<1>3. Min(E) \in E
    BY <1>2, MinExists
<1> QED
    BY <1>3 DEF LineEnd

\* endOfLineOf never answers an offset before the one it is asked about.
LEMMA EndOfLineAfterOffset ==
    ASSUME NEW t \in Seq(Chars), NEW i \in 0..Len(t)
    PROVE  endOfLineOf(t, i) \in i..Len(t)
PROOF
<1> DEFINE next == {s \in LineStarts(t) : LineStartOf(t, i) < s}
<1>1. Len(t) \in Nat
    OBVIOUS
<1>2. LineStartOf(t, i) \in 0..Len(t)
    BY <1>1, LineStartOfOffset
<1>3. LineEndOf(t, i) \in 0..Len(t)
    BY <1>1, <1>2, LineEndAfterStart DEF LineEndOf
<1>4. CASE i <= LineEndOf(t, i)
    BY <1>1, <1>3, <1>4 DEF endOfLineOf
<1>5. CASE ~(i <= LineEndOf(t, i)) /\ next # {}
    <2>1. next \subseteq 0..Len(t) /\ next \subseteq Nat
        BY <1>1 DEF LineStarts
    <2>2. Min(next) \in next
        BY <1>5, <2>1, MinExists
    <2>3. i < Min(next) /\ Min(next) \in 0..Len(t)
        BY <2>1, <2>2, LineStartOfOffset
    <2>4. LineEnd(t, Min(next)) \in Min(next)..Len(t)
        BY <2>3, LineEndAfterStart
    <2>5. endOfLineOf(t, i) = LineEnd(t, Min(next))
        BY <1>5 DEF endOfLineOf
    <2> QED
        BY <1>1, <2>3, <2>4, <2>5
<1>6. CASE ~(i <= LineEndOf(t, i)) /\ next = {}
    BY <1>1, <1>6 DEF endOfLineOf
<1> QED
    BY <1>4, <1>5, <1>6

-----------------------------------------------------------------------------
(* endOfLineOf and its documentation *)

\* Where a line may end: at the end of the document or at a delimiter.
Ends(t, e) == e = Len(t) \/ IsDelimiter(t, e)

\* A line ends at the first end from its start on, and that is not between
\* the two characters of a delimiter.
LEMMA LineEndOfStart ==
    ASSUME NEW t \in Seq(Chars), NEW s \in LineStarts(t)
    PROVE  /\ LineEnd(t, s) \in s..Len(t)
           /\ Ends(t, LineEnd(t, s))
           /\ ~InsideDelimiter(t, LineEnd(t, s))
           /\ \A e \in s..Len(t) : Ends(t, e) => LineEnd(t, s) <= e
PROOF
<1> DEFINE E == {e \in s..Len(t) : e = Len(t) \/ IsDelimiter(t, e)}
           end == LineEnd(t, s)
<1>1. Len(t) \in Nat /\ s \in 0..Len(t)
    BY DEF LineStarts
<1>2. E \subseteq Nat /\ Len(t) \in E
    BY <1>1
<1>3. end = Min(E)
    BY DEF LineEnd
<1>4. end \in E /\ \A e \in E : end <= e
    BY <1>2, <1>3, MinExists
<1>5. end \in s..Len(t) /\ Ends(t, end)
    BY <1>4 DEF Ends
<1>6. \A e \in s..Len(t) : Ends(t, e) => end <= e
    BY <1>4 DEF Ends
<1>7. ASSUME InsideDelimiter(t, end)
      PROVE  FALSE
    <2>1. 0 < end /\ IsDelimiter(t, end - 1)
        BY <1>7 DEF InsideDelimiter, IsDelimiter
    <2>2. CASE end = s
        BY <1>7, <2>1, <2>2 DEF LineStarts
    <2>3. CASE end # s
        <3>1. end - 1 \in s..Len(t) /\ ~(end <= end - 1)
            BY <1>1, <1>5, <2>3
        <3> QED
            BY <1>6, <2>1, <3>1 DEF Ends
    <2> QED
        BY <2>2, <2>3
<1> QED
    BY <1>5, <1>6, <1>7

\* endOfLineOf answers the first line end from the offset on that is not
\* inside a delimiter.  An offset behind the end of its line is the one inside
\* that line's delimiter, and there is a next line.
LEMMA EndOfLine ==
    ASSUME NEW t \in Seq(Chars), NEW i \in 0..Len(t)
    PROVE  endOfLineOf(t, i) =
               Min({e \in i..Len(t) : Ends(t, e) /\ ~InsideDelimiter(t, e)})
PROOF
<1> DEFINE R == {e \in i..Len(t) : Ends(t, e) /\ ~InsideDelimiter(t, e)}
           s == LineStartOf(t, i)
           end == LineEnd(t, s)
           next == {r \in LineStarts(t) : s < r}
<1>1. Len(t) \in Nat /\ R \subseteq Nat
    OBVIOUS
<1>2. s \in LineStarts(t) /\ s \in 0..i
    <2> DEFINE S == {r \in LineStarts(t) : r <= i}
    <2>1. S \subseteq 0..i /\ i \in Nat /\ 0 \in S
        BY <1>1 DEF LineStarts
    <2>2. Max(S) \in S
        BY <2>1, MaxExists
    <2> QED
        BY <2>2, LineStartOfOffset DEF LineStartOf
<1>3. \A r \in LineStarts(t) : s < r => i < r
    BY LineStartOfOffset
<1>4. /\ end \in s..Len(t) /\ Ends(t, end) /\ ~InsideDelimiter(t, end)
      /\ \A e \in s..Len(t) : Ends(t, e) => end <= e
    BY <1>2, LineEndOfStart
<1>5. LineEndOf(t, i) = end
    BY DEF LineEndOf
<1>6. CASE i <= end
    <2>1. endOfLineOf(t, i) = end
        BY <1>5, <1>6 DEF endOfLineOf
    <2>2. end \in R /\ \A e \in R : end <= e
        BY <1>1, <1>2, <1>4, <1>6
    <2>3. Min(R) = end
        BY <1>1, <2>2, MinIs
    <2> QED
        BY <2>1, <2>3
<1>7. CASE ~(i <= end)
    <2> DEFINE m == end + 2
    <2>1. end \in Nat /\ end < i /\ end < Len(t) /\ IsDelimiter(t, end)
        BY <1>1, <1>2, <1>4, <1>7 DEF Ends
    <2>2. InsideDelimiter(t, end + 1)
        <3>1. end + 1 \in 0..Len(t) /\ end + 1 - 1 = end /\ s < end + 1 /\ ~(i < end + 1)
            BY <1>1, <1>2, <1>4, <2>1
        <3>2. end + 1 \notin LineStarts(t)
            BY <1>3, <3>1
        <3> QED
            BY <2>1, <3>1, <3>2 DEF LineStarts
    <2>3. end + 1 < Len(t) /\ CharAt(t, end + 1) = "n"
        BY <2>2 DEF InsideDelimiter
    <2>4. m \in LineStarts(t)
        <3>1. m \in 0..Len(t) /\ m - 1 = end + 1
            BY <1>1, <2>1, <2>3
        <3>2. IsDelimiter(t, m - 1) /\ ~InsideDelimiter(t, m)
            BY <2>3, <3>1 DEF IsDelimiter, InsideDelimiter
        <3> QED
            BY <3>1, <3>2 DEF LineStarts
    <2>5. s < m /\ i = end + 1
        BY <1>1, <1>2, <1>3, <1>4, <2>1, <2>4
    <2>6. next \subseteq Nat /\ m \in next /\ \A r \in next : m <= r
        <3>1. next \subseteq Nat /\ m \in next
            BY <1>1, <2>4, <2>5 DEF LineStarts
        <3> QED
            BY <1>3, <2>1, <2>5, <3>1
    <2>7. Min(next) = m
        BY <2>6, MinIs
    <2>8. endOfLineOf(t, i) = LineEnd(t, m)
        BY <1>5, <1>7, <2>6, <2>7 DEF endOfLineOf
    <2> DEFINE last == LineEnd(t, m)
    <2>9. /\ last \in m..Len(t) /\ Ends(t, last) /\ ~InsideDelimiter(t, last)
          /\ \A e \in m..Len(t) : Ends(t, e) => last <= e
        BY <2>4, LineEndOfStart
    <2>10. last \in R
        BY <1>1, <2>1, <2>5, <2>9
    <2>11. ASSUME NEW e \in R
           PROVE  last <= e
        <3>1. e # end + 1
            BY <2>2
        <3>2. e \in m..Len(t)
            BY <1>1, <2>1, <2>5, <3>1
        <3> QED
            BY <2>9, <3>2
    <2>12. Min(R) = last
        BY <1>1, <2>10, <2>11, MinIs
    <2> QED
        BY <2>8, <2>12
<1> QED
    BY <1>6, <1>7

-----------------------------------------------------------------------------
(* The damage region *)

\* Damage r lies inside partition p, starts no later than offset, and reaches
\* offset + n or the end of the partition.
Covers(r, p, offset, n) ==
    /\ r \in [offset : Nat, length : Nat]
    /\ p.offset <= r.offset
    /\ r.offset + r.length <= p.offset + p.length
    /\ r.offset <= offset
    /\ \/ offset + n <= r.offset + r.length
       \/ r.offset + r.length = p.offset + p.length

\* The damage of an edit in the partition holds every character of it that
\* the event's text has put at the offset, and nothing outside it.
LEMMA DamageCovers ==
    ASSUME NEW t \in Seq(Chars), NEW p \in [offset : Nat, length : Nat],
           NEW offset \in 0..Len(t), NEW n \in Nat,
           p.offset <= offset, offset <= p.offset + p.length
    PROVE  Covers(getDamageRegion(t, p, offset, n, FALSE), p, offset, n)
PROOF
<1> DEFINE start == LineStartOf(t, offset)
           end == IF start <= offset + n /\ offset + n <= LineEnd(t, start)
                  THEN LineEnd(t, start) ELSE endOfLineOf(t, offset + n)
           from == IF p.offset < start THEN start ELSE p.offset
           to == IF p.offset + p.length < end THEN p.offset + p.length ELSE end
           damage == getDamageRegion(t, p, offset, n, FALSE)
<1>1. Len(t) \in Nat
    OBVIOUS
<1>2. CASE ~ValidOffset(t, offset + n)
    <2>1. damage = p
        BY <1>2 DEF getDamageRegion
    <2>2. Covers(p, p, offset, n)
        BY <1>1 DEF Covers
    <2> QED
        BY <2>1, <2>2
<1>3. CASE ValidOffset(t, offset + n)
    <2>1. start \in 0..offset
        BY LineStartOfOffset
    <2>2. offset + n \in 0..Len(t)
        BY <1>3 DEF ValidOffset
    <2>3. endOfLineOf(t, offset + n) \in (offset + n)..Len(t)
        BY <2>2, EndOfLineAfterOffset
    <2>4. LineEnd(t, start) \in Nat
        BY <1>1, <2>1, LineEndAfterStart
    <2>5. end \in Nat /\ offset + n <= end
        BY <1>1, <2>2, <2>3, <2>4
    <2>6. damage = Region(from, to - from)
        BY <1>3 DEF getDamageRegion
    <2> HIDE DEF start, end, damage
    <2>7. /\ from \in Nat /\ to \in Nat /\ p.offset <= from /\ from <= offset
          /\ offset <= to /\ to <= p.offset + p.length
          /\ offset + n <= to \/ to = p.offset + p.length
        BY <1>1, <2>1, <2>5
    <2> HIDE DEF from, to
    <2>8. damage.offset = from /\ damage.length = to - from
          /\ damage = [offset |-> from, length |-> to - from]
        BY <2>6 DEF Region
    <2>9. damage \in [offset : Nat, length : Nat] /\ damage.offset + damage.length = to
        BY <1>1, <2>7, <2>8
    <2>10. Covers(damage, p, offset, n)
        BY <2>7, <2>8, <2>9 DEF Covers
    <2> QED
        BY <2>10 DEF damage
<1> QED
    BY <1>2, <1>3

-----------------------------------------------------------------------------
(* The editor *)

\* A replaced document is a document of the expected length.
LEMMA ReplaceIsSeq ==
    ASSUME NEW t \in Seq(Chars), NEW new \in Seq(Chars),
           NEW offset \in Nat, NEW len \in Nat, offset + len <= Len(t)
    PROVE  /\ Replace(t, offset, len, new) \in Seq(Chars)
           /\ Len(Replace(t, offset, len, new)) = Len(t) - len + Len(new)
PROOF
<1> DEFINE head == SubSeq(t, 1, offset)
           tail == SubSeq(t, offset + len + 1, Len(t))
<1>1. Len(t) \in Nat /\ \A i \in 1..Len(t) : t[i] \in Chars
    BY ElementOfSeq
<1>2. head \in Seq(Chars) /\ Len(head) = offset
    <2>1. 1 \in Int /\ offset \in Int /\ \A i \in 1..offset : t[i] \in Chars
        BY <1>1
    <2>2. head \in Seq(Chars) /\ Len(head) = IF 1 <= offset THEN offset - 1 + 1 ELSE 0
        BY <2>1, SubSeqProperties
    <2> QED
        BY <2>2
<1>3. tail \in Seq(Chars) /\ Len(tail) = Len(t) - offset - len
    <2>1. offset + len + 1 \in Int /\ Len(t) \in Int
          /\ \A i \in (offset + len + 1)..Len(t) : t[i] \in Chars
        BY <1>1
    <2>2. tail \in Seq(Chars)
          /\ Len(tail) = IF offset + len + 1 <= Len(t)
                         THEN Len(t) - (offset + len + 1) + 1 ELSE 0
        BY <2>1, SubSeqProperties
    <2> QED
        BY <1>1, <2>2
<1> HIDE DEF head, tail
<1>4. head \o new \in Seq(Chars) /\ Len(head \o new) = offset + Len(new)
    BY <1>2, ConcatProperties
<1> DEFINE front == head \o new
<1>5. Replace(t, offset, len, new) = front \o tail
    BY DEF Replace, head, tail
<1>6. front \in Seq(Chars) /\ Len(front) = offset + Len(new)
    BY <1>4
<1> HIDE DEF front
<1>7. front \o tail \in Seq(Chars) /\ Len(front \o tail) = Len(front) + Len(tail)
    BY <1>3, <1>6, ConcatProperties
<1>8. Len(new) \in Nat
    OBVIOUS
<1> QED
    BY <1>1, <1>3, <1>5, <1>6, <1>7, <1>8

\* An edit at offset that puts k characters for len inside a comment from p
\* to q, with a damage from d to e that covers them.
Mends(p, q, offset, len, k, d, e) ==
    /\ p < offset /\ offset + len < q
    /\ p <= d /\ d <= offset /\ e <= q - len + k
    /\ offset + k <= e \/ e = q - len + k \/ k = 0

\* The styles that move with the edit, together with the damage, are those of
\* the comment as the edit leaves it.
Mended(p, q, offset, len, k, d, e) ==
    Shift(p..(q - 1), offset, len, k) \cup d..(e - 1) = p..(q - len + k - 1)

LEMMA ShiftRepairs ==
    ASSUME NEW p \in Nat, NEW q \in Nat, NEW offset \in Nat, NEW len \in Nat,
           NEW k \in Nat, NEW d \in Nat, NEW e \in Nat,
           Mends(p, q, offset, len, k, d, e)
    PROVE  Mended(p, q, offset, len, k, d, e)
PROOF
<1> USE DEF Mends
<1> DEFINE S == p..(q - 1)
           moved == {i - len + k : i \in {j \in S : offset + len <= j}}
<1>1. \A x : x \in moved <=> x \in (offset + k)..(q - len + k - 1)
    <2>1. ASSUME NEW x \in moved
          PROVE  x \in (offset + k)..(q - len + k - 1)
        <3>1. PICK i \in S : offset + len <= i /\ x = i - len + k
            BY <2>1
        <3> QED
            BY <3>1
    <2>2. ASSUME NEW x \in (offset + k)..(q - len + k - 1)
          PROVE  x \in moved
        <3>1. x + len - k \in S /\ offset + len <= x + len - k
            OBVIOUS
        <3>2. x = (x + len - k) - len + k
            OBVIOUS
        <3> QED
            BY <3>1, <3>2
    <2> QED
        BY <2>1, <2>2
<1>2. Shift(S, offset, len, k) = {i \in S : i < offset} \cup moved
    BY DEF Shift
<1> HIDE DEF moved
<1>3. \A x : x \in {i \in S : i < offset} <=> x \in p..(offset - 1)
    OBVIOUS
<1>4. \A x : x \in Shift(S, offset, len, k) \cup d..(e - 1) <=> x \in p..(q - len + k - 1)
    BY <1>1, <1>2, <1>3
<1> QED
    BY <1>4 DEF Mended

IInv == TypeOK /\ Repaired

LEMMA InitIInv == Init => IInv
PROOF
<1> SUFFICES ASSUME Init PROVE IInv
    OBVIOUS
<1>1. partition \in Regions /\ partition.offset + partition.length <= Len(text)
      /\ text \in Texts(MaxLength) /\ styled = Offsets(partition)
    BY DEF Init, createPresentation
<1>2. Len(text) \in Nat /\ Len(text) <= MaxLength
    BY <1>1, TextIsSeq, DamagerAssumption
<1>3. Offsets(partition) \subseteq 0..(Len(text) - 1)
    BY <1>1, <1>2, DamagerAssumption DEF Offsets, Regions
<1> QED
    BY <1>1, <1>3 DEF IInv, TypeOK, Repaired

\* An edit inside the comment.
LEMMA EditInsideIInv ==
    ASSUME IInv, NEW offset \in 0..MaxLength, NEW len \in 0..MaxLength,
           NEW new \in Texts(MaxInsert), NEW nullText \in BOOLEAN,
           EditInside(offset, len, new, nullText)
    PROVE  IInv'
PROOF
<1>1. PICK k \in Nat : new \in Seq(Chars) /\ k = Len(new) /\ (nullText => k = 0)
    <2>1. new \in Seq(Chars)
        BY TextIsSeq, DamagerAssumption
    <2>2. nullText => new = <<>>
        BY DEF EditInside
    <2> QED
        BY <2>1, <2>2, EmptySeq
<1>2. PICK size \in Nat : text \in Seq(Chars) /\ Len(text) = size /\ size <= MaxLength
    BY TextIsSeq, DamagerAssumption DEF IInv, TypeOK
<1>3. PICK p \in 0..MaxLength, w \in 0..MaxLength :
            partition = [offset |-> p, length |-> w] /\ p + w <= size
    BY <1>2 DEF IInv, TypeOK, Regions
<1>4. p < offset /\ offset + len < p + w /\ size - len + k <= MaxLength
      /\ offset \in Nat /\ len \in Nat /\ p \in Nat /\ w \in Nat /\ MaxLength \in Nat
    BY <1>1, <1>2, <1>3, DamagerAssumption DEF EditInside
<1>5. text' \in Seq(Chars) /\ Len(text') = size - len + k
    <2>1. text' = Replace(text, offset, len, new)
        BY DEF EditInside
    <2>2. offset + len <= Len(text)
        BY <1>2, <1>3, <1>4
    <2>3. /\ Replace(text, offset, len, new) \in Seq(Chars)
          /\ Len(Replace(text, offset, len, new)) = Len(text) - len + Len(new)
        <3>1. text \in Seq(Chars) /\ new \in Seq(Chars) /\ offset \in Nat /\ len \in Nat
            BY <1>1, <1>2, <1>4
        <3> QED
            BY <2>2, <3>1, ReplaceIsSeq, Zenon
    <2> QED
        BY <1>1, <1>2, <2>1, <2>3
<1>6. partition' = [offset |-> p, length |-> w - len + k]
    BY <1>1, <1>3 DEF EditInside, Region
<1>7. w - len + k \in Nat /\ p + (w - len + k) <= size - len + k
    BY <1>3, <1>4
<1>8. styled = p..((p + w) - 1)
    BY <1>3, <1>4 DEF IInv, Repaired, Offsets
<1> DEFINE n == IF nullText THEN len ELSE Len(new)
           damage == getDamageRegion(text', partition', offset, n, FALSE)
<1>9. styled' = Shift(styled, offset, len, k) \cup Offsets(damage)
    BY <1>1 DEF EditInside, createPresentation
<1>10. n \in Nat /\ (nullText \/ n = k)
    BY <1>1, <1>4
<1>11. /\ damage \in [offset : Nat, length : Nat]
       /\ p <= damage.offset
       /\ damage.offset + damage.length <= p + (w - len + k)
       /\ damage.offset <= offset
       /\ \/ offset + n <= damage.offset + damage.length
          \/ damage.offset + damage.length = p + (w - len + k)
    <2> DEFINE r == [offset |-> p, length |-> w - len + k]
    <2>1. r \in [offset : Nat, length : Nat] /\ r.offset = p /\ r.length = w - len + k
        BY <1>4, <1>7
    <2>2. p <= offset /\ offset <= p + (w - len + k) /\ offset \in 0..Len(text')
        BY <1>3, <1>4, <1>5, <1>7
    <2>3. partition' = r
        BY <1>6
    <2>4. damage = getDamageRegion(text', r, offset, n, FALSE)
        BY <2>3
    <2> HIDE DEF r, n, damage
    <2>5. Covers(getDamageRegion(text', r, offset, n, FALSE), r, offset, n)
        BY <1>5, <1>10, <2>1, <2>2, DamageCovers
    <2> QED
        BY <2>1, <2>4, <2>5 DEF Covers
<1> HIDE DEF damage, n
<1>12. PICK d \in Nat, e \in Nat :
            d = damage.offset /\ e = damage.offset + damage.length /\ Offsets(damage) = d..(e - 1)
    BY <1>11 DEF Offsets
<1>13. Shift(p..((p + w) - 1), offset, len, k) \cup d..(e - 1) = p..((p + w) - len + k - 1)
    <2>1. PICK q \in Nat : q = p + w
        BY <1>4
    <2>2. Mends(p, q, offset, len, k, d, e)
        BY <1>1, <1>4, <1>7, <1>10, <1>11, <1>12, <2>1 DEF Mends
    <2>3. p \in Nat /\ q \in Nat /\ offset \in Nat /\ len \in Nat
          /\ k \in Nat /\ d \in Nat /\ e \in Nat
        BY <1>4
    <2>4. Mended(p, q, offset, len, k, d, e)
        BY <2>2, <2>3, ShiftRepairs
    <2> QED
        BY <2>1, <2>4 DEF Mended
<1>14. styled' = p..((p + (w - len + k)) - 1)
    <2>1. (p + w) - len + k - 1 = (p + (w - len + k)) - 1
        BY <1>4
    <2> QED
        BY <1>8, <1>9, <1>12, <1>13, <2>1
<1>15. Repaired'
    BY <1>6, <1>7, <1>14 DEF Repaired, Offsets
<1>16. styled' \subseteq 0..(Len(text') - 1)
    BY <1>4, <1>5, <1>7, <1>14
<1>17. text' \in Texts(MaxLength)
    BY <1>4, <1>5, TextIsSeq
<1>18. partition' \in Regions /\ partition'.offset + partition'.length <= Len(text')
    BY <1>4, <1>5, <1>6, <1>7 DEF Regions
<1> QED
    BY <1>15, <1>16, <1>17, <1>18 DEF IInv, TypeOK

\* An edit that changes the partitioning damages the whole new comment.
LEMMA EditPartitioningIInv ==
    ASSUME IInv, NEW offset \in 0..MaxLength, NEW len \in 0..MaxLength,
           NEW new \in Texts(MaxInsert), NEW p \in Regions,
           EditPartitioning(offset, len, new, p)
    PROVE  IInv'
PROOF
<1>1. new \in Seq(Chars) /\ Len(new) \in Nat
    BY TextIsSeq, DamagerAssumption
<1>2. text \in Seq(Chars) /\ Len(text) \in Nat
    BY TextIsSeq, DamagerAssumption DEF IInv, TypeOK
<1>3. /\ offset + len <= Len(text)
      /\ Len(text) - len + Len(new) <= MaxLength
      /\ p.offset + p.length <= Len(text) - len + Len(new)
      /\ text' = Replace(text, offset, len, new)
      /\ partition' = p
    BY DEF EditPartitioning
<1>4. offset \in Nat /\ len \in Nat
    BY DamagerAssumption
<1>5. text' \in Seq(Chars) /\ Len(text') = Len(text) - len + Len(new)
    <2>1. /\ Replace(text, offset, len, new) \in Seq(Chars)
          /\ Len(Replace(text, offset, len, new)) = Len(text) - len + Len(new)
        BY <1>1, <1>2, <1>3, <1>4, ReplaceIsSeq, Zenon
    <2> QED
        BY <1>3, <2>1
<1>6. getDamageRegion(text', p, offset, Len(new), TRUE) = p
    BY DEF getDamageRegion
<1>7. styled' = Offsets(p)
    BY <1>6 DEF EditPartitioning, createPresentation
<1>8. Offsets(p) \subseteq 0..(Len(text') - 1)
    BY <1>1, <1>2, <1>3, <1>4, <1>5, DamagerAssumption DEF Offsets, Regions
<1>9. text' \in Texts(MaxLength)
    BY <1>3, <1>5, TextIsSeq, DamagerAssumption
<1> QED
    BY <1>3, <1>5, <1>7, <1>8, <1>9 DEF IInv, TypeOK, Repaired

LEMMA IInvHolds == Spec => []IInv
PROOF
<1>1. Init => IInv
    BY InitIInv
<1>2. IInv /\ [Next]_vars => IInv'
    <2> SUFFICES ASSUME IInv, [Next]_vars PROVE IInv'
        OBVIOUS
    <2>1. CASE UNCHANGED vars
        BY <2>1 DEF vars, IInv, TypeOK, Repaired, Offsets
    <2> QED
        BY <2>1, EditInsideIInv, EditPartitioningIInv DEF Next
<1> QED
    BY <1>1, <1>2, PTL DEF Spec

-----------------------------------------------------------------------------
(* The theorems *)

\* The document stays a document, the partition stays in it, and no offset
\* outside it is styled, whatever an edit inserts or removes.
THEOREM TypeCorrect == Spec => []TypeOK
PROOF
<1>1. IInv => TypeOK
    BY DEF IInv
<1> QED
    BY <1>1, IInvHolds, PTL

\* After any sequence of edits to a document of any length, getDamageRegion
\* and createPresentation have left the comment's characters, and no others,
\* with the comment's style.
THEOREM AlwaysRepaired == Spec => []Repaired
PROOF
<1>1. IInv => Repaired
    BY DEF IInv
<1> QED
    BY <1>1, IInvHolds, PTL

\* In every document that edits lead to, and for every offset of it,
\* endOfLineOf answers what its documentation says.
THEOREM EndOfLineAlwaysAsDocumented == Spec => []EndOfLineAsDocumented
PROOF
<1>1. IInv => EndOfLineAsDocumented
    <2> SUFFICES ASSUME IInv, NEW i \in 0..Len(text)
                 PROVE  endOfLineOf(text, i) =
                            Min({e \in i..Len(text) :
                                    /\ e = Len(text) \/ IsDelimiter(text, e)
                                    /\ ~InsideDelimiter(text, e)})
        BY DEF EndOfLineAsDocumented
    <2>1. text \in Seq(Chars)
        BY TextIsSeq, DamagerAssumption DEF IInv, TypeOK
    <2> QED
        BY <2>1, EndOfLine DEF Ends
<1> QED
    BY <1>1, IInvHolds, PTL

=============================================================================
