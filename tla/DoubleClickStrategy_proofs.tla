--------------------- MODULE DoubleClickStrategy_proofs ---------------------
(***************************************************************************)
(* What a double click selects, in documents of every length: the loop     *)
(* back finds the last stop that an even number of backslashes follows,    *)
(* and the range always holds the character under the caret.               *)
(***************************************************************************)
EXTENDS DoubleClickStrategy, FiniteSetTheorems, WellFoundedInduction, SequenceTheorems, TLAPS

-----------------------------------------------------------------------------
(* Least and greatest elements *)

LEMMA MinExists ==
    ASSUME NEW S, S \subseteq Nat, S # {}
    PROVE  Min(S) \in S /\ \A x \in S : Min(S) <= x
PROOF
<1>1. PICK m \in S : \A y \in S : <<y, m>> \notin OpToRel(<, Nat)
    BY NatLessThanWellFounded, WFMin
<1>2. \A y \in S : ~(y < m)
    BY <1>1 DEF OpToRel
<1>3. \E x \in S : \A y \in S : x =< y
    BY <1>2
<1> QED
    BY <1>3 DEF Min

\* A set of integers up to b has a greatest one.
LEMMA MaxExists ==
    ASSUME NEW b \in Int, NEW S, S \subseteq Int, \A x \in S : x <= b, S # {}
    PROVE  Max(S) \in S /\ \A x \in S : x <= Max(S)
PROOF
<1> DEFINE D == {d \in Nat : b - d \in S}
<1>1. PICK x \in S : TRUE
    OBVIOUS
<1>2. b - x \in Nat /\ b - (b - x) = x
    BY <1>1
<1>3. b - x \in D
    BY <1>1, <1>2
<1>4. PICK k \in D : \A d \in D : k <= d
    BY <1>3, MinExists
<1>5. PICK m \in S : m = b - k
    BY <1>4
<1>6. ASSUME NEW y \in S
      PROVE  m >= y
    <2>1. b - y \in Nat /\ b - (b - y) = y
        OBVIOUS
    <2>2. b - y \in D
        BY <2>1
    <2>3. k <= b - y
        BY <1>4, <2>2
    <2> QED
        BY <1>4, <1>5, <2>1, <2>3
<1>7. Max(S) \in S /\ \A y \in S : Max(S) >= y
    BY <1>5, <1>6 DEF Max
<1> QED
    BY <1>7

LEMMA MaxIs ==
    ASSUME NEW S, S \subseteq Int, NEW m \in S, \A x \in S : x <= m
    PROVE  Max(S) = m
PROOF
<1>1. PICK k \in S : k = Max(S) /\ \A x \in S : x <= k
    BY MaxExists
<1>2. k <= m /\ m <= k /\ k \in Int /\ m \in Int
    BY <1>1
<1> QED
    BY <1>1, <1>2

LEMMA MinIs ==
    ASSUME NEW S, S \subseteq Nat, NEW m \in S, \A x \in S : m <= x
    PROVE  Min(S) = m
PROOF
<1>1. PICK k \in S : k = Min(S) /\ \A x \in S : k <= x
    BY MinExists
<1>2. k <= m /\ m <= k /\ k \in Nat /\ m \in Nat
    BY <1>1
<1> QED
    BY <1>1, <1>2

LEMMA TextIsSeq ==
    ASSUME NEW t \in Texts
    PROVE  t \in Seq(Chars) /\ Len(t) \in Nat
PROOF
<1>1. PICK n \in 0..MaxLength : t \in [1..n -> Chars]
    BY DEF Texts, BoundedSeq, SeqOf
<1>2. t \in Seq(Chars)
    BY <1>1, DoubleClickAssumption, SeqDef
<1> QED
    BY <1>2

-----------------------------------------------------------------------------
(* The loop back is well defined *)

\* What one pass of the loop at p makes of f, the results further back.
Back(t, f, p) ==
    IF p < 0 THEN -1
    ELSE IF CharAt(t, p) = "backslash" THEN f[p - 2]
    ELSE IF IsStop(t, p) THEN p
    ELSE f[p - 1]

\* f answers the loop from every offset up to n.
Loops(t, f, n) == f = [p \in -2..n |-> Back(t, f, p)]

LEMMA LoopExists ==
    ASSUME NEW t, NEW k \in Nat
    PROVE  \E f : Loops(t, f, k - 1)
PROOF
<1> DEFINE S == {j \in Nat : ~\E f : Loops(t, f, j - 1)}
<1>1. SUFFICES ASSUME S # {} PROVE FALSE
    OBVIOUS
<1>2. PICK m \in S : \A x \in S : m <= x
    BY <1>1, MinExists
<1>3. m \in Nat /\ ~\E f : Loops(t, f, m - 1)
    BY <1>2
<1>4. CASE m = 0
    <2> DEFINE f == [p \in -2..-1 |-> -1]
    <2>1. \A p \in -2..-1 : Back(t, f, p) = -1
        BY DEF Back
    <2>2. m - 1 = -1
        BY <1>4
    <2>3. Loops(t, f, m - 1)
        BY <2>1, <2>2 DEF Loops
    <2> QED
        BY <1>3, <2>3
<1>5. CASE m # 0
    <2>1. m - 1 \in Nat /\ ~(m <= m - 1)
        BY <1>3, <1>5
    <2>2. PICK g : Loops(t, g, m - 1 - 1)
        BY <1>2, <2>1
    <2> DEFINE f == [p \in -2..m - 1 |-> IF p = m - 1 THEN Back(t, g, p) ELSE g[p]]
    <2>3. \A p \in -2..m - 1 - 1 : g[p] = Back(t, g, p)
        BY <2>2 DEF Loops
    <2>4. ASSUME NEW p \in -2..m - 1
          PROVE  f[p] = Back(t, f, p)
        <3>1. f[p] = Back(t, g, p)
            BY <1>3, <2>3
        <3>2. CASE p < 0
            BY <3>1, <3>2 DEF Back
        <3>3. CASE ~(p < 0)
            <4>1. /\ p - 1 \in -2..m - 1 /\ p - 2 \in -2..m - 1
                  /\ p - 1 # m - 1 /\ p - 2 # m - 1
                BY <1>3, <3>3
            <4>2. f[p - 1] = g[p - 1] /\ f[p - 2] = g[p - 2]
                BY <4>1
            <4> HIDE DEF f
            <4> QED
                BY <3>1, <4>2 DEF Back
        <3> QED
            BY <3>2, <3>3
    <2>5. Loops(t, f, m - 1)
        BY <2>4 DEF Loops
    <2> QED
        BY <1>3, <2>5
<1> QED
    BY <1>4, <1>5

\* BackwardStop takes its answer from such an f.
LEMMA BackwardStopLoops ==
    ASSUME NEW t, Len(t) \in Nat, NEW from \in 0..Len(t)
    PROVE  \E f : Loops(t, f, Len(t)) /\ BackwardStop(t, from) = f[from]
PROOF
<1> DEFINE Body(f) == [p \in -2..Len(t) |->
                          CASE p < 0 -> -1
                            [] p >= 0 /\ CharAt(t, p) = "backslash" -> f[p - 2]
                            [] p >= 0 /\ IsStop(t, p) -> p
                            [] OTHER -> f[p - 1]]
           stop == CHOOSE f : f = Body(f)
<1>1. BackwardStop(t, from) = stop[from]
    BY DEF BackwardStop
<1>2. ASSUME NEW f
      PROVE  Loops(t, f, Len(t)) <=> f = Body(f)
    <2>1. ASSUME NEW p \in -2..Len(t)
          PROVE  Back(t, f, p) = Body(f)[p]
        BY <2>1 DEF Back, IsStop
    <2>2. Body(f) = [p \in -2..Len(t) |-> Back(t, f, p)]
        BY <2>1
    <2> QED
        BY <2>2 DEF Loops
<1> HIDE DEF Body
<1>3. PICK k \in Nat : k - 1 = Len(t)
    <2>1. Len(t) + 1 \in Nat /\ Len(t) + 1 - 1 = Len(t)
        OBVIOUS
    <2> QED
        BY <2>1
<1>4. \E f : Loops(t, f, k - 1)
    BY LoopExists
<1>5. stop = Body(stop)
    BY <1>2, <1>3, <1>4
<1> QED
    BY <1>1, <1>2, <1>5

-----------------------------------------------------------------------------
(* Backslashes *)

\* Going back from p, a backslash makes the run one longer, and any other
\* character ends it.
LEMMA BackslashesBefore ==
    ASSUME caret \in Nat, NEW q \in 0..caret
    PROVE  /\ Backslashes(q) \in Nat
           /\ IF CharAt(text, q) = "backslash"
              THEN Backslashes(q - 1) = Backslashes(q) + 1
              ELSE Backslashes(q - 1) = 0
PROOF
<1> DEFINE All(a, b) == \A r \in a..b : CharAt(text, r) = "backslash"
           B == {x \in q + 1..caret : All(q + 1, x)}
           A == {x \in q..caret : All(q, x)}
<1>1. q \in Nat /\ q - 1 + 1 = q
    OBVIOUS
<1>2. Backslashes(q) = Cardinality(B) /\ Backslashes(q - 1) = Cardinality(A)
    BY <1>1 DEF Backslashes
<1>3. IsFiniteSet(B) /\ Cardinality(B) \in Nat
    <2>1. IsFiniteSet(q + 1..caret)
        BY <1>1, FS_Interval
    <2>2. IsFiniteSet(B)
        BY <2>1, FS_Subset
    <2> QED
        BY <2>2, FS_CardinalityType
<1>4. CASE CharAt(text, q) = "backslash"
    <2>1. \A x \in q + 1..caret : All(q, x) <=> All(q + 1, x)
        BY <1>1, <1>4
    <2>2. All(q, q)
        BY <1>1, <1>4
    <2> HIDE DEF All
    <2>3. A = B \cup {q} /\ q \notin B
        <3>1. \A x : x \in q..caret <=> x = q \/ x \in q + 1..caret
            BY <1>1
        <3>2. q \notin q + 1..caret
            BY <1>1
        <3> QED
            BY <2>1, <2>2, <3>1, <3>2
    <2> HIDE DEF A, B
    <2>4. Cardinality(A) = Cardinality(B) + 1
        BY <1>3, <2>3, FS_AddElement
    <2> QED
        BY <1>2, <1>3, <1>4, <2>4
<1>5. CASE CharAt(text, q) # "backslash"
    <2>1. \A x \in q..caret : ~All(q, x)
        BY <1>1, <1>5
    <2>2. A = {}
        BY <2>1
    <2> QED
        BY <1>2, <1>3, <1>5, <2>2, FS_EmptySet
<1> QED
    BY <1>4, <1>5

LEMMA BackslashesAtCaret ==
    ASSUME caret \in Nat
    PROVE  Backslashes(caret) = 0
PROOF
<1>1. caret + 1..caret = {}
    OBVIOUS
<1>2. {q \in caret + 1..caret : \A r \in caret + 1..q : CharAt(text, r) = "backslash"} = {}
    BY <1>1
<1> QED
    BY <1>2, FS_EmptySet DEF Backslashes

LEMMA Parity ==
    ASSUME NEW n \in Nat, n % 2 = 0
    PROVE  (n + 1) % 2 # 0 /\ (n + 2) % 2 = 0
PROOF
OBVIOUS

-----------------------------------------------------------------------------
(* What the loops find *)

\* The loop back finds the last stop that an even number of backslashes
\* follows, or none.
LEMMA FindsStopBack ==
    ASSUME text \in Seq(Chars), caret \in Offsets(text)
    PROVE  BackwardStop(text, caret) = IF StopsBack = {} THEN -1 ELSE Max(StopsBack)
PROOF
<1> DEFINE UpTo(q) == {p \in StopsBack : p <= q}
           LastUpTo(q) == IF UpTo(q) = {} THEN -1 ELSE Max(UpTo(q))
<1>1. Len(text) \in Nat /\ caret \in Nat /\ caret < Len(text)
    BY DEF Offsets
<1>2. PICK f : Loops(text, f, Len(text)) /\ BackwardStop(text, caret) = f[caret]
    BY <1>1, BackwardStopLoops
<1>3. \A q \in -2..caret : f[q] = Back(text, f, q)
    BY <1>1, <1>2 DEF Loops
<1>4. \A p \in StopsBack : p \in Nat /\ p <= caret
    BY <1>1 DEF StopsBack
<1>5. \A q \in {-2, -1} : f[q] = LastUpTo(q)
    <2>1. \A q \in {-2, -1} : UpTo(q) = {}
        BY <1>1, <1>4
    <2>2. \A q \in {-2, -1} : q \in -2..caret /\ q < 0
        BY <1>1
    <2> QED
        BY <1>3, <2>1, <2>2 DEF Back
<1> DEFINE Bad == {q \in 0..caret : Backslashes(q) % 2 = 0 /\ f[q] # LastUpTo(q)}
<1>6. ASSUME Bad # {}
      PROVE  FALSE
    <2>1. Bad \subseteq Nat
        BY <1>1
    <2>2. PICK m \in Bad : \A q \in Bad : m <= q
        BY <1>6, <2>1, MinExists
    <2>3. m \in 0..caret /\ Backslashes(m) % 2 = 0 /\ f[m] # LastUpTo(m) /\ m \in Nat
        BY <1>1, <2>2
    <2>4. ASSUME NEW q \in -2..m - 1, q < 0 \/ Backslashes(q) % 2 = 0
          PROVE  f[q] = LastUpTo(q)
        <3>1. CASE q < 0
            <4>1. q \in {-2, -1}
                BY <2>3, <3>1
            <4> QED
                BY <1>5, <4>1
        <3>2. CASE ~(q < 0)
            <4>1. q \in 0..caret /\ ~(m <= q)
                BY <1>1, <2>3, <3>2
            <4>2. q \notin Bad
                BY <2>2, <4>1
            <4> QED
                BY <2>4, <3>2, <4>1, <4>2
        <3> QED
            BY <3>1, <3>2
    <2> HIDE DEF Bad
    <2>5. f[m] = Back(text, f, m) /\ ~(m < 0)
        BY <1>1, <1>3, <2>3
    <2>6. Backslashes(m) \in Nat
        BY <1>1, <2>3, BackslashesBefore
    <2>7. CASE CharAt(text, m) = "backslash"
        <3>1. f[m] = f[m - 2] /\ m - 2 \in -2..m - 1
            BY <2>3, <2>5, <2>7 DEF Back
        <3>2. Backslashes(m - 1) = Backslashes(m) + 1
            BY <1>1, <2>3, <2>7, BackslashesBefore
        <3>3. m - 2 < 0 \/ Backslashes(m - 2) % 2 = 0
            <4>1. CASE m - 2 >= 0
                <5>1. m - 1 \in 0..caret /\ m - 1 - 1 = m - 2
                    BY <1>1, <2>3, <4>1
                <5>2. Backslashes(m - 2) = Backslashes(m - 1) + 1 \/ Backslashes(m - 2) = 0
                    BY <1>1, <5>1, BackslashesBefore
                <5>3. Backslashes(m - 1) + 1 = Backslashes(m) + 2
                    BY <2>6, <3>2
                <5> QED
                    BY <2>3, <2>6, <5>2, <5>3, Parity
            <4> QED
                BY <2>3, <4>1
        <3>4. f[m - 2] = LastUpTo(m - 2)
            BY <2>4, <3>1, <3>3
        <3>5. m \notin StopsBack
            BY <2>7 DEF StopsBack, IsStop
        <3>6. m - 1 \notin StopsBack
            BY <2>3, <2>6, <3>2, Parity DEF StopsBack
        <3>7. UpTo(m) = UpTo(m - 2)
            <4>1. \A p \in StopsBack : p <= m <=> p <= m - 2
                BY <1>1, <1>4, <2>3, <3>5, <3>6
            <4> QED
                BY <4>1
        <3> QED
            BY <2>3, <3>1, <3>4, <3>7
    <2>8. CASE CharAt(text, m) # "backslash" /\ IsStop(text, m)
        <3>1. f[m] = m
            BY <2>5, <2>8 DEF Back
        <3>2. m \in UpTo(m)
            BY <1>1, <2>3, <2>8 DEF StopsBack
        <3>3. Max(UpTo(m)) = m
            <4>1. UpTo(m) \subseteq Int /\ \A x \in UpTo(m) : x <= m
                BY <1>1, <1>4
            <4> QED
                BY <3>2, <4>1, MaxIs
        <3> QED
            BY <2>3, <3>1, <3>2, <3>3
    <2>9. CASE CharAt(text, m) # "backslash" /\ ~IsStop(text, m)
        <3>1. f[m] = f[m - 1] /\ m - 1 \in -2..m - 1
            BY <2>3, <2>5, <2>9 DEF Back
        <3>2. Backslashes(m - 1) % 2 = 0
            <4>1. Backslashes(m - 1) = 0
                BY <1>1, <2>3, <2>9, BackslashesBefore
            <4> QED
                BY <4>1
        <3>3. f[m - 1] = LastUpTo(m - 1)
            BY <2>4, <3>1, <3>2
        <3>4. m \notin StopsBack
            BY <2>9 DEF StopsBack
        <3>5. UpTo(m) = UpTo(m - 1)
            <4>1. \A p \in StopsBack : p <= m <=> p <= m - 1
                BY <1>1, <1>4, <2>3, <3>4
            <4> QED
                BY <4>1
        <3> QED
            BY <2>3, <3>1, <3>3, <3>5
    <2> QED
        BY <2>7, <2>8, <2>9
<1>7. f[caret] = LastUpTo(caret)
    <2>1. Backslashes(caret) % 2 = 0 /\ caret \in 0..caret
        BY <1>1, BackslashesAtCaret
    <2> QED
        BY <1>6, <2>1
<1>8. UpTo(caret) = StopsBack
    BY <1>1, <1>4
<1> QED
    BY <1>2, <1>7, <1>8

\* Both loops stop on the caret itself exactly when a stop is there, and
\* otherwise on two sides of it.
LEMMA StopBackBounds ==
    ASSUME text \in Seq(Chars), caret \in Offsets(text)
    PROVE  /\ BackwardStop(text, caret) \in -1..caret
           /\ BackwardStop(text, caret) = caret <=> IsStop(text, caret)
PROOF
<1>1. Len(text) \in Nat /\ caret \in Nat /\ caret < Len(text)
    BY DEF Offsets
<1>2. \A p \in StopsBack : p \in Nat /\ p <= caret /\ IsStop(text, p)
    BY <1>1 DEF StopsBack
<1>3. IsStop(text, caret) => caret \in StopsBack
    <2>1. Backslashes(caret) % 2 = 0
        BY <1>1, BackslashesAtCaret
    <2> QED
        BY <1>1, <2>1 DEF StopsBack
<1>4. CASE StopsBack = {}
    BY <1>1, <1>3, <1>4, FindsStopBack
<1>5. CASE StopsBack # {}
    <2>1. PICK m \in StopsBack : m = Max(StopsBack) /\ \A p \in StopsBack : p <= m
        <3>1. StopsBack \subseteq Int /\ caret \in Int
            BY <1>1, <1>2
        <3> QED
            BY <1>2, <1>5, <3>1, MaxExists
    <2>2. BackwardStop(text, caret) = m
        BY <1>5, <2>1, FindsStopBack
    <2>3. m \in Nat /\ m <= caret /\ (m = caret => IsStop(text, caret))
        BY <1>2
    <2>4. IsStop(text, caret) => caret <= m
        BY <1>3, <2>1
    <2> QED
        BY <1>1, <2>2, <2>3, <2>4
<1> QED
    BY <1>4, <1>5

LEMMA FindsStopAhead ==
    ASSUME text \in Seq(Chars), caret \in Offsets(text)
    PROVE  /\ ForwardStop(text, caret) \in caret..Len(text)
           /\ ForwardStop(text, caret) = caret <=> IsStop(text, caret)
           /\ ForwardStop(text, caret) =
                  IF StopsAhead = {} THEN Len(text) ELSE Min(StopsAhead)
PROOF
<1> DEFINE F == {p \in caret..Len(text) : p = Len(text) \/ IsStop(text, p)}
<1>1. Len(text) \in Nat /\ caret \in Nat /\ caret < Len(text)
    BY DEF Offsets
<1>2. F \subseteq Nat /\ Len(text) \in F
    BY <1>1
<1>3. PICK m \in F : m = Min(F) /\ \A p \in F : m <= p
    BY <1>2, MinExists
<1>4. ForwardStop(text, caret) = m
    BY <1>3 DEF ForwardStop
<1>5. m \in caret..Len(text) /\ (m = caret <=> IsStop(text, caret))
    <2>1. m = caret => IsStop(text, caret)
        BY <1>1, <1>3
    <2>2. IsStop(text, caret) => m <= caret
        BY <1>1, <1>3
    <2> QED
        BY <1>1, <1>3, <2>1, <2>2
<1>6. \A p : p \in StopsAhead <=> p \in F /\ p < Len(text) /\ IsStop(text, p)
    BY <1>1 DEF StopsAhead, Offsets
<1>7. CASE StopsAhead = {}
    BY <1>1, <1>2, <1>3, <1>4, <1>5, <1>6, <1>7
<1>8. CASE StopsAhead # {}
    <2>1. PICK p \in StopsAhead : TRUE
        BY <1>8
    <2>2. m < Len(text)
        BY <1>1, <1>2, <1>3, <1>6, <2>1
    <2>3. m \in StopsAhead /\ \A q \in StopsAhead : m <= q
        BY <1>1, <1>3, <1>6, <2>2
    <2>4. Min(StopsAhead) = m
        BY <1>2, <1>6, <2>3, MinIs
    <2> QED
        BY <1>4, <1>5, <1>8, <2>4
<1> QED
    BY <1>7, <1>8

\* A string is selected exactly in a string.
LEMMA StringSelected ==
    ASSUME text \in Seq(Chars), caret \in Offsets(text)
    PROVE  /\ selectsComment(text, caret) <=> InString
           /\ InString => /\ BackwardStop(text, caret) = Max(StopsBack)
                          /\ ForwardStop(text, caret) = Min(StopsAhead)
PROOF
<1>1. Len(text) \in Nat /\ caret \in Nat /\ caret < Len(text)
    BY DEF Offsets
<1>2. ~IsQuote(text, -1) /\ ~IsQuote(text, Len(text))
    BY <1>1 DEF IsQuote, Offsets
<1> QED
    BY <1>1, <1>2, FindsStopBack, FindsStopAhead DEF selectsComment, InString

\* The loops of selectWord: the word around the caret lies between them.
LEMMA FindsWord ==
    ASSUME text \in Seq(Chars), caret \in Offsets(text)
    PROVE  /\ WordBefore(text, caret) \in -1..caret
           /\ WordAfter(text, caret) \in caret..Len(text)
           /\ WordBefore(text, caret) = caret <=> ~IsWord(text, caret)
           /\ WordAfter(text, caret) = caret <=> ~IsWord(text, caret)
           /\ WordBefore(text, caret) = -1 \/ ~IsWord(text, WordBefore(text, caret))
           /\ WordAfter(text, caret) = Len(text) \/ ~IsWord(text, WordAfter(text, caret))
           /\ \A p \in Int :
                WordBefore(text, caret) < p /\ p < WordAfter(text, caret) => IsWord(text, p)
PROOF
<1> DEFINE B == {p \in -1..caret : p = -1 \/ ~IsWord(text, p)}
           A == {p \in caret..Len(text) : p = Len(text) \/ ~IsWord(text, p)}
<1>1. Len(text) \in Nat /\ caret \in Nat /\ caret < Len(text)
    BY DEF Offsets
<1>2. PICK b \in B : b = Max(B) /\ \A p \in B : p <= b
    <2>1. B \subseteq Int /\ -1 \in B /\ (\A p \in B : p <= caret) /\ caret \in Int
        BY <1>1
    <2> HIDE DEF B
    <2> QED
        BY <2>1, MaxExists
<1>3. PICK a \in A : a = Min(A) /\ \A p \in A : a <= p
    <2>1. A \subseteq Nat /\ Len(text) \in A
        BY <1>1
    <2> QED
        BY <2>1, MinExists
<1>4. WordBefore(text, caret) = b /\ WordAfter(text, caret) = a
    BY <1>2, <1>3 DEF WordBefore, WordAfter
<1>5. b \in -1..caret /\ (b = -1 \/ ~IsWord(text, b))
    BY <1>2
<1>6. a \in caret..Len(text) /\ (a = Len(text) \/ ~IsWord(text, a))
    BY <1>3
<1>7. b = caret <=> ~IsWord(text, caret)
    <2>1. ~IsWord(text, caret) => caret <= b
        BY <1>1, <1>2
    <2> QED
        BY <1>1, <1>5, <2>1
<1>8. a = caret <=> ~IsWord(text, caret)
    <2>1. ~IsWord(text, caret) => a <= caret
        BY <1>1, <1>3
    <2> QED
        BY <1>1, <1>6, <2>1
<1>9. ASSUME NEW p \in Int, b < p, p < a
      PROVE  IsWord(text, p)
    <2>1. p \in -1..caret \/ p \in caret..Len(text)
        BY <1>1, <1>5, <1>6, <1>9
    <2>2. p \notin B /\ p \notin A
        BY <1>1, <1>2, <1>3, <1>5, <1>6, <1>9
    <2> QED
        BY <2>1, <2>2
<1> QED
    BY <1>4, <1>5, <1>6, <1>7, <1>8, <1>9

\* The range between two stops on two sides of c, or both on it: there the
\* negative length selects the character itself.
LEMMA RangeIs ==
    ASSUME NEW c \in Nat, NEW l \in Nat, NEW a \in -1..c, NEW b \in c..l, a = c <=> b = c
    PROVE  selectRange(a, b) = IF a = c THEN [x |-> c, y |-> c + 1] ELSE [x |-> a + 1, y |-> b]
PROOF
<1>1. CASE a = c
    <2>1. b - (a + 1) < 0 /\ a + 1 + (b - (a + 1)) = c /\ a + 1 = c + 1
        BY <1>1
    <2> QED
        BY <1>1, <2>1 DEF selectRange, setSelectedRange
<1>2. CASE a # c
    <2>1. ~(b - (a + 1) < 0) /\ a + 1 + (b - (a + 1)) = b
        BY <1>2
    <2> QED
        BY <1>2, <2>1 DEF selectRange, setSelectedRange
<1> QED
    BY <1>1, <1>2

-----------------------------------------------------------------------------
(* The viewer *)

\* What a double click at the caret selects.
DoubledRange ==
    IF selectsComment(text, caret)
    THEN selectRange(BackwardStop(text, caret), ForwardStop(text, caret))
    ELSE IF caret \in Offsets(text)
    THEN selectRange(WordBefore(text, caret), WordAfter(text, caret))
    ELSE [x |-> caret, y |-> caret]

\* The selection is the caret until the second click, and then this range.
Chosen ==
    /\ doubled => caret >= 0 /\ selected = DoubledRange
    /\ ~doubled /\ caret >= 0 => selected = [x |-> caret, y |-> caret]

IInv == TypeOK /\ Chosen

\* On a character, the range holds it and stays in the document.
LEMMA RangeAround ==
    ASSUME text \in Seq(Chars), caret \in Offsets(text)
    PROVE  /\ DoubledRange \in [x : 0..Len(text), y : 0..Len(text)]
           /\ DoubledRange.x <= caret /\ caret < DoubledRange.y
PROOF
<1>1. Len(text) \in Nat /\ caret \in Nat /\ caret < Len(text)
    BY DEF Offsets
<1>2. PICK a \in -1..caret, b \in caret..Len(text) :
            (a = caret <=> b = caret) /\ DoubledRange = selectRange(a, b)
    <2>1. CASE selectsComment(text, caret)
        BY <2>1, StopBackBounds, FindsStopAhead DEF DoubledRange
    <2>2. CASE ~selectsComment(text, caret)
        BY <2>2, FindsWord DEF DoubledRange
    <2> QED
        BY <2>1, <2>2
<1>3. DoubledRange =
        IF a = caret THEN [x |-> caret, y |-> caret + 1] ELSE [x |-> a + 1, y |-> b]
    BY <1>1, <1>2, RangeIs
<1>4. CASE a = caret
    BY <1>1, <1>3, <1>4
<1>5. CASE a # caret
    <2>1. a + 1 \in 0..Len(text) /\ b \in 0..Len(text) /\ a + 1 <= caret /\ caret < b
        BY <1>1, <1>2, <1>5
    <2> QED
        BY <1>3, <1>5, <2>1
<1> QED
    BY <1>4, <1>5

LEMMA InitIInv == Init => IInv
PROOF
<1> SUFFICES ASSUME Init PROVE IInv
    OBVIOUS
<1>1. text \in Texts /\ Len(text) \in Nat
    BY TextIsSeq DEF Init
<1>2. caret = -1 /\ selected = [x |-> 0, y |-> 0] /\ doubled = FALSE
    BY DEF Init
<1>3. TypeOK
    <2>1. caret \in -1..Len(text)
        BY <1>1, <1>2
    <2>2. doubled \in BOOLEAN
        BY <1>2, Zenon
    <2>3. selected \in [x : 0..Len(text), y : 0..Len(text)] /\ selected.x <= selected.y
        BY <1>1, <1>2
    <2> QED
        BY <1>1, <2>1, <2>2, <2>3 DEF TypeOK
<1>4. Chosen
    <2>1. ~(caret >= 0)
        BY <1>2
    <2> QED
        BY <1>2, <2>1 DEF Chosen
<1> QED
    BY <1>3, <1>4 DEF IInv

LEMMA doubleClickedIInv == ASSUME IInv, doubleClicked PROVE IInv'
PROOF
<1>1. text \in Seq(Chars) /\ Len(text) \in Nat /\ text \in Texts
    BY TextIsSeq DEF IInv, TypeOK
<1>2. caret >= 0 /\ doubled = FALSE /\ doubled' = TRUE /\ UNCHANGED <<text, caret>>
    BY DEF doubleClicked, IInv, TypeOK
<1>3. caret \in 0..Len(text) /\ selected = [x |-> caret, y |-> caret] /\ selected.x = caret
    BY <1>1, <1>2 DEF IInv, TypeOK, Chosen
<1>4. selected' = DoubledRange
    BY <1>3 DEF doubleClicked, selectComment, selectWord, DoubledRange, selectsComment
<1>5. DoubledRange' = DoubledRange
    BY <1>2 DEF DoubledRange
<1>6. Chosen'
    BY <1>2, <1>4, <1>5 DEF Chosen
<1>7. /\ selected' \in [x : 0..Len(text), y : 0..Len(text)]
      /\ selected'.x <= selected'.y
    <2>1. CASE caret \in Offsets(text)
        <3>1. /\ DoubledRange \in [x : 0..Len(text), y : 0..Len(text)]
              /\ DoubledRange.x <= caret /\ caret < DoubledRange.y
            BY <1>1, <2>1, RangeAround
        <3> QED
            BY <1>1, <1>3, <1>4, <3>1
    <2>2. CASE caret \notin Offsets(text)
        <3>1. DoubledRange = [x |-> caret, y |-> caret]
            BY <2>2 DEF DoubledRange, selectsComment
        <3> QED
            BY <1>1, <1>3, <1>4, <3>1
    <2> QED
        BY <2>1, <2>2
<1>8. TypeOK'
    BY <1>1, <1>2, <1>3, <1>7 DEF IInv, TypeOK
<1> QED
    BY <1>6, <1>8 DEF IInv

LEMMA IInvHolds == Spec => []IInv
PROOF
<1>1. Init => IInv
    BY InitIInv
<1>2. IInv /\ [Next]_vars => IInv'
    <2> SUFFICES ASSUME IInv, [Next]_vars PROVE IInv'
        OBVIOUS
    <2>1. CASE doubleClicked
        BY <2>1, doubleClickedIInv
    <2>2. ASSUME NEW p \in 0..Len(text), Click(p) PROVE IInv'
        <3>1. text \in Texts /\ Len(text) \in Nat
            BY TextIsSeq DEF IInv, TypeOK
        <3>2. /\ caret' = p /\ selected' = [x |-> p, y |-> p]
              /\ doubled' = FALSE /\ text' = text
            BY <2>2 DEF Click
        <3>3. TypeOK'
            <4>1. /\ selected' \in [x : 0..Len(text), y : 0..Len(text)]
                  /\ selected'.x <= selected'.y
                BY <3>1, <3>2
            <4>2. caret' \in -1..Len(text)
                BY <3>1, <3>2
            <4>3. doubled' \in BOOLEAN
                BY <3>2, Zenon
            <4> QED
                BY <3>1, <3>2, <4>1, <4>2, <4>3 DEF TypeOK
        <3>4. Chosen'
            BY <3>2 DEF Chosen
        <3> QED
            BY <3>3, <3>4 DEF IInv
    <2>3. CASE UNCHANGED vars
        BY <2>3 DEF vars, IInv, TypeOK, Chosen, DoubledRange
    <2> QED
        BY <2>1, <2>2, <2>3 DEF Next
<1> QED
    BY <1>1, <1>2, PTL DEF Spec

-----------------------------------------------------------------------------
(* The theorems *)

\* No double click selects outside the document, not even one at its end or
\* with a negative length.
THEOREM TypeCorrect == Spec => []TypeOK
PROOF
<1>1. IInv => TypeOK
    BY DEF IInv
<1> QED
    BY <1>1, IInvHolds, PTL

\* A double click on a character selects a range that holds it.
THEOREM AlwaysCoversCaret == Spec => []CoversCaret
PROOF
<1>1. IInv => CoversCaret
    <2> SUFFICES ASSUME IInv, doubled, caret < Len(text)
                 PROVE  caret \in Selection
        BY DEF CoversCaret
    <2>1. text \in Seq(Chars) /\ Len(text) \in Nat
        BY TextIsSeq DEF IInv, TypeOK
    <2>2. caret \in Offsets(text) /\ selected = DoubledRange
        BY <2>1 DEF IInv, TypeOK, Chosen, Offsets
    <2> QED
        BY <2>1, <2>2, RangeAround DEF Selection
<1> QED
    BY <1>1, IInvHolds, PTL

\* In a string a double click selects what lies between the last quote that an
\* even number of backslashes follows and the next quote.
THEOREM AlwaysSelectsString == Spec => []SelectsString
PROOF
<1>1. IInv => SelectsString
    <2> DEFINE a == Max(StopsBack)
               b == Min(StopsAhead)
    <2> SUFFICES ASSUME IInv, doubled, InString
                 PROVE  Selection = IF IsQuote(text, caret) THEN {caret} ELSE Strictly(a, b)
        BY DEF SelectsString
    <2>1. text \in Seq(Chars) /\ Len(text) \in Nat
        BY TextIsSeq DEF IInv, TypeOK
    <2>2. caret \in Offsets(text) /\ caret \in Nat /\ selected = DoubledRange
        BY <2>1 DEF IInv, TypeOK, Chosen, Offsets, InString
    <2>3. /\ selectsComment(text, caret)
          /\ BackwardStop(text, caret) = a /\ ForwardStop(text, caret) = b
        BY <2>1, <2>2, StringSelected
    <2>4. /\ a \in -1..caret /\ b \in caret..Len(text)
          /\ (a = caret <=> IsStop(text, caret)) /\ (b = caret <=> IsStop(text, caret))
        BY <2>1, <2>2, <2>3, StopBackBounds, FindsStopAhead
    <2>5. IsQuote(text, a)
        BY DEF InString
    <2> HIDE DEF a, b
    <2>6. selected =
            IF a = caret THEN [x |-> caret, y |-> caret + 1] ELSE [x |-> a + 1, y |-> b]
        <3>1. selected = selectRange(a, b)
            BY <2>2, <2>3 DEF DoubledRange
        <3> QED
            BY <2>1, <2>2, <2>4, <3>1, RangeIs
    <2>7. a = caret <=> IsQuote(text, caret)
        BY <2>2, <2>4, <2>5 DEF IsQuote, IsStop
    <2>8. CASE a = caret
        <3>1. selected.x = caret /\ selected.y = caret + 1
            BY <2>6, <2>8
        <3>2. Selection = {caret}
            BY <2>1, <2>2, <3>1 DEF Selection, Offsets
        <3> QED
            BY <2>7, <2>8, <3>2
    <2>9. CASE a # caret
        <3>1. selected.x = a + 1 /\ selected.y = b
            BY <2>6, <2>9
        <3>2. Selection = Strictly(a, b)
            BY <2>1, <2>4, <3>1 DEF Selection, Strictly, Offsets
        <3> QED
            BY <2>7, <2>9, <3>2
    <2> QED
        BY <2>8, <2>9
<1> QED
    BY <1>1, IInvHolds, PTL

\* Outside a string it selects the whole word, and elsewhere one character.
THEOREM AlwaysSelectsWord == Spec => []SelectsWord
PROOF
<1>1. IInv => SelectsWord
    <2> DEFINE a == WordBefore(text, caret)
               b == WordAfter(text, caret)
    <2> SUFFICES ASSUME IInv, doubled, ~InString, caret < Len(text)
                 PROVE  IF IsWord(text, caret)
                        THEN /\ \A p \in Selection : IsWord(text, p)
                             /\ \A p \in {selected.x - 1, selected.y} \cap Offsets(text) :
                                    ~IsWord(text, p)
                        ELSE Selection = {caret}
        BY DEF SelectsWord
    <2>1. text \in Seq(Chars) /\ Len(text) \in Nat
        BY TextIsSeq DEF IInv, TypeOK
    <2>2. caret \in Offsets(text) /\ caret \in Nat /\ selected = DoubledRange
        BY <2>1 DEF IInv, TypeOK, Chosen, Offsets
    <2>3. /\ a \in -1..caret /\ b \in caret..Len(text)
          /\ (a = caret <=> ~IsWord(text, caret)) /\ (b = caret <=> ~IsWord(text, caret))
          /\ a = -1 \/ ~IsWord(text, a)
          /\ b = Len(text) \/ ~IsWord(text, b)
          /\ \A p \in Int : a < p /\ p < b => IsWord(text, p)
        BY <2>1, <2>2, FindsWord
    <2>4. selected = selectRange(a, b)
        BY <2>1, <2>2, StringSelected DEF DoubledRange
    <2> HIDE DEF a, b
    <2>5. selected =
            IF a = caret THEN [x |-> caret, y |-> caret + 1] ELSE [x |-> a + 1, y |-> b]
        BY <2>1, <2>2, <2>3, <2>4, RangeIs
    <2>6. CASE IsWord(text, caret)
        <3>1. selected.x = a + 1 /\ selected.y = b /\ selected.x - 1 = a
            BY <2>3, <2>5, <2>6
        <3>2. \A p \in Selection : IsWord(text, p)
            BY <2>1, <2>3, <3>1 DEF Selection, Offsets
        <3>3. \A p \in {a, b} \cap Offsets(text) : ~IsWord(text, p)
            BY <2>1, <2>3 DEF Offsets
        <3> QED
            BY <2>6, <3>1, <3>2, <3>3
    <2>7. CASE ~IsWord(text, caret)
        <3>1. selected.x = caret /\ selected.y = caret + 1
            BY <2>3, <2>5, <2>7
        <3>2. Selection = {caret}
            BY <2>1, <2>2, <3>1 DEF Selection, Offsets
        <3> QED
            BY <2>7, <3>2
    <2> QED
        BY <2>6, <2>7
<1> QED
    BY <1>1, IInvHolds, PTL

=============================================================================
