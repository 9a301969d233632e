----------------------- MODULE DeviceTreeEditor_proofs -----------------------
(***************************************************************************)
(* The partitions of a document of any length are its comments and tags,   *)
(* each has a repairer with live colours, and a disposed editor has        *)
(* disposed all colours, however often the viewer is configured.           *)
(***************************************************************************)
EXTENDS DeviceTreeEditor, WellFoundedInduction, SequenceTheorems, TLAPS

-----------------------------------------------------------------------------
(* Sequences in the document *)

LEMMA MinExists ==
    ASSUME NEW S, S \subseteq Nat, S # {}
    PROVE  Min(S) \in S /\ \A x \in S : Min(S) <= x
PROOF
<1>1. PICK m \in S : \A y \in S : <<y, m>> \notin OpToRel(<, Nat)
    BY NatLessThanWellFounded, WFMin
<1>2. \A y \in S : ~(y < m)
    BY <1>1 DEF OpToRel
<1>3. \E x \in S : \A y \in S : x =< y
    BY <1>2
<1> QED
    BY <1>3 DEF Min

\* The least element of a set that is moved by k.
LEMMA MinMoves ==
    ASSUME NEW S, S \subseteq Nat, S # {}, NEW k \in Nat
    PROVE  /\ Min({q + k : q \in S}) = Min(S) + k
           /\ {q + k : q \in S} # {}
PROOF
<1> DEFINE M == {q + k : q \in S}
<1>1. PICK a \in Nat : a = Min(S) /\ a \in S /\ \A x \in S : a <= x
    BY MinExists
<1>2. M \subseteq Nat /\ a + k \in M
    BY <1>1
<1>3. PICK b \in Nat : b = Min(M) /\ b \in M /\ \A x \in M : b <= x
    BY <1>2, MinExists
<1>4. PICK q \in S : b = q + k
    BY <1>3
<1>5. a <= q /\ b <= a + k /\ q \in Nat
    BY <1>1, <1>2, <1>3
<1>6. b = a + k
    BY <1>4, <1>5
<1> QED
    BY <1>1, <1>2, <1>3, <1>6

\* At compares character by character.
LEMMA AtIs ==
    ASSUME text \in Seq(Chars), NEW p \in Nat, NEW s \in Seq(Chars)
    PROVE  At(p, s) <=> /\ p + Len(s) <= Len(text)
                        /\ \A j \in 1..Len(s) : text[p + j] = s[j]
PROOF
<1>1. Len(s) \in Nat /\ Len(text) \in Nat
    OBVIOUS
<1>2. CASE p + Len(s) <= Len(text)
    <2> DEFINE u == SubSeq(text, p + 1, p + Len(s))
    <2>1. /\ p + 1 \in Int /\ p + Len(s) \in Int
          /\ \A i \in p + 1..p + Len(s) : text[i] \in Chars
        BY <1>1, <1>2, ElementOfSeq
    <2>2. /\ u \in Seq(Chars)
          /\ Len(u) = IF p + 1 <= p + Len(s) THEN p + Len(s) - (p + 1) + 1 ELSE 0
          /\ \A i \in 1..p + Len(s) - (p + 1) + 1 : u[i] = text[p + 1 + i - 1]
        BY <2>1, SubSeqProperties
    <2>3. Len(u) = Len(s) /\ \A i \in 1..Len(s) : u[i] = text[p + i]
        BY <1>1, <2>2
    <2> HIDE DEF u
    <2>4. u = s <=> \A j \in 1..Len(s) : u[j] = s[j]
        BY <2>2, <2>3, SeqEqual
    <2>5. At(p, s) <=> u = s
        BY <1>2 DEF At, u
    <2> QED
        BY <1>2, <2>3, <2>4, <2>5
<1>3. CASE ~(p + Len(s) <= Len(text))
    BY <1>3 DEF At
<1> QED
    BY <1>2, <1>3

LEMMA AtOne ==
    ASSUME text \in Seq(Chars), NEW p \in Nat, NEW c \in Chars
    PROVE  At(p, <<c>>) <=> p < Len(text) /\ text[p + 1] = c
PROOF
<1>1. <<c>> \in Seq(Chars) /\ Len(<<c>>) = 1 /\ <<c>>[1] = c /\ Len(text) \in Nat
    OBVIOUS
<1>2. At(p, <<c>>) <=> /\ p + 1 <= Len(text)
                       /\ \A j \in 1..1 : text[p + j] = <<c>>[j]
    BY <1>1, AtIs
<1>3. (p + 1 <= Len(text)) <=> p < Len(text)
    BY <1>1
<1> QED
    BY <1>1, <1>2, <1>3

LEMMA AtCommentEnd ==
    ASSUME text \in Seq(Chars), NEW p \in Nat, At(p, <<"-", "-", ">">>)
    PROVE  p + 3 <= Len(text) /\ At(p + 2, <<">">>)
PROOF
<1> DEFINE s == <<"-", "-", ">">>
<1>1. s \in Seq(Chars) /\ Len(s) = 3 /\ s[3] = ">" /\ Len(text) \in Nat /\ ">" \in Chars
    BY DEF Chars
<1> HIDE DEF s
<1>2. p + 3 <= Len(text) /\ \A j \in 1..3 : text[p + j] = s[j]
    BY <1>1, AtIs DEF s
<1>3. text[p + 3] = ">" /\ p + 2 + 1 = p + 3 /\ p + 2 < Len(text) /\ p + 2 \in Nat
    BY <1>1, <1>2
<1> QED
    BY <1>1, <1>2, <1>3, AtOne

LEMMA AtCommentStart ==
    ASSUME text \in Seq(Chars), NEW p \in Nat, At(p, <<"<", "!", "-", "-">>)
    PROVE  /\ p + 4 <= Len(text) /\ text[p + 1] = "<" /\ text[p + 2] = "!"
           /\ text[p + 3] = "-" /\ text[p + 4] = "-"
PROOF
<1> DEFINE s == <<"<", "!", "-", "-">>
<1>1. s \in Seq(Chars) /\ Len(s) = 4
      /\ s[1] = "<" /\ s[2] = "!" /\ s[3] = "-" /\ s[4] = "-"
    BY DEF Chars
<1> HIDE DEF s
<1>2. p + 4 <= Len(text) /\ \A j \in 1..4 : text[p + j] = s[j]
    BY <1>1, AtIs DEF s
<1> QED
    BY <1>1, <1>2

-----------------------------------------------------------------------------
(* Comments and tags that have an end *)

\* No comment and no tag starts at p.
Barren(p) == \A type \in {XML_COMMENT, XML_TAG} : EndsOf(type, p) = {}

\* Only "<" starts anything.
LEMMA OnlyAngle ==
    ASSUME text \in Seq(Chars), NEW p \in Nat, text[p + 1] # "<"
    PROVE  Barren(p)
PROOF
<1>1. ~At(p, <<"<", "!", "-", "-">>)
    BY AtCommentStart
<1>2. ~At(p, <<"<">>)
    BY AtOne DEF Chars
<1> QED
    BY <1>1, <1>2 DEF Barren, EndsOf

\* A tag without an end leaves nothing behind it that has one: everything
\* ends in ">".
LEMMA NoEndAhead ==
    ASSUME text \in Seq(Chars), NEW p \in Nat, Occurrences(p, <<">">>) = {},
           NEW r \in Nat, p <= r + 2
    PROVE  Barren(r)
PROOF
<1>1. Occurrences(r + 2, <<">">>) = {}
    BY DEF Occurrences
<1>2. ASSUME NEW q \in Occurrences(r + 4, <<"-", "-", ">">>)
      PROVE  FALSE
    <2>1. q \in r + 4..Len(text) /\ At(q, <<"-", "-", ">">>) /\ q \in Nat /\ Len(text) \in Nat
        BY DEF Occurrences
    <2>2. q + 3 <= Len(text) /\ At(q + 2, <<">">>)
        BY <2>1, AtCommentEnd
    <2>3. q + 2 \in p..Len(text)
        BY <2>1, <2>2
    <2> QED
        BY <2>2, <2>3 DEF Occurrences
<1> QED
    BY <1>1, <1>2 DEF Barren, EndsOf

\* Where the comment and the tag that start at p end, if they end.
LEMMA CommentEnds ==
    ASSUME text \in Seq(Chars), NEW p \in Nat, At(p, <<"<", "!", "-", "-">>),
           Occurrences(p + 4, <<"-", "-", ">">>) # {}
    PROVE  LET end == Min(Occurrences(p + 4, <<"-", "-", ">">>)) + 3
           IN  /\ EndsOf(XML_COMMENT, p) # {} /\ end = Min(EndsOf(XML_COMMENT, p))
               /\ end \in p + 1..Len(text)
PROOF
<1> DEFINE O == Occurrences(p + 4, <<"-", "-", ">">>)
<1>1. Len(text) \in Nat /\ O \subseteq Nat
    BY DEF Occurrences
<1>2. Min(O) \in O
    BY <1>1, MinExists
<1>3. Min(O) \in p + 4..Len(text) /\ At(Min(O), <<"-", "-", ">">>) /\ Min(O) \in Nat
    BY <1>1, <1>2 DEF Occurrences
<1>4. Min(O) + 3 <= Len(text)
    BY <1>3, AtCommentEnd
<1>5. EndsOf(XML_COMMENT, p) = {q + 3 : q \in O}
    BY DEF EndsOf
<1>6. Min({q + 3 : q \in O}) = Min(O) + 3 /\ {q + 3 : q \in O} # {}
    BY <1>1, MinMoves
<1>7. Min(O) + 3 \in p + 1..Len(text)
    BY <1>1, <1>3, <1>4
<1> QED
    BY <1>5, <1>6, <1>7

LEMMA TagEnds ==
    ASSUME text \in Seq(Chars), NEW p \in Nat, At(p, <<"<">>),
           ~At(p + 1, <<"?">>), ~At(p + 1, <<"!">>),
           Occurrences(p + 2, <<">">>) # {}
    PROVE  LET end == Min(Occurrences(p + 2, <<">">>)) + 1
           IN  /\ EndsOf(XML_TAG, p) # {} /\ end = Min(EndsOf(XML_TAG, p))
               /\ end \in p + 1..Len(text)
PROOF
<1> DEFINE O == Occurrences(p + 2, <<">">>)
<1>1. Len(text) \in Nat /\ O \subseteq Nat
    BY DEF Occurrences
<1>2. Min(O) \in O
    BY <1>1, MinExists
<1>3. Min(O) \in p + 2..Len(text) /\ At(Min(O), <<">">>) /\ Min(O) \in Nat
    BY <1>1, <1>2 DEF Occurrences
<1>4. Min(O) < Len(text)
    BY <1>3, AtOne DEF Chars
<1>5. EndsOf(XML_TAG, p) = {q + 1 : q \in O}
    BY DEF EndsOf, XML_TAG, XML_COMMENT
<1>6. Min({q + 1 : q \in O}) = Min(O) + 1 /\ {q + 1 : q \in O} # {}
    BY <1>1, MinMoves
<1>7. Min(O) + 1 \in p + 1..Len(text)
    BY <1>1, <1>3, <1>4
<1> QED
    BY <1>5, <1>6, <1>7

-----------------------------------------------------------------------------
(* One token *)

\* What a step of the scan does: it finds a comment or a tag that starts at
\* the offset, or it passes over places where nothing starts, or there are
\* only such places left.
Finds(type, end) ==
    /\ EndsOf(type, offset) # {} /\ end = Min(EndsOf(type, offset))
    /\ end \in offset + 1..Len(text)
    /\ offset' = end
    /\ parts' = parts \cup {[type |-> type, start |-> offset, end |-> end]}
    /\ scanner' = scanner

PassesOver(to) ==
    /\ to \in offset + 1..Len(text)
    /\ \A p \in offset..to - 1 : Barren(p)
    /\ offset' = to
    /\ UNCHANGED <<scanner, parts>>

Completes ==
    /\ \A p \in offset..Len(text) - 1 : Barren(p)
    /\ scanner' = "done"
    /\ UNCHANGED <<offset, parts>>

LEMMA TokenStep ==
    ASSUME text \in Seq(Chars), offset \in 0..Len(text), NextToken
    PROVE  /\ UNCHANGED text
           /\ \/ \E type \in LegalContentTypes, end \in Nat : Finds(type, end)
              \/ \E to \in Nat : PassesOver(to)
              \/ Completes
PROOF
<1> DEFINE comment == CommentRule(offset)
           tag == TagRule(comment.offset)
           start == <<"<", "!", "-", "-">>
           stop == <<"-", "-", ">">>
<1>1. Len(text) \in Nat /\ offset \in Nat
    OBVIOUS
<1>2. UNCHANGED text
    BY DEF NextToken, Found
<1>3. /\ XML_COMMENT \in LegalContentTypes /\ XML_TAG \in LegalContentTypes
      /\ {"<", "?", "!", ">"} \subseteq Chars
    BY DEF LegalContentTypes, Chars
<1>4. \A p \in Nat : At(p, <<"<">>) <=> p < Len(text) /\ text[p + 1] = "<"
    BY <1>3, AtOne
<1> HIDE DEF start, stop
<1>5. CASE At(offset, start) /\ Occurrences(offset + 4, stop) # {}
    <2> DEFINE end == Min(Occurrences(offset + 4, stop)) + 3
    <2>1. comment = Success(end)
        BY <1>5 DEF CommentRule, PatternRule, start, stop
    <2>2. comment.found /\ comment.offset = end
        BY <2>1 DEF Success
    <2>3. /\ EndsOf(XML_COMMENT, offset) # {} /\ end = Min(EndsOf(XML_COMMENT, offset))
          /\ end \in offset + 1..Len(text)
        BY <1>1, <1>5, CommentEnds DEF start, stop
    <2>4. Found(XML_COMMENT, end)
        BY <2>2 DEF NextToken
    <2> HIDE DEF end, comment, tag
    <2>5. Finds(XML_COMMENT, end)
        BY <1>3, <2>3, <2>4 DEF Finds, Found
    <2>6. end \in Nat
        BY <1>1, <2>3
    <2> QED
        BY <1>2, <1>3, <2>5, <2>6
<1>6. CASE At(offset, start) /\ Occurrences(offset + 4, stop) = {}
    <2>1. comment = Failure(offset + 4 - 1)
        BY <1>6 DEF CommentRule, PatternRule, start, stop
    <2>2. ~comment.found /\ comment.offset = offset + 3
        BY <1>1, <2>1 DEF Failure
    <2>3. /\ offset + 4 <= Len(text) /\ text[offset + 1] = "<" /\ text[offset + 2] = "!"
          /\ text[offset + 3] = "-" /\ text[offset + 4] = "-"
        BY <1>1, <1>6, AtCommentStart DEF start
    <2>4. ~At(offset + 3, <<"<">>)
        <3>1. offset + 3 \in Nat /\ offset + 3 + 1 = offset + 4
            BY <1>1
        <3> QED
            BY <1>4, <2>3, <3>1
    <2>5. tag = Failure(offset + 3)
        BY <2>2, <2>4 DEF TagRule
    <2>6. ~tag.found /\ tag.offset = offset + 3
        BY <2>5 DEF Failure
    <2>7. offset' = offset + 3 + 1 /\ UNCHANGED <<scanner, parts>>
        <3>1. offset + 3 < Len(text) /\ ~(offset + 3 >= Len(text))
            BY <1>1, <2>3
        <3> QED
            BY <2>2, <2>6, <3>1 DEF NextToken
    <2> HIDE DEF comment, tag
    <2>8. Barren(offset)
        <3>1. EndsOf(XML_COMMENT, offset) = {}
            BY <1>6 DEF EndsOf, start, stop
        <3>2. At(offset + 1, <<"!">>)
            <4>1. offset + 1 \in Nat /\ offset + 1 + 1 = offset + 2 /\ offset + 1 < Len(text)
                BY <1>1, <2>3
            <4> QED
                BY <1>3, <2>3, <4>1, AtOne
        <3>3. EndsOf(XML_TAG, offset) = {}
            BY <3>2 DEF EndsOf, XML_TAG, XML_COMMENT
        <3> QED
            BY <3>1, <3>3 DEF Barren
    <2>9. Barren(offset + 1) /\ Barren(offset + 2) /\ Barren(offset + 3)
        <3>1. /\ offset + 1 \in Nat /\ offset + 1 + 1 = offset + 2
              /\ offset + 2 \in Nat /\ offset + 2 + 1 = offset + 3
              /\ offset + 3 \in Nat /\ offset + 3 + 1 = offset + 4
            BY <1>1
        <3>2. text[offset + 2] # "<" /\ text[offset + 3] # "<" /\ text[offset + 4] # "<"
            BY <2>3
        <3> QED
            BY <3>1, <3>2, OnlyAngle
    <2>10. \A p \in offset..offset + 4 - 1 :
                p = offset \/ p = offset + 1 \/ p = offset + 2 \/ p = offset + 3
        BY <1>1
    <2>11. PassesOver(offset + 4)
        <3>1. \A p \in offset..offset + 4 - 1 : Barren(p)
            BY <2>8, <2>9, <2>10
        <3>2. offset + 4 \in offset + 1..Len(text) /\ offset' = offset + 4
            BY <1>1, <2>3, <2>7
        <3> QED
            BY <2>7, <3>1, <3>2 DEF PassesOver
    <2>12. offset + 4 \in Nat
        BY <1>1
    <2> QED
        BY <1>2, <2>11, <2>12
<1>7. CASE ~At(offset, start)
    <2> DEFINE begins == /\ At(offset, <<"<">>)
                         /\ ~At(offset + 1, <<"?">>) /\ ~At(offset + 1, <<"!">>)
               ends == Occurrences(offset + 2, <<">">>)
    <2>1. ~comment.found /\ comment.offset = offset
        BY <1>7 DEF CommentRule, Failure, start
    <2>2. EndsOf(XML_COMMENT, offset) = {}
        BY <1>7 DEF EndsOf, start
    <2>3. tag = IF begins THEN PatternRule(offset, 2, <<">">>) ELSE Failure(offset)
        BY <2>1 DEF TagRule
    <2>4. CASE begins /\ ends # {}
        <3> DEFINE end == Min(ends) + 1
        <3>1. tag = Success(end)
            BY <2>3, <2>4 DEF PatternRule
        <3>2. tag.found /\ tag.offset = end
            BY <3>1 DEF Success
        <3>3. /\ EndsOf(XML_TAG, offset) # {} /\ end = Min(EndsOf(XML_TAG, offset))
              /\ end \in offset + 1..Len(text)
            BY <1>1, <2>4, TagEnds
        <3>4. Found(XML_TAG, end)
            BY <2>1, <3>2 DEF NextToken
        <3> HIDE DEF end, comment, tag
        <3>5. Finds(XML_TAG, end)
            BY <1>3, <3>3, <3>4 DEF Finds, Found
        <3>6. end \in Nat
            BY <1>1, <3>3
        <3> QED
            BY <1>2, <1>3, <3>5, <3>6
    <2>5. CASE ~(begins /\ ends # {})
        <3> DEFINE last == IF begins THEN offset + 1 ELSE offset
        <3>1. tag = Failure(last)
            <4>1. offset + 2 - 1 = offset + 1
                BY <1>1
            <4> QED
                BY <2>3, <2>5, <4>1 DEF PatternRule
        <3>2. ~tag.found /\ tag.offset = last
            BY <3>1 DEF Failure
        <3>3. \/ last < Len(text) /\ offset' = last + 1 /\ UNCHANGED <<scanner, parts>>
              \/ last >= Len(text) /\ scanner' = "done" /\ UNCHANGED <<offset, parts>>
            BY <2>1, <3>2 DEF NextToken
        <3>4. Barren(offset)
            <4>1. EndsOf(XML_TAG, offset) = {}
                BY <2>5 DEF EndsOf, XML_TAG, XML_COMMENT
            <4> QED
                BY <2>2, <4>1 DEF Barren
        <3>5. begins => Barren(offset + 1)
            <4>1. offset + 2 \in Nat /\ offset + 1 \in Nat /\ offset + 2 <= offset + 1 + 2
                BY <1>1
            <4> QED
                BY <2>5, <4>1, NoEndAhead
        <3>6. last \in Nat /\ offset <= last
              /\ \A p \in offset..last : p = offset \/ (begins /\ p = offset + 1)
            BY <1>1
        <3> HIDE DEF last, comment, tag, begins, ends
        <3>7. \A p \in offset..last : Barren(p)
            BY <3>4, <3>5, <3>6
        <3>8. CASE last < Len(text) /\ offset' = last + 1 /\ UNCHANGED <<scanner, parts>>
            <4>1. PICK to \in Nat : to = last + 1
                BY <3>6
            <4>2. to \in offset + 1..Len(text) /\ \A p \in offset..to - 1 : p \in offset..last
                BY <1>1, <3>6, <3>8, <4>1
            <4>3. PassesOver(to)
                BY <3>7, <3>8, <4>1, <4>2 DEF PassesOver
            <4> QED
                BY <1>2, <4>3
        <3>9. CASE last >= Len(text) /\ scanner' = "done" /\ UNCHANGED <<offset, parts>>
            <4>1. \A p \in offset..Len(text) - 1 : p \in offset..last
                BY <1>1, <3>6, <3>9
            <4>2. Completes
                BY <3>7, <3>9, <4>1 DEF Completes
            <4> QED
                BY <1>2, <4>2
        <3> QED
            BY <3>3, <3>8, <3>9
    <2> QED
        BY <2>4, <2>5
<1> QED
    BY <1>5, <1>6, <1>7

-----------------------------------------------------------------------------
(* The scan *)

\* A partition is a comment or a tag up to its first end.
Right(part) ==
    /\ EndsOf(part.type, part.start) # {}
    /\ part.end = Min(EndsOf(part.type, part.start))

Outside(p) == \A part \in parts : ~Within(p, part)

\* The document is split correctly up to n.
SplitUpTo(n) ==
    /\ \A part \in parts : Right(part) /\ part.end <= n
    /\ \A part, other \in parts :
            part # other => part.end <= other.start \/ other.end <= part.start
    /\ \A p \in 0..n - 1 : Outside(p) => Barren(p)

\* ... up to where the scanner is.
Scanned == SplitUpTo(IF scanner = "done" THEN Len(text) ELSE offset)

LEMMA SameText ==
    ASSUME UNCHANGED text, NEW type, NEW p
    PROVE  EndsOf(type, p)' = EndsOf(type, p)
PROOF
BY DEF EndsOf, Occurrences, At

\* What is split stays split while text and partitions stay.
LEMMA SplitStays ==
    ASSUME UNCHANGED <<text, parts>>, NEW m \in Nat, NEW n \in Nat, m <= n,
           SplitUpTo(m), \A part \in parts : part.end \in Nat,
           \A p \in m..n - 1 : Barren(p)
    PROVE  SplitUpTo(n)'
PROOF
<1>1. \A type, p : EndsOf(type, p)' = EndsOf(type, p)
    BY SameText
<1>2. \A part \in parts : Right(part)' /\ part.end <= n
    BY <1>1 DEF SplitUpTo, Right
<1>3. ASSUME NEW p \in 0..n - 1, Outside(p)'
      PROVE  Barren(p)'
    <2>1. Outside(p)
        BY <1>3 DEF Outside, Within
    <2>2. Barren(p)
        <3>1. p \in 0..m - 1 \/ p \in m..n - 1
            OBVIOUS
        <3> QED
            BY <2>1, <3>1 DEF SplitUpTo
    <2> QED
        BY <1>1, <2>2 DEF Barren
<1> QED
    BY <1>2, <1>3 DEF SplitUpTo

LEMMA ScanStep ==
    ASSUME ScannerTypeOK, Scanned, NextToken
    PROVE  ScannerTypeOK' /\ Scanned'
PROOF
<1>1. text \in Seq(Chars) /\ Len(text) \in Nat /\ offset \in 0..Len(text) /\ offset \in Nat
    BY PartitionScannerAssumption DEF ScannerTypeOK
<1>2. scanner = "scanning" /\ SplitUpTo(offset)
    BY DEF NextToken, Scanned
<1>3. UNCHANGED text
    BY <1>1, TokenStep
<1>4. \A part \in parts : part.end \in Nat /\ part.start \in Nat
    BY <1>1 DEF ScannerTypeOK
<1>5. ASSUME NEW type \in LegalContentTypes, NEW end \in Nat, Finds(type, end)
      PROVE  ScannerTypeOK' /\ Scanned'
    <2> DEFINE new == [type |-> type, start |-> offset, end |-> end]
    <2>1. /\ EndsOf(type, offset) # {} /\ end = Min(EndsOf(type, offset))
          /\ end \in offset + 1..Len(text) /\ offset' = end
          /\ parts' = parts \cup {new} /\ scanner' = "scanning"
        BY <1>2, <1>5 DEF Finds
    <2>2. ScannerTypeOK'
        <3>1. new \in [type : LegalContentTypes, start : 0..Len(text), end : 0..Len(text)]
            BY <1>1, <2>1
        <3> HIDE DEF new
        <3>2. offset' \in 0..Len(text)
            BY <1>1, <2>1
        <3> QED
            BY <1>3, <2>1, <3>1, <3>2 DEF ScannerTypeOK
    <2>3. \A t, p : EndsOf(t, p)' = EndsOf(t, p)
        BY <1>3, SameText
    <2>4. new.type = type /\ new.start = offset /\ new.end = end
        OBVIOUS
    <2> HIDE DEF new
    <2>5. ASSUME NEW part \in parts'
          PROVE  Right(part)' /\ part.end <= end
        <3>1. Right(part) /\ part.end <= end
            <4>1. CASE part \in parts
                BY <1>1, <1>2, <1>4, <2>1, <4>1 DEF SplitUpTo
            <4>2. CASE part = new
                BY <2>1, <2>4, <4>2 DEF Right
            <4> QED
                BY <2>1, <4>1, <4>2
        <3> QED
            BY <2>3, <3>1 DEF Right
    <2>6. ASSUME NEW part \in parts', NEW other \in parts', part # other
          PROVE  part.end <= other.start \/ other.end <= part.start
        <3>1. CASE part \in parts /\ other \in parts
            BY <1>2, <2>6, <3>1 DEF SplitUpTo
        <3>2. CASE part = new
            <4>1. other.end <= offset
                BY <1>2, <2>1, <2>6, <3>2 DEF SplitUpTo
            <4> QED
                BY <2>4, <3>2, <4>1
        <3>3. CASE other = new
            <4>1. part.end <= offset
                BY <1>2, <2>1, <2>6, <3>3 DEF SplitUpTo
            <4> QED
                BY <2>4, <3>3, <4>1
        <3> QED
            BY <2>1, <3>1, <3>2, <3>3
    <2>7. ASSUME NEW p \in 0..end - 1, Outside(p)'
          PROVE  Barren(p)'
        <3>1. Outside(p) /\ ~Within(p, new)
            BY <2>1, <2>7 DEF Outside, Within
        <3>2. p \in 0..offset - 1
            BY <1>1, <2>1, <2>4, <3>1 DEF Within
        <3>3. Barren(p)
            BY <1>2, <3>1, <3>2 DEF SplitUpTo
        <3> QED
            BY <2>3, <3>3 DEF Barren
    <2>8. SplitUpTo(end)'
        BY <2>5, <2>6, <2>7 DEF SplitUpTo
    <2>9. Scanned'
        BY <2>1, <2>8 DEF Scanned
    <2> QED
        BY <2>2, <2>9
<1>6. ASSUME NEW to \in Nat, PassesOver(to)
      PROVE  ScannerTypeOK' /\ Scanned'
    <2>1. /\ to \in offset + 1..Len(text) /\ \A p \in offset..to - 1 : Barren(p)
          /\ offset' = to /\ UNCHANGED <<scanner, parts>>
        BY <1>6 DEF PassesOver
    <2>2. offset <= to /\ to \in 0..Len(text)
        BY <1>1, <2>1
    <2>3. SplitUpTo(to)'
        BY <1>1, <1>2, <1>3, <1>4, <2>1, <2>2, SplitStays
    <2>4. Scanned'
        BY <1>2, <2>1, <2>3 DEF Scanned
    <2>5. ScannerTypeOK'
        BY <1>3, <2>1, <2>2 DEF ScannerTypeOK
    <2> QED
        BY <2>4, <2>5
<1>7. CASE Completes
    <2>1. /\ \A p \in offset..Len(text) - 1 : Barren(p)
          /\ scanner' = "done" /\ UNCHANGED <<offset, parts>>
        BY <1>7 DEF Completes
    <2>2. PICK to \in Nat : to = Len(text)
        BY <1>1
    <2>3. offset <= to /\ \A p \in offset..to - 1 : Barren(p)
        BY <1>1, <2>1, <2>2
    <2>4. SplitUpTo(to)'
        BY <1>1, <1>2, <1>3, <1>4, <2>1, <2>2, <2>3, SplitStays
    <2>5. Scanned'
        BY <1>3, <2>1, <2>2, <2>4 DEF Scanned
    <2>6. ScannerTypeOK'
        BY <1>3, <2>1 DEF ScannerTypeOK
    <2> QED
        BY <2>5, <2>6
<1> QED
    BY <1>1, <1>5, <1>6, <1>7, TokenStep

\* A step that leaves the scan alone, or only starts it.
LEMMA ScanStays ==
    ASSUME ScannerTypeOK, Scanned, UNCHANGED <<text, offset, parts>>,
           scanner' = scanner \/ (scanner = "idle" /\ scanner' = "scanning")
    PROVE  ScannerTypeOK' /\ Scanned'
PROOF
<1>1. ScannerTypeOK'
    BY DEF ScannerTypeOK
<1>2. \A type, p : EndsOf(type, p)' = EndsOf(type, p)
    BY SameText
<1> DEFINE n == IF scanner = "done" THEN Len(text) ELSE offset
<1>3. SplitUpTo(n) /\ n' = n
    BY DEF Scanned
<1> HIDE DEF n
<1>4. SplitUpTo(n)'
    BY <1>2, <1>3 DEF SplitUpTo, Right, Outside, Within, Barren
<1> QED
    BY <1>1, <1>4 DEF Scanned, n

-----------------------------------------------------------------------------
(* The editor *)

AllColors == TagScannerColors \cup XMLScannerColors \cup {"XML_COMMENT"}

\* The colour table knows every colour that is live, a scanner that was made
\* has its colours in it, and a configured viewer has all repairers.
Colored ==
    /\ IF phase = "disposed" THEN live = {} ELSE live = fColorTable
    /\ tagScanner \in {{}, TagScannerColors} /\ xmlScanner \in {{}, XMLScannerColors}
    /\ tagScanner \cup xmlScanner \subseteq fColorTable
    /\ phase = "none" => configured = 0
    /\ phase = "open" /\ configured > 0 =>
            reconciler = getPresentationReconciler /\ AllColors \subseteq fColorTable

IInv == TypeOK /\ Scanned /\ Colored

LEMMA InitIInv == Init => IInv
PROOF
<1> SUFFICES ASSUME Init PROVE IInv
    OBVIOUS
<1>1. text \in Seq(Chars) /\ Len(text) \in Nat /\ text \in Texts
    BY PartitionScannerAssumption DEF Init, ScannerInit
<1>2. ScannerTypeOK
    BY <1>1 DEF Init, ScannerInit, ScannerTypeOK
<1>3. TypeOK
    BY <1>2, DeviceTreeEditorAssumption DEF Init, TypeOK, NoReconciler
<1>4. Scanned
    BY DEF Init, ScannerInit, Scanned, SplitUpTo
<1>5. Colored
    BY DEF Init, Colored
<1> QED
    BY <1>3, <1>4, <1>5 DEF IInv

\* The repairers use the scanners' colours and that of comments.
LEMMA Repairers ==
    /\ getPresentationReconciler \in [ContentTypes -> SUBSET RGBs]
    /\ \A type \in ContentTypes :
            /\ getPresentationReconciler[type] # {}
            /\ getPresentationReconciler[type] \subseteq AllColors
PROOF
BY DEF getPresentationReconciler, ContentTypes, LegalContentTypes, XML_TAG, XML_COMMENT,
       DEFAULT_CONTENT_TYPE, AllColors, TagScannerColors, XMLScannerColors, RGBs

LEMMA ConfigureIInv == ASSUME IInv, Configure PROVE IInv'
PROOF
<1>1. /\ phase = "open" /\ configured < MaxConfigured
      /\ fColorTable' = fColorTable \cup NewColors
      /\ live' = live \cup (NewColors \ fColorTable)
      /\ tagScanner' = TagScannerColors /\ xmlScanner' = XMLScannerColors
      /\ reconciler' = getPresentationReconciler
      /\ configured' = configured + 1
      /\ UNCHANGED <<text, scanner, offset, parts, phase>>
    BY DEF Configure, getColor, scanVars
<1>2. AllColors \subseteq fColorTable'
    BY <1>1 DEF IInv, Colored, AllColors, NewColors
<1>3. live' = fColorTable'
    BY <1>1 DEF IInv, Colored
<1>4. Colored'
    BY <1>1, <1>2, <1>3 DEF Colored, AllColors
<1>5. ScannerTypeOK' /\ Scanned'
    BY <1>1, ScanStays DEF IInv, TypeOK
<1>6. TypeOK'
    <2>1. NewColors \subseteq RGBs
        BY DEF NewColors, TagScannerColors, XMLScannerColors, RGBs
    <2>2. tagScanner' \subseteq RGBs /\ xmlScanner' \subseteq RGBs
        BY <1>1 DEF TagScannerColors, XMLScannerColors, RGBs
    <2>3. configured' \in 0..MaxConfigured
        BY <1>1, DeviceTreeEditorAssumption DEF IInv, TypeOK
    <2>4. reconciler' \in [ContentTypes -> SUBSET RGBs]
        BY <1>1, Repairers
    <2> QED
        BY <1>1, <1>3, <1>5, <2>1, <2>2, <2>3, <2>4 DEF IInv, TypeOK
<1> QED
    BY <1>4, <1>5, <1>6 DEF IInv

LEMMA NextIInv == IInv /\ [Next]_vars => IInv'
PROOF
<1> SUFFICES ASSUME IInv, [Next]_vars PROVE IInv'
    OBVIOUS
<1>1. CASE Construct
    <2>1. UNCHANGED <<text, scanner, offset, parts>>
        BY <1>1 DEF Construct, scanVars
    <2>2. ScannerTypeOK' /\ Scanned'
        BY <2>1, ScanStays DEF IInv, TypeOK
    <2> QED
        BY <1>1, <2>2 DEF Construct, IInv, TypeOK, Colored
<1>2. CASE createDocument
    <2>1. /\ UNCHANGED <<text, offset, parts>>
          /\ scanner = "idle" /\ scanner' = "scanning" /\ UNCHANGED editorVars
        BY <1>2 DEF createDocument, Connect
    <2>2. ScannerTypeOK' /\ Scanned'
        BY <2>1, ScanStays DEF IInv, TypeOK
    <2> QED
        BY <2>1, <2>2 DEF editorVars, IInv, TypeOK, Colored
<1>3. CASE Scan
    <2>1. ScannerTypeOK' /\ Scanned' /\ UNCHANGED editorVars
        BY <1>3, ScanStep DEF Scan, IInv, TypeOK
    <2> QED
        BY <2>1 DEF editorVars, IInv, TypeOK, Colored
<1>4. CASE Configure
    BY <1>4, ConfigureIInv
<1>5. CASE dispose
    <2>1. /\ phase = "open" /\ phase' = "disposed" /\ live' = live \ fColorTable
          /\ reconciler' = NoReconciler
          /\ UNCHANGED <<text, scanner, offset, parts, fColorTable, tagScanner, xmlScanner, configured>>
        BY <1>5 DEF dispose, disposeColors, scanVars
    <2>2. ScannerTypeOK' /\ Scanned'
        BY <2>1, ScanStays DEF IInv, TypeOK
    <2>3. Colored'
        BY <2>1 DEF IInv, Colored
    <2>4. TypeOK'
        BY <2>1, <2>2 DEF IInv, TypeOK, NoReconciler
    <2> QED
        BY <2>2, <2>3, <2>4 DEF IInv
<1>6. CASE UNCHANGED vars
    <2>1. UNCHANGED <<text, scanner, offset, parts>> /\ UNCHANGED editorVars
        BY <1>6 DEF vars, scanVars
    <2>2. ScannerTypeOK' /\ Scanned'
        BY <2>1, ScanStays DEF IInv, TypeOK
    <2> QED
        BY <2>1, <2>2 DEF editorVars, IInv, TypeOK, Colored
<1> QED
    BY <1>1, <1>2, <1>3, <1>4, <1>5, <1>6 DEF Next

LEMMA IInvHolds == Spec => []IInv
PROOF
BY InitIInv, NextIInv, PTL DEF Spec

-----------------------------------------------------------------------------
(* The theorems *)

\* The scanner never runs past the end of the document, partitions lie in it,
\* and only known colours are made.
THEOREM TypeCorrect == Spec => []TypeOK
PROOF
<1>1. IInv => TypeOK
    BY DEF IInv
<1> QED
    BY <1>1, IInvHolds, PTL

\* For documents of every length: the partitions of a finished scan are the
\* comments and tags up to their first ends, disjoint, and no comment or tag
\* is lost where a rule that fails gives back less than it read.
THEOREM AlwaysPartitioned == Spec => []Partitioned
PROOF
<1>1. IInv => Partitioned
    <2> SUFFICES ASSUME IInv, scanner = "done" PROVE Partitioned
        BY DEF Partitioned
    <2>1. SplitUpTo(Len(text))
        BY DEF IInv, Scanned
    <2> QED
        BY <2>1 DEF SplitUpTo, Right, Outside, Barren, Partitioned
<1> QED
    BY <1>1, IInvHolds, PTL

\* However often the viewer is configured, and whenever the document comes,
\* each partition has a repairer, all of whose colours are live.
THEOREM AlwaysPainted == Spec => []Painted
PROOF
<1>1. IInv => Painted
    <2> SUFFICES ASSUME IInv, phase = "open", configured > 0,
                        NEW type \in {part.type : part \in parts} \cup {DEFAULT_CONTENT_TYPE}
                 PROVE  reconciler[type] # {} /\ reconciler[type] \subseteq live
        BY DEF Painted
    <2>1. type \in ContentTypes
        <3>1. \A part \in parts : part.type \in LegalContentTypes
            BY DEF IInv, TypeOK, ScannerTypeOK
        <3> QED
            BY <3>1 DEF ContentTypes
    <2>2. reconciler = getPresentationReconciler /\ AllColors \subseteq live
        BY DEF IInv, Colored
    <2> QED
        BY <2>1, <2>2, Repairers
<1> QED
    BY <1>1, IInvHolds, PTL

\* A disposed editor has no colour left.
THEOREM DisposedHasNoColorLeft == Spec => []NoColorLeft
PROOF
<1>1. IInv => NoColorLeft
    BY DEF IInv, Colored, NoColorLeft
<1> QED
    BY <1>1, IInvHolds, PTL

=============================================================================
