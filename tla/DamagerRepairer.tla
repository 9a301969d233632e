--------------------------- MODULE DamagerRepairer ---------------------------
(***************************************************************************)
(* NonRuleBasedDamagerRepairer (editors/NonRuleBasedDamagerRepairer.java), *)
(* the damager and repairer of the editor's comment partitions, as the     *)
(* presentation reconciler drives it: an edit changes the document, the    *)
(* damager says which region lost its style, the repairer styles it again. *)
(*                                                                         *)
(* A document is a sequence of characters, of which only the line          *)
(* delimiters matter: "r" and "n" stand for CR and LF, and CR LF is one    *)
(* delimiter.  Offsets start at 0.  One comment partition is followed.     *)
(***************************************************************************)
EXTENDS Integers, Sequences, FiniteSetsExt

CONSTANTS
    Chars,      \* the characters of a document, "r" and "n" among them
    MaxLength,  \* bound: the length of the document
    MaxInsert   \* bound: how many characters one edit inserts

ASSUME DamagerAssumption == MaxLength \in Nat /\ MaxInsert \in Nat

VARIABLES
    text,       \* the document
    partition,  \* the comment partition: offset and length
    styled      \* the offsets that have the comment's text attribute

vars == <<text, partition, styled>>

Texts(max) == UNION {[1..n -> Chars] : n \in 0..max}

Region(offset, length) == [offset |-> offset, length |-> length]

Regions == [offset : 0..MaxLength, length : 0..MaxLength]

\* The offsets in a region.
Offsets(r) == r.offset .. (r.offset + r.length - 1)

-----------------------------------------------------------------------------
(* IDocument: line information *)

CharAt(t, i) == t[i + 1]

IsDelimiter(t, i) == CharAt(t, i) \in {"r", "n"}

\* An offset between the CR and the LF of one delimiter.
InsideDelimiter(t, i) ==
    /\ 0 < i /\ i < Len(t)
    /\ CharAt(t, i - 1) = "r" /\ CharAt(t, i) = "n"

\* Where lines start: at 0, and after each delimiter.
LineStarts(t) ==
    {i \in 0..Len(t) : i = 0 \/ (IsDelimiter(t, i - 1) /\ ~InsideDelimiter(t, i))}

\* Where the line that starts at s ends, its delimiter not included.
LineEnd(t, s) == Min({e \in s..Len(t) : e = Len(t) \/ IsDelimiter(t, e)})

ValidOffset(t, i) == i \in 0..Len(t)

\* getLineInformationOfOffset, for a valid offset.
LineStartOf(t, i) == Max({s \in LineStarts(t) : s <= i})
LineEndOf(t, i) == LineEnd(t, LineStartOf(t, i))

-----------------------------------------------------------------------------
(* NonRuleBasedDamagerRepairer *)

\* Faulty variant: an offset inside a delimiter is taken for the line's end.
endOfLineOf_SameLine(t, i) == LineEndOf(t, i)

\* The end of the line of the offset; for an offset inside a delimiter, the
\* end of the next line, or of the document if there is none.
endOfLineOf(t, i) ==
    LET next == {s \in LineStarts(t) : LineStartOf(t, i) < s}
    IN  IF i <= LineEndOf(t, i) THEN LineEndOf(t, i)
        ELSE IF next # {} THEN LineEnd(t, Min(next))
        ELSE Len(t)

\* Faulty variant: the damage ends with the line of the edit.
getDamageRegion_OneLine(t, p, offset, n, partitioningChanged) ==
    LET start == LineStartOf(t, offset)
        end == LineEnd(t, start)
        from == IF p.offset < start THEN start ELSE p.offset
        to == IF p.offset + p.length < end THEN p.offset + p.length ELSE end
    IN  IF partitioningChanged THEN p ELSE Region(from, to - from)

\* The damage of an edit at offset, in the document after it: the lines from
\* the edit's to the one where the edit ends, clipped to the partition.  n is
\* the length of the event's text, or of the replaced range if that text is
\* null; an end past the document damages the whole partition.
getDamageRegion(t, p, offset, n, partitioningChanged) ==
    LET start == LineStartOf(t, offset)
        end == IF start <= offset + n /\ offset + n <= LineEnd(t, start)
               THEN LineEnd(t, start) ELSE endOfLineOf(t, offset + n)
        from == IF p.offset < start THEN start ELSE p.offset
        to == IF p.offset + p.length < end THEN p.offset + p.length ELSE end
    IN  IF partitioningChanged \/ ~ValidOffset(t, offset + n)
        THEN p
        ELSE Region(from, to - from)

\* Faulty variant: the style range is one character too long.
createPresentation_PastEnd(region) == region.offset .. (region.offset + region.length)

\* The repairer gives the whole region the default text attribute.
createPresentation(region) == Offsets(region)

-----------------------------------------------------------------------------
(* The editor *)

\* The document after its range of length len at offset is replaced by new.
Replace(t, offset, len, new) ==
    SubSeq(t, 1, offset) \o new \o SubSeq(t, offset + len + 1, Len(t))

\* The styles move with their characters; the new characters have none.
Shift(S, offset, len, k) ==
    {i \in S : i < offset} \cup {i - len + k : i \in {j \in S : offset + len <= j}}

Init ==
    /\ text \in Texts(MaxLength)
    /\ partition \in {p \in Regions : p.offset + p.length <= Len(text)}
    /\ styled = createPresentation(partition)

\* An edit inside the comment that leaves it the comment it was.
EditInside(offset, len, new, nullText) ==
    /\ partition.offset < offset
    /\ offset + len < partition.offset + partition.length
    /\ nullText => new = <<>>
    /\ Len(text) - len + Len(new) <= MaxLength
    /\ text' = Replace(text, offset, len, new)
    /\ partition' = Region(partition.offset, partition.length - len + Len(new))
    /\ LET damage == getDamageRegion(text', partition', offset,
                                     IF nullText THEN len ELSE Len(new), FALSE)
       IN  styled' = Shift(styled, offset, len, Len(new)) \cup createPresentation(damage)

\* An edit that gives the document another comment partition.  The other
\* partitions' repairers restyle what the comment leaves.
EditPartitioning(offset, len, new, p) ==
    /\ offset + len <= Len(text)
    /\ Len(text) - len + Len(new) <= MaxLength
    /\ p.offset + p.length <= Len(text) - len + Len(new)
    /\ text' = Replace(text, offset, len, new)
    /\ partition' = p
    /\ styled' = (Shift(styled, offset, len, Len(new)) \cap Offsets(p))
                    \cup createPresentation(
                            getDamageRegion(text', p, offset, Len(new), TRUE))

Next ==
    \/ \E offset, len \in 0..MaxLength, new \in Texts(MaxInsert), nullText \in BOOLEAN :
            EditInside(offset, len, new, nullText)
    \/ \E offset, len \in 0..MaxLength, new \in Texts(MaxInsert), p \in Regions :
            EditPartitioning(offset, len, new, p)

Spec == Init /\ [][Next]_vars

-----------------------------------------------------------------------------
(* Properties *)

TypeOK ==
    /\ text \in Texts(MaxLength)
    /\ partition \in Regions
    /\ partition.offset + partition.length <= Len(text)
    /\ styled \subseteq 0..(Len(text) - 1)

\* After every edit, however many lines it joins, splits or replaces, the
\* damage region was large enough and not too large: the comment's characters
\* have the comment's style, all of them and no others.
Repaired == styled = Offsets(partition)

\* endOfLineOf against its documentation: the end of the line that contains
\* the offset, or of the next line if the offset is inside a delimiter.  The
\* reference is the first line end that is not inside a delimiter.
EndOfLineAsDocumented ==
    \A i \in 0..Len(text) :
        endOfLineOf(text, i) =
            Min({e \in i..Len(text) :
                        /\ e = Len(text) \/ IsDelimiter(text, e)
                        /\ ~InsideDelimiter(text, e)})

=============================================================================
