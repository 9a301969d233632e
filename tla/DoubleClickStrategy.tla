------------------------ MODULE DoubleClickStrategy ------------------------
(***************************************************************************)
(* editors/XMLDoubleClickStrategy.java: what a double click in the editor  *)
(* selects.  It looks for a quoted string around the caret, scanning first *)
(* back and then forward, and falls back to the word around the caret.     *)
(* Offsets count from 0, as in the document.                               *)
(***************************************************************************)
EXTENDS Integers, Sequences, FiniteSetsExt, SequencesExt

CONSTANT MaxLength      \* bound: the length of a document

ASSUME DoubleClickAssumption == MaxLength \in Nat

\* What the scans tell apart.  "cr" is the carriage return: the code compares
\* with Character.LINE_SEPARATOR, which is a category number, 13.  A line feed
\* is one of the "other" characters.
Chars == {"quote", "backslash", "cr", "word", "other"}

Texts == BoundedSeq(Chars, MaxLength)

VARIABLES
    text,       \* the document
    caret,      \* where the mouse went down last; -1 before the first time
    selected,   \* the selected range [x, y) of the viewer
    doubled     \* whether the second click has come

vars == <<text, caret, selected, doubled>>

Offsets(t) == 0..Len(t) - 1
CharAt(t, p) == t[p + 1]

\* setSelectedRange with a negative length selects backwards.
setSelectedRange(x, length) ==
    IF length < 0 THEN [x |-> x + length, y |-> x] ELSE [x |-> x, y |-> x + length]

TypeOK ==
    /\ text \in Texts
    /\ caret \in -1..Len(text)
    /\ doubled \in BOOLEAN
    /\ selected \in [x : 0..Len(text), y : 0..Len(text)]
    /\ selected.x <= selected.y

Init ==
    /\ text \in Texts
    /\ caret = -1
    /\ selected = [x |-> 0, y |-> 0]
    /\ doubled = FALSE

-----------------------------------------------------------------------------
(* The scans *)

IsStop(t, p) == CharAt(t, p) \in {"cr", "quote"}

\* Faulty variant: a backslash is a character like the others.
BackwardStop_NoEscape(t, from) ==
    LET stop[p \in -2..Len(t)] ==
            CASE p < 0 -> -1
              [] p >= 0 /\ IsStop(t, p) -> p
              [] OTHER -> stop[p - 1]
    IN  stop[from]

\* The loop back from the caret: a backslash skips the character before it.
\* The result is negative when the loop leaves the document.
BackwardStop(t, from) ==
    LET stop[p \in -2..Len(t)] ==
            CASE p < 0 -> -1
              [] p >= 0 /\ CharAt(t, p) = "backslash" -> stop[p - 2]
              [] p >= 0 /\ IsStop(t, p) -> p
              [] OTHER -> stop[p - 1]
    IN  stop[from]

\* The loop forward ends at the end of the document if nothing stops it.
ForwardStop(t, from) ==
    Min({p \in from..Len(t) : p = Len(t) \/ IsStop(t, p)})

IsQuote(t, p) == p \in Offsets(t) /\ CharAt(t, p) = "quote"

IsWord(t, p) == CharAt(t, p) = "word"

\* Faulty variant: the loop back never looks at the first character.
WordBefore_Zero(t, from) == Max({p \in 0..from : p = 0 \/ ~IsWord(t, p)})

\* The two loops of selectWord.
WordBefore(t, from) == Max({p \in -1..from : p = -1 \/ ~IsWord(t, p)})
WordAfter(t, from) == Min({p \in from..Len(t) : p = Len(t) \/ ~IsWord(t, p)})

\* Faulty variant: the character before the range is taken along.
selectRange_Early(startPos, stopPos) ==
    setSelectedRange(startPos, stopPos - startPos)

\* The characters strictly between the two positions.
selectRange(startPos, stopPos) ==
    setSelectedRange(startPos + 1, stopPos - (startPos + 1))

\* Whether selectComment selects something.  At the end of the document
\* getChar throws, and the answer is no.
selectsComment(t, c) ==
    /\ c \in Offsets(t)
    /\ IsQuote(t, BackwardStop(t, c))
    /\ IsQuote(t, ForwardStop(t, c))

-----------------------------------------------------------------------------
(* Actions *)

\* A click puts the caret somewhere; a double click starts with it.
Click(p) ==
    /\ caret' = p
    /\ selected' = [x |-> p, y |-> p]
    /\ doubled' = FALSE
    /\ UNCHANGED text

selectComment ==
    /\ selectsComment(text, selected.x)
    /\ selected' = selectRange(BackwardStop(text, selected.x),
                               ForwardStop(text, selected.x))

\* At the end of the document getChar throws, and nothing is selected.
selectWord ==
    /\ ~selectsComment(text, selected.x)
    /\ IF selected.x \in Offsets(text)
       THEN selected' = selectRange(WordBefore(text, selected.x),
                                    WordAfter(text, selected.x))
       ELSE UNCHANGED selected

doubleClicked ==
    /\ caret >= 0 /\ ~doubled
    /\ selectComment \/ selectWord
    /\ doubled' = TRUE
    /\ UNCHANGED <<text, caret>>

Next == doubleClicked \/ \E p \in 0..Len(text) : Click(p)

Spec == Init /\ [][Next]_vars

-----------------------------------------------------------------------------
(* Properties *)

Strictly(a, b) == {p \in Offsets(text) : a < p /\ p < b}
Selection == {p \in Offsets(text) : selected.x <= p /\ p < selected.y}

\* How many backslashes follow p without a gap, up to the caret.
Backslashes(p) ==
    Cardinality({q \in p + 1..caret :
                    \A r \in p + 1..q : CharAt(text, r) = "backslash"})

\* The stops the loop back sees: those that an even number of backslashes
\* follows.
StopsBack ==
    {p \in 0..caret : p < Len(text) /\ IsStop(text, p) /\ Backslashes(p) % 2 = 0}

StopsAhead == {p \in Offsets(text) : p >= caret /\ IsStop(text, p)}

InString ==
    /\ caret < Len(text) /\ StopsBack # {} /\ StopsAhead # {}
    /\ IsQuote(text, Max(StopsBack)) /\ IsQuote(text, Min(StopsAhead))

\* A double click on a character selects a range with that character in it,
\* whether it is in a string, in a word, a quote or between words: neither
\* the two scans nor the negative length lose it.
CoversCaret == doubled /\ caret < Len(text) => caret \in Selection

\* In a string that is what lies between the quotes.  The quote that opens it
\* is the last one followed by an even number of backslashes, the one that
\* closes it the next one, escaped or not; a caret on a quote selects it.
SelectsString ==
    doubled /\ InString =>
        Selection = IF IsQuote(text, caret) THEN {caret}
                    ELSE Strictly(Max(StopsBack), Min(StopsAhead))

\* Outside a string it is the whole word: all of the selection is word, and
\* the characters at its two ends are not.  On any other character it is that
\* character alone.
SelectsWord ==
    doubled /\ ~InString /\ caret < Len(text) =>
        IF IsWord(text, caret)
        THEN /\ \A p \in Selection : IsWord(text, p)
             /\ \A p \in {selected.x - 1, selected.y} \cap Offsets(text) :
                    ~IsWord(text, p)
        ELSE Selection = {caret}

=============================================================================
