-------------------------- MODULE PartitionScanner --------------------------
(***************************************************************************)
(* How a document is split into comments and tags: the two rules of        *)
(* editors/XMLPartitionScanner.java, one of them editors/TagRule.java,     *)
(* and the partitioner that editors/XMLDocumentProvider.java connects to   *)
(* the document.  Offsets count from 0.                                    *)
(*                                                                         *)
(* The scanner and the pattern rules are JFace's.  A rule reads on from an *)
(* offset and either succeeds behind the last character of its token, or   *)
(* fails and should give back what it read.  On a start without an end     *)
(* JFace gives back one character of the start only, and the next rule     *)
(* continues there.                                                        *)
(***************************************************************************)
EXTENDS Integers, Sequences, FiniteSetsExt

CONSTANT Texts      \* the documents

\* The characters the rules tell apart; "x" is any other one.
Chars == {"<", ">", "!", "?", "-", "x"}

ASSUME PartitionScannerAssumption == \A t \in Texts : t \in Seq(Chars)

VARIABLES
    text,       \* the document
    scanner,    \* "idle", "scanning", "done"
    offset,     \* the scanner's offset
    parts       \* the partitions found: type, first offset and end

scanVars == <<text, scanner, offset, parts>>

XML_COMMENT == "__xml_comment"
XML_TAG == "__xml_tag"

\* The content types the partitioner is made with.
LegalContentTypes == {XML_TAG, XML_COMMENT}

ScannerTypeOK ==
    /\ text \in Texts
    /\ scanner \in {"idle", "scanning", "done"}
    /\ offset \in 0..Len(text)
    /\ parts \subseteq [type : LegalContentTypes, start : 0..Len(text), end : 0..Len(text)]

ScannerInit ==
    /\ text \in Texts
    /\ scanner = "idle"
    /\ offset = 0
    /\ parts = {}

-----------------------------------------------------------------------------
(* Rules *)

\* Whether the document goes on with s at p.
At(p, s) == p + Len(s) <= Len(text) /\ SubSeq(text, p + 1, p + Len(s)) = s

\* Where a sequence s starts, from p on.
Occurrences(p, s) == {q \in p..Len(text) : At(q, s)}

Success(p) == [found |-> TRUE, offset |-> p]
Failure(p) == [found |-> FALSE, offset |-> p]

\* A start of which n characters have been read from p on: up to the end
\* sequence, or all but one character of the start stays read.
PatternRule(p, n, end) ==
    IF Occurrences(p + n, end) # {}
    THEN Success(Min(Occurrences(p + n, end)) + Len(end))
    ELSE Failure(p + n - 1)

\* MultiLineRule("<!--", "-->").
CommentRule(p) ==
    IF At(p, <<"<", "!", "-", "-">>)
    THEN PatternRule(p, 4, <<"-", "-", ">">>)
    ELSE Failure(p)

\* Faulty variant: only processing instructions are left alone.
TagRule_Comment(p) ==
    IF At(p, <<"<">>) /\ ~At(p + 1, <<"?">>)
    THEN PatternRule(p, 2, <<">">>)
    ELSE Failure(p)

\* "<" to ">", unless "?" or "!" follows.  sequenceDetected gives the character
\* after "<" back in those two cases only, so ">" is first looked for behind it.
TagRule(p) ==
    IF At(p, <<"<">>) /\ ~At(p + 1, <<"?">>) /\ ~At(p + 1, <<"!">>)
    THEN PatternRule(p, 2, <<">">>)
    ELSE Failure(p)

-----------------------------------------------------------------------------
(* Actions *)

\* partitioner.connect(document) starts the scan.
Connect ==
    /\ scanner = "idle"
    /\ scanner' = "scanning"
    /\ UNCHANGED <<text, offset, parts>>

Found(type, end) ==
    /\ offset' = end
    /\ parts' = IF type \in LegalContentTypes
                THEN parts \cup {[type |-> type, start |-> offset, end |-> end]}
                ELSE parts
    /\ UNCHANGED <<text, scanner>>

\* The next token: the first rule that succeeds, or else one more character,
\* or the end of the document.
NextToken ==
    LET comment == CommentRule(offset)
        tag == TagRule(comment.offset)
    IN  /\ scanner = "scanning"
        /\ \/ comment.found /\ Found(XML_COMMENT, comment.offset)
           \/ ~comment.found /\ tag.found /\ Found(XML_TAG, tag.offset)
           \/ /\ ~comment.found /\ ~tag.found /\ tag.offset < Len(text)
              /\ offset' = tag.offset + 1
              /\ UNCHANGED <<text, scanner, parts>>
           \/ /\ ~comment.found /\ ~tag.found /\ tag.offset >= Len(text)
              /\ scanner' = "done"
              /\ UNCHANGED <<text, offset, parts>>

-----------------------------------------------------------------------------
(* Properties *)

Within(p, part) == part.start <= p /\ p < part.end

\* The end of the comment or of the tag that starts at p, if there is one:
\* the text up to the first end sequence.  The character right after "<" never
\* ends a tag.
EndsOf(type, p) ==
    IF type = XML_COMMENT
    THEN IF At(p, <<"<", "!", "-", "-">>)
         THEN {q + 3 : q \in Occurrences(p + 4, <<"-", "-", ">">>)} ELSE {}
    ELSE IF At(p, <<"<">>) /\ ~\E c \in {"!", "?"} : At(p + 1, <<c>>)
         THEN {q + 1 : q \in Occurrences(p + 2, <<">">>)} ELSE {}

\* When the scan ends, each partition is a comment up to its first "-->" or a
\* tag up to its first ">", no two overlap, and no comment or tag starts
\* outside them: nothing is lost where a rule gives back less than it read.
Partitioned ==
    scanner = "done" =>
        /\ \A part \in parts :
                /\ EndsOf(part.type, part.start) # {}
                /\ part.end = Min(EndsOf(part.type, part.start))
        /\ \A part, other \in parts :
                part # other => part.end <= other.start \/ other.end <= part.start
        /\ \A p \in 0..Len(text) - 1 :
                (\A part \in parts : ~Within(p, part)) =>
                    \A type \in {XML_COMMENT, XML_TAG} : EndsOf(type, p) = {}

=============================================================================
