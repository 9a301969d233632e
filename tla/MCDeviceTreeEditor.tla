------------------------- MODULE MCDeviceTreeEditor -------------------------
(***************************************************************************)
(* Short documents: all over the characters of comments, shorter ones with *)
(* every character, and comments with something before, in and after them. *)
(***************************************************************************)
EXTENDS DeviceTreeEditor, SequencesExt

Commented ==
    {a \o <<"<", "!", "-", "-">> \o b \o <<"-", "-", ">">> \o c :
        a, b \in BoundedSeq(Chars, 1), c \in BoundedSeq(Chars, 2)}

ShortTexts ==
    BoundedSeq({"<", ">", "!", "-"}, 6) \cup BoundedSeq(Chars, 4) \cup Commented

=============================================================================
