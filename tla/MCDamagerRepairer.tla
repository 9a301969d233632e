-------------------------- MODULE MCDamagerRepairer --------------------------
(***************************************************************************)
(* Documents of up to MaxLength characters that are line delimiters or one *)
(* other character.                                                        *)
(***************************************************************************)
EXTENDS DamagerRepairer

AllChars == {"x", "r", "n"}

=============================================================================
