-------------------------------- MODULE Line --------------------------------
(***************************************************************************)
(* What a user expects of a command line: text with a cursor in it.  The   *)
(* one thing done outside the line is to run it, when it is not empty;     *)
(* command is what was run, until the text changes.                        *)
(***************************************************************************)
EXTENDS Naturals, Sequences, SequencesExt

CONSTANT Printable
VARIABLES text, cursor, command

vars == <<text, cursor, command>>

Init == text = <<>> /\ cursor = 0 /\ command = <<>>

Type(c) ==
    /\ text' = InsertAt(text, cursor + 1, c)
    /\ cursor' = cursor + 1
    /\ command' = <<>>

Erase ==
    /\ cursor > 0
    /\ text' = RemoveAt(text, cursor)
    /\ cursor' = cursor - 1
    /\ command' = <<>>

Move ==
    /\ cursor' \in {cursor - 1, cursor + 1} \cap (0..Len(text))
    /\ UNCHANGED <<text, command>>

Enter ==
    /\ text # <<>>
    /\ command' = text
    /\ text' = <<>>
    /\ cursor' = 0

Next == (\E c \in Printable : Type(c)) \/ Erase \/ Move \/ Enter

Spec == Init /\ [][Next]_vars
=============================================================================
