------------------------------- MODULE LineInput -------------------------------
(***************************************************************************)
(* What a terminal promises of its input: the characters typed and not yet *)
(* read form a line of bounded length that the typist can edit back to the *)
(* last newline and that readers take from the front.                      *)
(***************************************************************************)
EXTENDS Integers, Sequences, SequencesExt

CONSTANTS Room,     \* characters that fit
          Letters   \* characters that are not for editing

VARIABLE line   \* typed and not yet read

TypeOne(c) == Len(line) < Room /\ line' = Append(line, c)

\* The characters after the last newline.
Editable == {i \in DOMAIN line : \A j \in i..Len(line) : line[j] # "NL"}

EraseOne == Editable # {} /\ line' = Front(line)

Take(n) == line' = SubSeq(line, n + 1, Len(line))

Init == line = <<>>

Next == \/ \E c \in Letters : TypeOne(c)
        \/ EraseOne
        \/ \E n \in 0..Len(line) : Take(n)

Spec == Init /\ [][Next]_line
==============================================================================
