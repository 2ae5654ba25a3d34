------------------------------- MODULE Lists -------------------------------
(***************************************************************************)
(* The linked lists of the code, as sequences: walks over them, and what   *)
(* is left when some of their entries are taken out.                       *)
(***************************************************************************)
EXTENDS Naturals, Sequences

\* What Step makes of start, on a walk over a list
Folded(Step(_, _), start, l) ==
    LET upTo[i \in 0..Len(l)] == IF i = 0 THEN start ELSE Step(upTo[i - 1], l[i])
    IN  upTo[Len(l)]

\* What a list has at some of its places, in order
Among(l, places) ==
    LET upTo[i \in 0..Len(l)] ==
            IF i = 0 THEN <<>>
            ELSE IF i \in places THEN Append(upTo[i - 1], l[i]) ELSE upTo[i - 1]
    IN  upTo[Len(l)]

\* and without one of them
Without(l, place) == SubSeq(l, 1, place - 1) \o SubSeq(l, place + 1, Len(l))
=============================================================================
