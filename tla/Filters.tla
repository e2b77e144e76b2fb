------------------------------- MODULE Filters -------------------------------
(***************************************************************************)
(* Some elements of a sequence, as a loop picks them: each that is kept is *)
(* moved to where the next is written.                                     *)
(***************************************************************************)
EXTENDS Naturals, Sequences

\* What a loop over seq leaves of it that keeps the elements at the places in kept.
Filtered(seq, kept) ==
    LET upTo[i \in 0 .. Len(seq)] ==
            IF i = 0 THEN <<>>
            ELSE IF i \in kept THEN Append(upTo[i - 1], seq[i]) ELSE upTo[i - 1]
    IN  upTo[Len(seq)]

\* part has the elements of seq at the places in kept, all of them and nothing else, in their order.
IsFiltered(part, seq, kept) ==
    \E place \in [DOMAIN part -> kept] :
        /\ {place[i] : i \in DOMAIN part} = kept
        /\ \A i, j \in DOMAIN part : i < j => place[i] < place[j]
        /\ \A i \in DOMAIN part : part[i] = seq[place[i]]

=============================================================================
