------------------------------- MODULE Lists --------------------------------
(***************************************************************************)
(* What loops over a list keep of it, as recursive functions over its      *)
(* prefixes.                                                               *)
(***************************************************************************)
EXTENDS Naturals, Sequences

\* The members of seq that are in S, in their order.
Kept(seq, S) ==
  LET kept[k \in 0..Len(seq)] ==
        IF k = 0 THEN <<>>
        ELSE IF seq[k] \in S THEN Append(kept[k - 1], seq[k]) ELSE kept[k - 1]
  IN  kept[Len(seq)]

\* The members of seq, each where it is first.
FirstOnly(seq) ==
  LET first[k \in 0..Len(seq)] ==
        IF k = 0 THEN <<>>
        ELSE IF \E j \in 1..(k - 1) : seq[j] = seq[k] THEN first[k - 1]
             ELSE Append(first[k - 1], seq[k])
  IN  first[Len(seq)]
=============================================================================
