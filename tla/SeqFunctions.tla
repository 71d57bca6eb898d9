---------------------------- MODULE SeqFunctions ----------------------------
(***************************************************************************)
(* What is computed along a sequence, as recursive functions of a          *)
(* position, which the proofs can unfold.                                  *)
(***************************************************************************)
EXTENDS Integers, Sequences

\* The elements of q at the positions in D, in order.
Picked(q, D) ==
  LET picked[n \in 0 .. Len(q)] ==
        IF n = 0 THEN <<>>
        ELSE IF n \in D THEN Append(picked[n - 1], q[n]) ELSE picked[n - 1]
  IN  picked[Len(q)]

\* The lines of q, in order, but for those of the given kinds.
Without(q, kinds) == Picked(q, {i \in DOMAIN q : q[i][1] \notin kinds})

\* From b, step by step through q; step is a function of what there is so far
\* and of the next element.
Fold(step, b, q) ==
  LET acc[n \in 0 .. Len(q)] ==
        IF n = 0 THEN b ELSE step[<<acc[n - 1], q[n]>>]
  IN  acc[Len(q)]

\* The sequences over S that g makes of the elements of q, one after the other.
FlatMap(S, g, q) ==
  Fold([p \in Seq(S) \X DOMAIN g |-> p[1] \o g[p[2]]], <<>>, q)

=============================================================================
