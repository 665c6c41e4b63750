------------------------------- MODULE Tally --------------------------------
(***************************************************************************)
(* How many there are in all, when f[x] says how many of each x.           *)
(***************************************************************************)
EXTENDS Naturals, FiniteSets

Copies(f, S) == UNION {{x} \X (1..f[x]) : x \in S}

Total(f, S) == Cardinality(Copies(f, S))
=============================================================================
