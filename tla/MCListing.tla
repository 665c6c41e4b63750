----------------------------- MODULE MCListing -----------------------------
(* Two principals and up to three rows, for TLC.                           *)
EXTENDS Listing, TLC

CONSTANTS k1, k2, weak, alice, bob, r1, r2, r3

Keys       == {k1, k2, weak}
Principals == {alice, bob}
ThreeRows  == {r1, r2, r3}

RowSymmetry == Permutations(ThreeRows)

Pair(k, p) == [key |-> k, principal |-> p]

(* Empty, blank, one key, two keys, a key exchanged for another, and each  *)
(* way to be malformed.                                                    *)
SomeRaws ==
  {<<>>, <<Blank>>, <<Pair(k1, alice), Pair(k2, bob)>>, <<Pair(k1, bob), Blank>>,
   <<Pair(k1, alice), Pair(k1, bob)>>, <<Pair(weak, alice)>>,
   <<Pair(k2, NoPrincipal)>>}
=============================================================================
