--------------------------- MODULE MCCreateGuards ---------------------------
(* Four requests of one owner and one of another, for TLC.                 *)
EXTENDS CreateGuards

CONSTANTS a1, a2, a3, a4, b1, alice, bob, x, y

Requests == {a1, a2, a3, a4, b1}
Owners   == {alice, bob}
Names    == {x, y}
Sender   == [r \in Requests |-> IF r = b1 THEN bob ELSE alice]
=============================================================================
