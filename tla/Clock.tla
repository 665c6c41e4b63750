------------------------------- MODULE Clock --------------------------------
(***************************************************************************)
(* Environment ids and time.                                               *)
(*                                                                         *)
(* The code compares a stored timestamp only with "now minus a timeout",   *)
(* so a timestamp is kept as its age, and ages saturate at AgeCap, which   *)
(* no timeout exceeds.                                                     *)
(***************************************************************************)
EXTENDS Naturals

CONSTANTS
  Env,      (* ids of environments                                        *)
  AgeCap    (* where ages saturate                                        *)

ASSUME ClockAssumption == AgeCap \in Nat

Age == 0..AgeCap

Older(n) == IF n < AgeCap THEN n + 1 ELSE n
=============================================================================
