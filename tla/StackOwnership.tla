--------------------------- MODULE StackOwnership ---------------------------
(***************************************************************************)
(* What the service promises about Docker resources, without the queue,    *)
(* the workers, the table or time.  A stack is built part by part, may     *)
(* come to serve once it is complete, and is given up for good; only a     *)
(* stack that was given up loses parts.                                    *)
(***************************************************************************)
EXTENDS Naturals

CONSTANTS Env, NRoles

VARIABLES
  begun,      (* begun[e]: number of stacks ever begun for e              *)
  building,   (* <<environment, number>> of the stacks being built        *)
  serving,    (* those a RUNNING row names                                *)
  present     (* <<stack, part>> of every resource on the host            *)

vars == <<begun, building, serving, present>>

Stack == Env \X (Nat \ {0})
Part  == 0..NRoles

TypeOK ==
  /\ begun \in [Env -> Nat]
  /\ building \subseteq Stack
  /\ serving \subseteq Stack
  /\ present \subseteq Stack \X Part

Init ==
  /\ begun = [e \in Env |-> 0]
  /\ building = {} /\ serving = {} /\ present = {}

(* A new stack starts with its network, when nothing has that name.        *)
Begin(e) ==
  LET s == <<e, begun[e] + 1>>
  IN /\ \A r \in present : ~(r[1][1] = e /\ r[2] = 0)
     /\ begun' = [begun EXCEPT ![e] = @ + 1]
     /\ building' = building \cup {s}
     /\ present' = present \cup {<<s, 0>>}
     /\ UNCHANGED serving

(* A container joins its own network; the attempt may end with it.         *)
Extend(s, p) ==
  /\ s \in building
  /\ <<s, 0>> \in present
  /\ present' = present \cup {<<s, p>>}
  /\ building' \in {building, building \ {s}}
  /\ UNCHANGED <<begun, serving>>

(* A complete stack serves, the only one of its environment.               *)
Serve(s) ==
  /\ s \in building
  /\ \A p \in Part : <<s, p>> \in present
  /\ \A t \in serving : t[1] # s[1]
  /\ building' = building \ {s}
  /\ serving' = serving \cup {s}
  /\ UNCHANGED <<begun, present>>

GiveUp(S) ==
  /\ building' = building \ S
  /\ serving' = serving \ S
  /\ UNCHANGED <<begun, present>>

(* Only what was given up is removed.                                      *)
Remove(r) ==
  /\ r[1] \notin building \cup serving
  /\ present' = present \ {r}
  /\ UNCHANGED <<begun, building, serving>>

Next ==
  \/ \E e \in Env : Begin(e)
  \/ \E s \in building : Serve(s) \/ \E p \in Part \ {0} : Extend(s, p)
  \/ \E S \in SUBSET (building \cup serving) : GiveUp(S)
  \/ \E r \in present : Remove(r)

Spec == Init /\ [][Next]_vars

-----------------------------------------------------------------------------
(* What the specification promises about the stacks themselves.            *)
Owned == building \cup serving

(* A stack that serves is complete, the only one of its environment that   *)
(* has an owner.                                                           *)
ServesWhole ==
  \A s \in serving :
    /\ \A p \in Part : <<s, p>> \in present
    /\ \A t \in Owned : t[1] = s[1] => t = s

(* Only the last stack begun can be under construction, from its network   *)
(* on, and never one that serves.                                          *)
BuildsNewest ==
  \A s \in building :
    /\ s[2] = begun[s[1]]
    /\ <<s, 0>> \in present
    /\ s \notin serving

(* Giving up is final: a stack that was begun and has no owner never gets  *)
(* one again, so whatever was found ownerless may be removed at any time.  *)
GivenUpForGood ==
  [][\A e \in Env : \A n \in 1..begun[e] :
       <<e, n>> \notin Owned => <<e, n>> \notin Owned']_vars
=============================================================================
