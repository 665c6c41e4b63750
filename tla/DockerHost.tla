----------------------------- MODULE DockerHost -----------------------------
(***************************************************************************)
(* The Docker daemon, as docker_manager/compose.py uses it.                *)
(*                                                                         *)
(* One provision attempt builds one stack: part 0 is the network           *)
(* env-<id>, part p >= 1 is the p-th container in the order provision()    *)
(* starts the template's roles.  Resource names are derived from the       *)
(* environment id and the role, and the daemon keeps names unique, so at   *)
(* most one resource per environment and part exists: containers always,   *)
(* networks from Docker Engine 25 on (networks.create is called without    *)
(* check_duplicate).  Resource ids are never reused: a resource is         *)
(* identified by its environment, its part and the number of the stack it  *)
(* was created for.                                                        *)
(***************************************************************************)
EXTENDS Clock

CONSTANTS
  NRoles,     (* containers in the template                               *)
  Grace,      (* settings.orphan_grace_seconds                            *)
  MaxFaults   (* removals and sweeps that may fail; bounds the model       *)

ASSUME DockerAssumption ==
  /\ NRoles \in Nat
  /\ Grace \in 1..AgeCap
  /\ MaxFaults \in Nat

VARIABLES
  holder,   (* holder[e][p]: stack whose resource has that name, 0: none  *)
  age,      (* age[e][p]: time since that resource was created            *)
  minted,   (* minted[e]: stacks begun for e, the source of fresh ids     *)
  faults    (* removals and sweeps failed so far                           *)

dockerVars == <<holder, age, minted, faults>>

Part == 0..NRoles
Id   == [env : Env, part : Part, stack : Nat \ {0}]

DockerTypeOK ==
  /\ holder \in [Env -> [Part -> Nat]]
  /\ age \in [Env -> [Part -> Age]]
  /\ minted \in [Env -> Nat]
  /\ faults \in Nat

DockerInit ==
  /\ holder = [e \in Env |-> [p \in Part |-> 0]]
  /\ age = [e \in Env |-> [p \in Part |-> 0]]
  /\ minted = [e \in Env |-> 0]
  /\ faults = 0

NameFree(e, p) == holder[e][p] = 0

-----------------------------------------------------------------------------
(* networks.create or containers.run leaves a new resource on the host.    *)
CreatePart(e, p, g) ==
  /\ NameFree(e, p)
  /\ holder' = [holder EXCEPT ![e][p] = g]
  /\ age' = [age EXCEPT ![e][p] = 0]
  /\ minted' = [minted EXCEPT ![e] = IF p = 0 THEN g ELSE @]
  /\ UNCHANGED faults

(* Every id of one stack, as network_id and container_ids record it.       *)
StackIds(e, g) == {[env |-> e, part |-> p, stack |-> g] : p \in Part}

Present(id) == holder[id.env][id.part] = id.stack

(* Only a running container keeps its network from being removed.  Whether *)
(* a container runs is not known here: each may have failed to start, been *)
(* stopped or exited at any time.  One that is there may be running.       *)
MayBeInUse(id) ==
  /\ id.part = 0
  /\ \E p \in Part \ {0} : holder[id.env][p] = id.stack

CallFails ==
  /\ faults < MaxFaults
  /\ faults' = faults + 1
  /\ UNCHANGED <<holder, age, minted>>

(* Removal that looks the resource up by its name instead of its id.       *)
RemovePart_ByName(id) ==
  /\ holder' = [holder EXCEPT ![id.env][id.part] = 0]
  /\ age' = [age EXCEPT ![id.env][id.part] = 0]
  /\ UNCHANGED <<minted, faults>>
(* Removal of one id.  Anything already gone is a no-op, and so is any     *)
(* other error of the daemon, its refusal to remove a network in use among *)
(* them: it is logged and swallowed.                                       *)
RemovePart(id) ==
  \/ /\ Present(id)
     /\ holder' = [holder EXCEPT ![id.env][id.part] = 0]
     /\ age' = [age EXCEPT ![id.env][id.part] = 0]
     /\ UNCHANGED <<minted, faults>>
  \/ /\ ~Present(id) \/ MayBeInUse(id)
     /\ UNCHANGED dockerVars
  \/ /\ Present(id)
     /\ CallFails

(* Every resource there is: a find_labelled without its cutoff.            *)
FindLabelled_NoGrace ==
  {[env |-> x[1], part |-> x[2], stack |-> holder[x[1]][x[2]]] :
     x \in {y \in Env \X Part : holder[y[1]][y[2]] # 0}}
(* find_labelled: ids of labelled resources no younger than the grace      *)
(* period.                                                                 *)
FindLabelled ==
  {[env |-> x[1], part |-> x[2], stack |-> holder[x[1]][x[2]]] :
     x \in {y \in Env \X Part : /\ holder[y[1]][y[2]] # 0
                               /\ age[y[1]][y[2]] >= Grace}}

AgeResources ==
  /\ age' = [e \in Env |-> [p \in Part |->
               IF holder[e][p] # 0 THEN Older(age[e][p]) ELSE age[e][p]]]
  /\ UNCHANGED <<holder, minted, faults>>
=============================================================================
