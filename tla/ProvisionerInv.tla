--------------------------- MODULE ProvisionerInv ---------------------------
(***************************************************************************)
(* The inductive invariant behind the safety properties of Provisioner.    *)
(* Its idea: a stack number has at most one owner, a builder or the table, *)
(* and an id that somebody is about to remove has none.                    *)
(***************************************************************************)
EXTENDS Provisioner

(* The grace period outlasts every build.                                  *)
GraceOutlastsBuild == BuildBound < Grace

(* Locals have their initial value outside the task they belong to.        *)
LocalsClean ==
  \A w \in Worker :
    /\ pc[w] # "build" => gen[w] = 0 /\ next[w] = 0 /\ runAge[w] = 0
    /\ pc[w] = "build" => (gen[w] = 0 <=> next[w] = 0)

(* A worker holds ids of its own environment only, or of a sweep.          *)
IdsScoped ==
  \A w \in Worker : \A id \in ids[w] :
    \/ pc[w] \in {"claim", "remove"} /\ id.env = job[w].env
    \/ pc[w] \in {"orphans", "sweep"}

(* No stack number beyond the last one given out is in use anywhere.       *)
NumbersGiven ==
  /\ \A e \in Env : stack[e] <= minted[e] /\ \A p \in Part : holder[e][p] <= minted[e]
  /\ \A w \in Worker, e \in Env : Building(w, e) => gen[w] <= minted[e]
  /\ \A w \in Worker : \A id \in ids[w] : id.stack <= minted[id.env]

(* The stack a worker builds is unknown to the table, to every other       *)
(* builder and to everybody who removes.                                   *)
SoleBuilder ==
  \A w \in Worker, e \in Env :
    Building(w, e) /\ gen[w] # 0 =>
      /\ stack[e] # gen[w]
      /\ \A v \in Worker : Building(v, e) /\ gen[v] = gen[w] => v = w
      /\ \A v \in Worker : \A id \in ids[v] : id.env = e => id.stack # gen[w]

(* Exactly the parts a builder has created bear its number.                *)
BuildFrontier ==
  \A w \in Worker, e \in Env, p \in Part :
    Building(w, e) /\ gen[w] # 0 => (holder[e][p] = gen[w] <=> p < next[w])

(* They are no older than the build, and the build is within its bound.    *)
BuildYoung ==
  \A w \in Worker, e \in Env :
    Building(w, e) =>
      /\ runAge[w] <= BuildBound
      /\ \A p \in Part : p < next[w] => age[e][p] <= runAge[w]

(* The ids a worker is committed to removing: a teardown after its claim,  *)
(* or before it when the row was STOPPING already, and a sweep for the     *)
(* environment it found orphaned.                                          *)
Doomed(w) ==
  {id \in ids[w] : \/ pc[w] = "remove"
                   \/ pc[w] = "claim" /\ same[w]
                   \/ pc[w] = "sweep" /\ id.env \in batch[w]}

(* No RUNNING row names a stack with a doomed id.                          *)
DoomedUnserved ==
  \A w \in Worker : \A id \in Doomed(w) :
    status[id.env] = "running" => stack[id.env] # id.stack

OwnershipInv ==
  /\ LocalsClean /\ IdsScoped /\ NumbersGiven /\ SoleBuilder
  /\ BuildFrontier /\ BuildYoung /\ DoomedUnserved
  /\ RunningStackIntact

-----------------------------------------------------------------------------
(* A PROVISIONING row with a live builder has been touched since the       *)
(* builder began, whoever else has written to it meanwhile.                *)
ClockInv ==
  \A w \in Worker :
    /\ pc[w] # "build" => runAge[w] = 0
    /\ runAge[w] <= BuildBound
    /\ \A e \in Env :
         Building(w, e) /\ status[e] = "provisioning" => since[e] <= runAge[w]

-----------------------------------------------------------------------------
(* Before its POST there is no provision message of an environment.        *)
Unasked(e) ==
  template[e] = "none" =>
    /\ \A m \in Calls(e) : queue[m] = 0
    /\ \A w \in Worker : job[w] \notin Calls(e)

ChainInv ==
  \A e \in Env :
    /\ Unasked(e)
    /\ IsFiniteSet(Copies(queue, Calls(e))) /\ IsFiniteSet(Attempting(e))
    /\ Attempts(e) <= 1 + crashes

(* An environment that has served was asked for, and the attempt that      *)
(* committed RUNNING is not counted any more.                              *)
SettledInv ==
  /\ \A e \in Env : HasServed(e) => template[e] # "none"
  /\ RunningIsSettled

-----------------------------------------------------------------------------
(* A teardown sent, under way or promised by a reaper's commit; and the    *)
(* reapers that have selected the row and not claimed it yet, of which     *)
(* there can be as many as workers, but only while the row is RUNNING.     *)
Claiming(e) == {w \in Worker : pc[w] = "claimExpired" /\ e \in batch[w]}
Hands(e)    == TearingDown(e) \cup {w \in Worker : pc[w] = "send" /\ e \in batch[w]}
Owed(e)     == Total(queue, TeardownsOf(e)) + Cardinality(Hands(e))

TeardownInv ==
  \A e \in Env :
    /\ IsFiniteSet(Copies(queue, TeardownsOf(e)))
    /\ Owed(e) + Cardinality(Claiming(e))
         <= deletes + crashes + Cardinality(Worker) * stack[e]
    /\ status[e] = "running" =>
         Owed(e) <= deletes + crashes + Cardinality(Worker) * (stack[e] - 1)
=============================================================================
