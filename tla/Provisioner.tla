----------------------------- MODULE Provisioner ----------------------------
(***************************************************************************)
(* The whole service: the API, the queue, the workers with their tasks and *)
(* sweeps, the environments table and the Docker host.                     *)
(***************************************************************************)
EXTENDS Tally, Api, ProvisionTask, TeardownTask, Sweeps

CONSTANTS
  BuildBound,   (* longest docker_manager.provision may take              *)
  MaxCrashes    (* processes killed; bounds the model                     *)

ASSUME ProvisionerAssumption == BuildBound \in Nat /\ MaxCrashes \in Nat
ASSUME PoolAssumption == IsFiniteSet(Worker)

VARIABLE crashes

vars == <<tableVars, dockerVars, queue, apiVars, workerVars, crashes>>

TypeOK ==
  /\ TableTypeOK /\ DockerTypeOK /\ QueueTypeOK /\ ApiTypeOK /\ WorkerTypeOK
  /\ crashes \in Nat

Init ==
  /\ TableInit /\ DockerInit /\ QueueInit /\ ApiInit /\ WorkerInit
  /\ crashes = 0

(* An action of the API leaves the workers and the host alone; a step of a *)
(* worker leaves the API alone.                                            *)
Request(e) ==
  /\ CreateEnqueue(e) \/ CreateCommit(e) \/ CreateAbort(e) \/ Delete(e)
  /\ UNCHANGED <<dockerVars, workerVars, crashes>>

Take(w)   == (\E m \in Msg : Deliver(w, m)) /\ UNCHANGED <<apiVars, crashes>>
Launch(w) == StartSweep(w) /\ UNCHANGED <<apiVars, crashes>>

(* A worker goes on with the task it runs.                                 *)
Work(w) ==
  /\ ProvisionStep(w) \/ TeardownStep(w) \/ SweepStep(w) \/ Ack(w)
  /\ UNCHANGED <<apiVars, crashes>>

Crash(w) ==
  /\ crashes < MaxCrashes
  /\ crashes' = crashes + 1
  /\ Die(w)
  /\ UNCHANGED apiVars

(* Time passes for every stored timestamp, and for the workers that build. *)
(* No build outlasts BuildBound.                                           *)
Tick ==
  /\ \A w \in Worker : pc[w] = "build" => runAge[w] < BuildBound
  /\ AgeRows
  /\ AgeResources
  /\ runAge' = [w \in Worker |->
                  IF pc[w] = "build" THEN runAge[w] + 1 ELSE runAge[w]]
  /\ UNCHANGED <<queue, apiVars, pc, job, same, gen, next, ids, batch, crashes>>

Next ==
  \/ \E e \in Env : Request(e)
  \/ \E w \in Worker : Take(w) \/ Launch(w) \/ Work(w) \/ Crash(w)
  \/ Tick

Spec == Init /\ [][Next]_vars

(* Time passes, a worker that is alive goes on with its task, a waiting    *)
(* message is eventually taken, and beat keeps sending the three sweeps,   *)
(* so each finds a free worker again and again.                            *)
Fairness ==
  /\ WF_vars(Tick)
  /\ \A w \in Worker : WF_vars(Work(w))
  /\ SF_vars(\E w \in Worker : Take(w))
  /\ SF_vars(\E w \in Worker : Launch(w) /\ StartReap(w))
  /\ SF_vars(\E w \in Worker : Launch(w) /\ StartRecover(w))
  /\ SF_vars(\E w \in Worker : Launch(w) /\ StartReconcile(w))

FairSpec == Spec /\ Fairness

-----------------------------------------------------------------------------
(* Correctness of the stacks while their workers are alive.                *)

(* A stack under construction is not touched: every part its worker has    *)
(* created is still there.  compose.py find_labelled and reconcile_orphans *)
(* rely on the grace period for this.                                      *)
BuilderUndisturbed ==
  \A w \in Worker, e \in Env :
    Building(w, e) => \A p \in Part : p < next[w] => holder[e][p] = gen[w]

(* A RUNNING row names a stack, and all of that stack exists: no teardown, *)
(* sweep, retry or redelivery removes a stack the table says is serving.   *)
RunningStackIntact ==
  \A e \in Env : status[e] = "running" =>
    stack[e] # 0 /\ \A p \in Part : holder[e][p] = stack[e]

(* A container joins the network of its own attempt, although it names it  *)
(* by its name: no sweep and no other attempt puts another network in its  *)
(* place while the stack is being built.  Afterwards it may: a network can *)
(* be removed before a container that has exited, and the next attempt     *)
(* then has a network of its own beside the old container.                 *)
JoinsOwnNetwork ==
  [][\A e \in Env, p \in Part \ {0} :
       holder'[e][p] \notin {0, holder[e][p]}
         => holder'[e][0] = holder'[e][p]]_vars

(* At most one worker has resources of an environment under construction.  *)
OneBuilderPerEnv ==
  \A e \in Env, v, w \in Worker :
    Building(v, e) /\ Building(w, e) /\ next[v] > 0 /\ next[w] > 0 => v = w

(* While a worker builds for it, a PROVISIONING row is not one that        *)
(* recover_stale_transitions would select.  What becomes of a row between  *)
(* its selection and the commit of the sweep is not said here.             *)
StaleMeansDead ==
  \A e \in Env, w \in Worker :
    status[e] = "provisioning" /\ since[e] >= ProvisioningTimeout
      => ~Building(w, e)

(* Attempts at provisioning e that wait in the queue or are under way.     *)
Calls(e) == {m \in ProvisionMsg : m.env = e}
Attempting(e) == {w \in Worker : pc[w] \in ProvisionLabels /\ job[w].env = e}
Attempts(e) == Total(queue, Calls(e)) + Cardinality(Attempting(e))

(* Retries do not multiply: an environment has one chain of attempts, and  *)
(* only a worker killed between publishing a retry and acknowledging its   *)
(* own message can start another.                                          *)
OneAttemptChain == \A e \in Env : Attempts(e) <= 1 + crashes

(* An environment that is or has been RUNNING is settled: the attempt that *)
(* succeeded was the last of its chain, and whatever attempt is still to   *)
(* come or under way was brought about by a kill.  A late DELETE or sweep  *)
(* therefore never meets a second life of it that no kill has started.     *)
HasServed(e) == status[e] = "running" \/ stack[e] # 0

RunningIsSettled == \A e \in Env : HasServed(e) => Attempts(e) <= crashes

(* Teardowns of e that wait in the queue, are under way, or are still to   *)
(* be sent by a reaper that selected the row.                              *)
TeardownsOf(e) == {m \in TeardownMsg : m.env = e}
TearingDown(e) == {w \in Worker : pc[w] \in TeardownLabels /\ job[w].env = e}
Reaping(e) ==
  {w \in Worker : pc[w] \in {"claimExpired", "send"} /\ e \in batch[w]}

(* Teardowns do not pile up.  The claim does not keep a second reaper from *)
(* enqueueing a teardown, as the docstring of reap_expired_environments    *)
(* says: reapers that select a row before one of them has claimed it all   *)
(* send one.  So each time the environment serves may end with one for     *)
(* each worker, but with no more: beyond these there are the DELETEs and   *)
(* the messages that kills gave back.                                      *)
TeardownsBounded ==
  \A e \in Env :
    Total(queue, TeardownsOf(e)) + Cardinality(TearingDown(e) \cup Reaping(e))
      <= deletes + crashes + Cardinality(Worker) * stack[e]

(* A row becomes RUNNING only with the newest stack of its environment,    *)
(* one it has not named before, and the ids of a RUNNING row never change: *)
(* a late or repeated attempt neither puts an old stack back into service  *)
(* nor makes the row forget one that serves.                               *)
ServesNewest ==
  [][\A e \in Env :
       \/ stack'[e] # stack[e]
       \/ status[e] # "running" /\ status'[e] = "running"
       => /\ status[e] # "running" /\ status'[e] = "running"
          /\ stack[e] < stack'[e] /\ stack'[e] = minted[e]]_vars

(* Nothing is leaked and nothing gets stuck: every environment ends in a   *)
(* terminal status, or never got a row, with no resource left on the host. *)
(* The workers' failures, kills and lost messages are all made good by the *)
(* three sweeps together.                                                  *)
EventuallyReclaimed ==
  \A e \in Env :
    <>[](Orphaned(e) /\ \A p \in Part : holder[e][p] = 0)

-----------------------------------------------------------------------------
(* Where the promises of StackOwnership are kept: a worker's locals own    *)
(* the stack it builds, a RUNNING row owns the stack it names.             *)
BeingBuilt == {<<job[w].env, gen[w]>> : w \in {v \in Worker : gen[v] # 0}}
Serving    == {<<e, stack[e]>> : e \in {r \in Env : status[r] = "running"}}
OnHost     == {<<<<x[1], holder[x[1]][x[2]]>>, x[2]>> :
                 x \in {y \in Env \X Part : holder[y[1]][y[2]] # 0}}

Ownership == INSTANCE StackOwnership WITH
  begun <- minted, building <- BeingBuilt, serving <- Serving, present <- OnHost

(* Tasks, retries, sweeps and failures together only ever build, serve,    *)
(* give up and remove stacks in that order: whoever removes a resource,    *)
(* neither a live worker nor a RUNNING row owns it.                        *)
ImplementsOwnership == Ownership!Spec
=============================================================================
