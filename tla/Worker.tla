------------------------------- MODULE Worker -------------------------------
(***************************************************************************)
(* The Celery worker processes.  Each runs one task at a time, beside the  *)
(* others.  A task ends at label "ack": its body has returned or raised    *)
(* and, because of task_acks_late, only now is its message acknowledged.   *)
(* The three sweeps are sent by beat and run in a worker like any task.    *)
(***************************************************************************)
EXTENDS EnvTable, DockerHost, Broker

CONSTANTS
  Worker,
  NoJob      (* the job of a worker that runs no queued task              *)

ASSUME WorkerAssumption == NoJob \notin Msg

VARIABLES
  pc,        (* where each worker is in the task it runs                  *)
  job,       (* the message it holds, unacknowledged                      *)
  same,      (* its session loaded the row in the status it will set      *)
  gen,       (* provision: the stack being built, 0 before its network    *)
  next,      (* provision: the part to create next                        *)
  runAge,    (* provision: time spent in docker_manager.provision         *)
  ids,       (* teardown, reconcile: ids still to remove                  *)
  batch      (* sweeps: rows found and not yet dealt with                 *)

buildVars  == <<gen, next, runAge>>
workerVars == <<pc, job, same, buildVars, ids, batch>>

ProvisionLabels == {"begin", "open", "build", "fail", "reject", "retry"}
TeardownLabels  == {"load", "claim", "remove", "raise"}
SweepLabels     == {"claimExpired", "send", "recover", "orphans", "sweep"}
Label == {"idle", "ack"} \cup ProvisionLabels \cup TeardownLabels \cup SweepLabels

WorkerTypeOK ==
  /\ pc \in [Worker -> Label]
  /\ job \in [Worker -> Msg \cup {NoJob}]
  /\ same \in [Worker -> BOOLEAN]
  /\ gen \in [Worker -> Nat]
  /\ next \in [Worker -> 0..NRoles + 1]
  /\ runAge \in [Worker -> Nat]
  /\ ids \in [Worker -> SUBSET Id]
  /\ batch \in [Worker -> SUBSET Env]
  /\ \A w \in Worker :
       /\ pc[w] \in ProvisionLabels => job[w] \in ProvisionMsg
       /\ pc[w] \in TeardownLabels => job[w] \in TeardownMsg
       /\ pc[w] = "ack" => job[w] \in Msg

WorkerInit ==
  /\ pc = [w \in Worker |-> "idle"]
  /\ job = [w \in Worker |-> NoJob]
  /\ same = [w \in Worker |-> FALSE]
  /\ gen = [w \in Worker |-> 0]
  /\ next = [w \in Worker |-> 0]
  /\ runAge = [w \in Worker |-> 0]
  /\ ids = [w \in Worker |-> {}]
  /\ batch = [w \in Worker |-> {}]

Goto(w, label) == pc' = [pc EXCEPT ![w] = label]

(* The worker is inside docker_manager.provision for e.                    *)
Building(w, e) == pc[w] = "build" /\ job[w].env = e

(* A provision attempt starts, or its locals go out of scope.              *)
ClearBuild(w) ==
  /\ gen' = [gen EXCEPT ![w] = 0]
  /\ next' = [next EXCEPT ![w] = 0]
  /\ runAge' = [runAge EXCEPT ![w] = 0]

-----------------------------------------------------------------------------
(* A queue whose messages all reach the provision task.                    *)
Deliver_Misrouted(w, m) ==
  /\ pc[w] = "idle"
  /\ Consume(m)
  /\ Goto(w, "begin")
  /\ job' = [job EXCEPT ![w] = m]
  /\ UNCHANGED <<same, buildVars, ids, batch, tableVars, dockerVars>>
(* A free worker takes any waiting message.                                *)
Deliver(w, m) ==
  /\ pc[w] = "idle"
  /\ Consume(m)
  /\ Goto(w, IF m.task = "provision" THEN "begin" ELSE "load")
  /\ job' = [job EXCEPT ![w] = m]
  /\ UNCHANGED <<same, buildVars, ids, batch, tableVars, dockerVars>>

(* The body is over: the message is acknowledged.                          *)
Ack(w) ==
  /\ pc[w] = "ack"
  /\ Goto(w, "idle")
  /\ job' = [job EXCEPT ![w] = NoJob]
  /\ UNCHANGED <<same, buildVars, ids, batch, queue, tableVars, dockerVars>>

(* The process is killed.  An unacknowledged message is given back to the  *)
(* queue when the whole worker dies, and is lost when only the pool child  *)
(* running it does.  The locals and an open transaction are gone.          *)
Die(w) ==
  /\ pc[w] # "idle"
  /\ Goto(w, "idle")
  /\ job' = [job EXCEPT ![w] = NoJob]
  /\ same' = [same EXCEPT ![w] = FALSE]
  /\ ClearBuild(w)
  /\ ids' = [ids EXCEPT ![w] = {}]
  /\ batch' = [batch EXCEPT ![w] = {}]
  /\ \/ job[w] # NoJob /\ Publish(job[w])
     \/ UNCHANGED queue
  /\ UNCHANGED <<tableVars, dockerVars>>
=============================================================================
