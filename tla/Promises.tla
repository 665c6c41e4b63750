------------------------------ MODULE Promises ------------------------------
(***************************************************************************)
(* Statements that the repository's comments, docstrings and tests make    *)
(* about the service, and that its code does not keep.  Each is checked by *)
(* a run of its own, which ends in a behaviour that breaks it.             *)
(***************************************************************************)
EXTENDS Provisioner

(* db/models.py:14, PENDING "Job enqueued, not started": a PENDING row has *)
(* a provision task waiting for it or in a worker's hands.  Broken when a  *)
(* worker takes the task before the request that sent it has committed.    *)
PendingHasJob ==
  \A e \in Env : status[e] = "pending" =>
    \/ \E m \in ProvisionMsg : m.env = e /\ queue[m] > 0
    \/ \E w \in Worker : job[w] \in ProvisionMsg /\ job[w].env = e

(* db/models.py:18, STOPPED "Cleanly torn down": nothing of a STOPPED      *)
(* environment is on the host.  Broken by a DELETE while the stack is      *)
(* being built: the row does not name the stack yet.                       *)
StoppedIsClean ==
  \A e \in Env : status[e] = "stopped" => \A p \in Part : NameFree(e, p)

(* tests/test_metrics.py:290, "Provisioning twice must be a no-op against  *)
(* Docker and the database": a task delivered again leaves a RUNNING row   *)
(* alone.  Broken by a worker killed after its commit: the second delivery *)
(* sets the row back to PROVISIONING.                                      *)
RunningNotReprovisioned ==
  [][\A e \in Env : status[e] = "running" => status'[e] # "provisioning"]_vars
=============================================================================
