--------------------------- MODULE ProvisionTask ----------------------------
(***************************************************************************)
(* worker/tasks.py provision_environment with docker_manager.provision,    *)
(* run by worker w: one action per database transaction and per resource.  *)
(***************************************************************************)
EXTENDS Worker

(* The row is read.  When the creating request has not committed yet there *)
(* is no row: a ValueError.                                                *)
ProvisionLoad(w) ==
  /\ pc[w] = "begin"
  /\ Goto(w, IF Exists(job[w].env) THEN "open" ELSE "reject")
  /\ same' = [same EXCEPT ![w] = status[job[w].env] = "provisioning"]
  /\ UNCHANGED <<job, buildVars, ids, batch, queue, tableVars, dockerVars>>

(* PROVISIONING is committed, whatever the status was.                     *)
ProvisionOpen(w) ==
  /\ pc[w] = "open"
  /\ Goto(w, "build")
  /\ IF same[w] THEN TouchStatus(job[w].env)
                ELSE SetStatus({job[w].env}, "provisioning")
  /\ same' = [same EXCEPT ![w] = FALSE]
  /\ UNCHANGED <<job, buildVars, ids, batch, queue, stack, dockerVars>>

-----------------------------------------------------------------------------
(* An unknown template is refused before anything is created.              *)
ProvisionReject(w) ==
  /\ pc[w] = "build"
  /\ template[job[w].env] = "unlisted"
  /\ Goto(w, "reject")
  /\ ClearBuild(w)
  /\ UNCHANGED <<job, same, ids, batch, queue, tableVars, dockerVars>>

(* The next part of the stack is created: first the network, then each     *)
(* container, which joins the network by name and must come up.  A         *)
(* container that does not start or never becomes ready is left behind.    *)
BuildNext(w) ==
  LET e == job[w].env
      g == IF next[w] = 0 THEN minted[e] + 1 ELSE gen[w]
  IN /\ pc[w] = "build"
     /\ template[e] = "listed"
     /\ next[w] \in Part
     /\ CreatePart(e, next[w], g)
     /\ \/ /\ next[w] > 0 => ~NameFree(e, 0)
           /\ gen' = [gen EXCEPT ![w] = g]
           /\ next' = [next EXCEPT ![w] = @ + 1]
           /\ UNCHANGED <<pc, runAge>>
        \/ /\ next[w] > 0
           /\ Goto(w, "fail")
           /\ ClearBuild(w)
     /\ UNCHANGED <<job, same, ids, batch, queue, tableVars>>

(* Anything else goes wrong on the way: a database call fails, a name is   *)
(* taken, an image is missing, no port is bound.                           *)
ProvisionRaise(w) ==
  /\ \/ pc[w] \in {"begin", "open"}
     \/ pc[w] = "build" /\ template[job[w].env] = "listed"
  /\ Goto(w, "fail")
  /\ same' = [same EXCEPT ![w] = FALSE]
  /\ ClearBuild(w)
  /\ UNCHANGED <<job, ids, batch, queue, tableVars, dockerVars>>

(* RUNNING is committed together with the ids of the stack just built.     *)
ProvisionCommit(w) ==
  /\ pc[w] = "build"
  /\ next[w] = NRoles + 1
  /\ Goto(w, "ack")
  /\ SetStatus({job[w].env}, "running")
  /\ stack' = [stack EXCEPT ![job[w].env] = gen[w]]
  /\ ClearBuild(w)
  /\ UNCHANGED <<job, same, ids, batch, queue, dockerVars>>

-----------------------------------------------------------------------------
(* The except block: FAILED is committed if it can be, then the task asks  *)
(* for a retry unless the error was a ValueError or the budget is used up. *)
ProvisionFail(w) ==
  /\ pc[w] \in {"fail", "reject"}
  /\ MarkFailed(job[w].env)
  /\ Goto(w, IF pc[w] = "fail" /\ ~Exhausted(job[w]) THEN "retry" ELSE "ack")
  /\ same' = [same EXCEPT ![w] = FALSE]
  /\ UNCHANGED <<job, buildVars, ids, batch, queue, dockerVars>>

(* A retry after which the except block runs again.                        *)
ProvisionRetry_Again(w) ==
  /\ pc[w] = "retry"
  /\ PublishRetry(job[w])
  /\ Goto(w, "fail")
  /\ UNCHANGED <<job, same, buildVars, ids, batch, tableVars, dockerVars>>
(* self.retry publishes the next attempt, or rejects the message when the  *)
(* broker cannot be reached.  This one is not acknowledged yet.            *)
ProvisionRetry(w) ==
  /\ pc[w] = "retry"
  /\ PublishRetry(job[w]) \/ UNCHANGED queue
  /\ Goto(w, "ack")
  /\ UNCHANGED <<job, same, buildVars, ids, batch, tableVars, dockerVars>>

ProvisionStep(w) ==
  \/ ProvisionLoad(w) \/ ProvisionOpen(w)
  \/ ProvisionReject(w) \/ BuildNext(w) \/ ProvisionRaise(w)
  \/ ProvisionCommit(w)
  \/ ProvisionFail(w) \/ ProvisionRetry(w)
=============================================================================
