---------------------------- MODULE TeardownTask ----------------------------
(***************************************************************************)
(* worker/tasks.py teardown_environment with docker_manager.teardown, run  *)
(* by worker w.                                                            *)
(***************************************************************************)
EXTENDS Worker

(* The row is read, with the ids it records.  Every teardown message is    *)
(* sent for a committed row, and rows are never deleted, so it is there.   *)
TeardownLoad(w) ==
  LET e == job[w].env
  IN /\ pc[w] = "load"
     /\ Goto(w, "claim")
     /\ same' = [same EXCEPT ![w] = status[e] = "stopping"]
     /\ ids' = [ids EXCEPT ![w] =
                  IF stack[e] = 0 THEN {} ELSE StackIds(e, stack[e])]
     /\ UNCHANGED <<job, buildVars, batch, queue, tableVars, dockerVars>>

(* STOPPING is committed, whatever the status has become since the read.   *)
TeardownClaim(w) ==
  /\ pc[w] = "claim"
  /\ Goto(w, "remove")
  /\ IF same[w] THEN TouchStatus(job[w].env)
                ELSE SetStatus({job[w].env}, "stopping")
  /\ same' = [same EXCEPT ![w] = FALSE]
  /\ UNCHANGED <<job, buildVars, ids, batch, queue, stack, dockerVars>>

(* Ids read off the row again after the claim (expire_on_commit left on).  *)
TeardownRemove_Reread(w) ==
  /\ pc[w] = "remove"
  /\ \E id \in ids[w] :
       /\ id.part = 0 => ids[w] = {id}
       /\ RemovePart([id EXCEPT !.stack = stack[job[w].env]])
       /\ ids' = [ids EXCEPT ![w] = @ \ {id}]
  /\ UNCHANGED <<pc, job, same, buildVars, batch, queue, tableVars>>
(* remove_resources: containers before the network, errors swallowed.      *)
TeardownRemove(w) ==
  /\ pc[w] = "remove"
  /\ \E id \in ids[w] :
       /\ id.part = 0 => ids[w] = {id}
       /\ RemovePart(id)
       /\ ids' = [ids EXCEPT ![w] = @ \ {id}]
  /\ UNCHANGED <<pc, job, same, buildVars, batch, queue, tableVars>>

(* STOPPED is committed once every id has been tried.                      *)
TeardownDone(w) ==
  /\ pc[w] = "remove"
  /\ ids[w] = {}
  /\ Goto(w, "ack")
  /\ SetStatus({job[w].env}, "stopped")
  /\ UNCHANGED <<job, same, buildVars, ids, batch, queue, stack, dockerVars>>

-----------------------------------------------------------------------------
(* A database call fails; the daemon's errors never get this far.          *)
TeardownRaise(w) ==
  /\ \/ pc[w] \in {"load", "claim"}
     \/ pc[w] = "remove" /\ ids[w] = {}
  /\ Goto(w, "raise")
  /\ same' = [same EXCEPT ![w] = FALSE]
  /\ ids' = [ids EXCEPT ![w] = {}]
  /\ UNCHANGED <<job, buildVars, batch, queue, tableVars, dockerVars>>

(* The except block: the last attempt marks the row, the others go again.  *)
TeardownHandle(w) ==
  /\ pc[w] = "raise"
  /\ \/ /\ Exhausted(job[w])
        /\ MarkFailed(job[w].env)
        /\ UNCHANGED queue
     \/ /\ ~Exhausted(job[w])
        /\ PublishRetry(job[w]) \/ UNCHANGED queue
        /\ UNCHANGED tableVars
  /\ Goto(w, "ack")
  /\ UNCHANGED <<job, same, buildVars, ids, batch, dockerVars>>

TeardownStep(w) ==
  \/ TeardownLoad(w) \/ TeardownClaim(w) \/ TeardownRemove(w)
  \/ TeardownDone(w) \/ TeardownRaise(w) \/ TeardownHandle(w)
=============================================================================
