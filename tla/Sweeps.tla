------------------------------- MODULE Sweeps -------------------------------
(***************************************************************************)
(* The periodic sweeps of worker/tasks.py, run by worker w.  A sweep that  *)
(* finds nothing returns at once and is not represented.                   *)
(***************************************************************************)
EXTENDS Worker

(* reap_expired_environments: the rows whose TTL has elapsed are selected, *)
StartReap(w) ==
  /\ pc[w] = "idle"
  /\ Expired # {}
  /\ Goto(w, "claimExpired")
  /\ batch' = [batch EXCEPT ![w] = Expired]
  /\ UNCHANGED <<job, same, buildVars, ids, queue, tableVars, dockerVars>>

(* A reaper that leaves the claim to the teardown task.                    *)
ReapClaim_Not(w) ==
  /\ pc[w] = "claimExpired"
  /\ Goto(w, "send")
  /\ UNCHANGED <<job, same, buildVars, ids, batch, queue, tableVars, dockerVars>>
(* all of them are set to STOPPING in one transaction,                     *)
ReapClaim(w) ==
  /\ pc[w] = "claimExpired"
  /\ Goto(w, "send")
  /\ SetStatus(batch[w], "stopping")
  /\ UNCHANGED <<job, same, buildVars, ids, batch, queue, stack, dockerVars>>

(* and then a teardown is enqueued for each.                               *)
ReapSend(w) ==
  /\ pc[w] = "send"
  /\ \E e \in batch[w] :
       /\ Publish(TeardownCall(e))
       /\ batch' = [batch EXCEPT ![w] = @ \ {e}]
       /\ Goto(w, IF batch[w] = {e} THEN "idle" ELSE "send")
  /\ UNCHANGED <<job, same, buildVars, ids, tableVars, dockerVars>>

-----------------------------------------------------------------------------
(* recover_stale_transitions: the rows that stayed in a transient status   *)
(* for longer than its timeout are selected, then all are set to FAILED.   *)
StartRecover(w) ==
  /\ pc[w] = "idle"
  /\ Stale # {}
  /\ Goto(w, "recover")
  /\ batch' = [batch EXCEPT ![w] = Stale]
  /\ UNCHANGED <<job, same, buildVars, ids, queue, tableVars, dockerVars>>

RecoverCommit(w) ==
  /\ pc[w] = "recover"
  /\ Goto(w, "idle")
  /\ SetStatus(batch[w], "failed")
  /\ batch' = [batch EXCEPT ![w] = {}]
  /\ UNCHANGED <<job, same, buildVars, ids, queue, stack, dockerVars>>

-----------------------------------------------------------------------------
(* reconcile_orphans: the old enough labelled resources are listed.        *)
StartReconcile(w) ==
  /\ pc[w] = "idle"
  /\ FindLabelled # {}
  /\ Goto(w, "orphans")
  /\ ids' = [ids EXCEPT ![w] = FindLabelled]
  /\ UNCHANGED <<job, same, buildVars, batch, queue, tableVars, dockerVars>>

(* For one listed environment after the other its row is read, and its     *)
(* resources are left alone unless the row is missing or terminal.         *)
Orphaned(e) == ~Exists(e) \/ status[e] \in Terminal

OrphanCheck(w) ==
  /\ pc[w] = "orphans"
  /\ \E e \in {id.env : id \in ids[w]} :
       LET others == {id \in ids[w] : id.env # e}
       IN IF Orphaned(e)
            THEN /\ Goto(w, "sweep")
                 /\ batch' = [batch EXCEPT ![w] = {e}]
                 /\ UNCHANGED ids
            ELSE /\ Goto(w, IF others = {} THEN "idle" ELSE "orphans")
                 /\ ids' = [ids EXCEPT ![w] = others]
                 /\ UNCHANGED batch
  /\ UNCHANGED <<job, same, buildVars, queue, tableVars, dockerVars>>

(* One remove_resources for everything the sweep found.                    *)
OrphanRemove_All(w) ==
  /\ pc[w] = "sweep"
  /\ \E id \in ids[w] :
       /\ id.part = 0 => \A other \in ids[w] : other.part = 0
       /\ RemovePart(id)
       /\ ids' = [ids EXCEPT ![w] = @ \ {id}]
       /\ IF ids[w] # {id}
            THEN UNCHANGED <<pc, batch>>
            ELSE Goto(w, "idle") /\ batch' = [batch EXCEPT ![w] = {}]
  /\ UNCHANGED <<job, same, buildVars, queue, tableVars>>
(* remove_resources for that environment: containers before the network.   *)
OrphanRemove(w) ==
  LET doomed == {id \in ids[w] : id.env \in batch[w]}
  IN /\ pc[w] = "sweep"
     /\ \E id \in doomed :
          /\ id.part = 0 => doomed = {id}
          /\ RemovePart(id)
          /\ ids' = [ids EXCEPT ![w] = @ \ {id}]
          /\ IF doomed # {id}
               THEN UNCHANGED <<pc, batch>>
               ELSE /\ Goto(w, IF ids[w] = {id} THEN "idle" ELSE "orphans")
                    /\ batch' = [batch EXCEPT ![w] = {}]
     /\ UNCHANGED <<job, same, buildVars, queue, tableVars>>

(* A call to the database, the broker or the daemon fails and the sweep    *)
(* raises: what it had found is forgotten, what it committed stays.        *)
SweepRaise(w) ==
  /\ pc[w] \in {"claimExpired", "send", "recover", "orphans"}
  /\ CallFails
  /\ Goto(w, "idle")
  /\ ids' = [ids EXCEPT ![w] = {}]
  /\ batch' = [batch EXCEPT ![w] = {}]
  /\ UNCHANGED <<job, same, buildVars, queue, tableVars>>

StartSweep(w) == StartReap(w) \/ StartRecover(w) \/ StartReconcile(w)

SweepStep(w) ==
  \/ ReapClaim(w) \/ ReapSend(w)
  \/ RecoverCommit(w)
  \/ OrphanCheck(w) \/ OrphanRemove(w)
  \/ SweepRaise(w)
=============================================================================
