-------------------------------- MODULE Api ---------------------------------
(***************************************************************************)
(* The two routes of api/routes/environment_router.py that change state.   *)
(* The guards of POST that read other rows of the owner are the subject of *)
(* module CreateGuards; here a request that passed them goes on.           *)
(***************************************************************************)
EXTENDS EnvTable, Broker

CONSTANT MaxDeletes   (* accepted DELETE requests; bounds the model       *)

ASSUME ApiAssumption == MaxDeletes \in Nat

VARIABLES
  inserting,   (* environments inserted by a request not yet committed    *)
  deletes      (* DELETE requests accepted so far                         *)

apiVars == <<template, inserting, deletes>>

ApiTypeOK ==
  /\ inserting \in SUBSET Env
  /\ deletes \in Nat

ApiInit == inserting = {} /\ deletes = 0

(* POST, first half: the row is flushed to get its id, and the provision   *)
(* task is enqueued before the transaction is committed.  Any template     *)
(* name is accepted.                                                       *)
CreateEnqueue(e) ==
  /\ template[e] = "none"
  /\ \E t \in {"listed", "unlisted"} : template' = [template EXCEPT ![e] = t]
  /\ inserting' = inserting \cup {e}
  /\ Publish(ProvisionCall(e))
  /\ UNCHANGED <<tableVars, deletes>>

(* POST, second half: the PENDING row becomes visible.                     *)
CreateCommit(e) ==
  /\ e \in inserting
  /\ inserting' = inserting \ {e}
  /\ SetStatus({e}, "pending")
  /\ UNCHANGED <<template, stack, queue, deletes>>

(* The commit fails or the API process is killed: there will be no row.    *)
CreateAbort(e) ==
  /\ e \in inserting
  /\ inserting' = inserting \ {e}
  /\ UNCHANGED <<template, tableVars, queue, deletes>>

(* DELETE enqueues a teardown unless the row is STOPPED or STOPPING.  The  *)
(* status is not changed.                                                  *)
Delete(e) ==
  /\ deletes < MaxDeletes
  /\ Exists(e) /\ status[e] \notin {"stopped", "stopping"}
  /\ Publish(TeardownCall(e))
  /\ deletes' = deletes + 1
  /\ UNCHANGED <<tableVars, template, inserting>>
=============================================================================
