------------------------------ MODULE EnvTable ------------------------------
(***************************************************************************)
(* The `environments` table of db/models.py, as the API and the worker     *)
(* processes see it: the committed value of each row.                      *)
(*                                                                         *)
(* An age is kept only while some query reads it: status_changed_at while  *)
(* the row is in a status TRANSIENT_TIMEOUTS lists, expires_at while the   *)
(* row is running.                                                         *)
(***************************************************************************)
EXTENDS Clock

CONSTANTS
  PendingTimeout,       (* settings.pending_timeout_seconds               *)
  ProvisioningTimeout,  (* settings.provisioning_timeout_seconds          *)
  StoppingTimeout,      (* settings.stopping_timeout_seconds              *)
  Ttl                   (* the row's ttl_seconds                          *)

ASSUME TableAssumption ==
  {PendingTimeout, ProvisioningTimeout, StoppingTimeout, Ttl}
    \subseteq 1..AgeCap

VARIABLES
  template, (* template[e]: is the template column a key of TEMPLATES;    *)
            (*   "none" until a request inserts e                         *)
  status,   (* status[e]: the status column, "absent" before the commit   *)
  since,    (* since[e]: age of status_changed_at                         *)
  upFor,    (* upFor[e]: time since the running commit set expires_at     *)
  stack     (* stack[e]: the stack named by network_id and container_ids, *)
            (*   0 while they are NULL and []                             *)

(* What the workers write; only POST writes the template.                  *)
tableVars == <<status, since, upFor, stack>>

Template == {"none", "listed", "unlisted"}

(* The statuses of EnvironmentStatus, by what the sweeps do with them.     *)
Transient == {"pending", "provisioning", "stopping"}
Terminal  == {"stopped", "failed"}
Status    == Transient \cup Terminal \cup {"running"}

Exists(e) == status[e] # "absent"

Timeout(s) ==
  CASE s = "pending"      -> PendingTimeout
    [] s = "provisioning" -> ProvisioningTimeout
    [] s = "stopping"     -> StoppingTimeout

TableTypeOK ==
  /\ template \in [Env -> Template]
  /\ status \in [Env -> Status \cup {"absent"}]
  /\ since \in [Env -> Age]
  /\ upFor \in [Env -> Age]
  /\ stack \in [Env -> Nat]

TableInit ==
  /\ template = [e \in Env |-> "none"]
  /\ status = [e \in Env |-> "absent"]
  /\ since = [e \in Env |-> 0]
  /\ upFor = [e \in Env |-> 0]
  /\ stack = [e \in Env |-> 0]

-----------------------------------------------------------------------------
(* One commit that calls set_status on every row of rows.                  *)
SetStatus(rows, new) ==
  /\ status' = [e \in Env |-> IF e \in rows THEN new ELSE status[e]]
  /\ since' = [e \in Env |-> IF e \in rows THEN 0 ELSE since[e]]
  /\ upFor' = [e \in Env |-> IF e \in rows THEN 0 ELSE upFor[e]]

(* A status_changed_at that moves only when the status does.               *)
TouchStatus_Unstamped(e) == UNCHANGED <<status, since, upFor>>
(* set_status with the value the session already holds: SQLAlchemy leaves  *)
(* an unchanged column out of the UPDATE, so only status_changed_at moves. *)
TouchStatus(e) ==
  /\ since' = [since EXCEPT ![e] = 0]
  /\ UNCHANGED <<status, upFor>>

Expired == {e \in Env : status[e] = "running" /\ upFor[e] >= Ttl}

(* TRANSIENT_TIMEOUTS without an entry for STOPPING.                       *)
Stale_NoStopping ==
  {e \in Env : status[e] \in Transient \ {"stopping"} /\ since[e] >= Timeout(status[e])}
(* Rows without a status_changed_at, which the query skips, do not occur:  *)
(* the column has a default, set_status writes it, and the migration that  *)
(* added it filled it in.                                                  *)
Stale == {e \in Env : status[e] \in Transient /\ since[e] >= Timeout(status[e])}

(* The worker's _mark_failed: best effort, so it may also change nothing.  *)
(* It reloads the row and commits; the two are one step here, at the       *)
(* commit.  The one case that differs is a row reloaded as FAILED, of      *)
(* which only the timestamp is written: it is this step at the reload,     *)
(* with a later timestamp.                                                 *)
MarkFailed(e) ==
  /\ \/ Exists(e) /\ SetStatus({e}, "failed")
     \/ UNCHANGED <<status, since, upFor>>
  /\ UNCHANGED stack

AgeRows ==
  /\ since' = [e \in Env |->
                 IF status[e] \in Transient THEN Older(since[e]) ELSE since[e]]
  /\ upFor' = [e \in Env |->
                 IF status[e] = "running" THEN Older(upFor[e]) ELSE upFor[e]]
  /\ UNCHANGED <<status, stack>>
=============================================================================
