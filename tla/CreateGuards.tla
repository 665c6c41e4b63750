---------------------------- MODULE CreateGuards ----------------------------
(***************************************************************************)
(* The guards of POST /environments, with requests served concurrently:    *)
(* each request reads the committed rows twice, in two statements, before  *)
(* it inserts its own row, and nothing locks or constrains the table.      *)
(*                                                                         *)
(* What becomes of a row later is the business of the workers: here a      *)
(* committed row may end, and a worker may bring an ended row back, which  *)
(* module Provisioner shows in detail.                                     *)
(***************************************************************************)
EXTENDS Naturals, FiniteSets

CONSTANTS
  Request,       (* POST requests; each would create one row              *)
  Owner,         (* authenticated principals                              *)
  OwnerOf,       (* OwnerOf[r]: the principal that sent r                 *)
  Name,          (* names a request may ask for                           *)
  MaxEnvs,       (* settings.max_environments_per_user                    *)
  MaxInFlight    (* requests the API serves at the same time              *)

ASSUME GuardsAssumption ==
  /\ IsFiniteSet(Request)
  /\ OwnerOf \in [Request -> Owner]
  /\ MaxEnvs \in Nat \ {0}
  /\ MaxInFlight \in Nat \ {0}

VARIABLES
  pc,        (* where each request is                                     *)
  name,      (* the name in its payload                                   *)
  row,       (* its row: none, active, or ended (STOPPED or FAILED)       *)
  revived    (* requests whose row a worker brought back                  *)

vars == <<pc, name, row, revived>>

InFlight == {r \in Request : pc[r] \in {"count", "name", "insert"}}

TypeOK ==
  /\ pc \in [Request -> {"new", "count", "name", "insert", "202", "429", "409", "500"}]
  /\ name \in [Request -> Name]
  /\ row \in [Request -> {"none", "active", "ended"}]
  /\ revived \subseteq Request

Init ==
  /\ pc = [r \in Request |-> "new"]
  /\ name \in [Request -> Name]
  /\ row = [r \in Request |-> "none"]
  /\ revived = {}

Answer(r, label) == pc' = [pc EXCEPT ![r] = label] /\ UNCHANGED <<name, row, revived>>

(* The rows the two guards look at: neither STOPPED nor FAILED.            *)
ActiveOf(o) == {r \in Request : OwnerOf[r] = o /\ row[r] = "active"}

-----------------------------------------------------------------------------
Arrive(r) ==
  /\ pc[r] = "new"
  /\ Cardinality(InFlight) < MaxInFlight
  /\ Answer(r, "count")

(* At the limit is over the limit: a comparison with > instead of >=.      *)
CheckQuota_OffByOne(r) ==
  /\ pc[r] = "count"
  /\ Answer(r, IF Cardinality(ActiveOf(OwnerOf[r])) > MaxEnvs
                 THEN "429" ELSE "name")
CheckQuota(r) ==
  /\ pc[r] = "count"
  /\ Answer(r, IF Cardinality(ActiveOf(OwnerOf[r])) >= MaxEnvs
                 THEN "429" ELSE "name")

(* A name guard that compares owners but not names.                        *)
CheckName_Skipped(r) == pc[r] = "name" /\ Answer(r, "insert")
(* scalar_one_or_none: no such row passes, one is a conflict, and more     *)
(* than one raises.                                                        *)
CheckName(r) ==
  LET clash == {q \in ActiveOf(OwnerOf[r]) : name[q] = name[r]}
  IN /\ pc[r] = "name"
     /\ \/ clash = {} /\ Answer(r, "insert")
        \/ Cardinality(clash) = 1 /\ Answer(r, "409")
        \/ Cardinality(clash) > 1 /\ Answer(r, "500")

(* The row is inserted and committed.                                      *)
Insert(r) ==
  /\ pc[r] = "insert"
  /\ pc' = [pc EXCEPT ![r] = "202"]
  /\ row' = [row EXCEPT ![r] = "active"]
  /\ UNCHANGED <<name, revived>>

(* The database or the broker refuses: nothing is committed.               *)
Break(r) == r \in InFlight /\ Answer(r, "500")

-----------------------------------------------------------------------------
(* A row becomes STOPPED or FAILED.                                        *)
Finish(r) ==
  /\ row[r] = "active"
  /\ row' = [row EXCEPT ![r] = "ended"]
  /\ UNCHANGED <<pc, name, revived>>

(* A retried or redelivered task sets an ended row to PROVISIONING.        *)
Revive(r) ==
  /\ row[r] = "ended"
  /\ row' = [row EXCEPT ![r] = "active"]
  /\ revived' = revived \cup {r}
  /\ UNCHANGED <<pc, name>>

Next == \E r \in Request :
  \/ Arrive(r) \/ CheckQuota(r) \/ CheckName(r) \/ Insert(r) \/ Break(r)
  \/ Finish(r) \/ Revive(r)

Spec == Init /\ [][Next]_vars

-----------------------------------------------------------------------------
(* How far concurrency can push an owner past the quota: rows no worker    *)
(* brought back, together with requests that passed the count, exceed it   *)
(* by less than the number of requests served at once.  So a single server *)
(* that takes one request at a time keeps the quota.                       *)
QuotaOvershoot ==
  \A o \in Owner :
    Cardinality(ActiveOf(o) \ revived)
      + Cardinality({r \in Request : OwnerOf[r] = o /\ pc[r] \in {"name", "insert"}})
    <= MaxEnvs + MaxInFlight - 1

(* The same for names: no more rows share an owner and a name than there   *)
(* are requests served at once.                                            *)
NameOvershoot ==
  \A o \in Owner, n \in Name :
    Cardinality({r \in ActiveOf(o) \ revived : name[r] = n})
      + Cardinality({r \in Request : OwnerOf[r] = o /\ name[r] = n /\ pc[r] = "insert"})
    <= MaxInFlight

(* README.md:169, "unique active name per principal": two active rows of   *)
(* an owner differ in name.  Broken, with requests served one at a time,   *)
(* by a FAILED row that its retry brings back.                             *)
UniqueActiveName ==
  \A o \in Owner : \A q, r \in ActiveOf(o) : name[q] = name[r] => q = r
=============================================================================
