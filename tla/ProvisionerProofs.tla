-------------------------- MODULE ProvisionerProofs -------------------------
(***************************************************************************)
(* Theorems about Provisioner for any environments, workers, template      *)
(* size, timeouts, retry budgets and bounds.                               *)
(***************************************************************************)
EXTENDS ProvisionerInv, TallyProofs, TLAPS

LEMMA TypeInit == Init => TypeOK
  BY ClockAssumption, DockerAssumption, BrokerAssumption, WorkerAssumption
  DEF Init, TypeOK, TableInit, TableTypeOK, DockerInit, DockerTypeOK,
      QueueInit, QueueTypeOK, ApiInit, ApiTypeOK, WorkerInit, WorkerTypeOK,
      Template, Status, Transient, Terminal, Age, Part, Label,
      ProvisionLabels, TeardownLabels, SweepLabels

(* What a call of SetStatus, TouchStatus, MarkFailed or Publish may do to  *)
(* the types, each once.                                                   *)
LEMMA SetStatusType ==
  ASSUME TypeOK, NEW rows, NEW new \in Status, SetStatus(rows, new)
  PROVE  /\ status' \in [Env -> Status \cup {"absent"}]
         /\ since' \in [Env -> Age]
         /\ upFor' \in [Env -> Age]
  BY ClockAssumption DEF TypeOK, TableTypeOK, SetStatus, Age

LEMMA PublishType ==
  ASSUME TypeOK, NEW m, Publish(m)
  PROVE  QueueTypeOK'
<1>1. queue' = [n \in Msg |-> IF n = m THEN queue[m] + 1 ELSE queue[n]]
  BY DEF TypeOK, QueueTypeOK, Publish
<1>2. \A n \in Msg : queue'[n] \in Nat
  BY <1>1 DEF TypeOK, QueueTypeOK
<1> QED
  BY <1>1, <1>2 DEF QueueTypeOK

LEMMA RequestType ==
  ASSUME TypeOK, NEW e \in Env, Request(e)
  PROVE  TypeOK'
<1> USE DEF TypeOK, TableTypeOK, DockerTypeOK, ApiTypeOK, WorkerTypeOK, vars,
            tableVars, dockerVars, workerVars, buildVars
<1>1. CASE CreateEnqueue(e)
  BY <1>1, PublishType DEF Request, CreateEnqueue, Template
<1>2. CASE CreateCommit(e)
  <2>1. "pending" \in Status
    BY DEF Status, Transient
  <2> QED
    BY <1>2, <2>1, SetStatusType DEF Request, CreateCommit, QueueTypeOK
<1>3. CASE CreateAbort(e)
  BY <1>3 DEF Request, CreateAbort, QueueTypeOK
<1>4. CASE Delete(e)
  BY <1>4, PublishType DEF Request, Delete
<1> QED
  BY <1>1, <1>2, <1>3, <1>4 DEF Request

(* Every action of a worker, with what it leaves alone.                    *)
LEMMA CreatePartType ==
  ASSUME TypeOK, NEW e \in Env, NEW p \in Part, NEW g \in Nat, CreatePart(e, p, g)
  PROVE  DockerTypeOK'
  BY ClockAssumption DEF TypeOK, DockerTypeOK, CreatePart, Age

LEMMA RemovePartType ==
  ASSUME TypeOK, NEW id \in Id, RemovePart(id)
  PROVE  DockerTypeOK'
<1>1. id.env \in Env /\ id.part \in Part
  BY DEF Id
<1>2. CASE UNCHANGED <<holder, age>>
  BY <1>2 DEF TypeOK, DockerTypeOK, RemovePart, CallFails, dockerVars
<1>3. CASE /\ holder' = [holder EXCEPT ![id.env][id.part] = 0]
           /\ age' = [age EXCEPT ![id.env][id.part] = 0]
           /\ UNCHANGED <<minted, faults>>
  BY <1>1, <1>3, ClockAssumption DEF TypeOK, DockerTypeOK, Age
<1> QED
  BY <1>2, <1>3 DEF RemovePart, CallFails, dockerVars

LEMMA StackIdsType ==
  ASSUME NEW e \in Env, NEW g \in Nat \ {0}
  PROVE  StackIds(e, g) \in SUBSET Id
  BY DEF StackIds, Id

LEMMA FindLabelledType ==
  ASSUME TypeOK
  PROVE  FindLabelled \in SUBSET Id
  BY DEF TypeOK, DockerTypeOK, FindLabelled, Id

LEMMA MarkFailedType ==
  ASSUME TypeOK, NEW e \in Env, MarkFailed(e), UNCHANGED template
  PROVE  TableTypeOK'
<1>1. "failed" \in Status
  BY DEF Status, Terminal
<1> QED
  BY <1>1, SetStatusType DEF TypeOK, TableTypeOK, MarkFailed

LEMMA ProvisionType ==
  ASSUME TypeOK, NEW w \in Worker, ProvisionStep(w), UNCHANGED <<apiVars, crashes>>
  PROVE  TypeOK'
<1> USE DEF TypeOK, ApiTypeOK, apiVars, Goto
<1>0. ApiTypeOK' /\ crashes' \in Nat /\ UNCHANGED template
  OBVIOUS
<1>1. pc[w] \in ProvisionLabels => job[w] \in Msg /\ job[w].env \in Env
  BY DEF WorkerTypeOK, Msg, ProvisionMsg
<1>2. CASE ProvisionLoad(w)
  BY <1>2 DEF ProvisionLoad, WorkerTypeOK, TableTypeOK, DockerTypeOK, QueueTypeOK,
     tableVars, dockerVars, buildVars, Label, ProvisionLabels, TeardownLabels
<1>3. CASE ProvisionOpen(w)
  <2>1. TableTypeOK'
    BY <1>0, <1>3, SetStatusType, ClockAssumption
    DEF ProvisionOpen, TableTypeOK, TouchStatus, Status, Transient, Age
  <2> QED
    BY <1>0, <1>3, <2>1 DEF ProvisionOpen, WorkerTypeOK, DockerTypeOK, QueueTypeOK,
       dockerVars, buildVars, Label, ProvisionLabels, TeardownLabels
<1>4. CASE ProvisionReject(w)
  BY <1>4, DockerAssumption DEF ProvisionReject, ClearBuild, WorkerTypeOK, TableTypeOK,
     DockerTypeOK, QueueTypeOK, tableVars, dockerVars, Label, ProvisionLabels, TeardownLabels
<1>5. CASE BuildNext(w)
  <2>1. DockerTypeOK'
    BY <1>1, <1>5, CreatePartType DEF BuildNext, WorkerTypeOK, DockerTypeOK, ProvisionLabels
  <2>2. TableTypeOK' /\ QueueTypeOK'
    BY <1>0, <1>5 DEF BuildNext, TableTypeOK, QueueTypeOK, tableVars
  <2>3. WorkerTypeOK'
    <3>1. minted[job[w].env] \in Nat /\ next[w] \in 0..NRoles
      BY <1>1, <1>5 DEF BuildNext, Part, DockerTypeOK, ProvisionLabels
    <3>2. gen' \in [Worker -> Nat] /\ next' \in [Worker -> 0..NRoles + 1]
      BY <1>5, <3>1, DockerAssumption DEF BuildNext, ClearBuild, WorkerTypeOK
    <3>3. pc' = pc \/ pc' = [pc EXCEPT ![w] = "fail"]
      BY <1>5 DEF BuildNext
    <3>4. runAge' \in [Worker -> Nat] /\ UNCHANGED <<job, same, ids, batch>>
      BY <1>5 DEF BuildNext, ClearBuild, WorkerTypeOK
    <3>5. pc[w] = "build"
      BY <1>5 DEF BuildNext
    <3> QED
      BY <3>2, <3>3, <3>4, <3>5 DEF WorkerTypeOK, Label, ProvisionLabels, TeardownLabels
  <2> QED
    BY <1>0, <2>1, <2>2, <2>3
<1>6. CASE ProvisionRaise(w)
  BY <1>6, DockerAssumption DEF ProvisionRaise, ClearBuild, WorkerTypeOK, TableTypeOK,
     DockerTypeOK, QueueTypeOK, tableVars, dockerVars, Label, ProvisionLabels, TeardownLabels
<1>7. CASE ProvisionCommit(w)
  <2>1. TableTypeOK'
    BY <1>0, <1>1, <1>7, SetStatusType
    DEF ProvisionCommit, TableTypeOK, WorkerTypeOK, Status
  <2> QED
    BY <1>0, <1>1, <1>7, <2>1, DockerAssumption DEF ProvisionCommit, ClearBuild, WorkerTypeOK,
       DockerTypeOK, QueueTypeOK, dockerVars, Label, ProvisionLabels, TeardownLabels
<1>8. CASE ProvisionFail(w)
  <2>1. TableTypeOK'
    BY <1>0, <1>1, <1>8, MarkFailedType DEF ProvisionFail, ProvisionLabels
  <2> QED
    BY <1>0, <1>1, <1>8, <2>1 DEF ProvisionFail, WorkerTypeOK, DockerTypeOK, QueueTypeOK,
       dockerVars, buildVars, Label, ProvisionLabels, TeardownLabels
<1>9. CASE ProvisionRetry(w)
  <2>1. QueueTypeOK'
    BY <1>9, PublishType DEF ProvisionRetry, PublishRetry, QueueTypeOK
  <2> QED
    BY <1>0, <1>1, <1>9, <2>1 DEF ProvisionRetry, WorkerTypeOK, TableTypeOK, DockerTypeOK,
       tableVars, dockerVars, buildVars, Label, ProvisionLabels, TeardownLabels
<1> QED
  BY <1>2, <1>3, <1>4, <1>5, <1>6, <1>7, <1>8, <1>9 DEF ProvisionStep

LEMMA TeardownType ==
  ASSUME TypeOK, NEW w \in Worker, TeardownStep(w), UNCHANGED <<apiVars, crashes>>
  PROVE  TypeOK'
<1> USE DEF TypeOK, ApiTypeOK, apiVars, Goto
<1>0. ApiTypeOK' /\ crashes' \in Nat /\ UNCHANGED template
  OBVIOUS
<1>1. pc[w] \in TeardownLabels => job[w] \in Msg /\ job[w].env \in Env
  BY DEF WorkerTypeOK, Msg, TeardownMsg
<1>2. CASE TeardownLoad(w)
  <2>1. ids' \in [Worker -> SUBSET Id]
    BY <1>1, <1>2, StackIdsType DEF TeardownLoad, WorkerTypeOK, TableTypeOK, TeardownLabels
  <2> QED
    BY <1>0, <1>2, <2>1 DEF TeardownLoad, WorkerTypeOK, TableTypeOK, DockerTypeOK, QueueTypeOK,
       tableVars, dockerVars, buildVars, Label, ProvisionLabels, TeardownLabels
<1>3. CASE TeardownClaim(w)
  <2>1. TableTypeOK'
    BY <1>0, <1>3, SetStatusType, ClockAssumption
    DEF TeardownClaim, TableTypeOK, TouchStatus, Status, Transient, Age
  <2> QED
    BY <1>0, <1>3, <2>1 DEF TeardownClaim, WorkerTypeOK, DockerTypeOK, QueueTypeOK,
       dockerVars, buildVars, Label, ProvisionLabels, TeardownLabels
<1>4. CASE TeardownRemove(w)
  <2>1. DockerTypeOK'
    BY <1>4, RemovePartType DEF TeardownRemove, WorkerTypeOK
  <2> QED
    BY <1>0, <1>4, <2>1 DEF TeardownRemove, WorkerTypeOK, TableTypeOK, QueueTypeOK,
       tableVars, buildVars
<1>5. CASE TeardownDone(w)
  <2>1. TableTypeOK'
    BY <1>0, <1>5, SetStatusType DEF TeardownDone, TableTypeOK, Status, Terminal
  <2> QED
    BY <1>0, <1>1, <1>5, <2>1 DEF TeardownDone, WorkerTypeOK, DockerTypeOK, QueueTypeOK,
       dockerVars, buildVars, Label, ProvisionLabels, TeardownLabels
<1>6. CASE TeardownRaise(w)
  BY <1>0, <1>6 DEF TeardownRaise, WorkerTypeOK, TableTypeOK, DockerTypeOK, QueueTypeOK,
     tableVars, dockerVars, buildVars, Label, ProvisionLabels, TeardownLabels
<1>7. CASE TeardownHandle(w)
  <2>1. TableTypeOK'
    BY <1>0, <1>1, <1>7, MarkFailedType DEF TeardownHandle, TableTypeOK, tableVars, TeardownLabels
  <2>2. QueueTypeOK'
    BY <1>7, PublishType DEF TeardownHandle, PublishRetry, QueueTypeOK
  <2> QED
    BY <1>0, <1>1, <1>7, <2>1, <2>2 DEF TeardownHandle, WorkerTypeOK, DockerTypeOK,
       dockerVars, buildVars, Label, ProvisionLabels, TeardownLabels
<1> QED
  BY <1>2, <1>3, <1>4, <1>5, <1>6, <1>7 DEF TeardownStep

LEMMA SweepType ==
  ASSUME TypeOK, NEW w \in Worker, StartSweep(w) \/ SweepStep(w), UNCHANGED <<apiVars, crashes>>
  PROVE  TypeOK'
<1> USE DEF TypeOK, ApiTypeOK, apiVars, Goto
<1>0. ApiTypeOK' /\ crashes' \in Nat /\ UNCHANGED template
  OBVIOUS
<1> DEFINE Frame == /\ ApiTypeOK' /\ crashes' \in Nat
                    /\ \E l \in {"idle"} \cup SweepLabels : pc' \in {pc, [pc EXCEPT ![w] = l]}
                    /\ UNCHANGED <<job, same, buildVars>>
<1>1. Frame /\ TableTypeOK' /\ DockerTypeOK' /\ QueueTypeOK'
            /\ ids' \in [Worker -> SUBSET Id] /\ batch' \in [Worker -> SUBSET Env]
      => TypeOK'
  BY DEF WorkerTypeOK, buildVars, Label, ProvisionLabels, TeardownLabels, SweepLabels
<1>2. CASE StartSweep(w)
  <2>1. Expired \in SUBSET Env /\ Stale \in SUBSET Env
    BY DEF Expired, Stale
  <2>2. ids' \in [Worker -> SUBSET Id] /\ batch' \in [Worker -> SUBSET Env]
    BY <1>2, <2>1, FindLabelledType
    DEF StartSweep, StartReap, StartRecover, StartReconcile, WorkerTypeOK
  <2> QED
    BY <1>0, <1>1, <1>2, <2>2 DEF StartSweep, StartReap, StartRecover, StartReconcile,
       TableTypeOK, DockerTypeOK, QueueTypeOK, tableVars, dockerVars, SweepLabels
<1>3. CASE ReapClaim(w) \/ RecoverCommit(w)
  <2>1. TableTypeOK'
    BY <1>0, <1>3, SetStatusType
    DEF ReapClaim, RecoverCommit, TableTypeOK, Status, Transient, Terminal
  <2> QED
    BY <1>0, <1>1, <1>3, <2>1 DEF ReapClaim, RecoverCommit, WorkerTypeOK,
       DockerTypeOK, QueueTypeOK, dockerVars, SweepLabels
<1>4. CASE ReapSend(w)
  <2>1. QueueTypeOK'
    BY <1>4, PublishType DEF ReapSend
  <2> QED
    BY <1>0, <1>1, <1>4, <2>1 DEF ReapSend, WorkerTypeOK, TableTypeOK,
       DockerTypeOK, tableVars, dockerVars, SweepLabels
<1>5. CASE OrphanCheck(w)
  <2>1. \A id \in ids[w] : id.env \in Env
    BY DEF WorkerTypeOK, Id
  <2>2. PICK e \in Env :
          \/ /\ Goto(w, "sweep")
             /\ batch' = [batch EXCEPT ![w] = {e}]
             /\ UNCHANGED ids
          \/ /\ Goto(w, "idle") \/ Goto(w, "orphans")
             /\ ids' = [ids EXCEPT ![w] = {id \in ids[w] : id.env # e}]
             /\ UNCHANGED batch
    BY <1>5, <2>1 DEF OrphanCheck
  <2>3. ids' \in [Worker -> SUBSET Id] /\ batch' \in [Worker -> SUBSET Env]
    BY <2>2 DEF WorkerTypeOK
  <2>4. Frame
    BY <1>0, <1>5, <2>2 DEF OrphanCheck, SweepLabels
  <2> HIDE DEF Frame
  <2> QED
    BY <1>0, <1>1, <1>5, <2>3, <2>4 DEF OrphanCheck, TableTypeOK,
       DockerTypeOK, QueueTypeOK, tableVars, dockerVars
<1>6. CASE OrphanRemove(w)
  <2>1. DockerTypeOK'
    BY <1>6, RemovePartType DEF OrphanRemove, WorkerTypeOK
  <2>2. ids' \in [Worker -> SUBSET Id] /\ batch' \in [Worker -> SUBSET Env]
    BY <1>6 DEF OrphanRemove, WorkerTypeOK
  <2>3. Frame
    BY <1>0, <1>6 DEF OrphanRemove, SweepLabels
  <2> HIDE DEF Frame
  <2> QED
    BY <1>0, <1>1, <1>6, <2>1, <2>2, <2>3 DEF OrphanRemove, TableTypeOK, QueueTypeOK, tableVars
<1>7. CASE SweepRaise(w)
  <2>1. DockerTypeOK'
    BY <1>7 DEF SweepRaise, CallFails, DockerTypeOK
  <2> QED
    BY <1>0, <1>1, <1>7, <2>1 DEF SweepRaise, WorkerTypeOK, TableTypeOK, QueueTypeOK,
       tableVars, SweepLabels
<1> QED
  BY <1>2, <1>3, <1>4, <1>5, <1>6, <1>7 DEF SweepStep

LEMMA DeliveryType ==
  ASSUME TypeOK, NEW w \in Worker,
         \/ Take(w)
         \/ Ack(w) /\ UNCHANGED <<apiVars, crashes>>
         \/ Crash(w)
  PROVE  TypeOK'
<1> USE DEF TypeOK, ApiTypeOK, apiVars, Goto
<1>1. CASE Take(w)
  <2>1. PICK m \in Msg : Deliver(w, m)
    BY <1>1 DEF Take
  <2>0. m \in ProvisionMsg \/ m \in TeardownMsg
    BY DEF Msg
  <2>2. QueueTypeOK'
    BY <2>1 DEF Deliver, Consume, QueueTypeOK
  <2>3. \/ m.task = "provision" /\ m \in ProvisionMsg
        \/ m.task = "teardown" /\ m \in TeardownMsg
    <3>1. \A n \in ProvisionMsg : n.task = "provision"
      BY DEF ProvisionMsg
    <3>2. \A n \in TeardownMsg : n.task = "teardown"
      BY DEF TeardownMsg
    <3> QED
      BY <2>0, <3>1, <3>2
  <2>4. WorkerTypeOK'
    BY <2>1, <2>3 DEF Deliver, WorkerTypeOK, buildVars, Label, ProvisionLabels, TeardownLabels
  <2> QED
    BY <1>1, <2>1, <2>2, <2>4 DEF Take, Deliver, TableTypeOK, DockerTypeOK, tableVars, dockerVars
<1>2. CASE Ack(w) /\ UNCHANGED <<apiVars, crashes>>
  BY <1>2 DEF Ack, WorkerTypeOK, TableTypeOK, DockerTypeOK, QueueTypeOK,
     tableVars, dockerVars, buildVars, Label, ProvisionLabels, TeardownLabels
<1>3. CASE Crash(w)
  <2>1. QueueTypeOK'
    BY <1>3, PublishType DEF Crash, Die, QueueTypeOK
  <2>2. WorkerTypeOK'
    BY <1>3, DockerAssumption DEF Crash, Die, ClearBuild, WorkerTypeOK, Label,
       ProvisionLabels, TeardownLabels
  <2> QED
    BY <1>3, <2>1, <2>2 DEF Crash, Die, TableTypeOK, DockerTypeOK, tableVars, dockerVars
<1> QED
  BY <1>1, <1>2, <1>3

LEMMA TickType == TypeOK /\ Tick => TypeOK'
<1> SUFFICES ASSUME TypeOK, Tick PROVE TypeOK'
  OBVIOUS
<1>1. \A n \in Age : Older(n) \in Age
  BY ClockAssumption DEF Age, Older
<1>2. TableTypeOK'
  BY <1>1 DEF Tick, AgeRows, TypeOK, TableTypeOK, apiVars
<1>3. DockerTypeOK'
  BY <1>1 DEF Tick, AgeResources, TypeOK, DockerTypeOK
<1>4. WorkerTypeOK'
  BY DEF Tick, TypeOK, WorkerTypeOK
<1> QED
  BY <1>2, <1>3, <1>4 DEF Tick, TypeOK, ApiTypeOK, QueueTypeOK, apiVars

LEMMA TypeStep == TypeOK /\ [Next]_vars => TypeOK'
<1> SUFFICES ASSUME TypeOK, [Next]_vars PROVE TypeOK'
  OBVIOUS
<1>1. CASE UNCHANGED vars
  BY <1>1 DEF vars, TypeOK, TableTypeOK, DockerTypeOK, QueueTypeOK, ApiTypeOK, WorkerTypeOK,
     tableVars, dockerVars, apiVars, workerVars, buildVars
<1>2. CASE Next
  BY <1>2, RequestType, ProvisionType, TeardownType, SweepType, DeliveryType, TickType
  DEF Next, Launch, Work
<1> QED
  BY <1>1, <1>2

(* Every variable keeps its type; in particular a worker that runs a task  *)
(* holds a message for that task, whatever was retried or delivered again. *)
THEOREM TypeCorrect == Spec => []TypeOK
  BY TypeInit, TypeStep, PTL DEF Spec

-----------------------------------------------------------------------------
(* Except for a tick, a step leaves a row's status and age alone or writes *)
(* a new status_changed_at, and a build begins with its clock at zero.     *)
RowsKeptOrStamped ==
  \A e \in Env : since'[e] = 0 \/ (since'[e] = since[e] /\ status'[e] = status[e])

BuildClocksKept ==
  \A w \in Worker :
    /\ runAge'[w] = IF pc'[w] = "build" THEN runAge[w] ELSE 0
    /\ \A e \in Env : Building(w, e)' => Building(w, e) \/ since'[e] = 0

LEMMA ClockKept ==
  ASSUME ClockInv, TypeOK, RowsKeptOrStamped, BuildClocksKept
  PROVE  ClockInv'
<1> SUFFICES ASSUME NEW w \in Worker
             PROVE  /\ pc'[w] # "build" => runAge'[w] = 0
                    /\ runAge'[w] <= BuildBound
                    /\ \A e \in Env : Building(w, e)' /\ status'[e] = "provisioning"
                                         => since'[e] <= runAge'[w]
  BY DEF ClockInv
<1>1. runAge[w] \in Nat /\ BuildBound \in Nat
  BY ProvisionerAssumption DEF TypeOK, WorkerTypeOK
<1>2. (pc'[w] # "build" => runAge'[w] = 0) /\ runAge'[w] <= BuildBound
  BY <1>1 DEF BuildClocksKept, ClockInv
<1>3. ASSUME NEW e \in Env, Building(w, e)', status'[e] = "provisioning"
      PROVE  since'[e] <= runAge'[w]
  <2>1. runAge'[w] = runAge[w]
    BY <1>3 DEF BuildClocksKept, Building
  <2>2. CASE since'[e] = 0
    BY <1>1, <2>1, <2>2
  <2>3. CASE since'[e] # 0
    BY <1>3, <2>1, <2>3 DEF RowsKeptOrStamped, BuildClocksKept, ClockInv
  <2> QED
    BY <2>2, <2>3
<1> QED
  BY <1>2, <1>3

LEMMA RequestClock ==
  ASSUME ClockInv, TypeOK, NEW e \in Env, Request(e)
  PROVE  ClockInv'
<1> USE DEF Request, CreateEnqueue, CreateCommit, CreateAbort, Delete, workerVars, buildVars
<1>1. RowsKeptOrStamped
  BY DEF RowsKeptOrStamped, SetStatus, tableVars
<1>2. BuildClocksKept
  BY DEF BuildClocksKept, ClockInv, Building
<1> QED
  BY <1>1, <1>2, ClockKept

LEMMA ProvisionClock ==
  ASSUME ClockInv, TypeOK, NEW w \in Worker, ProvisionStep(w)
  PROVE  ClockInv'
<1> USE DEF ProvisionStep, ProvisionLoad, ProvisionOpen, ProvisionReject, BuildNext,
            ProvisionRaise, ProvisionCommit, ProvisionFail, ProvisionRetry, Goto
<1>1. RowsKeptOrStamped
  <2> USE DEF RowsKeptOrStamped, TypeOK, TableTypeOK
  <2>1. CASE ProvisionLoad(w) \/ ProvisionReject(w) \/ BuildNext(w) \/ ProvisionRaise(w)
             \/ ProvisionRetry(w)
    BY <2>1 DEF tableVars
  <2>2. CASE ProvisionOpen(w)
    BY <2>2 DEF SetStatus, TouchStatus
  <2>3. CASE ProvisionCommit(w)
    BY <2>3 DEF SetStatus
  <2>4. CASE ProvisionFail(w)
    BY <2>4 DEF SetStatus, MarkFailed
  <2> QED
    BY <2>1, <2>2, <2>3, <2>4
<1>2. BuildClocksKept
  <2>1. CASE ProvisionOpen(w)
    <3>1. job[w].env \in Env /\ since'[job[w].env] = 0
      BY <2>1 DEF SetStatus, TouchStatus, TypeOK, TableTypeOK, WorkerTypeOK,
         ProvisionLabels, ProvisionMsg
    <3> QED
      BY <2>1, <3>1 DEF BuildClocksKept, ClockInv, Building, buildVars, TypeOK, WorkerTypeOK
  <2>2. CASE ~ProvisionOpen(w)
    BY <2>2 DEF BuildClocksKept, ClockInv, Building, buildVars, ClearBuild, TypeOK, WorkerTypeOK
  <2> QED
    BY <2>1, <2>2
<1> QED
  BY <1>1, <1>2, ClockKept

LEMMA TeardownClock ==
  ASSUME ClockInv, TypeOK, NEW w \in Worker, TeardownStep(w)
  PROVE  ClockInv'
<1> USE DEF TeardownStep, TeardownLoad, TeardownClaim, TeardownRemove, TeardownDone,
            TeardownRaise, TeardownHandle, Goto
<1>1. RowsKeptOrStamped
  BY DEF RowsKeptOrStamped, SetStatus, TouchStatus, MarkFailed, TypeOK, TableTypeOK, tableVars
<1>2. BuildClocksKept
  BY DEF BuildClocksKept, ClockInv, Building, buildVars, TypeOK, WorkerTypeOK
<1> QED
  BY <1>1, <1>2, ClockKept

LEMMA SweepClock ==
  ASSUME ClockInv, TypeOK, NEW w \in Worker, StartSweep(w) \/ SweepStep(w)
  PROVE  ClockInv'
<1> USE DEF StartSweep, StartReap, StartRecover, StartReconcile, SweepStep, ReapClaim,
            ReapSend, RecoverCommit, OrphanCheck, OrphanRemove, SweepRaise, Goto
<1>1. RowsKeptOrStamped
  BY DEF RowsKeptOrStamped, SetStatus, tableVars
<1>2. BuildClocksKept
  BY DEF BuildClocksKept, ClockInv, Building, buildVars, TypeOK, WorkerTypeOK
<1> QED
  BY <1>1, <1>2, ClockKept

LEMMA DeliveryClock ==
  ASSUME ClockInv, TypeOK, NEW w \in Worker,
         (\E m \in Msg : Deliver(w, m)) \/ Ack(w) \/ Die(w)
  PROVE  ClockInv'
<1> USE DEF Deliver, Ack, Die, Goto
<1>1. RowsKeptOrStamped
  BY DEF RowsKeptOrStamped, tableVars
<1>2. BuildClocksKept
  BY DEF BuildClocksKept, ClockInv, Building, buildVars, ClearBuild, TypeOK, WorkerTypeOK
<1> QED
  BY <1>1, <1>2, ClockKept

LEMMA TickClock ==
  ASSUME ClockInv, TypeOK, Tick
  PROVE  ClockInv'
<1> SUFFICES ASSUME NEW w \in Worker
             PROVE  /\ pc'[w] # "build" => runAge'[w] = 0
                    /\ runAge'[w] <= BuildBound
                    /\ \A e \in Env : Building(w, e)' /\ status'[e] = "provisioning"
                                         => since'[e] <= runAge'[w]
  BY DEF ClockInv
<1>1. runAge[w] \in Nat /\ BuildBound \in Nat /\ AgeCap \in Nat
  BY ProvisionerAssumption, ClockAssumption DEF TypeOK, WorkerTypeOK
<1>2. UNCHANGED <<pc, job, status>>
  BY DEF Tick, AgeRows
<1>3. (pc'[w] # "build" => runAge'[w] = 0) /\ runAge'[w] <= BuildBound
  BY <1>1 DEF Tick, ClockInv
<1>4. ASSUME NEW e \in Env, Building(w, e)', status'[e] = "provisioning"
      PROVE  since'[e] <= runAge'[w]
  <2>1. Building(w, e) /\ status[e] = "provisioning"
    BY <1>2, <1>4 DEF Building
  <2>2. runAge'[w] = runAge[w] + 1 /\ since[e] <= runAge[w]
    BY <2>1 DEF Tick, ClockInv, Building
  <2>3. since[e] \in Nat /\ since'[e] <= since[e] + 1 /\ since'[e] \in Nat
    BY <1>1 DEF Tick, AgeRows, Older, TypeOK, TableTypeOK, Age
  <2> QED
    BY <1>1, <2>2, <2>3
<1> QED
  BY <1>3, <1>4

(* The staleness sweep selects no PROVISIONING row with a live builder,    *)
(* provided the timeout is longer than a build; any number of attempts for *)
(* the row may overlap.                                                    *)
THEOREM StaleSafe ==
  ASSUME BuildBound < ProvisioningTimeout
  PROVE  Spec => []StaleMeansDead
<1>1. Init => ClockInv
  BY ProvisionerAssumption DEF Init, WorkerInit, ClockInv, Building
<1>2. ClockInv /\ TypeOK /\ [Next]_vars => ClockInv'
  <2> SUFFICES ASSUME ClockInv, TypeOK, [Next]_vars PROVE ClockInv'
    OBVIOUS
  <2>1. CASE UNCHANGED vars
    BY <2>1 DEF vars, tableVars, workerVars, buildVars, ClockInv, Building
  <2>2. CASE Next
    BY <2>2, RequestClock, ProvisionClock, TeardownClock, SweepClock, DeliveryClock, TickClock
    DEF Next, Take, Launch, Work, Crash
  <2> QED
    BY <2>1, <2>2
<1>3. ClockInv /\ TypeOK => StaleMeansDead
  <2> SUFFICES ASSUME ClockInv, TypeOK, NEW e \in Env, NEW w \in Worker, Building(w, e),
                      status[e] = "provisioning", since[e] >= ProvisioningTimeout
               PROVE  FALSE
    BY DEF StaleMeansDead
  <2>1. since[e] <= runAge[w] /\ runAge[w] <= BuildBound
    BY DEF ClockInv
  <2>2. since[e] \in Nat /\ runAge[w] \in Nat /\ BuildBound \in Nat
    BY ProvisionerAssumption, ClockAssumption DEF TypeOK, TableTypeOK, WorkerTypeOK, Age
  <2>3. ProvisioningTimeout \in Nat
    BY TableAssumption, ClockAssumption
  <2> QED
    BY <2>1, <2>2, <2>3
<1> QED
  BY <1>1, <1>2, <1>3, TypeCorrect, PTL DEF Spec

-----------------------------------------------------------------------------
(* What a message that is sent or taken does to the number of messages of  *)
(* some kind that wait.                                                    *)
LEMMA PublishTotal ==
  ASSUME TypeOK, NEW S \in SUBSET Msg, NEW m, Publish(m), IsFiniteSet(Copies(queue, S))
  PROVE  /\ IsFiniteSet(Copies(queue', S))
         /\ Total(queue', S) = Total(queue, S) + IF m \in S THEN 1 ELSE 0
<1>1. queue \in [Msg -> Nat]
  BY DEF TypeOK, QueueTypeOK
<1>2. \A n \in S : queue'[n] = IF n = m THEN queue[n] + 1 ELSE queue[n]
  BY <1>1 DEF Publish
<1>3. \A n \in S : queue[n] \in Nat /\ queue'[n] \in Nat
  BY <1>1, <1>2
<1>4. Total(queue, S) \in Nat
  BY TotalType
<1>5. CASE m \in S
  <2>1. OnlyAt(queue, queue', S, m)
    BY <1>2, <1>3 DEF OnlyAt
  <2>2. ChangedAt(queue, queue', S, m)
    BY <1>5, <2>1, TotalChange
  <2> QED
    BY <1>2, <1>3, <1>4, <1>5, <2>2 DEF ChangedAt
<1>6. CASE m \notin S
  <2>1. \A n \in S : queue[n] = queue'[n]
    BY <1>2, <1>6
  <2>2. Copies(queue, S) = Copies(queue', S) /\ Total(queue, S) = Total(queue', S)
    BY <2>1, TotalSame, Zenon
  <2> QED
    BY <1>4, <1>6, <2>2
<1> QED
  BY <1>5, <1>6

LEMMA ConsumeTotal ==
  ASSUME TypeOK, NEW S \in SUBSET Msg, NEW m, Consume(m), IsFiniteSet(Copies(queue, S))
  PROVE  /\ IsFiniteSet(Copies(queue', S))
         /\ Total(queue', S) = Total(queue, S) - IF m \in S THEN 1 ELSE 0
<1>1. queue \in [Msg -> Nat]
  BY DEF TypeOK, QueueTypeOK
<1>2. \A n \in S : queue'[n] = IF n = m THEN queue[n] - 1 ELSE queue[n]
  BY <1>1 DEF Consume
<1>3. \A n \in S : queue[n] \in Nat /\ queue'[n] \in Nat
  BY <1>1, <1>2 DEF Consume
<1>4. Total(queue, S) \in Nat
  BY TotalType
<1>5. CASE m \in S
  <2>1. OnlyAt(queue, queue', S, m)
    BY <1>2, <1>3 DEF OnlyAt
  <2>2. ChangedAt(queue, queue', S, m)
    BY <1>5, <2>1, TotalChange
  <2> QED
    BY <1>2, <1>3, <1>4, <1>5, <2>2 DEF ChangedAt
<1>6. CASE m \notin S
  <2>1. \A n \in S : queue[n] = queue'[n]
    BY <1>2, <1>6
  <2>2. Copies(queue, S) = Copies(queue', S) /\ Total(queue, S) = Total(queue', S)
    BY <2>1, TotalSame, Zenon
  <2> QED
    BY <1>4, <1>6, <2>2
<1> QED
  BY <1>5, <1>6

LEMMA PublishCalls ==
  ASSUME TypeOK, NEW e \in Env, NEW m, Publish(m), IsFiniteSet(Copies(queue, Calls(e)))
  PROVE  /\ IsFiniteSet(Copies(queue', Calls(e)))
         /\ Total(queue', Calls(e)) = Total(queue, Calls(e)) + IF m \in Calls(e) THEN 1 ELSE 0
<1>1. Calls(e) \in SUBSET Msg
  BY DEF Calls, Msg
<1> QED
  BY <1>1, PublishTotal

LEMMA ConsumeCalls ==
  ASSUME TypeOK, NEW e \in Env, NEW m, Consume(m), IsFiniteSet(Copies(queue, Calls(e)))
  PROVE  /\ IsFiniteSet(Copies(queue', Calls(e)))
         /\ Total(queue', Calls(e)) = Total(queue, Calls(e)) - IF m \in Calls(e) THEN 1 ELSE 0
<1>1. Calls(e) \in SUBSET Msg
  BY DEF Calls, Msg
<1> QED
  BY <1>1, ConsumeTotal

(* The part of ChainInv about one environment, for k chains of attempts:   *)
(* one as a rule, none once it is RUNNING.                                 *)
Chain(e, k) ==
  /\ Unasked(e)
  /\ IsFiniteSet(Copies(queue, Calls(e))) /\ IsFiniteSet(Attempting(e))
  /\ Attempts(e) <= k + crashes

LEMMA AttemptsTypes ==
  ASSUME NEW e \in Env, NEW k \in Nat, Chain(e, k), TypeOK
  PROVE  /\ Total(queue, Calls(e)) \in Nat /\ Cardinality(Attempting(e)) \in Nat
         /\ Attempts(e) \in Nat /\ crashes \in Nat
  BY TotalType, FS_CardinalityType DEF Chain, TypeOK, Attempts

(* A worker under way with an attempt holds one of the calls.              *)
LEMMA AttemptingHolds ==
  ASSUME TypeOK, NEW e \in Env, NEW w \in Attempting(e)
  PROVE  w \in Worker /\ job[w] \in Calls(e)
  BY DEF Attempting, Calls, TypeOK, WorkerTypeOK

(* No call is sent or taken, and no attempt begins.                        *)
LEMMA NoMore ==
  ASSUME TypeOK, NEW e \in Env, NEW k \in Nat, Chain(e, k),
         \A m \in Calls(e) : queue'[m] = queue[m],
         Attempting(e)' \subseteq Attempting(e), crashes' = crashes, Unasked(e)'
  PROVE  Chain(e, k)'
<1>1. Copies(queue, Calls(e)) = Copies(queue', Calls(e)) /\ Total(queue, Calls(e)) = Total(queue', Calls(e))
  <2>1. \A m \in Calls(e) : queue[m] = queue'[m]
    OBVIOUS
  <2> QED
    BY <2>1, TotalSame, Zenon
<1>2. IsFiniteSet(Attempting(e)') /\ Cardinality(Attempting(e)') <= Cardinality(Attempting(e))
  BY FS_Subset DEF Chain
<1>3. Cardinality(Attempting(e)') \in Nat
  BY <1>2, FS_CardinalityType
<1>4. Attempts(e)' = Total(queue', Calls(e)) + Cardinality(Attempting(e)')
  BY DEF Attempts, Calls
<1>5. Attempts(e) = Total(queue, Calls(e)) + Cardinality(Attempting(e)) /\ Attempts(e) <= k + crashes
  BY DEF Attempts, Chain
<1>6. Attempts(e)' <= k + crashes'
  BY <1>1, <1>2, <1>3, <1>4, <1>5, AttemptsTypes
<1>7. IsFiniteSet(Copies(queue', Calls(e)))
  BY <1>1 DEF Chain
<1> QED
  BY <1>2, <1>6, <1>7 DEF Chain, Calls

(* A message goes to the queue; no worker takes up an attempt.             *)
LEMMA Sent ==
  ASSUME TypeOK, NEW e \in Env, NEW k \in Nat, Chain(e, k), NEW m, Publish(m), m \notin Calls(e),
         Attempting(e)' \subseteq Attempting(e), crashes' = crashes, Unasked(e)'
  PROVE  Chain(e, k)'
<1>1. \A n \in Calls(e) : queue'[n] = queue[n]
  BY DEF Publish, TypeOK, QueueTypeOK, Calls, Msg
<1> QED
  BY <1>1, NoMore

LEMMA RequestChain ==
  ASSUME TypeOK, NEW d \in Env, Request(d), NEW e \in Env, NEW k \in Nat, Chain(e, k),
         k = 0 => template[e] # "none"
  PROVE  Chain(e, k)'
<1>1. /\ Attempting(e)' = Attempting(e) /\ crashes' = crashes /\ job' = job
  BY DEF Request, workerVars, Attempting
<1>2. CASE UNCHANGED <<queue, template>>
  BY <1>1, <1>2, NoMore DEF Chain, Unasked, Calls
<1>3. CASE Delete(d)
  <2>1. Publish(TeardownCall(d)) /\ TeardownCall(d) \notin Calls(e) /\ template' = template
    BY <1>3 DEF Delete, TeardownCall, Calls, ProvisionMsg
  <2>2. Unasked(e)'
    BY <1>1, <2>1 DEF Chain, Unasked, Publish, TypeOK, QueueTypeOK, Calls, Msg
  <2> QED
    BY <1>1, <2>1, <2>2, Sent
<1>4. CASE CreateEnqueue(d) /\ d # e
  <2>1. Publish(ProvisionCall(d)) /\ ProvisionCall(d) \notin Calls(e)
    BY <1>4 DEF CreateEnqueue, ProvisionCall, Calls
  <2>2. template'[e] = template[e]
    BY <1>4 DEF CreateEnqueue, TypeOK, TableTypeOK
  <2>3. Unasked(e)'
    BY <1>1, <2>1, <2>2 DEF Chain, Unasked, Publish, TypeOK, QueueTypeOK, Calls, Msg
  <2> QED
    BY <1>1, <2>1, <2>3, Sent
<1>5. CASE CreateEnqueue(e)
  <2>1. template[e] = "none" /\ Publish(ProvisionCall(e))
    BY <1>5 DEF CreateEnqueue
  <2>2. Total(queue, Calls(e)) = 0
    BY <2>1, TotalNone DEF Chain, Unasked
  <2>3. Attempting(e) = {}
    BY <2>1, AttemptingHolds DEF Chain, Unasked
  <2>4. Cardinality(Attempting(e)) = 0
    BY <2>3, FS_EmptySet
  <2>5. ProvisionCall(e) \in Calls(e)
    BY BrokerAssumption DEF ProvisionCall, Calls, ProvisionMsg
  <2>6. IsFiniteSet(Copies(queue', Calls(e))) /\ Total(queue', Calls(e)) = 1
    BY <2>1, <2>2, <2>5, PublishCalls DEF Chain
  <2>7. Attempts(e)' = Total(queue', Calls(e)) + Cardinality(Attempting(e)')
    BY DEF Attempts, Calls
  <2>8. Attempts(e)' <= k + crashes'
    BY <1>1, <2>1, <2>4, <2>6, <2>7, AttemptsTypes
  <2>9. Unasked(e)'
    BY <1>5 DEF CreateEnqueue, Unasked, TypeOK, TableTypeOK
  <2> QED
    BY <1>1, <2>6, <2>8, <2>9 DEF Chain, Calls
<1> QED
  BY <1>2, <1>3, <1>4, <1>5 DEF Request, CreateCommit, CreateAbort

(* Only provision_environment publishes calls again, one for its own.      *)
LEMMA RetryChain ==
  ASSUME TypeOK, NEW w \in Worker, ProvisionRetry(w), UNCHANGED <<apiVars, crashes>>,
         NEW e \in Env, NEW k \in Nat, Chain(e, k)
  PROVE  Chain(e, k)'
<1> DEFINE m == [job[w] EXCEPT !.retries = @ + 1]
<1>1. pc[w] = "retry" /\ job[w] \in ProvisionMsg /\ pc' = [pc EXCEPT ![w] = "ack"] /\ job' = job
  BY DEF ProvisionRetry, Goto, TypeOK, WorkerTypeOK, ProvisionLabels
<1>2. Attempting(e)' = Attempting(e) \ {w}
  BY <1>1 DEF Attempting, TypeOK, WorkerTypeOK, ProvisionLabels
<1>3. template' = template /\ crashes' = crashes
  BY DEF apiVars
<1>4. CASE UNCHANGED queue
  BY <1>1, <1>2, <1>3, <1>4, NoMore DEF Chain, Unasked, Calls
<1>5. CASE Publish(m) /\ m \notin Calls(e)
  <2>1. Unasked(e)'
    BY <1>1, <1>3, <1>5 DEF Chain, Unasked, Publish, TypeOK, QueueTypeOK, Calls, Msg
  <2> HIDE DEF m
  <2> QED
    BY <1>2, <1>3, <1>5, <2>1, Sent
<1>6. CASE Publish(m) /\ m \in Calls(e)
  <2>1. job[w].env = e
    BY <1>1, <1>6 DEF Calls, ProvisionMsg
  <2>2. w \in Attempting(e) /\ job[w] \in Calls(e)
    BY <1>1, <2>1 DEF Attempting, ProvisionLabels, Calls
  <2>3. template[e] # "none"
    BY <2>2 DEF Chain, Unasked
  <2>4. /\ IsFiniteSet(Attempting(e)')
        /\ Cardinality(Attempting(e)') = Cardinality(Attempting(e)) - 1
    BY <1>2, <2>2, FS_RemoveElement DEF Chain
  <2> HIDE DEF m
  <2>5. /\ IsFiniteSet(Copies(queue', Calls(e)))
        /\ Total(queue', Calls(e)) = Total(queue, Calls(e)) + 1
    BY <1>6, PublishCalls DEF Chain
  <2>6. Attempts(e)' = Total(queue', Calls(e)) + Cardinality(Attempting(e)')
    BY DEF Attempts, Calls
  <2>7. Attempts(e)' <= k + crashes'
    BY <1>3, <2>4, <2>5, <2>6, AttemptsTypes DEF Chain, Attempts
  <2> QED
    BY <1>3, <2>3, <2>4, <2>5, <2>7 DEF Chain, Unasked, Calls
<1> QED
  BY <1>4, <1>5, <1>6 DEF ProvisionRetry, PublishRetry

(* A task that is under way, and takes up or publishes no call.            *)
LEMMA TaskChain ==
  ASSUME TypeOK, NEW w \in Worker, UNCHANGED <<apiVars, crashes>>,
         NEW e \in Env, NEW k \in Nat, Chain(e, k),
         \/ ProvisionStep(w) /\ ~ProvisionRetry(w)
         \/ TeardownStep(w) \/ SweepStep(w) \/ StartSweep(w) \/ Ack(w)
  PROVE  Chain(e, k)'
<1>1. template' = template /\ crashes' = crashes
  BY DEF apiVars
<1>2. \A m \in Calls(e) : queue'[m] = queue[m]
  <2>1. CASE UNCHANGED queue
    BY <2>1
  <2>2. CASE TeardownHandle(w) /\ PublishRetry(job[w])
    <3>1. pc[w] = "raise"
      BY <2>2 DEF TeardownHandle
    <3>2. job[w] \in TeardownMsg
      BY <3>1 DEF TypeOK, WorkerTypeOK, TeardownLabels
    <3>3. [job[w] EXCEPT !.retries = @ + 1].task = "teardown"
      BY <3>2 DEF TeardownMsg
    <3>4. [job[w] EXCEPT !.retries = @ + 1] \notin Calls(e)
      BY <3>3 DEF Calls, ProvisionMsg
    <3> QED
      BY <2>2, <3>4 DEF PublishRetry, Publish, TypeOK, QueueTypeOK, Calls, Msg
  <2>3. ASSUME NEW d \in Env, Publish(TeardownCall(d))
        PROVE  \A m \in Calls(e) : queue'[m] = queue[m]
    BY <2>3 DEF Publish, TeardownCall, TypeOK, QueueTypeOK, Calls, Msg, ProvisionMsg
  <2>4. CASE ReapSend(w)
    <3>1. PICK d \in batch[w] : Publish(TeardownCall(d))
      BY <2>4 DEF ReapSend
    <3>2. d \in Env
      BY <3>1 DEF TypeOK, WorkerTypeOK
    <3> QED
      BY <2>3, <3>1, <3>2
  <2> QED
    BY <2>1, <2>2, <2>4 DEF ProvisionStep, ProvisionLoad, ProvisionOpen, ProvisionReject,
       BuildNext, ProvisionRaise, ProvisionCommit, ProvisionFail, TeardownStep, TeardownLoad,
       TeardownClaim, TeardownRemove, TeardownDone, TeardownRaise, TeardownHandle, SweepStep,
       ReapClaim, RecoverCommit, OrphanCheck, OrphanRemove, SweepRaise, StartSweep, StartReap,
       StartRecover, StartReconcile, Ack
<1>3. \A v \in Worker : job'[v] = job[v] \/ job'[v] = NoJob
  BY DEF ProvisionStep, ProvisionLoad, ProvisionOpen, ProvisionReject,
       BuildNext, ProvisionRaise, ProvisionCommit, ProvisionFail, TeardownStep, TeardownLoad,
       TeardownClaim, TeardownRemove, TeardownDone, TeardownRaise, TeardownHandle, SweepStep,
       ReapClaim, ReapSend, RecoverCommit, OrphanCheck, OrphanRemove, SweepRaise, StartSweep,
       StartReap, StartRecover, StartReconcile, Ack, TypeOK, WorkerTypeOK
<1>4. Attempting(e)' \subseteq Attempting(e)
  <2>1. CASE ProvisionStep(w) /\ ~ProvisionRetry(w)
    BY <2>1 DEF ProvisionStep, ProvisionLoad, ProvisionOpen, ProvisionReject,
       BuildNext, ProvisionRaise, ProvisionCommit, ProvisionFail, Goto, Attempting,
       TypeOK, WorkerTypeOK, ProvisionLabels
  <2>2. CASE TeardownStep(w)
    BY <2>2 DEF TeardownStep, TeardownLoad, TeardownClaim, TeardownRemove, TeardownDone,
       TeardownRaise, TeardownHandle, Goto, Attempting, TypeOK, WorkerTypeOK, ProvisionLabels
  <2>3. CASE SweepStep(w)
    BY <2>3 DEF SweepStep, ReapClaim, ReapSend, RecoverCommit, OrphanCheck, OrphanRemove,
       SweepRaise, Goto, Attempting, TypeOK, WorkerTypeOK, ProvisionLabels
  <2>4. CASE StartSweep(w) \/ Ack(w)
    BY <2>4 DEF StartSweep, StartReap, StartRecover, StartReconcile, Ack, Goto, Attempting,
       TypeOK, WorkerTypeOK, ProvisionLabels
  <2> QED
    BY <2>1, <2>2, <2>3, <2>4
<1>5. Unasked(e)'
  <2>1. NoJob \notin Calls(e)
    BY WorkerAssumption DEF Calls, Msg
  <2> QED
    BY <1>1, <1>2, <1>3, <2>1 DEF Chain, Unasked, Calls
<1> QED
  BY <1>1, <1>2, <1>4, <1>5, NoMore

(* A call that waited is now under way.                                    *)
LEMMA TakeChain ==
  ASSUME TypeOK, NEW w \in Worker, NEW m \in Msg, Deliver(w, m),
         UNCHANGED <<apiVars, crashes>>, NEW e \in Env, NEW k \in Nat, Chain(e, k)
  PROVE  Chain(e, k)'
<1>1. /\ pc[w] = "idle" /\ Consume(m) /\ job' = [job EXCEPT ![w] = m]
      /\ pc' = [pc EXCEPT ![w] = IF m.task = "provision" THEN "begin" ELSE "load"]
  BY DEF Deliver, Goto
<1>2. template' = template /\ crashes' = crashes
  BY DEF apiVars
<1>3. w \notin Attempting(e)
  BY <1>1 DEF Attempting, ProvisionLabels
<1>4. /\ IsFiniteSet(Copies(queue', Calls(e)))
      /\ Total(queue', Calls(e)) = Total(queue, Calls(e)) - IF m \in Calls(e) THEN 1 ELSE 0
  BY <1>1, ConsumeCalls DEF Chain
<1>5. Attempting(e)' = Attempting(e) \cup IF m \in Calls(e) THEN {w} ELSE {}
  BY <1>1, <1>3 DEF Attempting, TypeOK, WorkerTypeOK, ProvisionLabels, Calls, Msg, ProvisionMsg,
     TeardownMsg
<1>6. /\ IsFiniteSet(Attempting(e)')
      /\ Cardinality(Attempting(e)') = Cardinality(Attempting(e)) + IF m \in Calls(e) THEN 1 ELSE 0
  <2>1. CASE m \in Calls(e)
    BY <1>3, <1>5, <2>1, FS_AddElement DEF Chain
  <2>2. CASE m \notin Calls(e)
    <3>1. Attempting(e)' = Attempting(e)
      BY <1>5, <2>2
    <3> QED
      BY <2>2, <3>1, AttemptsTypes DEF Chain
  <2> QED
    BY <2>1, <2>2
<1>7. Attempts(e)' = Total(queue', Calls(e)) + Cardinality(Attempting(e)')
  BY DEF Attempts, Calls
<1>8. Attempts(e)' <= k + crashes'
  BY <1>2, <1>4, <1>6, <1>7, AttemptsTypes DEF Chain, Attempts
<1>9. Unasked(e)'
  <2> SUFFICES ASSUME template[e] = "none" PROVE Unasked(e)'
    BY <1>2 DEF Unasked
  <2>1. m \notin Calls(e)
    BY <1>1 DEF Chain, Unasked, Consume
  <2> QED
    BY <1>1, <2>1 DEF Chain, Unasked, Consume, Calls, TypeOK, WorkerTypeOK, QueueTypeOK, Msg
<1> QED
  BY <1>4, <1>6, <1>8, <1>9 DEF Chain, Calls

(* A message given back is one attempt more, and one crash more.           *)
LEMMA CrashChain ==
  ASSUME TypeOK, NEW w \in Worker, Crash(w), NEW e \in Env, NEW k \in Nat, Chain(e, k)
  PROVE  Chain(e, k)'
<1>1. /\ template' = template /\ crashes' = crashes + 1
      /\ pc' = [pc EXCEPT ![w] = "idle"] /\ job' = [job EXCEPT ![w] = NoJob]
  BY DEF Crash, Die, Goto, apiVars
<1>2. Attempting(e)' \subseteq Attempting(e)
  BY <1>1 DEF Attempting, TypeOK, WorkerTypeOK, ProvisionLabels
<1>3. IsFiniteSet(Attempting(e)') /\ Cardinality(Attempting(e)') <= Cardinality(Attempting(e))
  BY <1>2, FS_Subset DEF Chain
<1>4. Cardinality(Attempting(e)') \in Nat
  BY <1>3, FS_CardinalityType
<1>5. /\ IsFiniteSet(Copies(queue', Calls(e))) /\ Total(queue', Calls(e)) \in Nat
      /\ Total(queue', Calls(e)) <= Total(queue, Calls(e)) + 1
  <2>1. CASE Publish(job[w])
    BY <2>1, PublishCalls, AttemptsTypes DEF Chain
  <2>2. CASE queue' = queue
    BY <2>2, AttemptsTypes DEF Chain
  <2> QED
    BY <2>1, <2>2 DEF Crash, Die
<1>6. Attempts(e)' = Total(queue', Calls(e)) + Cardinality(Attempting(e)')
  BY DEF Attempts, Calls
<1>7. Attempts(e)' <= k + crashes'
  BY <1>1, <1>3, <1>4, <1>5, <1>6, AttemptsTypes DEF Chain, Attempts
<1>8. Unasked(e)'
  <2> SUFFICES ASSUME template[e] = "none" PROVE Unasked(e)'
    BY <1>1 DEF Unasked
  <2>1. job[w] \notin Calls(e) /\ NoJob \notin Calls(e)
    BY WorkerAssumption DEF Chain, Unasked, Calls, Msg
  <2>2. \A v \in Worker : job'[v] \notin Calls(e)
    BY <1>1, <2>1 DEF Chain, Unasked, TypeOK, WorkerTypeOK
  <2>3. \A m \in Calls(e) : queue'[m] = queue[m]
    BY <2>1 DEF Crash, Die, Publish, TypeOK, QueueTypeOK, Calls, Msg
  <2> QED
    BY <2>2, <2>3 DEF Chain, Unasked, Calls
<1> QED
  BY <1>3, <1>5, <1>7, <1>8 DEF Chain, Calls

(* No step starts a chain of attempts but the request that creates the     *)
(* environment and a kill.                                                 *)
LEMMA StepChain ==
  ASSUME TypeOK, [Next]_vars, NEW e \in Env, NEW k \in Nat, Chain(e, k),
         k = 0 => template[e] # "none"
  PROVE  Chain(e, k)'
<1>1. CASE UNCHANGED <<queue, template, job, pc, crashes>>
  BY <1>1 DEF Chain, Unasked, Attempts, Attempting, Calls
<1>2. CASE Tick \/ UNCHANGED vars
  BY <1>1, <1>2 DEF Tick, vars, apiVars, workerVars
<1>3. ASSUME NEW d \in Env, Request(d) PROVE Chain(e, k)'
  BY <1>3, RequestChain
<1>4. ASSUME NEW w \in Worker, Take(w) PROVE Chain(e, k)'
  BY <1>4, TakeChain DEF Take
<1>5. ASSUME NEW w \in Worker, Launch(w) \/ Work(w) PROVE Chain(e, k)'
  BY <1>5, RetryChain, TaskChain DEF Launch, Work
<1>6. ASSUME NEW w \in Worker, Crash(w) PROVE Chain(e, k)'
  BY <1>6, CrashChain
<1> QED
  BY <1>2, <1>3, <1>4, <1>5, <1>6 DEF Next

LEMMA ChainAlways == Spec => []ChainInv
<1>1. Init => ChainInv
  <2> SUFFICES ASSUME Init, NEW e \in Env PROVE Chain(e, 1)
    BY DEF ChainInv, Chain
  <2>1. \A m \in Calls(e) : queue[m] = 0
    BY DEF Init, QueueInit, Calls, Msg
  <2>2. IsFiniteSet(Copies(queue, Calls(e))) /\ Total(queue, Calls(e)) = 0
    BY <2>1, TotalNone
  <2>3. Attempting(e) = {}
    BY DEF Init, WorkerInit, Attempting, ProvisionLabels
  <2>4. IsFiniteSet(Attempting(e)) /\ Cardinality(Attempting(e)) = 0
    BY <2>3, FS_EmptySet
  <2>5. Unasked(e)
    BY <2>1, WorkerAssumption DEF Unasked, Init, WorkerInit, Calls, Msg
  <2> QED
    BY <2>2, <2>4, <2>5 DEF Chain, Attempts, Init
<1>2. ChainInv /\ TypeOK /\ [Next]_vars => ChainInv'
  <2> SUFFICES ASSUME ChainInv, TypeOK, [Next]_vars, NEW e \in Env PROVE Chain(e, 1)'
    BY DEF ChainInv, Chain
  <2>1. Chain(e, 1)
    BY DEF ChainInv, Chain
  <2> QED
    BY <2>1, StepChain
<1> QED
  BY <1>1, <1>2, TypeCorrect, PTL DEF Spec

(* worker/tasks.py:232: retries do not multiply.  An environment has one   *)
(* chain of attempts, and one more for each process killed, whatever is    *)
(* retried, delivered again or lost.                                       *)
THEOREM OneChain == Spec => []OneAttemptChain
<1>1. ChainInv => OneAttemptChain
  BY DEF ChainInv, OneAttemptChain
<1> QED
  BY <1>1, ChainAlways, PTL

-----------------------------------------------------------------------------
(* provision_environment alone puts an environment in service for the      *)
(* first time, and its attempt ends with that commit.                      *)
LEMMA OnlyCommitServes ==
  ASSUME TypeOK, [Next]_vars, NEW e \in Env, ~HasServed(e), HasServed(e)'
  PROVE  \E w \in Worker : /\ ProvisionCommit(w) /\ job[w].env = e
                          /\ UNCHANGED <<apiVars, crashes>>
<1> USE DEF HasServed
<1>1. CASE UNCHANGED <<status, stack>>
  BY <1>1
<1>2. CASE Tick \/ UNCHANGED vars
  BY <1>1, <1>2 DEF Tick, vars, tableVars, AgeRows
<1>3. ASSUME NEW d \in Env, Request(d) PROVE FALSE
  BY <1>3 DEF Request, CreateEnqueue, CreateCommit, CreateAbort, Delete, SetStatus, tableVars
<1>4. ASSUME NEW w \in Worker, Take(w) \/ Launch(w) \/ Crash(w) PROVE FALSE
  BY <1>4 DEF Take, Deliver, Launch, StartSweep, StartReap, StartRecover, StartReconcile, Crash,
     Die, tableVars
<1>5. ASSUME NEW w \in Worker, Work(w)
      PROVE  ProvisionCommit(w) /\ job[w].env = e /\ UNCHANGED <<apiVars, crashes>>
  <2>1. CASE ProvisionCommit(w)
    BY <1>5, <2>1 DEF Work, ProvisionCommit, SetStatus
  <2>2. CASE ProvisionStep(w) /\ ~ProvisionCommit(w)
    BY <2>2 DEF ProvisionStep, ProvisionLoad, ProvisionOpen, ProvisionReject, BuildNext,
       ProvisionRaise, ProvisionFail, ProvisionRetry, MarkFailed, SetStatus, TouchStatus, tableVars
  <2>3. CASE TeardownStep(w)
    BY <2>3 DEF TeardownStep, TeardownLoad, TeardownClaim, TeardownRemove, TeardownDone,
       TeardownRaise, TeardownHandle, MarkFailed, SetStatus, TouchStatus, tableVars
  <2>4. CASE SweepStep(w) \/ Ack(w)
    BY <2>4 DEF SweepStep, ReapClaim, ReapSend, RecoverCommit, OrphanCheck, OrphanRemove,
       SweepRaise, Ack, SetStatus, tableVars
  <2> QED
    BY <1>5, <2>1, <2>2, <2>3, <2>4 DEF Work
<1> QED
  BY <1>2, <1>3, <1>4, <1>5 DEF Next

(* The attempt that commits RUNNING was the one its environment had.       *)
LEMMA CommitChain ==
  ASSUME TypeOK, NEW w \in Worker, ProvisionCommit(w), UNCHANGED <<apiVars, crashes>>,
         NEW e \in Env, job[w].env = e, Chain(e, 1)
  PROVE  template'[e] # "none" /\ Chain(e, 0)'
<1>1. /\ pc[w] = "build" /\ pc' = [pc EXCEPT ![w] = "ack"] /\ job' = job /\ queue' = queue
      /\ template' = template /\ crashes' = crashes
  BY DEF ProvisionCommit, Goto, apiVars
<1>2. w \in Attempting(e) /\ job[w] \in Calls(e)
  BY <1>1 DEF Attempting, ProvisionLabels, Calls, TypeOK, WorkerTypeOK
<1>3. template[e] # "none"
  BY <1>2 DEF Chain, Unasked
<1>4. Attempting(e)' = Attempting(e) \ {w}
  BY <1>1 DEF Attempting, TypeOK, WorkerTypeOK, ProvisionLabels
<1>5. /\ IsFiniteSet(Attempting(e)')
      /\ Cardinality(Attempting(e)') = Cardinality(Attempting(e)) - 1
  BY <1>2, <1>4, FS_RemoveElement DEF Chain
<1>6. Attempts(e)' = Total(queue, Calls(e)) + Cardinality(Attempting(e)')
  BY <1>1 DEF Attempts, Calls
<1>7. Attempts(e)' <= 0 + crashes'
  BY <1>1, <1>5, <1>6, AttemptsTypes DEF Chain, Attempts
<1> QED
  BY <1>1, <1>3, <1>5, <1>7 DEF Chain, Unasked, Calls

LEMMA SettledChain ==
  ASSUME TypeOK, ChainInv, NEW e \in Env
  PROVE  Chain(e, 1) /\ (RunningIsSettled /\ HasServed(e) => Chain(e, 0))
<1>1. Chain(e, 1)
  BY DEF ChainInv, Chain
<1>2. ASSUME RunningIsSettled, HasServed(e) PROVE Chain(e, 0)
  <2>1. Attempts(e) <= 0 + crashes
    <3>1. Attempts(e) <= crashes
      BY <1>2 DEF RunningIsSettled
    <3> QED
      BY <1>1, <3>1, AttemptsTypes
  <2> QED
    BY <1>1, <2>1 DEF Chain
<1> QED
  BY <1>1, <1>2

LEMMA SettledStep ==
  ASSUME TypeOK, TypeOK', ChainInv, ChainInv', SettledInv, [Next]_vars
  PROVE  SettledInv'
<1> SUFFICES ASSUME NEW e \in Env, HasServed(e)'
             PROVE  template'[e] # "none" /\ Chain(e, 0)'
  <2>1. ASSUME NEW d \in Env, Chain(d, 0)' PROVE Attempts(d)' <= crashes'
    <3>1. Attempts(d)' = Total(queue', Calls(d)) + Cardinality(Attempting(d)')
      BY DEF Attempts, Calls
    <3>2. Total(queue', Calls(d)) \in Nat /\ Cardinality(Attempting(d)') \in Nat
      <4>1. IsFiniteSet(Copies(queue', Calls(d))) /\ IsFiniteSet(Attempting(d)')
        BY <2>1 DEF Chain, Calls
      <4> QED
        BY <4>1, TotalType, FS_CardinalityType
    <3>3. Attempts(d)' <= 0 + crashes' /\ crashes' \in Nat
      BY <2>1 DEF Chain, TypeOK
    <3> QED
      BY <3>1, <3>2, <3>3
  <2> QED
    BY <2>1 DEF SettledInv, RunningIsSettled
<1>1. Chain(e, 1) /\ (HasServed(e) => Chain(e, 0))
  BY SettledChain DEF SettledInv
<1>2. CASE HasServed(e)
  <2>1. template[e] # "none" /\ Chain(e, 0)
    BY <1>1, <1>2 DEF SettledInv
  <2>2. Chain(e, 0)'
    BY <2>1, StepChain
  <2>3. template'[e] # "none"
    BY <2>1 DEF Next, Request, CreateEnqueue, CreateCommit, CreateAbort, Delete, Take, Launch,
       Work, Crash, Tick, apiVars, vars, TypeOK, TableTypeOK
  <2> QED
    BY <2>2, <2>3
<1>3. CASE ~HasServed(e)
  <2>1. PICK w \in Worker :
          ProvisionCommit(w) /\ job[w].env = e /\ UNCHANGED <<apiVars, crashes>>
    BY <1>3, OnlyCommitServes
  <2> QED
    BY <1>1, <2>1, CommitChain
<1> QED
  BY <1>2, <1>3

LEMMA SettledAlways == Spec => []SettledInv
<1>1. Init => SettledInv
  BY DEF Init, TableInit, SettledInv, RunningIsSettled, HasServed
<1>2. TypeOK /\ TypeOK' /\ ChainInv /\ ChainInv' /\ SettledInv /\ [Next]_vars => SettledInv'
  BY SettledStep
<1> QED
  BY <1>1, <1>2, TypeCorrect, ChainAlways, PTL DEF Spec

(* worker/tasks.py:85: a row that is or has been RUNNING is so after the   *)
(* last attempt of its chain; whatever attempt is still to come was        *)
(* brought about by a kill.                                                *)
THEOREM Settled == Spec => []RunningIsSettled
<1>1. SettledInv => RunningIsSettled
  BY DEF SettledInv
<1> QED
  BY <1>1, SettledAlways, PTL

(* The reverse of Promises!RunningNotReprovisioned: until a process is     *)
(* killed, no retry, sweep or request takes a RUNNING row back to          *)
(* PROVISIONING.                                                           *)
OnlyKillsReprovision ==
  [][\A e \in Env :
       status[e] = "running" /\ status'[e] = "provisioning" => crashes > 0]_vars

THEOREM ReprovisionNeedsKill == Spec => OnlyKillsReprovision
<1> DEFINE Kills == \A e \in Env :
                      status[e] = "running" /\ status'[e] = "provisioning" => crashes > 0
<1>1. TypeOK /\ ChainInv /\ SettledInv /\ [Next]_vars => Kills
  <2> SUFFICES ASSUME TypeOK, ChainInv, SettledInv, [Next]_vars, NEW e \in Env,
                      status[e] = "running", status'[e] = "provisioning"
               PROVE  crashes > 0
    OBVIOUS
  <2>1. PICK w \in Attempting(e) : TRUE
    <3>1. CASE Tick \/ UNCHANGED vars
      BY <3>1 DEF Tick, vars, tableVars, AgeRows
    <3>2. ASSUME NEW d \in Env, Request(d) PROVE FALSE
      BY <3>2 DEF Request, CreateEnqueue, CreateCommit, CreateAbort, Delete, SetStatus, tableVars
    <3>3. ASSUME NEW w \in Worker, Take(w) \/ Launch(w) \/ Crash(w) PROVE FALSE
      BY <3>3 DEF Take, Deliver, Launch, StartSweep, StartReap, StartRecover, StartReconcile,
         Crash, Die, tableVars
    <3>4. ASSUME NEW w \in Worker, ProvisionStep(w) PROVE w \in Attempting(e)
      BY <3>4 DEF ProvisionStep, ProvisionLoad, ProvisionOpen, ProvisionReject, BuildNext,
         ProvisionRaise, ProvisionCommit, ProvisionFail, ProvisionRetry, MarkFailed, SetStatus,
         TouchStatus, tableVars, Attempting, ProvisionLabels
    <3>5. ASSUME NEW w \in Worker, TeardownStep(w) PROVE FALSE
      BY <3>5 DEF TeardownStep, TeardownLoad, TeardownClaim, TeardownRemove, TeardownDone,
         TeardownRaise, TeardownHandle, MarkFailed, SetStatus, TouchStatus, tableVars
    <3>6. ASSUME NEW w \in Worker, SweepStep(w) \/ Ack(w) PROVE FALSE
      BY <3>6 DEF SweepStep, ReapClaim, ReapSend, RecoverCommit, OrphanCheck, OrphanRemove,
         SweepRaise, Ack, SetStatus, tableVars
    <3> QED
      BY <3>1, <3>2, <3>3, <3>4, <3>5, <3>6 DEF Next, Work
  <2>2. Chain(e, 0)
    BY SettledChain DEF SettledInv, HasServed
  <2>3. Cardinality(Attempting(e)) > 0
    BY <2>1, <2>2, AttemptsTypes, FS_EmptySet DEF Chain
  <2> QED
    BY <2>2, <2>3, AttemptsTypes DEF Chain, Attempts
<1>2. OnlyKillsReprovision <=> [][Kills]_vars
  BY DEF OnlyKillsReprovision
<1> HIDE DEF Kills
<1> QED
  BY <1>1, <1>2, TypeCorrect, ChainAlways, SettledAlways, PTL DEF Spec
=============================================================================
