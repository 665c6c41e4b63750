--------------------------- MODULE OwnershipProofs --------------------------
(***************************************************************************)
(* The inductive invariant of ProvisionerInv, and the safety properties    *)
(* that follow from it when the grace period outlasts every build.         *)
(***************************************************************************)
EXTENDS ProvisionerProofs

(* The ways most steps leave the stacks alone.                             *)
SameHost == UNCHANGED <<holder, age, minted>>

FewerBuilds ==
  \A v \in Worker :
    /\ pc'[v] = "build" =>
         /\ pc[v] = "build" /\ job'[v] = job[v]
         /\ gen'[v] = gen[v] /\ next'[v] = next[v] /\ runAge'[v] = runAge[v]
    /\ pc'[v] # "build" => gen'[v] = 0 /\ next'[v] = 0 /\ runAge'[v] = 0

FewerIds == \A v \in Worker : ids'[v] \subseteq ids[v]

FewerServed ==
  /\ UNCHANGED stack
  /\ \A e \in Env : status'[e] = "running" => status[e] = "running"

FewerDoomed ==
  \A v \in Worker : \A id \in Doomed(v)' :
    id \in Doomed(v) \/ status'[id.env] # "running"

-----------------------------------------------------------------------------
LEMMA OwnershipInit == Init => OwnershipInv
  BY DockerAssumption
  DEF Init, TableInit, DockerInit, WorkerInit, OwnershipInv, LocalsClean, IdsScoped,
      NumbersGiven, SoleBuilder, BuildFrontier, BuildYoung, DoomedUnserved, Doomed,
      RunningStackIntact, Building, Part

(* Nothing the invariant says of the builds depends on anything else.      *)
LEMMA FewerBuildsKeep ==
  ASSUME OwnershipInv, FewerBuilds, SameHost
  PROVE  LocalsClean' /\ BuildFrontier' /\ BuildYoung'
<1> USE DEF OwnershipInv, FewerBuilds, SameHost
<1>1. LocalsClean'
  BY DEF LocalsClean
<1>2. BuildFrontier'
  BY DEF BuildFrontier, Building, Part
<1>3. BuildYoung'
  BY DEF BuildYoung, Building, Part
<1> QED
  BY <1>1, <1>2, <1>3

(* A step that only ends builds, drops ids and takes rows out of RUNNING.  *)
LEMMA QuietStep ==
  ASSUME OwnershipInv, TypeOK, TypeOK', FewerBuilds, SameHost, FewerIds, FewerServed, FewerDoomed,
         IdsScoped'
  PROVE  OwnershipInv'
<1> USE DEF OwnershipInv
<1>1. LocalsClean' /\ BuildFrontier' /\ BuildYoung'
  BY FewerBuildsKeep
<1>2. NumbersGiven'
  BY DEF NumbersGiven, FewerBuilds, SameHost, FewerIds, FewerServed, Building, Part
<1>3. SoleBuilder'
  BY DEF SoleBuilder, FewerBuilds, FewerIds, FewerServed, Building
<1>4. DoomedUnserved'
  <2> SUFFICES ASSUME NEW v \in Worker, NEW id \in Doomed(v)', status'[id.env] = "running"
               PROVE  stack'[id.env] # id.stack
    BY DEF DoomedUnserved
  <2>1. id \in Doomed(v)
    BY DEF FewerDoomed
  <2>2. id.env \in Env
    BY <2>1 DEF Doomed, TypeOK, WorkerTypeOK, Id
  <2> QED
    BY <2>1, <2>2 DEF DoomedUnserved, FewerServed
<1>5. RunningStackIntact'
  BY DEF RunningStackIntact, FewerServed, SameHost, Part
<1> QED
  BY <1>1, <1>2, <1>3, <1>4, <1>5

-----------------------------------------------------------------------------
(* A step of worker w that holds no id afterwards and builds nothing new.  *)
OthersKeep(w) ==
  \A v \in Worker \ {w} :
    /\ pc'[v] = pc[v] /\ job'[v] = job[v] /\ same'[v] = same[v]
    /\ gen'[v] = gen[v] /\ next'[v] = next[v] /\ runAge'[v] = runAge[v]
    /\ ids'[v] = ids[v] /\ batch'[v] = batch[v]

LEMMA HandsFreeStep ==
  ASSUME OwnershipInv, TypeOK, TypeOK', NEW w \in Worker, OthersKeep(w),
         SameHost, FewerServed, ids'[w] = {},
         pc'[w] # "build" /\ gen'[w] = 0 /\ next'[w] = 0 /\ runAge'[w] = 0
  PROVE  OwnershipInv'
<1>1. FewerBuilds
  BY DEF OthersKeep, FewerBuilds, OwnershipInv, LocalsClean
<1>2. FewerIds
  BY DEF OthersKeep, FewerIds
<1>3. \A v \in Worker : Doomed(v)' \subseteq Doomed(v)
  BY DEF OthersKeep, Doomed
<1>4. FewerDoomed
  BY <1>3 DEF FewerDoomed
<1>5. IdsScoped'
  BY DEF OthersKeep, IdsScoped, OwnershipInv
<1> QED
  BY <1>1, <1>2, <1>4, <1>5, QuietStep

LEMMA RequestOwnership ==
  ASSUME OwnershipInv, TypeOK, TypeOK', NEW e \in Env, Request(e)
  PROVE  OwnershipInv'
<1> USE DEF Request, workerVars, buildVars, dockerVars, tableVars
<1>1. SameHost /\ FewerIds
  BY DEF SameHost, FewerIds
<1>2. FewerBuilds
  BY DEF FewerBuilds, OwnershipInv, LocalsClean
<1>3. FewerServed
  BY DEF FewerServed, CreateEnqueue, CreateCommit, CreateAbort, Delete, SetStatus
<1>4. \A v \in Worker : Doomed(v)' = Doomed(v)
  BY DEF Doomed
<1>5. FewerDoomed /\ IdsScoped'
  BY <1>4 DEF FewerDoomed, IdsScoped, OwnershipInv
<1> QED
  BY <1>1, <1>2, <1>3, <1>5, QuietStep

(* The steps of worker w that only touch the table or the queue.           *)
QuietProvision(w) ==
  \/ ProvisionLoad(w) \/ ProvisionReject(w) \/ ProvisionRaise(w)
  \/ ProvisionFail(w) \/ ProvisionRetry(w)

LEMMA QuietProvisionOwnership ==
  ASSUME OwnershipInv, TypeOK, TypeOK', NEW w \in Worker, QuietProvision(w)
  PROVE  OwnershipInv'
<1> USE DEF QuietProvision, ProvisionLoad, ProvisionReject, ProvisionRaise,
            ProvisionFail, ProvisionRetry, Goto
<1>1. SameHost
  BY DEF SameHost, dockerVars
<1>2. FewerServed
  BY DEF FewerServed, MarkFailed, SetStatus, tableVars
<1>3. OthersKeep(w)
  BY DEF OthersKeep, ClearBuild, buildVars, TypeOK, WorkerTypeOK
<1>4. ids'[w] = {}
  BY DEF OwnershipInv, IdsScoped
<1>5. pc'[w] # "build" /\ gen'[w] = 0 /\ next'[w] = 0 /\ runAge'[w] = 0
  BY DEF OwnershipInv, LocalsClean, ClearBuild, buildVars, TypeOK, WorkerTypeOK
<1> QED
  BY <1>1, <1>2, <1>3, <1>4, <1>5, HandsFreeStep

QuietTeardown(w) == TeardownDone(w) \/ TeardownRaise(w) \/ TeardownHandle(w)

LEMMA QuietTeardownOwnership ==
  ASSUME OwnershipInv, TypeOK, TypeOK', NEW w \in Worker, QuietTeardown(w)
  PROVE  OwnershipInv'
<1> USE DEF QuietTeardown, TeardownDone, TeardownRaise, TeardownHandle, Goto
<1>1. SameHost
  BY DEF SameHost, dockerVars
<1>2. FewerServed
  BY DEF FewerServed, MarkFailed, SetStatus, tableVars
<1>3. OthersKeep(w)
  BY DEF OthersKeep, buildVars, TypeOK, WorkerTypeOK
<1>4. ids'[w] = {}
  BY DEF OwnershipInv, IdsScoped, TypeOK, WorkerTypeOK
<1>5. pc'[w] # "build" /\ gen'[w] = 0 /\ next'[w] = 0 /\ runAge'[w] = 0
  BY DEF OwnershipInv, LocalsClean, buildVars, TypeOK, WorkerTypeOK
<1> QED
  BY <1>1, <1>2, <1>3, <1>4, <1>5, HandsFreeStep

QuietSweep(w) ==
  \/ StartReap(w) \/ ReapClaim(w) \/ ReapSend(w)
  \/ StartRecover(w) \/ RecoverCommit(w)
  \/ SweepRaise(w)

LEMMA QuietSweepOwnership ==
  ASSUME OwnershipInv, TypeOK, TypeOK', NEW w \in Worker, QuietSweep(w)
  PROVE  OwnershipInv'
<1> USE DEF QuietSweep, StartReap, ReapClaim, ReapSend, StartRecover, RecoverCommit,
            SweepRaise, Goto
<1>1. SameHost
  BY DEF SameHost, CallFails, dockerVars
<1>2. FewerServed
  BY DEF FewerServed, SetStatus, tableVars
<1>3. OthersKeep(w)
  BY DEF OthersKeep, buildVars, TypeOK, WorkerTypeOK
<1>4. ids'[w] = {}
  BY DEF OwnershipInv, IdsScoped, TypeOK, WorkerTypeOK
<1>5. pc'[w] # "build" /\ gen'[w] = 0 /\ next'[w] = 0 /\ runAge'[w] = 0
  BY DEF OwnershipInv, LocalsClean, buildVars, TypeOK, WorkerTypeOK
<1> QED
  BY <1>1, <1>2, <1>3, <1>4, <1>5, HandsFreeStep

LEMMA DeliveryOwnership ==
  ASSUME OwnershipInv, TypeOK, TypeOK', NEW w \in Worker,
         (\E m \in Msg : Deliver(w, m)) \/ Ack(w) \/ Die(w)
  PROVE  OwnershipInv'
<1> USE DEF Deliver, Ack, Die, Goto
<1>1. SameHost
  BY DEF SameHost, dockerVars
<1>2. FewerServed
  BY DEF FewerServed, tableVars
<1>3. OthersKeep(w)
  BY DEF OthersKeep, ClearBuild, buildVars, TypeOK, WorkerTypeOK
<1>4. ids'[w] = {}
  BY DEF OwnershipInv, IdsScoped, TypeOK, WorkerTypeOK
<1>5. pc'[w] # "build" /\ gen'[w] = 0 /\ next'[w] = 0 /\ runAge'[w] = 0
  BY DEF OwnershipInv, LocalsClean, ClearBuild, buildVars, TypeOK, WorkerTypeOK
<1> QED
  BY <1>1, <1>2, <1>3, <1>4, <1>5, HandsFreeStep

-----------------------------------------------------------------------------
(* The steps of a teardown and of the orphan sweep up to the removal.      *)
LEMMA TeardownLoadOwnership ==
  ASSUME OwnershipInv, TypeOK, TypeOK', NEW w \in Worker, TeardownLoad(w)
  PROVE  OwnershipInv'
<1> DEFINE e == job[w].env
<1> USE DEF TeardownLoad, Goto
<1>0. /\ e \in Env
      /\ pc'[w] = "claim"
      /\ ids'[w] = IF stack[e] = 0 THEN {} ELSE StackIds(e, stack[e])
      /\ same'[w] = (status[e] = "stopping")
      /\ UNCHANGED <<job, status, stack, holder, age, minted, gen, next, runAge>>
  BY DEF TypeOK, WorkerTypeOK, TeardownLabels, TeardownMsg, buildVars, tableVars, dockerVars
<1>1. OthersKeep(w)
  BY DEF OthersKeep, buildVars, TypeOK, WorkerTypeOK
<1>2. \A id \in ids'[w] : id.env = e /\ id.stack = stack[e]
  BY <1>0 DEF StackIds
<1>3. FewerBuilds /\ SameHost
  BY <1>0, <1>1 DEF FewerBuilds, SameHost, OthersKeep, OwnershipInv, LocalsClean
<1>4. LocalsClean' /\ BuildFrontier' /\ BuildYoung'
  BY <1>3, FewerBuildsKeep
<1>5. IdsScoped'
  BY <1>0, <1>1, <1>2 DEF IdsScoped, OthersKeep, OwnershipInv
<1>6. NumbersGiven'
  BY <1>0, <1>1, <1>2, <1>3
  DEF NumbersGiven, OthersKeep, FewerBuilds, OwnershipInv, Building, Part
<1>7. SoleBuilder'
  <2> SUFFICES ASSUME NEW v \in Worker, NEW f \in Env, Building(v, f)', gen'[v] # 0
               PROVE  /\ stack'[f] # gen'[v]
                      /\ \A u \in Worker : Building(u, f)' /\ gen'[u] = gen'[v] => u = v
                      /\ \A u \in Worker : \A id \in ids'[u] : id.env = f => id.stack # gen'[v]
    BY DEF SoleBuilder
  <2>1. Building(v, f) /\ gen[v] # 0 /\ gen'[v] = gen[v]
    BY <1>3 DEF FewerBuilds, Building
  <2>2. \A u \in Worker : Building(u, f)' => Building(u, f) /\ gen'[u] = gen[u]
    BY <1>3 DEF FewerBuilds, Building
  <2>3. \A u \in Worker : \A id \in ids'[u] : id.env = f => id.stack # gen[v]
    BY <1>0, <1>1, <1>2, <2>1 DEF OthersKeep, OwnershipInv, SoleBuilder
  <2> QED
    BY <1>0, <2>1, <2>2, <2>3 DEF OwnershipInv, SoleBuilder
<1>8. DoomedUnserved'
  <2>1. \A id \in Doomed(w)' : status'[id.env] # "running"
    BY <1>0, <1>2 DEF Doomed
  <2>2. \A v \in Worker \ {w} : Doomed(v)' = Doomed(v)
    BY <1>1 DEF OthersKeep, Doomed
  <2> QED
    BY <1>0, <2>1, <2>2 DEF DoomedUnserved, OwnershipInv
<1>9. RunningStackIntact'
  BY <1>0 DEF RunningStackIntact, OwnershipInv, Part
<1> QED
  BY <1>4, <1>5, <1>6, <1>7, <1>8, <1>9 DEF OwnershipInv

LEMMA TeardownClaimOwnership ==
  ASSUME OwnershipInv, TypeOK, TypeOK', NEW w \in Worker, TeardownClaim(w)
  PROVE  OwnershipInv'
<1> USE DEF TeardownClaim, Goto
<1>1. OthersKeep(w)
  BY DEF OthersKeep, buildVars, TypeOK, WorkerTypeOK
<1>2. FewerBuilds /\ SameHost /\ FewerIds
  BY <1>1 DEF FewerBuilds, SameHost, FewerIds, OthersKeep, OwnershipInv, LocalsClean,
     dockerVars, buildVars, TypeOK, WorkerTypeOK
<1>3. FewerServed
  BY DEF FewerServed, SetStatus, TouchStatus
<1>4. IdsScoped'
  BY <1>1 DEF IdsScoped, OthersKeep, OwnershipInv, TypeOK, WorkerTypeOK
<1>5. FewerDoomed
  <2> SUFFICES ASSUME NEW v \in Worker, NEW id \in Doomed(v)'
               PROVE  id \in Doomed(v) \/ status'[id.env] # "running"
    BY DEF FewerDoomed
  <2>1. CASE v # w
    BY <1>1, <2>1 DEF OthersKeep, Doomed
  <2>2. CASE v = w
    <3>1. id \in ids[w] /\ id.env = job[w].env
      BY <2>2 DEF Doomed, OwnershipInv, IdsScoped
    <3>2. CASE same[w]
      BY <2>2, <3>1, <3>2 DEF Doomed
    <3>3. CASE ~same[w]
      <4>1. job[w].env \in Env
        BY DEF TypeOK, WorkerTypeOK, TeardownLabels, TeardownMsg
      <4> QED
        BY <3>1, <3>3, <4>1 DEF SetStatus
    <3> QED
      BY <3>2, <3>3
  <2> QED
    BY <2>1, <2>2
<1> QED
  BY <1>2, <1>3, <1>4, <1>5, QuietStep

LEMMA OrphanCheckOwnership ==
  ASSUME OwnershipInv, TypeOK, TypeOK', NEW w \in Worker, OrphanCheck(w)
  PROVE  OwnershipInv'
<1> USE DEF OrphanCheck, Goto
<1>1. OthersKeep(w)
  BY DEF OthersKeep, buildVars, TypeOK, WorkerTypeOK
<1>2. FewerServed /\ SameHost
  BY DEF FewerServed, SameHost, dockerVars, tableVars
<1>3. ids'[w] \subseteq ids[w]
  BY DEF TypeOK, WorkerTypeOK
<1>4. FewerBuilds /\ FewerIds
  BY <1>1, <1>3 DEF FewerBuilds, FewerIds, OthersKeep, OwnershipInv, LocalsClean,
     buildVars, TypeOK, WorkerTypeOK
<1>5. ids'[w] = {} \/ pc'[w] \in {"orphans", "sweep"}
  BY DEF TypeOK, WorkerTypeOK
<1>6. IdsScoped'
  BY <1>1, <1>5 DEF IdsScoped, OthersKeep, OwnershipInv
<1>7. FewerDoomed
  <2>1. \A id \in Doomed(w)' : status'[id.env] # "running"
    BY DEF Doomed, Orphaned, Exists, Terminal, tableVars, TypeOK, WorkerTypeOK
  <2>2. \A v \in Worker \ {w} : Doomed(v)' = Doomed(v)
    BY <1>1 DEF OthersKeep, Doomed
  <2> QED
    BY <2>1, <2>2 DEF FewerDoomed
<1> QED
  BY <1>2, <1>4, <1>6, <1>7, QuietStep

-----------------------------------------------------------------------------
(* The resources a step removes or lists are nobody's.                     *)
LEMMA RemovalOwnership ==
  ASSUME OwnershipInv, TypeOK, TypeOK', NEW w \in Worker, NEW id \in Doomed(w),
         RemovePart(id), FewerBuilds, FewerIds, FewerDoomed, IdsScoped',
         UNCHANGED <<status, stack>>
  PROVE  OwnershipInv'
<1>1. id \in Id /\ id.env \in Env /\ id.part \in Part /\ id.stack # 0
  BY DEF Doomed, TypeOK, WorkerTypeOK, Id
<1>2. CASE UNCHANGED <<holder, age>>
  BY <1>2, QuietStep DEF RemovePart, CallFails, SameHost, FewerServed, dockerVars
<1>3. CASE /\ Present(id)
           /\ holder' = [holder EXCEPT ![id.env][id.part] = 0]
           /\ age' = [age EXCEPT ![id.env][id.part] = 0]
           /\ UNCHANGED <<minted, faults>>
  <2>1. \A e \in Env, p \in Part :
          holder'[e][p] = IF e = id.env /\ p = id.part THEN 0 ELSE holder[e][p]
    BY <1>1, <1>3 DEF TypeOK, DockerTypeOK
  <2>2. \A e \in Env, p \in Part : age'[e][p] = age[e][p] \/ age'[e][p] = 0
    BY <1>1, <1>3 DEF TypeOK, DockerTypeOK
  <2>3. LocalsClean'
    BY DEF FewerBuilds, LocalsClean, OwnershipInv
  <2>4. NumbersGiven'
    <3>1. \A e \in Env, p \in Part : holder'[e][p] <= minted'[e]
      BY <1>3, <2>1 DEF NumbersGiven, OwnershipInv, TypeOK, DockerTypeOK
    <3>2. \A v \in Worker, e \in Env : Building(v, e)' => gen'[v] <= minted'[e]
      BY <1>3 DEF NumbersGiven, OwnershipInv, FewerBuilds, Building
    <3>3. \A v \in Worker : \A i \in ids'[v] : i.stack <= minted'[i.env]
      BY <1>3 DEF NumbersGiven, OwnershipInv, FewerIds
    <3>4. \A e \in Env : stack'[e] <= minted'[e]
      BY <1>3 DEF NumbersGiven, OwnershipInv
    <3> QED
      BY <3>1, <3>2, <3>3, <3>4 DEF NumbersGiven, Part
  <2>5. SoleBuilder'
    BY DEF SoleBuilder, FewerBuilds, FewerIds, OwnershipInv, Building
  <2>6. BuildFrontier'
    <3> SUFFICES ASSUME NEW v \in Worker, NEW e \in Env, NEW p \in Part,
                        Building(v, e)', gen'[v] # 0
                 PROVE  holder'[e][p] = gen'[v] <=> p < next'[v]
      BY DEF BuildFrontier, Part
    <3>1. Building(v, e) /\ gen[v] # 0 /\ gen'[v] = gen[v] /\ next'[v] = next[v]
      BY DEF FewerBuilds, Building
    <3>2. ~(e = id.env /\ holder[e][id.part] = gen[v])
      BY <1>3, <3>1 DEF OwnershipInv, SoleBuilder, Doomed, Present
    <3> QED
      BY <2>1, <3>1, <3>2 DEF OwnershipInv, BuildFrontier
  <2>7. BuildYoung'
    BY <2>2 DEF BuildYoung, FewerBuilds, OwnershipInv, Building, Part, TypeOK, WorkerTypeOK
  <2>8. RunningStackIntact'
    <3> SUFFICES ASSUME NEW e \in Env, status[e] = "running"
                 PROVE  stack[e] # 0 /\ \A p \in Part : holder'[e][p] = stack[e]
      BY DEF RunningStackIntact, Part
    <3>1. stack[e] # 0 /\ \A p \in Part : holder[e][p] = stack[e]
      BY DEF RunningStackIntact, OwnershipInv
    <3>2. e # id.env
      BY <1>1, <1>3, <3>1 DEF DoomedUnserved, OwnershipInv, Present
    <3> QED
      BY <2>1, <3>1, <3>2
  <2>9. DoomedUnserved'
    <3> SUFFICES ASSUME NEW v \in Worker, NEW i \in Doomed(v)', status'[i.env] = "running"
                 PROVE  stack'[i.env] # i.stack
      BY DEF DoomedUnserved
    <3> QED
      BY DEF FewerDoomed, DoomedUnserved, OwnershipInv
  <2> QED
    BY <2>3, <2>4, <2>5, <2>6, <2>7, <2>8, <2>9 DEF OwnershipInv
<1> QED
  BY <1>2, <1>3 DEF RemovePart, CallFails, dockerVars

LEMMA RemoveStepOwnership ==
  ASSUME OwnershipInv, TypeOK, TypeOK', NEW w \in Worker, TeardownRemove(w) \/ OrphanRemove(w)
  PROVE  OwnershipInv'
<1> USE DEF TeardownRemove, OrphanRemove, Goto
<1>1. PICK id \in Doomed(w) : RemovePart(id) /\ ids' = [ids EXCEPT ![w] = @ \ {id}]
  BY DEF Doomed
<1>2. OthersKeep(w)
  BY DEF OthersKeep, buildVars, TypeOK, WorkerTypeOK
<1>3. ids'[w] = ids[w] \ {id}
  BY <1>1 DEF TypeOK, WorkerTypeOK
<1>4. FewerBuilds /\ FewerIds
  BY <1>2, <1>3 DEF FewerBuilds, FewerIds, OthersKeep, OwnershipInv, LocalsClean,
     buildVars, TypeOK, WorkerTypeOK
<1>5. Doomed(w)' \subseteq Doomed(w)
  BY <1>3 DEF Doomed, TypeOK, WorkerTypeOK
<1>6. FewerDoomed
  BY <1>2, <1>5 DEF FewerDoomed, OthersKeep, Doomed
<1>7. IdsScoped'
  <2>1. ids'[w] = {} \/ pc'[w] = pc[w] \/ pc'[w] = "orphans"
    BY DEF TypeOK, WorkerTypeOK
  <2>2. job'[w] = job[w]
    OBVIOUS
  <2> QED
    BY <1>2, <1>3, <2>1, <2>2 DEF IdsScoped, OthersKeep, OwnershipInv
<1>8. UNCHANGED <<status, stack>>
  BY DEF tableVars
<1> QED
  BY <1>1, <1>4, <1>6, <1>7, <1>8, RemovalOwnership

(* An id the sweep lists is of a resource as old as the grace period, so   *)
(* it is not of a stack under construction.                                *)
LEMMA ListedUnowned ==
  ASSUME GraceOutlastsBuild, OwnershipInv, TypeOK, NEW id \in FindLabelled,
         NEW v \in Worker, Building(v, id.env), gen[v] # 0
  PROVE  id.stack # gen[v]
<1>1. PICK e \in Env, p \in Part :
        /\ id = [env |-> e, part |-> p, stack |-> holder[e][p]]
        /\ age[e][p] >= Grace
  BY DEF FindLabelled
<1>2. SUFFICES ASSUME holder[e][p] = gen[v] PROVE FALSE
  BY <1>1
<1>3. p < next[v]
  BY <1>1, <1>2 DEF OwnershipInv, BuildFrontier
<1>4. age[e][p] <= runAge[v] /\ runAge[v] <= BuildBound
  BY <1>1, <1>3 DEF OwnershipInv, BuildYoung
<1>5. age[e][p] \in Nat /\ runAge[v] \in Nat
  BY ClockAssumption DEF TypeOK, DockerTypeOK, WorkerTypeOK, Age
<1> QED
  BY <1>1, <1>4, <1>5, DockerAssumption, ProvisionerAssumption, ClockAssumption
  DEF GraceOutlastsBuild

LEMMA StartReconcileOwnership ==
  ASSUME GraceOutlastsBuild, OwnershipInv, TypeOK, TypeOK', NEW w \in Worker,
         StartReconcile(w)
  PROVE  OwnershipInv'
<1> USE DEF StartReconcile, Goto
<1>0. /\ pc[w] = "idle" /\ pc'[w] = "orphans" /\ ids'[w] = FindLabelled
      /\ UNCHANGED <<job, status, stack, holder, age, minted, gen, next, runAge>>
  BY DEF TypeOK, WorkerTypeOK, buildVars, tableVars, dockerVars
<1>1. OthersKeep(w)
  BY DEF OthersKeep, buildVars, TypeOK, WorkerTypeOK
<1>2. \A id \in FindLabelled : id.env \in Env /\ id.stack <= minted[id.env]
  BY DEF FindLabelled, OwnershipInv, NumbersGiven
<1>3. FewerBuilds /\ SameHost
  BY <1>0, <1>1 DEF FewerBuilds, SameHost, OthersKeep, OwnershipInv, LocalsClean
<1>4. LocalsClean' /\ BuildFrontier' /\ BuildYoung'
  BY <1>3, FewerBuildsKeep
<1>5. IdsScoped'
  BY <1>0, <1>1 DEF IdsScoped, OthersKeep, OwnershipInv
<1>6. NumbersGiven'
  BY <1>0, <1>1, <1>2, <1>3
  DEF NumbersGiven, OthersKeep, FewerBuilds, OwnershipInv, Building, Part
<1>7. SoleBuilder'
  <2> SUFFICES ASSUME NEW v \in Worker, NEW f \in Env, Building(v, f)', gen'[v] # 0
               PROVE  /\ stack'[f] # gen'[v]
                      /\ \A u \in Worker : Building(u, f)' /\ gen'[u] = gen'[v] => u = v
                      /\ \A u \in Worker : \A id \in ids'[u] : id.env = f => id.stack # gen'[v]
    BY DEF SoleBuilder
  <2>1. Building(v, f) /\ gen[v] # 0 /\ gen'[v] = gen[v]
    BY <1>3 DEF FewerBuilds, Building
  <2>2. \A u \in Worker : Building(u, f)' => Building(u, f) /\ gen'[u] = gen[u]
    BY <1>3 DEF FewerBuilds, Building
  <2>3. \A u \in Worker : \A id \in ids'[u] : id.env = f => id.stack # gen[v]
    BY <1>0, <1>1, <2>1, ListedUnowned DEF OthersKeep, OwnershipInv, SoleBuilder
  <2> QED
    BY <1>0, <2>1, <2>2, <2>3 DEF OwnershipInv, SoleBuilder
<1>8. DoomedUnserved'
  <2>1. Doomed(w)' = {}
    BY <1>0 DEF Doomed
  <2>2. \A v \in Worker \ {w} : Doomed(v)' = Doomed(v)
    BY <1>1 DEF OthersKeep, Doomed
  <2> QED
    BY <1>0, <2>1, <2>2 DEF DoomedUnserved, OwnershipInv
<1>9. RunningStackIntact'
  BY <1>0 DEF RunningStackIntact, OwnershipInv, Part
<1> QED
  BY <1>4, <1>5, <1>6, <1>7, <1>8, <1>9 DEF OwnershipInv

-----------------------------------------------------------------------------
(* The steps of a build: it starts, creates a part, and ends in RUNNING.   *)
LEMMA ProvisionOpenOwnership ==
  ASSUME OwnershipInv, TypeOK, TypeOK', NEW w \in Worker, ProvisionOpen(w)
  PROVE  OwnershipInv'
<1> USE DEF ProvisionOpen, Goto
<1>0. /\ pc[w] = "open" /\ pc'[w] = "build" /\ gen[w] = 0 /\ next[w] = 0 /\ runAge[w] = 0
      /\ UNCHANGED <<job, gen, next, runAge, ids, batch, stack, holder, age, minted>>
  BY DEF TypeOK, WorkerTypeOK, buildVars, dockerVars, OwnershipInv, LocalsClean
<1>1. OthersKeep(w)
  BY DEF OthersKeep, buildVars, TypeOK, WorkerTypeOK
<1>2. FewerServed
  BY DEF FewerServed, SetStatus, TouchStatus
<1>3. \A v \in Worker, e \in Env : v # w => (Building(v, e)' <=> Building(v, e))
  BY <1>1 DEF OthersKeep, Building
<1>4. LocalsClean'
  BY <1>0, <1>1 DEF LocalsClean, OthersKeep, OwnershipInv
<1>5. IdsScoped' /\ ids[w] = {}
  BY <1>0, <1>1 DEF IdsScoped, OthersKeep, OwnershipInv
<1>6. NumbersGiven'
  BY <1>0, <1>3 DEF NumbersGiven, OwnershipInv, Part, TypeOK, DockerTypeOK
<1>7. SoleBuilder'
  BY <1>0, <1>3 DEF SoleBuilder, OwnershipInv
<1>8. BuildFrontier'
  BY <1>0, <1>3 DEF BuildFrontier, OwnershipInv, Part
<1>9. BuildYoung'
  BY <1>0, <1>3, ProvisionerAssumption, DockerAssumption DEF BuildYoung, OwnershipInv, Part
<1>10. DoomedUnserved'
  <2>1. \A v \in Worker : Doomed(v)' \subseteq Doomed(v)
    BY <1>0, <1>1, <1>5 DEF Doomed, OthersKeep
  <2>2. \A v \in Worker : \A id \in Doomed(v) : id.env \in Env
    BY DEF Doomed, TypeOK, WorkerTypeOK, Id
  <2> QED
    BY <1>2, <2>1, <2>2 DEF FewerServed, DoomedUnserved, OwnershipInv
<1>11. RunningStackIntact'
  BY <1>0, <1>2 DEF RunningStackIntact, FewerServed, OwnershipInv, Part
<1> QED
  BY <1>4, <1>5, <1>6, <1>7, <1>8, <1>9, <1>10, <1>11 DEF OwnershipInv

LEMMA ProvisionCommitOwnership ==
  ASSUME OwnershipInv, TypeOK, TypeOK', NEW w \in Worker, ProvisionCommit(w)
  PROVE  OwnershipInv'
<1> DEFINE e == job[w].env
<1> USE DEF ProvisionCommit, Goto
<1>0. /\ e \in Env /\ Building(w, e) /\ next[w] = NRoles + 1
      /\ pc'[w] = "ack" /\ gen'[w] = 0 /\ next'[w] = 0 /\ runAge'[w] = 0
      /\ \A f \in Env : stack'[f] = IF f = e THEN gen[w] ELSE stack[f]
      /\ \A f \in Env : status'[f] = IF f = e THEN "running" ELSE status[f]
      /\ UNCHANGED <<job, ids, batch, same, holder, age, minted>>
  BY DEF TypeOK, WorkerTypeOK, TableTypeOK, ProvisionLabels, ProvisionMsg, Building,
     ClearBuild, SetStatus, dockerVars
<1>1. OthersKeep(w)
  BY DEF OthersKeep, ClearBuild, TypeOK, WorkerTypeOK
<1>2. FewerBuilds /\ SameHost
  BY <1>0, <1>1 DEF FewerBuilds, SameHost, OthersKeep, OwnershipInv, LocalsClean
<1>3. LocalsClean' /\ BuildFrontier' /\ BuildYoung'
  BY <1>2, FewerBuildsKeep
<1>4. gen[w] # 0 /\ gen[w] <= minted[e] /\ \A p \in Part : holder[e][p] = gen[w]
  <2>1. gen[w] # 0
    BY <1>0, DockerAssumption DEF OwnershipInv, LocalsClean, Building
  <2>2. \A p \in Part : p < next[w]
    BY <1>0, DockerAssumption DEF Part
  <2> QED
    BY <1>0, <2>1, <2>2 DEF OwnershipInv, BuildFrontier, NumbersGiven
<1>5. IdsScoped' /\ ids[w] = {}
  BY <1>0, <1>1 DEF IdsScoped, OthersKeep, OwnershipInv, Building
<1>6. NumbersGiven'
  BY <1>0, <1>2, <1>4 DEF NumbersGiven, FewerBuilds, OwnershipInv, Building, Part
<1>7. SoleBuilder'
  <2> SUFFICES ASSUME NEW v \in Worker, NEW f \in Env, Building(v, f)', gen'[v] # 0
               PROVE  /\ stack'[f] # gen'[v]
                      /\ \A u \in Worker : Building(u, f)' /\ gen'[u] = gen'[v] => u = v
                      /\ \A u \in Worker : \A id \in ids'[u] : id.env = f => id.stack # gen'[v]
    BY DEF SoleBuilder
  <2>1. Building(v, f) /\ gen[v] # 0 /\ gen'[v] = gen[v] /\ v # w
    BY <1>0, <1>2 DEF FewerBuilds, Building
  <2>2. \A u \in Worker : Building(u, f)' => Building(u, f) /\ gen'[u] = gen[u]
    BY <1>2 DEF FewerBuilds, Building
  <2>3. stack'[f] # gen[v]
    BY <1>0, <2>1 DEF OwnershipInv, SoleBuilder
  <2> QED
    BY <1>0, <2>1, <2>2, <2>3 DEF OwnershipInv, SoleBuilder
<1>8. DoomedUnserved'
  <2> SUFFICES ASSUME NEW v \in Worker, NEW id \in Doomed(v)', status'[id.env] = "running"
               PROVE  stack'[id.env] # id.stack
    BY DEF DoomedUnserved
  <2>1. id \in Doomed(v) /\ id \in ids[v] /\ id.env \in Env
    BY <1>0, <1>1, <1>5 DEF Doomed, OthersKeep, TypeOK, WorkerTypeOK, Id
  <2>2. CASE id.env = e
    BY <1>0, <1>4, <2>1, <2>2 DEF OwnershipInv, SoleBuilder
  <2>3. CASE id.env # e
    BY <1>0, <2>1, <2>3 DEF OwnershipInv, DoomedUnserved
  <2> QED
    BY <2>2, <2>3
<1>9. RunningStackIntact'
  BY <1>0, <1>4 DEF RunningStackIntact, OwnershipInv, Part
<1> QED
  BY <1>3, <1>5, <1>6, <1>7, <1>8, <1>9 DEF OwnershipInv

LEMMA BuildNextOwnership ==
  ASSUME OwnershipInv, TypeOK, TypeOK', NEW w \in Worker, BuildNext(w)
  PROVE  OwnershipInv'
<1> DEFINE e == job[w].env
           p == next[w]
           g == IF next[w] = 0 THEN minted[e] + 1 ELSE gen[w]
<1>0. /\ e \in Env /\ Building(w, e) /\ p \in Part /\ CreatePart(e, p, g)
      /\ UNCHANGED <<job, same, ids, batch, queue, tableVars>>
  BY DEF BuildNext, TypeOK, WorkerTypeOK, ProvisionLabels, ProvisionMsg, Building
<1>1. /\ \A f \in Env, q \in Part :
           holder'[f][q] = IF f = e /\ q = p THEN g ELSE holder[f][q]
      /\ \A f \in Env, q \in Part :
           age'[f][q] = IF f = e /\ q = p THEN 0 ELSE age[f][q]
      /\ \A f \in Env : minted'[f] = IF f = e /\ p = 0 THEN minted[e] + 1 ELSE minted[f]
      /\ holder[e][p] = 0
  BY <1>0 DEF CreatePart, NameFree, TypeOK, DockerTypeOK
<1>2. /\ \A v \in Worker \ {w} : /\ pc'[v] = pc[v] /\ gen'[v] = gen[v] /\ next'[v] = next[v]
                                 /\ runAge'[v] = runAge[v]
      /\ \/ pc'[w] = "build" /\ gen'[w] = g /\ next'[w] = p + 1 /\ runAge'[w] = runAge[w]
         \/ p # 0 /\ pc'[w] = "fail" /\ gen'[w] = 0 /\ next'[w] = 0 /\ runAge'[w] = 0
  BY DEF BuildNext, ClearBuild, Goto, TypeOK, WorkerTypeOK, Part
<1>3. \A v \in Worker, f \in Env :
        /\ v # w => (Building(v, f)' <=> Building(v, f))
        /\ Building(w, f)' => f = e
        /\ Building(w, f) => f = e
  BY <1>0, <1>2 DEF Building
<1>4. /\ minted[e] \in Nat /\ g \in Nat /\ g # 0 /\ p \in Nat
      /\ \A f \in Env : minted[f] \in Nat /\ stack[f] \in Nat
      /\ \A f \in Env, q \in Part : holder[f][q] \in Nat
      /\ \A v \in Worker : gen[v] \in Nat /\ next[v] \in Nat /\ runAge[v] \in Nat
  <2>1. /\ \A f \in Env : minted[f] \in Nat /\ stack[f] \in Nat
        /\ \A f \in Env, q \in Part : holder[f][q] \in Nat
        /\ \A v \in Worker : gen[v] \in Nat /\ runAge[v] \in Nat
    BY DEF TypeOK, DockerTypeOK, TableTypeOK, WorkerTypeOK
  <2>2. \A v \in Worker : next[v] \in Nat
    BY DockerAssumption DEF TypeOK, WorkerTypeOK
  <2>3. next[w] # 0 => gen[w] # 0
    BY <1>0 DEF OwnershipInv, LocalsClean, Building
  <2> QED
    BY <1>0, <2>1, <2>2, <2>3
<1>5. g <= minted'[e] /\ minted[e] <= minted'[e]
  BY <1>0, <1>1, <1>4 DEF OwnershipInv, NumbersGiven
<1>6. /\ stack[e] # g
      /\ \A v \in Worker \ {w} : Building(v, e) => gen[v] # g
      /\ \A v \in Worker : \A id \in ids[v] : id.env = e => id.stack # g
  <2>1. CASE p = 0
    <3>1. \A v \in Worker : \A id \in ids[v] : id.stack \in Nat
      BY DEF TypeOK, WorkerTypeOK, Id
    <3> QED
      BY <1>0, <1>4, <2>1, <3>1 DEF OwnershipInv, NumbersGiven
  <2>2. CASE p # 0
    <3>1. gen[w] # 0 /\ g = gen[w]
      BY <1>0, <2>2 DEF OwnershipInv, LocalsClean, Building
    <3> QED
      BY <1>0, <3>1 DEF OwnershipInv, SoleBuilder
  <2> QED
    BY <2>1, <2>2
<1> HIDE DEF e, p, g
<1>7. LocalsClean'
  BY <1>2, <1>4 DEF LocalsClean, OwnershipInv
<1>8. IdsScoped'
  BY <1>0, <1>2 DEF IdsScoped, OwnershipInv, Building
<1>9. NumbersGiven'
  <2>1. \A f \in Env : minted[f] <= minted'[f] /\ minted'[f] \in Nat
    BY <1>1, <1>4
  <2>2. \A f \in Env : stack'[f] <= minted'[f]
    BY <1>0, <1>4, <2>1 DEF NumbersGiven, OwnershipInv, tableVars
  <2>3. \A f \in Env, q \in Part : holder'[f][q] <= minted'[f]
    BY <1>1, <1>4, <1>5, <2>1 DEF NumbersGiven, OwnershipInv
  <2>4. \A v \in Worker, f \in Env : Building(v, f)' => gen'[v] <= minted'[f]
    BY <1>2, <1>3, <1>4, <1>5, <2>1 DEF NumbersGiven, OwnershipInv
  <2>5. \A v \in Worker : \A id \in ids'[v] : id.stack <= minted'[id.env]
    <3>1. \A v \in Worker : \A id \in ids[v] : id.env \in Env /\ id.stack \in Nat
      BY DEF TypeOK, WorkerTypeOK, Id
    <3> QED
      BY <1>0, <1>4, <2>1, <3>1 DEF NumbersGiven, OwnershipInv
  <2> QED
    BY <2>2, <2>3, <2>4, <2>5 DEF NumbersGiven, Part
<1>10. SoleBuilder'
  <2> SUFFICES ASSUME NEW v \in Worker, NEW f \in Env, Building(v, f)', gen'[v] # 0
               PROVE  /\ stack'[f] # gen'[v]
                      /\ \A u \in Worker : Building(u, f)' /\ gen'[u] = gen'[v] => u = v
                      /\ \A u \in Worker : \A id \in ids'[u] : id.env = f => id.stack # gen'[v]
    BY DEF SoleBuilder
  <2>1. UNCHANGED <<stack, ids>>
    BY <1>0 DEF tableVars
  <2>2. CASE v = w
    BY <1>2, <1>3, <1>6, <2>1, <2>2
  <2>3. CASE v # w
    <3>1. Building(v, f) /\ gen[v] # 0 /\ gen'[v] = gen[v]
      BY <1>2, <1>3, <2>3
    <3>2. \A u \in Worker : Building(u, f)' /\ gen'[u] = gen[v] => u = v
      BY <1>2, <1>3, <1>6, <2>3, <3>1 DEF OwnershipInv, SoleBuilder
    <3> QED
      BY <2>1, <3>1, <3>2 DEF OwnershipInv, SoleBuilder
  <2> QED
    BY <2>2, <2>3
<1>11. BuildFrontier'
  <2> SUFFICES ASSUME NEW v \in Worker, NEW f \in Env, NEW q \in Part,
                      Building(v, f)', gen'[v] # 0
               PROVE  holder'[f][q] = gen'[v] <=> q < next'[v]
    BY DEF BuildFrontier, Part
  <2>1. CASE v = w
    <3>1. f = e /\ gen'[w] = g /\ next'[w] = p + 1 /\ q \in Nat
      BY <1>2, <1>3, <2>1 DEF Part
    <3>2. CASE p = 0
      BY <1>0, <1>1, <1>4, <2>1, <3>1, <3>2 DEF g, p, OwnershipInv, NumbersGiven
    <3>3. CASE p # 0
      <4>1. g = gen[w] /\ gen[w] # 0 /\ next[w] = p
        BY <1>4, <3>3 DEF g, p
      <4>2. holder[e][q] = gen[w] <=> q < p
        BY <1>0, <4>1 DEF OwnershipInv, BuildFrontier
      <4> QED
        BY <1>0, <1>1, <1>4, <2>1, <3>1, <4>1, <4>2
    <3> QED
      BY <3>2, <3>3
  <2>2. CASE v # w
    <3>1. Building(v, f) /\ gen[v] # 0 /\ gen'[v] = gen[v] /\ next'[v] = next[v]
      BY <1>2, <1>3, <2>2
    <3>2. holder[f][q] = gen[v] <=> q < next[v]
      BY <3>1 DEF OwnershipInv, BuildFrontier
    <3> QED
      BY <1>1, <1>6, <2>2, <3>1, <3>2
  <2> QED
    BY <2>1, <2>2
<1>12. BuildYoung'
  <2> SUFFICES ASSUME NEW v \in Worker, NEW f \in Env, Building(v, f)'
               PROVE  /\ runAge'[v] <= BuildBound
                      /\ \A q \in Part : q < next'[v] => age'[f][q] <= runAge'[v]
    BY DEF BuildYoung, Part
  <2>0. v = w => pc'[w] = "build" /\ f = e
    BY <1>3 DEF Building
  <2>1. Building(v, f) /\ runAge'[v] = runAge[v]
    BY <1>0, <1>2, <1>3, <2>0
  <2>2. runAge[v] <= BuildBound /\ \A q \in Part : q < next[v] => age[f][q] <= runAge[v]
    BY <2>1 DEF OwnershipInv, BuildYoung
  <2>3. \A q \in Part : q < next'[v] => q < next[v] \/ (f = e /\ q = p)
    <3>1. CASE v = w
      BY <1>2, <1>4, <2>0, <3>1, DockerAssumption DEF p, Part
    <3>2. CASE v # w
      BY <1>2, <3>2
    <3> QED
      BY <3>1, <3>2
  <2> QED
    BY <1>1, <1>4, <2>1, <2>2, <2>3
<1>13. DoomedUnserved'
  <2>1. \A v \in Worker : Doomed(v)' \subseteq Doomed(v)
    BY <1>0, <1>2 DEF Doomed, Building
  <2> QED
    BY <1>0, <2>1 DEF DoomedUnserved, OwnershipInv, tableVars
<1>14. RunningStackIntact'
  BY <1>0, <1>1 DEF RunningStackIntact, OwnershipInv, tableVars, Part
<1> QED
  BY <1>7, <1>8, <1>9, <1>10, <1>11, <1>12, <1>13, <1>14 DEF OwnershipInv

(* Time ages a build and its parts together, and stops at the bound.       *)
LEMMA TickOwnership ==
  ASSUME OwnershipInv, TypeOK, TypeOK', Tick
  PROVE  OwnershipInv'
<1>0. /\ UNCHANGED <<pc, job, same, gen, next, ids, batch, status, stack, holder, minted>>
      /\ \A v \in Worker : pc[v] = "build" =>
           runAge[v] < BuildBound /\ runAge'[v] = runAge[v] + 1
      /\ \A v \in Worker : pc[v] # "build" => runAge'[v] = runAge[v]
  BY DEF Tick, AgeRows, AgeResources
<1>1. \A f \in Env, q \in Part : age'[f][q] <= age[f][q] + 1 /\ age[f][q] \in Nat
  BY ClockAssumption DEF Tick, AgeResources, Older, TypeOK, DockerTypeOK, Age
<1>2. LocalsClean' /\ IdsScoped' /\ NumbersGiven' /\ SoleBuilder' /\ BuildFrontier'
  BY <1>0 DEF LocalsClean, IdsScoped, NumbersGiven, SoleBuilder, BuildFrontier,
     OwnershipInv, Building, Part
<1>3. BuildYoung'
  <2> SUFFICES ASSUME NEW v \in Worker, NEW f \in Env, Building(v, f)'
               PROVE  /\ runAge'[v] <= BuildBound
                      /\ \A q \in Part : q < next'[v] => age'[f][q] <= runAge'[v]
    BY DEF BuildYoung, Part
  <2>1. Building(v, f) /\ runAge[v] < BuildBound /\ runAge'[v] = runAge[v] + 1
    BY <1>0 DEF Building
  <2>2. runAge[v] \in Nat /\ BuildBound \in Nat
    BY ProvisionerAssumption DEF TypeOK, WorkerTypeOK
  <2>3. \A q \in Part : q < next[v] => age[f][q] <= runAge[v]
    BY <2>1 DEF OwnershipInv, BuildYoung
  <2>4. \A q \in Part : age'[f][q] \in Nat
    BY ClockAssumption DEF TypeOK, DockerTypeOK, Age
  <2> QED
    BY <1>0, <1>1, <2>1, <2>2, <2>3, <2>4
<1>4. DoomedUnserved' /\ RunningStackIntact'
  BY <1>0 DEF DoomedUnserved, Doomed, RunningStackIntact, OwnershipInv, Part
<1> QED
  BY <1>2, <1>3, <1>4 DEF OwnershipInv

-----------------------------------------------------------------------------
LEMMA OwnershipStep ==
  ASSUME GraceOutlastsBuild, OwnershipInv, TypeOK, [Next]_vars
  PROVE  OwnershipInv'
<1>0. TypeOK'
  BY TypeStep
<1>1. CASE UNCHANGED vars
  BY <1>1 DEF vars, tableVars, dockerVars, workerVars, buildVars, OwnershipInv, LocalsClean,
     IdsScoped, NumbersGiven, SoleBuilder, BuildFrontier, BuildYoung, DoomedUnserved, Doomed,
     RunningStackIntact, Building, Part
<1>2. ASSUME NEW e \in Env, Request(e) PROVE OwnershipInv'
  BY <1>0, <1>2, RequestOwnership
<1>3. ASSUME NEW w \in Worker, Take(w) \/ Crash(w) PROVE OwnershipInv'
  BY <1>0, <1>3, DeliveryOwnership DEF Take, Crash
<1>4. ASSUME NEW w \in Worker, Launch(w) PROVE OwnershipInv'
  BY <1>0, <1>4, QuietSweepOwnership, StartReconcileOwnership
  DEF Launch, StartSweep, QuietSweep
<1>5. ASSUME NEW w \in Worker, Work(w) PROVE OwnershipInv'
  <2>1. CASE ProvisionStep(w)
    BY <1>0, <2>1, QuietProvisionOwnership, ProvisionOpenOwnership, BuildNextOwnership,
       ProvisionCommitOwnership
    DEF ProvisionStep, QuietProvision
  <2>2. CASE TeardownStep(w)
    BY <1>0, <2>2, TeardownLoadOwnership, TeardownClaimOwnership, RemoveStepOwnership,
       QuietTeardownOwnership
    DEF TeardownStep, QuietTeardown
  <2>3. CASE SweepStep(w)
    BY <1>0, <2>3, QuietSweepOwnership, OrphanCheckOwnership, RemoveStepOwnership
    DEF SweepStep, QuietSweep
  <2>4. CASE Ack(w)
    BY <1>0, <2>4, DeliveryOwnership
  <2> QED
    BY <1>5, <2>1, <2>2, <2>3, <2>4 DEF Work
<1>6. CASE Tick
  BY <1>0, <1>6, TickOwnership
<1> QED
  BY <1>1, <1>2, <1>3, <1>4, <1>5, <1>6 DEF Next

(* The invariant holds for ever when the grace period outlasts a build.    *)
THEOREM OwnershipHolds ==
  ASSUME GraceOutlastsBuild
  PROVE  Spec => []OwnershipInv
<1>1. OwnershipInv /\ TypeOK /\ [Next]_vars => OwnershipInv'
  BY OwnershipStep
<1> QED
  BY <1>1, TypeCorrect, OwnershipInit, PTL DEF Spec

(* A RUNNING row's stack is complete, in every interleaving of requests,   *)
(* tasks, retries, redeliveries, sweeps and kills.                         *)
THEOREM RunningStackSafe ==
  ASSUME GraceOutlastsBuild
  PROVE  Spec => []RunningStackIntact
<1>1. OwnershipInv => RunningStackIntact
  BY DEF OwnershipInv
<1> QED
  BY <1>1, OwnershipHolds, PTL

(* Nobody takes a part away from a live builder.                           *)
THEOREM BuilderSafe ==
  ASSUME GraceOutlastsBuild
  PROVE  Spec => []BuilderUndisturbed
<1>1. OwnershipInv /\ TypeOK => BuilderUndisturbed
  <2> SUFFICES ASSUME OwnershipInv, TypeOK, NEW w \in Worker, NEW e \in Env, Building(w, e),
                      NEW p \in Part, p < next[w]
               PROVE  holder[e][p] = gen[w]
    BY DEF BuilderUndisturbed
  <2>1. next[w] # 0
    BY DockerAssumption DEF Part
  <2>2. gen[w] # 0
    BY <2>1 DEF OwnershipInv, LocalsClean, Building
  <2> QED
    BY <2>2 DEF OwnershipInv, BuildFrontier
<1> QED
  BY <1>1, OwnershipHolds, TypeCorrect, PTL

(* Two workers never have parts of the same environment at once, although  *)
(* a redelivered task can make two of them provision it.                   *)
THEOREM OneBuilder ==
  ASSUME GraceOutlastsBuild
  PROVE  Spec => []OneBuilderPerEnv
<1>1. OwnershipInv => OneBuilderPerEnv
  <2> SUFFICES ASSUME OwnershipInv, NEW e \in Env, NEW v \in Worker, NEW w \in Worker,
                      Building(v, e), Building(w, e), next[v] > 0, next[w] > 0
               PROVE  v = w
    BY DEF OneBuilderPerEnv
  <2>1. gen[v] # 0 /\ gen[w] # 0
    BY DEF OwnershipInv, LocalsClean, Building
  <2>2. holder[e][0] = gen[v] /\ holder[e][0] = gen[w]
    BY <2>1, DockerAssumption DEF OwnershipInv, BuildFrontier, Part
  <2> QED
    BY <2>1, <2>2 DEF OwnershipInv, SoleBuilder
<1> QED
  BY <1>1, OwnershipHolds, PTL
=============================================================================
