-------------------------- MODULE RefinementProofs --------------------------
(***************************************************************************)
(* The service implements StackOwnership, for every value of the constants *)
(* for which the grace period outlasts a build.                            *)
(* What rests on that, or on the same invariant, follows: which stacks     *)
(* come into service, which network a container joins, and how many        *)
(* teardowns there can be.                                                 *)
(***************************************************************************)
EXTENDS OwnershipProofs

(* Membership in the images of the refinement mapping.                     *)
LEMMA BuiltMembers ==
  ASSUME NEW s
  PROVE  s \in BeingBuilt <=>
           \E w \in Worker : gen[w] # 0 /\ s = <<job[w].env, gen[w]>>
  BY DEF BeingBuilt

LEMMA ServingMembers ==
  ASSUME NEW s
  PROVE  s \in Serving <=>
           \E e \in Env : status[e] = "running" /\ s = <<e, stack[e]>>
  BY DEF Serving

LEMMA HostMembers ==
  ASSUME NEW r
  PROVE  r \in OnHost <=>
           \E e \in Env, p \in Part : holder[e][p] # 0 /\ r = <<<<e, holder[e][p]>>, p>>
<1>1. ASSUME NEW e \in Env, NEW p \in Part, holder[e][p] # 0
      PROVE  <<<<e, holder[e][p]>>, p>> \in OnHost
  <2> DEFINE x == <<e, p>>
  <2>1. x \in {y \in Env \X Part : holder[y[1]][y[2]] # 0}
    BY <1>1
  <2> QED
    BY <2>1 DEF OnHost
<1>2. ASSUME r \in OnHost
      PROVE  \E e \in Env, p \in Part : holder[e][p] # 0 /\ r = <<<<e, holder[e][p]>>, p>>
  BY <1>2 DEF OnHost
<1> QED
  BY <1>1, <1>2

-----------------------------------------------------------------------------
(* The steps that leave the host alone, end builds and end serving.        *)
GivesUpOnly ==
  /\ UNCHANGED <<holder, minted, stack>>
  /\ \A w \in Worker : gen'[w] # 0 => gen'[w] = gen[w] /\ job'[w] = job[w]
  /\ \A e \in Env : status'[e] = "running" => status[e] = "running"

LEMMA BuiltAndServingDisjoint ==
  ASSUME OwnershipInv, TypeOK
  PROVE  BeingBuilt \cap Serving = {}
<1> SUFFICES ASSUME NEW w \in Worker, gen[w] # 0,
                    NEW e \in Env, <<job[w].env, gen[w]>> = <<e, stack[e]>>
             PROVE  FALSE
  BY BuiltMembers, ServingMembers
<1>1. Building(w, e)
  BY DEF Building, OwnershipInv, LocalsClean
<1> QED
  BY <1>1 DEF OwnershipInv, SoleBuilder

LEMMA GiveUpStep ==
  ASSUME OwnershipInv, TypeOK, GivesUpOnly
  PROVE  Ownership!Next
<1> DEFINE S == (BeingBuilt \ BeingBuilt') \cup (Serving \ Serving')
<1>1. BeingBuilt' \subseteq BeingBuilt
  BY DEF BeingBuilt, GivesUpOnly
<1>2. Serving' \subseteq Serving
  BY DEF Serving, GivesUpOnly
<1>3. BeingBuilt' = BeingBuilt \ S /\ Serving' = Serving \ S
  BY <1>1, <1>2, BuiltAndServingDisjoint
<1>4. UNCHANGED <<minted, OnHost>>
  BY DEF GivesUpOnly, OnHost
<1>5. S \in SUBSET (BeingBuilt \cup Serving)
  OBVIOUS
<1> HIDE DEF S
<1>6. Ownership!GiveUp(S)
  BY <1>3, <1>4 DEF Ownership!GiveUp
<1> QED
  BY <1>5, <1>6 DEF Ownership!Next

-----------------------------------------------------------------------------
(* The steps that do more: a part is created, served or removed.           *)
LEMMA SoleOwner ==
  ASSUME OwnershipInv, TypeOK, NEW w \in Worker, gen[w] # 0
  PROVE  /\ Building(w, job[w].env) /\ job[w].env \in Env
         /\ \A v \in Worker :
              gen[v] # 0 /\ <<job[v].env, gen[v]>> = <<job[w].env, gen[w]>> => v = w
<1>1. \A v \in Worker : gen[v] # 0 => Building(v, job[v].env) /\ job[v].env \in Env
  BY DEF Building, OwnershipInv, LocalsClean, TypeOK, WorkerTypeOK, ProvisionLabels,
     ProvisionMsg
<1> QED
  BY <1>1 DEF OwnershipInv, SoleBuilder

LEMMA CommitServes ==
  ASSUME OwnershipInv, TypeOK, NEW w \in Worker, ProvisionCommit(w)
  PROVE  Ownership!Next
<1> DEFINE e == job[w].env
           s == <<e, gen[w]>>
<1>1. /\ Building(w, e) /\ e \in Env /\ next[w] = NRoles + 1 /\ gen[w] # 0
      /\ \A v \in Worker : gen[v] # 0 /\ <<job[v].env, gen[v]>> = s => v = w
  <2>1. gen[w] # 0 /\ pc[w] = "build" /\ next[w] = NRoles + 1
    BY DockerAssumption DEF ProvisionCommit, OwnershipInv, LocalsClean
  <2> QED
    BY <2>1, SoleOwner
<1>2. \A p \in Part : holder[e][p] = gen[w]
  BY <1>1, DockerAssumption DEF OwnershipInv, BuildFrontier, Part
<1>3. /\ UNCHANGED <<job, holder, minted>>
      /\ gen' = [gen EXCEPT ![w] = 0]
      /\ stack' = [stack EXCEPT ![e] = gen[w]]
      /\ status' = [f \in Env |-> IF f = e THEN "running" ELSE status[f]]
  BY DEF ProvisionCommit, ClearBuild, SetStatus, dockerVars
<1>4. s \in BeingBuilt
  BY <1>1, BuiltMembers
<1>5. \A p \in Part : <<s, p>> \in OnHost
  BY <1>1, <1>2, HostMembers
<1>6. status[e] # "running"
  BY <1>1, <1>2, DockerAssumption DEF OwnershipInv, RunningStackIntact, SoleBuilder, Part
<1>7. \A t \in Serving : t[1] # s[1]
  BY <1>6, ServingMembers
<1>8. BeingBuilt' = BeingBuilt \ {s}
  <2>1. \A v \in Worker : gen'[v] # 0 <=> gen[v] # 0 /\ v # w
    BY <1>3 DEF TypeOK, WorkerTypeOK
  <2>2. \A v \in Worker : v # w => gen'[v] = gen[v] /\ job'[v] = job[v]
    BY <1>3 DEF TypeOK, WorkerTypeOK
  <2>3. BeingBuilt' = {<<job[v].env, gen[v]>> : v \in {u \in Worker : gen[u] # 0 /\ u # w}}
    BY <2>1, <2>2 DEF BeingBuilt
  <2> QED
    BY <1>1, <2>3 DEF BeingBuilt
<1>9. Serving' = Serving \cup {s}
  <2>1. \A f \in Env : status'[f] = "running" <=> status[f] = "running" \/ f = e
    BY <1>3
  <2>2. \A f \in Env : stack'[f] = IF f = e THEN gen[w] ELSE stack[f]
    BY <1>3 DEF TypeOK, TableTypeOK
  <2> QED
    BY <1>1, <1>6, <2>1, <2>2 DEF Serving
<1>10. UNCHANGED <<minted, OnHost>>
  BY <1>3 DEF OnHost
<1> HIDE DEF s
<1>11. Ownership!Serve(s)
  BY <1>4, <1>5, <1>7, <1>8, <1>9, <1>10 DEF Ownership!Serve, Ownership!Part, Part
<1> QED
  BY <1>4, <1>11 DEF Ownership!Next

(* One id is removed, or the step is a stutter.                            *)
LEMMA RemoveStepRefines ==
  ASSUME OwnershipInv, TypeOK, NEW w \in Worker, NEW id \in Doomed(w), RemovePart(id),
         UNCHANGED <<job, gen, status, stack>>
  PROVE  Ownership!Next \/ UNCHANGED Ownership!vars
<1> DEFINE s == <<id.env, id.stack>>
           r == <<s, id.part>>
<1>1. id \in ids[w] /\ id.env \in Env /\ id.part \in Part /\ id.stack \in Nat \ {0}
  BY DEF Doomed, TypeOK, WorkerTypeOK, Id
<1>2. UNCHANGED <<BeingBuilt, Serving>>
  BY DEF BeingBuilt, Serving
<1>3. CASE UNCHANGED <<holder, minted>>
  BY <1>2, <1>3 DEF OnHost, Ownership!vars
<1>4. CASE /\ Present(id)
           /\ holder' = [holder EXCEPT ![id.env][id.part] = 0]
           /\ UNCHANGED minted
  <2>1. \A e \in Env, p \in Part :
          holder'[e][p] = IF e = id.env /\ p = id.part THEN 0 ELSE holder[e][p]
    BY <1>1, <1>4 DEF TypeOK, DockerTypeOK
  <2>2. holder[id.env][id.part] = id.stack
    BY <1>4 DEF Present
  <2>3. OnHost' = OnHost \ {r}
    <3>1. ASSUME NEW x \in OnHost'
          PROVE  x \in OnHost \ {r}
      <4>1. PICK e \in Env, p \in Part : holder'[e][p] # 0 /\ x = <<<<e, holder'[e][p]>>, p>>
        BY <3>1 DEF OnHost
      <4>2. holder'[e][p] = holder[e][p] /\ ~(e = id.env /\ p = id.part)
        BY <2>1, <4>1
      <4> QED
        BY <4>1, <4>2, HostMembers
    <3>2. ASSUME NEW x \in OnHost, x # r
          PROVE  x \in OnHost'
      <4>1. PICK e \in Env, p \in Part : holder[e][p] # 0 /\ x = <<<<e, holder[e][p]>>, p>>
        BY <3>2, HostMembers
      <4>2. holder'[e][p] = holder[e][p]
        BY <2>1, <2>2, <3>2, <4>1
      <4>3. <<e, p>> \in {y \in Env \X Part : holder'[y[1]][y[2]] # 0}
        BY <4>1, <4>2
      <4> QED
        BY <4>1, <4>2, <4>3 DEF OnHost
    <3> QED
      BY <3>1, <3>2
  <2>4. r \in OnHost
    BY <1>1, <2>2, HostMembers
  <2>5. s \notin BeingBuilt
    <3> SUFFICES ASSUME NEW v \in Worker, gen[v] # 0, s = <<job[v].env, gen[v]>>
                 PROVE  FALSE
      BY BuiltMembers
    <3>1. Building(v, job[v].env) /\ job[v].env \in Env
      BY SoleOwner
    <3> QED
      BY <1>1, <3>1 DEF OwnershipInv, SoleBuilder
  <2>6. s \notin Serving
    BY <1>1, ServingMembers DEF OwnershipInv, DoomedUnserved
  <2>7. r[1] = s
    OBVIOUS
  <2> HIDE DEF r, s
  <2>8. Ownership!Remove(r)
    BY <1>2, <1>4, <2>3, <2>5, <2>6, <2>7 DEF Ownership!Remove
  <2> QED
    BY <2>4, <2>8 DEF Ownership!Next
<1> QED
  BY <1>3, <1>4 DEF RemovePart, CallFails, dockerVars

-----------------------------------------------------------------------------
(* A part is created: the network begins a stack, a container extends it.  *)
LEMMA CreateAddsOne ==
  ASSUME TypeOK, NEW e \in Env, NEW p \in Part, NEW g \in Nat \ {0}, CreatePart(e, p, g)
  PROVE  OnHost' = OnHost \cup {<<<<e, g>>, p>>}
<1>1. \A f \in Env, q \in Part :
        holder'[f][q] = IF f = e /\ q = p THEN g ELSE holder[f][q]
  BY DEF CreatePart, TypeOK, DockerTypeOK
<1>2. holder[e][p] = 0
  BY DEF CreatePart, NameFree
<1>3. ASSUME NEW x \in OnHost'
      PROVE  x \in OnHost \cup {<<<<e, g>>, p>>}
  <2>1. PICK f \in Env, q \in Part : holder'[f][q] # 0 /\ x = <<<<f, holder'[f][q]>>, q>>
    BY <1>3 DEF OnHost
  <2>2. CASE f = e /\ q = p
    BY <1>1, <2>1, <2>2
  <2>3. CASE ~(f = e /\ q = p)
    BY <1>1, <2>1, <2>3, HostMembers
  <2> QED
    BY <2>2, <2>3
<1>4. ASSUME NEW f \in Env, NEW q \in Part, holder'[f][q] # 0
      PROVE  <<<<f, holder'[f][q]>>, q>> \in OnHost'
  <2>1. <<f, q>> \in {y \in Env \X Part : holder'[y[1]][y[2]] # 0}
    BY <1>4
  <2> QED
    BY <2>1 DEF OnHost
<1>5. <<<<e, g>>, p>> \in OnHost'
  <2>1. holder'[e][p] = g
    BY <1>1
  <2> QED
    BY <1>4, <2>1
<1>6. ASSUME NEW x \in OnHost
      PROVE  x \in OnHost'
  <2>1. PICK f \in Env, q \in Part : holder[f][q] # 0 /\ x = <<<<f, holder[f][q]>>, q>>
    BY HostMembers
  <2>2. holder'[f][q] = holder[f][q]
    BY <1>1, <1>2, <2>1
  <2> QED
    BY <1>4, <2>1, <2>2
<1> QED
  BY <1>3, <1>5, <1>6

LEMMA BuildNextRefines ==
  ASSUME OwnershipInv, TypeOK, NEW w \in Worker, BuildNext(w)
  PROVE  Ownership!Next
<1> DEFINE e == job[w].env
           p == next[w]
           g == IF p = 0 THEN minted[e] + 1 ELSE gen[w]
           s == <<e, g>>
<1>1. /\ e \in Env /\ p \in Part /\ Building(w, e) /\ CreatePart(e, p, g)
      /\ p # 0 <=> gen[w] # 0
      /\ g \in Nat \ {0}
      /\ UNCHANGED <<job, status, stack>>
      /\ \/ gen' = [gen EXCEPT ![w] = g]
         \/ p > 0 /\ gen' = [gen EXCEPT ![w] = 0]
  BY DEF BuildNext, ClearBuild, tableVars, Building, TypeOK, WorkerTypeOK, DockerTypeOK,
     ProvisionLabels, ProvisionMsg, OwnershipInv, LocalsClean
<1>2. UNCHANGED Serving
  BY <1>1 DEF Serving
<1>3. OnHost' = OnHost \cup {<<s, p>>}
  BY <1>1, CreateAddsOne
<1>4. CASE p = 0
  <2>1. BeingBuilt' = BeingBuilt \cup {s}
    <3>1. \A v \in Worker : gen'[v] = IF v = w THEN g ELSE gen[v]
      BY <1>1, <1>4 DEF TypeOK, WorkerTypeOK
    <3>2. gen[w] = 0
      BY <1>1, <1>4
    <3> QED
      BY <1>1, <3>1, <3>2 DEF BeingBuilt
  <2>2. minted' = [minted EXCEPT ![e] = @ + 1]
    BY <1>1, <1>4 DEF CreatePart
  <2>3. \A r \in OnHost : ~(r[1][1] = e /\ r[2] = 0)
    <3>1. holder[e][0] = 0
      BY <1>1, <1>4 DEF CreatePart, NameFree
    <3> QED
      BY <3>1, HostMembers
  <2>4. s = <<e, minted[e] + 1>> /\ <<s, p>> = <<<<e, minted[e] + 1>>, 0>>
    BY <1>4
  <2>5. Ownership!Begin(e)
    BY <1>2, <1>3, <2>1, <2>2, <2>3, <2>4 DEF Ownership!Begin
  <2> QED
    BY <1>1, <2>5 DEF Ownership!Next
<1>5. CASE p # 0
  <2>1. gen[w] # 0 /\ g = gen[w] /\ 0 < p /\ 0 \in Part
    BY <1>1, <1>5, DockerAssumption DEF Part
  <2>2. s \in BeingBuilt
    BY <1>1, <2>1, BuiltMembers
  <2>3. <<s, 0>> \in OnHost
    <3>1. holder[e][0] = gen[w]
      BY <1>1, <2>1 DEF OwnershipInv, BuildFrontier
    <3> QED
      BY <1>1, <2>1, <3>1, HostMembers
  <2>4. UNCHANGED minted
    BY <1>1, <1>5 DEF CreatePart, TypeOK, DockerTypeOK
  <2>5. BeingBuilt' \in {BeingBuilt, BeingBuilt \ {s}}
    <3>1. CASE gen' = [gen EXCEPT ![w] = g]
      <4>1. \A v \in Worker : gen'[v] = gen[v]
        BY <2>1, <3>1 DEF TypeOK, WorkerTypeOK
      <4> QED
        BY <1>1, <4>1 DEF BeingBuilt
    <3>2. CASE gen' = [gen EXCEPT ![w] = 0]
      <4>1. \A v \in Worker : gen'[v] # 0 <=> gen[v] # 0 /\ v # w
        BY <3>2 DEF TypeOK, WorkerTypeOK
      <4>2. \A v \in Worker : v # w => gen'[v] = gen[v]
        BY <3>2 DEF TypeOK, WorkerTypeOK
      <4>3. BeingBuilt' = {<<job[v].env, gen[v]>> : v \in {u \in Worker : gen[u] # 0 /\ u # w}}
        BY <1>1, <4>1, <4>2 DEF BeingBuilt
      <4> QED
        BY <2>1, <4>3, SoleOwner DEF BeingBuilt
    <3> QED
      BY <1>1, <3>1, <3>2
  <2>6. p \in Ownership!Part \ {0}
    BY <1>1, <1>5 DEF Ownership!Part, Part
  <2> HIDE DEF s, p
  <2>7. Ownership!Extend(s, p)
    BY <1>2, <1>3, <2>2, <2>3, <2>4, <2>5 DEF Ownership!Extend
  <2> QED
    BY <2>2, <2>6, <2>7 DEF Ownership!Next
<1> QED
  BY <1>4, <1>5

-----------------------------------------------------------------------------
(* All the other steps give up builds and serving stacks at most.          *)
LEMMA RequestRefines ==
  ASSUME TypeOK, NEW e \in Env, Request(e)
  PROVE  GivesUpOnly
  BY DEF Request, CreateEnqueue, CreateCommit, CreateAbort, Delete, SetStatus, GivesUpOnly,
     workerVars, buildVars, dockerVars, tableVars

LEMMA DeliveryRefines ==
  ASSUME OwnershipInv, TypeOK, NEW w \in Worker,
         (\E m \in Msg : Deliver(w, m)) \/ Ack(w) \/ Die(w)
  PROVE  GivesUpOnly
<1>1. gen[w] = 0 \/ gen'[w] = 0
  BY DEF Deliver, Ack, Die, ClearBuild, OwnershipInv, LocalsClean, TypeOK, WorkerTypeOK
<1>2. \A v \in Worker : gen'[v] = gen[v] \/ gen'[v] = 0
  BY DEF Deliver, Ack, Die, ClearBuild, buildVars, TypeOK, WorkerTypeOK
<1>3. \A v \in Worker : v # w => job'[v] = job[v]
  BY DEF Deliver, Ack, Die, TypeOK, WorkerTypeOK
<1>4. UNCHANGED <<tableVars, dockerVars>>
  BY DEF Deliver, Ack, Die
<1> QED
  BY <1>1, <1>2, <1>3, <1>4 DEF GivesUpOnly, tableVars, dockerVars

LEMMA TaskRefines ==
  ASSUME TypeOK, NEW w \in Worker,
         \/ QuietProvision(w) \/ ProvisionOpen(w)
         \/ QuietTeardown(w) \/ TeardownLoad(w) \/ TeardownClaim(w)
         \/ QuietSweep(w) \/ StartReconcile(w) \/ OrphanCheck(w)
  PROVE  GivesUpOnly
<1> USE DEF GivesUpOnly, SetStatus, TouchStatus, MarkFailed, ClearBuild, CallFails,
            buildVars, tableVars, dockerVars
<1>1. CASE QuietProvision(w)
  BY <1>1 DEF QuietProvision, ProvisionLoad, ProvisionReject, ProvisionRaise, ProvisionFail,
     ProvisionRetry, TypeOK, WorkerTypeOK
<1>2. CASE ProvisionOpen(w)
  BY <1>2 DEF ProvisionOpen
<1>3. CASE QuietTeardown(w)
  BY <1>3 DEF QuietTeardown, TeardownDone, TeardownRaise, TeardownHandle
<1>4. CASE TeardownLoad(w) \/ TeardownClaim(w)
  BY <1>4 DEF TeardownLoad, TeardownClaim
<1>5. CASE QuietSweep(w)
  BY <1>5 DEF QuietSweep, StartReap, ReapClaim, ReapSend, StartRecover, RecoverCommit,
     SweepRaise
<1>6. CASE StartReconcile(w) \/ OrphanCheck(w)
  BY <1>6 DEF StartReconcile, OrphanCheck
<1> QED
  BY <1>1, <1>2, <1>3, <1>4, <1>5, <1>6

LEMMA RemovalRefines ==
  ASSUME OwnershipInv, TypeOK, NEW w \in Worker, TeardownRemove(w) \/ OrphanRemove(w)
  PROVE  Ownership!Next \/ UNCHANGED Ownership!vars
<1>1. \E id \in Doomed(w) : RemovePart(id)
  BY DEF TeardownRemove, OrphanRemove, Doomed
<1>2. UNCHANGED <<job, gen, status, stack>>
  BY DEF TeardownRemove, OrphanRemove, buildVars, tableVars
<1> QED
  BY <1>1, <1>2, RemoveStepRefines

-----------------------------------------------------------------------------
LEMMA InitRefines == Init => Ownership!Init
<1> SUFFICES ASSUME Init
             PROVE  Ownership!Init
  OBVIOUS
<1>1. BeingBuilt = {}
  BY DEF Init, WorkerInit, BeingBuilt
<1>2. Serving = {}
  BY DEF Init, TableInit, Serving
<1>3. OnHost = {}
  BY DEF Init, DockerInit, OnHost
<1> QED
  BY <1>1, <1>2, <1>3 DEF Init, DockerInit, Ownership!Init

LEMMA StepRefines ==
  ASSUME OwnershipInv, TypeOK, [Next]_vars
  PROVE  [Ownership!Next]_(Ownership!vars)
<1> SUFFICES GivesUpOnly \/ Ownership!Next \/ UNCHANGED Ownership!vars
  BY GiveUpStep
<1>1. CASE UNCHANGED vars
  BY <1>1 DEF vars, tableVars, dockerVars, workerVars, buildVars, Ownership!vars,
     BeingBuilt, Serving, OnHost
<1>2. ASSUME NEW e \in Env, Request(e) PROVE GivesUpOnly
  BY <1>2, RequestRefines
<1>3. ASSUME NEW w \in Worker, Take(w) \/ Crash(w) PROVE GivesUpOnly
  BY <1>3, DeliveryRefines DEF Take, Crash
<1>4. ASSUME NEW w \in Worker, Launch(w) PROVE GivesUpOnly
  BY <1>4, TaskRefines DEF Launch, StartSweep, QuietSweep
<1>5. ASSUME NEW w \in Worker, Work(w)
      PROVE  GivesUpOnly \/ Ownership!Next \/ UNCHANGED Ownership!vars
  <2>1. CASE ProvisionStep(w)
    BY <2>1, TaskRefines, BuildNextRefines, CommitServes DEF ProvisionStep, QuietProvision
  <2>2. CASE TeardownStep(w)
    BY <2>2, TaskRefines, RemovalRefines DEF TeardownStep, QuietTeardown
  <2>3. CASE SweepStep(w)
    BY <2>3, TaskRefines, RemovalRefines DEF SweepStep, QuietSweep
  <2>4. CASE Ack(w)
    BY <2>4, DeliveryRefines
  <2> QED
    BY <1>5, <2>1, <2>2, <2>3, <2>4 DEF Work
<1>6. CASE Tick
  BY <1>6 DEF Tick, AgeRows, AgeResources, GivesUpOnly
<1> QED
  BY <1>1, <1>2, <1>3, <1>4, <1>5, <1>6 DEF Next

(* In every interleaving of requests, tasks, retries, redeliveries, sweeps *)
(* and kills, a resource is removed only after its stack was given up, and *)
(* only a complete stack comes to serve: compose.py and tasks.py together  *)
(* implement StackOwnership.                                               *)
THEOREM Refinement ==
  ASSUME GraceOutlastsBuild
  PROVE  Spec => ImplementsOwnership
<1>1. OwnershipInv /\ TypeOK /\ [Next]_vars => [Ownership!Next]_(Ownership!vars)
  BY StepRefines
<1> QED
  BY <1>1, InitRefines, TypeCorrect, OwnershipHolds, PTL
  DEF Spec, ImplementsOwnership, Ownership!Spec

-----------------------------------------------------------------------------
(* What StackOwnership promises, and the service therefore keeps.          *)
Owners == Ownership!TypeOK /\ Ownership!ServesWhole /\ Ownership!BuildsNewest

LEMMA BeginKeeps ==
  ASSUME Owners, NEW e \in Env, Ownership!Begin(e)
  PROVE  Owners'
<1> DEFINE s == <<e, minted[e] + 1>>
<1> USE DEF Owners, Ownership!TypeOK, Ownership!Owned
<1>1. /\ s \in Ownership!Stack /\ 0 \in Ownership!Part /\ minted[e] \in Nat
      /\ \A r \in OnHost : ~(r[1][1] = e /\ r[2] = 0)
      /\ minted' = [minted EXCEPT ![e] = minted[e] + 1]
      /\ BeingBuilt' = BeingBuilt \cup {s}
      /\ OnHost' = OnHost \cup {<<s, 0>>}
      /\ Serving' = Serving
  BY DockerAssumption DEF Ownership!Begin, Ownership!Stack, Ownership!Part
<1>2. \A t \in BeingBuilt \cup Serving : t[1] # e
  <2>1. ASSUME NEW t, <<t, 0>> \in OnHost, t[1] = e
        PROVE  FALSE
    <3> DEFINE r == <<t, 0>>
    <3>1. r[1] = t /\ r[2] = 0
      OBVIOUS
    <3> QED
      BY <1>1, <2>1, <3>1
  <2> QED
    BY <1>1, <2>1 DEF Ownership!ServesWhole, Ownership!BuildsNewest
<1>3. \A t \in BeingBuilt \cup Serving : t[1] \in Env /\ minted'[t[1]] = minted[t[1]]
  BY <1>1, <1>2 DEF Ownership!Stack
<1>4. s[1] = e /\ s[2] = minted'[e]
  BY <1>1
<1> HIDE DEF s
<1>5. Ownership!TypeOK'
  BY <1>1
<1>6. Ownership!ServesWhole'
  BY <1>1, <1>2, <1>4 DEF Ownership!ServesWhole
<1>7. Ownership!BuildsNewest'
  BY <1>1, <1>2, <1>3, <1>4 DEF Ownership!BuildsNewest
<1> QED
  BY <1>5, <1>6, <1>7

LEMMA OtherStepsKeep ==
  ASSUME Owners,
         \/ UNCHANGED Ownership!vars
         \/ \E s \in BeingBuilt : \/ Ownership!Serve(s)
                                \/ \E p \in Ownership!Part \ {0} : Ownership!Extend(s, p)
         \/ \E S \in SUBSET (BeingBuilt \cup Serving) : Ownership!GiveUp(S)
         \/ \E r \in OnHost : Ownership!Remove(r)
  PROVE  Owners'
<1> USE DEF Owners, Ownership!TypeOK, Ownership!Owned
<1>1. CASE UNCHANGED Ownership!vars
  BY <1>1 DEF Ownership!vars, Ownership!ServesWhole, Ownership!BuildsNewest
<1>2. ASSUME NEW s \in BeingBuilt, Ownership!Serve(s)
      PROVE  Owners'
  <2> USE <1>2 DEF Ownership!Serve
  <2>1. Ownership!TypeOK'
    OBVIOUS
  <2>2. \A t \in BeingBuilt : t[1] = s[1] => t = s
    <3>1. \A t \in Env \X (Nat \ {0}) : t = <<t[1], t[2]>>
      OBVIOUS
    <3>2. \A t \in BeingBuilt : t = <<t[1], t[2]>> /\ t[2] = minted[t[1]]
      BY <3>1 DEF Ownership!BuildsNewest, Ownership!Stack
    <3> QED
      BY <3>2
  <2>3. Ownership!ServesWhole' /\ Ownership!BuildsNewest'
    BY <2>2 DEF Ownership!ServesWhole, Ownership!BuildsNewest
  <2> QED
    BY <2>1, <2>3
<1>3. ASSUME NEW s \in BeingBuilt, NEW p \in Ownership!Part \ {0}, Ownership!Extend(s, p)
      PROVE  Owners'
  BY <1>3 DEF Ownership!Extend, Ownership!ServesWhole, Ownership!BuildsNewest
<1>4. ASSUME NEW S \in SUBSET (BeingBuilt \cup Serving), Ownership!GiveUp(S)
      PROVE  Owners'
  BY <1>4 DEF Ownership!GiveUp, Ownership!ServesWhole, Ownership!BuildsNewest
<1>5. ASSUME NEW r \in OnHost, Ownership!Remove(r)
      PROVE  Owners'
  <2>1. \A t \in BeingBuilt \cup Serving : \A p : <<t, p>> \in OnHost => <<t, p>> \in OnHost'
    BY <1>5 DEF Ownership!Remove
  <2> QED
    BY <1>5, <2>1 DEF Ownership!Remove, Ownership!ServesWhole, Ownership!BuildsNewest
<1> QED
  BY <1>1, <1>2, <1>3, <1>4, <1>5

LEMMA OwnersStep ==
  Owners /\ [Ownership!Next]_(Ownership!vars) => Owners'
  BY BeginKeeps, OtherStepsKeep DEF Ownership!Next

LEMMA OwnersInit == Ownership!Init => Owners
  BY DEF Ownership!Init, Owners, Ownership!TypeOK, Ownership!ServesWhole,
     Ownership!BuildsNewest

LEMMA OwnersHold ==
  ASSUME GraceOutlastsBuild
  PROVE  Spec => []Owners
  BY Refinement, OwnersStep, OwnersInit, PTL DEF ImplementsOwnership, Ownership!Spec

LEMMA StaysGivenUp ==
  ASSUME Owners, [Ownership!Next]_(Ownership!vars), NEW e \in Env, NEW n \in 1..minted[e],
         <<e, n>> \notin Ownership!Owned
  PROVE  <<e, n>> \notin Ownership!Owned'
<1> USE DEF Ownership!Owned
<1>1. CASE UNCHANGED Ownership!vars
  BY <1>1 DEF Ownership!vars
<1>2. ASSUME NEW f \in Env, Ownership!Begin(f)
      PROVE  <<e, n>> \notin Ownership!Owned'
  <2>1. <<e, n>> # <<f, minted[f] + 1>>
    BY DEF Owners, Ownership!TypeOK
  <2> QED
    BY <1>2, <2>1 DEF Ownership!Begin
<1>3. ASSUME NEW s \in BeingBuilt,
             Ownership!Serve(s) \/ \E p \in Ownership!Part \ {0} : Ownership!Extend(s, p)
      PROVE  <<e, n>> \notin Ownership!Owned'
  BY <1>3 DEF Ownership!Serve, Ownership!Extend
<1>4. ASSUME NEW S, Ownership!GiveUp(S)
      PROVE  <<e, n>> \notin Ownership!Owned'
  BY <1>4 DEF Ownership!GiveUp
<1>5. ASSUME NEW r, Ownership!Remove(r)
      PROVE  <<e, n>> \notin Ownership!Owned'
  BY <1>5 DEF Ownership!Remove
<1> QED
  BY <1>1, <1>2, <1>3, <1>4, <1>5 DEF Ownership!Next

(* A stack whose build has failed, whose worker was killed or whose row    *)
(* has left RUNNING is never served nor built on again, whatever is        *)
(* retried or delivered twice: a removal may come at any later time.       *)
THEOREM GivenUpStaysSo ==
  ASSUME GraceOutlastsBuild
  PROVE  Spec => Ownership!GivenUpForGood
<1>1. Owners /\ [Ownership!Next]_(Ownership!vars) =>
        \A e \in Env : \A n \in 1..minted[e] :
          <<e, n>> \notin Ownership!Owned => <<e, n>> \notin Ownership!Owned'
  BY StaysGivenUp
<1> QED
  BY <1>1, OwnersHold, Refinement, PTL
  DEF ImplementsOwnership, Ownership!Spec, Ownership!GivenUpForGood

(* A serving stack is whole, and while it serves nothing is under          *)
(* construction in its environment.                                        *)
THEOREM OwnersWhole ==
  ASSUME GraceOutlastsBuild
  PROVE  Spec => [](Ownership!ServesWhole /\ Ownership!BuildsNewest)
<1>1. Owners => Ownership!ServesWhole /\ Ownership!BuildsNewest
  BY DEF Owners
<1> QED
  BY <1>1, OwnersHold, PTL

-----------------------------------------------------------------------------
LEMMA CommitServesNewest ==
  ASSUME OwnershipInv, TypeOK, Owners, NEW w \in Worker, ProvisionCommit(w), NEW f \in Env,
         stack'[f] # stack[f] \/ (status[f] # "running" /\ status'[f] = "running")
  PROVE  /\ status[f] # "running" /\ status'[f] = "running"
         /\ stack[f] < stack'[f] /\ stack'[f] = minted[f]
<1> DEFINE e == job[w].env
<1>1. Building(w, e) /\ e \in Env /\ next[w] = NRoles + 1 /\ gen[w] # 0
  <2>1. gen[w] # 0 /\ next[w] = NRoles + 1
    BY DockerAssumption DEF ProvisionCommit, OwnershipInv, LocalsClean
  <2> QED
    BY <2>1, SoleOwner
<1>2. /\ \A g \in Env : stack'[g] = IF g = e THEN gen[w] ELSE stack[g]
      /\ \A g \in Env : status'[g] = IF g = e THEN "running" ELSE status[g]
  BY <1>1 DEF ProvisionCommit, SetStatus, TypeOK, TableTypeOK
<1>3. f = e
  BY <1>2
<1>4. \A p \in Part : holder[e][p] = gen[w]
  BY <1>1, DockerAssumption DEF OwnershipInv, BuildFrontier, Part
<1>5. stack[e] # gen[w]
  BY <1>1 DEF OwnershipInv, SoleBuilder
<1>6. status[e] # "running"
  BY <1>1, <1>4, <1>5, DockerAssumption DEF OwnershipInv, RunningStackIntact, Part
<1>7. gen[w] = minted[e]
  <2>1. <<e, gen[w]>> \in BeingBuilt
    BY <1>1, BuiltMembers
  <2> QED
    BY <2>1 DEF Owners, Ownership!BuildsNewest
<1>8. stack[e] <= minted[e] /\ stack[e] \in Nat /\ minted[e] \in Nat
  BY <1>1 DEF OwnershipInv, NumbersGiven, TypeOK, TableTypeOK, DockerTypeOK
<1> QED
  BY <1>2, <1>3, <1>5, <1>6, <1>7, <1>8

(* Every other step leaves the ids alone and takes no row to RUNNING.      *)
RowsKeep ==
  UNCHANGED stack /\ \A e \in Env : status'[e] = "running" => status[e] = "running"

LEMMA OtherRowsKeep ==
  ASSUME OwnershipInv, TypeOK, [Next]_vars, ~\E w \in Worker : ProvisionCommit(w)
  PROVE  RowsKeep
<1> USE DEF RowsKeep
<1>1. GivesUpOnly => RowsKeep
  BY DEF GivesUpOnly
<1>2. CASE UNCHANGED vars
  BY <1>2 DEF vars, tableVars
<1>3. ASSUME NEW e \in Env, Request(e) PROVE RowsKeep
  BY <1>1, <1>3, RequestRefines
<1>4. ASSUME NEW w \in Worker, Take(w) \/ Crash(w) PROVE RowsKeep
  BY <1>1, <1>4, DeliveryRefines DEF Take, Crash
<1>5. ASSUME NEW w \in Worker, Launch(w) PROVE RowsKeep
  BY <1>1, <1>5, TaskRefines DEF Launch, StartSweep, QuietSweep
<1>6. ASSUME NEW w \in Worker, Work(w) PROVE RowsKeep
  <2>1. CASE ProvisionStep(w)
    <3>1. CASE BuildNext(w)
      BY <3>1 DEF BuildNext, tableVars
    <3> QED
      BY <1>1, <2>1, <3>1, TaskRefines DEF ProvisionStep, QuietProvision
  <2>2. CASE TeardownStep(w)
    <3>1. CASE TeardownRemove(w)
      BY <3>1 DEF TeardownRemove, tableVars
    <3> QED
      BY <1>1, <2>2, <3>1, TaskRefines DEF TeardownStep, QuietTeardown
  <2>3. CASE SweepStep(w)
    <3>1. CASE OrphanRemove(w)
      BY <3>1 DEF OrphanRemove, tableVars
    <3> QED
      BY <1>1, <2>3, <3>1, TaskRefines DEF SweepStep, QuietSweep
  <2>4. CASE Ack(w)
    BY <1>1, <2>4, DeliveryRefines
  <2> QED
    BY <1>6, <2>1, <2>2, <2>3, <2>4 DEF Work
<1>7. CASE Tick
  BY <1>7 DEF Tick, AgeRows
<1> QED
  BY <1>2, <1>3, <1>4, <1>5, <1>6, <1>7 DEF Next

(* However attempts overlap, are retried or delivered twice, a row comes   *)
(* into service only with the newest stack, and while it serves it never   *)
(* forgets its ids.                                                        *)
THEOREM NewestServes ==
  ASSUME GraceOutlastsBuild
  PROVE  Spec => ServesNewest
<1> DEFINE Newest == \A e \in Env :
              \/ stack'[e] # stack[e]
              \/ status[e] # "running" /\ status'[e] = "running"
              => /\ status[e] # "running" /\ status'[e] = "running"
                 /\ stack[e] < stack'[e] /\ stack'[e] = minted[e]
<1>1. OwnershipInv /\ TypeOK /\ Owners /\ [Next]_vars => Newest
  BY CommitServesNewest, OtherRowsKeep DEF RowsKeep
<1>2. ServesNewest <=> [][Newest]_vars
  BY DEF ServesNewest
<1> HIDE DEF Newest
<1> QED
  BY <1>1, <1>2, OwnershipHolds, TypeCorrect, OwnersHold, PTL DEF Spec
-----------------------------------------------------------------------------
(* A container that is created joins the network of its own attempt; every *)
(* other step leaves the host's resources as they are or removes some.     *)
LEMMA BuildNextJoins ==
  ASSUME OwnershipInv, TypeOK, NEW w \in Worker, BuildNext(w),
         NEW f \in Env, NEW q \in Part \ {0}, holder'[f][q] # holder[f][q]
  PROVE  holder'[f][0] = holder'[f][q]
<1> DEFINE e == job[w].env
           g == IF next[w] = 0 THEN minted[e] + 1 ELSE gen[w]
<1>1. /\ e \in Env /\ next[w] \in Part /\ Building(w, e) /\ CreatePart(e, next[w], g)
      /\ gen[w] = 0 <=> next[w] = 0
  BY DEF BuildNext, Building, TypeOK, WorkerTypeOK, ProvisionLabels, ProvisionMsg,
     OwnershipInv, LocalsClean
<1>2. \A d \in Env, p \in Part :
        holder'[d][p] = IF d = e /\ p = next[w] THEN g ELSE holder[d][p]
  BY <1>1 DEF CreatePart, TypeOK, DockerTypeOK
<1>3. f = e /\ q = next[w] /\ holder'[f][q] = g
  BY <1>2
<1>4. gen[w] # 0 /\ g = gen[w] /\ 0 < next[w] /\ 0 \in Part
  BY <1>1, <1>3, DockerAssumption DEF Part
<1>5. holder[e][0] = gen[w]
  BY <1>1, <1>4 DEF OwnershipInv, BuildFrontier
<1> QED
  BY <1>2, <1>3, <1>4, <1>5

HostKeeps == \A e \in Env, p \in Part : holder'[e][p] \in {0, holder[e][p]}

LEMMA OtherHostsKeep ==
  ASSUME OwnershipInv, TypeOK, [Next]_vars, ~\E w \in Worker : BuildNext(w)
  PROVE  HostKeeps
<1> USE DEF HostKeeps
<1>1. GivesUpOnly => HostKeeps
  BY DEF GivesUpOnly
<1>2. CASE UNCHANGED vars
  BY <1>2 DEF vars, dockerVars
<1>3. ASSUME NEW e \in Env, Request(e) PROVE HostKeeps
  BY <1>1, <1>3, RequestRefines
<1>4. ASSUME NEW w \in Worker, Take(w) \/ Crash(w) PROVE HostKeeps
  BY <1>1, <1>4, DeliveryRefines DEF Take, Crash
<1>5. ASSUME NEW w \in Worker, Launch(w) PROVE HostKeeps
  BY <1>1, <1>5, TaskRefines DEF Launch, StartSweep, QuietSweep
<1>6. ASSUME NEW w \in Worker, TeardownRemove(w) \/ OrphanRemove(w) PROVE HostKeeps
  <2>1. PICK id \in ids[w] : RemovePart(id)
    BY <1>6 DEF TeardownRemove, OrphanRemove
  <2>2. id.env \in Env /\ id.part \in Part
    BY DEF TypeOK, WorkerTypeOK, Id
  <2>3. \/ UNCHANGED holder
        \/ holder' = [holder EXCEPT ![id.env][id.part] = 0]
    BY <2>1 DEF RemovePart, CallFails, dockerVars
  <2> QED
    BY <2>2, <2>3 DEF TypeOK, DockerTypeOK
<1>7. ASSUME NEW w \in Worker, Work(w) PROVE HostKeeps
  <2>1. CASE ProvisionStep(w)
    <3>1. CASE ProvisionCommit(w)
      BY <3>1 DEF ProvisionCommit, dockerVars
    <3> QED
      BY <1>1, <2>1, <3>1, TaskRefines DEF ProvisionStep, QuietProvision
  <2>2. CASE TeardownStep(w)
    BY <1>1, <1>6, <2>2, TaskRefines DEF TeardownStep, QuietTeardown
  <2>3. CASE SweepStep(w)
    BY <1>1, <1>6, <2>3, TaskRefines DEF SweepStep, QuietSweep
  <2>4. CASE Ack(w)
    BY <1>1, <2>4, DeliveryRefines
  <2> QED
    BY <1>7, <2>1, <2>2, <2>3, <2>4 DEF Work
<1>8. CASE Tick
  BY <1>8 DEF Tick, AgeResources
<1> QED
  BY <1>2, <1>3, <1>4, <1>5, <1>7, <1>8 DEF Next

(* While a stack is being built, the network its containers name is the    *)
(* one its own attempt created, whatever the sweeps and the other attempts *)
(* do meanwhile.                                                           *)
THEOREM JoinsOwn ==
  ASSUME GraceOutlastsBuild
  PROVE  Spec => JoinsOwnNetwork
<1> DEFINE Joins == \A e \in Env, p \in Part \ {0} :
              holder'[e][p] \notin {0, holder[e][p]} => holder'[e][0] = holder'[e][p]
<1>1. OwnershipInv /\ TypeOK /\ [Next]_vars => Joins
  BY BuildNextJoins, OtherHostsKeep DEF HostKeeps
<1>2. JoinsOwnNetwork <=> [][Joins]_vars
  BY DEF JoinsOwnNetwork
<1> HIDE DEF Joins
<1> QED
  BY <1>1, <1>2, OwnershipHolds, TypeCorrect, PTL DEF Spec
-----------------------------------------------------------------------------
(* How many teardowns an environment can have: the part of TeardownInv     *)
(* about it.                                                               *)
Bounded(e) ==
  /\ IsFiniteSet(Copies(queue, TeardownsOf(e)))
  /\ Owed(e) + Cardinality(Claiming(e))
       <= deletes + crashes + Cardinality(Worker) * stack[e]
  /\ status[e] = "running" =>
       Owed(e) <= deletes + crashes + Cardinality(Worker) * (stack[e] - 1)

LEMMA CrewFinite ==
  ASSUME NEW S \in SUBSET Worker
  PROVE  /\ IsFiniteSet(S) /\ Cardinality(S) \in Nat /\ Cardinality(Worker) \in Nat
         /\ Cardinality(S) <= Cardinality(Worker)
  BY PoolAssumption, FS_Subset, FS_CardinalityType

LEMMA PoolTimes ==
  ASSUME NEW n \in Nat, NEW s \in Nat, NEW t \in Nat
  PROVE  /\ n * s \in Int /\ n * (s - 1) \in Int /\ n * (s - 1) + n = n * s
         /\ s < t => n * s <= n * (t - 1)
<1>1. n * (s - 1) = n * s - n /\ n * (t - 1) = n * t - n
  OBVIOUS
<1>2. ASSUME s < t PROVE n * s + n <= n * t
  <2>1. PICK d \in Nat : t = s + 1 + d
    <3>1. t - s - 1 \in Nat /\ t = s + 1 + (t - s - 1)
      BY <1>2
    <3> QED
      BY <3>1
  <2>2. n * t = n * s + n + n * d
    BY <2>1
  <2>3. n * d \in Nat
    OBVIOUS
  <2> QED
    BY <2>2, <2>3
<1> QED
  BY <1>1, <1>2

LEMMA OwedTypes ==
  ASSUME NEW e \in Env, IsFiniteSet(Copies(queue, TeardownsOf(e)))
  PROVE  /\ Total(queue, TeardownsOf(e)) \in Nat
         /\ IsFiniteSet(Hands(e)) /\ Cardinality(Hands(e)) \in Nat
         /\ IsFiniteSet(Claiming(e)) /\ Cardinality(Claiming(e)) \in Nat
         /\ Owed(e) \in Nat
<1>1. Hands(e) \in SUBSET Worker /\ Claiming(e) \in SUBSET Worker
  BY DEF Hands, TearingDown, Claiming
<1> QED
  BY <1>1, CrewFinite, TotalType DEF Owed

LEMMA OwedTypesNext ==
  ASSUME NEW e \in Env, IsFiniteSet(Copies(queue', TeardownsOf(e)))
  PROVE  /\ Total(queue', TeardownsOf(e)) \in Nat
         /\ IsFiniteSet(Hands(e)') /\ Cardinality(Hands(e)') \in Nat
         /\ IsFiniteSet(Claiming(e)') /\ Cardinality(Claiming(e)') \in Nat
         /\ Owed(e)' = Total(queue', TeardownsOf(e)) + Cardinality(Hands(e)')
<1>1. Hands(e)' \in SUBSET Worker /\ Claiming(e)' \in SUBSET Worker
  BY DEF Hands, TearingDown, Claiming
<1>2. TeardownsOf(e)' = TeardownsOf(e)
  BY DEF TeardownsOf, TeardownMsg
<1> QED
  BY <1>1, <1>2, CrewFinite, TotalType DEF Owed

(* No step that leaves the ids alone may put more on the environment than  *)
(* the requests and kills that it adds.                                    *)
LEMMA BoundKept ==
  ASSUME TypeOK, TypeOK', NEW e \in Env, Bounded(e),
         IsFiniteSet(Copies(queue', TeardownsOf(e))),
         stack'[e] = stack[e],
         (Owed(e)' + Cardinality(Claiming(e)')) - (deletes' + crashes')
           <= (Owed(e) + Cardinality(Claiming(e))) - (deletes + crashes),
         status'[e] = "running" =>
           /\ status[e] = "running"
           /\ Owed(e)' - (deletes' + crashes') <= Owed(e) - (deletes + crashes)
  PROVE  Bounded(e)'
<1> DEFINE n == Cardinality(Worker)
<1>1. n \in Nat /\ stack[e] \in Nat
  BY CrewFinite DEF TypeOK, TableTypeOK
<1>2. n * stack[e] \in Int /\ n * (stack[e] - 1) \in Int
  BY <1>1, PoolTimes
<1>3. deletes \in Nat /\ deletes' \in Nat /\ crashes \in Nat /\ crashes' \in Nat
  BY DEF TypeOK, ApiTypeOK
<1>4. /\ Owed(e) \in Nat /\ Cardinality(Claiming(e)) \in Nat
      /\ Owed(e)' \in Nat /\ Cardinality(Claiming(e)') \in Nat
  BY OwedTypes, OwedTypesNext DEF Bounded
<1>5. Owed(e)' + Cardinality(Claiming(e)') <= deletes' + crashes' + n * stack'[e]
  BY <1>2, <1>3, <1>4 DEF Bounded
<1>6. status'[e] = "running" => Owed(e)' <= deletes' + crashes' + n * (stack'[e] - 1)
  BY <1>2, <1>3, <1>4 DEF Bounded
<1>7. TeardownsOf(e)' = TeardownsOf(e)
  BY DEF TeardownsOf, TeardownMsg
<1> QED
  BY <1>5, <1>6, <1>7 DEF Bounded

(* What no teardown message, worker or reaper of the environment joins.    *)
LEMMA NoMoreTeardowns ==
  ASSUME TypeOK, TypeOK', NEW e \in Env, Bounded(e),
         \A m \in TeardownsOf(e) : queue'[m] = queue[m],
         Hands(e)' \subseteq Hands(e), Claiming(e)' \subseteq Claiming(e),
         UNCHANGED <<deletes, crashes>>, stack'[e] = stack[e],
         status'[e] = "running" => status[e] = "running"
  PROVE  Bounded(e)'
<1>1. /\ Copies(queue, TeardownsOf(e)) = Copies(queue', TeardownsOf(e))
      /\ Total(queue, TeardownsOf(e)) = Total(queue', TeardownsOf(e))
  <2>1. \A m \in TeardownsOf(e) : queue[m] = queue'[m]
    OBVIOUS
  <2> QED
    BY <2>1, TotalSame, Zenon
<1>2. IsFiniteSet(Copies(queue', TeardownsOf(e)))
  BY <1>1 DEF Bounded
<1>3. IsFiniteSet(Hands(e)) /\ IsFiniteSet(Claiming(e))
  BY OwedTypes DEF Bounded
<1>4. /\ Cardinality(Hands(e)') <= Cardinality(Hands(e))
      /\ Cardinality(Claiming(e)') <= Cardinality(Claiming(e))
  BY <1>3, FS_Subset
<1>5. /\ (Owed(e)' + Cardinality(Claiming(e)')) - (deletes' + crashes')
           <= (Owed(e) + Cardinality(Claiming(e))) - (deletes + crashes)
      /\ Owed(e)' - (deletes' + crashes') <= Owed(e) - (deletes + crashes)
  <2>1. deletes \in Nat /\ crashes \in Nat
    BY DEF TypeOK, ApiTypeOK
  <2>2. /\ Total(queue, TeardownsOf(e)) \in Nat /\ Cardinality(Hands(e)) \in Nat
        /\ Cardinality(Claiming(e)) \in Nat
    BY OwedTypes DEF Bounded
  <2>3. /\ Cardinality(Hands(e)') \in Nat /\ Cardinality(Claiming(e)') \in Nat
        /\ Owed(e)' = Total(queue', TeardownsOf(e)) + Cardinality(Hands(e)')
    BY <1>2, OwedTypesNext
  <2> QED
    BY <1>1, <1>4, <2>1, <2>2, <2>3 DEF Owed
<1> QED
  BY <1>2, <1>5, BoundKept

LEMMA NoneGained ==
  ASSUME NEW a \in Int, NEW b \in Int, NEW q \in Int, NEW h \in Int,
         NEW d \in Int, NEW dd \in Int, NEW c \in Int, NEW cc \in Int,
         b <= a + q + h, q + h <= (dd + cc) - (d + c)
  PROVE  b - (dd + cc) <= a - (d + c)
  OBVIOUS

(* A teardown is queued, taken or both: h is what the hands gain by it.    *)
LEMMA Moved ==
  ASSUME TypeOK, TypeOK', NEW e \in Env, Bounded(e), NEW q \in Int, NEW h \in Int,
         IsFiniteSet(Copies(queue', TeardownsOf(e))),
         Total(queue', TeardownsOf(e)) = Total(queue, TeardownsOf(e)) + q,
         Cardinality(Hands(e)') <= Cardinality(Hands(e)) + h,
         Claiming(e)' \subseteq Claiming(e),
         q + h <= (deletes' + crashes') - (deletes + crashes),
         stack'[e] = stack[e], status'[e] = "running" => status[e] = "running"
  PROVE  Bounded(e)'
<1>1. deletes \in Nat /\ deletes' \in Nat /\ crashes \in Nat /\ crashes' \in Nat
  BY DEF TypeOK, ApiTypeOK
<1>2. /\ Total(queue, TeardownsOf(e)) \in Nat /\ Cardinality(Hands(e)) \in Nat
      /\ IsFiniteSet(Claiming(e)) /\ Cardinality(Claiming(e)) \in Nat
  BY OwedTypes DEF Bounded
<1>3. /\ Cardinality(Hands(e)') \in Nat /\ Cardinality(Claiming(e)') \in Nat
      /\ Owed(e)' = Total(queue', TeardownsOf(e)) + Cardinality(Hands(e)')
  BY OwedTypesNext
<1>4. Cardinality(Claiming(e)') <= Cardinality(Claiming(e))
  BY <1>2, FS_Subset
<1>5. Owed(e) = Total(queue, TeardownsOf(e)) + Cardinality(Hands(e)) /\ Owed(e) \in Nat
  BY <1>2 DEF Owed
<1>6. Owed(e)' = Total(queue, TeardownsOf(e)) + q + Cardinality(Hands(e)') /\ Owed(e)' \in Int
  BY <1>2, <1>3
<1>7. Owed(e)' - (deletes' + crashes') <= Owed(e) - (deletes + crashes)
  <2>1. Owed(e)' <= Owed(e) + q + h
    BY <1>2, <1>3, <1>5, <1>6
  <2>2. /\ deletes \in Int /\ deletes' \in Int /\ crashes \in Int /\ crashes' \in Int
        /\ Owed(e) \in Int
    BY <1>1, <1>5
  <2> QED
    BY <1>6, <2>1, <2>2, NoneGained
<1>8. (Owed(e)' + Cardinality(Claiming(e)')) - (deletes' + crashes')
           <= (Owed(e) + Cardinality(Claiming(e))) - (deletes + crashes)
  BY <1>1, <1>2, <1>3, <1>4, <1>5, <1>6, <1>7
<1> QED
  BY <1>7, <1>8, BoundKept

LEMMA TeardownMessages ==
  ASSUME NEW e \in Env
  PROVE  /\ TeardownsOf(e) \in SUBSET Msg
         /\ \A m \in ProvisionMsg : m \notin TeardownsOf(e)
         /\ \A d \in Env : TeardownCall(d) \in TeardownMsg /\ TeardownCall(d).env = d
         /\ \A m \in TeardownMsg : m \in TeardownsOf(e) <=> m.env = e
  BY BrokerAssumption DEF TeardownsOf, TeardownMsg, ProvisionMsg, TeardownCall, Msg

LEMMA RequestBounded ==
  ASSUME TypeOK, TypeOK', NEW e \in Env, Bounded(e), NEW d \in Env, Request(d)
  PROVE  Bounded(e)'
<1>1. /\ Hands(e)' = Hands(e) /\ Claiming(e)' = Claiming(e)
      /\ stack' = stack /\ crashes' = crashes
  BY DEF Request, CreateEnqueue, CreateCommit, CreateAbort, Delete, workerVars, tableVars,
     Hands, TearingDown, Claiming
<1>2. status'[e] = "running" => status[e] = "running"
  BY RequestRefines DEF GivesUpOnly
<1>3. CASE Delete(d)
  <2>1. Publish(TeardownCall(d)) /\ deletes' = deletes + 1
    BY <1>3 DEF Delete
  <2>2. /\ IsFiniteSet(Copies(queue', TeardownsOf(e)))
        /\ Total(queue', TeardownsOf(e)) = Total(queue, TeardownsOf(e))
             + IF TeardownCall(d) \in TeardownsOf(e) THEN 1 ELSE 0
    BY <2>1, TeardownMessages, PublishTotal DEF Bounded
  <2>3. deletes \in Nat /\ crashes \in Nat /\ Cardinality(Hands(e)) \in Nat
    BY OwedTypes DEF TypeOK, ApiTypeOK, Bounded
  <2> DEFINE q == IF TeardownCall(d) \in TeardownsOf(e) THEN 1 ELSE 0
  <2>4. q \in {0, 1} /\ Total(queue', TeardownsOf(e)) = Total(queue, TeardownsOf(e)) + q
    BY <2>2
  <2> HIDE DEF q
  <2>5. /\ q \in Int /\ 0 \in Int /\ q + 0 <= (deletes' + crashes') - (deletes + crashes)
        /\ Cardinality(Hands(e)') <= Cardinality(Hands(e)) + 0
    BY <1>1, <2>1, <2>3, <2>4
  <2> QED
    BY <1>1, <1>2, <2>2, <2>4, <2>5, Moved
<1>4. CASE CreateEnqueue(d)
  <2>1. Publish(ProvisionCall(d)) /\ ProvisionCall(d) \in ProvisionMsg /\ deletes' = deletes
    BY <1>4, BrokerAssumption DEF CreateEnqueue, ProvisionCall, ProvisionMsg
  <2>2. \A m \in TeardownsOf(e) : queue'[m] = queue[m]
    BY <2>1, TeardownMessages DEF Publish, TypeOK, QueueTypeOK
  <2> QED
    BY <1>1, <1>2, <2>1, <2>2, NoMoreTeardowns
<1>5. CASE CreateCommit(d) \/ CreateAbort(d)
  BY <1>1, <1>2, <1>5, NoMoreTeardowns DEF CreateCommit, CreateAbort
<1> QED
  BY <1>3, <1>4, <1>5 DEF Request

(* A worker takes a message, or a killed one gives it back.                *)
LEMMA TakeBounded ==
  ASSUME TypeOK, TypeOK', NEW e \in Env, Bounded(e), NEW w \in Worker, NEW m \in Msg,
         Deliver(w, m), UNCHANGED <<apiVars, crashes>>
  PROVE  Bounded(e)'
<1>1. /\ pc[w] = "idle" /\ Consume(m) /\ job' = [job EXCEPT ![w] = m]
      /\ pc' = [pc EXCEPT ![w] = IF m.task = "provision" THEN "begin" ELSE "load"]
      /\ UNCHANGED <<batch, status, stack, deletes, crashes>>
  BY DEF Deliver, Goto, apiVars, tableVars
<1> DEFINE q == IF m \in TeardownsOf(e) THEN 1 ELSE 0
<1>2. /\ IsFiniteSet(Copies(queue', TeardownsOf(e)))
      /\ Total(queue', TeardownsOf(e)) = Total(queue, TeardownsOf(e)) - q
  BY <1>1, TeardownMessages, ConsumeTotal DEF Bounded
<1>3. w \notin Hands(e) /\ Claiming(e)' \subseteq Claiming(e)
  BY <1>1 DEF Hands, TearingDown, Claiming, TeardownLabels, TypeOK, WorkerTypeOK
<1>4. Hands(e)' = Hands(e) \cup IF m \in TeardownsOf(e) THEN {w} ELSE {}
  BY <1>1, <1>3 DEF Hands, TearingDown, TypeOK, WorkerTypeOK, TeardownLabels, TeardownsOf, Msg,
     ProvisionMsg, TeardownMsg
<1>5. IsFiniteSet(Hands(e)) /\ Cardinality(Hands(e)) \in Nat /\ Total(queue, TeardownsOf(e)) \in Nat
  BY OwedTypes DEF Bounded
<1>6. Cardinality(Hands(e)') <= Cardinality(Hands(e)) + q
  <2>1. CASE m \in TeardownsOf(e)
    <3>1. Hands(e)' = Hands(e) \cup {w}
      BY <1>4, <2>1
    <3>2. Cardinality(Hands(e) \cup {w}) = Cardinality(Hands(e)) + 1
      BY <1>3, <1>5, FS_AddElement, Zenon
    <3> QED
      BY <1>5, <2>1, <3>1, <3>2
  <2>2. CASE m \notin TeardownsOf(e)
    <3>1. Hands(e)' = Hands(e)
      BY <1>4, <2>2
    <3> QED
      BY <1>5, <2>2, <3>1
  <2> QED
    BY <2>1, <2>2
<1>7. q \in Int /\ -q \in Int /\ deletes \in Nat /\ crashes \in Nat
  BY DEF TypeOK, ApiTypeOK
<1> HIDE DEF q
<1>8. /\ Total(queue', TeardownsOf(e)) = Total(queue, TeardownsOf(e)) + -q
      /\ -q + q <= (deletes' + crashes') - (deletes + crashes)
  BY <1>1, <1>2, <1>5, <1>7
<1> QED
  BY <1>1, <1>2, <1>3, <1>6, <1>7, <1>8, Moved

LEMMA CrashBounded ==
  ASSUME TypeOK, TypeOK', NEW e \in Env, Bounded(e), NEW w \in Worker, Crash(w)
  PROVE  Bounded(e)'
<1>1. /\ pc' = [pc EXCEPT ![w] = "idle"] /\ job' = [job EXCEPT ![w] = NoJob]
      /\ batch' = [batch EXCEPT ![w] = {}]
      /\ UNCHANGED <<status, stack, deletes>> /\ crashes' = crashes + 1
  BY DEF Crash, Die, Goto, apiVars, tableVars
<1>2. Hands(e)' \subseteq Hands(e) /\ Claiming(e)' \subseteq Claiming(e)
  BY <1>1 DEF Hands, TearingDown, Claiming, TeardownLabels, TypeOK, WorkerTypeOK
<1>3. IsFiniteSet(Hands(e)) /\ Cardinality(Hands(e)) \in Nat /\ Total(queue, TeardownsOf(e)) \in Nat
  BY OwedTypes DEF Bounded
<1>4. Cardinality(Hands(e)') <= Cardinality(Hands(e))
  BY <1>2, <1>3, FS_Subset
<1>5. PICK q \in {0, 1} :
        /\ IsFiniteSet(Copies(queue', TeardownsOf(e)))
        /\ Total(queue', TeardownsOf(e)) = Total(queue, TeardownsOf(e)) + q
  <2>1. CASE Publish(job[w])
    BY <2>1, TeardownMessages, PublishTotal DEF Bounded
  <2>2. CASE queue' = queue
    BY <1>3, <2>2 DEF Bounded
  <2> QED
    BY <2>1, <2>2 DEF Crash, Die
<1>6. Cardinality(Hands(e)') \in Nat /\ deletes \in Nat /\ crashes \in Nat
  BY <1>5, OwedTypesNext DEF TypeOK, ApiTypeOK
<1>7. /\ q \in Int /\ 0 \in Int /\ q + 0 <= (deletes' + crashes') - (deletes + crashes)
      /\ Cardinality(Hands(e)') <= Cardinality(Hands(e)) + 0
  BY <1>1, <1>3, <1>4, <1>6
<1> QED
  BY <1>1, <1>2, <1>5, <1>7, Moved

(* The message worker w holds goes again, one retry further on.            *)
LEMMA RetryMessage ==
  ASSUME NEW e \in Env, NEW m \in TeardownMsg, ~Exhausted(m)
  PROVE  /\ [m EXCEPT !.retries = @ + 1] \in TeardownMsg
         /\ [m EXCEPT !.retries = @ + 1] \in TeardownsOf(e) <=> m.env = e
<1>1. m.retries + 1 \in 0..TeardownRetries /\ m.task = "teardown"
  BY BrokerAssumption DEF Exhausted, TeardownMsg
<1> QED
  BY <1>1 DEF TeardownsOf, TeardownMsg

(* A task goes on, without a row that comes into service or a teardown     *)
(* that is sent.                                                           *)
TaskGoesOn(w) ==
  /\ \A v \in Worker : v # w => pc'[v] = pc[v] /\ job'[v] = job[v] /\ batch'[v] = batch[v]
  /\ pc'[w] \in TeardownLabels => pc[w] \in TeardownLabels /\ job'[w] = job[w]
  /\ pc'[w] \notin {"claimExpired", "send"}

LEMMA FewerHands ==
  ASSUME NEW w \in Worker, NEW e \in Env, TaskGoesOn(w)
  PROVE  Hands(e)' \subseteq Hands(e) /\ Claiming(e)' \subseteq Claiming(e)
<1>1. "claimExpired" \notin TeardownLabels /\ "send" \notin TeardownLabels
  BY DEF TeardownLabels
<1> QED
  BY <1>1 DEF TaskGoesOn, Hands, TearingDown, Claiming

LEMMA ProvisionRowKept ==
  ASSUME TypeOK, NEW w \in Worker, NEW e \in Env, ProvisionStep(w), ~ProvisionCommit(w)
  PROVE  stack'[e] = stack[e] /\ (status'[e] = "running" => status[e] = "running")
<1>1. CASE ProvisionLoad(w) \/ ProvisionReject(w) \/ BuildNext(w) \/ ProvisionRaise(w) \/ ProvisionRetry(w)
  BY <1>1 DEF ProvisionLoad, ProvisionReject, BuildNext, ProvisionRaise, ProvisionRetry, tableVars
<1>2. CASE ProvisionOpen(w) \/ ProvisionFail(w)
  BY <1>2 DEF ProvisionOpen, ProvisionFail, MarkFailed, SetStatus, TouchStatus
<1> QED
  BY <1>1, <1>2 DEF ProvisionStep

LEMMA ProvisionGoesOn ==
  ASSUME TypeOK, NEW w \in Worker, ProvisionStep(w)
  PROVE  TaskGoesOn(w)
<1>1. CASE ProvisionLoad(w) \/ ProvisionOpen(w) \/ ProvisionReject(w) \/ ProvisionRaise(w)
  BY <1>1 DEF ProvisionLoad, ProvisionOpen, ProvisionReject, ProvisionRaise, Goto, TaskGoesOn,
     TypeOK, WorkerTypeOK, TeardownLabels
<1>2. CASE BuildNext(w)
  BY <1>2 DEF BuildNext, Goto, TaskGoesOn, TypeOK, WorkerTypeOK, TeardownLabels
<1>3. CASE ProvisionCommit(w) \/ ProvisionFail(w) \/ ProvisionRetry(w)
  BY <1>3 DEF ProvisionCommit, ProvisionFail, ProvisionRetry, Goto, TaskGoesOn,
     TypeOK, WorkerTypeOK, TeardownLabels
<1> QED
  BY <1>1, <1>2, <1>3 DEF ProvisionStep

LEMMA ProvisionBounded ==
  ASSUME TypeOK, TypeOK', NEW e \in Env, Bounded(e), NEW w \in Worker,
         ProvisionStep(w), ~ProvisionCommit(w), UNCHANGED <<apiVars, crashes>>
  PROVE  Bounded(e)'
<1>1. Hands(e)' \subseteq Hands(e) /\ Claiming(e)' \subseteq Claiming(e)
  BY ProvisionGoesOn, FewerHands
<1>2. \A m \in TeardownsOf(e) : queue'[m] = queue[m]
  <2>1. CASE ProvisionRetry(w) /\ PublishRetry(job[w])
    <3>1. job[w] \in ProvisionMsg
      BY <2>1 DEF ProvisionRetry, TypeOK, WorkerTypeOK, ProvisionLabels
    <3>2. [job[w] EXCEPT !.retries = @ + 1].task = "provision"
      BY <3>1 DEF ProvisionMsg
    <3>3. \A m \in TeardownsOf(e) : m \in Msg /\ m.task = "teardown"
      BY DEF TeardownsOf, TeardownMsg, Msg
    <3> QED
      BY <2>1, <3>2, <3>3 DEF PublishRetry, Publish, TypeOK, QueueTypeOK
  <2>2. CASE UNCHANGED queue
    BY <2>2
  <2> QED
    BY <2>1, <2>2 DEF ProvisionStep, ProvisionLoad, ProvisionOpen, ProvisionReject, BuildNext,
       ProvisionRaise, ProvisionFail, ProvisionRetry
<1> QED
  BY <1>1, <1>2, ProvisionRowKept, NoMoreTeardowns DEF apiVars

(* The row that begins to serve has not served before, and names a newer   *)
(* stack: as many teardowns as there are workers are allowed for from now. *)
LEMMA CommitBounded ==
  ASSUME OwnershipInv, TypeOK, TypeOK', Owners, NEW e \in Env, Bounded(e), NEW w \in Worker,
         ProvisionCommit(w), UNCHANGED <<apiVars, crashes>>
  PROVE  Bounded(e)'
<1>1. Hands(e)' \subseteq Hands(e) /\ Claiming(e)' \subseteq Claiming(e)
  BY ProvisionGoesOn, FewerHands DEF ProvisionStep
<1>2. UNCHANGED <<queue, deletes, crashes>>
  BY DEF ProvisionCommit, apiVars
<1>3. CASE stack'[e] # stack[e] \/ (status[e] # "running" /\ status'[e] = "running")
  <2> DEFINE n == Cardinality(Worker)
  <2>1. stack[e] < stack'[e] /\ stack[e] \in Nat /\ stack'[e] \in Nat /\ n \in Nat
    BY <1>3, CommitServesNewest, CrewFinite DEF TypeOK, TableTypeOK
  <2>2. /\ n * stack[e] \in Int /\ n * stack'[e] \in Int /\ n * (stack'[e] - 1) \in Int
        /\ n * stack[e] <= n * (stack'[e] - 1)
        /\ n * (stack'[e] - 1) + n = n * stack'[e]
    BY <2>1, PoolTimes
  <2>3. TeardownsOf(e)' = TeardownsOf(e)
    BY DEF TeardownsOf, TeardownMsg
  <2>4. IsFiniteSet(Copies(queue', TeardownsOf(e)))
    BY <1>2 DEF Bounded
  <2>5. /\ Total(queue, TeardownsOf(e)) \in Nat
        /\ IsFiniteSet(Hands(e)) /\ Cardinality(Hands(e)) \in Nat
        /\ IsFiniteSet(Claiming(e)) /\ Cardinality(Claiming(e)) \in Nat
    BY OwedTypes DEF Bounded
  <2>6. /\ Cardinality(Hands(e)') \in Nat /\ Cardinality(Claiming(e)') \in Nat
        /\ Owed(e)' = Total(queue, TeardownsOf(e)) + Cardinality(Hands(e)')
    BY <1>2, <2>4, OwedTypesNext
  <2>7. /\ Cardinality(Hands(e)') <= Cardinality(Hands(e))
        /\ Cardinality(Claiming(e)') <= Cardinality(Claiming(e))
    BY <1>1, <2>5, FS_Subset
  <2>8. Owed(e) = Total(queue, TeardownsOf(e)) + Cardinality(Hands(e))
    BY DEF Owed
  <2>9. deletes \in Nat /\ crashes \in Nat /\ deletes' = deletes /\ crashes' = crashes
    BY <1>2 DEF TypeOK, ApiTypeOK
  <2>10. Owed(e) + Cardinality(Claiming(e)) <= deletes + crashes + n * stack[e]
    BY DEF Bounded
  <2> HIDE DEF n
  <2>11. Owed(e)' + Cardinality(Claiming(e)') <= deletes + crashes + n * stack[e]
    BY <2>2, <2>5, <2>6, <2>7, <2>8, <2>9, <2>10
  <2>12. Owed(e)' <= deletes + crashes + n * (stack'[e] - 1)
    BY <2>2, <2>6, <2>9, <2>11, <2>5
  <2>13. Owed(e)' + Cardinality(Claiming(e)') <= deletes + crashes + n * stack'[e]
    BY <2>1, <2>2, <2>5, <2>6, <2>9, <2>11
  <2> QED
    BY <2>3, <2>4, <2>9, <2>12, <2>13 DEF Bounded, n
<1>4. CASE stack'[e] = stack[e] /\ (status'[e] = "running" => status[e] = "running")
  BY <1>1, <1>2, <1>4, NoMoreTeardowns
<1> QED
  BY <1>3, <1>4

LEMMA TeardownGoesOn ==
  ASSUME TypeOK, NEW w \in Worker, TeardownStep(w)
  PROVE  TaskGoesOn(w)
<1>1. CASE TeardownLoad(w) \/ TeardownClaim(w) \/ TeardownRemove(w)
  BY <1>1 DEF TeardownLoad, TeardownClaim, TeardownRemove, Goto, TaskGoesOn,
     TypeOK, WorkerTypeOK, TeardownLabels
<1>2. CASE TeardownDone(w) \/ TeardownRaise(w) \/ TeardownHandle(w)
  BY <1>2 DEF TeardownDone, TeardownRaise, TeardownHandle, Goto, TaskGoesOn,
     TypeOK, WorkerTypeOK, TeardownLabels
<1> QED
  BY <1>1, <1>2 DEF TeardownStep

LEMMA TeardownRowKept ==
  ASSUME TypeOK, NEW w \in Worker, NEW e \in Env, TeardownStep(w)
  PROVE  stack'[e] = stack[e] /\ (status'[e] = "running" => status[e] = "running")
<1>1. CASE TeardownLoad(w) \/ TeardownRemove(w) \/ TeardownRaise(w)
  BY <1>1 DEF TeardownLoad, TeardownRemove, TeardownRaise, tableVars
<1>2. CASE TeardownClaim(w) \/ TeardownDone(w) \/ TeardownHandle(w)
  BY <1>2 DEF TeardownClaim, TeardownDone, TeardownHandle, MarkFailed, SetStatus, TouchStatus,
     tableVars
<1> QED
  BY <1>1, <1>2 DEF TeardownStep

(* A teardown that is to be retried is counted in the queue instead of in  *)
(* the worker.                                                             *)
LEMMA TeardownBounded ==
  ASSUME TypeOK, TypeOK', NEW e \in Env, Bounded(e), NEW w \in Worker,
         TeardownStep(w), UNCHANGED <<apiVars, crashes>>
  PROVE  Bounded(e)'
<1>1. Hands(e)' \subseteq Hands(e) /\ Claiming(e)' \subseteq Claiming(e)
  BY TeardownGoesOn, FewerHands
<1>2. stack'[e] = stack[e] /\ (status'[e] = "running" => status[e] = "running")
  BY TeardownRowKept
<1>3. UNCHANGED <<deletes, crashes>>
  BY DEF apiVars
<1>4. CASE UNCHANGED queue
  BY <1>1, <1>2, <1>3, <1>4, NoMoreTeardowns
<1>5. CASE TeardownHandle(w) /\ ~Exhausted(job[w]) /\ PublishRetry(job[w])
  <2> DEFINE m == [job[w] EXCEPT !.retries = @ + 1]
             q == IF job[w].env = e THEN 1 ELSE 0
  <2>1. job[w] \in TeardownMsg /\ pc[w] = "raise" /\ pc' = [pc EXCEPT ![w] = "ack"]
    BY <1>5 DEF TeardownHandle, Goto, TypeOK, WorkerTypeOK, TeardownLabels
  <2>2. m \in TeardownsOf(e) <=> job[w].env = e
    BY <1>5, <2>1, RetryMessage
  <2>3. Publish(m)
    BY <1>5 DEF PublishRetry
  <2> HIDE DEF m
  <2>4. /\ IsFiniteSet(Copies(queue', TeardownsOf(e)))
        /\ Total(queue', TeardownsOf(e))
             = Total(queue, TeardownsOf(e)) + IF m \in TeardownsOf(e) THEN 1 ELSE 0
    BY <2>3, TeardownMessages, PublishTotal DEF Bounded
  <2>5. Total(queue', TeardownsOf(e)) = Total(queue, TeardownsOf(e)) + q
    BY <2>2, <2>4
  <2>6. IsFiniteSet(Hands(e)) /\ Cardinality(Hands(e)) \in Nat
    BY OwedTypes DEF Bounded
  <2>7. Cardinality(Hands(e)') <= Cardinality(Hands(e)) + -q
    <3>1. CASE job[w].env = e
      <4>1. w \in Hands(e) /\ Hands(e)' \subseteq Hands(e) \ {w}
        BY <1>1, <2>1, <3>1 DEF Hands, TearingDown, TeardownLabels, TypeOK, WorkerTypeOK
      <4>2. /\ IsFiniteSet(Hands(e) \ {w})
            /\ Cardinality(Hands(e) \ {w}) = Cardinality(Hands(e)) - 1
        BY <2>6, <4>1, FS_RemoveElement
      <4>3. Cardinality(Hands(e)') <= Cardinality(Hands(e) \ {w})
        BY <4>1, <4>2, FS_Subset
      <4>4. Cardinality(Hands(e)') <= Cardinality(Hands(e)) - 1
        BY <4>2, <4>3, Zenon
      <4> QED
        BY <2>6, <3>1, <4>4
    <3>2. CASE job[w].env # e
      <4>1. Cardinality(Hands(e)') <= Cardinality(Hands(e))
        BY <1>1, <2>6, FS_Subset
      <4> QED
        BY <2>6, <3>2, <4>1
    <3> QED
      BY <3>1, <3>2
  <2>8. q \in Int /\ -q \in Int /\ q + -q = 0
    OBVIOUS
  <2> HIDE DEF q
  <2>9. q + -q <= (deletes' + crashes') - (deletes + crashes)
    BY <1>3, <2>8 DEF TypeOK, ApiTypeOK
  <2> QED
    BY <1>1, <1>2, <2>4, <2>5, <2>7, <2>8, <2>9, Moved
<1> QED
  BY <1>4, <1>5 DEF TeardownStep, TeardownLoad, TeardownClaim, TeardownRemove, TeardownDone,
     TeardownRaise, TeardownHandle

-----------------------------------------------------------------------------
(* Only while the row is RUNNING can a reaper select it, and then there is *)
(* room for all the workers.                                               *)
LEMMA StartReapBounded ==
  ASSUME TypeOK, TypeOK', NEW e \in Env, Bounded(e), NEW w \in Worker,
         StartReap(w), UNCHANGED <<apiVars, crashes>>
  PROVE  Bounded(e)'
<1>1. /\ pc[w] = "idle" /\ pc' = [pc EXCEPT ![w] = "claimExpired"]
      /\ batch' = [batch EXCEPT ![w] = Expired]
      /\ UNCHANGED <<job, queue, status, stack, deletes, crashes>>
  BY DEF StartReap, Goto, tableVars, apiVars
<1>2. Hands(e)' = Hands(e)
  BY <1>1 DEF Hands, TearingDown, TeardownLabels, TypeOK, WorkerTypeOK
<1>3. CASE e \notin Expired
  <2>1. Claiming(e)' \subseteq Claiming(e)
    BY <1>1, <1>3 DEF Claiming, TypeOK, WorkerTypeOK
  <2> QED
    BY <1>1, <1>2, <2>1, NoMoreTeardowns
<1>4. CASE e \in Expired
  <2> DEFINE n == Cardinality(Worker)
  <2>1. status[e] = "running"
    BY <1>4 DEF Expired
  <2>2. stack[e] \in Nat /\ deletes \in Nat /\ crashes \in Nat
    BY DEF TypeOK, TableTypeOK, ApiTypeOK
  <2>3. Claiming(e)' \in SUBSET Worker
    BY DEF Claiming
  <2>4. Cardinality(Claiming(e)') \in Nat /\ Cardinality(Claiming(e)') <= n /\ n \in Nat
    BY <2>3, CrewFinite
  <2>5. n * stack[e] \in Int /\ n * (stack[e] - 1) \in Int /\ n * (stack[e] - 1) + n = n * stack[e]
    BY <2>2, <2>4, PoolTimes
  <2>6. TeardownsOf(e)' = TeardownsOf(e)
    BY DEF TeardownsOf, TeardownMsg
  <2>7. Owed(e)' = Owed(e) /\ Owed(e) \in Nat
    BY <1>1, <1>2, <2>6, OwedTypes DEF Owed, Bounded
  <2>8. Owed(e) <= deletes + crashes + n * (stack[e] - 1)
    BY <2>1 DEF Bounded
  <2> HIDE DEF n
  <2>9. Owed(e)' + Cardinality(Claiming(e)') <= deletes + crashes + n * stack[e]
    BY <2>2, <2>4, <2>5, <2>7, <2>8
  <2>10. IsFiniteSet(Copies(queue', TeardownsOf(e)))
    BY <1>1 DEF Bounded
  <2> QED
    BY <1>1, <2>6, <2>7, <2>8, <2>9, <2>10 DEF Bounded, n
<1> QED
  BY <1>3, <1>4

(* The claim moves the reaper from those that have selected to those that  *)
(* are to send, and no reaper selects the row from now on.                 *)
LEMMA ReapClaimBounded ==
  ASSUME TypeOK, TypeOK', NEW e \in Env, Bounded(e), NEW w \in Worker,
         ReapClaim(w), UNCHANGED <<apiVars, crashes>>
  PROVE  Bounded(e)'
<1>1. /\ pc[w] = "claimExpired" /\ pc' = [pc EXCEPT ![w] = "send"]
      /\ status' = [d \in Env |-> IF d \in batch[w] THEN "stopping" ELSE status[d]]
      /\ UNCHANGED <<job, batch, queue, stack, deletes, crashes>>
  BY DEF ReapClaim, Goto, SetStatus, apiVars
<1>2. /\ IsFiniteSet(Copies(queue', TeardownsOf(e)))
      /\ Total(queue', TeardownsOf(e)) = Total(queue, TeardownsOf(e))
  BY <1>1 DEF Bounded
<1>3. CASE e \notin batch[w]
  <2>1. Hands(e)' \subseteq Hands(e) /\ Claiming(e)' \subseteq Claiming(e)
    BY <1>1, <1>3 DEF Hands, TearingDown, Claiming, TeardownLabels, TypeOK, WorkerTypeOK
  <2> QED
    BY <1>1, <1>3, <2>1, NoMoreTeardowns
<1>4. CASE e \in batch[w]
  <2>1. w \notin Hands(e) /\ Hands(e)' = Hands(e) \cup {w}
    BY <1>1, <1>4 DEF Hands, TearingDown, TeardownLabels, TypeOK, WorkerTypeOK
  <2>2. w \in Claiming(e) /\ Claiming(e)' = Claiming(e) \ {w}
    BY <1>1, <1>4 DEF Claiming, TypeOK, WorkerTypeOK
  <2>3. /\ Total(queue, TeardownsOf(e)) \in Nat
        /\ IsFiniteSet(Hands(e)) /\ Cardinality(Hands(e)) \in Nat
        /\ IsFiniteSet(Claiming(e)) /\ Cardinality(Claiming(e)) \in Nat
    BY OwedTypes DEF Bounded
  <2>4. Cardinality(Hands(e)') = Cardinality(Hands(e)) + 1
    BY <2>1, <2>3, FS_AddElement
  <2>5. Cardinality(Claiming(e)') = Cardinality(Claiming(e)) - 1
    BY <2>2, <2>3, FS_RemoveElement
  <2>6. Owed(e)' = Total(queue', TeardownsOf(e)) + Cardinality(Hands(e)')
    BY <1>2, OwedTypesNext
  <2>7. Owed(e) = Total(queue, TeardownsOf(e)) + Cardinality(Hands(e))
    BY DEF Owed
  <2>8. Owed(e)' + Cardinality(Claiming(e)') = Owed(e) + Cardinality(Claiming(e))
    BY <1>2, <2>3, <2>4, <2>5, <2>6, <2>7
  <2>9. (Owed(e)' + Cardinality(Claiming(e)')) - (deletes' + crashes')
          <= (Owed(e) + Cardinality(Claiming(e))) - (deletes + crashes)
    <3>1. deletes + crashes \in Int /\ deletes' + crashes' = deletes + crashes
      BY <1>1 DEF TypeOK, ApiTypeOK
    <3>2. Owed(e) + Cardinality(Claiming(e)) \in Int
      BY <2>3, <2>7
    <3> QED
      BY <2>8, <3>1, <3>2
  <2>10. status'[e] # "running"
    BY <1>1, <1>4
  <2> QED
    BY <1>1, <1>2, <2>9, <2>10, BoundKept
<1> QED
  BY <1>3, <1>4

(* What a reaper sends it holds no more.                                   *)
LEMMA ReapSendBounded ==
  ASSUME TypeOK, TypeOK', NEW e \in Env, Bounded(e), NEW w \in Worker,
         ReapSend(w), UNCHANGED <<apiVars, crashes>>
  PROVE  Bounded(e)'
<1>1. PICK d \in batch[w] :
        /\ pc[w] = "send" /\ Publish(TeardownCall(d))
        /\ batch' = [batch EXCEPT ![w] = @ \ {d}]
        /\ pc' = [pc EXCEPT ![w] = IF batch[w] = {d} THEN "idle" ELSE "send"]
        /\ UNCHANGED <<job, status, stack, deletes, crashes>>
  BY DEF ReapSend, Goto, tableVars, apiVars
<1>2. d \in Env
  BY DEF TypeOK, WorkerTypeOK
<1>3. Hands(e)' \subseteq Hands(e) /\ Claiming(e)' \subseteq Claiming(e)
  BY <1>1 DEF Hands, TearingDown, Claiming, TeardownLabels, TypeOK, WorkerTypeOK
<1>4. TeardownCall(d) \in TeardownsOf(e) <=> d = e
  BY <1>2, TeardownMessages
<1>5. /\ IsFiniteSet(Copies(queue', TeardownsOf(e)))
      /\ Total(queue', TeardownsOf(e))
           = Total(queue, TeardownsOf(e)) + IF TeardownCall(d) \in TeardownsOf(e) THEN 1 ELSE 0
  BY <1>1, TeardownMessages, PublishTotal DEF Bounded
<1>6. IsFiniteSet(Hands(e)) /\ Cardinality(Hands(e)) \in Nat /\ Total(queue, TeardownsOf(e)) \in Nat
  BY OwedTypes DEF Bounded
<1>7. deletes \in Nat /\ crashes \in Nat /\ deletes' = deletes /\ crashes' = crashes
  BY <1>1 DEF TypeOK, ApiTypeOK
<1>8. CASE d = e
  <2>1. w \in Hands(e) /\ Hands(e)' \subseteq Hands(e) \ {w}
    BY <1>1, <1>3, <1>8 DEF Hands, TearingDown, TeardownLabels, TypeOK, WorkerTypeOK
  <2>2. /\ IsFiniteSet(Hands(e) \ {w})
        /\ Cardinality(Hands(e) \ {w}) = Cardinality(Hands(e)) - 1
    BY <1>6, <2>1, FS_RemoveElement
  <2>3. Cardinality(Hands(e)') <= Cardinality(Hands(e) \ {w})
    BY <2>1, <2>2, FS_Subset
  <2>4. Cardinality(Hands(e)') <= Cardinality(Hands(e)) + -1
    BY <1>6, <2>2, <2>3
  <2>5. Total(queue', TeardownsOf(e)) = Total(queue, TeardownsOf(e)) + 1
    BY <1>4, <1>5, <1>8
  <2>6. 1 \in Int /\ -1 \in Int /\ 1 + -1 <= (deletes' + crashes') - (deletes + crashes)
    BY <1>7
  <2> QED
    BY <1>1, <1>3, <1>5, <2>4, <2>5, <2>6, Moved
<1>9. CASE d # e
  <2>1. \A m \in TeardownsOf(e) : queue'[m] = queue[m]
    BY <1>1, <1>4, <1>9, TeardownMessages DEF Publish, TypeOK, QueueTypeOK
  <2> QED
    BY <1>1, <1>3, <2>1, NoMoreTeardowns
<1> QED
  BY <1>8, <1>9

(* The other steps of the sweeps send no teardown.                         *)
LEMMA OtherSweepBounded ==
  ASSUME TypeOK, TypeOK', NEW e \in Env, Bounded(e), NEW w \in Worker,
         \/ StartRecover(w) \/ StartReconcile(w) \/ RecoverCommit(w)
         \/ OrphanCheck(w) \/ OrphanRemove(w) \/ SweepRaise(w),
         UNCHANGED <<apiVars, crashes>>
  PROVE  Bounded(e)'
<1>1. /\ TaskGoesOn(w) /\ UNCHANGED <<queue, stack>>
      /\ status'[e] = "running" => status[e] = "running"
  <2>1. CASE StartRecover(w) \/ StartReconcile(w) \/ SweepRaise(w)
    BY <2>1 DEF StartRecover, StartReconcile, SweepRaise, Goto, tableVars, TaskGoesOn,
       TypeOK, WorkerTypeOK, TeardownLabels
  <2>2. CASE RecoverCommit(w)
    BY <2>2 DEF RecoverCommit, Goto, SetStatus, TaskGoesOn, TypeOK, WorkerTypeOK, TeardownLabels
  <2>3. CASE OrphanCheck(w)
    BY <2>3 DEF OrphanCheck, Goto, tableVars, TaskGoesOn, TypeOK, WorkerTypeOK, TeardownLabels
  <2>4. CASE OrphanRemove(w)
    BY <2>4 DEF OrphanRemove, Goto, tableVars, TaskGoesOn, TypeOK, WorkerTypeOK, TeardownLabels
  <2> QED
    BY <2>1, <2>2, <2>3, <2>4
<1>2. UNCHANGED <<deletes, crashes>>
  BY DEF apiVars
<1> QED
  BY <1>1, <1>2, FewerHands, NoMoreTeardowns

LEMMA BoundedStep ==
  ASSUME OwnershipInv, TypeOK, TypeOK', Owners, [Next]_vars, NEW e \in Env, Bounded(e)
  PROVE  Bounded(e)'
<1>1. CASE UNCHANGED vars
  BY <1>1, NoMoreTeardowns DEF vars, tableVars, apiVars, workerVars, Hands, TearingDown, Claiming
<1>2. ASSUME NEW d \in Env, Request(d) PROVE Bounded(e)'
  BY <1>2, RequestBounded
<1>3. ASSUME NEW w \in Worker, Take(w) PROVE Bounded(e)'
  BY <1>3, TakeBounded DEF Take
<1>4. ASSUME NEW w \in Worker, Launch(w) PROVE Bounded(e)'
  BY <1>4, StartReapBounded, OtherSweepBounded DEF Launch, StartSweep
<1>5. ASSUME NEW w \in Worker, Work(w) PROVE Bounded(e)'
  <2>1. UNCHANGED <<apiVars, crashes>>
    BY <1>5 DEF Work
  <2>2. CASE ProvisionStep(w)
    BY <2>1, <2>2, ProvisionBounded, CommitBounded
  <2>3. CASE TeardownStep(w)
    BY <2>1, <2>3, TeardownBounded
  <2>4. CASE SweepStep(w)
    BY <2>1, <2>4, ReapClaimBounded, ReapSendBounded, OtherSweepBounded DEF SweepStep
  <2>5. CASE Ack(w)
    <3>1. TaskGoesOn(w) /\ UNCHANGED <<queue, status, stack, deletes, crashes>>
      BY <2>1, <2>5 DEF Ack, Goto, TaskGoesOn, TypeOK, WorkerTypeOK, TeardownLabels, tableVars,
         apiVars
    <3> QED
      BY <3>1, FewerHands, NoMoreTeardowns
  <2> QED
    BY <1>5, <2>2, <2>3, <2>4, <2>5 DEF Work
<1>6. ASSUME NEW w \in Worker, Crash(w) PROVE Bounded(e)'
  BY <1>6, CrashBounded
<1>7. CASE Tick
  <2>1. /\ UNCHANGED <<queue, stack, status, deletes, crashes>>
        /\ Hands(e)' = Hands(e) /\ Claiming(e)' = Claiming(e)
    BY <1>7 DEF Tick, AgeRows, apiVars, Hands, TearingDown, Claiming
  <2> QED
    BY <2>1, NoMoreTeardowns
<1> QED
  BY <1>1, <1>2, <1>3, <1>4, <1>5, <1>6, <1>7 DEF Next

LEMMA BoundedInit ==
  ASSUME Init, NEW e \in Env
  PROVE  Bounded(e)
<1>1. \A m \in TeardownsOf(e) : queue[m] = 0
  BY DEF Init, QueueInit, TeardownsOf, Msg
<1>2. IsFiniteSet(Copies(queue, TeardownsOf(e))) /\ Total(queue, TeardownsOf(e)) = 0
  BY <1>1, TotalNone, Zenon
<1>3. Hands(e) = {} /\ Claiming(e) = {}
  BY DEF Init, WorkerInit, Hands, TearingDown, Claiming, TeardownLabels
<1>4. Cardinality({}) = 0
  BY FS_EmptySet
<1>5. status[e] = "absent" /\ stack[e] = 0 /\ deletes = 0 /\ crashes = 0
  BY DEF Init, TableInit, ApiInit
<1>6. Cardinality(Worker) \in Nat
  BY CrewFinite
<1>7. Owed(e) = 0 /\ Cardinality(Claiming(e)) = 0 /\ Cardinality(Worker) * stack[e] = 0
  BY <1>2, <1>3, <1>4, <1>5, <1>6 DEF Owed
<1> QED
  BY <1>2, <1>5, <1>7 DEF Bounded

LEMMA TeardownHolds ==
  ASSUME GraceOutlastsBuild
  PROVE  Spec => []TeardownInv
<1>1. TeardownInv <=> \A e \in Env : Bounded(e)
  BY DEF TeardownInv, Bounded
<1>2. Init => TeardownInv
  BY <1>1, BoundedInit
<1>3. TeardownInv' <=> \A e \in Env : Bounded(e)'
  BY DEF TeardownInv, Bounded
<1>4. OwnershipInv /\ TypeOK /\ TypeOK' /\ Owners /\ TeardownInv /\ [Next]_vars => TeardownInv'
  BY <1>1, <1>3, BoundedStep
<1> QED
  BY <1>2, <1>4, OwnershipHolds, TypeCorrect, OwnersHold, PTL DEF Spec

LEMMA Apart ==
  ASSUME NEW S, NEW T, IsFiniteSet(S), IsFiniteSet(T), S \cap T = {}
  PROVE  Cardinality(S \cup T) = Cardinality(S) + Cardinality(T)
<1>1. /\ Cardinality(S \cap T) = 0
      /\ Cardinality(S \cup T) = Cardinality(S) + Cardinality(T) - Cardinality(S \cap T)
  BY FS_EmptySet, FS_Union, Zenon
<1>2. Cardinality(S) \in Nat /\ Cardinality(T) \in Nat
  BY FS_CardinalityType
<1> QED
  BY <1>1, <1>2

LEMMA Regroup ==
  ASSUME NEW t \in Nat, NEW h \in Nat, NEW c \in Nat, NEW x, NEW o, x = h + c, o = t + h
  PROVE  t + x = o + c
  OBVIOUS

(* tasks.py reap_expired_environments, request_teardown and the retries of *)
(* teardown_environment: reapers that meet at a row before it is claimed   *)
(* each send a teardown for it, and that is all; beyond one for each       *)
(* worker and life of the environment there are only the DELETEs and what  *)
(* kills gave back.                                                        *)
THEOREM TeardownsStayBounded ==
  ASSUME GraceOutlastsBuild
  PROVE  Spec => []TeardownsBounded
<1>1. ASSUME TypeOK, NEW e \in Env, Bounded(e)
      PROVE  Total(queue, TeardownsOf(e)) + Cardinality(TearingDown(e) \cup Reaping(e))
               <= deletes + crashes + Cardinality(Worker) * stack[e]
  <2>1. TearingDown(e) \cup Reaping(e) = Hands(e) \cup Claiming(e)
    BY DEF Reaping, Hands, Claiming
  <2>2. Hands(e) \cap Claiming(e) = {}
    BY DEF Hands, TearingDown, Claiming, TeardownLabels
  <2>3. /\ Total(queue, TeardownsOf(e)) \in Nat
        /\ IsFiniteSet(Hands(e)) /\ Cardinality(Hands(e)) \in Nat
        /\ IsFiniteSet(Claiming(e)) /\ Cardinality(Claiming(e)) \in Nat
    BY <1>1, OwedTypes DEF Bounded
  <2>4. Cardinality(Hands(e) \cup Claiming(e)) = Cardinality(Hands(e)) + Cardinality(Claiming(e))
    BY <2>2, <2>3, Apart, Zenon
  <2>5. Total(queue, TeardownsOf(e)) + Cardinality(TearingDown(e) \cup Reaping(e))
          = Owed(e) + Cardinality(Claiming(e))
    <3>1. Cardinality(TearingDown(e) \cup Reaping(e))
            = Cardinality(Hands(e)) + Cardinality(Claiming(e))
      BY <2>1, <2>4, Zenon
    <3>2. Owed(e) = Total(queue, TeardownsOf(e)) + Cardinality(Hands(e))
      BY DEF Owed
    <3> QED
      BY <2>3, <3>1, <3>2, Regroup
  <2>6. Owed(e) + Cardinality(Claiming(e))
          <= deletes + crashes + Cardinality(Worker) * stack[e]
    BY <1>1 DEF Bounded
  <2> QED
    BY <2>5, <2>6, Zenon
<1>2. TypeOK /\ TeardownInv => TeardownsBounded
  BY <1>1 DEF TeardownInv, Bounded, TeardownsBounded
<1> QED
  BY <1>2, TypeCorrect, TeardownHolds, PTL
=============================================================================
