------------------------- MODULE CreateGuardsProofs -------------------------
(***************************************************************************)
(* How far concurrent POSTs overshoot the two guards, for any number of    *)
(* requests, owners and names, any quota and any degree of concurrency.    *)
(***************************************************************************)
EXTENDS CreateGuards, FiniteSetTheorems, TLAPS

(* The sets that the two bounds count.                                     *)
Kept(o)     == ActiveOf(o) \ revived
Passed(o)   == {r \in Request : OwnerOf[r] = o /\ pc[r] \in {"name", "insert"}}
Named(o, n) == {r \in ActiveOf(o) \ revived : name[r] = n}
Ready(o, n) == {r \in Request : OwnerOf[r] = o /\ name[r] = n /\ pc[r] = "insert"}

QuotaBound == \A o \in Owner :
  Cardinality(Kept(o)) + Cardinality(Passed(o)) <= MaxEnvs + MaxInFlight - 1
NameBound == \A o \in Owner, n \in Name :
  Cardinality(Named(o, n)) + Cardinality(Ready(o, n)) <= MaxInFlight

(* Requests are admitted up to the limit, and a row is there only when its *)
(* request has been answered.                                              *)
ServerInv ==
  /\ Cardinality(InFlight) <= MaxInFlight
  /\ \A r \in Request : pc[r] # "202" => row[r] = "none" /\ r \notin revived

GuardInv == TypeOK /\ ServerInv /\ QuotaBound /\ NameBound

LEMMA Subsets ==
  ASSUME NEW S \in SUBSET Request
  PROVE  IsFiniteSet(S) /\ Cardinality(S) \in Nat
  <1>1. IsFiniteSet(S)
    BY GuardsAssumption, FS_Subset
  <1> QED BY <1>1, FS_CardinalityType

LEMMA Fewer ==
  ASSUME NEW A \in SUBSET Request, NEW B \in SUBSET Request,
         NEW A2 \in SUBSET A, NEW B2 \in SUBSET B
  PROVE  Cardinality(A2) + Cardinality(B2) <= Cardinality(A) + Cardinality(B)
  <1>1. Cardinality(A2) <= Cardinality(A) /\ Cardinality(B2) <= Cardinality(B)
    BY Subsets, FS_Subset
  <1>2. A2 \in SUBSET Request /\ B2 \in SUBSET Request
    OBVIOUS
  <1>3. /\ Cardinality(A) \in Nat /\ Cardinality(A2) \in Nat
        /\ Cardinality(B) \in Nat /\ Cardinality(B2) \in Nat
    BY <1>2, Subsets
  <1> QED BY <1>1, <1>3

LEMMA Transfer ==
  ASSUME NEW A \in SUBSET Request, NEW B \in SUBSET Request, NEW x \in B,
         NEW A2 \in SUBSET (A \cup {x}), NEW B2 \in SUBSET (B \ {x})
  PROVE  Cardinality(A2) + Cardinality(B2) <= Cardinality(A) + Cardinality(B)
  <1>1. A \cup {x} \in SUBSET Request /\ B \ {x} \in SUBSET Request
    OBVIOUS
  <1>2. Cardinality(A \cup {x}) <= Cardinality(A) + 1
    BY Subsets, FS_AddElement
  <1>3. Cardinality(B \ {x}) = Cardinality(B) - 1
    BY Subsets, FS_RemoveElement
  <1>4. Cardinality(A2) + Cardinality(B2) <= Cardinality(A \cup {x}) + Cardinality(B \ {x})
    BY <1>1, Fewer
  <1>5. A2 \in SUBSET Request /\ B2 \in SUBSET Request
    OBVIOUS
  <1>6. /\ Cardinality(A) \in Nat /\ Cardinality(B) \in Nat
        /\ Cardinality(A2) \in Nat /\ Cardinality(B2) \in Nat
        /\ Cardinality(A \cup {x}) \in Nat
    BY <1>1, <1>5, Subsets
  <1> QED BY <1>2, <1>3, <1>4, <1>6

LEMMA SetsTyped ==
  ASSUME TypeOK
  PROVE  /\ InFlight \in SUBSET Request
         /\ \A o \in Owner : Kept(o) \in SUBSET Request /\ Passed(o) \in SUBSET Request
         /\ \A o \in Owner, n \in Name :
              Named(o, n) \in SUBSET Request /\ Ready(o, n) \in SUBSET Request
  BY DEF InFlight, Kept, Passed, Named, Ready, ActiveOf

-----------------------------------------------------------------------------
LEMMA TypeStep == TypeOK /\ [Next]_vars => TypeOK'
  BY DEF TypeOK, Next, vars, Arrive, CheckQuota, CheckName, Insert, Break, Finish, Revive, Answer

LEMMA InitInv == Init => GuardInv
  <1> SUFFICES ASSUME Init PROVE GuardInv OBVIOUS
  <1>1. TypeOK
    BY DEF Init, TypeOK
  <1>2. /\ InFlight = {}
        /\ \A o \in Owner : Kept(o) = {} /\ Passed(o) = {}
        /\ \A o \in Owner, n \in Name : Named(o, n) = {} /\ Ready(o, n) = {}
    BY DEF Init, InFlight, Kept, Passed, Named, Ready, ActiveOf
  <1>3. Cardinality({}) = 0
    BY FS_EmptySet
  <1>4. ServerInv
    BY <1>2, <1>3, GuardsAssumption DEF ServerInv, Init
  <1>5. \A o \in Owner : Cardinality(Kept(o)) = 0 /\ Cardinality(Passed(o)) = 0
    BY <1>2, <1>3
  <1>6. \A o \in Owner, n \in Name :
          Cardinality(Named(o, n)) = 0 /\ Cardinality(Ready(o, n)) = 0
    BY <1>2, <1>3
  <1>7. QuotaBound
    BY <1>5, GuardsAssumption DEF QuotaBound
  <1>8. NameBound
    BY <1>6, GuardsAssumption DEF NameBound
  <1> QED BY <1>1, <1>4, <1>7, <1>8 DEF GuardInv

(* A step after which none of the sets has grown.                          *)
LEMMA QuietStep ==
  ASSUME GuardInv,
         \A o \in Owner : Kept(o)' \subseteq Kept(o) /\ Passed(o)' \subseteq Passed(o)
  PROVE  QuotaBound'
  <1> SUFFICES ASSUME NEW o \in Owner
               PROVE  Cardinality(Kept(o)') + Cardinality(Passed(o)') <= MaxEnvs + MaxInFlight - 1
    BY DEF QuotaBound
  <1>1. Kept(o) \in SUBSET Request /\ Passed(o) \in SUBSET Request
    BY SetsTyped DEF GuardInv
  <1>2. Kept(o)' \in SUBSET Kept(o) /\ Passed(o)' \in SUBSET Passed(o)
    OBVIOUS
  <1>3. Cardinality(Kept(o)') + Cardinality(Passed(o)') <= Cardinality(Kept(o)) + Cardinality(Passed(o))
    BY <1>1, <1>2, Fewer
  <1>4. Kept(o)' \in SUBSET Request /\ Passed(o)' \in SUBSET Request
    BY <1>1, <1>2
  <1>5. /\ Cardinality(Kept(o)) \in Nat /\ Cardinality(Passed(o)) \in Nat
        /\ Cardinality(Kept(o)') \in Nat /\ Cardinality(Passed(o)') \in Nat
    BY <1>1, <1>4, Subsets
  <1> QED BY <1>3, <1>5, GuardsAssumption DEF GuardInv, QuotaBound

LEMMA QuietNameStep ==
  ASSUME GuardInv,
         \A o \in Owner, n \in Name :
           Named(o, n)' \subseteq Named(o, n) /\ Ready(o, n)' \subseteq Ready(o, n)
  PROVE  NameBound'
  <1> SUFFICES ASSUME NEW o \in Owner, NEW n \in Name
               PROVE  Cardinality(Named(o, n)') + Cardinality(Ready(o, n)') <= MaxInFlight
    BY DEF NameBound
  <1>1. Named(o, n) \in SUBSET Request /\ Ready(o, n) \in SUBSET Request
    BY SetsTyped DEF GuardInv
  <1>2. Named(o, n)' \in SUBSET Named(o, n) /\ Ready(o, n)' \in SUBSET Ready(o, n)
    OBVIOUS
  <1>3. Cardinality(Named(o, n)') + Cardinality(Ready(o, n)')
          <= Cardinality(Named(o, n)) + Cardinality(Ready(o, n))
    BY <1>1, <1>2, Fewer
  <1>4. Named(o, n)' \in SUBSET Request /\ Ready(o, n)' \in SUBSET Request
    BY <1>1, <1>2
  <1>5. /\ Cardinality(Named(o, n)) \in Nat /\ Cardinality(Ready(o, n)) \in Nat
        /\ Cardinality(Named(o, n)') \in Nat /\ Cardinality(Ready(o, n)') \in Nat
    BY <1>1, <1>4, Subsets
  <1> QED BY <1>3, <1>5, GuardsAssumption DEF GuardInv, NameBound

-----------------------------------------------------------------------------
LEMMA ServerStep ==
  ASSUME GuardInv, [Next]_vars PROVE ServerInv'
  <1> USE DEF GuardInv
  <1>1. \A r \in Request : pc'[r] # "202" => row'[r] = "none" /\ r \notin revived'
    BY DEF TypeOK, ServerInv, Next, vars, Arrive, CheckQuota, CheckName, Insert, Break, Finish,
           Revive, Answer, InFlight
  <1>2. InFlight \in SUBSET Request /\ InFlight' \in SUBSET Request
    BY DEF InFlight
  <1>3. /\ IsFiniteSet(InFlight) /\ Cardinality(InFlight) \in Nat
        /\ Cardinality(InFlight') \in Nat
    BY <1>2, Subsets
  <1>4. CASE InFlight' \subseteq InFlight
    <2>1. InFlight' \in SUBSET InFlight
      BY <1>4
    <2>2. Cardinality(InFlight') <= Cardinality(InFlight)
      BY <1>3, <2>1, FS_Subset
    <2> QED BY <1>1, <1>3, <2>2, GuardsAssumption DEF ServerInv
  <1>5. ASSUME NEW r \in Request, Arrive(r) PROVE ServerInv'
    <2>1. InFlight' = InFlight \cup {r}
      BY <1>5 DEF Arrive, Answer, InFlight, TypeOK
    <2>2. Cardinality(InFlight') <= Cardinality(InFlight) + 1
      BY <1>3, <2>1, FS_AddElement
    <2>3. Cardinality(InFlight) < MaxInFlight
      BY <1>5 DEF Arrive
    <2> QED BY <1>1, <1>3, <2>2, <2>3, GuardsAssumption DEF ServerInv
  <1>6. ASSUME ~(\E r \in Request : Arrive(r)) PROVE InFlight' \subseteq InFlight
    BY <1>6 DEF TypeOK, Next, vars, CheckQuota, CheckName, Insert, Break, Finish,
           Revive, Answer, InFlight
  <1> QED BY <1>4, <1>5, <1>6

(* Passing the count: fewer rows are active than the quota, and all who    *)
(* have passed are being served.                                           *)
LEMMA QuotaStep ==
  ASSUME GuardInv, [Next]_vars PROVE QuotaBound'
  <1> USE DEF GuardInv
  <1>1. TypeOK' /\ ServerInv'
    BY TypeStep, ServerStep
  <1>2. ASSUME NEW r \in Request, CheckQuota(r) PROVE QuotaBound'
    <2>1. CASE pc'[r] # "name"
      <3>1. \A o \in Owner : Kept(o)' \subseteq Kept(o) /\ Passed(o)' \subseteq Passed(o)
        BY <1>2, <2>1 DEF CheckQuota, Answer, Kept, Passed, ActiveOf, TypeOK
      <3> QED BY <3>1, QuietStep
    <2>2. CASE pc'[r] = "name"
      <3>1. Cardinality(ActiveOf(OwnerOf[r])) < MaxEnvs
        <4>1. ActiveOf(OwnerOf[r]) \in SUBSET Request
          BY DEF ActiveOf
        <4>2. Cardinality(ActiveOf(OwnerOf[r])) \in Nat
          BY <4>1, Subsets
        <4>3. ~(Cardinality(ActiveOf(OwnerOf[r])) >= MaxEnvs)
          BY <1>2, <2>2 DEF CheckQuota, Answer, TypeOK
        <4> QED BY <4>2, <4>3, GuardsAssumption
      <3>2. SUFFICES ASSUME NEW o \in Owner
                     PROVE  Cardinality(Kept(o)') + Cardinality(Passed(o)')
                              <= MaxEnvs + MaxInFlight - 1
        BY DEF QuotaBound
      <3>3. Kept(o)' = Kept(o)
        BY <1>2 DEF CheckQuota, Answer, Kept, ActiveOf
      <3>4. CASE o = OwnerOf[r]
        <4>1. Kept(o) \in SUBSET ActiveOf(o) /\ Passed(o)' \in SUBSET InFlight'
          BY DEF Kept, Passed, InFlight
        <4>2. ActiveOf(o) \in SUBSET Request /\ InFlight' \in SUBSET Request
          BY DEF ActiveOf, InFlight
        <4>3. Cardinality(Kept(o)) + Cardinality(Passed(o)')
                <= Cardinality(ActiveOf(o)) + Cardinality(InFlight')
          BY <4>1, <4>2, Fewer
        <4>4. Cardinality(InFlight') <= MaxInFlight
          BY <1>1 DEF ServerInv
        <4>5. Kept(o) \in SUBSET Request /\ Passed(o)' \in SUBSET Request
          BY <4>1, <4>2
        <4>6. /\ Cardinality(ActiveOf(o)) \in Nat /\ Cardinality(InFlight') \in Nat
              /\ Cardinality(Kept(o)) \in Nat /\ Cardinality(Passed(o)') \in Nat
          BY <4>2, <4>5, Subsets
        <4> QED BY <3>1, <3>3, <3>4, <4>3, <4>4, <4>6, GuardsAssumption
      <3>5. CASE o # OwnerOf[r]
        <4>1. Passed(o)' = Passed(o)
          BY <1>2, <3>5 DEF CheckQuota, Answer, Passed, TypeOK
        <4> QED BY <3>3, <4>1 DEF QuotaBound
      <3> QED BY <3>4, <3>5
    <2> QED BY <2>1, <2>2
  <1>3. ASSUME NEW r \in Request, Insert(r) PROVE QuotaBound'
    <2>1. SUFFICES ASSUME NEW o \in Owner
                   PROVE  Cardinality(Kept(o)') + Cardinality(Passed(o)')
                            <= MaxEnvs + MaxInFlight - 1
      BY DEF QuotaBound
    <2>2. Kept(o) \in SUBSET Request /\ Passed(o) \in SUBSET Request
      BY SetsTyped
    <2>3. CASE o = OwnerOf[r]
      <3>1. r \in Passed(o)
        BY <1>3, <2>3 DEF Insert, Passed
      <3>2. Kept(o)' \in SUBSET (Kept(o) \cup {r}) /\ Passed(o)' \in SUBSET (Passed(o) \ {r})
        BY <1>3 DEF Insert, Kept, Passed, ActiveOf, TypeOK
      <3>3. Cardinality(Kept(o)') + Cardinality(Passed(o)')
              <= Cardinality(Kept(o)) + Cardinality(Passed(o))
        BY <2>2, <3>1, <3>2, Transfer
      <3>4. Kept(o)' \in SUBSET Request /\ Passed(o)' \in SUBSET Request
        BY <2>2, <3>2
      <3>5. /\ Cardinality(Kept(o)) \in Nat /\ Cardinality(Passed(o)) \in Nat
            /\ Cardinality(Kept(o)') \in Nat /\ Cardinality(Passed(o)') \in Nat
        BY <2>2, <3>4, Subsets
      <3> QED BY <3>3, <3>5, GuardsAssumption DEF QuotaBound
    <2>4. CASE o # OwnerOf[r]
      <3>1. Kept(o)' = Kept(o) /\ Passed(o)' = Passed(o)
        BY <1>3, <2>4 DEF Insert, Kept, Passed, ActiveOf, TypeOK
      <3> QED BY <3>1 DEF QuotaBound
    <2> QED BY <2>3, <2>4
  <1>4. ASSUME NEW r \in Request,
               Arrive(r) \/ CheckName(r) \/ Break(r) \/ Finish(r) \/ Revive(r)
        PROVE  QuotaBound'
    <2>1. \A o \in Owner : Kept(o)' \subseteq Kept(o) /\ Passed(o)' \subseteq Passed(o)
      BY <1>4 DEF Arrive, CheckName, Break, Finish, Revive, Answer, Kept, Passed, ActiveOf, TypeOK
    <2> QED BY <2>1, QuietStep
  <1>5. CASE UNCHANGED vars
    <2>1. \A o \in Owner : Kept(o)' \subseteq Kept(o) /\ Passed(o)' \subseteq Passed(o)
      BY <1>5 DEF vars, Kept, Passed, ActiveOf
    <2> QED BY <2>1, QuietStep
  <1> QED BY <1>2, <1>3, <1>4, <1>5 DEF Next

(* Passing the name check: no row has the name, and all who have passed    *)
(* are being served.                                                       *)
LEMMA NameStep ==
  ASSUME GuardInv, [Next]_vars PROVE NameBound'
  <1> USE DEF GuardInv
  <1>1. TypeOK' /\ ServerInv'
    BY TypeStep, ServerStep
  <1>2. ASSUME NEW r \in Request, CheckName(r) PROVE NameBound'
    <2>1. CASE pc'[r] # "insert"
      <3>1. \A o \in Owner, n \in Name :
              Named(o, n)' \subseteq Named(o, n) /\ Ready(o, n)' \subseteq Ready(o, n)
        BY <1>2, <2>1 DEF CheckName, Answer, Named, Ready, ActiveOf, TypeOK
      <3> QED BY <3>1, QuietNameStep
    <2>2. CASE pc'[r] = "insert"
      <3>1. {q \in ActiveOf(OwnerOf[r]) : name[q] = name[r]} = {}
        BY <1>2, <2>2 DEF CheckName, Answer, TypeOK
      <3>2. SUFFICES ASSUME NEW o \in Owner, NEW n \in Name
                     PROVE  Cardinality(Named(o, n)') + Cardinality(Ready(o, n)') <= MaxInFlight
        BY DEF NameBound
      <3>3. Named(o, n)' = Named(o, n)
        BY <1>2 DEF CheckName, Answer, Named, ActiveOf
      <3>4. CASE o = OwnerOf[r] /\ n = name[r]
        <4>1. Named(o, n) = {}
          BY <3>1, <3>4 DEF Named
        <4>2. Ready(o, n)' \in SUBSET InFlight' /\ InFlight' \in SUBSET Request
          BY DEF Ready, InFlight
        <4>3. Cardinality(Ready(o, n)') <= Cardinality(InFlight')
          BY <4>2, Subsets, FS_Subset
        <4>4. Cardinality(InFlight') <= MaxInFlight
          BY <1>1 DEF ServerInv
        <4>5. Ready(o, n)' \in SUBSET Request
          BY <4>2
        <4>6. Cardinality(Ready(o, n)') \in Nat /\ Cardinality(InFlight') \in Nat
          BY <4>2, <4>5, Subsets
        <4>7. Cardinality({}) = 0
          BY FS_EmptySet
        <4> QED BY <3>3, <4>1, <4>3, <4>4, <4>6, <4>7, GuardsAssumption
      <3>5. CASE ~(o = OwnerOf[r] /\ n = name[r])
        <4>1. Ready(o, n)' = Ready(o, n)
          BY <1>2, <3>5 DEF CheckName, Answer, Ready, TypeOK
        <4> QED BY <3>3, <4>1 DEF NameBound
      <3> QED BY <3>4, <3>5
    <2> QED BY <2>1, <2>2
  <1>3. ASSUME NEW r \in Request, Insert(r) PROVE NameBound'
    <2>1. SUFFICES ASSUME NEW o \in Owner, NEW n \in Name
                   PROVE  Cardinality(Named(o, n)') + Cardinality(Ready(o, n)') <= MaxInFlight
      BY DEF NameBound
    <2>2. Named(o, n) \in SUBSET Request /\ Ready(o, n) \in SUBSET Request
      BY SetsTyped
    <2>3. CASE o = OwnerOf[r] /\ n = name[r]
      <3>1. r \in Ready(o, n)
        BY <1>3, <2>3 DEF Insert, Ready
      <3>2. /\ Named(o, n)' \in SUBSET (Named(o, n) \cup {r})
            /\ Ready(o, n)' \in SUBSET (Ready(o, n) \ {r})
        BY <1>3 DEF Insert, Named, Ready, ActiveOf, TypeOK
      <3>3. Cardinality(Named(o, n)') + Cardinality(Ready(o, n)')
              <= Cardinality(Named(o, n)) + Cardinality(Ready(o, n))
        BY <2>2, <3>1, <3>2, Transfer
      <3>4. Named(o, n)' \in SUBSET Request /\ Ready(o, n)' \in SUBSET Request
        BY <2>2, <3>2
      <3>5. /\ Cardinality(Named(o, n)) \in Nat /\ Cardinality(Ready(o, n)) \in Nat
            /\ Cardinality(Named(o, n)') \in Nat /\ Cardinality(Ready(o, n)') \in Nat
        BY <2>2, <3>4, Subsets
      <3> QED BY <3>3, <3>5, GuardsAssumption DEF NameBound
    <2>4. CASE ~(o = OwnerOf[r] /\ n = name[r])
      <3>1. Named(o, n)' = Named(o, n) /\ Ready(o, n)' = Ready(o, n)
        BY <1>3, <2>4 DEF Insert, Named, Ready, ActiveOf, TypeOK
      <3> QED BY <3>1 DEF NameBound
    <2> QED BY <2>3, <2>4
  <1>4. ASSUME NEW r \in Request,
               Arrive(r) \/ CheckQuota(r) \/ Break(r) \/ Finish(r) \/ Revive(r)
        PROVE  NameBound'
    <2>1. \A o \in Owner, n \in Name :
            Named(o, n)' \subseteq Named(o, n) /\ Ready(o, n)' \subseteq Ready(o, n)
      BY <1>4 DEF Arrive, CheckQuota, Break, Finish, Revive, Answer, Named, Ready, ActiveOf, TypeOK
    <2> QED BY <2>1, QuietNameStep
  <1>5. CASE UNCHANGED vars
    <2>1. \A o \in Owner, n \in Name :
            Named(o, n)' \subseteq Named(o, n) /\ Ready(o, n)' \subseteq Ready(o, n)
      BY <1>5 DEF vars, Named, Ready, ActiveOf
    <2> QED BY <2>1, QuietNameStep
  <1> QED BY <1>2, <1>3, <1>4, <1>5 DEF Next

LEMMA GuardStep == GuardInv /\ [Next]_vars => GuardInv'
  <1> SUFFICES ASSUME GuardInv, [Next]_vars PROVE GuardInv' OBVIOUS
  <1> QED BY TypeStep, ServerStep, QuotaStep, NameStep DEF GuardInv

(* An owner exceeds the quota by less than the number of requests served   *)
(* at once; with one request at a time, by nothing.                        *)
THEOREM QuotaHolds == Spec => []QuotaOvershoot
  <1>1. GuardInv => QuotaOvershoot
    BY DEF GuardInv, QuotaBound, QuotaOvershoot, Kept, Passed
  <1> QED BY <1>1, InitInv, GuardStep, PTL DEF Spec

(* No more rows share an owner and a name than requests are served at once.*)
THEOREM NameHolds == Spec => []NameOvershoot
  <1>1. GuardInv => NameOvershoot
    BY DEF GuardInv, NameBound, NameOvershoot, Named, Ready
  <1> QED BY <1>1, InitInv, GuardStep, PTL DEF Spec

(* Every variable keeps its type.                                          *)
THEOREM GuardTypes == Spec => []TypeOK
  <1>1. GuardInv => TypeOK
    BY DEF GuardInv
  <1> QED BY <1>1, InitInv, GuardStep, PTL DEF Spec

-----------------------------------------------------------------------------
(* The two promises of README.md:169 and of the quota in their plain form. *)
QuotaKept == \A o \in Owner : Cardinality(ActiveOf(o)) <= MaxEnvs

LEMMA AtMostOne ==
  ASSUME NEW S \in SUBSET Request, Cardinality(S) <= 1, NEW q \in S, NEW r \in S
  PROVE  q = r
  <1> SUFFICES ASSUME q # r PROVE FALSE OBVIOUS
  <1>1. Cardinality(S \ {q}) = Cardinality(S) - 1
    BY Subsets, FS_RemoveElement
  <1>2. IsFiniteSet(S \ {q}) /\ Cardinality(S \ {q}) \in Nat /\ Cardinality(S) \in Nat
    <2>1. S \ {q} \in SUBSET Request
      OBVIOUS
    <2> QED BY <2>1, Subsets
  <1>3. Cardinality(S \ {q}) = 0
    BY <1>1, <1>2
  <1>4. S \ {q} = {}
    BY <1>2, <1>3, FS_EmptySet
  <1> QED BY <1>4

(* Requests served one at a time keep both promises as long as no worker   *)
(* brings an ended row back: concurrency and revival are the only two ways *)
(* in which the guards of POST fail.                                       *)
THEOREM SerialKeeps ==
  ASSUME MaxInFlight = 1
  PROVE  Spec => [](revived = {} => QuotaKept /\ UniqueActiveName)
  <1>1. ASSUME GuardInv, revived = {}
        PROVE  QuotaKept /\ UniqueActiveName
    <2>1. ASSUME NEW o \in Owner PROVE Cardinality(ActiveOf(o)) <= MaxEnvs
      <3>1. Kept(o) = ActiveOf(o) /\ Kept(o) \in SUBSET Request /\ Passed(o) \in SUBSET Request
        BY <1>1, SetsTyped DEF Kept, GuardInv
      <3>2. Cardinality(Kept(o)) \in Nat /\ Cardinality(Passed(o)) \in Nat
        BY <3>1, Subsets
      <3>3. Cardinality(Kept(o)) + Cardinality(Passed(o)) <= MaxEnvs
        BY <1>1, GuardsAssumption DEF GuardInv, QuotaBound
      <3> QED BY <3>1, <3>2, <3>3, GuardsAssumption
    <2>2. ASSUME NEW o \in Owner, NEW q \in ActiveOf(o), NEW r \in ActiveOf(o), name[q] = name[r]
          PROVE  q = r
      <3> DEFINE n == name[q]
      <3>1. n \in Name
        BY <1>1 DEF GuardInv, TypeOK, ActiveOf
      <3>2. q \in Named(o, n) /\ r \in Named(o, n)
        BY <1>1, <2>2 DEF Named
      <3>3. Named(o, n) \in SUBSET Request /\ Ready(o, n) \in SUBSET Request
        BY <1>1, <3>1, SetsTyped DEF GuardInv
      <3>4. Cardinality(Named(o, n)) \in Nat /\ Cardinality(Ready(o, n)) \in Nat
        BY <3>3, Subsets
      <3>5. Cardinality(Named(o, n)) + Cardinality(Ready(o, n)) <= 1
        BY <1>1, <3>1 DEF GuardInv, NameBound
      <3>6. Cardinality(Named(o, n)) <= 1
        BY <3>4, <3>5
      <3> QED BY <3>2, <3>3, <3>6, AtMostOne
    <2> QED BY <2>1, <2>2 DEF QuotaKept, UniqueActiveName
  <1>2. GuardInv => (revived = {} => QuotaKept /\ UniqueActiveName)
    BY <1>1
  <1> QED BY <1>2, InitInv, GuardStep, PTL DEF Spec
=============================================================================
