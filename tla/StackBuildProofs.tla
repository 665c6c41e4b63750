-------------------------- MODULE StackBuildProofs --------------------------
(***************************************************************************)
(* Theorems about one build, for all templates, timeouts and intervals.    *)
(***************************************************************************)
EXTENDS StackBuild, TLAPS

(* The time one wait takes at most.                                        *)
Turn == ReadyTimeout + PollInterval

LEMMA Multiples ==
  ASSUME NEW a \in Nat \ {0}, NEW w \in Nat
  PROVE  /\ a * w = (a - 1) * w + w
         /\ (a - 1) * w \in Nat /\ a * w \in Nat
         /\ ((a + 1) - 1) * w = a * w
  BY SMT

LEMMA SpecsTyped ==
  ASSUME NEW t \in Seq(RoleSpec)
  PROVE  /\ Len(t) \in Nat /\ DOMAIN t = 1..Len(t)
         /\ \A i \in 1..Len(t) : t[i] \in RoleSpec /\ t[i].role \in Role
  <1>1. Len(t) \in Nat /\ DOMAIN t = 1..Len(t) /\ \A i \in 1..Len(t) : t[i] \in RoleSpec
    OBVIOUS
  <1> QED BY <1>1 DEF RoleSpec

-----------------------------------------------------------------------------
(* A sorted template is a template again: as many specs, all different.    *)
LEMMA SortsArrange ==
  ASSUME NEW t \in Templates, NEW o \in Sorts(t)
  PROVE  /\ o \in Seq(RoleSpec) /\ Len(o) = Len(t) /\ Len(o) > 0
         /\ \A i, j \in 1..Len(o) : o[i].role = o[j].role => i = j
         /\ \A i, j \in 1..Len(o) :
              i < j /\ o[j].dependsOn = NoRole => o[i].dependsOn = NoRole
         /\ Elements(o) = Elements(t)
  <1>1. /\ t \in Seq(RoleSpec) /\ Len(t) > 0 /\ Len(t) \in Nat
        /\ DOMAIN t = 1..Len(t)
        /\ \A i, j \in DOMAIN t : t[i].role = t[j].role => i = j
    BY StackBuildAssumption
  <1>2. /\ o \in [1..Len(t) -> Elements(t)]
        /\ \A i, j \in 1..Len(t) : o[i] = o[j] => i = j
        /\ \A s \in Elements(t) : \E i \in 1..Len(t) : o[i] = s
        /\ \A i, j \in 1..Len(t) :
             i < j /\ o[j].dependsOn = NoRole => o[i].dependsOn = NoRole
    BY <1>1 DEF Sorts, Bijection, Injection, Surjection, IsInjective
  <1>3. Elements(t) \subseteq RoleSpec
    BY <1>1 DEF Elements
  <1>4. o \in [1..Len(t) -> RoleSpec]
    BY <1>2, <1>3
  <1>5. o \in Seq(RoleSpec) /\ Len(o) = Len(t)
    BY <1>1, <1>4
  <1>6. Elements(o) = Elements(t)
    <2>1. DOMAIN o = 1..Len(t)
      BY <1>2
    <2>2. ASSUME NEW s \in Elements(o) PROVE s \in Elements(t)
      BY <1>2, <2>1 DEF Elements
    <2>3. ASSUME NEW s \in Elements(t) PROVE s \in Elements(o)
      BY <1>2, <2>1 DEF Elements
    <2> QED BY <2>2, <2>3
  <1>7. ASSUME NEW i \in 1..Len(o), NEW j \in 1..Len(o), o[i].role = o[j].role
        PROVE  i = j
    <2>1. o[i] \in Elements(t) /\ o[j] \in Elements(t)
      BY <1>2, <1>5
    <2>2. PICK a \in DOMAIN t, b \in DOMAIN t : o[i] = t[a] /\ o[j] = t[b]
      BY <2>1 DEF Elements
    <2>3. a = b
      BY <1>1, <1>7, <2>2
    <2> QED BY <1>2, <1>5, <2>2, <2>3
  <1> QED BY <1>1, <1>2, <1>5, <1>6, <1>7

-----------------------------------------------------------------------------
LEMMA TypeInit == Init => TypeOK
  <1> SUFFICES ASSUME Init PROVE TypeOK OBVIOUS
  <1>1. PICK t \in Templates : specs \in Sorts(t)
    BY DEF Init
  <1>2. specs \in Seq(RoleSpec) /\ Len(specs) \in Nat /\ Len(specs) > 0
    BY <1>1, SortsArrange
  <1>3. con \in [Role -> Report]
    BY DEF Init, Report
  <1>4. at \in 1..Len(specs)
    BY <1>2 DEF Init
  <1>5. specs \in Seq(RoleSpec) /\ pc = "network" /\ seen = {} /\ port = FALSE
    BY <1>2 DEF Init
  <1>6. waited = 0 /\ slept = 0 /\ spent = 0 /\ readyFor = 0
    BY DEF Init
  <1> QED BY <1>3, <1>4, <1>5, <1>6 DEF TypeOK

LEMMA TypeStep == TypeOK /\ [Next]_vars => TypeOK'
  <1> SUFFICES ASSUME TypeOK, [Next]_vars PROVE TypeOK' OBVIOUS
  <1>1. Current \in RoleSpec /\ Current.role \in Role /\ Len(specs) \in Nat
    BY SpecsTyped DEF Current, TypeOK
  <1> USE DEF TypeOK, Report, Over
  <1>2. CASE CreateNetwork
    BY <1>2 DEF CreateNetwork, clocks
  <1>3. CASE StartContainer
    BY <1>1, <1>3 DEF StartContainer
  <1>4. CASE Poll
    <2>1. specs' = specs /\ con' = con /\ waited' = waited /\ spent' = spent /\ readyFor' = readyFor
      BY <1>4 DEF Poll
    <2>2. CASE NextRole
      <3>1. at' \in 1..Len(specs) /\ pc' \in {"start", "done", "failed"}
        BY <2>2 DEF NextRole
      <3>2. seen' \subseteq Role /\ port' \in BOOLEAN /\ slept' = slept
        BY <1>1, <2>2 DEF NextRole, RoleSpec
      <3> QED BY <2>1, <3>1, <3>2
    <2>3. CASE ~NextRole
      BY <1>4, <2>1, <2>3 DEF Poll
    <2> QED BY <2>2, <2>3
  <1>5. CASE Expire
    BY <1>5 DEF Expire, clocks
  <1>6. CASE Wake
    BY <1>6 DEF Wake, clocks
  <1>7. CASE Tick
    BY <1>7 DEF Tick
  <1>8. CASE Evolve
    <2>1. PICK s \in Elements(specs), new \in Report :
             con' = [con EXCEPT ![s.role] = new]
      BY <1>8 DEF Evolve
    <2>2. con' \in [Role -> Report]
      BY <2>1
    <2>3. readyFor' \in Nat
      BY <1>8 DEF Evolve
    <2> QED BY <1>8, <2>2, <2>3 DEF Evolve
  <1>9. CASE UNCHANGED vars
    BY <1>9 DEF vars, clocks
  <1> QED BY <1>2, <1>3, <1>4, <1>5, <1>6, <1>7, <1>8, <1>9 DEF Next, Step

(* Every variable keeps its type; in particular the call never looks past  *)
(* the last role.                                                          *)
THEOREM TypeCorrect == Spec => []TypeOK
  BY TypeInit, TypeStep, PTL DEF Spec

-----------------------------------------------------------------------------
(* The waits of the roles before the current one took a turn each, and the *)
(* current wait no longer than it shows.                                   *)
TimeInv ==
  /\ pc \in {"network", "start"} => spent <= (at - 1) * Turn
  /\ pc \in {"poll", "sleep"} => spent <= (at - 1) * Turn + waited
  /\ pc = "poll" => waited <= Turn
  /\ pc = "sleep" => slept <= PollInterval /\ waited <= ReadyTimeout + slept
  /\ pc \in Over => spent <= at * Turn

LEMMA TimeBounds == TypeOK /\ TimeInv => WaitBound
  <1> SUFFICES ASSUME TypeOK, TimeInv PROVE WaitBound OBVIOUS
  <1>1. at \in Nat \ {0} /\ Turn \in Nat
    BY StackBuildAssumption DEF TypeOK, Turn
  <1> DEFINE before == (at - 1) * Turn
  <1>2. at * Turn = before + Turn /\ before \in Nat
    BY <1>1, Multiples
  <1>3. spent <= at * Turn
    BY <1>1, <1>2, StackBuildAssumption DEF TypeOK, TimeInv, Turn, Over
  <1> QED BY <1>3 DEF WaitBound, Turn

LEMMA TimeInit == Init => TimeInv
  <1> SUFFICES ASSUME Init PROVE TimeInv OBVIOUS
  <1>1. (1 - 1) * Turn = 0
    BY StackBuildAssumption DEF Turn
  <1> QED BY <1>1 DEF Init, TimeInv, Over

(* A look leads to the next role, to the end, or to a sleep.               *)
LEMMA PollMoves ==
  Poll => \/ at' = at + 1 /\ pc' = "start"
          \/ at' = at /\ (pc' \in Over \/ (pc' = "sleep" /\ slept' = 0))
  <1>1. ASSUME NextRole
        PROVE  \/ at' = at + 1 /\ pc' = "start"
               \/ at' = at /\ pc' \in Over
    <2>1. CASE port'
      BY <1>1, <2>1 DEF NextRole, Over
    <2>2. CASE ~port'
      BY <1>1, <2>2 DEF NextRole, Over
    <2> QED BY <2>1, <2>2
  <1>2. Poll => \/ NextRole
                \/ at' = at /\ pc' = "failed"
                \/ at' = at /\ pc' = "sleep" /\ slept' = 0
    BY DEF Poll
  <1> QED BY <1>1, <1>2 DEF Over

LEMMA TimeStep == TypeOK /\ TimeInv /\ [Next]_vars => TimeInv'
  <1> SUFFICES ASSUME TypeOK, TimeInv, [Next]_vars PROVE TimeInv' OBVIOUS
  <1> DEFINE before == (at - 1) * Turn
             all    == at * Turn
  <1>1. at \in Nat \ {0} /\ Turn \in Nat /\ Turn = ReadyTimeout + PollInterval
    BY StackBuildAssumption DEF TypeOK, Turn
  <1>2. /\ all = before + Turn /\ before \in Nat /\ all \in Nat
        /\ ((at + 1) - 1) * Turn = all
    BY <1>1, Multiples
  <1>3. ReadyTimeout \in Nat /\ PollInterval \in Nat
    BY StackBuildAssumption
  <1> HIDE DEF before, all
  <1> USE DEF TypeOK, Over
  <1>4. /\ pc \in {"network", "start"} => spent <= before
        /\ pc \in {"poll", "sleep"} => spent <= before + waited
        /\ pc = "poll" => waited <= Turn
        /\ pc = "sleep" => slept <= PollInterval /\ waited <= ReadyTimeout + slept
        /\ pc \in Over => spent <= all
    BY DEF TimeInv, before, all
  <1>5. spent <= all
    BY <1>1, <1>2, <1>3, <1>4
  <1>6. ASSUME at' = at,
               /\ pc' \in {"network", "start"} => spent' <= before
               /\ pc' \in {"poll", "sleep"} => spent' <= before + waited'
               /\ pc' = "poll" => waited' <= Turn
               /\ pc' = "sleep" => slept' <= PollInterval /\ waited' <= ReadyTimeout + slept'
               /\ pc' \in Over => spent' <= all
        PROVE  TimeInv'
    BY <1>6 DEF TimeInv, before, all, Turn
  <1>7. CASE CreateNetwork
    BY <1>4, <1>5, <1>6, <1>7 DEF CreateNetwork, clocks
  <1>8. CASE StartContainer
    BY <1>1, <1>2, <1>4, <1>5, <1>6, <1>8 DEF StartContainer
  <1>9. CASE Poll
    <2>1. spent' = spent /\ waited' = waited /\ pc = "poll" /\ waited < ReadyTimeout
      BY <1>9 DEF Poll
    <2>2. CASE at' = at + 1 /\ pc' = "start"
      <3>1. (at' - 1) * Turn = all
        BY <1>2, <2>2
      <3> QED BY <1>5, <2>1, <2>2, <3>1 DEF TimeInv, Turn
    <2>3. CASE at' = at /\ (pc' \in Over \/ (pc' = "sleep" /\ slept' = 0))
      BY <1>1, <1>3, <1>4, <1>5, <1>6, <2>1, <2>3
    <2> QED BY <1>9, <2>2, <2>3, PollMoves
  <1>10. CASE Expire
    BY <1>4, <1>5, <1>6, <1>10 DEF Expire, clocks
  <1>11. CASE Wake
    BY <1>1, <1>3, <1>4, <1>6, <1>11 DEF Wake, clocks, SleepTime
  <1>12. CASE Tick
    BY <1>1, <1>2, <1>3, <1>4, <1>6, <1>12 DEF Tick, SleepTime
  <1>13. CASE Evolve
    BY <1>4, <1>6, <1>13 DEF Evolve
  <1>14. CASE UNCHANGED vars
    BY <1>4, <1>6, <1>14 DEF vars, clocks
  <1> QED BY <1>7, <1>8, <1>9, <1>10, <1>11, <1>12, <1>13, <1>14 DEF Next, Step

(* However many roles a template has, the waits of its build take no       *)
(* longer than a ready timeout and a sleep for each.                       *)
THEOREM WaitBounded == Spec => []WaitBound
  <1>1. Init => TypeOK /\ TimeInv
    BY TypeInit, TimeInit
  <1>2. TypeOK /\ TimeInv /\ [Next]_vars => (TypeOK /\ TimeInv)'
    BY TypeStep, TimeStep
  <1> QED BY <1>1, <1>2, TimeBounds, PTL DEF Spec

-----------------------------------------------------------------------------
(* While a role is waited for, its container has been ready for no longer  *)
(* than the sleep that has not been looked after yet.                      *)
FreshInv ==
  /\ pc \in {"poll", "sleep"} => (~Ready(Current) => readyFor = 0)
  /\ pc = "sleep" => slept <= PollInterval /\ readyFor <= slept
  /\ pc \in {"poll", "timeout"} => readyFor <= PollInterval

LEMMA FreshInit == Init => FreshInv
  BY DEF Init, FreshInv

LEMMA FreshStep == TypeOK /\ FreshInv /\ [Next]_vars => FreshInv'
  <1> SUFFICES ASSUME TypeOK, FreshInv, [Next]_vars PROVE FreshInv' OBVIOUS
  <1> USE DEF TypeOK, Over
  <1>1. ReadyTimeout \in Nat /\ PollInterval \in Nat
    BY StackBuildAssumption
  <1>2. CASE CreateNetwork
    BY <1>2 DEF CreateNetwork, clocks, FreshInv
  <1>3. CASE StartContainer
    BY <1>1, <1>3 DEF StartContainer, FreshInv
  <1>4. CASE Poll
    <2>1. pc = "poll" /\ UNCHANGED <<specs, con, readyFor>>
      BY <1>4 DEF Poll
    <2>2. CASE pc' \in {"start", "done", "failed"}
      BY <2>2 DEF FreshInv
    <2>3. CASE ~LooksReady(Current) /\ at' = at /\ pc' = "sleep" /\ slept' = 0
      <3>1. readyFor' = 0
        BY <2>1, <2>3 DEF FreshInv, LooksReady
      <3> QED BY <1>1, <2>3, <3>1 DEF FreshInv
    <2>4. NextRole => pc' \in {"start", "done", "failed"}
      <3>1. CASE port'
        BY <3>1 DEF NextRole
      <3>2. CASE ~port'
        BY <3>2 DEF NextRole
      <3> QED BY <3>1, <3>2
    <2> QED BY <1>4, <2>2, <2>3, <2>4 DEF Poll
  <1>5. CASE Expire
    BY <1>5 DEF Expire, clocks, FreshInv
  <1>6. CASE Wake
    BY <1>6 DEF Wake, clocks, FreshInv, Ready, Current, SleepTime
  <1>7. CASE Tick
    <2>1. Ready(Current)' <=> Ready(Current)
      BY <1>7 DEF Tick, Ready, Current
    <2> QED BY <1>1, <1>7, <2>1 DEF Tick, FreshInv, SleepTime
  <1>8. CASE Evolve
    <2>1. PICK s \in Elements(specs), new \in Report :
             /\ con' = [con EXCEPT ![s.role] = new]
             /\ readyFor' = IF s.role = Current.role /\ Ready(Current) THEN 0 ELSE readyFor
             /\ UNCHANGED <<specs, pc, at, slept>>
      BY <1>8 DEF Evolve
    <2>2. readyFor' <= readyFor /\ readyFor' \in Nat
      BY <2>1
    <2>3. ASSUME pc \in {"poll", "sleep"}, ~Ready(Current)' PROVE readyFor' = 0
      <3>1. CASE s.role = Current.role
        BY <2>1, <2>3, <3>1 DEF FreshInv
      <3>2. CASE s.role # Current.role
        <4>1. ~Ready(Current)
          BY <2>1, <2>3, <3>2 DEF Ready, Current
        <4> QED BY <2>1, <2>3, <3>2, <4>1 DEF FreshInv
      <3> QED BY <3>1, <3>2
    <2> QED BY <1>1, <2>1, <2>2, <2>3 DEF FreshInv
  <1>9. CASE UNCHANGED vars
    BY <1>9 DEF vars, clocks, FreshInv, Ready, Current
  <1> QED BY <1>2, <1>3, <1>4, <1>5, <1>6, <1>7, <1>8, <1>9 DEF Next, Step

(* A container is timed out only if it had not been ready for longer than  *)
(* one sleep, whatever the timeout.                                        *)
THEOREM TimeoutsDeserved == Spec => []TimeoutDeserved
  <1>1. FreshInv => TimeoutDeserved
    BY DEF FreshInv, TimeoutDeserved
  <1>2. Init => TypeOK /\ FreshInv
    BY TypeInit, FreshInit
  <1>3. TypeOK /\ FreshInv /\ [Next]_vars => (TypeOK /\ FreshInv)'
    BY TypeStep, FreshStep
  <1> QED BY <1>1, <1>2, <1>3, PTL DEF Spec

-----------------------------------------------------------------------------
(* The order of the roles, and how far the call has come in it.            *)
OrderInv ==
  /\ OneLevel(specs)
  /\ \A i, j \in 1..Len(specs) : specs[i].role = specs[j].role => i = j
  /\ \A i, j \in 1..Len(specs) :
       i < j /\ specs[j].dependsOn = NoRole => specs[i].dependsOn = NoRole
  /\ \A i \in 1..Len(specs) : i < at => specs[i].role \in seen
  /\ \A i \in 1..Len(specs) : i > at => con[specs[i].role] = "absent"

LEMMA OrderInit ==
  ASSUME \A t \in Templates : OneLevel(t), Init
  PROVE  OrderInv
  <1>1. PICK t \in Templates : specs \in Sorts(t)
    BY DEF Init
  <1>2. /\ specs \in Seq(RoleSpec) /\ Len(specs) \in Nat
        /\ \A i, j \in 1..Len(specs) : specs[i].role = specs[j].role => i = j
        /\ \A i, j \in 1..Len(specs) :
             i < j /\ specs[j].dependsOn = NoRole => specs[i].dependsOn = NoRole
        /\ Elements(specs) = Elements(t)
    BY <1>1, SortsArrange
  <1>3. OneLevel(specs)
    BY <1>2 DEF OneLevel
  <1>4. \A i \in 1..Len(specs) : specs[i].role \in Role
    BY <1>2, SpecsTyped
  <1> QED BY <1>2, <1>3, <1>4 DEF Init, OrderInv

LEMMA OrderStep == TypeOK /\ OrderInv /\ [Next]_vars => OrderInv'
  <1> SUFFICES ASSUME TypeOK, OrderInv, [Next]_vars PROVE OrderInv' OBVIOUS
  <1>1. /\ Len(specs) \in Nat /\ DOMAIN specs = 1..Len(specs)
        /\ \A i \in 1..Len(specs) : specs[i].role \in Role
    BY SpecsTyped DEF TypeOK
  <1>2. at \in 1..Len(specs) /\ con \in [Role -> Report]
    BY DEF TypeOK
  <1>3. specs' = specs
    BY DEF Next, Step, CreateNetwork, StartContainer, Poll, Expire, Wake, Tick, Evolve, vars
  <1>4. OneLevel(specs)'
    BY <1>3 DEF OrderInv, OneLevel, Elements
  <1>5. ASSUME at' = at, con' = con, seen \subseteq seen' PROVE OrderInv'
    BY <1>3, <1>4, <1>5 DEF OrderInv
  <1>6. ASSUME at' = at, seen' = seen, NEW i \in 1..Len(specs), i <= at, NEW new,
               con' = [con EXCEPT ![specs[i].role] = new]
        PROVE  OrderInv'
    <2>1. ASSUME NEW j \in 1..Len(specs), j > at PROVE con'[specs[j].role] = "absent"
      <3>1. specs[j].role # specs[i].role
        BY <1>2, <1>6, <2>1 DEF OrderInv
      <3> QED BY <1>1, <1>2, <1>6, <2>1, <3>1 DEF OrderInv
    <2> QED BY <1>3, <1>4, <1>6, <2>1 DEF OrderInv
  <1>7. CASE CreateNetwork
    BY <1>5, <1>7 DEF CreateNetwork
  <1>8. CASE StartContainer
    <2>1. CASE con' = con
      BY <1>5, <1>8, <2>1 DEF StartContainer
    <2>2. CASE con' = [con EXCEPT ![specs[at].role] = "created"]
      <3>1. at' = at /\ seen' = seen
        BY <1>8 DEF StartContainer
      <3>2. at <= at
        BY <1>1, <1>2
      <3> QED BY <1>2, <1>6, <2>2, <3>1, <3>2
    <2> QED BY <1>8, <2>1, <2>2 DEF StartContainer, Current
  <1>9. CASE Poll
    <2>1. CASE LooksReady(Current) /\ NextRole
      <3>1. seen' = seen \cup {specs[at].role} /\ con' = con
        BY <1>9, <2>1 DEF Poll, NextRole, LooksReady, Current
      <3>2. CASE at' = at
        BY <1>5, <3>1, <3>2
      <3>3. CASE at' = at + 1
        BY <1>1, <1>2, <1>3, <1>4, <3>1, <3>3 DEF OrderInv
      <3> QED BY <2>1, <3>2, <3>3 DEF NextRole
    <2>2. CASE ~(LooksReady(Current) /\ NextRole)
      BY <1>5, <1>9, <2>2 DEF Poll
    <2> QED BY <2>1, <2>2
  <1>10. CASE Expire
    BY <1>5, <1>10 DEF Expire
  <1>11. CASE Wake
    BY <1>5, <1>11 DEF Wake
  <1>12. CASE Tick
    BY <1>5, <1>12 DEF Tick
  <1>13. CASE Evolve
    <2>1. PICK s \in Elements(specs), new \in Report :
             /\ con[s.role] # "absent"
             /\ con' = [con EXCEPT ![s.role] = new]
             /\ UNCHANGED <<at, seen>>
      BY <1>13 DEF Evolve
    <2>2. PICK i \in 1..Len(specs) : s = specs[i]
      BY <1>1 DEF Elements
    <2>3. i <= at
      BY <1>1, <1>2, <2>1, <2>2 DEF OrderInv
    <2> QED BY <1>6, <2>1, <2>2, <2>3
  <1>14. CASE UNCHANGED vars
    BY <1>5, <1>14 DEF vars
  <1> QED BY <1>7, <1>8, <1>9, <1>10, <1>11, <1>12, <1>13, <1>14 DEF Next, Step

(* A role without a dependency comes before every role that has one, so    *)
(* the dependency of a role that was started is behind the call.           *)
LEMMA OrderSuffices == TypeOK /\ OrderInv => DependencyReady
  <1> SUFFICES ASSUME TypeOK, OrderInv, NEW s \in Elements(specs),
                      con[s.role] # "absent", s.dependsOn # NoRole
               PROVE  s.dependsOn \in seen
    BY DEF DependencyReady
  <1>1. Len(specs) \in Nat /\ DOMAIN specs = 1..Len(specs) /\ at \in 1..Len(specs)
    BY DEF TypeOK
  <1>2. PICK j \in 1..Len(specs) : s = specs[j]
    BY <1>1 DEF Elements
  <1>3. PICK k \in 1..Len(specs) : specs[k].role = s.dependsOn /\ specs[k].dependsOn = NoRole
    BY <1>1 DEF OrderInv, OneLevel, Elements
  <1>4. j <= at
    BY <1>1, <1>2 DEF OrderInv
  <1>5. k < j
    BY <1>1, <1>2, <1>3 DEF OrderInv
  <1> QED BY <1>1, <1>3, <1>4, <1>5 DEF OrderInv

(* When dependencies have none themselves, no container starts before the  *)
(* one it depends on was seen ready.                                       *)
THEOREM DependenciesReady ==
  ASSUME \A t \in Templates : OneLevel(t)
  PROVE  Spec => []DependencyReady
  <1>1. Init => TypeOK /\ OrderInv
    BY TypeInit, OrderInit
  <1>2. TypeOK /\ OrderInv /\ [Next]_vars => (TypeOK /\ OrderInv)'
    BY TypeStep, OrderStep
  <1> QED BY <1>1, <1>2, OrderSuffices, PTL DEF Spec

-----------------------------------------------------------------------------
(* The roles behind the call were ready, and what was ready was started.   *)
AnyExposed == \E s \in Elements(specs) : s.exposed

BehindInv ==
  /\ \A i \in 1..Len(specs) : i < at => specs[i].role \in seen
  /\ \A r \in seen : con[r] # "absent"
  /\ port => AnyExposed
  /\ pc = "done" => port /\ at = Len(specs) /\ Current.role \in seen

LEMMA BehindInit == Init => BehindInv
  <1> SUFFICES ASSUME Init PROVE BehindInv OBVIOUS
  <1>1. PICK t \in Templates : specs \in Sorts(t)
    BY DEF Init
  <1>2. Len(specs) \in Nat
    BY <1>1, SortsArrange
  <1> QED BY <1>2 DEF Init, BehindInv

LEMMA BehindStep == TypeOK /\ BehindInv /\ [Next]_vars => BehindInv'
  <1> SUFFICES ASSUME TypeOK, BehindInv, [Next]_vars PROVE BehindInv' OBVIOUS
  <1>1. /\ Len(specs) \in Nat /\ at \in 1..Len(specs) /\ con \in [Role -> Report]
        /\ specs' = specs /\ seen \subseteq Role
        /\ specs[at] \in Elements(specs) /\ specs[at].role \in Role
    BY SpecsTyped DEF TypeOK, Elements, Next, Step, CreateNetwork, StartContainer, Poll,
       Expire, Wake, Tick, Evolve, vars
  <1>2. AnyExposed' <=> AnyExposed
    BY <1>1 DEF AnyExposed, Elements
  <1>3. /\ \A i \in 1..Len(specs) : i < at => specs[i].role \in seen
        /\ \A r \in seen : con[r] # "absent"
        /\ port => AnyExposed
        /\ pc = "done" => port /\ at = Len(specs) /\ specs[at].role \in seen
    BY DEF BehindInv, Current
  <1>4. ASSUME at' = at, seen' = seen, port' = port,
               \A r \in seen : con'[r] # "absent", pc' = "done" => pc = "done"
        PROVE  BehindInv'
    BY <1>1, <1>2, <1>3, <1>4 DEF BehindInv, Current
  <1>5. ASSUME at' = at, seen' = seen, port' = port, pc' = "done" => pc = "done",
               NEW r \in Role, NEW new, new # "absent", con' = [con EXCEPT ![r] = new]
        PROVE  BehindInv'
    BY <1>1, <1>3, <1>4, <1>5
  <1>6. CASE CreateNetwork
    BY <1>3, <1>4, <1>6 DEF CreateNetwork
  <1>7. CASE StartContainer
    <2>1. CASE con' = con
      BY <1>3, <1>4, <1>7, <2>1 DEF StartContainer
    <2>2. CASE con' = [con EXCEPT ![specs[at].role] = "created"]
      BY <1>1, <1>5, <1>7, <2>2 DEF StartContainer
    <2> QED BY <1>7, <2>1, <2>2 DEF StartContainer, Current
  <1>8. CASE Poll
    <2>1. CASE LooksReady(Current) /\ NextRole
      <3>1. seen' = seen \cup {specs[at].role} /\ con' = con
        BY <1>8, <2>1 DEF Poll, NextRole, LooksReady, Current
      <3>2. con[specs[at].role] # "absent"
        BY <2>1 DEF LooksReady, Ready, Current
      <3>3. port' => AnyExposed
        BY <1>1, <1>3, <2>1 DEF NextRole, Current, AnyExposed
      <3>4. CASE at < Len(specs) /\ at' = at + 1 /\ pc' = "start"
        BY <1>1, <1>2, <1>3, <3>1, <3>2, <3>3, <3>4 DEF BehindInv
      <3>5. CASE at = Len(specs) /\ at' = at /\ (pc' = "done" => port')
        BY <1>1, <1>2, <1>3, <3>1, <3>2, <3>3, <3>5 DEF BehindInv, Current
      <3>6. (pc' = IF port' THEN "done" ELSE "failed") => (pc' = "done" => port')
        BY Zenon
      <3> QED BY <2>1, <3>4, <3>5, <3>6 DEF NextRole
    <2>2. CASE ~(LooksReady(Current) /\ NextRole)
      BY <1>3, <1>4, <1>8, <2>2 DEF Poll
    <2> QED BY <2>1, <2>2
  <1>9. CASE Expire
    BY <1>3, <1>4, <1>9 DEF Expire
  <1>10. CASE Wake
    BY <1>3, <1>4, <1>10 DEF Wake
  <1>11. CASE Tick
    BY <1>3, <1>4, <1>11 DEF Tick
  <1>12. CASE Evolve
    <2>1. PICK s \in Elements(specs), new \in Report \ {"absent"} :
             con' = [con EXCEPT ![s.role] = new] /\ UNCHANGED <<at, pc, seen, port>>
      BY <1>12 DEF Evolve
    <2>2. s.role \in Role
      BY <2>1, SpecsTyped DEF Elements, TypeOK
    <2> QED BY <1>5, <2>1, <2>2
  <1>13. CASE UNCHANGED vars
    BY <1>3, <1>4, <1>13 DEF vars
  <1> QED BY <1>6, <1>7, <1>8, <1>9, <1>10, <1>11, <1>12, <1>13 DEF Next, Step

(* A build that returns has left no role out: each was started and seen    *)
(* ready, for templates of any length and in any order of dependencies.    *)
THEOREM ReturnsWhole == Spec => []ReturnsReady
  <1>1. ASSUME TypeOK, BehindInv, pc = "done"
        PROVE  /\ \A s \in Elements(specs) : s.role \in seen /\ con[s.role] # "absent"
               /\ AnyExposed
    <2>1. Len(specs) \in Nat /\ DOMAIN specs = 1..Len(specs)
      BY DEF TypeOK
    <2>2. \A i \in 1..Len(specs) : specs[i].role \in seen
      BY <1>1, <2>1 DEF BehindInv, Current
    <2>3. \A s \in Elements(specs) : s.role \in seen
      BY <2>1, <2>2 DEF Elements
    <2> QED BY <1>1, <2>3 DEF BehindInv
  <1>2. TypeOK /\ BehindInv => ReturnsReady
    BY <1>1 DEF ReturnsReady, AnyExposed
  <1>3. Init => TypeOK /\ BehindInv
    BY TypeInit, BehindInit
  <1>4. TypeOK /\ BehindInv /\ [Next]_vars => (TypeOK /\ BehindInv)'
    BY TypeStep, BehindStep
  <1> QED BY <1>2, <1>3, <1>4, PTL DEF Spec

-----------------------------------------------------------------------------
LEMMA MoreTurns ==
  ASSUME NEW a \in Nat, NEW b \in Nat, a <= b, NEW w \in Nat
  PROVE  a * w <= b * w
  <1> DEFINE d == b - a
  <1>1. d \in Nat /\ b = a + d
    OBVIOUS
  <1> HIDE DEF d
  <1>2. b * w = a * w + d * w /\ a * w \in Nat /\ d * w \in Nat
    BY <1>1, SMT
  <1> QED BY <1>2

FromTemplates == \E t \in Templates : Len(specs) = Len(t)

(* What config.py:45 asks of provisioning_timeout_seconds: a bound that    *)
(* leaves room for one ready timeout and one sleep for each role of the    *)
(* longest template is not exceeded by the waits of any build.             *)
THEOREM BuildFits ==
  ASSUME NEW Bound \in Nat,
         \A t \in Templates : Len(t) * (ReadyTimeout + PollInterval) <= Bound
  PROVE  Spec => [](spent <= Bound)
  <1>1. Init => FromTemplates
    <2> SUFFICES ASSUME Init PROVE FromTemplates OBVIOUS
    <2>1. PICK t \in Templates : specs \in Sorts(t)
      BY DEF Init
    <2> QED BY <2>1, SortsArrange DEF FromTemplates
  <1>2. FromTemplates /\ [Next]_vars => FromTemplates'
    BY DEF FromTemplates, Next, Step, CreateNetwork, StartContainer, Poll, Expire, Wake, Tick,
       Evolve, vars
  <1>3. ASSUME TypeOK, FromTemplates, WaitBound
        PROVE  spent <= Bound
    <2>1. PICK t \in Templates : Len(specs) = Len(t)
      BY <1>3 DEF FromTemplates
    <2>2. Turn \in Nat /\ at \in Nat /\ Len(specs) \in Nat /\ at <= Len(specs) /\ spent \in Nat
      BY <1>3, StackBuildAssumption DEF TypeOK, Turn
    <2>3. spent <= at * Turn /\ Len(specs) * Turn <= Bound
      BY <1>3, <2>1 DEF WaitBound, Turn
    <2>4. at * Turn <= Len(specs) * Turn
      BY <2>2, MoreTurns
    <2>5. at * Turn \in Nat /\ Len(specs) * Turn \in Nat
      BY <2>2, SMT
    <2> HIDE DEF Turn
    <2> QED BY <2>2, <2>3, <2>4, <2>5
  <1>4. TypeOK /\ FromTemplates /\ WaitBound => spent <= Bound
    BY <1>3
  <1> QED BY <1>1, <1>2, <1>4, TypeCorrect, WaitBounded, PTL DEF Spec
=============================================================================
