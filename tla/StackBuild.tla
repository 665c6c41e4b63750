------------------------------ MODULE StackBuild ----------------------------
(***************************************************************************)
(* One call of DockerManager.provision (docker_manager/compose.py): the    *)
(* roles of a template are started one after the other, each after the one *)
(* before was seen ready by _wait_for_ready, which polls against a         *)
(* deadline.  Time passes only while the call sleeps between two polls;    *)
(* how long the daemon takes over a request is not part of the model.      *)
(***************************************************************************)
EXTENDS Naturals, Sequences, Functions

CONSTANTS
  Role, NoRole,    (* role names, and no depends_on_role                  *)
  Templates,       (* the templates provision may be called with          *)
  ReadyTimeout,    (* settings.container_ready_timeout_seconds            *)
  PollInterval     (* the sleep between two polls                         *)

(* What the build reads of a container spec: hosts are the roles its       *)
(* environment block refers to as {<role>_host}.                           *)
RoleSpec ==
  [role : Role, dependsOn : Role \cup {NoRole}, hosts : SUBSET Role,
   healthcheck : BOOLEAN, exposed : BOOLEAN]

Elements(t) == {t[i] : i \in DOMAIN t}

(* A role names a container, so no two specs of a template have the same.  *)
ASSUME StackBuildAssumption ==
  /\ NoRole \notin Role
  /\ ReadyTimeout \in Nat \ {0} /\ PollInterval \in Nat \ {0}
  /\ \A t \in Templates :
       /\ t \in Seq(RoleSpec) /\ Len(t) > 0
       /\ \A i, j \in DOMAIN t : t[i].role = t[j].role => i = j

VARIABLES
  specs,      (* the specs of the template in the order they are started  *)
  pc,         (* where the call is                                        *)
  at,         (* position of the current spec                             *)
  con,        (* con[r]: what the daemon reports of the container of r    *)
  seen,       (* history: roles that were ready when the call went on     *)
  port,       (* a host port is known                                     *)
  waited,     (* time since the current wait began                        *)
  slept,      (* of that, time in the current sleep                       *)
  spent,      (* time in all waits                                        *)
  readyFor    (* history: how long the current container has been ready   *)

clocks == <<waited, slept, spent, readyFor>>
vars   == <<specs, pc, at, con, seen, port, clocks>>

Report == {"absent", "created", "running", "healthy", "unhealthy", "exited"}
Over   == {"done", "failed", "timeout"}

(* The template's own order.                                               *)
Sorts_Unsorted(t) == {t}
(* Specs without depends_on_role first.  The sort is stable; here any such *)
(* order may come out.                                                     *)
Sorts(t) ==
  {o \in Bijection(DOMAIN t, Elements(t)) :
     \A i, j \in DOMAIN t :
       i < j /\ o[j].dependsOn = NoRole => o[i].dependsOn = NoRole}

Current == specs[at]

(* resolve_environment: every placeholder names a role of the template.    *)
Resolvable(s) == s.hosts \subseteq {x.role : x \in Elements(specs)}

(* A healthcheck has to pass; without one, running is all there is.        *)
Ready(s) == con[s.role] = IF s.healthcheck THEN "healthy" ELSE "running"

TypeOK ==
  /\ specs \in Seq(RoleSpec)
  /\ pc \in {"network", "start", "poll", "sleep"} \cup Over
  /\ at \in 1..Len(specs)
  /\ con \in [Role -> Report]
  /\ seen \subseteq Role
  /\ port \in BOOLEAN
  /\ waited \in Nat /\ slept \in Nat /\ spent \in Nat /\ readyFor \in Nat

Init ==
  /\ \E t \in Templates : specs \in Sorts(t)
  /\ pc = "network" /\ at = 1
  /\ con = [r \in Role |-> "absent"]
  /\ seen = {} /\ port = FALSE
  /\ waited = 0 /\ slept = 0 /\ spent = 0 /\ readyFor = 0

-----------------------------------------------------------------------------
CreateNetwork ==
  /\ pc = "network"
  /\ pc' \in {"start", "failed"}
  /\ UNCHANGED <<specs, at, con, seen, port, clocks>>

(* The environment is resolved, then the container is created and started. *)
StartContainer ==
  /\ pc = "start"
  /\ \/ /\ Resolvable(Current)
        /\ con' = [con EXCEPT ![Current.role] = "created"]
        /\ pc' \in {"poll", "failed"}
     \/ pc' = "failed" /\ UNCHANGED con
  /\ waited' = 0 /\ readyFor' = 0
  /\ UNCHANGED <<specs, at, seen, port, slept, spent>>

(* The position is moved past the last role.                               *)
NextRole_PastEnd ==
  /\ seen' = IF Ready(Current) THEN seen \cup {Current.role} ELSE seen
  /\ port' \in {port, port \/ Current.exposed}
  /\ at' = at + 1
  /\ pc' = IF at < Len(specs) THEN "start" ELSE IF port' THEN "done" ELSE "failed"
  /\ UNCHANGED slept
(* The call goes on with the next role, or returns if a port is known.     *)
NextRole ==
  /\ seen' = IF Ready(Current) THEN seen \cup {Current.role} ELSE seen
  /\ port' \in {port, port \/ Current.exposed}
  /\ \/ at < Len(specs) /\ at' = at + 1 /\ pc' = "start"
     \/ at = Len(specs) /\ at' = at /\ pc' = IF port' THEN "done" ELSE "failed"
  /\ UNCHANGED slept

LooksReady_Running(s) == con[s.role] \in {"running", "healthy"}
LooksReady(s) == Ready(s)

(* Before the deadline the container is looked at: it is ready, or dead or *)
(* unhealthy, or the call sleeps.  The look itself may raise, as when the  *)
(* container has been removed.                                             *)
Poll ==
  /\ pc = "poll" /\ waited < ReadyTimeout
  /\ \/ LooksReady(Current) /\ NextRole
     \/ /\ pc' = "failed"
        /\ UNCHANGED <<at, seen, port, slept>>
     \/ /\ ~LooksReady(Current) /\ con[Current.role] \notin {"exited", "unhealthy"}
        /\ pc' = "sleep" /\ slept' = 0
        /\ UNCHANGED <<at, seen, port>>
  /\ UNCHANGED <<specs, con, waited, spent, readyFor>>

(* No deadline.                                                            *)
Expire_Never == FALSE /\ UNCHANGED vars
(* At the deadline the wait gives up, whatever the container has become.   *)
Expire ==
  /\ pc = "poll" /\ waited >= ReadyTimeout
  /\ pc' = "timeout"
  /\ UNCHANGED <<specs, at, con, seen, port, clocks>>

(* One sleep for the whole wait.                                           *)
SleepTime_Whole == ReadyTimeout
SleepTime == PollInterval

(* The deadline is taken again for every look.                             *)
Wake_NewDeadline ==
  /\ pc = "sleep" /\ slept = SleepTime
  /\ pc' = "poll" /\ waited' = 0
  /\ UNCHANGED <<specs, at, con, seen, port, slept, spent, readyFor>>
Wake ==
  /\ pc = "sleep" /\ slept = SleepTime
  /\ pc' = "poll"
  /\ UNCHANGED <<specs, at, con, seen, port, clocks>>

Step == CreateNetwork \/ StartContainer \/ Poll \/ Expire \/ Wake

Tick ==
  /\ pc = "sleep" /\ slept < SleepTime
  /\ waited' = waited + 1 /\ slept' = slept + 1 /\ spent' = spent + 1
  /\ readyFor' = IF Ready(Current) THEN readyFor + 1 ELSE 0
  /\ UNCHANGED <<specs, pc, at, con, seen, port>>

(* What the daemon reports changes by itself: a container comes up, its    *)
(* healthcheck passes or fails, also later on, and it may die any time.    *)
Evolve ==
  /\ pc \notin Over
  /\ \E s \in Elements(specs) :
       \E new \in Report \ {"absent", "created", con[s.role]} :
         /\ con[s.role] \notin {"absent", "exited"}
         /\ new = "running" => con[s.role] = "created"
         /\ new \in {"healthy", "unhealthy"} => s.healthcheck /\ con[s.role] # "created"
         /\ con' = [con EXCEPT ![s.role] = new]
         /\ readyFor' = IF s.role = Current.role /\ Ready(Current) THEN 0 ELSE readyFor
  /\ UNCHANGED <<specs, pc, at, seen, port, waited, slept, spent>>

Next == Step \/ Tick \/ Evolve

(* The call runs and time passes; nothing is assumed of the containers.    *)
Spec == Init /\ [][Next]_vars /\ WF_vars(Step) /\ WF_vars(Tick)

-----------------------------------------------------------------------------
(* Dependencies have none themselves.                                      *)
OneLevel(t) ==
  \A s \in Elements(t) : s.dependsOn # NoRole =>
    \E d \in Elements(t) : d.role = s.dependsOn /\ d.dependsOn = NoRole

(* A container starts only after the role it depends on was seen ready     *)
(* (README.md:118).  Sorting by whether a role depends on another (line    *)
(* 270) and waiting inside the loop give this to templates whose           *)
(* dependencies have none themselves.                                      *)
DependencyReady ==
  \A s \in Elements(specs) :
    con[s.role] # "absent" /\ s.dependsOn # NoRole => s.dependsOn \in seen

(* A call that returns has started every role of the template and has seen *)
(* each of them ready, and one of them is exposed (lines 287 and 296):    *)
(* none was skipped, and none passed for ready on another's account.       *)
ReturnsReady ==
  pc = "done" =>
    /\ \A s \in Elements(specs) : s.role \in seen /\ con[s.role] # "absent"
    /\ \E s \in Elements(specs) : s.exposed

(* The waits of a call add up to no more than the ready timeout and one    *)
(* sleep for each role started so far: what provisioning_timeout_seconds   *)
(* has to exceed (config.py:45).                                           *)
WaitBound == spent <= at * (ReadyTimeout + PollInterval)

(* Only a container that became ready too late is timed out: one that has  *)
(* been ready for longer than a sleep was seen in time (line 457).         *)
TimeoutDeserved == pc = "timeout" => readyFor <= PollInterval

(* The call returns or raises, even when a container never reports         *)
(* anything.                                                               *)
Returns == <>(pc \in Over)
=============================================================================
