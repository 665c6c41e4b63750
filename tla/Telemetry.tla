----------------------------- MODULE Telemetry ------------------------------
(***************************************************************************)
(* What the tasks of worker/tasks.py count and how they tag what they log, *)
(* while messages are retried, refused, lost and delivered again, children *)
(* of the pool die and the worker is restarted.  What the tasks do to rows *)
(* and stacks is in Provisioner; here an attempt only succeeds or raises.  *)
(***************************************************************************)
EXTENDS Broker, LogContext, Metrics

CONSTANTS
  NoJob,
  MaxSends,   (* bound: tasks sent by the API and the reaper              *)
  MaxKills    (* bound: children or workers killed                        *)

ASSUME TelemetryAssumption ==
  MaxSends \in Nat /\ MaxKills \in Nat /\ Process = Child /\ NoJob \notin Msg

VARIABLES
  template,   (* template[e]: of the row of e                             *)
  pc,         (* where each child is                                      *)
  job,        (* the message it holds                                     *)
  about,      (* the environment a sweep is at                            *)
  label,      (* the template it will count under                         *)
  valueError, (* the exception is a ValueError                            *)
  sent,       (* history: tasks sent                                      *)
  verdicts,   (* history: attempts counted as success or failure          *)
  dropped,    (* history: retries that could not be published             *)
  kills       (* history: messages held by a child or worker when killed  *)

attemptVars == <<label, valueError>>
history     == <<sent, verdicts, dropped, kills>>
vars == <<template, pc, job, about, attemptVars, queue, logVars, metricVars, history>>

InTask  == {"load", "work", "inner", "won", "except", "retry", "leave"}
InSweep == {"sweep", "swept", "purge", "unwind"}

TypeOK ==
  /\ QueueTypeOK /\ LogTypeOK /\ MetricsTypeOK
  /\ template \in [Env -> Templates]
  /\ pc \in [Child -> {"idle"} \cup InTask \cup InSweep]
  /\ job \in [Child -> Msg \cup {NoJob}] /\ about \in [Child -> Env \cup {NoEnv}]
  /\ label \in [Child -> Templates \cup {"unknown"}]
  /\ valueError \in [Child -> BOOLEAN]
  /\ sent \in Nat /\ verdicts \in Nat /\ dropped \in Nat /\ kills \in Nat
  /\ \A c \in Child : (pc[c] \in InTask) <=> (job[c] # NoJob)

Init ==
  /\ QueueInit /\ LogInit /\ MetricsInit
  /\ template \in [Env -> Templates]
  /\ pc = [c \in Child |-> "idle"] /\ job = [c \in Child |-> NoJob]
  /\ about = [c \in Child |-> NoEnv]
  /\ label = [c \in Child |-> "unknown"] /\ valueError = [c \in Child |-> FALSE]
  /\ sent = 0 /\ verdicts = 0 /\ dropped = 0 /\ kills = 0

Goto(c, l) == pc' = [pc EXCEPT ![c] = l]

-----------------------------------------------------------------------------
(* The API or the reaper sends a task.                                     *)
Send(e) ==
  /\ sent < MaxSends /\ sent' = sent + 1
  /\ Publish(ProvisionCall(e)) \/ Publish(TeardownCall(e))
  /\ UNCHANGED <<template, pc, job, about, attemptVars, logVars, metricVars,
                 verdicts, dropped, kills>>

(* A task starts: its id is bound, and its template is not known yet.      *)
Start(c, m) ==
  /\ pc[c] = "idle" /\ Consume(m)
  /\ Goto(c, "load") /\ job' = [job EXCEPT ![c] = m]
  /\ Enter(c, m.env)
  /\ label' = [label EXCEPT ![c] = "unknown"]
  /\ valueError' = [valueError EXCEPT ![c] = FALSE]
  /\ UNCHANGED <<template, about, metricVars, history>>

(* The row is read, or there is none, or the read fails.                   *)
Load(c) ==
  /\ pc[c] = "load"
  /\ \/ /\ Goto(c, "work")
        /\ label' = [label EXCEPT ![c] = template[job[c].env]]
        /\ UNCHANGED valueError
     \/ /\ Goto(c, "except")
        /\ valueError' \in {valueError, [valueError EXCEPT ![c] = TRUE]}
        /\ UNCHANGED label
  /\ UNCHANGED <<template, job, about, queue, logVars, metricVars, history>>

(* The body goes well or raises.  An unknown template is a ValueError, and *)
(* a teardown binds the id again around its removals.                      *)
Work(c) ==
  /\ pc[c] = "work"
  /\ \/ /\ job[c].task = "provision" /\ template[job[c].env] = "listed"
        /\ Goto(c, "won") /\ UNCHANGED <<valueError, logVars>>
     \/ Goto(c, "except") /\ UNCHANGED <<valueError, logVars>>
     \/ /\ job[c].task = "provision" /\ template[job[c].env] = "unlisted"
        /\ Goto(c, "except") /\ UNCHANGED logVars
        /\ valueError' = [valueError EXCEPT ![c] = TRUE]
     \/ /\ job[c].task = "teardown"
        /\ Goto(c, "inner") /\ Enter(c, job[c].env) /\ UNCHANGED valueError
  /\ UNCHANGED <<template, job, about, label, queue, metricVars, history>>

(* The removals are over; the commit that follows may still fail.          *)
Removed(c) ==
  /\ pc[c] = "inner" /\ Exit(c)
  /\ Goto(c, "won") \/ Goto(c, "except")
  /\ UNCHANGED <<template, job, about, attemptVars, queue, metricVars, history>>

SeriesOf(c, outcome) ==
  IF job[c].task = "teardown" THEN [task |-> "teardown", outcome |-> outcome]
  ELSE [task |-> "provision", template |-> label[c], outcome |-> outcome]

(* Only a provision gives up on a ValueError.                              *)
Retryable(c) == job[c].task = "teardown" \/ ~valueError[c]

(* Each attempt is counted, before self.retry decides.                     *)
CountSuccess(c) ==
  /\ pc[c] = "won" /\ Goto(c, "leave")
  /\ Inc(c, SeriesOf(c, "success")) /\ verdicts' = verdicts + 1
  /\ UNCHANGED <<template, job, about, attemptVars, queue, logVars, sent, dropped, kills>>

(* Whether there are retries left is not looked at.                        *)
CountFailure_Always(c) ==
  /\ pc[c] = "except"
  /\ Goto(c, IF Retryable(c) /\ ~Exhausted(job[c]) THEN "retry" ELSE "leave")
  /\ IF Retryable(c)
       THEN Inc(c, SeriesOf(c, "retry")) /\ UNCHANGED verdicts
       ELSE Inc(c, SeriesOf(c, "failure")) /\ verdicts' = verdicts + 1
  /\ UNCHANGED <<template, job, about, attemptVars, queue, logVars, sent, dropped, kills>>
CountFailure(c) ==
  /\ pc[c] = "except"
  /\ IF Retryable(c) /\ ~Exhausted(job[c])
       THEN /\ Goto(c, "retry") /\ Inc(c, SeriesOf(c, "retry")) /\ UNCHANGED verdicts
       ELSE /\ Goto(c, "leave") /\ Inc(c, SeriesOf(c, "failure"))
            /\ verdicts' = verdicts + 1
  /\ UNCHANGED <<template, job, about, attemptVars, queue, logVars, sent, dropped, kills>>

(* The next attempt is published, or the broker cannot be reached.         *)
Retry(c) ==
  /\ pc[c] = "retry" /\ Goto(c, "leave")
  /\ \/ PublishRetry(job[c]) /\ UNCHANGED dropped
     \/ dropped' = dropped + 1 /\ UNCHANGED queue
  /\ UNCHANGED <<template, job, about, attemptVars, logVars, metricVars, sent, verdicts, kills>>

(* The message is kept.                                                    *)
Leave_KeepsJob(c) ==
  /\ pc[c] = "leave" /\ Exit(c) /\ Goto(c, "idle")
  /\ UNCHANGED <<template, job, about, attemptVars, queue, metricVars, history>>
(* The block is left and the message acknowledged.                         *)
Leave(c) ==
  /\ pc[c] = "leave" /\ Exit(c)
  /\ Goto(c, "idle") /\ job' = [job EXCEPT ![c] = NoJob]
  /\ UNCHANGED <<template, about, attemptVars, queue, metricVars, history>>

-----------------------------------------------------------------------------
(* A sweep binds the id of each environment it comes to, in turn.          *)
SweepNext(c) ==
  /\ \/ pc[c] = "idle" /\ Goto(c, "sweep") /\ UNCHANGED <<about, logVars>>
     \/ pc[c] = "sweep" /\ Goto(c, "idle") /\ UNCHANGED <<about, logVars>>
     \/ \E e \in Env :
          /\ pc[c] = "sweep" /\ Goto(c, "swept") /\ Enter(c, e)
          /\ about' = [about EXCEPT ![c] = e]
  /\ UNCHANGED <<template, job, attemptVars, queue, metricVars, history>>

(* Within the block: the orphan sweep removes resources, in a block inside *)
(* it; any step may raise, which leaves all blocks and ends the sweep.     *)
SweepOne(c) ==
  /\ \/ /\ pc[c] = "swept" /\ Goto(c, "purge") /\ Enter(c, about[c])
        /\ UNCHANGED about
     \/ pc[c] = "purge" /\ Goto(c, "swept") /\ Exit(c) /\ UNCHANGED about
     \/ /\ pc[c] = "swept" /\ Goto(c, "sweep") /\ Exit(c)
        /\ about' = [about EXCEPT ![c] = NoEnv]
     \/ /\ pc[c] \in {"swept", "purge"} /\ Goto(c, "unwind")
        /\ UNCHANGED <<about, logVars>>
     \/ /\ pc[c] = "unwind"
        /\ IF Len(tokens[c]) > 1
             THEN UNCHANGED <<pc, about>>
             ELSE Goto(c, "idle") /\ about' = [about EXCEPT ![c] = NoEnv]
        /\ Exit(c)
  /\ UNCHANGED <<template, job, attemptVars, queue, metricVars, history>>

Run(c) ==
  \/ Load(c) \/ Work(c) \/ Removed(c) \/ CountSuccess(c) \/ CountFailure(c)
  \/ Retry(c) \/ Leave(c) \/ SweepNext(c) \/ SweepOne(c)

-----------------------------------------------------------------------------
(* A child of the pool is killed or retired, and another takes its place.  *)
(* A message it held is lost, or delivered again.                          *)
Die(c) ==
  /\ pc[c] # "idle" => kills < MaxKills
  /\ kills' = IF pc[c] = "idle" THEN kills ELSE kills + 1
  /\ Goto(c, "idle") /\ job' = [job EXCEPT ![c] = NoJob]
  /\ about' = [about EXCEPT ![c] = NoEnv]
  /\ Forget({c}) /\ MarkDead(c)
  /\ \/ job[c] # NoJob /\ Publish(job[c])
     \/ UNCHANGED queue
  /\ UNCHANGED <<template, attemptVars, sent, verdicts, dropped>>

(* The worker is killed and started again: all that its children held is   *)
(* delivered again.                                                        *)
Restart ==
  LET busy == {c \in Child : job[c] # NoJob}
  IN /\ kills + Cardinality(busy) <= MaxKills /\ kills' = kills + Cardinality(busy)
     /\ pc' = [c \in Child |-> "idle"] /\ job' = [c \in Child |-> NoJob]
     /\ about' = [c \in Child |-> NoEnv]
     /\ Forget(Child) /\ PrepareDir
     /\ queue' = [m \in Msg |-> queue[m] + Cardinality({c \in busy : job[c] = m})]
     /\ UNCHANGED <<template, attemptVars, sent, verdicts, dropped>>

Next ==
  \/ Restart
  \/ \E e \in Env : Send(e)
  \/ \E c \in Child : Run(c) \/ Die(c) \/ \E m \in Msg : Start(c, m)

Spec == Init /\ [][Next]_vars

-----------------------------------------------------------------------------
(* A scrape reports what was counted since the worker started: nothing of  *)
(* an earlier run (metrics.py:130), and all that children which are gone   *)
(* have counted (metrics.py:177).                                          *)
ScrapeFaithful == \A s \in Series : Scrape(s) = counted[s]

(* What successive scrapes read is a counter, for Prometheus: over kills,  *)
(* retired children and restarts no series drops but with all others to    *)
(* zero, which rate() takes for a reset, and none jumps (metrics.py:132).  *)
ScrapesCount ==
  [][\/ UNCHANGED <<file, kept>>
     \/ \A s \in Series : Scrape(s)' \in {Scrape(s), Scrape(s) + 1}
     \/ \A s \in Series : Scrape(s)' = 0]_vars

(* Copies of sent tasks that may still come to a verdict.                  *)
Deciding == {c \in Child : pc[c] \in InTask \ {"leave"}}
Open     == Total(queue, Msg) + Cardinality(Deciding)

(* How far the number of verdicts, success or failure, can be from the     *)
(* number of tasks sent, however often tasks are retried: with the tasks   *)
(* still open it falls short by the retries that could not be published    *)
(* and the processes killed with a message at most, and exceeds it by such *)
(* kills at most.                                                          *)
VerdictPerTask ==
  /\ sent <= verdicts + Open + dropped + kills
  /\ verdicts + Open <= sent + kills

(* What a child works on.                                                  *)
Subject(c) == IF job[c] # NoJob THEN job[c].env ELSE about[c]

(* Every line carries the id of what its process works on, also after a    *)
(* block within the block, and an idle process has none: a child handles   *)
(* many environments in its lifetime (observability.py:114).               *)
LinesTagged ==
  \A c \in Child : pc[c] # "unwind" => ctx[c] = Subject(c)

(* metrics.py:70, "Keeps the label set closed - the templates allowlist    *)
(* plus this one sentinel".  Broken: the template of the row is any string *)
(* a POST was sent with, and is the label before provision() refuses it.   *)
TemplateLabelsClosed ==
  \A s \in Series : s.task = "provision" /\ Scrape(s) > 0 =>
    s.template \in {"listed", "unknown"}
=============================================================================
