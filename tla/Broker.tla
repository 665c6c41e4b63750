------------------------------- MODULE Broker -------------------------------
(***************************************************************************)
(* The Celery queue on Redis, as worker/tasks.py configures it.  A message *)
(* names a task, an environment and the retry count it carries.  The queue *)
(* is a bag: two DELETEs leave two equal teardown messages.  A delivery    *)
(* order is not assumed, which also covers retry countdowns.               *)
(***************************************************************************)
EXTENDS Clock

CONSTANTS
  ProvisionRetries,   (* max_retries of provision_environment             *)
  TeardownRetries     (* max_retries of teardown_environment              *)

ASSUME BrokerAssumption == ProvisionRetries \in Nat /\ TeardownRetries \in Nat

VARIABLE queue        (* queue[m]: copies of m waiting for a worker       *)

ProvisionMsg == [task : {"provision"}, env : Env, retries : 0..ProvisionRetries]
TeardownMsg  == [task : {"teardown"}, env : Env, retries : 0..TeardownRetries]
Msg          == ProvisionMsg \cup TeardownMsg

ProvisionCall(e) == [task |-> "provision", env |-> e, retries |-> 0]
TeardownCall(e)  == [task |-> "teardown", env |-> e, retries |-> 0]

Exhausted(m) ==
  m.retries >= IF m.task = "provision" THEN ProvisionRetries ELSE TeardownRetries

QueueTypeOK == queue \in [Msg -> Nat]
QueueInit   == queue = [m \in Msg |-> 0]

Publish(m) == queue' = [queue EXCEPT ![m] = @ + 1]
Consume(m) == queue[m] > 0 /\ queue' = [queue EXCEPT ![m] = @ - 1]

(* self.retry: the same call, one retry further on.                        *)
PublishRetry(m) == Publish([m EXCEPT !.retries = @ + 1])
=============================================================================
