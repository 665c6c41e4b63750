# Verification of the ephemeral environment provisioner

TLA+ models of the service in `src/`, TLC runs that check them on small
instances, and TLAPS proofs of the properties that matter most. A user POSTs an
environment; a Celery worker builds a network and containers for it on one
Docker host; a DELETE or the TTL tears them down; three periodic sweeps repair
what failures leave behind.

## 1. The system

| Component | State it keeps | Operations | Source |
|---|---|---|---|
| API | none of its own | POST, DELETE, two GETs | `api/routes/environment_router.py` |
| environments table | one row per environment: status, `status_changed_at`, `expires_at`, `network_id`, `container_ids`, template, owner, name | `set_status`, queries of the sweeps and guards | `db/models.py` |
| queue | provision and teardown messages with retry counts | `delay`, `retry`, delivery, late acknowledgement | `worker/tasks.py:72-103`, Celery and Redis |
| workers | the locals of the task each pool process runs | `provision_environment`, `teardown_environment` | `worker/tasks.py:145-292` |
| sweeps | the rows or ids one run has found | reap expired, recover stale, reconcile orphans | `worker/tasks.py:295-449` |
| Docker manager | none; the daemon holds networks and containers, found again by label | `provision`, `teardown`, `remove_resources`, `find_labelled` | `docker_manager/compose.py` |
| authentication | none: `API_KEYS` is parsed on each request | parse, look up, refuse; refuse to start | `api/auth.py`, `api/main.py` |
| metrics | counters in a file of each process, in one directory | count outcomes, empty the directory, mark a child dead, scrape | `metrics.py` |
| logging | a context variable of each process | bind an id, put back what was bound | `observability.py` |

API, workers and sweeps interact only through the queue, the table and the Docker host. No message
is ever answered: a task reports by committing to the row. Nothing locks a row
across two statements, no status transition is guarded by the status it leaves,
and there is no database constraint besides the primary key. What orders the
processes is therefore only this: resource names are derived from the
environment id and are unique on the host; resource ids are never reused; three
timeouts, a grace period and a TTL. That network names are unique is a promise of
Docker Engine 25 and later: `networks.create` is called without `check_duplicate`
(`compose.py:389`), and an older daemon would create a second network of the same
name. The model assumes such a daemon.

### What is hard

* *Interleavings.* Two pool processes run tasks for the same environment: a
  retry beside a redelivery, a teardown beside a build, two sweeps.
* *Read, then write.* The teardown keeps the ids of its first read
  (`expire_on_commit=False`), the reaper and the staleness sweep commit what
  they selected earlier, the orphan sweep lists resources before it reads rows.
* *Failure.* Every database, broker and Docker call may fail, removal errors
  are swallowed, `_mark_failed` swallows its own failure, processes are killed
  at any step, messages are lost or delivered again.
* *Time.* A sweep presumes a row dead, or a resource abandoned, by age alone. A
  container is looked at every other second against a deadline, and the
  staleness timeout has to outlast all these waits together.
* *Two statements, many requests.* A list counts in one statement and selects in
  another, and a client walks over pages while rows appear and change status.
* *What outlives a process.* Counter files stay when a child of the pool ends;
  a context variable stays bound when a block forgets to put it back.

### What makes each component correct

* Docker manager and tasks: no part of a stack that is being built or that a
  RUNNING row names is removed; a container joins the network of its own attempt.
* Sweeps: nothing is stuck or leaked for ever; no row with a live builder is
  presumed dead by its age.
* Queue and retries: attempts do not multiply, teardowns do not pile up.
* POST guards: how far concurrent requests can exceed the quota and share a name.
* Builds: a role starts after the one it needs was ready; the waits stay within a
  budget; only a late container is timed out; the call ends.
* Lists: a walk over the pages misses nothing it should have found.
* Keys: every entry of `API_KEYS` is honoured or every request refused.
* Metrics and logs: a scrape reports what was counted; there are as many verdicts
  as tasks, but for lost retries and kills; every line carries the id of what its
  process works on.

## 2. Modules

| Module | Models |
|---|---|
| `Clock` | environment ids; timestamps as ages that saturate at `AgeCap` |
| `EnvTable` | the committed rows, `set_status`, the age queries, `_mark_failed` |
| `DockerHost` | networks and containers on the host, removal, `find_labelled` |
| `Broker` | the queue as a bag of messages, retry budget |
| `Worker` | the locals of each pool process, delivery, acknowledgement, death |
| `ProvisionTask`, `TeardownTask`, `Sweeps` | the tasks of `worker/tasks.py`, with the `docker_manager` calls they make |
| `Api` | POST and DELETE |
| `Provisioner` | all of the above together, time, fairness, the properties |
| `StackOwnership` | abstract specification: stacks are built, may serve, are given up, and only then lose parts |
| `Promises` | statements of comments, docstrings and tests that the code does not keep |
| `CreateGuards` | the guards of POST under concurrent requests |
| `StackBuild` | one call of `provision`: order of the roles, placeholders, polling against the deadline, host port |
| `ApiKeys`, `Listing` | parsing and lookup of keys; GET of the list page by page, on top of it |
| `LogContext`, `Metrics` | `bind_env_id`; the counters in multiprocess mode |
| `Telemetry` | what the tasks count and log, on `Broker`, `LogContext` and `Metrics` |
| `Tally` | totals over a function, as the cardinality of a set of copies |
| `ProvisionerInv` | the inductive invariants of `Provisioner` |
| `ProvisionerProofs`, `OwnershipProofs`, `RefinementProofs` | proofs about `Provisioner` |
| `CreateGuardsProofs`, `StackBuildProofs`, `ListingProofs`, `TelemetryProofs`, `TallyProofs` | proofs about the module of that name |
| `MCProvisioner`, `MCCreateGuards`, `MCStackBuild`, `MCListing`, `MCTelemetry` | instances for TLC |

`Provisioner` EXTENDS the components; each owns its variables, and each action
lives in the module of the process that takes it. The other models share modules
with it where the code shares state (`Clock`, `Broker`) and stand apart where it
does not: what `provision` does between two polls no other process sees, the GET
routes and keys change nothing a worker reads, and no decision reads a counter or
a log line.

### State and code

* `status`, `since`, `upFor`, `stack` are the columns `status`,
  `status_changed_at`, `expires_at`, and `network_id` with `container_ids`. The
  code compares a timestamp only with now minus a timeout, so an age says as
  much. `stack[e]` is the number of the attempt whose resources the row names.
* `holder[e][p]` is the resource that has the name of part `p` of `e` (part 0:
  the network; others: one container per role), as the number of the attempt
  that created it. A Docker id is the triple environment, part, attempt.
* The daemon refuses to remove a network while a container of it runs. Which
  containers run is not in the state: any may have failed to start, exited or been
  stopped by a removal that then failed. So `RemovePart` may remove a network at any
  time, and may be refused while a container of its stack is there (`MayBeInUse`).
* `MarkFailed` is `_mark_failed` at its commit. The reload before it matters only
  for a row reloaded as FAILED, of which just the timestamp is written; that is the
  same action taken at the reload, with a later timestamp.
* `pc[w]` is the place between two statements where another process can step
  in: one label per transaction, Docker call or publication. The other worker
  variables are the Python locals that live across such a place.
* `same[w]` is SQLAlchemy's unit of work: a session that loaded the row in the
  very status it then sets writes only `status_changed_at`. So a provision task
  that loaded a PROVISIONING row does not undo a FAILED committed since.
* A message taken is held in `job[w]` until `Ack`; `Die` gives it back
  (the worker is killed: late acknowledgement) or loses it (only the pool child
  is killed: Celery acknowledges on `WorkerLostError`).
* `DELETE` is one action, although it reads the status and enqueues in two
  statements: it writes nothing others read, and a message sent at the time of
  the read and taken later is the same behaviour.
* The two list calls of `find_labelled` are one step, each loop over a query is
  one read. A sweep that finds nothing is not represented. A sweep may raise
  between any two steps (`SweepRaise`).
* A `retry` whose publication fails is rejected by Celery without requeueing:
  the second disjunct of `ProvisionRetry` and `TeardownHandle`.

`CreateGuards` is a separate model because the guards of POST read rows of one
owner across environments, and the workers matter to them only by ending rows
and bringing them back; `Provisioner` shows that they do both. In `Api` a
request has passed its guards.

* `StackBuild` is the inside of the steps that `ProvisionTask` takes from its
  claim to its RUNNING commit. `specs` is the template after the sort by whether
  a spec has `depends_on_role`; `at` and `pc` are the place in the loop; `waited` is
  now minus the start of `_wait_for_ready`. `con` is what the daemon reports, and
  changes by itself (`Evolve`). Time passes in `time.sleep` only: how long the
  daemon takes over a call is not counted.
* `Listing`: `born` is the rank of a row by `created_at`, given at the flush;
  `shown` are the committed rows, so a row may become visible after a later one.
  `Ask`, `Count` and `Rows` are the authentication and the two statements of
  `list_environments`. The client asks on while pages are full. Rows are never
  deleted by the code, and `created_at` is taken to differ between rows.
* `ApiKeys`: an entry between two commas is blank or a key with or without a
  principal; `Take` is one round of the loop of `_parse`, with its three errors,
  and `Rounds` the loop; `config` may change between any two requests.
* `Metrics`: `file[c]` is the counter file of the child in place `c`, `kept` adds
  up the files whose child is gone, `counted` is a history of increments since
  `prepare_multiproc_dir` ran last.
* `Telemetry`: an attempt reads its row or not, succeeds or raises, is counted,
  then retried, in the order of the two `try` blocks; what it does to rows and
  stacks is left to `Provisioner`. `tokens[c]` holds what the `bind_env_id`
  blocks of a child will put back.

## 3. Runs

Two workers stand for the pool of `docker-compose.yml` (`--concurrency=2`).

| Run | Question | Instance |
|---|---|---|
| `Safety` | the safety properties, the inductive invariant, which stacks come into service, how many attempts and teardowns there can be, and the refinement of `StackOwnership` | 1 environment, network and 1 container, 1 retry of a provision, 1 DELETE, 1 kill |
| `TwoEnvs` | does a sweep over two environments keep them apart | 2 environments, 1 retry of a teardown |
| `Reclaim` | is everything reclaimed in the end, with fairness | 1 environment, 1 DELETE, 1 kill, 1 failed removal or sweep |
| `Guards` | how far do concurrent POSTs overshoot | 5 requests of 2 owners, 2 names, quota 2, 2 in flight |
| `Build` | order, waits, timeouts, result and end of a build | all templates of up to 3 roles with one level of dependencies, ready timeout 3, poll interval 2 |
| `Access` | what a walk over the pages misses; keys | 3 rows, 2 principals, pages of 1, 2 status changes, 1 change of the keys |
| `Telemetry` | counts, verdicts and ids on lines | 2 environments, 2 children, 1 retry per task, 1 task sent, 1 kill |

Bounds of `Provisioner`: one environment is enough wherever environments share
nothing but workers; `TwoEnvs` covers the one place where a task handles several.
Two workers suffice for every pairwise race; a third actor is the API. `AgeCap =
2` with `Grace = ProvisioningTimeout = 2`, `PendingTimeout = StoppingTimeout =
Ttl = 1` and `BuildBound = 1` keeps the order of the settings that matters (a
build is shorter than grace and provisioning timeout) and lets every timeout fire
in every order. One retry exercises both the retry and the exhausted
branch; provisions are retried in `Safety`, teardowns in `TwoEnvs`, since both in one
instance take longer than a run should. In `TwoEnvs` `Ttl = Grace`, so that resources
of a row that still serves are old enough to be listed. A removal that fails in the
daemon is in `Reclaim`; the theorems about the properties of `Safety` cover any number
of them. `MaxDeletes`, `MaxCrashes` and `MaxFaults` bound events; attempts are bounded by
the retry budget and the kills.

Bounds of the others: in `Build` the deadline is not a multiple of the poll
interval, so readiness between the last look and the deadline happens, and three
roles are the least with two that depend on one. In `Access` pages of one row
make the walk as long as there are rows, and two moves let a row leave and come
back. In `Telemetry` one task can be retried, lost, delivered again by a dying
child or by a restart of the worker; the sweeps of the second child bind another
environment meanwhile. Workers, environments, rows and children are
interchangeable, and are declared symmetric where no liveness is checked.

What the properties say:

* `BuilderUndisturbed`: a live builder finds every part it has created. It needs
  the grace period to outlast a build.
* `RunningStackIntact`: a RUNNING row names a stack and all of it exists. The
  hard cases are a teardown that read its ids before an attempt that succeeded
  since, and an orphan sweep with an old list.
* `OneBuilderPerEnv`: the network name is the lock of an environment. Attempts may
  overlap, but only one gets past its network.
* `JoinsOwnNetwork`: a container names its network by name, and it is the one its
  own attempt created. This is about the moment of its creation only. Stacks of two
  attempts can be on the host together later: `network.remove` is refused only
  while a container of the network runs, so a sweep can remove the network of a
  stack whose container has exited (and is younger, or could not be removed), and
  the next attempt then has its own network beside the old container.
* `StaleMeansDead`: a PROVISIONING row past its timeout has no live builder,
  whichever attempt stamped the row last. It is about what the sweep selects; a
  row that becomes RUNNING between the selection and the commit of the sweep is
  failed by it, and no property calls that an error (its stack is reclaimed).
* `OneAttemptChain`: retries do not multiply; only a process killed between
  publishing a retry and acknowledging adds an attempt.
* `RunningIsSettled`: the attempt that puts a row in service is the last of its
  chain; from then on, also when the row is not RUNNING any more, whatever attempt
  is still to come was brought about by a kill.
* `TeardownsBounded`: teardowns sent, under way or about to be sent are no more
  than one for each worker and stack that came into service, and one for each
  DELETE and kill. The docstring of the reaper (`tasks.py:299`) has its claim keep a
  second tick from enqueueing a teardown again; that holds for rows claimed before
  the second tick selects, while two reapers that select first both send. The bound
  is reached.
* `ServesNewest`: a row becomes RUNNING only with the newest stack of its
  environment, one it has not named before, and the ids of a RUNNING row never
  change. The hard case is an attempt that commits after a later one has begun.
* `EventuallyReclaimed`: each environment ends terminal, or without a row, and
  with nothing on the host.
* `ImplementsOwnership`: every step maps to a step of `StackOwnership` or a
  stutter, with workers' locals owning what they build and RUNNING rows what
  they name.
* `QuotaOvershoot`, `NameOvershoot`: the excess over the guards is less than the
  number of requests served at once; brought-back rows are counted apart.
* `DependencyReady`: a role starts after the role it depends on was seen ready.
  The sort orders one level of dependencies only, which the templates of the
  instance have, as the template of the repository has.
* `ReturnsReady`: a call that returns has started every role and seen each ready.
* `WaitBound`: the waits so far are at most (roles started) × (timeout + one
  sleep), which `provisioning_timeout_seconds` has to exceed.
* `TimeoutDeserved`: a container that times out has not been ready for longer
  than one sleep. `Returns`: every call ends.
* `NoEntryOverridden`: whatever `API_KEYS` says, a key is answered as its entry
  says or every request is refused.
* `PagingMisses`: a walk misses no more rows than have left the status it asks
  for; without a filter, none. Rows committed late or out of order only push
  others to later pages. `TotalConsistent`: the total of the last page promises
  no rows that were not listed, with the same exception.
* `ScrapeFaithful`: the sum over the files is what was counted since the worker
  started: children that ended are included, an earlier worker is not.
* `ScrapesCount`: what successive scrapes read is a counter in the sense of
  Prometheus: a series goes up by one, or all return to zero together.
* `VerdictPerTask`: a bracket on successes plus failures by the tasks sent, not one
  verdict for each task. Only a retry that could not be published, or a process
  killed with a message, takes a verdict away, and only such a kill adds one.
* `LinesTagged`: through retries, inner blocks, exceptions and sweeps over several
  environments, `ctx` is the environment a process works on, or none.

### Statements the code does not keep

Each is checked by a run of its own, and TLC ends in a behaviour that breaks it.

| Run | Statement | What happens |
|---|---|---|
| `PendingHasJob` | PENDING means a job is enqueued (`db/models.py:14`) | the task runs before the POST commits, and is not retried |
| `StoppedIsClean` | STOPPED is cleanly torn down (`db/models.py:18`) | a DELETE during the build removes nothing |
| `RunningNotReprovisioned` | provisioning twice is a no-op (`tests/test_metrics.py:290`) | redelivery after the RUNNING commit |
| `UniqueActiveName` | names are unique among active rows (`README.md:169`) | a FAILED row comes back (one request at a time) |
| `TemplateLabelsClosed` | the template labels are the allowlist and one sentinel (`metrics.py:70`) | the row of a POST with any other string is counted under that string |

`StoppedIsClean` and `RunningNotReprovisioned` are repaired later by the sweeps,
which is what `EventuallyReclaimed` shows. A kill is the only way to break
`RunningNotReprovisioned`: `ReprovisionNeedsKill` is proved.

### Fairness

`Reclaim` assumes: time passes; a live worker goes on with its task (weak
fairness: nothing blocks a task for ever, a build is bounded); a waiting message
is eventually taken and each sweep is run again and again when it has something
to find (strong fairness: beat sends all three periodically, but workers are
busy in between, so the actions are enabled again and again, not always). No
fairness is assumed of requests, kills or faults. Failures of the daemon and
of sweeps are bounded, since a daemon that never removes anything reclaims
nothing.

`Build` assumes that the call runs (weak fairness of its steps) and that time
passes while it sleeps (weak fairness of `Tick`). Nothing is assumed of the
containers: one that never reports anything is left at its deadline.

## 4. Proofs

Proved for every value of the constants (any number of environments, workers,
roles, retries, rows, children; any timeouts; any number of requests, kills and
faults) from the named assumptions in the modules, which TLC evaluates in every
run:

| Theorem | Says | Also assumes |
|---|---|---|
| `ProvisionerProofs!TypeCorrect` | `Spec => []TypeOK` | |
| `ProvisionerProofs!StaleSafe` | `Spec => []StaleMeansDead` | `BuildBound < ProvisioningTimeout` |
| `ProvisionerProofs!OneChain` | `Spec => []OneAttemptChain` | |
| `ProvisionerProofs!Settled` | `Spec => []RunningIsSettled` | |
| `ProvisionerProofs!ReprovisionNeedsKill` | until a process is killed, no RUNNING row becomes PROVISIONING again | |
| `OwnershipProofs!OwnershipHolds` | `Spec => []OwnershipInv` | `BuildBound < Grace` |
| `OwnershipProofs!RunningStackSafe` | `Spec => []RunningStackIntact` | `BuildBound < Grace` |
| `OwnershipProofs!BuilderSafe` | `Spec => []BuilderUndisturbed` | `BuildBound < Grace` |
| `OwnershipProofs!OneBuilder` | `Spec => []OneBuilderPerEnv` | `BuildBound < Grace` |
| `RefinementProofs!Refinement` | `Spec => ImplementsOwnership` | `BuildBound < Grace` |
| `RefinementProofs!NewestServes` | `Spec => ServesNewest` | `BuildBound < Grace` |
| `RefinementProofs!JoinsOwn` | `Spec => JoinsOwnNetwork` | `BuildBound < Grace` |
| `RefinementProofs!TeardownsStayBounded` | `Spec => []TeardownsBounded` | `BuildBound < Grace` |
| `RefinementProofs!GivenUpStaysSo` | `Spec => Ownership!GivenUpForGood`: a stack without an owner never gets one again | `BuildBound < Grace` |
| `RefinementProofs!OwnersWhole` | what serves is whole and alone, only the newest stack is being built (`Ownership!ServesWhole`, `Ownership!BuildsNewest`) | `BuildBound < Grace` |
| `StackBuildProofs!TypeCorrect` | `Spec => []TypeOK` | |
| `StackBuildProofs!DependenciesReady` | `Spec => []DependencyReady` | every template is `OneLevel` |
| `StackBuildProofs!WaitBounded` | `Spec => []WaitBound` | |
| `StackBuildProofs!TimeoutsDeserved` | `Spec => []TimeoutDeserved` | |
| `StackBuildProofs!ReturnsWhole` | `Spec => []ReturnsReady` | |
| `StackBuildProofs!BuildFits` | `Spec => [](spent <= Bound)` | a turn for each role of the longest template fits into `Bound` |
| `CreateGuardsProofs!QuotaHolds` | `Spec => []QuotaOvershoot` | |
| `CreateGuardsProofs!NameHolds` | `Spec => []NameOvershoot` | |
| `CreateGuardsProofs!SerialKeeps` | while no row was brought back, the quota is kept and `UniqueActiveName` holds | `MaxInFlight = 1` |
| `ListingProofs!TypeCorrect` | `Spec => []TypeOK` | |
| `ListingProofs!WalkMisses` | `Spec => []PagingMisses` | |
| `ListingProofs!TotalRight` | `Spec => []TotalConsistent` | |
| `ListingProofs!KeysHonoured` | `Spec => []NoEntryOverridden` | |
| `ListingProofs!ParseRight` | `Parse` succeeds exactly for well-formed lists of keys, and returns their entries | |
| `TelemetryProofs!TypeCorrect` | `Spec => []TypeOK` | |
| `TelemetryProofs!LinesRight` | `Spec => []LinesTagged` | |
| `TelemetryProofs!ScrapesRight` | `Spec => []ScrapeFaithful` | |
| `TelemetryProofs!ScrapesAreCounters` | `Spec => ScrapesCount` | |
| `TelemetryProofs!VerdictsRight` | `Spec => []VerdictPerTask` | |

`BuildBound < Grace` and `BuildBound < ProvisioningTimeout` are about the
deployment, not the code: with the default settings both timeouts are 900 s, and
`BuildFits` shows that a build of the two-role template sleeps at most
2 × (120 + 2) s, but an image pull is not bounded. With a longer build
`BuilderUndisturbed` is false: the orphan sweep takes resources of a FAILED
row that are older than the grace period from a builder that is still alive. `OneLevel` says that a
dependency has none itself: the sort by whether a role has a dependency gives no
more. `MaxInFlight = 1` is not the deployment; `SerialKeeps` says that serving
requests at once and bringing rows back are the only two ways in which the
guards fail, and the run `UniqueActiveName` shows the second one alone.

### Ownership

`RunningStackIntact` is not inductive: a removal preserves it only if the id is
not of a serving stack, which depends on when the remover got the id.
`OwnershipInv` says who can hold which stack number:

* numbers in use were given out (`NumbersGiven`), so a new attempt is new to all;
* a number being built is unknown to the table, to other builders and to
  everybody who removes (`SoleBuilder`), and marks exactly the parts created
  (`BuildFrontier`);
* those parts are no older than the build (`BuildYoung`), so `find_labelled`
  lists none of them when the grace period outlasts a build;
* an id a worker is committed to removing belongs to no RUNNING row
  (`DoomedUnserved`). A teardown's ids are doomed from its claim on, because a
  later RUNNING commit names another stack; before the claim they may still
  serve, except when the claim will not write the status (`same`).

Each action is shown to preserve it, most of them through one lemma
(`QuietStep`): a step that changes no resource, starts no build, spreads no id
and makes no row RUNNING preserves everything.

`Refinement` takes the same invariant to the abstract specification. A removal
maps to the loss of a part of a stack without an owner because of
`DoomedUnserved`; a created part maps to a new part of the builder's own stack
because of `SoleBuilder`; the RUNNING commit hands the stack from the builder to
the row. All other steps map to giving up stacks or to nothing.

The abstract specification is then worth more than the mapping: what it promises,
the service keeps. `Owners` is its inductive invariant, shown from its own actions
alone (`OwnersStep`), without the queue, the tasks and time: a stack is begun
only when no network of its environment is there, and whatever has an owner has
its network, so only the newest stack can be under construction, and what serves
is whole and the only owned one. `GivenUpStaysSo` and `OwnersWhole` carry that
down. `NewestServes` adds what the mapping does not show: only the RUNNING commit
changes the ids of a row or takes it to RUNNING, and it does so with the number
of a builder, which is the newest.

### Time and attempts

`StaleSafe` rests on `ClockInv`: a PROVISIONING row with a live builder was
stamped after that build began, whoever else wrote to it.

`OneChain` rests on `ChainInv`: an environment nobody has asked for has no
provision message, and one that was asked for has at most one attempt more than
there were kills. A retry takes the place of the attempt that asks for it; a
kill adds at most the message it gives back. `Settled` adds that the commit of
RUNNING ends an attempt, and that no step but a request for the environment
itself, which is made once, or a kill begins a chain (`StepChain`, used with one
chain and with none); it counts from the first RUNNING commit on, because only that
commit writes ids into a row. The number of waiting attempts is a sum over the messages
of the queue. The library's induction theorems take an operator as a parameter,
which the provers cannot instantiate, so a sum by recursion is awkward to reason
about; `Tally` counts a set of numbered copies instead, and `TallyProofs` shows
how its cardinality changes when one number changes, when numbers are added, and
for the sizes of preimages.

`TeardownsStayBounded` rests on `TeardownInv`, which tells a reaper that has
selected a row (`Claiming`) from a teardown that will certainly be sent or is
(`Owed`). A reaper selects RUNNING rows only, and while the row is RUNNING `Owed`
stays below what the earlier lives of the environment allow: there is room for all
workers to select it. A claim moves one reaper from the first to the second and
ends RUNNING; sending, taking and retrying move a teardown between the reaper, the
queue and a worker (`Moved`). The RUNNING commit writes a larger stack number,
which makes room for the next life. The set of workers is finite
(`PoolAssumption`), since the bound counts them.

### Builds

`TimeInv` bounds the waits of the roles before the current one by their number,
and the current wait by the timeout and a sleep that was begun before the
deadline. `FreshInv` bounds how long the current container can have been ready
without having been seen: it is looked at after each sleep. `OrderInv` says that
roles without a dependency come first and that all roles before the current one
were seen ready; `BehindInv` says the latter without the assumption on the
dependencies, and that the call is done only at the last role, once it was ready.

### Guards, lists and telemetry

* `QuotaBound` and `NameBound`: rows and the requests that have passed a guard
  are counted together. A request passes while others of its owner are in
  flight, and each of those can add one row.
* `ListInv`: ranks have no gaps, and the rows a walk owes that lie before the
  offset and were not seen are no more than those that left. A new row has the
  highest rank and is committed before or behind the window of the walk, and can
  only push rows to later pages.
* `ParseRight` is about a loop, so it needs an induction. Here it is over a set
  of naturals: if some round broke the invariant of the loop there would be a
  least one, by the well-foundedness theorem of the library (`Least`,
  `Induction`). The invariant says that the map holds exactly the entries so far,
  or that one of them is at fault. `KeysHonoured` follows, because a lookup in
  that map cannot find another entry's principal.
* `BlockInv` says what each block a process is in will put back. `ScrapeInv` is
  `ScrapeFaithful` with the finiteness of what is added up. `VerdictInv` adds that
  only messages with retries left reach the publication of a retry; at a restart
  the messages put back are as many as children held one, by the lemma on
  preimages. `ScrapesAreCounters` compares two scrapes through `ScrapeInv`, before
  and after the step.

Only model-checked: `EventuallyReclaimed` and `Returns` (liveness under fairness is
out of the prover's reach). Every invariant and action property of a passing run
is stated by a theorem.

## 5. Not modelled

* Schemas, migrations, deployment files, the demo application: stateless or run
  once, before the service starts.
* `resource_limits` and `to_docker_healthcheck`: translations of template fields
  that no decision of the service reads.
* The rendering of metrics, the HTTP servers, the configuration of structlog:
  library calls. The histogram of durations is observed with the success it
  belongs to and adds no state of its own.
* GET of one environment: it reads one row.
* The comparison of keys in constant time.
* The time a Docker call takes, apart from `BuildBound` as a whole.
* Resources removed or renamed by hand on the host, and two databases sharing
  one host.
* A commit whose reply is lost: the code sees an error after the row has changed.
* Redis giving a message to a second worker while the first still holds it (its
  visibility timeout); redelivery after a death is modelled.
* Columns no decision reads: `host_port`, `error_message`, `celery_task_id`,
  `started_at`, `stopped_at`.
* Celery internals beyond: any order, at most one holder per copy, lost or
  redelivered on death.

## 6. What is left

1. Larger instances of `Safety` (two containers, two kills) need more than the few
   minutes a run should take; the proofs cover them.
2. The redelivery of a message that is still held would replace `Ack` by an entry
   that outlives the task; it would show which of the ownership properties need
   one holder per copy.
3. `StackBuild` as the refinement of the build steps of `ProvisionTask`, with
   `BuildBound` derived from `WaitBound` and a bound on the calls of the daemon.
