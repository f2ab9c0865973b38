# CanalClear in TLA+

CanalClear is a PostgreSQL-backed service in Go. Carriers declare voyages,
customs officers inspect and release them, dispatchers reserve lock chambers
for released voyages, lock operators record the passage; every request leaves
an event in a hash chain of its tenant, and an outbox worker publishes jobs that
some requests enqueue. This directory models the parts of it that are hard to
test: what overlapping transactions, dying workers, late answers, cancelled
contexts, readers between two writes and boundary cases of the arithmetic can do.

Contents: [the system](#the-system), [the modules](#the-modules),
[the runs](#the-runs), [disagreements](#where-the-repository-and-its-code-disagree),
[bounds](#bounds), [fairness](#fairness), [the proofs](#the-proofs),
[what is not modelled](#what-is-not-modelled), [plan](#plan).

## The system

| Part | State | Operations | What makes it hard, what makes it correct |
|---|---|---|---|
| Workflow (`store/workflow.go`, `store/passage_operations.go`, `store/database.go`) | tables `voyages` (with `manifests`), `inspections`, `passage_reservations`, `passage_movements`, `audit_events`, `outbox_jobs` | DeclareVoyage, OpenInspection, PassInspectionAndRelease, ReservePassage, MovePassage, each one transaction | Concurrent requests decide on stale snapshots. A chamber is promised once; release needs passed inspections; a voyage is booked once; rows, audit events and jobs appear together. |
| Domain rules (`clearance/model.go`, `passage/model.go`, `passage/operations.go`, `audit/chain.go`) | none: functions on rows | Declare, OpenInspection, CloseInspection, Release, Transition; Reserve, Confirm, Enter, Exit, Cancel; Append | Called by the workflow in a fixed order; half of them compare no times or do not consult the transition table. |
| Outbox (`worker/outbox.go`, `policy.go`, `recovery.go`) | table `outbox_jobs`, the batch in a worker's memory | claim, publish, look up attempts, write the fate; recover expired locks; delete delivered jobs | Every statement is a transaction of its own; workers die and come back late. At-least-once delivery, a retry limit, no job lost. |
| Idempotent declarations (`service/coordinator.go`, `idempotency/record.go`, `store/idempotency.go`) | table `idempotency_records`, the record in a call's memory | Begin, declare, Complete, Fail; Restart of stale or failed records | Calls with one key overlap, overtake stale ones, die, outlive the record. One owner, no false or withdrawn answer. |
| Worker pool (`notification/dispatcher.go`, `service/batch.go`) | a channel, a slice of results, a wait group | hand out, do, record, cancel, return | A slice written without a lock while the context is cancelled. True report, always returns. |
| Scheduling (`domain/timewindow.go`, `passage/schedule.go`, `NextAvailable`, `ChamberUtilization`) | none: functions on reservations | merge and subtract windows, available windows, ranking, next available time | Windows that touch, nest or reach over the day. Nothing offered that cannot be booked, no room hidden. |
| Sessions (`auth`, `store/auth.go`, `store/session_lifecycle.go`, `worker/session_reaper.go`) | table `sessions`, `users` | login, authenticate, logout, list and revoke, refresh, reap | Every request works with a clock reading that may be stale, and with statements that others come between. Who is out stays out, no request loses its session, dead sessions go. |
| Customs client (`service/customs.go`, `customs/client.go`, `customs/retry.go`) | the attempt and pause of a call | submit, retry, pause, cancel | The gateway decides and the answer is lost; a retry meets itself; the backoff is a shift. A result tells the truth about the decision, nothing goes out after the end, every call returns. |
| Queries and reports (`store/query.go`, `store/audit_query.go`, `domain/pagination.go`, `service/reporting.go`, `service/eligibility.go`, `httpapi/read_handlers.go`) | a cursor, the rows read so far | list page by page, eligibility, overview, verify the chain | Requests commit between two pages and between the statements of one answer. No row twice or lost, every answer true at some instant. |
| Passage queue (`passage/queue.go`) | a queue the caller keeps | order, promote a standby vessel | A place that becomes free goes to the first standby vessel that can still make its window. |
| Manifests and timelines (`clearance/manifest.go`, `clearance/timeline.go`) | none: functions on values | build, amend, compare; replay | A comparison is an amendment; the audit trail tells the voyage. |
| Routing, inspection policy, compliance, redaction, configuration | none | matching, scores and text on single values | Not modelled. |

How they interact. The HTTP server calls the workflow directly; the coordinator,
with idempotency and batches, wraps the same workflow behind an adapter but has
no route. The workflow and the outbox worker share the table `outbox_jobs` and
nothing else. Queries and reports read the workflow's tables without a
transaction. The customs client, the passage queue, manifest amendment and
timelines are library code without a route. `cmd/server` starts the outbox worker and the session reaper;
nothing starts `Recovery`. A request's instant is read by the HTTP handler, or
sent by the caller, before its transaction begins.

## The modules

| Module | Models | Notes |
|---|---|---|
| `AtomicWorkflow` | what the workflow promises: each request at one instant | The tables are the variables. The rules of the domain packages come in pairs: `XxxOK` is "returns no error", `Xxx` is the row returned. `Can...` collects the checks of a request up to its audit event, `Write...` is everything its transaction writes, a request is both. A request that fails writes nothing and is no step. |
| `Workflow` | the same requests as database transactions | `Begin...` reads a snapshot and decides, `Commit...` applies the writes if PostgreSQL lets every statement through, `Abort` is any other end. Extends `AtomicWorkflow` and implements it. |
| `MovementHistory` | `ValidateMovementHistory` over what MovePassage can record | Extends `AtomicWorkflow`. |
| `Outbox` | claim, publish, lookup, fate, recovery, cleanup | One step per statement. `Spec` is the whole package at work, `FairSpec` adds fairness, `ServerSpec` is what `cmd/server` starts. |
| `Idempotency` | `Coordinator.Declare` with a key | One step per statement or transaction; a client's retry is another call. |
| `WorkerPool` | the goroutines of `Dispatch` and `DeclareBatch` | The two functions are the same program around another task. |
| `Schedule` | window arithmetic and slot search | The state is what is booked; the algorithms are operators on it, compared with what "free" means. |
| `Delivery` | what the outbox promises: publication, fate, allowance | Abstract: no workers, statements, locks or clocks. `Outbox` implements it through the mapping `D`. |
| `VoyageTimeline` | `ReconstructTimeline` over the audit trail of a voyage | Extends `MovementHistory`, so that one run checks both. |
| `Queries` | lists, reports and verification by one reader, between the requests of `AtomicWorkflow` | Extends `AtomicWorkflow`: a `Request` is one of its steps. |
| `Customs` | `CustomsSubmission`, `RetryingGateway` and `HTTPClient` against a gateway | The gateway's steps are external. |
| `PassageQueue`, `Manifests` | the algorithms on a queue and a manifest that the caller keeps | The state is the caller's value, the steps are its calls. |
| `Ordering` | what `sort.Slice` and ORDER BY make of a set that the order tells apart | Used where rows, windows or entries are listed: `MovementHistory`, `VoyageTimeline`, `Queries`, `Schedule`, `PassageQueue`. |
| `WorkflowProofs`, `OutboxProofs`, `SessionsProofs`, `CustomsProofs` | the theorems on the modules they are named after, `WorkflowProofs` also those on `AtomicWorkflow` | See [The proofs](#the-proofs). |
| `ServiceProofs` | the theorems on `Idempotency` and `WorkerPool`, which the coordinator uses | |
| `ReaderProofs` | the theorems on the three modules that read the tables back: `MovementHistory`, `VoyageTimeline` and `Queries` | |
| `PlanningProofs` | the theorems on `Schedule`, `PassageQueue` and `Manifests` | |
| `OrderingProofs` | lemmas on numbers, folds and ordered lists that the last two rest on | |
| `Sessions` | login, the authenticating middleware, logout, the session limit, the refresh policy and the reaper | One step per statement. `ended` and `barred` remember what had happened before a request came in. |
| `MC...` | constants and symmetry sets for TLC | `MCSchedule` explores `Schedule`, `PassageQueue` and `Manifests` side by side, each while the others are in their initial state. `MCOutgoing` explores `WorkerPool` and, from one of the states in which the pool has returned, `Customs`; the two share no state. So that they can be extended together, the specifications of these three and those of `WorkerPool` and `Queries` have names of their own: `ScheduleSpec`, `QueueSpec`, `ManifestSpec`, `PoolSpec`, `ReaderSpec`. |

Which definition stands for which lines is listed in `PROJECT.json` under `map`.
Definitions marked "Fault" are plausible bugs in the code that the next
definition models. No specification uses them; put in the place of the
definition they must break a property, which `PROJECT.json` lists under
`mutants`: a property that no fault could break would say nothing.

### Abstractions of the workflow

* Times are natural numbers, 0 is Go's zero time. Requests carry any time, in
  any order, since handlers read the clock before the transaction.
* Texts, dimensions and the contents of a manifest are left out: what matters is
  that there is a manifest. Vessels fit the chambers they ask for.
* The maintenance of a chamber is a constant. In the code the caller hands the
  chamber over with its maintenance, and `httpapi/server.go:175` hands over none.
* An event's id is the key of its table and stands for its hash, so the link to
  the predecessor is the predecessor's id. The id `audit-release-v` is the tuple
  `<<"release", v>>`.
* Of PostgreSQL's SERIALIZABLE transactions `Workflow` uses only two things: a
  row read `FOR UPDATE` that has changed since the snapshot makes the statement
  fail, and keys, UNIQUE and EXCLUDE constraints hold against what is committed.
  The predicate locks of the isolation level can only turn a commit into an
  abort, which `Abort` allows at any time. Everything shown therefore also
  holds of snapshot isolation.
* The advisory lock in `appendAuditTx` is taken inside the transaction, whose
  snapshot is older; it orders the waiting but protects nothing, so it is not
  modelled.

### Abstractions of the others

* `Outbox`: time is relative (how long a job has to wait, how old a lock and a
  batch are) and `Tick` ages everything. `RunOnce` reads the clock once and
  claims later, which is the parameter `lag`. A claimed batch comes back in no
  particular order. The entropy 0.5 cancels the jitter of the backoff.
* `Idempotency`: a command stands for its fingerprint. `BeginIdempotent` is one
  step: its row lock or, for a row that does not exist, the write conflict on the
  key under SERIALIZABLE makes the loser of a race fail, which is `Die`. A commit
  whose acknowledgement is lost is an error to the call, which then fails its
  record although the voyage is declared (`DeclareCommits`).
* `WorkerPool`: a task takes effect and is recorded in two steps, since the
  caller may be cancelled in between. A task may take effect and still fail: a
  declaration commits, and completing its idempotency record does not. A fresh
  worker waits for its first index.
* `Schedule`: days have equal length and there is one time zone. The planning
  horizon of `RankSlotCandidates` only refuses requests and is left out, and so is
  its last step, which sorts the candidates of the chambers by start: here they are
  a set, one for each chamber. The
  utilization is the occupied time, not its quotient by the window.
* `Outbox`: which text a worker writes into `locked_by` is chosen at the start
  and never changes (`id`): the process id, or the 1 of a container. An error of
  the publisher is taken to mean that nothing was published; a publisher that
  publishes and returns an error would make one duplicate more for each retry.
* `Sessions`: a token stands for its session, and a wrong password or an unknown
  token is a refusal that changes nothing, hence no step. A clock reading and the
  SELECT after it are one step where what comes between them could as well come
  before or after both. The reaper's reading is any earlier time, since more than
  one server may run one. Limiting sessions (list, choose, revoke) and refreshing
  are library functions without a caller; the first is modelled as a request
  that makes the three calls, the second as operators on every stored session.
  Disabling a user is external, and final.
* `Queries`: every statement reads the tables at one instant (READ COMMITTED on
  a pool connection). A row is its place: sort time and id, where the ids of
  events sort as their texts do. A cursor is the place it encodes; one that does
  not decode is refused. Of the filters the status is kept; the others are
  conditions on columns that never change. A row whose status changes may leave
  a filtered list, which `stayed` accounts for. The hash of an event can be
  recomputed from its row unless the column has cut digits off; for which events
  it has is open (`cut`), as it depends on the clock alone. `stayed`, `missed`, `breaks` and `truths` are history variables.
* `Customs`: lengths of time are signed integers of `Width` bits, so that the
  shift overflows as in Go. A broken connection, an undecodable body and any
  status outside 2xx that has no meaning of its own are one error, which is
  retried; a timeout of the HTTP client counts as a deadline exceeded and is
  not. The gateway decides once per voyage and may answer with anything
  afterwards; a request may arrive after its call has returned.
* `PassageQueue`: an entry's priority is one of the four; any other is refused
  like an incomplete one. Ids are unique, so the sort need not be stable, and what
  is arranged is the set of the entries.
* `Manifests`: a manifest is sorted by container and hashed in this order, so it
  is a function from container numbers. Trimming and upper case are the constant
  function `Canonical`; the number that trims to nothing is `NoNumber`. There are
  two manifests, each built and amended on its own, so that a comparison meets
  every pair of them.
* `VoyageTimeline`: the version of an event is its position in the trail; the
  draft, of which the workflow keeps no event, carries the time of declaration.

## The runs

`tlc -config <cfg> <module>` for each. Deadlock is not checked anywhere: ids are
finite, so a workflow ends when all are used; an outbox with settled jobs only
lets time pass up to the horizon of its ages; calls, pools and schedules come to
an end by design. That something does happen is stated by liveness properties.

| Run | Module, cfg | Distinct states | Shows |
|---|---|---|---|
| `atomic` | MCAtomicWorkflow, MCAtomicWorkflow | 137,362 | Two tenants, all orders and times of the five requests. |
| `transactions` | MCWorkflow, MCWorkflow | 83,501 | Two transactions at a time, from the empty database, on one chamber. |
| `outbox` | MCOutbox, MCOutbox | 1,305,014 | Two workers with ids of their own or the same one, two jobs, recovery, a lost or late batch. |
| `outbox_live` | MCOutbox, MCOutboxLive | 362,623 | Every job settles. |
| `idempotency` | MCIdempotency, MCIdempotency | 411,136 | Four calls, one key, two bodies of one voyage. |
| `outgoing` | MCOutgoing, MCOutgoing | 314,689 | Four tasks, three workers, a context cancelled at any time; then two submissions of one voyage under three retry policies. |
| `sessions` | MCSessions, MCSessions | 494,704 | Two requests, two sessions of a user, the reaper. |
| `schedule` | MCSchedule, MCSchedule | 11,379 | All schedules of two bookings in two chambers on two days; all queues of three vessels; all pairs of manifests over four container numbers. |
| `queries` | MCQueries, MCQueries | 613,554 | One reader beside up to six requests of two tenants. |
| `server_without_recovery` | MCOutbox, MCOutboxServer | violation | A job locked for ever. |
| `audit_verification` | MCQueries, MCAuditVerification | violation | An untouched chain that does not verify. |
| `next_available` | MCSchedule, MCNextAvailable | violation | A next available slot that is booked. |

What the properties say:

* `ChamberExclusive`, `ReleaseGated`, `OneBooking`, `AuditChain`: the four safety
  invariants of the workflow, also proved. `AuditChain` is unique and contiguous
  sequences, links to the predecessor, and times that never run backwards.
* `AuditMatchesTables`, `OutboxMatchesTables`: the events, and the jobs that
  announce declarations and releases, are exactly the ones that the rows call for,
  in the owning tenant's name. Of jobs for other workflows the second says nothing,
  see below.
* `MovementsMatchStatus`, `TimelineReplays`: exit after entry; and the audit trail
  of a voyage, replayed by `ReconstructTimeline`, is in the order of time, obeys
  the transition table and ends in the status and the version of the row. The
  rules compare only some of these times; what keeps the others in order is that
  all of them pass through one audit chain per tenant.
* `EntryInOwnWindow`: a vessel enters inside the window of another reservation
  only in the 15 minutes before its own, whatever was reserved or cancelled since.
* `TransitionsAllowed`: every write of a voyage is a step of the transition
  table, also where the code does not consult it.
* `HistoryReplays`: the validation of a history accepts what was recorded, if and
  only if the slot was not cancelled more than 15 minutes before its start.
* `Serializable`: a commit is a whole request of `AtomicWorkflow` at that moment.
* `DeliveryPromise`, `AttemptsBounded`, `EveryJobSettles`: `Outbox` implements
  `Delivery`, that is at-least-once delivery whose duplicates are each paid for by
  a recovery, and a fate that no late worker can overwrite; the retry limit is met
  exactly; every job settles. With a shared worker id `AttemptsBounded` does not
  hold: a late worker counts the attempt of another claim, and a job can be put
  back with its attempts used up. It is stated for workers that have ids of their
  own; `DeliveryPromise` holds in both cases.
* `OneOwner`, `AnswersTrue`, `RecordGuarded`: at most one call can write a record's
  outcome, what a key answers is true, and a living record is neither withdrawn
  nor taken over before it is stale.
* `ReportTrue`, `SliceNeedsNoLock`, `CallReturns`: the pool returns, and each task
  has a result that its one worker wrote; what is reported as sent took effect,
  what is reported as cancelled was never handed out. Of a task reported as an
  error it is open whether it took effect, as it is in the code.
* `BarredStaysOut`, `SessionOutlivesRequest`, `LimitLeavesRoom`,
  `RefreshBounded`, `DeadSessionsReaped`: a session that was
  ended, or whose user was disabled, before a request came in admits it no more,
  also if the session was inserted after the user was disabled; the reaper spares
  the session of every request in flight; the limit leaves room for one login among the sessions that were listed; a refresh
  stays in the absolute lifetime; dead sessions go unless the reaper has stopped.
* `AvailableExact`, `RankedFirst`, `UtilizationExact`, `NextAvailableFirst`: the
  searches return exactly the room there is, and the first of it, and the
  utilization counts each instant once. `NextAvailableFirst` says so of
  `NextAvailable` where maintenance does not come in; where it does, see below.
* `PromotionFair`, `AmendRoundTrip`: a cancellation costs nobody else a place, and
  promotes one vessel whenever there is a standby vessel that can still make its
  window: of all these the first by start, then by request, and past nobody of a
  higher priority. What `CompareManifests` reports of any two manifests is the
  amendment that leads from one to the other, exactly if all container numbers it
  names are trimmed and in upper case; if one is not, `AmendManifest` refuses the
  report or makes something else of it.
* `WalkExact`, `AnswerWasTrue`, `VerifiesUnlessCut`: a walk over all pages shows no row twice and every
  row that matched all along; of events recorded meanwhile it can miss only those
  of the very instant at which a page ended. A report from three statements was
  true at some instant of its request. The verification of a chain has no other
  reason to fail than digits that the column cut off.
* `ResultMeans`, `PausesBounded`, `StopsSending`, `SubmissionReturns`: a decision
  that is returned is the gateway's; a conflict on the first attempt is somebody
  else's, later ones may be the call's own lost answer; pauses are bounded, and
  positive for as long as the shift does not overflow; nothing is sent after the
  context is done; every submission returns.

## Where the repository and its code disagree

* `LocksReleased`, violated under `ServerSpec`. The README says the worker
  "recovers expired worker locks"; `cmd/server` never calls `RecoverExpiredLocks`
  and a claim takes no running job, so a batch whose worker died stays locked.
* `UntouchedVerifies`, violated. The hash of an event covers its instant as the
  request carries it, with nanoseconds; the column keeps microseconds, and
  `VerifyAuditChain` recomputes the hash from the row. Unless the clock happens to
  read whole microseconds the chain of an untouched database does not verify.
* `NextAvailableSkips`, violated. After maintenance the time returned may be booked:
  `NextAvailable` jumps to the end of the maintenance after its pass over the
  reservations and does not look at them again, against what
  `TestNextAvailableSkipsBusyAndMaintenance` says of it.

One more shows in the source and needs no model: the README says that every connected
workflow writes a reliable outbox event, but only declaration (`workflow.go:57`) and
release (`workflow.go:134`) enqueue a job, and the integration test
(`database_integration_test.go:122`) counts two after four requests. `OutboxMatchesTables`
is about the jobs of those two workflows only and takes no side on the others.

## Bounds

* `atomic`: two of everything, because each safety property is about two rows,
  two events or two tenants. Requests happen at instants up to `MaxTime` and book
  windows up to `MaxWindow`, so that there is a window far enough ahead for an
  early entry, a late exit and an early cancellation; chamber c2 has a
  maintenance window. Ids are interchangeable, so permuting them is a sound
  symmetry; chambers are not permuted because of the maintenance.
* `transactions`: two open transactions, since a conflict has two sides; two
  instants suffice for times out of order, and one chamber for two windows that
  overlap, touch or coincide.
* `Outbox`: `MaxFaults` counts the batches that are lost or outlive their lock.
  Two attempts, a lock timeout of one unit and a backoff of one and two units
  make limit, expiry and backoff all happen. Ages stop at a horizon beyond which
  none makes a difference. With one fault two workers meet on a recovered job.
* `Idempotency`: four calls are an owner, one that overtakes it, one that comes
  after expiry and one with another body; the clock passes both limits.
* `Sessions`: two sessions against a limit of two, so that one has to go; a batch
  of one, so that the reaper needs two runs; the clock passes expiry and
  retention of the sessions created first. `MaxInFlight` is an assumption, not
  only a bound: a request ends within half the retention, 15 of the 30 days that
  `cmd/server` keeps sessions. `SessionOutlivesRequest` needs it, because a stale
  revocation and a stale authentication each cost a request's length.
* `Schedule`: slots of length one and two, a buffer of two and days of eight
  make bookings that touch, nest, overlap with their buffers, reach over the end
  of the day, and leave gaps of exactly the duration.
* `PassageQueue`: three vessels are the cancelled one, the promoted one and one
  that is passed over or overtakes; seven offers differ in every component of the
  sort key, and one is invalid. `Manifests`: one container written in two ways and
  another one, and a number that is empty; three items of which one is incomplete,
  amendments of one and two changes.
* `queries`: `MaxEvents` is six, enough to release and reserve one voyage and to
  declare two others that share their arrival; the default page has one row, so
  that walks take up to six pages, and one limit is refused. A verification meets
  every set of cut events.
* `outgoing`: four tasks for three workers, so that a worker takes a second one and
  the caller waits for a receiver; the last task has no sender. The submissions start
  where the pool returned from a call that was not cancelled, since more such states
  would only repeat them. A second submission makes conflicts that are somebody else's; the policies
  are the default, one whose second pause overflows three bits, and one whose
  maximum is below its backoff. Decisions accepted and rejected stand for the
  three, which the code treats alike once validated.

## Fairness

* `Outbox!FairSpec`: weak fairness of `Tick` (time passes), of each worker's
  `Work` (its goroutine is woken by a ticker for ever and its statements
  return) and of `RecoverExpiredLocks` (somebody runs it again and again).
  The number of faults is finite. `ServerSpec` has the first two only, as the
  server does. Nothing makes the publisher succeed: a job may also end as failed.
* `WorkerPool!PoolSpec`: weak fairness of the caller and of each worker: goroutines
  that can run do run, and every task ends, with an error if need be. Nothing
  makes the context be cancelled.
* `Sessions!Spec`: weak fairness of every request's next step (handlers do not
  hang), of the reaper's run with a current clock (its ticker fires until it
  ends), and of `Tick`. Nothing makes a request start or the reaper fail.
* `Customs!Spec`: weak fairness of a call's own step: timers fire, and an attempt
  ends at the latest with the timeout that `HTTPClient` sets itself. Nothing makes
  the gateway answer, a connection break or a context end. With a client of the
  caller's own that has no timeout `SubmissionReturns` would not hold.

## The proofs

For every value of the constants that satisfies the assumptions, that is for any
number of tenants, ids, chambers, concurrent requests, jobs, workers, calls,
sessions, bookings, queued vessels and containers. The assumptions are named, stand in the module that declares the
constants, and are evaluated by TLC in the runs:

| Assumption | Says | Why it holds of the code |
|---|---|---|
| `AtomicWorkflow!TimeAssumption`, `MaintenanceAssumption` | times are natural numbers, maintenance is a set of windows per chamber | types |
| `Outbox!PolicyAssumption` | the retry policy passes `RetryPolicy.Validate` | `RunOnce` replaces an invalid one by the default |
| `Outbox!WorkerAssumption` | finitely many workers, and no worker id is the text of an unlocked row | `RunOnce` makes up an id where there is none |
| `Idempotency!CommandAssumption`, `ClockAssumption`, `NoneAssumption` | a command names a voyage; the lifetimes are natural numbers; no command is the lack of one | types |
| `WorkerPool!PoolAssumption` | there is a task and a worker | `DeclareBatch` refuses an empty batch and raises the concurrency to one |
| `Sessions!SessionPolicyAssumption` | the policy passes `SessionPolicy.Validate`; ids are finite; there is a user | `Bootstrap` inserts one |
| `Sessions!RetentionAssumption` | the retention is at least twice the time a request may take | 30 days in `cmd/server` |
| `Queries!QueriesAssumption` | ids are numbers, as their texts sort; an arrival is a time; page sizes are positive | types and constants of `pagination.go` |
| `Schedule!ScheduleAssumption` | the policy passes `SchedulePolicy.Validate`; numbers are numbers; the vessel fits chambers that exist; reservations and maintenance windows are finitely many, and the latter end after they begin | `AvailableWindows` refuses an invalid policy, and a maintenance that `NewTimeWindow` refuses (`NextAvailableIsFirst` does not use this part); a list is finite |
| `PassageQueue!QueueAssumption` | an entry has the fields of `QueueEntry` and one of the four priorities; ids and times are numbers | types |
| `Manifests!ManifestsAssumption` | finitely many ways to write a container; the canonical one is canonical; no item is the lack of one | `strings.ToUpper` of what is trimmed changes nothing the second time |
| `Customs!CustomsAssumption`, `DecisionsAssumption` | the default policy is positive, the configured one is arbitrary; a decision is not an error | constants in `retry.go`; types |

Every invariant below is inductive: the initial states satisfy it, every action
preserves it (one lemma per action, with one step per conjunct it can disturb),
and it implies the property. The invariants are conjunctions of named parts, and
what each part is for is said here and above its definition.

### The workflow

`WorkflowProofs`, first on `AtomicWorkflow`: `AtomicTypeCorrect` (`TypeOK`) and `AtomicSafe`, the
invariant `TablesInv`, which is `TypeOK`, `ChamberExclusive`, `ReleaseGated`,
`OneBooking` and `AuditChain`. It is inductive as a whole but not in parts: that a
voyage is booked once needs that a reservation implies "scheduled", and that the
chain has no gap needs that its sequences are unique. For each request there is a
lemma on the rows that its rules return, one on its effect on the tables
(`...Effect`), and for each conjunct one step lemma with a case per request.

Then on the records, that they tell the tables: `OutboxExact`
(`OutboxMatchesTables`), `AuditExact` (`AuditMatchesTables`), `MovementsExact`
(`MovementsMatchStatus`), `EntriesInOwnWindow` (`EntryInOwnWindow`) and
`VoyagesFollowTransitionTable` (`TransitionsAllowed`). The invariant is
`RecordsInv`: `TablesInv`, the two matches, and `MovementsInv`. The events and the
jobs are sets built from the rows, so every request has to show that it adds what
the new row calls for and that what earlier rows called for is unchanged. Movements
need more: that the exit follows the entry is not checked by `passage.Exit`, but
both times are those of events of one chain (`MovementsAudited`), and the chain is
ordered in time. `EntryInOwnWindow` follows from `EntriesTimely`, that an entry is
inside its own window or the lead before it, and from `ChamberExclusive`.

Last, on `Workflow`, the same for overlapping transactions.
`WorkflowImplementsAtomic` (`Spec => AtomicSpec`, the tables mapped to themselves)
and its step part `WorkflowSerializable` (`Serializable`); by it
`ChamberNeverDoubleBooked`, `AuditChainNeverForks`, `ReleaseStaysGated`,
`BookedOnce`, `RecordsTellTheTables` and `VoyagesStayOnTable`; and
`WorkflowTypeCorrect`.

The argument of the refinement. An open transaction carries the rows it read and
what it decided on them (`TxInv`); that is a fact about those rows, so what others
commit cannot change it. At its commit the rows read `FOR UPDATE` are unchanged.
The predecessor it read is still in the table; if the next sequence is free
(UNIQUE), then, because the chain has no gaps, that predecessor is still the
tenant's last event (`StillLast`). So within a tenant that one constraint makes
everything serial. Between tenants only the chambers are shared: the list of
reservations read from the snapshot may be stale, but the EXCLUDE constraint says
of the committed rows what the list was read for. The list of inspections is read
without a lock; it is still the same because a voyage has at most one inspection
(`ReleaseGated`). Every commit is therefore a request of `AtomicWorkflow`, and its
invariants carry over.

### The outbox

`OutboxProofs`: `OutboxTypeCorrect`, `AttemptsNeverExceeded` (`AttemptsBounded`)
and `OutboxImplementsDelivery` (`DeliveryPromise`, a refinement). That duplicates
are paid for by recoveries is no invariant by itself. The strengthening
`PublicationsBounded` counts chances: the publications of a job, the workers that
carry it in memory (`Carriers`), and one more while the row can be claimed
(`Spare`) are together at most one more than its recoveries. A claim moves the
chance from the row to a worker, a publication spends it, a failure gives it back
to the row if the lock is still held and loses it otherwise; only recovery makes
a new one. That the fate is final rests on `LocksRunning`: the UPDATEs ask for
`locked_by`, and only a running job has one. The retry limit needs `Counted`: what
a worker decided from its lookup is still right if it still holds the job, which
is true of workers with ids of their own only.

### Idempotent declarations

`ServiceProofs`: `RecordHasOneOwner` (`OneOwner`), `DeclareAnswersTrue`
(`AnswersTrue`), `LiveRecordGuarded` (`RecordGuarded`). The version of a record
only grows. So a call whose stored version is the record's has not been overtaken
(`Stored`), no two calls at work have stored the same one (`VersionsApart`), and
the conditional UPDATE lets one of them through. `CompletedTrue`, `MadeTrue` and
`MadeOnce` link what records and calls say to the declared voyages.

### The worker pool

`ServiceProofs`: `ReportIsTrue` (`ReportTrue`), `SliceIsUnshared`
(`SliceNeedsNoLock`), for any number of tasks and goroutines. A task below the
index has its result or is with exactly one worker (`Accounted`, `WorkersApart`),
and it has taken effect if its result, or the one its worker is about to write, is
"sent"; what has taken effect was handed out (`EffectsKnown`).

### Sessions

`SessionsProofs`: `SessionsTypeCorrect`, `BarredNeverAdmitted` (`BarredStaysOut`),
`AdmittedKeepsSession` (`SessionOutlivesRequest`), `LimitMakesRoom`
(`LimitLeavesRoom`), `RefreshStaysBounded` (`RefreshBounded`). Rows change in one direction only (`RowStep`): so what a
request has learnt stays true while others write. `Recent` and `TokenInv` bound
how stale a revocation can be that an admitted request does not know of; the
reaper's cutoff is further back by `RetentionAssumption`. `LimitInv` keeps what the
listing knew until the UPDATE. That the selection leaves exactly `MaximumActive - 1`
sessions is a counting argument: the rank by age and id is a bijection from the
listed sessions to `1 .. n` (`SelectionExact`).

### The customs client

`CustomsProofs`: `ResultsAreMeant` (`ResultMeans`), `SendingStops`
(`StopsSending`), for any calls, voyages, retry policy, losses and delays. A
request is on the wire or has been answered, not both (`WireInv`, `Meant`), and an
answer is what the gateway knows, which never changes once it has decided. A
conflict with oneself on the first attempt is excluded by `Own`: a call whose own
request was decided on has nothing more on the wire in that attempt, and heard
something other than a conflict, or nothing. `PausesAreBounded` (`PausesBounded`)
is arithmetic of the shift: a power of two is the number of subsets of a set, so it
is positive and grows (`PowerOfTwo`), and what fits into `Width` bits is not changed
by them (`WrapFits`).

### Readers

`ReaderProofs`: what is read back from the tables, for any number of tenants, rows,
pages and requests in between.

* `HistoriesReplay` (`HistoryReplays`). A reservation has no movement, a
  cancellation, an entry, or an entry and an exit (`MovementsExact`); in each case the
  ordered list is known (`MovementOrder`) and the replay ends as it should.
* `TimelinesReplay` (`TimelineReplays`). The inductive invariant `TimelineInv` says
  that the trail of a voyage is a list of its stages, in the order of the chain and
  of time (`TrailIs`): every request either leaves a trail alone or adds the next
  stage as the tenant's newest event (`TrailsStep`). The fold of `AppendTimeline` over
  such a list takes every event (`TimelineFold`).
* `WalksExact` (`WalkExact`). The invariant `WalkInv`: the rows shown so far are in
  order and lie at or before the cursor; every row that stayed since the first page and
  lies before the cursor has been shown, and an event that was not shown bears the
  instant of a page break (`Reached`). A page is the first rows behind the cursor
  (`PageShows`), so taking one moves the cursor over nothing (`PageAdds`); a request
  may add rows on both sides, and what it adds before the cursor of the audit trail is
  of the tenant's latest instant or later (`WatchReaches`).
* `AnswersWereTrue` (`AnswerWasTrue`), whatever the clock reads. The invariant `ReportInv` relates what the reader holds to the truths since it began; that
  a released voyage's inspections stay as they are (`ReleasedStays`) and that a
  reservation stays makes the mixture of three instants true at one of them.
* `ChainsVerify` (`VerifiesUnlessCut`). `AuditChain` makes the ordered list of a
  tenant's events a chain (`ChainVerifies`), so only a cut event can fail.

### Planning

`PlanningProofs`: the algorithms on what is booked, queued or filed, whatever that
is. What the specifications contribute is the types (`ScheduleTypeCorrect`,
`QueueTypeCorrect`, `ManifestTypeCorrect`): bookings are proper windows inside the
calendar, no id is twice in a queue, and a manifest is one that `BuildManifest`
accepts. The rest is about the algorithms, which are folds; each has an invariant of
what the first `k` elements have led to.

* `AvailabilityIsExact` (`AvailableExact`). After `k` windows in order the merged ones
  do not touch, cover exactly the instants of the `k`, and the last begins no later
  than the `k`-th (`Merged`, `MergeStep`, `MergeExact`). After `k` merged windows
  what `SubtractWindows` has found is exactly the room that ends before the cursor,
  and the cursor is at the end of a window or of the base (`RoomUpTo`, `Skipped`,
  `SkipStep`, `SubtractExact`). A slot of positive length is in the way of a merged window
  exactly if it is of one of the windows merged (`MergedInTheWay`).
* `RankingIsFirst` (`RankedFirst`). Because the windows found are exact, in order and
  apart, the first that still holds the passage has the first start of its day
  (`FirstOfDay`); and the starts of an earlier day are earlier (`DaysInOrder`).
* `UtilizationIsExact` (`UtilizationExact`). Clipping keeps what a passage and the
  window share (`ClipExact`), merging keeps the instants covered, and the lengths of
  windows apart add up to the number of their instants (`SumExact`).
* `NextAvailableIsFirst` (`NextAvailableFirst`). After `k` reservations every start
  before the candidate meets one of them, and the candidate is behind them all or, once
  found, meets none of the list (`Passed`, `PassStep`). That there is such a candidate
  before the end of the calendar follows from the same invariant. If the maintenance
  does not meet it, it is the answer.
* `PromotionsAreFair` (`PromotionFair`), an action property. The five keys order the
  entries strictly, and totally because the last is the id (`PrecedesStrictly`), so
  the arranged queue is one list (`OrderedEntries`). The place promoted is the first
  eligible one, so every other eligible one stands behind it and is later by start, or by
  request at the same start; whoever is overtaken stands behind it too and is a
  standby vessel, since the rank is the first key.
* `ComparisonAmends` (`AmendRoundTrip`). If the containers are canonical, the changes are
  accepted and lead to the other manifest, container by container. If a container is
  not, the amendment does not touch it, because what it touches is canonical, and the
  two manifests differ there.

### Induction over data

`OrderingProofs`. The provers cannot instantiate the library's induction rule, which
takes an operator. Here a predicate on numbers is the *set* of the numbers that
satisfy it, so induction is a first-order fact (`Induction`, from the
well-foundedness of `<`). With it a fold over a sequence has a value for every length
(`FoldExists`, over a set of values the folded operation keeps to) and is computed
place by place (`FoldPrefix`). What `Ordered` lists is a counting argument: the number of
members below one is a bijection to `0 .. n - 1` (`PlaceExact`, `PlacesList`).

### Only model-checked

Liveness: `EveryJobSettles`, `CallReturns`, `DeadSessionsReaped`, `SubmissionReturns`.
Fairness and ENABLED are out of the prover's reach. All other properties of the passing
runs are theorems.

## What is not modelled

* Notification routing, inspection policy, compliance findings, manifest totals
  and risk, timeline durations, redaction, identifiers, configuration: functions
  of one value without state, order or time, which a table of unit tests reaches.
  No request calls the inspection policy or the compliance report.
* `Reporting.Summary`: counts and sorts what the modelled queries return, of the
  first 200 voyages of its window only.
* The other methods of the coordinator: they check arguments, fill in the time and
  call the workflow. Hashing of passwords and tokens.
* The hash function itself: hashes of different events differ.
* Whether a vessel is physically in the chamber: the code keeps no such state.
* HTTP decoding and encoding, request ids, headers, logging and panics.
* Retries of a failed transaction: `WithTx` makes none.

## Plan

1. Done: `AtomicWorkflow`, `Workflow`, `MovementHistory`, `VoyageTimeline`,
   `Outbox` and `Delivery`, `Idempotency`, `WorkerPool`, `Sessions`, `Customs`,
   `Queries`, `Schedule`, `PassageQueue`, `Manifests`, and the proofs of all their
   safety properties.
2. Left: `Reporting.Summary` over its window of 200 voyages, if it grows beyond
   counting; notification routing, if it comes to keep state.
