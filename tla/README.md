# Verification project of the automation backend

TLA+ models, TLC runs and TLAPS proofs of the parts of this backend whose
correctness depends on interleavings, crashes, lost messages and clocks. All
paths below are relative to `src/app` unless they start with `src/`.

## 1. The system

The backend is a FastAPI service with Celery workers. PostgreSQL is the only
authority; the Redis broker carries hints and Redis Streams fan events out.

| Component | State it keeps | Operations | Interacts with | Hard behaviour | What makes it correct |
|---|---|---|---|---|---|
| Durable job ledger (`shared/jobs`) | `durable_jobs`, `durable_job_idempotency_bindings` | reserve, claim, heartbeat, succeed, fail, retry, skip, reconcile, cleanup | every module that submits jobs, all executions, the sweeper | concurrent reservations, repeated messages, leases that expire while work goes on, dead workers | one job per key and active scope, one execution per attempt, final outcomes, every job resolved |
| Dispatcher and periodic tasks (`workers`) | messages in the broker | enqueue, `reconciliar_jobs` | ledger, Celery | broker outage, task killed half-way | what is lost is published again |
| Orders processing (`modules/pedidos/processing`) | header, frozen plan and checkpoint of each job; orders, standby counters | submit, claim, plan, apply chunk, finish, mark failure, lease keeper | ledger, order-state lock, ingestion, grade edits, realtime | crash between chunks, plan gone stale, lease lost in the middle, other writers between two attempts | orders agree with the checkpoint, no over-reservation, work only by the lease owner |
| E-mail communications (`modules/comunicacoes`) | communications, delivery outbox | POST, claim, send, record, reconcile | SMTP server, realtime outbox | crash after the server accepted, results that come late, repeated POSTs | one intention per key, no message accepted twice, every delivery resolved |
| Realtime (`modules/realtime`) | outbox, topic watermarks, read cursors, connections | record, relay, stream listener, replay, acknowledge, cleanup | all writers, Redis, browsers | overlapping commits, relay restarts, trimmed stream, full queues, handoff from replay to live | a client sees every event after its cursor or is told to resynchronise, but for three lapses (section 3), and no socket sees one twice |
| Ingestion (`modules/ingestao`, `workers/tasks/ingestao.py`) | photos of orders, ERP, stock, billing and references; read model; observed keys | collect, aggregate, publish, observe news, heartbeat | Databricks, order-state lock, ledger, realtime | two locks, five views read one after the other, success recorded apart from the publication | photos are whole, faithful and in order; news are told once |
| Order writes (`modules/pedidos/application`) | grades, versions, approvals, Linx rows | grade edit, batch edit, approval of orders and products | order-state lock, budgets, virtual stock | all-or-nothing batches, plans in progress | no piece taken twice, budget respected |
| Adequation engine (`modules/pedidos/domain`) | none (pure) | two passes, hole rule, budgets, apportionment | planning | zero quantities, rounding, competition for a budget | values kept, budget respected, most products served |
| Virtual stock (`repositorio_estoque_virtual.py`) | `estoque_virtual` | availability, recalculation | jobs, edits, ingestion | a derived copy of reservations and photo | agrees with both |
| Databricks client (`shared/infrastructure`) | one statement, its budget and deadline | submit, poll, collect, cancel | warehouse, ingestion | lost answers, truncation, links in a circle, deadline | the complete result or an error, unless a wrong page misled it |
| Authentication, parameters, HTTP infrastructure, health, configuration | small or none | | | refresh rotation, double review | not modelled, section 6 |

`PROJECT.json` lists every component with what is modelled of it, and the
hazards of the code with the line each bites at and the properties that would
notice it.

## 2. Modules

| Module | Models |
|---|---|
| `JobContract` | What a job promises: its phases, the attempt it is at and who holds it |
| `DurableJobs` | The ledger, the broker, executions and the sweeper; implements `JobContract` |
| `ReservationContract` | An atomic reservation: created, replayed, coalesced or refused |
| `JobReservation` | `reserve()` statement by statement under READ COMMITTED; implements `ReservationContract` |
| `OrdersProcessing` | Executions of processing jobs inside the session lock, with the other writers of the order state; implements `JobContract` too |
| `EmailDelivery` | POST requests, executions of the delivery task and the SMTP server |
| `Realtime` | Outbox, relay, stream, listener, sockets, browsers and cleanup |
| `AdequationEngine` | The pure rules of the engine, as operators on grades and snapshots |
| `Allocation` | Reservation orders over time: planning with the engine, applying, edits, approvals, new photos |
| `SourceRows` | Aggregation of the raw lines of the five views, as operators |
| `Ingestion` | The refresh job: claim, locks, reads, swap, news, outcome |
| `DatabricksClient` | One execution of a query against a provider that may fail in every way the code handles |
| `MC...` | Model values, the submissions of each instance, and symmetry |
| `AllocationProofs` | The theorems about `AdequationEngine` and `Allocation` |
| `DurableJobsProofs`, `JobReservationProofs`, `OrdersProcessingProofs`, `EmailDeliveryProofs`, `RealtimeProofs`, `IngestionProofs`, `DatabricksClientProofs` | The theorems about the module each is named after |

**DurableJobs.** One action is one committed transaction. `row` is the table,
`binding` the idempotency bindings, `broker` the set of job ids with a message
waiting (a set, because a repeated message differs in nothing), `run` what each
execution believes, `sweeper` the position of `reconciliar_jobs`. `now` is
`clock_timestamp()`, which the repository uses in every compare-and-set
instead of the clock of the worker. `Claim`, `Heartbeat`, `Succeed`, `Fail`
(also `skip`), `Retry`, `SweepReconcile`, `SweepList`, `SweepPublish` and
`SweepCleanup` are the methods of the repository and of the service;
`FOR UPDATE SKIP LOCKED` is the parameter `locked`. `LeaseLost`, `Crash`,
`LoseMessage` and `SweepCrash` are what can go wrong.

**JobReservation.** Every SQL statement of `reserve()` is an action, because
READ COMMITTED gives every statement a snapshot of its own. An `INSERT ... ON
CONFLICT DO NOTHING` waits for uncommitted conflicting rows: its guard. Uncommitted
jobs and bindings are visible to their own transaction only. Jobs finish, age
and are deleted meanwhile. `window` is a history variable: the active jobs a
request met while it ran, which is what the contract lets it coalesce with. The
error `durable_job_reservation_conflict_not_visible` is reachable: in the
instance two active jobs may finish, one after the other, between the
INSERT and the SELECT of a third request. The code answers with an error that
the caller may retry, and nothing is left behind.

**OrdersProcessing.** `orderLock` is the session-level advisory lock, `rowLock` the
row lock that the compare-and-set of an open transaction keeps until its
commit, `spec` header and plan, `order` the orders, `standby` the
consecutive executions a pair was deferred, `source` and `stock` the photo. The lease
is the flag `live` and the deadline the flag `late`: time may end either at any
moment, so no relation between durations is assumed. The engine chooses any set of
eligible pairs the stock can serve. `Refresh` and `EditGrade` are the other
writers, `KeeperLost` the heartbeat task, `Crash` and
`ServerDropsConnection` a dead process and the moment PostgreSQL notices.

**EmailDelivery.** A request names the communication it may create. Claim, the
conversation with the server and the recording are three actions, as the code
commits before it sends. `accepted` counts what the server took, which no table
knows. Overlapping executions, stale results and expired leases are
interleavings of `Reconcile`, `Send` and `Record`.

**Realtime.** A writer takes the global order lock and its topic rows, numbers its
event and commits; what it holds blocks the others, as the row and advisory locks do.
The relay is `Lead` (leader lock, head-of-line batch), `Publish`, `PublishFails` and `RelayCommit`; a crash
between them leaves entries that are published again. The stream keeps at least
`StreamLength` entries. The listener takes a batch, asks the outbox about a jump in the
sequences (`Lost`) and offers each event to the queue of each socket (`Offer`),
closing those whose queue is full. It starts as the code does, at `$` without a last sequence
(`Fresh`), or after it has read an entry (`Settled`). A socket that is to be closed is closed by a
task of its own (`Close`), and its handler may go on until then. A socket registers before it reads the watermark
and replays from the outbox; `client` is the browser, with the cursor it keeps across
sockets, the events it knows and, as history, those that went past its socket while nothing told it
(`overlooked`). The module has no process for Redis: a failed
call is an action of the caller.

**AdequationEngine and Allocation.** `Rest`, `Adequate`, `FirstPass`, `Fitted` and their
neighbours are the functions of `motor_adequacao.py`, `rateio.py`, `furo_de_grade.py`,
`politica_quantidade.py` and `orcamento_pedido.py`, over grades as functions and
money in cents. `Allocation` calls them as a job does: order by order, by
priority, against the stock that earlier orders leave; the plan is frozen with its reasons and
applied in one step, since `OrdersProcessing` has the chunks. `EditGrades` (one grade or several),
`ApproveOrder` and `ApproveProduct` are the use cases with their refusals; `NextDay` passes a day and `NewPhoto` is a new
photo of the stock. A version that does not match is a refusal without effect, so
versions are left out.

**SourceRows and Ingestion.** `SourceRows` turns the lines of a view into the table
the refresh writes, or refuses the view. In `Ingestion` the `world` moves
pairs from the open view to the ERP view while an execution reads one view after the
other (`Read`), so that a photo may mix instants. `Swap` is the publication with everything
inside its transaction, the rebuilt read model, the cleanup of standby rows and
the observation of news included. `TryLock`, `Claim`, `KeeperLost`, `Succeed` and `Transition` are
the job around it; the session lock lives as long as the connection of its
execution (`ServerDropsConnection`).

**DatabricksClient.** `server` is the list of statements the warehouse accepted,
`call` what the client knows. A request and its answer are one step, in which either may be
lost (`Again`, `Fails`), refused or malformed. Any page, the first included, carries its links to the
next page on itself or on its last chunk, and may be wrong (`Odd`): a link that leads
elsewhere (back to a page, past some, to itself) or nowhere, a chunk without its URL, no rows at all. `oddities`
bounds how many are, and the history `misled` says whether one had no link the client could notice,
that is, one to a page it has followed a link to. The pages are external: they are modelled from what the client reads of
them. `Expires` may happen wherever the client waits,
because one `asyncio.timeout_at` wraps the whole execution.

## 3. What is checked

| Run | Instance | Shows |
|---|---|---|
| `durable_jobs_attempts` | 1 job, 3 executions, 2 attempts, deadline after 6, lease of 2, 2 units, clock to 8 | valid rows, fencing, monotone progress, refinement of `JobContract` |
| `durable_jobs_retention` | 2 jobs, 1 execution, 3 submissions over 2 keys and 2 scopes, deadline after 2, sweep limit 1, retention of 1, clock to 4 | final outcomes, stable keys, every submitted job resolved |
| `job_reservation` | 4 requests: a repeated one, one that coalesces, one in conflict | refinement of the atomic reservation, no deadlock, every request ends |
| `orders_processing` | 2 jobs, 2 executions, 2 pairs in chunks of 1, stock of 1, 2 attempts | orders, checkpoint and ledger agree; no over-reservation; fencing; stale plans refused; standby counted once per job; refinement |
| `email_delivery` | 3 requests over 2 keys, 2 overlapping executions, 2 attempts, batches of 1 | one intention per key, no second acceptance, one story, every communication resolved |
| `realtime` | 2 writers, 2 topics, 2 events, 1 browser, 1 fault, stream, queue and replay of 1, the listener just started or settled | commit order, once per socket; outside the overlooked events no gap, and every event arrives |
| `allocation` | 2 orders, 3 products in 1 to 3 sizes, 3 snapshots of orders, 3 photos, 2 jobs, 1 edit, 1 new day, tolerance of 34 % | budgets, stock, values and derived rows agree; most products served; every pair explained |
| `ingestion` | 1 job of 2 attempts, 2 executions, 2 pairs, one with several sizes and one that is returned, a defect in either view, another writer | faithful photos in order, news told once, success only after publication, every refresh ends |
| `databricks_client` | results of 1 to 5 chunks, a budget of 4, 2 attempts, 2 polls, one wrong page or chunk | complete or error unless misled, one statement at a time, always an end |
| `allocation_plan_crash` | the instance of `allocation` | **violated**: a plan can fail on a product cut to nothing |
| `allocation_budget` | the same, with an edit between plan and application | **violated**: the budget is spent twice |
| `realtime_cold_start` | 2 events, 1 browser, no fault, stream, queue and replay of 2 | **violated**: the first reads of a listener leave a silent gap |

Every property has a mutant: an operator beside the original, marked
"Fault", that is the original with one plausible bug, under which the property
fails in the same run.

**The three violations.** *Plan crash.* `adequar_grade_produto` cuts a product whose only size
has no stock to zero pieces and still reserves it when the cut fits the budget of the order. The
apportionment then divides by a quantity of zero and the plan of the whole job
fails. `src/.planning/debug/or-zerada-na-tela-frontend.md` (lines 265 and 291-298) describes a guard against
exactly this as applied; the code does not have it. An order with one product of one size
without stock and another of 30 pieces suffices at a tolerance of 5 %.
*Budget.* The planner reads what an order has consumed when it freezes the plan.
The application checks source and stock again, but not the budget, so a grade edit in between
and the plan both spend the same rest. `casos_uso.py:350-353` says the lock closes
that window; it does for two edits.
*Cold start.* A listener starts with `last_id = "$"` and without a last sequence (`runtime.py:173-174`), and reads
from `$` until an entry comes. What is appended between two such reads is in neither, and the
entry after it is not compared with anything, since line 206 needs a last sequence. A browser that was connected
and past its replay never gets the event, and its cursor passes it with the next one. Lines 231-234 close the
sockets after a failure rather than keep "uma conexão aparentemente saudável com um gap silencioso". No fault is needed,
and two events suffice.

**Bounds.** `Horizon` ends the clock of `DurableJobs`, and a job is only submitted
when its deadline fits: deadlines, leases, retries and sweeps all
happen within it. Two attempts make both the attempt that is repeated and the one that
is the last; three executions are a stale one, the one that replaced it and one that
finds nothing to claim. Two pairs in chunks of one give a crash between two
chunks, two jobs the plan that another job made stale. A third submission is needed to reuse a key for other work, a fourth
reservation to lose two inserts in a row. A batch limit of one leaves rows over,
so that order and starvation matter. In `Realtime`, two events are one before and one after any
point, and a stream, a queue and a replay of one entry overflow with the second. In
`Allocation`, a tolerance of 34 % gives orders of four to eleven pieces a budget of one to
three, so that products compete for it; the second job and the edit meet what the
first job consumed. In `Ingestion`, a pair that moves between two reads and one that stays suffice for
a photo to lose one, and two executions for one to publish after the other. In
`DatabricksClient`, results of five chunks exceed the budget of four, and one wrong page is enough to repeat, skip or drop rows.
Symmetry is used for jobs, executions, workers, pairs, writers and topics only, in runs without liveness.

**Deadlock** is checked for reservations and e-mail delivery. The other
instances stop when their identifiers, days, faults or clock are used up.

**Fairness.** `DurableJobs`: time passes and the beat schedule starts a sweep again
and again; a row lock lasts for one transaction, so sweeps that find nothing
locked recur (strong fairness on the reconciliation). Nothing is assumed of
executions, submissions or the broker. `JobReservation`: a request keeps issuing its
statements. `EmailDelivery`: beat starts executions, not all of them die
before their first claim, and one that lives goes on because SMTP has a timeout;
nothing is assumed of the requests. `Realtime`: the loops of the runtime and the tasks of a socket go on,
transactions end, browsers reconnect, and faults are finitely many. `Ingestion`: an execution has a
time limit on everything it waits for, the deadline of the job passes and the sweep
recurs. `DatabricksClient`: the clock runs and both timeouts are served; the provider owes nothing.

**Assumptions worth knowing.**

- `OnlyOverlookedIsMissed` and `EveryEventArrivesOrIsOverlooked` assume nothing of the listener, but except
  what `overlooked` records, each where the code loses it without notice: an entry added between two
  reads from `$` (`runtime.py:173`); one trimmed before the first entry that follows a failure, since
  the last sequence was forgotten (206); and one offered to a full queue while the replay goes on
  (`connection_manager.py:123-138`): it counts as seen, the close is only scheduled, and the handler may skip
  its row, send `replay_complete` and so move the cursor past it before the close runs.
- `CompleteUnlessMisled` excepts what the client cannot notice. It refuses only a link it has followed
  before. The first page is not among those (`databricks_client.py:693-712`, 729-753), so a link
  back to it, its own included, returns its rows twice without an error (without `~misled`, TLC finds the rows
  `<<1, 1>>`). A link that skips pages, a page without a chunk and an answer without rows return fewer, because
  nothing is compared with the manifest. `src/docs/ingestao.md:67-68` says of cyclic chains of chunks that
  they fail closed ("falham fechados"): true of every cycle but those through the first page.
- A replay sends the rows of the outbox and then what its queue buffered; `docs/realtime.md:193-197`
  speaks of events in order, and a buffered event may be older than one replayed. The
  browser consolidates its cursor only at the end, so nothing is lost.
- Business transactions take their topic rows in different orders (`repository.py:152-163, 537-560`)
  and `cleanup_published` takes all of them (676-678): PostgreSQL may have to break a deadlock. The
  victim rolls back whole, so the model lets a writer wait and leaves the deadlock out.
- `TakesOnlyWhatIsLeft` excludes batches that edit a reservation older than the photo of the
  stock (`ChangesOnlyRecent`): `casos_uso.py:340-341` adds its old quantity to the capacity although the
  new photo no longer counts it, and such a batch may overbook a size.

## 4. What is proved

TLAPS checks every theorem below for every value of the constants that satisfies the
named assumptions of the module. Each component has a proof module of its own. In each, an
inductive invariant is proved first, with one lemma per action or
group of actions; the properties are consequences of it, of the action that it
enables, or of both. TLC evaluated each inductive invariant as an
invariant of the run of its component before it was proved (that of `Ingestion` without the
kinds of its tables, which TLC cannot compare with each other, that of `Allocation` with
its infinite sets of grades spelled out as conditions). All the safety properties that the
passing runs check are theorems.

**Ledger** (`DurableJobsProofs`)

| Theorem | States |
|---|---|
| `TypeCorrect` | the columns keep their ranges: no job is attempted more often than `MaxAttempts` |
| `ConstraintsHold` | no transition writes a row the CHECK constraints reject |
| `DeadlineIsRespected` | leases end by the deadline, retries start before it |
| `RowsAreAlwaysValid` | the three together: a row stays one that claim, retry and sweep can handle |
| `LeaseIsFenced`, `OneExecutionPerAttempt` | the worker id is a sufficient fence; attempts are never shared |
| `BindingsAreNeverDangling`, `KeysStayStable` | keys lead to rows that exist, and to the same row |
| `OutcomesStayFinal`, `ProgressStaysMonotone` | the two action properties |
| `LedgerImplementsContract` | `DurableJobs` implements `JobContract` |

*Rows.* `RowStep(j)` lists what a transaction may do to one row: nothing, create,
claim, renew, complete, close, reschedule, expire or delete it. One lemma proves that
every action of `Next` is a `RowStep` for every row. `RowsInv`, the conjunction of
type, constraints and times, is then inductive over `RowStep` alone. The
conjuncts need each other: that an attempt put back in the queue has one left
rests on the CHECK, that a claimed lease is not over rests on
`availableAt < deadline`.
*Fencing.* `LeaseBelongsToLatestClaim` is not inductive by itself. `FencingInv`
adds that no execution knows an attempt above the counter of its row, that
an owner of a row is an execution working on it, and that executions of one job have
distinct attempts. Because claims only ever count up, a claim gives out a number nobody has.
*Bindings.* `BindingInv` says that a bound key refers to a row with a request;
the cascade of the cleanup is the only step that could break it.
The action properties and the refinement follow from `RowsInv` and the case
analysis of `RowStep`.

**Reservation** (`JobReservationProofs`)

| Theorem | States |
|---|---|
| `ReservationInvHolds`, `TypeCorrect` | the inductive invariant, and the ranges of the columns |
| `BindingIsVisible` | the binding that stopped an INSERT is there for the SELECT after it: the error the code calls defensive is never the answer |
| `ReservationImplementsContract` | the statements of `reserve()` implement the one atomic step of `ReservationContract` |

What must be known in the middle of a transaction is what its snapshot said
earlier and others may have changed since. `ReservationInv` records it: the job a
transaction works with is its own uncommitted row or one of its scope that was active while it ran
(`Target`); an uncommitted binding is that of a transaction about to commit
(`Bindings`); and a job bound to the key of a transaction whose first SELECT found no
binding is not old (`Keys`). The last is what makes `BindingIsVisible` true: the retention spares jobs that
finished while the request was running, so the binding it collided with cannot
have been cleaned up. `OneActivePerScope` is the partial unique index.
In the refinement the statements that neither begin nor end a transaction are stutters; the
one that ends it gives the answer.

**Orders processing** (`OrdersProcessingProofs`)

| Theorem | States |
|---|---|
| `ProcessingInvHolds`, `TypeCorrect` | the inductive invariant, and the ranges of the columns, if the jobs are finitely many |
| `OrdersAreTheCheckpoint` | the orders of a job are those of the rows its checkpoint counts, from the planned version |
| `LedgerReportsTheCheckpoint` | progress is the committed checkpoint; success goes with the completion event and a plan applied whole |
| `WorkIsFencedAlways` | work is committed by the owner of the lease only, and a frozen plan changes only in its checkpoint, which grows |
| `NothingIsOverReserved` | when a chunk is applied, what all orders then reserve is in stock, whatever edit, photo or other job came after the plan |
| `StandbyIsCounted` | with finitely many jobs, a pair is on standby at most once per job that left it out, and never with an order |
| `ProcessingImplementsContract` | the ledger row of a job implements `JobContract` |

Two locks carry the argument. `OneSession`: only the holder of the order lock works, so what a session
read of plan, orders and source is still so when it commits (`Working`). `RowLocks`: who holds the
row of a job owns its running attempt, so what it commits is the work of that attempt even if the
lease runs out between compare-and-set and commit. `Plans` and `Orders` relate plan,
checkpoint, ledger and orders; without `Working` they are not
inductive, because a chunk is applied in a later step than the one that checked it.
`NothingIsOverReserved` relates a sum over the orders to the stock. `Room` says that a session which
has looked at the stock still has that stock when it commits, because nobody else writes orders
or stock under its lock; `NoneIsNone` says that a pair without an order counts for nothing. That a chunk of
new orders raises the sum by its own pieces is shown order by order, by induction over a finite set.
`StandbyIsCounted` and `TypeCorrect` assume `IsFiniteSet(Job)`: they count jobs, and the ledger only ever holds finitely many. `Fits` is
what `TypeCorrect` adds to the invariant: a plan has a row per pair at most, and a chunk is a part of a plan.

**E-mail** (`EmailDeliveryProofs`)

| Theorem | States |
|---|---|
| `DeliveryInvHolds`, `TypeCorrect` | the inductive invariant; attempts and events stay within their limits |
| `StoryIsOne` | communication, delivery and events tell one story |
| `AcceptedOnce` | the server accepts no message twice, however executions overlap, die and come late |
| `OneIntentionPerKey` | a key has one communication, and who repeats it is told of that one |

`MailStep` lists the five things a transaction can do to one communication; `OneStory` follows
from them. `AcceptedOnce` needs to know who talks about a delivery: `Flights` says that at most one execution
does, that a delivery in flight is in processing or already given up (`unknown`, never claimed
again), and what the server has taken by then. `Keys` says what a request holding the lock of its key
may assume between its SELECT and its INSERT. The theorem also covers what the instance leaves out, a request that comes
with a key in use and another content.

**Realtime** (`RealtimeProofs`)

| Theorem | States |
|---|---|
| `TypeCorrect` | the variables keep their kinds; batches, queues and positions keep within their limits |
| `SentOnce` | a socket is sent no event twice |
| `SequencesFollowCommits` | what becomes visible has a sequence above all that was visible before |
| `RealtimeInvHolds` | the inductive invariant |
| `NoEventIsMissed` | below its cursor a browser misses only what was overlooked |

The invariant is a chain. `Order`: one writer at a time, its number above every committed one. `Topics`: what the
watermarks and floors say of the outbox. `StreamFollows`: an entry of the stream has every
smaller committed event before it, as the relay never passes over the head of the outbox.
`Reading`: the batch of the listener is the end of what it has read, so
what is before it (`Behind`) was offered, checked against the outbox, or preceded by a
`disconnect_all`. `Sockets` says of each socket that every event it lacks and should get is in its
replay, in its queue, or still ahead of the listener (`Replays`, `Queued`, `Offered`). These parts
need each other: a queue has no gap because the stream has none,
and what the listener left behind before a socket registered is below the watermark the
socket reads afterwards. `OnlyOverlookedIsMissed` is the last conjunct, `NoGap`. All of it is judged on
`View`, in which an overlooked event counts as known: an event that passes the socket unnoticed enters the
view in that very step. None of the five theorems has a hypothesis.

**Ingestion** (`IngestionProofs`)

| Theorem | States |
|---|---|
| `IngestionInvHolds`, `TypeCorrect` | the inductive invariant; only attempts that were granted are published |
| `SuccessIsPublished` | success implies that the photo of that very attempt was committed |
| `StandbyStaysPending` | a refresh leaves no standby row whose pair is not pending |
| `CollectionsExclude` | two executions never collect or publish at the same time |
| `NewsAreToldOnce` | nobody is told twice, processed pairs were observed, the alerts are those of the photo |
| `PhotoLosesNoPair` | a pair the source had from the first read to the last is in the photo, although it may move between two reads |
| `ApportionedSums` | what the sizes of a pair get of its total adds up to that total, to the cent, for returns too |
| `PhotosAreFaithful` | every published photo shows those pairs, each with the money the source states |
| `NewsFollow`, `ProcessedStaysProcessed` | what is pending was announced; photos are published in order and nothing processed becomes pending again, if the ERP view is whole |

`LockIsHeld`, `ClaimsAreKept` and `SwapIsDone` relate each execution to the session lock,
its attempt and its publication; `ReadIsRebuilt`, `DraftIsPending` and the news conjuncts relate
what one swap writes.

*No pair is lost* because the open orders are read before the ERP: `SeenIsInPhoto` says that a
pair seen throughout is in the photo of the open orders, or processed by then and so in the ERP view that is read
later. *The money* is that of the source because a table is made of one view: `PhotoIsStated`
is kept by every step once it is known of every table a read may return (`ReadsAreStated`). This is the aggregation
itself: a view is the lines of its pairs put one after the other (`JoinedLines`), the lines of a pair have one
total, or the pair is not in the table, and the shares of that total add up to it, as many sizes getting a
cent more as the floors leave cents over (`Ranking`, `ApportionedSums`). `IngestionAssumption` types the lines of the
source for this, and `SpoiltTotalsContradict` says that a total which a read meets spoilt differs from that of another
line of its pair: a wrong total that nothing contradicts is to the code what the source states. TLC
evaluates both for `MCIngestion`.

For the order of photos `OrderInv` adds `ErpInOrder`: the ERP table, and the one an execution has taken, show what was
processed when they were read. This needs `ErpViewIsWhole`, that no pair is dropped
from the ERP table for contradicting lines; the code does drop such pairs
(section 5). `MCIngestion` assumes it of its instance, and with a
view that contradicts itself both properties fail. The other theorems hold without it.

**Databricks client** (`DatabricksClientProofs`)

| Theorem | States |
|---|---|
| `ClientInvHolds`, `TypeCorrect` | the inductive invariant; attempts, polls, chunks and bytes stay within the configuration |
| `ReturnsAllOrNothing` | unless the client was misled, rows are returned only if they are the whole result, each once and in order |
| `RunsOneStatement` | two statements of one execution never run together |

The heart is a choice that holds of a client that was not misled. Either all is `Right`: the rows in hand are the first
of the result, the links in hand those that come next, and the next page begins after them. Or the client is
`Doomed`: a link to a page it has followed before is among those it holds, so that it will stop with an
error before it returns anything. `CallOK(c, sz, astray)` states this with `astray` for `misled`, and each
operator on the call (`Paged`, `Rows`, `Scheduled`, `NextPage`, `Onward`, `Counted`, `Stop`) has a lemma that it keeps it. `StatementOK` ties the call
to the statement it submitted, and `OneRuns` says that only that one may run.

**Engine and allocation** (`AllocationProofs`)

| Theorem | States |
|---|---|
| `FirstPassServesMost` | no choice of products whose cuts fit in the budget serves more than the first pass |
| `SharesSumToTotal` | the shares of a total add up to it, to the cent or the piece, whatever its sign |
| `AdequateKeepsBudgets` | the two passes together keep both budgets, answer for every product and serve the most |
| `AllocationTypeOK` | reservations, plans, Linx rows and virtual stock keep their kinds; who plans holds the lock |
| `AllocationPlanOK` | the inductive invariant of the plan |
| `AllocationDerivedRowsAgree` | Linx rows and virtual stock say what the reservations and the photo say |
| `AllocationEveryPairIsExplained` | every pending pair has a planned row or a reason once the plan is stored |
| `AllocationOriginalValueIsKept` | value less difference is the ordered value, through adequations, prices and edits |
| `AllocationTakesOnlyWhatIsLeft` | no job, and no batch of edits whose reservations are all as recent as the photo, takes more of a size than there is |
| `AllocationServesMostProducts` | a plan serves as many products of an order as any choice that fits its budget |
| `AllocationBudgetRespected` | an order grows, and is cut, by no more than its tolerance, if no edit comes between a stored plan and its writes |

The engine adds up, sorts and folds, so its operators are unfolded first. The prover has no induction over
data with an operator as a parameter; it has induction over the numbers on a *set* (`Upwards`), and from
that induction over the subsets of a finite set (`FiniteInduction`), which is all the sums, folds and
enumerations of this model need, as they are defined over finite sets. The laws of sums (`SumAddOne`, `SumUnion`,
`SumLinear`, ...) and of sorted sequences (`Enumeration`, `Ranking`) follow, then one theorem for each function of the
engine. The first pass is an exchange argument: taking the cheapest products first, any other choice of as many costs
at least as much.

The steps are restated as facts about what they change (`Stepped`), so that no invariant has to
look into an action again. `PlanOK` has the parts `TypeOK`, `QueueOK` (each order once, with credit),
`RowsOK` (rows and reasons name pairs without a reservation and keep the ordered value) and `AnswersOK` (every
product of an order that is done has one or the other). The frozen plan and the orders change in different
steps, and `RowsOK` is what keeps a plan that is resumed from overwriting a reservation. `BudgetOK` adds that the budgets a plan started from are still
what is left, and that its rows fit in them. That is where `~EditsMeanwhile`, the hypothesis of
`AllocationBudgetRespected` and the value in `Allocation.cfg`, is needed: nothing in the code checks the budgets again
when a plan is resumed, and the run `allocation_budget` shows the edit that exceeds them. No other theorem about `Allocation` has a
hypothesis.

**Only model-checked**, and why:

- *Liveness* (`EveryJobIsResolved`, `EveryRequestEnds`, `EveryCommunicationIsResolved`, `EveryEventArrivesOrIsOverlooked`,
  `EveryRefreshEnds`, `EveryExecutionEnds`): it needs fairness and ENABLED, which the prover does not handle.

The runs do not list `TypeOK`: it says nothing that the other properties do not need, and for every component it is a theorem. What the three violation runs refute is shown by them alone.

## 5. What the models leave out of what they cover

- Validation that rejects a request before anything changes; the texts of plans, e-mails, URLs
  and results; logging and metrics.
- `_worker_id` cuts its text at 64 characters: worker ids are distinct by construction in the models, and in the code
  as long as the host name is not so long that it cuts off the random suffix.
- The thread of the engine ends before its session does, as `_run_cpu_bound_monitored` waits for it.
- `Allocation`: one channel (channels share nothing), criterion 'valor', a plan
  applied in one piece, pending rows that stay while a plan is open, no pair from the ERP and no
  missing order total. Saving a pair 'com' replaces what it consumed of the budget.
- `Ingestion`: pairs stay in the ERP view once processed, recurrences of an alert are the set
  of active alerts. A pair whose ERP lines contradict each other is dropped from the ERP table
  and shown as pending if the open view still has it (`agregacao.py:385-395`); a pair that
  leaves the ERP view for good may become pending again if the open view is unreadable and kept.
  That the session lock is still there is never verified after it was taken
  (`PostgresIngestionJobLock`): the model ties it to the life of the execution.
- `EmailDelivery`: a server that answers the message with neither 2xx, 4xx nor 5xx. `email_sender.py:20-25` takes
  such an answer for a final refusal, although it does not prove one.
- `DatabricksClient`: a transport error during polling ends the execution while the statement may
  run on; the retry of the job then submits another. The property is about one execution.
  Remote cancellation is an attempt (`CancelArrives` or `CancelGivenUp`), as `_cancel_best_effort` has a
  timeout of its own and swallows failures: no property promises that the statement is cancelled. The budget of bytes is shared by
  retries and by the fallback to external links.

## 6. Not modelled

- *Order read queries, health, configuration, logging, metrics*: no state, or no behaviour beyond one read.
- *Read cursors and tickets of realtime*: `acknowledge` is one statement that keeps the
  greatest value; a ticket is consumed by one Redis command.
- *Authentication and sessions*: token rotation in Redis, independent of the rest. Two refreshes of one token
  may both read the stored `jti` before either writes (`casos_uso.py:274`), and `iat` has a
  resolution of one second at the sign-out cut (240).
- *Parameters and change requests*: a form with one review step; nothing locks the row between the read and
  the commit of a reviewer (`repositorio_change_request.py:94`).
- *HTTP infrastructure*: rate limit window, body limit and signed cursors are single steps.

## 7. Plan

- Authentication and the review of change requests (section 6) read before they write: small modules of their own.
- The laws of sums that `AllocationProofs`, `OrdersProcessingProofs` and `IngestionProofs` state each for itself, and
  those on sequences of `RealtimeProofs` and `DatabricksClientProofs`, may become a module of their own.

## 8. Running

    tlc -workers 2 -config DurableJobsAttempts.cfg MCDurableJobs
    tlc -workers 2 -config Realtime.cfg MCRealtime
    tlapm DurableJobsProofs.tla
    tlapm RealtimeProofs.tla

`AllocationProofs` takes about five minutes on four cores, every other proof module from ten seconds to two minutes.
