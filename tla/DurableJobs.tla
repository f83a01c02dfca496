---------------------------- MODULE DurableJobs ----------------------------
(***************************************************************************)
(* The durable job ledger (src/app/shared/jobs): the durable_jobs table,    *)
(* its idempotency bindings, the periodic sweeper and the executions that   *)
(* Celery starts from broker messages.  The broker only carries hints: it   *)
(* may lose or repeat a message, and every transition of a row is a         *)
(* compare-and-set against the clock of the database.                       *)
(*                                                                          *)
(* One action is one committed transaction.  The statement-level race       *)
(* inside reserve() is the subject of JobReservation.                       *)
(***************************************************************************)
EXTENDS Integers, FiniteSets

CONSTANTS
    Job,            \* job identifiers (uuid4, never reused)
    Request,        \* the submissions clients and the beat schedule can make
    Key,            \* (owner, idempotency digest) pairs
    Scope,          \* (kind, scope_key) pairs
    Run,            \* task executions; each has a worker id of its own
    None,           \* SQL NULL where the column is not an instant
    KeyOf(_),       \* the key, scope and request fingerprint of a submission
    ScopeOf(_),
    FingerprintOf(_),
    MaxAttempts,    \* NewJob.max_attempts
    Duration,       \* deadline_at - requested_at
    Lease,          \* lease_until - now asked for by claim and heartbeat
    RetryDelays,    \* retry_at - now an execution may ask for
    SweepDelay,     \* retry delay the sweeper uses
    SweepLimit,     \* rows one sweep handles
    CleanupLimit,   \* rows one cleanup deletes
    Retention,      \* age at which a terminal row may be deleted
    Units,          \* progress_total of a planned job
    Horizon         \* last instant of the modelled clock (a bound)

Null == 0           \* NULL for instants and totals; the clock starts at 1

ASSUME ConstantsAssumption ==
    /\ None \notin Run /\ None \notin Job /\ None \notin Request
    /\ \A r \in Request : KeyOf(r) \in Key /\ ScopeOf(r) \in Scope
    /\ MaxAttempts \in Nat \ {0}
    /\ Duration \in Nat \ {0}
    /\ Lease \in Nat \ {0}
    /\ RetryDelays \subseteq Nat
    /\ SweepDelay \in Nat
    /\ SweepLimit \in Nat \ {0}
    /\ CleanupLimit \in Nat \ {0}
    /\ Retention \in Nat \ {0}
    /\ Units \in Nat \ {0}
    /\ Horizon \in Nat \ {0}

VARIABLES
    now,        \* clock_timestamp() of PostgreSQL
    row,        \* durable_jobs
    binding,    \* durable_job_idempotency_bindings: key -> job
    broker,     \* job ids with a task message waiting in the broker
    run,        \* what each task execution believes about its claim
    sweeper     \* where the sweep is, and the rows it still has to publish

vars == <<now, row, binding, broker, run, sweeper>>

Dispatchable == {"queued", "retrying"}
Active       == Dispatchable \cup {"running"}
Terminal     == {"succeeded", "failed", "skipped"}

\* "absent" is an id nobody has used yet, "deleted" one whose row is gone.
Status == Active \cup Terminal \cup {"absent", "deleted"}

LeaseExpired     == "worker_lease_expired"
DeadlineExceeded == "job_deadline_exceeded"
AttemptsUsed     == "job_attempts_exhausted"
RunError         == "run_error"     \* any code an execution reports itself
ErrorCode == {LeaseExpired, DeadlineExceeded, AttemptsUsed, RunError}

ASSUME NullAssumption == None \notin ErrorCode

Row == [status       : Status,
        request      : Request \cup {None},
        attempts     : 0..MaxAttempts,
        availableAt  : Nat,
        deadline     : Nat,
        leaseOwner   : Run \cup {None},
        leaseExpires : Nat,
        progress     : 0..Units,
        total        : {Null, Units},
        error        : ErrorCode \cup {None},
        retryable    : BOOLEAN,
        finishedAt   : Nat]

Blank(status) ==
    [status |-> status, request |-> None, attempts |-> 0,
     availableAt |-> Null, deadline |-> Null, leaseOwner |-> None,
     leaseExpires |-> Null, progress |-> 0, total |-> Null, error |-> None,
     retryable |-> FALSE, finishedAt |-> Null]

Idle == [pc |-> "idle", job |-> None, attempt |-> 0]

\* Every variable holds values of its kind: the columns keep their ranges.
TypeOK ==
    /\ now \in 1..Horizon
    /\ row \in [Job -> Row]
    /\ binding \in [Key -> Job \cup {None}]
    /\ broker \subseteq Job
    /\ run \in [Run -> [pc : {"idle", "working", "done"},
                        job : Job \cup {None},
                        attempt : 0..MaxAttempts]]
    /\ \A r \in Run : (run[r].pc = "idle") = (run[r].job = None)
    /\ sweeper \in [pc : {"idle", "list", "publish", "cleanup"},
                    todo : SUBSET Job]

Init ==
    /\ now = 1
    /\ row = [j \in Job |-> Blank("absent")]
    /\ binding = [k \in Key |-> None]
    /\ broker = {}
    /\ run = [r \in Run |-> Idle]
    /\ sweeper = [pc |-> "idle", todo |-> {}]

-----------------------------------------------------------------------------
(* Submission: submit_job over reserve.                                     *)

\* find_idempotent and _assert_compatible raise on a different fingerprint.
SameRequest(j, r) == FingerprintOf(row[j].request) = FingerprintOf(r)

ActiveInScope(s) ==
    {j \in Job : row[j].status \in Active /\ ScopeOf(row[j].request) = s}

NewRow(r) ==
    [Blank("queued") EXCEPT !.request = r,
                            !.availableAt = now,
                            !.deadline = now + Duration]

\* Outcome CREATED.  The publication after the commit is best effort.
SubmitCreated(r, j) ==
    /\ binding[KeyOf(r)] = None
    /\ ActiveInScope(ScopeOf(r)) = {}
    /\ row[j].status = "absent"
    /\ now + Duration <= Horizon
    /\ row' = [row EXCEPT ![j] = NewRow(r)]
    /\ binding' = [binding EXCEPT ![KeyOf(r)] = j]
    /\ \/ broker' = broker \cup {j}
       \/ broker' = broker
    /\ UNCHANGED <<now, run, sweeper>>

\* Fault: the binding is written with ON CONFLICT DO UPDATE.
SubmitCoalescedOverwriting(r, j) ==
    /\ j \in ActiveInScope(ScopeOf(r))
    /\ SameRequest(j, r)
    /\ binding' = [binding EXCEPT ![KeyOf(r)] = j]
    /\ UNCHANGED <<now, row, broker, run, sweeper>>

\* Outcome COALESCED: the key is bound to the job active in the scope.  A
\* replay of a bound key, or a conflict of fingerprints, changes nothing.
SubmitCoalesced(r, j) ==
    /\ binding[KeyOf(r)] = None
    /\ j \in ActiveInScope(ScopeOf(r))
    /\ SameRequest(j, r)
    /\ binding' = [binding EXCEPT ![KeyOf(r)] = j]
    /\ UNCHANGED <<now, row, broker, run, sweeper>>

-----------------------------------------------------------------------------
(* Executions.                                                              *)

Lesser(a, b)  == IF a <= b THEN a ELSE b
Greater(a, b) == IF a >= b THEN a ELSE b

\* Fault: claim takes over expired leases itself and forgets the attempt limit.
ClaimableAfterExpiry(j) ==
    /\ \/ row[j].status \in Dispatchable
       \/ row[j].status = "running" /\ row[j].leaseExpires <= now
    /\ row[j].availableAt <= now
    /\ row[j].deadline > now

Claimable(j) ==
    /\ row[j].status \in Dispatchable
    /\ row[j].availableAt <= now
    /\ row[j].attempts < MaxAttempts
    /\ row[j].deadline > now

\* Fault: the lease is not cut at the deadline.
ClaimedPastDeadline(j, r) ==
    [row[j] EXCEPT !.status = "running", !.attempts = @ + 1, !.leaseOwner = r,
                   !.leaseExpires = now + Lease, !.error = None,
                   !.retryable = FALSE]

\* Fault: the attempt is not counted when it starts.
ClaimedUncounted(j, r) ==
    [row[j] EXCEPT !.status = "running", !.leaseOwner = r,
                   !.leaseExpires = Lesser(now + Lease, row[j].deadline),
                   !.error = None, !.retryable = FALSE]

\* Fault: a new attempt starts its progress again from nothing.
ClaimedAnew(j, r) ==
    [row[j] EXCEPT !.status = "running", !.attempts = @ + 1, !.leaseOwner = r,
                   !.leaseExpires = Lesser(now + Lease, row[j].deadline),
                   !.error = None, !.retryable = FALSE, !.progress = 0]

Claimed(j, r) ==
    [row[j] EXCEPT !.status = "running",
                   !.attempts = @ + 1,
                   !.leaseOwner = r,
                   !.leaseExpires = Lesser(now + Lease, row[j].deadline),
                   !.error = None,
                   !.retryable = FALSE]

\* A worker takes a message and runs claim(job_id).  When no row is claimed
\* the task reports not_claimed and ends.  The broker may deliver twice.
Claim(r, j) ==
    /\ run[r].pc = "idle"
    /\ j \in broker
    /\ broker' \in {broker, broker \ {j}}
    /\ IF Claimable(j)
         THEN /\ row' = [row EXCEPT ![j] = Claimed(j, r)]
              /\ run' = [run EXCEPT ![r] = [pc |-> "working", job |-> j,
                                            attempt |-> row[j].attempts + 1]]
         ELSE UNCHANGED <<row, run>>
    /\ UNCHANGED <<now, binding, sweeper>>

\* The predicate of _lease_cas.
HoldsLease(r) ==
    LET j == run[r].job
    IN  /\ row[j].status = "running"
        /\ row[j].leaseOwner = r
        /\ row[j].leaseExpires > now
        /\ row[j].deadline > now

Ended(r) == [run EXCEPT ![r].pc = "done"]

Renewed(j, p, t) ==
    [row[j] EXCEPT !.leaseExpires =
                       Greater(@, Lesser(now + Lease, row[j].deadline)),
                   !.progress = p,
                   !.total = IF t # Null THEN t ELSE @]

\* progress p, with t = Units when the caller states the total, else Null.
Heartbeat(r, p, t) ==
    LET j == run[r].job
    IN  /\ run[r].pc = "working"
        /\ HoldsLease(r)
        /\ row[j].progress <= p
        /\ \/ t # Null /\ row[j].total \in {Null, t}
           \/ t = Null /\ (row[j].total = Null \/ row[j].total >= p)
        /\ row' = [row EXCEPT ![j] = Renewed(j, p, t)]
        /\ UNCHANGED <<now, binding, broker, run, sweeper>>

Closed(j, status, error) ==
    [row[j] EXCEPT !.status = status,
                   !.error = error,
                   !.retryable = FALSE,
                   !.leaseOwner = None,
                   !.leaseExpires = Null,
                   !.finishedAt = now]

\* A job that stated a total ends with all of it done.
Completed(j) ==
    [Closed(j, "succeeded", None) EXCEPT
       !.progress = IF row[j].total # Null THEN row[j].total ELSE @]

Succeed(r) ==
    LET j == run[r].job
    IN  /\ run[r].pc = "working"
        /\ HoldsLease(r)
        /\ row' = [row EXCEPT ![j] = Completed(j)]
        /\ run' = Ended(r)
        /\ UNCHANGED <<now, binding, broker, sweeper>>

\* fail() and skip() differ in the status only.
Fail(r, status) ==
    /\ run[r].pc = "working"
    /\ HoldsLease(r)
    /\ row' = [row EXCEPT ![run[r].job] = Closed(run[r].job, status, RunError)]
    /\ run' = Ended(r)
    /\ UNCHANGED <<now, binding, broker, sweeper>>

\* Fault: an attempt that is tried again is given back.
RescheduledRefunded(j, at, error) ==
    IF row[j].deadline <= at
      THEN [Closed(j, "failed", DeadlineExceeded) EXCEPT !.availableAt = at]
    ELSE IF row[j].attempts >= MaxAttempts
      THEN [Closed(j, "failed", AttemptsUsed) EXCEPT !.availableAt = at]
      ELSE [Closed(j, "retrying", error) EXCEPT !.availableAt = at,
                                                !.attempts = @ - 1,
                                                !.retryable = TRUE,
                                                !.finishedAt = Null]

\* The row after an attempt that should run again at the instant "at":
\* shared by retry() and by the sweep of an expired lease.
Rescheduled(j, at, error) ==
    IF row[j].deadline <= at
      THEN [Closed(j, "failed", DeadlineExceeded) EXCEPT !.availableAt = at]
    ELSE IF row[j].attempts >= MaxAttempts
      THEN [Closed(j, "failed", AttemptsUsed) EXCEPT !.availableAt = at]
      ELSE [Closed(j, "retrying", error) EXCEPT !.availableAt = at,
                                                !.retryable = TRUE,
                                                !.finishedAt = Null]

\* retry(), followed by the retry Celery itself schedules: a new message.
Retry(r, d) ==
    LET j == run[r].job
    IN  /\ run[r].pc = "working"
        /\ HoldsLease(r)
        /\ row' = [row EXCEPT ![j] = Rescheduled(j, now + d, RunError)]
        /\ run' = Ended(r)
        /\ broker' \in {broker, broker \cup {j}}
        /\ UNCHANGED <<now, binding, sweeper>>

\* Every compare-and-set of an execution that lost its lease matches no row:
\* it gives up, and Celery may schedule the message again.  (A heartbeat whose
\* progress the row refuses ends the execution too: that step is a Crash.)
LeaseLost(r) ==
    /\ run[r].pc = "working"
    /\ ~HoldsLease(r)
    /\ run' = Ended(r)
    /\ broker' \in {broker, broker \cup {run[r].job}}
    /\ UNCHANGED <<now, row, binding, sweeper>>

Crash(r) ==
    /\ run[r].pc = "working"
    /\ run' = Ended(r)
    /\ UNCHANGED <<now, row, binding, broker, sweeper>>

LoseMessage(j) ==
    /\ j \in broker
    /\ broker' = broker \ {j}
    /\ UNCHANGED <<now, row, binding, run, sweeper>>

-----------------------------------------------------------------------------
(* The periodic task reconciliar_jobs: reconcile_and_dispatch, then the     *)
(* retention cleanup.                                                       *)

\* The first elements of S in the order of the query, which breaks ties by id:
\* any batch whose members do not come after a row left out.
Batches(S, limit, Rank(_)) ==
    {B \in SUBSET S :
        /\ Cardinality(B) = Lesser(Cardinality(S), limit)
        /\ \A i \in B, j \in S \ B : Rank(i) <= Rank(j)}

ExpiredRunning(j) == row[j].status = "running" /\ row[j].leaseExpires <= now
\* Fault: the deadline test does not look at the status.
ExpiredUnfiltered(j) ==
    /\ row[j].status \notin {"running", "absent", "deleted"}
    /\ row[j].deadline <= now

\* Fault: only expired leases are swept.
ExpiredNever(j) == FALSE

ExpiredPending(j) == row[j].status \in Dispatchable /\ row[j].deadline <= now
Expired(j) == ExpiredRunning(j) \/ ExpiredPending(j)

ExpiryRank(j) ==
    IF row[j].status = "running" THEN row[j].leaseExpires ELSE row[j].deadline

Reconciled(j) ==
    IF row[j].status = "running"
      THEN LET next == Rescheduled(j, now + SweepDelay, LeaseExpired)
           IN  IF next.status = "failed"
                 THEN [next EXCEPT !.availableAt = row[j].availableAt]
                 ELSE next
      ELSE Closed(j, "skipped", DeadlineExceeded)

\* reconcile_expired: SKIP LOCKED passes over the rows other transactions hold.
SweepReconcile(locked) ==
    /\ sweeper.pc = "idle"
    /\ \E B \in Batches({j \in Job \ locked : Expired(j)}, SweepLimit, ExpiryRank) :
         row' = [j \in Job |-> IF j \in B THEN Reconciled(j) ELSE row[j]]
    /\ sweeper' = [sweeper EXCEPT !.pc = "list"]
    /\ UNCHANGED <<now, binding, broker, run>>

\* list_dispatchable, in a transaction of its own after the commit.
SweepList ==
    /\ sweeper.pc = "list"
    /\ \E B \in Batches({j \in Job : Claimable(j)}, SweepLimit,
                        LAMBDA j : row[j].availableAt) :
         sweeper' = [pc |-> "publish", todo |-> B]
    /\ UNCHANGED <<now, row, binding, broker, run>>

\* One enqueue per listed row, whatever has become of the row meanwhile.  A
\* broker error is logged and the loop goes on.
SweepPublish(j) ==
    /\ sweeper.pc = "publish"
    /\ j \in sweeper.todo
    /\ broker' \in {broker, broker \cup {j}}
    /\ sweeper' = [sweeper EXCEPT !.todo = @ \ {j}]
    /\ UNCHANGED <<now, row, binding, run>>

SweepPublished ==
    /\ sweeper.pc = "publish"
    /\ sweeper.todo = {}
    /\ sweeper' = [sweeper EXCEPT !.pc = "cleanup"]
    /\ UNCHANGED <<now, row, binding, broker, run>>

Deletable(j) == row[j].status \in Terminal /\ row[j].finishedAt < now - Retention

\* cleanup_terminal; the foreign key of the bindings deletes on cascade.
SweepCleanup(locked) ==
    /\ sweeper.pc = "cleanup"
    /\ \E B \in Batches({j \in Job \ locked : Deletable(j)}, CleanupLimit,
                        LAMBDA j : row[j].finishedAt) :
         /\ row' = [j \in Job |-> IF j \in B THEN Blank("deleted") ELSE row[j]]
         /\ binding' = [k \in Key |-> IF binding[k] \in B THEN None ELSE binding[k]]
    /\ sweeper' = [sweeper EXCEPT !.pc = "idle"]
    /\ UNCHANGED <<now, broker, run>>

\* The task limits (55 s soft, 60 s hard) or a crash end the sweep anywhere.
SweepCrash ==
    /\ sweeper.pc # "idle"
    /\ sweeper' = [pc |-> "idle", todo |-> {}]
    /\ UNCHANGED <<now, row, binding, broker, run>>

-----------------------------------------------------------------------------
Tick ==
    /\ now < Horizon
    /\ now' = now + 1
    /\ UNCHANGED <<row, binding, broker, run, sweeper>>

Submission ==
    \E r \in Request, j \in Job : SubmitCreated(r, j) \/ SubmitCoalesced(r, j)

Execution(r) ==
    \/ \E j \in Job : Claim(r, j)
    \/ \E p \in 0..Units, t \in {Null, Units} : Heartbeat(r, p, t)
    \/ Succeed(r)
    \/ \E status \in {"failed", "skipped"} : Fail(r, status)
    \/ \E d \in RetryDelays : Retry(r, d)
    \/ LeaseLost(r)
    \/ Crash(r)

Sweep ==
    \/ \E locked \in SUBSET Job : SweepReconcile(locked) \/ SweepCleanup(locked)
    \/ SweepList
    \/ \E j \in Job : SweepPublish(j)
    \/ SweepPublished
    \/ SweepCrash

Next ==
    \/ Submission
    \/ \E r \in Run : Execution(r)
    \/ \E j \in Job : LoseMessage(j)
    \/ Sweep
    \/ Tick

Spec == Init /\ [][Next]_vars

\* Time passes, and the beat schedule starts a sweep again and again.  A row
\* lock lasts for one transaction, so among the sweeps that start there are
\* always some that find no row locked: hence strong fairness for those.
Fairness ==
    /\ WF_vars(Tick)
    /\ SF_vars(SweepReconcile({}))
    /\ WF_vars(SweepList)
    /\ WF_vars(\E j \in Job : SweepPublish(j))
    /\ WF_vars(SweepPublished)
    /\ WF_vars(\E locked \in SUBSET Job : SweepCleanup(locked))

FairSpec == Spec /\ Fairness

-----------------------------------------------------------------------------
(* Safety.                                                                  *)

\* The CHECK constraints of the table (models.py:64-120): no transition of the
\* repository produces a row the database would reject with an IntegrityError.
RowConstraints(j) ==
    LET r == row[j]
    IN  /\ r.status \in Dispatchable => r.attempts < MaxAttempts
        /\ r.status = "running" <=> r.leaseOwner # None
        /\ r.status = "running" <=> r.leaseExpires # Null
        /\ r.status \in Terminal <=> r.finishedAt # Null
        /\ r.status \in {"failed", "retrying", "skipped"} <=> r.error # None
        /\ r.retryable <=> r.status = "retrying"
        /\ r.total # Null => r.progress <= r.total

LedgerConstraints == \A j \in Job : RowConstraints(j)

\* A lease never outlives the deadline of its job, and a retry is never put
\* off to an instant at which claim() would refuse the row.
WithinDeadline(j) ==
    /\ row[j].status = "running" => row[j].leaseExpires <= row[j].deadline
    /\ row[j].status \in Dispatchable => row[j].availableAt < row[j].deadline
    /\ row[j].status = "succeeded" => row[j].finishedAt < row[j].deadline

TimesWithinDeadline == \A j \in Job : WithinDeadline(j)

\* A row stays one that the table accepts and whose times agree: a job is never
\* attempted too often, its leases end by the deadline and what it
\* waits for starts before it.
RowsAreValid == TypeOK /\ LedgerConstraints /\ TimesWithinDeadline

\* Fencing: the compare-and-set looks at the worker id alone, yet the row is
\* only ever leased to the execution that made the latest claim, and no two
\* executions were given the same attempt, whatever the broker repeated.
LeaseBelongsToLatestClaim ==
    \A r \in Run :
        LET j == run[r].job
        IN  j # None /\ row[j].status = "running" /\ row[j].leaseOwner = r
                => run[r].attempt = row[j].attempts

AttemptsAreDistinct ==
    \A r, s \in Run :
        /\ run[r].pc # "idle" /\ run[s].pc # "idle"
        /\ run[r].job = run[s].job
        /\ run[r].attempt = run[s].attempt
        => r = s

\* Retention and cascade keep every binding on a row that still exists.
BindingsReferToRows ==
    \A k \in Key : binding[k] # None =>
        /\ row[binding[k]].status \notin {"absent", "deleted"}
        /\ row[binding[k]].request # None

\* An outcome is final: a terminal row is never touched again, except that
\* cleanup deletes it, and only after the retention has passed.
OutcomeIsFinal ==
    [][\A j \in Job : row[j].status \in Terminal =>
          \/ row'[j] = row[j]
          \/ row'[j].status = "deleted" /\ now > row[j].finishedAt + Retention]_vars

\* A key answers with the same job for as long as that job is kept.
KeysAreStable ==
    [][\A k \in Key : binding[k] # None =>
          \/ binding'[k] = binding[k]
          \/ binding'[k] = None /\ row'[binding[k]].status = "deleted"]_vars

\* Progress never goes back, not even across executions of the same job.
ProgressIsMonotone ==
    [][\A j \in Job : row'[j].status # "deleted" =>
          row'[j].progress >= row[j].progress]_vars

\* The abstract view of a row: attempts and lease owner, and which of the
\* phases of JobContract its status stands for.
PhaseOf(status) ==
    CASE status = "absent"                -> "unknown"
      [] status \in Dispatchable          -> "waiting"
      [] status = "running"               -> "held"
      [] status = "succeeded"             -> "done"
      [] status \in {"failed", "skipped"} -> "dropped"
      [] status = "deleted"               -> "forgotten"

Contract ==
    INSTANCE JobContract WITH
        job <- [j \in Job |-> [phase   |-> PhaseOf(row[j].status),
                               attempt |-> row[j].attempts,
                               holder  |-> row[j].leaseOwner]]

\* The ledger keeps its promise: every transaction of the repository is, for
\* each job, one of the steps of JobContract or leaves its view alone.
KeepsContract == Contract!Spec

(* Liveness. *)

\* The deadline is enforced by the sweeper alone: whatever the broker loses
\* and however executions die, a submitted job is eventually resolved.
EveryJobIsResolved ==
    \A j \in Job : row[j].status \in Active ~> row[j].status \notin Active
=============================================================================
