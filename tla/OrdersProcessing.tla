-------------------------- MODULE OrdersProcessing --------------------------
(***************************************************************************)
(* Durable orders processing (src/app/modules/pedidos/processing and its    *)
(* Celery task): an execution takes the global order-state lock, claims the *)
(* job, freezes a plan, applies it in checkpointed chunks and completes.    *)
(* Every transaction ends with a compare-and-set on the job row, which      *)
(* locks that row until the commit.                                         *)
(*                                                                          *)
(* DurableJobs models the ledger with its clock.  Here a lease is a flag    *)
(* that time may clear at any moment, and a deadline a flag it may set.     *)
(***************************************************************************)
EXTENDS Naturals, Sequences, FiniteSets, SequencesExt

CONSTANTS
    Job,            \* processing jobs
    Run,            \* task executions, each with its own session and worker id
    Pair,           \* order-product pairs (nr_pedido, cd_prod_cor): numbers
    Version,        \* fingerprints of a pair's source rows; Gone is one of them
    Gone,           \* the pair is not in the pending snapshot
    Quantity,       \* what the grade of an order may add up to
    MaxStock,       \* units of the one stock target the pairs compete for
    ChunkSize,      \* APPLY_CHUNK_SIZE
    MaxAttempts,    \* PROCESSING_MAX_ATTEMPTS
    None

ASSUME ProcessingAssumption ==
    /\ Pair \subseteq Nat /\ IsFiniteSet(Pair)
    /\ Quantity \subseteq Nat /\ 1 \in Quantity
    /\ Gone \in Version
    /\ MaxStock \in Nat
    /\ ChunkSize \in Nat \ {0}
    /\ MaxAttempts \in Nat \ {0}
    /\ None \notin Job /\ None \notin Run

VARIABLES
    ledger,     \* the job's row in durable_jobs
    rowLock,    \* execution whose open transaction holds that row
    spec,       \* pedidos_processamento and the rows of its plan
    orderLock,  \* holder of the advisory ORDER_STATE_MUTATION_LOCK
    source,     \* fingerprint of each pair in the current snapshot
    stock,      \* physical units available
    order,      \* ordens_reserva
    standby,    \* pedido_standby_motivo.execucoes_consecutivas; 0: no row
    completed,  \* jobs with a committed completion event
    run         \* the executions, with the uncommitted work of each

vars == <<ledger, rowLock, spec, orderLock, source, stock, order, standby,
          completed, run>>

Terminal == {"succeeded", "failed", "skipped"}
Dispatchable == {"queued", "retrying"}

NoOrder == [job |-> None, version |-> Gone, quantity |-> 0]

\* The rows of pedido_processamento_plan, and of pedidos_processamento.
Row == [pair : Pair, version : Version]
SpecRow == [state : {"absent", "pending", "planned"},
            rows : BoundedSeq(Row, Cardinality(Pair)),
            next : 1..(Cardinality(Pair) + 1),
            deferred : SUBSET Pair]

\* Every variable holds values of its kind: the columns keep their ranges.
TypeOK ==
    /\ ledger \in [Job -> [status : Dispatchable \cup Terminal \cup {"absent", "running"},
                           attempt : 0..MaxAttempts, owner : Run \cup {None},
                           live : BOOLEAN, late : BOOLEAN,
                           progress : 0..Cardinality(Pair)]]
    /\ rowLock \in [Job -> Run \cup {None}]
    /\ spec \in [Job -> SpecRow]
    /\ orderLock \in Run \cup {None}
    /\ source \in [Pair -> Version]
    /\ stock \in 0..MaxStock
    /\ order \in [Pair -> [job : Job \cup {None}, version : Version,
                           quantity : Quantity \cup {0}]]
    /\ standby \in [Pair -> 0..Cardinality(Job)]
    /\ completed \subseteq Job
    /\ \A r \in Run :
         /\ run[r].pc \in {"idle", "claim", "plan", "plan_cas", "plan_commit",
                           "apply", "apply_cas", "apply_commit", "finish",
                           "finish_commit", "leave", "failing", "killed", "end"}
         /\ run[r].job \in Job \cup {None}
         /\ run[r].lost \in BOOLEAN
         /\ run[r].outcome \in {"none", "retry", "fail"}
         /\ run[r].rows \in BoundedSeq(Row, Cardinality(Pair))
         /\ run[r].deferred \subseteq Pair

NoSpec == [state |-> "absent", rows |-> <<>>, next |-> 1, deferred |-> {}]

Fresh == [pc |-> "idle", job |-> None, lost |-> FALSE, outcome |-> "none",
          rows |-> <<>>, deferred |-> {}]

Init ==
    /\ ledger = [j \in Job |-> [status |-> "absent", attempt |-> 0, owner |-> None,
                                live |-> FALSE, late |-> FALSE, progress |-> 0]]
    /\ rowLock = [j \in Job |-> None]
    /\ spec = [j \in Job |-> NoSpec]
    /\ orderLock = None
    /\ source \in [Pair -> Version \ {Gone}]
    /\ stock = MaxStock
    /\ order = [p \in Pair |-> NoOrder]
    /\ standby = [p \in Pair |-> 0]
    /\ completed = {}
    /\ run = [r \in Run |-> Fresh]

-----------------------------------------------------------------------------
Pairs(rows) == {rows[i].pair : i \in DOMAIN rows}

\* applied_count, which always is next_ordinal - 1
Applied(j) == spec[j].next - 1
Complete(j) == spec[j].state = "planned" /\ Applied(j) = Len(spec[j].rows)

Reserved == SumFunction([p \in Pair |-> order[p].quantity])

HasOrder(p) == order[p].job # None

Goto(r, pc) == run' = [run EXCEPT ![r].pc = pc]

\* End of the session: rollback of what is open, then the unlock.
Release(r, ended) ==
    /\ run' = [run EXCEPT ![r] = ended]
    /\ rowLock' = [j \in Job |-> IF rowLock[j] = r THEN None ELSE rowLock[j]]
    /\ orderLock' = IF orderLock = r THEN None ELSE orderLock

Leave(r) == Release(r, [Fresh EXCEPT !.pc = "end"])

Fails(r, outcome) ==
    Release(r, [Fresh EXCEPT !.pc = "failing", !.job = run[r].job,
                             !.outcome = outcome])

\* The predicate of _lease_cas.  An UPDATE waits while another transaction
\* holds the row.
HoldsLease(r) ==
    LET l == ledger[run[r].job]
    IN  l.status = "running" /\ l.owner = r /\ l.live /\ ~l.late

\* The ledger once the row of j has left "running".  Only rows whose deadline
\* is not over wait again, and for a terminal row it has no meaning.
Closed(j, status) ==
    [ledger EXCEPT ![j] = [@ EXCEPT !.status = status, !.owner = None,
                                    !.live = FALSE, !.late = FALSE]]

RowIsFree(j, r) == rowLock[j] \in {None, r}

data == <<source, stock, order, standby>>

-----------------------------------------------------------------------------
(* submit_processing_job: the job and its header in one transaction.        *)
Submit(j) ==
    /\ ledger[j].status = "absent"
    /\ ledger' = [ledger EXCEPT ![j].status = "queued"]
    /\ spec' = [spec EXCEPT ![j] = [NoSpec EXCEPT !.state = "pending"]]
    /\ UNCHANGED <<rowLock, orderLock, data, completed, run>>

\* A message arrives; the advisory lock is tried before anything else.  If it
\* is busy the task ends without touching the ledger (no step here).
EnterSession(r, j) ==
    /\ run[r].pc = "idle"
    /\ orderLock = None
    /\ orderLock' = r
    /\ run' = [run EXCEPT ![r] = [@ EXCEPT !.pc = "claim", !.job = j]]
    /\ UNCHANGED <<ledger, rowLock, spec, data, completed>>

\* Fault: claim takes over expired leases itself and forgets the attempt limit.
ClaimableAfterExpiry(j) ==
    /\ ledger[j].status \in Dispatchable \cup {"running"}
    /\ ~ledger[j].live
    /\ ~ledger[j].late

Claimable(j) ==
    /\ ledger[j].status \in Dispatchable
    /\ ledger[j].attempt < MaxAttempts
    /\ ~ledger[j].late

\* claim_processing_job; the keeper starts with the claim.
Claim(r) ==
    LET j == run[r].job
    IN  /\ run[r].pc = "claim"
        /\ \/ /\ Claimable(j) /\ rowLock[j] = None
              /\ ledger' = [ledger EXCEPT ![j] =
                              [@ EXCEPT !.status = "running", !.owner = r, !.live = TRUE,
                                        !.attempt = ledger[j].attempt + 1]]
              /\ Goto(r, "plan")
              /\ UNCHANGED <<rowLock, orderLock>>
           \/ /\ ~(Claimable(j) /\ rowLock[j] = None)
              /\ Leave(r)
              /\ UNCHANGED ledger
        /\ UNCHANGED <<spec, data, completed>>

\* ensure_valid failed, or a compare-and-set matched no row: the session ends
\* and the ledger is left to the sweeper.
LeaseLost(r) ==
    /\ \/ run[r].pc \in {"plan", "plan_cas", "apply", "finish"} /\ run[r].lost
       \/ /\ run[r].pc \in {"plan_cas", "apply_cas", "finish"}
          /\ RowIsFree(run[r].job, r)
          /\ ~HoldsLease(r)
    /\ Leave(r)
    /\ UNCHANGED <<ledger, spec, data, completed>>

\* The row of the job is taken by the UPDATE of the compare-and-set and kept
\* until the commit; whether the lease ends meanwhile no longer matters.
Cas(r, next) ==
    /\ RowIsFree(run[r].job, r)
    /\ HoldsLease(r)
    /\ rowLock' = [rowLock EXCEPT ![run[r].job] = r]
    /\ Goto(r, next)
    /\ UNCHANGED <<ledger, spec, orderLock, data, completed>>

Unlock(j) == rowLock' = [rowLock EXCEPT ![j] = None]

-----------------------------------------------------------------------------
(* _plan_once *)

Eligible == {p \in Pair : source[p] # Gone /\ ~HasOrder(p)}

\* Fault: a plan that an earlier attempt froze counts as applied.
PlanExistsApplied(r) ==
    /\ run[r].pc = "plan"
    /\ spec[run[r].job].state = "planned"
    /\ Goto(r, "finish")
    /\ UNCHANGED <<ledger, rowLock, spec, orderLock, data, completed>>

\* An already frozen plan is used as it is.
PlanExists(r) ==
    /\ run[r].pc = "plan"
    /\ spec[run[r].job].state = "planned"
    /\ Goto(r, IF Complete(run[r].job) THEN "finish" ELSE "apply")
    /\ UNCHANGED <<ledger, rowLock, spec, orderLock, data, completed>>

\* The rows of a plan: the chosen pairs in their order, as the source has them.
RowsFor(S) ==
    {rows \in [1..Cardinality(S) -> Row] :
        /\ Pairs(rows) = S
        /\ \A i \in DOMAIN rows : rows[i].version = source[rows[i].pair]
        /\ \A i, k \in DOMAIN rows : i < k => rows[i].pair < rows[k].pair}

\* Fault: every attempt plans anew, although a plan is frozen.
BuildPlanAgain(r) ==
    /\ run[r].pc = "plan"
    /\ ~run[r].lost
    /\ \E S \in SUBSET Eligible : \E rows \in RowsFor(S) :
         /\ S # {} => Cardinality(S) + Reserved <= stock
         /\ run' = [run EXCEPT ![r] = [@ EXCEPT !.pc = "plan_cas",
                                                !.rows = rows,
                                                !.deferred = Eligible \ S]]
    /\ UNCHANGED <<ledger, rowLock, spec, orderLock, data, completed>>

\* The engine may choose any pairs the stock can serve; the others are
\* deferred, with a reason that is recorded with the plan.
BuildPlan(r) ==
    /\ run[r].pc = "plan"
    /\ ~run[r].lost
    /\ spec[run[r].job].state = "pending"
    /\ \E S \in SUBSET Eligible : \E rows \in RowsFor(S) :
         /\ S # {} => Cardinality(S) + Reserved <= stock
         /\ run' = [run EXCEPT ![r] = [@ EXCEPT !.pc = "plan_cas",
                                                !.rows = rows,
                                                !.deferred = Eligible \ S]]
    /\ UNCHANGED <<ledger, rowLock, spec, orderLock, data, completed>>

PlanCas(r) ==
    /\ run[r].pc = "plan_cas"
    /\ ~run[r].lost
    /\ Cas(r, "plan_commit")

\* Plan, standby reasons and progress total become visible together.
PlanCommit(r) ==
    LET j == run[r].job
    IN  /\ run[r].pc = "plan_commit"
        /\ spec' = [spec EXCEPT ![j] = [state |-> "planned", rows |-> run[r].rows,
                                        next |-> 1, deferred |-> run[r].deferred]]
        /\ standby' = [p \in Pair |-> IF p \in run[r].deferred
                                        THEN standby[p] + 1 ELSE standby[p]]
        /\ run' = [run EXCEPT ![r] =
                     [@ EXCEPT !.pc = IF run[r].rows = <<>> THEN "finish" ELSE "apply",
                               !.rows = <<>>, !.deferred = {}]]
        /\ Unlock(j)
        /\ UNCHANGED <<ledger, orderLock, source, stock, order, completed>>

-----------------------------------------------------------------------------
(* _apply_chunks *)

NextChunk(j) ==
    SubSeq(spec[j].rows, spec[j].next,
           IF spec[j].next + ChunkSize - 1 <= Len(spec[j].rows)
             THEN spec[j].next + ChunkSize - 1 ELSE Len(spec[j].rows))

\* Faults: the source rows are not compared, the stock is not looked at again.
StillCurrentAnySource(rows) ==
    /\ \A i \in DOMAIN rows : ~HasOrder(rows[i].pair)
    /\ Len(rows) + Reserved <= stock

StillCurrentAnyStock(rows) ==
    \A i \in DOMAIN rows :
      ~HasOrder(rows[i].pair) /\ source[rows[i].pair] = rows[i].version

\* _assert_plan_still_current and _assert_stock_capacity
StillCurrent(rows) ==
    /\ \A i \in DOMAIN rows :
         ~HasOrder(rows[i].pair) /\ source[rows[i].pair] = rows[i].version
    /\ Len(rows) + Reserved <= stock

ApplyChunk(r) ==
    LET j == run[r].job
    IN  /\ run[r].pc = "apply"
        /\ ~run[r].lost
        /\ \/ /\ Complete(j)
              /\ Goto(r, "finish")
              /\ UNCHANGED <<rowLock, orderLock>>
           \/ /\ ~Complete(j)
              /\ StillCurrent(NextChunk(j))
              /\ run' = [run EXCEPT ![r] = [@ EXCEPT !.pc = "apply_cas",
                                                     !.rows = NextChunk(j)]]
              /\ UNCHANGED <<rowLock, orderLock>>
           \/ /\ ~Complete(j)
              /\ ~StillCurrent(NextChunk(j))
              /\ Fails(r, "fail")
        /\ UNCHANGED <<ledger, spec, data, completed>>

ApplyCas(r) == run[r].pc = "apply_cas" /\ Cas(r, "apply_commit")

\* Orders, checkpoint, progress and its event in one transaction.
ApplyCommit(r) ==
    LET j    == run[r].job
        rows == run[r].rows
    IN  /\ run[r].pc = "apply_commit"
        /\ order' = [p \in Pair |->
                       IF p \in Pairs(rows)
                         THEN [job |-> j, version |-> source[p], quantity |-> 1]
                         ELSE order[p]]
        /\ standby' = [p \in Pair |-> IF p \in Pairs(rows) THEN 0 ELSE standby[p]]
        /\ spec' = [spec EXCEPT ![j].next = @ + Len(rows)]
        /\ ledger' = [ledger EXCEPT ![j].progress = Applied(j) + Len(rows)]
        /\ run' = [run EXCEPT ![r] = [@ EXCEPT !.pc = "apply", !.rows = <<>>]]
        /\ Unlock(j)
        /\ UNCHANGED <<orderLock, source, stock, completed>>

-----------------------------------------------------------------------------
(* The end of run_claimed_processing_job. *)

\* ensure_valid, then the compare-and-set of succeed(); the alert and completion
\* events were written just before, in the same transaction.
FinishCas(r) ==
    /\ run[r].pc = "finish"
    /\ ~run[r].lost
    /\ Cas(r, "finish_commit")

FinishCommit(r) ==
    LET j == run[r].job
    IN  /\ run[r].pc = "finish_commit"
        /\ ledger' = [Closed(j, "succeeded") EXCEPT ![j].progress = Len(spec[j].rows)]
        /\ completed' = completed \cup {j}
        /\ Unlock(j)
        /\ Goto(r, "leave")
        /\ UNCHANGED <<spec, orderLock, data>>

ExitSession(r) ==
    /\ run[r].pc = "leave"
    /\ Leave(r)
    /\ UNCHANGED <<ledger, spec, data, completed>>

-----------------------------------------------------------------------------
(* Failures. *)

InSession == {"claim", "plan", "plan_cas", "plan_commit", "apply", "apply_cas",
              "apply_commit", "finish", "finish_commit", "leave"}

\* Timeouts and database errors are retried, other errors fail the job, and a
\* connection found closed by ensure_held ends the task with no transition.
\* The session ends first: the lock is free before the ledger is told.
Error(r, outcome) ==
    /\ run[r].pc \in InSession
    /\ IF outcome = "none" THEN Leave(r) ELSE Fails(r, outcome)
    /\ UNCHANGED <<ledger, spec, data, completed>>

\* Fault: the failure is recorded without looking at the lease.
TransitionUnchecked(r) ==
    LET j == run[r].job
    IN  /\ run[r].pc = "failing"
        /\ RowIsFree(j, r)
        /\ ledger' = Closed(j, "failed")
        /\ run' = [run EXCEPT ![r] = [Fresh EXCEPT !.pc = "end"]]
        /\ UNCHANGED <<rowLock, spec, orderLock, data, completed>>

\* mark_processing_failure, in a session of its own.  A retry that cannot
\* start before the deadline fails the job.
Transition(r) ==
    LET j == run[r].job
    IN  /\ run[r].pc = "failing"
        /\ RowIsFree(j, r)
        /\ \/ /\ HoldsLease(r)
              /\ \/ run[r].outcome = "retry" /\ ledger[j].attempt < MaxAttempts
                      /\ ledger' = Closed(j, "retrying")
                 \/ ledger' = Closed(j, "failed")
           \/ ~HoldsLease(r) /\ UNCHANGED ledger
        /\ run' = [run EXCEPT ![r] = [Fresh EXCEPT !.pc = "end"]]
        /\ UNCHANGED <<rowLock, spec, orderLock, data, completed>>

\* The keeper, in its own session, fails to renew the lease for any reason.
\* What it reports is read by ensure_valid alone, in these places.
KeeperLost(r) ==
    /\ run[r].pc \in {"plan", "plan_cas", "apply", "finish"}
    /\ ~run[r].lost
    /\ run' = [run EXCEPT ![r].lost = TRUE]
    /\ UNCHANGED <<ledger, rowLock, spec, orderLock, data, completed>>

\* The process dies.  Its locks stay until the server notices the connection.
Crash(r) ==
    /\ run[r].pc \in InSession \cup {"failing"}
    /\ run' = [run EXCEPT ![r] = [Fresh EXCEPT !.pc = "killed", !.job = run[r].job]]
    /\ UNCHANGED <<ledger, rowLock, spec, orderLock, data, completed>>

ServerDropsConnection(r) ==
    /\ run[r].pc = "killed"
    /\ Leave(r)
    /\ UNCHANGED <<ledger, spec, data, completed>>

-----------------------------------------------------------------------------
(* Time, the sweeper, and the other writers of the order state. *)

LeaseRunsOut(j) ==
    /\ ledger[j].live
    /\ ledger' = [ledger EXCEPT ![j].live = FALSE]
    /\ UNCHANGED <<rowLock, spec, orderLock, data, completed, run>>

\* Leases never outlive the deadline.
DeadlinePasses(j) ==
    /\ ledger[j].status \notin Terminal \cup {"absent"}
    /\ ~ledger[j].late
    /\ ledger' = [ledger EXCEPT ![j] = [@ EXCEPT !.late = TRUE, !.live = FALSE]]
    /\ UNCHANGED <<rowLock, spec, orderLock, data, completed, run>>

\* reconcile_expired for one row; SKIP LOCKED passes over a row in use.
Sweep(j) ==
    /\ rowLock[j] = None
    /\ \/ /\ ledger[j].status = "running" /\ ~ledger[j].live
          /\ \/ /\ ledger[j].attempt < MaxAttempts /\ ~ledger[j].late
                /\ ledger' = Closed(j, "retrying")
             \/ ledger' = Closed(j, "failed")
       \/ /\ ledger[j].status \in Dispatchable /\ ledger[j].late
          /\ ledger' = Closed(j, "skipped")
    /\ UNCHANGED <<rowLock, spec, orderLock, data, completed, run>>

\* The publication of a full refresh, under the transaction form of the lock.
Refresh ==
    /\ orderLock = None
    /\ source' \in [Pair -> Version]
    /\ stock' \in 0..MaxStock
    /\ UNCHANGED <<ledger, rowLock, spec, orderLock, order, standby, completed, run>>

\* A grade edit of an existing order, under the same lock.
EditGrade(p, q) ==
    /\ orderLock = None
    /\ HasOrder(p)
    /\ q <= order[p].quantity \/ Reserved - order[p].quantity + q <= stock
    /\ order' = [order EXCEPT ![p].quantity = q]
    /\ UNCHANGED <<ledger, rowLock, spec, orderLock, source, stock, standby,
                   completed, run>>

-----------------------------------------------------------------------------
Session(r) ==
    \/ \E j \in Job : EnterSession(r, j)
    \/ Claim(r)
    \/ PlanExists(r) \/ BuildPlan(r)  \/ PlanCas(r)   \/ PlanCommit(r)
    \/ ApplyChunk(r) \/ ApplyCas(r)   \/ ApplyCommit(r)
    \/ FinishCas(r)  \/ FinishCommit(r) \/ ExitSession(r)
    \/ LeaseLost(r)  \/ Transition(r)
    \/ \E outcome \in {"none", "retry", "fail"} : Error(r, outcome)
    \/ KeeperLost(r)
    \/ Crash(r)      \/ ServerDropsConnection(r)

Environment ==
    \/ \E j \in Job : Submit(j) \/ LeaseRunsOut(j) \/ DeadlinePasses(j) \/ Sweep(j)
    \/ Refresh
    \/ \E p \in Pair, q \in Quantity : EditGrade(p, q)

Next == Environment \/ \E r \in Run : Session(r)

Spec == Init /\ [][Next]_vars

-----------------------------------------------------------------------------
(* Safety. *)

\* The plan rows of j that its checkpoint counts as applied.
AppliedRows(j) == SubSeq(spec[j].rows, 1, Applied(j))

\* Checkpoint and orders agree at every instant, across crashes, lost leases
\* and other jobs over the same pairs: a pair counted as applied has the one
\* order this job made, from the version that was planned, and no other pair
\* has an order of this job.
OrdersMatchCheckpoint ==
    \A j \in Job :
        /\ {p \in Pair : order[p].job = j} = Pairs(AppliedRows(j))
        /\ \A i \in 1..Applied(j) :
             order[spec[j].rows[i].pair].version = spec[j].rows[i].version

\* The ledger reports exactly what the checkpoint has committed, and a job
\* succeeds only when the whole plan is applied, together with its event.
LedgerAgreesWithCheckpoint ==
    \A j \in Job :
        /\ ledger[j].progress = Applied(j)
        /\ (ledger[j].status = "succeeded") = (j \in completed)
        /\ ledger[j].status = "succeeded" => Complete(j)

\* A plan leaves a pair on standby at most once per job, however often the
\* job is attempted, and no pair with an order is on standby.
StandbyCountsJobs ==
    \A p \in Pair :
        /\ standby[p] <= Cardinality({j \in Job : p \in spec[j].deferred})
        /\ standby[p] > 0 => ~HasOrder(p)

\* A frozen plan never changes, and work is only ever committed for a job that
\* is running, by the lease owner that holds the order lock.
WorkIsFenced ==
    [][\A j \in Job : spec'[j] # spec[j] /\ spec[j].state # "absent" =>
          /\ ledger[j].status = "running"
          /\ orderLock = ledger[j].owner
          /\ spec[j].state = "planned" =>
               spec'[j].rows = spec[j].rows /\ spec'[j].next > spec[j].next]_vars

\* Applying a plan, old or new, never reserves more than the stock holds then.
NeverOverReserved ==
    [][(\E p \in Pair : ~HasOrder(p) /\ order'[p].job # None) =>
          Reserved' <= stock]_vars

PhaseOf(status) ==
    CASE status = "absent"                -> "unknown"
      [] status \in Dispatchable          -> "waiting"
      [] status = "running"               -> "held"
      [] status = "succeeded"             -> "done"
      [] status \in {"failed", "skipped"} -> "dropped"

Contract ==
    INSTANCE JobContract WITH
        job <- [j \in Job |-> [phase   |-> PhaseOf(ledger[j].status),
                               attempt |-> ledger[j].attempt,
                               holder  |-> ledger[j].owner]]

\* Seen through its ledger row, processing keeps the contract of a job.
KeepsContract == Contract!Spec
=============================================================================
