------------------------------ MODULE Ingestion ------------------------------
(***************************************************************************)
(* The full refresh from Databricks (src/app/modules/ingestao and            *)
(* src/app/workers/tasks/ingestao.py): an execution claims a job, takes the  *)
(* session lock of the ingestion, reads five views one after the other while *)
(* the source moves on, publishes the photo in one transaction under the     *)
(* order-state lock, and records the outcome of the job in another.          *)
(*                                                                          *)
(* As in OrdersProcessing a lease is a flag that time may clear, a deadline  *)
(* a flag that time may set.                                                *)
(***************************************************************************)
EXTENDS SourceRows

CONSTANTS
    Job, Run, None,
    Pair,           \* pairs <<order, product>>
    PendingRows,    \* the lines the view of open orders has for each pair
    ErpRows,        \* the lines the view of processed orders has for each pair
    PendingDefects, \* what a read may meet, <<"total" or "channel", pair>>
    ErpDefects,
    StockViews, BillingViews, ReferenceViews,   \* what the other views may return
    Blocked,        \* pairs whose client has no credit
    Start,          \* where the pairs may be when the backend is deployed
    Started,        \* topics of news that an earlier refresh observed, still empty
    MaxAttempts     \* INGESTION_JOB_MAX_ATTEMPTS

\* The lines of a pair: sizes, items and money are numbers.
Line(p) == [pair : {p}, size : Int, qty : Int, value : Int,
            channel : {"Franquia", "Multimarca", NoChannel}, named : BOOLEAN]

ASSUME IngestionAssumption ==
    /\ IsFiniteSet(Pair) /\ Blocked \subseteq Pair
    /\ \A p \in Pair : PendingRows[p] \in Seq(Line(p)) /\ ErpRows[p] \in Seq(Line(p))
    /\ PendingDefects \cup ErpDefects \subseteq {"total", "channel"} \X Pair
    /\ MaxAttempts \in Nat \ {0}
    /\ Start \subseteq [Pair -> {"none", "open", "both", "erp", "closed"}]
    /\ Started \subseteq {"orders", "history"}
    /\ None \notin Run

VARIABLES
    world,      \* where the ERP has each pair
    job,        \* the job's row in durable_jobs
    jobLock,    \* holder of the session lock INGESTION_JOB_LOCK
    busy,       \* does another writer hold ORDER_STATE_MUTATION_LOCK
    draft,      \* pairs that writer is about to put on standby
    db,         \* the five tables, the read model and the standby rows
    news,       \* the ledger of observed keys and the events it caused
    run,        \* the executions
    carried,    \* history: pairs the published photo must show
    published   \* history: attempts of each job whose photo was committed

vars == <<world, job, jobLock, busy, draft, db, news, run, carried, published>>

Stage    == {"none", "open", "both", "erp", "closed"}
Tables   == {"pending", "stock", "erp", "billing", "reference"}
Final    == {"succeeded", "failed", "skipped"}
Waiting  == {"queued", "retrying"}
Nothing  == <<>>    \* a table with no rows

\* _coletar_snapshot.  Fault: the ERP is read first.
ErpFirst    == <<"erp", "stock", "pending", "billing", "reference">>
SourceOrder == <<"pending", "stock", "erp", "billing", "reference">>

Fresh == [pc |-> "idle", job |-> None, attempt |-> 0, step |-> 1, outcome |-> "none",
          photo |-> [t \in Tables |-> Nothing], seen |-> {}]

TypeOK ==
    /\ world \in [Pair -> Stage]
    /\ job \in [Job -> [status : Waiting \cup Final \cup {"absent", "running"},
                        attempt : 0..MaxAttempts, owner : Run \cup {None},
                        live : BOOLEAN, late : BOOLEAN]]
    /\ jobLock \in Run \cup {None}
    /\ busy \in BOOLEAN
    /\ draft \subseteq Pair /\ carried \subseteq Pair
    /\ db.read \in [Pair -> {"absent", "pending", "erp"}] /\ db.standby \subseteq Pair
    /\ \A r \in Run :
         /\ run[r].pc \in {"idle", "lock", "read", "swap", "unlock", "succeed",
                           "failing", "killed", "end"}
         /\ run[r].step \in 1..5
         /\ run[r].outcome \in {"none", "retry", "fail", "skip"}
    /\ published \in [Job -> SUBSET (1..MaxAttempts)]

Init ==
    /\ world \in Start
    /\ job = [j \in Job |-> [status |-> "absent", attempt |-> 0, owner |-> None,
                             live |-> FALSE, late |-> FALSE]]
    /\ jobLock = None
    /\ busy = FALSE
    /\ draft = {}
    /\ db = [pending |-> Nothing, stock |-> Nothing, erp |-> Nothing,
             billing |-> Nothing, reference |-> Nothing,
             read |-> [p \in Pair |-> "absent"], standby |-> {}]
    /\ news = [started |-> [t \in {"orders", "history"} |-> t \in Started],
               known |-> [t \in {"orders", "history"} |-> {}],
               told |-> [t \in {"orders", "history"} |-> [p \in Pair |-> 0]],
               alerts |-> {}, current |-> TRUE]
    /\ run = [r \in Run |-> Fresh]
    /\ carried = {}
    /\ published = [j \in Job |-> {}]

-----------------------------------------------------------------------------
(* The source. *)

Open == {p \in Pair : world[p] \in {"open", "both"}}
Done == {p \in Pair : world[p] \in {"both", "erp"}}

Spoilt(rows, kind) ==
    CASE kind = "total"   -> [rows EXCEPT ![1].value = @ + 1]
      [] kind = "channel" -> [rows EXCEPT ![1].channel = NoChannel]

\* A total that a read meets spoilt contradicts another line of its pair.
ASSUME SpoiltTotalsContradict ==
    /\ \A d \in PendingDefects : d[1] = "total" =>
         LET lines == Spoilt(PendingRows[d[2]], "total")
         IN  Cardinality(Totals(lines, UsablePending(lines), d[2], FALSE)) > 1
    /\ \A d \in ErpDefects : d[1] = "total" =>
         LET lines == Spoilt(ErpRows[d[2]], "total")
         IN  Cardinality(Totals(lines, UsableErp(lines), d[2], TRUE)) > 1

\* The lines of p, which may be the pair a read meets spoilt.
LinesOf(rows, p, bad) == IF bad # None /\ bad[2] = p THEN Spoilt(rows[p], bad[1]) ELSE rows[p]

\* The lines of the pairs in S, those of one of them possibly spoilt.
Views(rows, S, Defects) ==
    LET lines(bad) == FoldFunction(LAMBDA one, others : others \o one, <<>>,
                                   [p \in S |-> LinesOf(rows, p, bad)])
    IN  {lines(bad) : bad \in {None} \cup {d \in Defects : d[2] \in S}}

ViewsOf(t, S) ==
    CASE t = "pending"   -> Views(PendingRows, S, PendingDefects)
      [] t = "erp"       -> Views(ErpRows, S, ErpDefects)
      [] t = "stock"     -> StockViews
      [] t = "billing"   -> BillingViews
      [] t = "reference" -> ReferenceViews

Refused(t, lines) ==
    CASE t = "pending" -> ChannelsRefused(lines, UsablePending(lines))
      [] t = "erp"     -> ChannelsRefused(lines, UsableErp(lines))
      [] t = "billing" -> BillingRefused(lines)
      [] OTHER         -> FALSE

TableOf(t, lines) ==
    CASE t = "pending"   -> PendingTable(lines)
      [] t = "erp"       -> ErpTable(lines)
      [] t = "stock"     -> StockTable(lines)
      [] t = "billing"   -> BillingTable(lines)
      [] t = "reference" -> ReferenceTable(lines)

\* What a refresh makes of each view, by the pairs that are in it.
Prepared ==
    {[view |-> v[1], of |-> v[2], refused |-> Refused(v[1], v[3]),
      table |-> TableOf(v[1], v[3])] :
       v \in UNION {{<<t, S, lines>> : lines \in ViewsOf(t, S)} :
                      t \in Tables, S \in SUBSET Pair}}

Reads(t) ==
    {v \in Prepared : v.view = t /\ v.of = IF t = "pending" THEN Open ELSE Done}

\* Pairs move on and never back: what is processed is not opened again.
SourceMoves(p) ==
    /\ \/ world[p] = "none" /\ world' = [world EXCEPT ![p] = "open"]
       \/ world[p] = "open" /\ \E s \in {"both", "erp", "closed"} :
                                  world' = [world EXCEPT ![p] = s]
       \/ world[p] = "both" /\ world' = [world EXCEPT ![p] = "erp"]
    /\ UNCHANGED <<job, jobLock, busy, draft, db, news, run, carried, published>>

-----------------------------------------------------------------------------
(* The ledger row of a job. *)

Set(j, status) ==
    job' = [job EXCEPT ![j] = [@ EXCEPT !.status = status, !.owner = None,
                                        !.live = FALSE, !.late = FALSE]]

\* Fault: the transition does not ask who holds the lease.
HoldsAnyLease(r) == job[run[r].job].status = "running"

HoldsLease(r) ==
    LET row == job[run[r].job]
    IN  row.status = "running" /\ row.owner = r /\ row.live /\ ~row.late

\* registrar_sincronizacao; the scope full-refresh has one active job.
Submit(j) ==
    /\ job[j].status = "absent"
    /\ \A k \in Job : job[k].status \in Final \cup {"absent"}
    /\ job' = [job EXCEPT ![j].status = "queued"]
    /\ UNCHANGED <<world, jobLock, busy, draft, db, news, run, carried, published>>

\* claim_job, which also writes the first heartbeat.
ClaimJob(r, j) ==
    /\ job[j].status \in Waiting /\ job[j].attempt < MaxAttempts /\ ~job[j].late
    /\ job' = [job EXCEPT ![j] = [job[j] EXCEPT !.status = "running", !.owner = r,
                                                !.attempt = @ + 1, !.live = TRUE]]

\* A message reaches an execution and the row is claimable.
Claim(r, j) ==
    /\ run[r].pc = "idle"
    /\ ClaimJob(r, j)
    /\ run' = [run EXCEPT ![r] = [Fresh EXCEPT !.pc = "lock", !.job = j,
                                               !.attempt = job[j].attempt + 1]]
    /\ UNCHANGED <<world, jobLock, busy, draft, db, news, carried, published>>

LeaseRunsOut(j) ==
    /\ job[j].live
    /\ job' = [job EXCEPT ![j].live = FALSE]
    /\ UNCHANGED <<world, jobLock, busy, draft, db, news, run, carried, published>>

DeadlinePasses(j) ==
    /\ job[j].status \in Waiting \cup {"running"} /\ ~job[j].late
    /\ job' = [job EXCEPT ![j] = [@ EXCEPT !.late = TRUE, !.live = FALSE]]
    /\ UNCHANGED <<world, jobLock, busy, draft, db, news, run, carried, published>>

\* reconcile_expired for one row.
Sweep(j) ==
    /\ \/ /\ job[j].status = "running" /\ ~job[j].live
          /\ IF job[j].attempt < MaxAttempts /\ ~job[j].late
               THEN Set(j, "retrying") ELSE Set(j, "failed")
       \/ job[j].status \in Waiting /\ job[j].late /\ Set(j, "skipped")
    /\ UNCHANGED <<world, jobLock, busy, draft, db, news, run, carried, published>>

-----------------------------------------------------------------------------
(* sincronizar_tudo: the lock, the collection. *)

\* Fault: what hold() answers is ignored.
LockAlwaysTaken(r) ==
    /\ run[r].pc = "lock"
    /\ jobLock' = r
    /\ run' = [run EXCEPT ![r].pc = "read"]
    /\ UNCHANGED <<world, job, busy, draft, db, news, carried, published>>

TryLock(r) ==
    /\ run[r].pc = "lock"
    /\ \/ /\ jobLock = None
          /\ jobLock' = r
          /\ run' = [run EXCEPT ![r].pc = "read"]
       \/ /\ jobLock # None
          /\ run' = [run EXCEPT ![r] = [@ EXCEPT !.pc = "failing", !.outcome = "skip"]]
          /\ UNCHANGED jobLock
    /\ UNCHANGED <<world, job, busy, draft, db, news, carried, published>>

\* Pairs that were carried from the first read to this one, unless their lines
\* are among those that are dropped.
SeenAfter(r, t, table) ==
    LET still == {p \in Pair : world[p] \in {"open", "both", "erp"}}
        shown == Pair \ ((IF t = "pending" THEN Open \ Done ELSE Done) \ DOMAIN table)
        before == IF run[r].step = 1 THEN Pair ELSE run[r].seen
    IN  IF t \in {"pending", "erp"} THEN before \cap still \cap shown ELSE before

Read(r) ==
    /\ run[r].pc = "read"
    /\ LET t == SourceOrder[run[r].step]
       IN  \E view \in Reads(t) :
             /\ ~view.refused
             /\ run' = [run EXCEPT ![r] =
                          [run[r] EXCEPT !.photo[t] = view.table,
                                         !.seen = SeenAfter(r, t, view.table),
                                         !.step = IF @ = 5 THEN 5 ELSE @ + 1,
                                         !.pc = IF run[r].step = 5 THEN "swap" ELSE "read"]]
    /\ UNCHANGED <<world, job, jobLock, busy, draft, db, news, carried, published>>

Release(r) == jobLock' = IF jobLock = r THEN None ELSE jobLock

Fails(r, outcome) ==
    run' = [run EXCEPT ![r] = [Fresh EXCEPT !.pc = "failing", !.job = run[r].job,
                                            !.attempt = run[r].attempt,
                                            !.outcome = outcome]]

Ends(r) == run' = [run EXCEPT ![r] = [Fresh EXCEPT !.pc = "end"]]

\* A view that is refused: an internal error, which is not retried.
ReadRefused(r) ==
    /\ run[r].pc = "read"
    /\ \E view \in Reads(SourceOrder[run[r].step]) : view.refused
    /\ Fails(r, "fail")
    /\ Release(r)
    /\ UNCHANGED <<world, job, busy, draft, db, news, carried, published>>

\* An error of the Databricks client, the time budget, an error of the database
\* or of the heartbeat task.  Only the client has errors worth a retry.
\* Fault: the session lock is kept.
SyncFailsLocked(r, outcome) ==
    /\ run[r].pc \in {"read", "swap"}
    /\ run[r].pc = "swap" => outcome = "fail"
    /\ Fails(r, outcome)
    /\ UNCHANGED <<world, job, jobLock, busy, draft, db, news, carried, published>>

SyncFails(r, outcome) ==
    /\ run[r].pc \in {"read", "swap"}
    /\ run[r].pc = "swap" => outcome = "fail"
    /\ Fails(r, outcome)
    /\ Release(r)
    /\ UNCHANGED <<world, job, busy, draft, db, news, carried, published>>

\* The heartbeat matched no row: the collection is cancelled, and the ledger is
\* left to the sweeper.
KeeperLost(r) ==
    /\ run[r].pc \in {"read", "swap", "unlock"}
    /\ ~HoldsLease(r)
    /\ Ends(r)
    /\ Release(r)
    /\ UNCHANGED <<world, job, busy, draft, db, news, carried, published>>

-----------------------------------------------------------------------------
(* _aplicar_snapshot. *)

\* A view with nothing usable leaves its table as it is.  The read model is rebuilt
\* from both tables of orders, and standby rows of pairs no longer pending go.
KeptOrReplaced(r, t) ==
    IF run[r].photo[t] = Nothing THEN db[t] ELSE run[r].photo[t]

Refreshed(r) ==
    LET read == ReadModel(KeptOrReplaced(r, "pending"), KeptOrReplaced(r, "erp"), Pair)
    IN  [pending   |-> KeptOrReplaced(r, "pending"),
         stock     |-> KeptOrReplaced(r, "stock"),
         erp       |-> KeptOrReplaced(r, "erp"),
         billing   |-> KeptOrReplaced(r, "billing"),
         reference |-> KeptOrReplaced(r, "reference"),
         read      |-> read,
         standby   |-> {p \in db.standby : read[p] = "pending"}]

\* observe_keys: keys never seen before are new, except those of the first
\* observation of a topic.  Fault: every key is new after the baseline.
AllAreNew(t, keys) == IF news.started[t] THEN keys ELSE {}

NewKeys(t, keys) == IF news.started[t] THEN keys \ news.known[t] ELSE {}

\* observe_active_keys: after an empty photo too, the active keys of the topic are
\* the alerts of the photo, and no others.
ActiveAlerts(tables) ==
    Alerts(tables.pending, tables.erp, tables.stock,
           [p \in Pair |-> PendingRows[p][1].channel], Blocked)

\* _registrar_novidades_realtime, in the transaction of the swap.  With no usable
\* open order the topics of orders and alerts are left alone.
Observed(r) ==
    LET fresh == Refreshed(r)
        complete == run[r].photo["pending"] # Nothing
        keys  == [t \in {"orders", "history"} |->
                    IF t = "history" THEN DOMAIN fresh.erp
                    ELSE DOMAIN fresh.pending \ DOMAIN fresh.erp]
        topics == {t \in {"orders", "history"} : t = "history" \/ complete}
    IN  [started |-> [t \in DOMAIN keys |-> news.started[t] \/ t \in topics],
         known   |-> [t \in DOMAIN keys |->
                        news.known[t] \cup (IF t \in topics THEN keys[t] ELSE {})],
         told    |-> [t \in DOMAIN keys |-> [p \in Pair |->
                        news.told[t][p] +
                          (IF t \in topics /\ p \in NewKeys(t, keys[t]) THEN 1 ELSE 0)]],
         alerts  |-> IF complete THEN ActiveAlerts(fresh) ELSE news.alerts,
         current |-> complete]

\* Fault: the order-state lock is not asked for.
SwapUnlocked(r) ==
    /\ run[r].pc = "swap"
    /\ db' = Refreshed(r)
    /\ news' = Observed(r)
    /\ carried' = run[r].seen
    /\ published' = [published EXCEPT ![run[r].job] = @ \cup {run[r].attempt}]
    /\ run' = [run EXCEPT ![r] = [Fresh EXCEPT !.pc = "unlock", !.job = run[r].job,
                                               !.attempt = run[r].attempt]]
    /\ UNCHANGED <<world, job, jobLock, busy, draft>>

\* The order-state lock is taken for this transaction, whose tables, read model
\* and events become visible together.
Swap(r) ==
    /\ run[r].pc = "swap"
    /\ ~busy
    /\ db' = Refreshed(r)
    /\ news' = Observed(r)
    /\ carried' = run[r].seen
    /\ published' = [published EXCEPT ![run[r].job] = @ \cup {run[r].attempt}]
    /\ run' = [run EXCEPT ![r] = [Fresh EXCEPT !.pc = "unlock", !.job = run[r].job,
                                               !.attempt = run[r].attempt]]
    /\ UNCHANGED <<world, job, jobLock, busy, draft>>

\* The order state stayed busy for 12 s: the collected photo is thrown away.
SwapBusy(r) ==
    /\ run[r].pc = "swap"
    /\ busy
    /\ Fails(r, "skip")
    /\ Release(r)
    /\ UNCHANGED <<world, job, busy, draft, db, news, carried, published>>

\* The commit is done; now hold() unlocks.
Unlock(r) ==
    /\ run[r].pc = "unlock"
    /\ run' = [run EXCEPT ![r].pc = "succeed"]
    /\ Release(r)
    /\ UNCHANGED <<world, job, busy, draft, db, news, carried, published>>

-----------------------------------------------------------------------------
(* The outcome, in a transaction of its own. *)

Succeed(r) ==
    /\ run[r].pc = "succeed"
    /\ \/ HoldsLease(r) /\ Set(run[r].job, "succeeded")
       \/ ~HoldsLease(r) /\ UNCHANGED job
    /\ Ends(r)
    /\ UNCHANGED <<world, jobLock, busy, draft, db, news, carried, published>>

SkipJob(r)  == HoldsLease(r) /\ Set(run[r].job, "skipped")
RetryJob(r) == HoldsLease(r) /\ Set(run[r].job, "retrying")
FailJob(r)  == HoldsLease(r) /\ Set(run[r].job, "failed")

\* A retry that cannot start before the deadline fails the job, as the last
\* attempt does.
Transition(r) ==
    /\ run[r].pc = "failing"
    /\ \/ run[r].outcome = "skip" /\ SkipJob(r)
       \/ run[r].outcome = "retry" /\ job[run[r].job].attempt < MaxAttempts /\ RetryJob(r)
       \/ run[r].outcome \in {"retry", "fail"} /\ FailJob(r)
       \/ ~HoldsLease(r) /\ UNCHANGED job
    /\ Ends(r)
    /\ UNCHANGED <<world, jobLock, busy, draft, db, news, carried, published>>

Crash(r) ==
    /\ run[r].pc \notin {"idle", "killed", "end"}
    /\ run' = [run EXCEPT ![r] = [Fresh EXCEPT !.pc = "killed"]]
    /\ UNCHANGED <<world, job, jobLock, busy, draft, db, news, carried, published>>

ServerDropsConnection(r) ==
    /\ run[r].pc = "killed"
    /\ Ends(r)
    /\ Release(r)
    /\ UNCHANGED <<world, job, busy, draft, db, news, carried, published>>

-----------------------------------------------------------------------------
(* Orders processing, the other writer of standby rows. *)

WriterStarts ==
    /\ ~busy
    /\ busy' = TRUE
    /\ \E p \in Pair : db.read[p] = "pending" /\ draft' = {p}
    /\ UNCHANGED <<world, job, jobLock, db, news, run, carried, published>>

WriterCommits ==
    /\ busy
    /\ busy' = FALSE
    /\ db' = [db EXCEPT !.standby = @ \cup draft]
    /\ draft' = {}
    /\ UNCHANGED <<world, job, jobLock, news, run, carried, published>>

-----------------------------------------------------------------------------
Progress(r) ==
    \/ TryLock(r) \/ Read(r) \/ ReadRefused(r)
    \/ \E outcome \in {"retry", "fail"} : SyncFails(r, outcome)
    \/ Swap(r) \/ SwapBusy(r) \/ Unlock(r)
    \/ Succeed(r) \/ Transition(r)
    \/ ServerDropsConnection(r)

Next ==
    \/ \E p \in Pair : SourceMoves(p)
    \/ \E j \in Job : Submit(j) \/ LeaseRunsOut(j) \/ DeadlinePasses(j) \/ Sweep(j)
    \/ \E r \in Run : \/ \E j \in Job : Claim(r, j)
                      \/ Progress(r) \/ KeeperLost(r) \/ Crash(r)
    \/ WriterStarts \/ WriterCommits

Spec == Init /\ [][Next]_vars

\* An execution has time limits on everything it waits for, time passes, and the
\* sweep recurs.
FairSpec ==
    /\ Spec
    /\ \A r \in Run : WF_vars(Progress(r))
    /\ \A j \in Job : WF_vars(DeadlinePasses(j)) /\ WF_vars(Sweep(j))

-----------------------------------------------------------------------------
(* What is checked. *)

\* The ERP view shows every processed pair: no line is dropped because it
\* contradicts another of its pair.  NeverBackToPending and PendingIsKnown rest
\* on this of the source.
ErpViewIsWhole ==
    \A view \in Prepared :
        view.view = "erp" /\ ~view.refused => DOMAIN view.table = view.of

Sum(f) == SumFunction([s \in DOMAIN f |-> f[s].value])

Stated(rows, signed) ==
    {Money(rows[i].value, signed) : i \in DOMAIN rows}

\* A pair that the source had, open or processed, from the first read to the last
\* is in the photo, although it may have moved from one view to the other between two
\* reads.
CarriedIsShown == \A p \in carried : db.read[p] # "absent"

\* The money of a pair is what the source states, neither multiplied by its sizes nor
\* rounded away.
MoneyIsStated ==
    /\ \A p \in DOMAIN db.pending : Sum(db.pending[p]) \in Stated(PendingRows[p], FALSE)
    /\ \A p \in DOMAIN db.erp :
         Sum(db.erp[p]) \in Stated(ErpRows[p], TRUE) \cup {0}

\* The photo shows every pair it should, with the money of the source.
PhotoIsFaithful == CarriedIsShown /\ MoneyIsStated

\* Standby rows refer to pairs that are pending: the cleanup runs against the
\* new read model and no other writer is halfway through.
StandbyIsPending == \A p \in db.standby : db.read[p] = "pending"

ToldOnce == \A t \in {"orders", "history"}, p \in Pair : news.told[t][p] <= 1

PendingIsKnown   == \A p \in Pair : db.read[p] = "pending" => p \in news.known["orders"]
ProcessedIsKnown == \A p \in Pair : db.read[p] = "erp" => p \in news.known["history"]

AlertsOfThePhoto == news.current => news.alerts = ActiveAlerts(db)

\* A pair is announced at most once over all refreshes, retries and restarts, a
\* pair that is shown has been observed, and after a complete photo the ledger
\* holds the alerts of that photo, their end included.
NewsFollowThePhoto == ToldOnce /\ PendingIsKnown /\ ProcessedIsKnown /\ AlertsOfThePhoto

\* A job counts as succeeded only if the attempt it counts published a photo.
SuccessMeansPublished ==
    \A j \in Job : job[j].status = "succeeded" => job[j].attempt \in published[j]

\* A pair the backend knows as processed never becomes pending again, where it
\* would be planned and reserved a second time: photos replace each other in the order
\* they were taken.
NeverBackToPending ==
    [][\A p \in Pair : db.read[p] = "erp" => db'.read[p] # "pending"]_vars

\* Whatever dies or hangs, every refresh is resolved and nobody keeps the lock
\* of the ingestion.
EveryRefreshEnds ==
    /\ \A j \in Job : job[j].status \in Waiting \cup {"running"} ~>
                        job[j].status \in Final
    /\ \A r \in Run : jobLock = r ~> jobLock # r
=============================================================================
