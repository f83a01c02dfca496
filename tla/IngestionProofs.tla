--------------------------- MODULE IngestionProofs ---------------------------
(***************************************************************************)
(* Proofs about Ingestion for every value of its constants.                 *)
(*                                                                          *)
(* First the protocol around a photo: the session lock, the lease, the      *)
(* transaction of the swap, the ledger of observed keys and the order of    *)
(* the reads.  The tables of a photo are there any tables that a view may   *)
(* be turned into.  Then the money of those tables, for which the           *)
(* aggregation (SourceRows) is unfolded: sums, the shares of the sizes, the *)
(* lines of a view put together.                                            *)
(***************************************************************************)
EXTENDS Ingestion, FiniteSetTheorems, WellFoundedInduction, TLAPS

Topics == {"orders", "history"}

\* A table of a photo, or of the database.
Contents == {Nothing} \cup {view.table : view \in Prepared}

Execution == [pc : {"idle", "lock", "read", "swap", "unlock", "succeed", "failing",
                    "killed", "end"},
              job : Job \cup {None}, attempt : 0..MaxAttempts, step : 1..5,
              outcome : {"none", "retry", "fail", "skip"},
              photo : [Tables -> Contents], seen : SUBSET Pair]

Database == [pending : Contents, stock : Contents, erp : Contents, billing : Contents,
             reference : Contents, read : [Pair -> {"absent", "pending", "erp"}],
             standby : SUBSET Pair]

JobRow == [status : Waiting \cup Final \cup {"absent", "running"},
           attempt : 0..MaxAttempts, owner : Run \cup {None},
           live : BOOLEAN, late : BOOLEAN]

\* TypeOK, and the shape of what it leaves open.
Typed ==
    /\ world \in [Pair -> Stage]
    /\ job \in [Job -> JobRow]
    /\ jobLock \in Run \cup {None}
    /\ busy \in BOOLEAN
    /\ draft \in SUBSET Pair
    /\ carried \in SUBSET Pair
    /\ db \in Database
    /\ run \in [Run -> Execution]
    /\ published \in [Job -> SUBSET (1..MaxAttempts)]

-----------------------------------------------------------------------------
(* The executions. *)

Collecting(r) == run[r].pc \in {"read", "swap", "unlock"}

\* The session lock is held from the first read to the end of the swap.
LockIsHeld == \A r \in Run : Collecting(r) => jobLock = r

AtWork(r) == run[r].pc \in {"lock", "read", "swap", "unlock", "succeed", "failing"}

\* An execution at work carries the number its claim was given, and while its
\* lease lasts that number is the one its row counts.
ClaimsAreKept ==
    \A r \in Run : AtWork(r) =>
        /\ run[r].job \in Job
        /\ run[r].attempt \in 1..MaxAttempts
        /\ job[run[r].job].owner = r => job[run[r].job].attempt = run[r].attempt

\* After the swap the photo of the attempt is there.
SwapIsDone ==
    \A r \in Run : run[r].pc \in {"unlock", "succeed"} =>
                     run[r].attempt \in published[run[r].job]

-----------------------------------------------------------------------------
(* What is published. *)

ReadIsRebuilt == db.read = ReadModel(db.pending, db.erp, Pair)

\* The other writer is halfway only while it holds the lock of the order state.
DraftIsPending ==
    /\ ~busy => draft = {}
    /\ \A p \in draft : db.read[p] = "pending"

NewsTyped ==
    /\ news.started \in [Topics -> BOOLEAN]
    /\ news.known = [t \in Topics |-> news.known[t]]
    /\ news.told \in [Topics -> [Pair -> Nat]]

UnknownIsUntold ==
    \A t \in Topics, p \in Pair : p \notin news.known[t] => news.told[t][p] = 0

\* The inductive invariant.
IngestionInv ==
    /\ Typed
    /\ LockIsHeld /\ ClaimsAreKept /\ SwapIsDone /\ SuccessMeansPublished
    /\ ReadIsRebuilt /\ DraftIsPending /\ StandbyIsPending
    /\ NewsTyped /\ UnknownIsUntold /\ ToldOnce /\ ProcessedIsKnown /\ AlertsOfThePhoto

LEMMA FreshIsTyped == Fresh \in Execution
<1>1. [t \in Tables |-> Nothing] \in [Tables -> Contents]
  BY DEF Contents
<1>2. 0 \in 0..MaxAttempts /\ 1 \in 1..5
  BY IngestionAssumption
<1> QED BY <1>1, <1>2 DEF Fresh, Execution

LEMMA InvInitially == Init => IngestionInv
<1> SUFFICES ASSUME Init PROVE IngestionInv
  OBVIOUS
<1> USE IngestionAssumption DEF Init
<1>1. Typed
  <2>1. world \in [Pair -> Stage]
    BY DEF Stage
  <2>2. job \in [Job -> JobRow]
    BY DEF JobRow
  <2>3. db \in Database
    BY DEF Database, Contents
  <2>4. run \in [Run -> Execution]
    BY FreshIsTyped
  <2> QED BY <2>1, <2>2, <2>3, <2>4 DEF Typed
<1>2. LockIsHeld /\ ClaimsAreKept /\ SwapIsDone
  BY DEF LockIsHeld, Collecting, ClaimsAreKept, AtWork, SwapIsDone, Fresh
<1>3. SuccessMeansPublished
  BY DEF SuccessMeansPublished
<1>4. ReadIsRebuilt
  <2>1. \A p \in Pair : p \notin DOMAIN Nothing
    BY DEF Nothing
  <2> QED BY <2>1 DEF ReadIsRebuilt, ReadModel
<1>5. DraftIsPending /\ StandbyIsPending
  BY DEF DraftIsPending, StandbyIsPending
<1>6. NewsTyped /\ UnknownIsUntold /\ ToldOnce /\ ProcessedIsKnown /\ AlertsOfThePhoto
  <2>1. /\ news.told = [t \in Topics |-> [p \in Pair |-> 0]]
        /\ news.known = [t \in Topics |-> {}]
        /\ news.started = [t \in Topics |-> t \in Started]
    BY DEF Topics
  <2>2. NewsTyped /\ UnknownIsUntold /\ ToldOnce
    BY <2>1 DEF NewsTyped, UnknownIsUntold, ToldOnce, Topics
  <2>3. ProcessedIsKnown
    BY DEF ProcessedIsKnown
  <2>4. AlertsOfThePhoto
    <3>1. DOMAIN db.pending = {}
      BY DEF Nothing
    <3>2. ActiveAlerts(db) = {}
      BY <3>1 DEF ActiveAlerts, Alerts
    <3> QED BY <3>2 DEF AlertsOfThePhoto
  <2> QED BY <2>2, <2>3, <2>4
<1> QED BY <1>1, <1>2, <1>3, <1>4, <1>5, <1>6 DEF IngestionInv

-----------------------------------------------------------------------------
(* Attempts and the lock. *)

\* Other executions are where they were.
Alone(r) == \A s \in Run : s # r => run'[s] = run[s]

\* r keeps its claim, or has nothing left to do with it.
KeepsClaim(r) ==
    AtWork(r)' =>
        /\ AtWork(r)
        /\ run'[r].job = run[r].job
        /\ run'[r].attempt = run[r].attempt
        /\ run'[r].pc \in {"unlock", "succeed"} =>
             run[r].attempt \in published'[run[r].job]

\* No row is claimed, and none succeeds without its photo.
NoClaim ==
    \A j \in Job :
        /\ job'[j].attempt = job[j].attempt
        /\ job'[j].owner \in {job[j].owner, None}
        /\ job'[j].status = "succeeded" =>
             job[j].status = "succeeded" \/ job[j].attempt \in published[j]

OnlyMore == \A j \in Job : published[j] \subseteq published'[j]

LEMMA AttemptsStep ==
    ASSUME Typed, ClaimsAreKept, SwapIsDone, SuccessMeansPublished,
           NoClaim, OnlyMore, NEW r \in Run, Alone(r), KeepsClaim(r)
    PROVE  ClaimsAreKept' /\ SwapIsDone' /\ SuccessMeansPublished'
<1>1. ASSUME NEW s \in Run, AtWork(s)'
      PROVE  /\ AtWork(s)
             /\ run'[s].job = run[s].job
             /\ run'[s].attempt = run[s].attempt
             /\ run'[s].pc \in {"unlock", "succeed"} =>
                  run[s].attempt \in published'[run[s].job]
  <2>1. CASE s = r
    BY <1>1, <2>1 DEF KeepsClaim
  <2>2. CASE s # r
    BY <1>1, <2>2 DEF Alone, AtWork, OnlyMore, SwapIsDone, ClaimsAreKept
  <2> QED BY <2>1, <2>2
<1>2. ClaimsAreKept'
  <2> SUFFICES ASSUME NEW s \in Run, AtWork(s)'
               PROVE  /\ run'[s].job \in Job
                      /\ run'[s].attempt \in 1..MaxAttempts
                      /\ job'[run'[s].job].owner = s =>
                           job'[run'[s].job].attempt = run'[s].attempt
    BY DEF ClaimsAreKept
  <2>1. s # None
    BY IngestionAssumption
  <2> QED BY <1>1, <2>1 DEF NoClaim, ClaimsAreKept
<1>3. SwapIsDone'
  BY <1>1 DEF SwapIsDone, AtWork
<1>4. SuccessMeansPublished'
  BY DEF SuccessMeansPublished, NoClaim, OnlyMore
<1> QED BY <1>2, <1>3, <1>4

LEMMA ClaimStep ==
    ASSUME Typed, ClaimsAreKept, SwapIsDone, SuccessMeansPublished,
           NEW r \in Run, NEW j \in Job, Claim(r, j)
    PROVE  ClaimsAreKept' /\ SwapIsDone' /\ SuccessMeansPublished'
<1>1. /\ job' = [job EXCEPT ![j] = [job[j] EXCEPT !.status = "running", !.owner = r,
                                                 !.attempt = @ + 1, !.live = TRUE]]
      /\ job[j].attempt < MaxAttempts
      /\ run' = [run EXCEPT ![r] = [Fresh EXCEPT !.pc = "lock", !.job = j,
                                                !.attempt = job[j].attempt + 1]]
      /\ UNCHANGED published
  BY DEF Claim, ClaimJob
<1>2. /\ job'[j].status = "running"
      /\ job'[j].owner = r
      /\ job'[j].attempt = job[j].attempt + 1
      /\ \A k \in Job : k # j => job'[k] = job[k]
      /\ job[j].attempt + 1 \in 1..MaxAttempts
  BY <1>1, IngestionAssumption DEF Typed, JobRow
<1>3. /\ run'[r].pc = "lock"
      /\ run'[r].job = j
      /\ run'[r].attempt = job[j].attempt + 1
      /\ Alone(r)
  BY <1>1 DEF Typed, Alone, Fresh
<1>4. ClaimsAreKept'
  BY <1>2, <1>3 DEF ClaimsAreKept, Alone, AtWork
<1>5. SwapIsDone'
  BY <1>1, <1>3 DEF SwapIsDone, Alone
<1>6. SuccessMeansPublished'
  BY <1>1, <1>2 DEF SuccessMeansPublished
<1> QED BY <1>4, <1>5, <1>6

LEMMA LockStep ==
    ASSUME LockIsHeld, NEW r \in Run, Alone(r), Collecting(r)' => jobLock' = r,
           \A s \in Run : s # r /\ jobLock = s => jobLock' = s
    PROVE  LockIsHeld'
  BY DEF LockIsHeld, Alone, Collecting

\* Nothing that concerns executions.
LEMMA RunsRest ==
    ASSUME Typed, LockIsHeld, ClaimsAreKept, SwapIsDone, SuccessMeansPublished,
           NoClaim, UNCHANGED <<run, jobLock, published>>
    PROVE  LockIsHeld' /\ ClaimsAreKept' /\ SwapIsDone' /\ SuccessMeansPublished'
<1>1. LockIsHeld'
  BY DEF LockIsHeld, Collecting
<1>2. ClaimsAreKept'
  <2>1. \A s \in Run : s # None
    BY IngestionAssumption
  <2> QED BY <2>1 DEF ClaimsAreKept, AtWork, NoClaim
<1>3. SwapIsDone' /\ SuccessMeansPublished'
  BY DEF SwapIsDone, SuccessMeansPublished, NoClaim
<1> QED BY <1>1, <1>2, <1>3

ExecInv ==
    /\ job \in [Job -> JobRow]
    /\ jobLock \in Run \cup {None}
    /\ run \in [Run -> Execution]
    /\ published \in [Job -> SUBSET (1..MaxAttempts)]
    /\ LockIsHeld /\ ClaimsAreKept /\ SwapIsDone /\ SuccessMeansPublished

LEMMA SetIsNoClaim ==
    ASSUME Typed, NEW j \in Job, NEW status \in Waiting \cup Final, Set(j, status),
           status = "succeeded" => job[j].attempt \in published[j]
    PROVE  NoClaim /\ job' \in [Job -> JobRow]
<1>1. job' = [job EXCEPT ![j] = [job[j] EXCEPT !.status = status, !.owner = None,
                                              !.live = FALSE, !.late = FALSE]]
  BY DEF Set
<1>2. job[j] \in JobRow
  BY DEF Typed
<1>3. [job[j] EXCEPT !.status = status, !.owner = None,
                     !.live = FALSE, !.late = FALSE] \in JobRow
  BY <1>2 DEF JobRow
<1>4. job' \in [Job -> JobRow]
  BY <1>1, <1>3 DEF Typed
<1>5. /\ job'[j].status = status
      /\ job'[j].owner = None
      /\ job'[j].attempt = job[j].attempt
      /\ \A k \in Job : k # j => job'[k] = job[k]
  BY <1>1, <1>2 DEF Typed, JobRow
<1> QED BY <1>4, <1>5 DEF NoClaim

LEMMA RunTo ==
    ASSUME Typed, NEW r \in Run, NEW e \in Execution, run' = [run EXCEPT ![r] = e]
    PROVE  run' \in [Run -> Execution] /\ Alone(r) /\ run'[r] = e
  BY DEF Typed, Alone

LEMMA Released ==
    ASSUME Typed, NEW r \in Run, Release(r)
    PROVE  /\ jobLock' \in Run \cup {None}
           /\ \A s \in Run : s # r /\ jobLock = s => jobLock' = s
  BY DEF Typed, Release

\* Where an execution may stop.
Ended   == [Fresh EXCEPT !.pc = "end"]
Killed  == [Fresh EXCEPT !.pc = "killed"]
Failing(r, outcome) == [Fresh EXCEPT !.pc = "failing", !.job = run[r].job,
                                     !.attempt = run[r].attempt, !.outcome = outcome]
Published(r) == [Fresh EXCEPT !.pc = "unlock", !.job = run[r].job,
                              !.attempt = run[r].attempt]

LEMMA StopsAreTyped ==
    ASSUME Typed, NEW r \in Run
    PROVE  /\ Ended \in Execution /\ Ended.pc = "end"
           /\ Killed \in Execution /\ Killed.pc = "killed"
           /\ \A outcome \in {"none", "retry", "fail", "skip"} :
                /\ Failing(r, outcome) \in Execution
                /\ Failing(r, outcome).pc = "failing"
                /\ Failing(r, outcome).job = run[r].job
                /\ Failing(r, outcome).attempt = run[r].attempt
           /\ Published(r) \in Execution
           /\ Published(r).pc = "unlock"
           /\ Published(r).job = run[r].job
           /\ Published(r).attempt = run[r].attempt
<1>1. run[r].job \in Job \cup {None} /\ run[r].attempt \in 0..MaxAttempts
  BY DEF Typed, Execution
<1> QED BY <1>1, FreshIsTyped DEF Ended, Killed, Failing, Published, Execution

\* An execution stops, or fails, and leaves the row alone.
LEMMA StopStep ==
    ASSUME IngestionInv, NEW r \in Run, UNCHANGED published,
           NoClaim, job' \in [Job -> JobRow],
           \/ run' = [run EXCEPT ![r] = Ended]
           \/ run' = [run EXCEPT ![r] = Killed]
           \/ /\ AtWork(r)
              /\ \E outcome \in {"none", "retry", "fail", "skip"} :
                     run' = [run EXCEPT ![r] = Failing(r, outcome)],
           Release(r) \/ UNCHANGED jobLock
    PROVE  ExecInv'
<1>1. Typed
  BY DEF IngestionInv
<1>2. PICK e \in Execution :
         /\ run' = [run EXCEPT ![r] = e]
         /\ e.pc \in {"end", "killed", "failing"}
         /\ e.pc = "failing" => AtWork(r) /\ e.job = run[r].job /\ e.attempt = run[r].attempt
  BY <1>1, StopsAreTyped
<1>3. run' \in [Run -> Execution] /\ Alone(r) /\ run'[r] = e
  BY <1>1, <1>2, RunTo
<1>4. KeepsClaim(r)
  BY <1>2, <1>3 DEF KeepsClaim, AtWork
<1>5. ~Collecting(r)'
  BY <1>2, <1>3 DEF Collecting
<1>6. /\ jobLock' \in Run \cup {None}
      /\ \A s \in Run : s # r /\ jobLock = s => jobLock' = s
  BY <1>1, Released DEF Typed
<1>7. LockIsHeld'
  BY <1>3, <1>5, <1>6, LockStep DEF IngestionInv
<1>8. OnlyMore
  BY DEF OnlyMore
<1>9. ClaimsAreKept' /\ SwapIsDone' /\ SuccessMeansPublished'
  BY <1>3, <1>4, <1>8, AttemptsStep DEF IngestionInv
<1> QED BY <1>1, <1>3, <1>6, <1>7, <1>9 DEF ExecInv, Typed

\* An execution goes on with the attempt it claimed.
LEMMA WorkStep ==
    ASSUME IngestionInv, NEW r \in Run, NEW e \in Execution, AtWork(r),
           run' = [run EXCEPT ![r] = e],
           e.job = run[r].job, e.attempt = run[r].attempt,
           e.pc \in {"unlock", "succeed"} => e.attempt \in published'[e.job],
           e.pc \in {"read", "swap", "unlock"} => jobLock' = r,
           jobLock' \in Run \cup {None},
           \A s \in Run : s # r /\ jobLock = s => jobLock' = s,
           OnlyMore, published' \in [Job -> SUBSET (1..MaxAttempts)],
           UNCHANGED job
    PROVE  ExecInv'
<1>1. Typed
  BY DEF IngestionInv
<1>2. run' \in [Run -> Execution] /\ Alone(r) /\ run'[r] = e
  BY <1>1, RunTo
<1>3. KeepsClaim(r)
  BY <1>2 DEF KeepsClaim, AtWork
<1>4. LockIsHeld'
  BY <1>2, LockStep DEF IngestionInv, Collecting
<1>5. NoClaim
  BY DEF NoClaim
<1>6. ClaimsAreKept' /\ SwapIsDone' /\ SuccessMeansPublished'
  BY <1>2, <1>3, <1>5, AttemptsStep DEF IngestionInv
<1> QED BY <1>1, <1>2, <1>4, <1>6 DEF ExecInv, Typed

LEMMA JobMovesStep ==
    ASSUME IngestionInv, NoClaim, job' \in [Job -> JobRow],
           UNCHANGED <<run, jobLock, published>>
    PROVE  ExecInv'
  BY RunsRest DEF IngestionInv, ExecInv, Typed

LEMMA ExecStep ==
    ASSUME IngestionInv, [Next]_vars
    PROVE  ExecInv'
<1>0. Typed
  BY DEF IngestionInv
<1> DEFINE Idle == UNCHANGED <<job, run, jobLock, published>>
<1>1. ASSUME Idle PROVE ExecInv'
  <2>1. NoClaim /\ job' \in [Job -> JobRow]
    BY <1>0, <1>1 DEF NoClaim, Typed
  <2> QED BY <1>1, <2>1, JobMovesStep
<1>2. ASSUME NEW j \in Job, Submit(j) PROVE ExecInv'
  <2>1. NoClaim /\ job' \in [Job -> JobRow]
    BY <1>0, <1>2 DEF Submit, NoClaim, Typed, JobRow, Waiting
  <2> QED BY <1>2, <2>1, JobMovesStep DEF Submit
<1>3. ASSUME NEW j \in Job, LeaseRunsOut(j) \/ DeadlinePasses(j) PROVE ExecInv'
  <2>1. NoClaim /\ job' \in [Job -> JobRow]
    <3>0. job \in [Job -> JobRow] /\ job[j] \in JobRow
      BY <1>0 DEF Typed
    <3>1. PICK row \in {[job[j] EXCEPT !.live = FALSE],
                        [job[j] EXCEPT !.late = TRUE, !.live = FALSE]} :
            job' = [job EXCEPT ![j] = row]
      BY <1>3 DEF LeaseRunsOut, DeadlinePasses
    <3>2. /\ row \in JobRow /\ row.attempt = job[j].attempt
          /\ row.owner = job[j].owner /\ row.status = job[j].status
      <4>1. CASE row = [job[j] EXCEPT !.live = FALSE]
        BY <3>0, <4>1 DEF JobRow
      <4>2. CASE row = [job[j] EXCEPT !.late = TRUE, !.live = FALSE]
        BY <3>0, <4>2 DEF JobRow
      <4> QED BY <3>1, <4>1, <4>2
    <3>3. job' \in [Job -> JobRow]
      BY <3>0, <3>1, <3>2
    <3>4. ASSUME NEW k \in Job
          PROVE  /\ job'[k].attempt = job[k].attempt /\ job'[k].owner = job[k].owner
                 /\ job'[k].status = job[k].status
      <4>1. job'[k] = IF k = j THEN row ELSE job[k]
        BY <3>0, <3>1
      <4> QED BY <3>2, <4>1
    <3> QED BY <3>3, <3>4 DEF NoClaim
  <2> QED BY <1>3, <2>1, JobMovesStep DEF LeaseRunsOut, DeadlinePasses
<1>4. ASSUME NEW j \in Job, Sweep(j) PROVE ExecInv'
  <2>1. \E status \in {"retrying", "failed", "skipped"} : Set(j, status)
    BY <1>4 DEF Sweep
  <2>2. NoClaim /\ job' \in [Job -> JobRow]
    BY <1>0, <2>1, SetIsNoClaim DEF Waiting, Final
  <2> QED BY <1>4, <2>2, JobMovesStep DEF Sweep
<1>5. ASSUME NEW r \in Run, NEW j \in Job, Claim(r, j) PROVE ExecInv'
  <2>1. /\ job[j].attempt < MaxAttempts
        /\ job' = [job EXCEPT ![j] = [job[j] EXCEPT !.status = "running", !.owner = r,
                                                   !.attempt = @ + 1, !.live = TRUE]]
        /\ run' = [run EXCEPT ![r] = [Fresh EXCEPT !.pc = "lock", !.job = j,
                                                  !.attempt = job[j].attempt + 1]]
        /\ UNCHANGED <<jobLock, published>>
        /\ run[r].pc = "idle"
    BY <1>5 DEF Claim, ClaimJob
  <2>0. job \in [Job -> JobRow] /\ job[j] \in JobRow
    BY <1>0 DEF Typed
  <2>2. job[j].attempt + 1 \in 0..MaxAttempts
    BY <2>0, <2>1, IngestionAssumption DEF JobRow
  <2>3. job' \in [Job -> JobRow]
    <3> DEFINE row == [job[j] EXCEPT !.status = "running", !.owner = r,
                                     !.attempt = @ + 1, !.live = TRUE]
    <3>1. row \in JobRow
      BY <2>0, <2>2 DEF JobRow
    <3>2. job' = [job EXCEPT ![j] = row]
      BY <2>1
    <3> HIDE DEF row
    <3> QED BY <2>0, <3>1, <3>2
  <2>4. /\ [Fresh EXCEPT !.pc = "lock", !.job = j, !.attempt = job[j].attempt + 1] \in Execution
        /\ [Fresh EXCEPT !.pc = "lock", !.job = j, !.attempt = job[j].attempt + 1].pc = "lock"
    BY <2>2, FreshIsTyped DEF Execution
  <2>5. run' \in [Run -> Execution] /\ Alone(r) /\ run'[r].pc = "lock"
    BY <1>0, <2>1, <2>4, RunTo
  <2>6. LockIsHeld'
    BY <2>1, <2>5, LockStep DEF IngestionInv, Collecting
  <2>7. ClaimsAreKept' /\ SwapIsDone' /\ SuccessMeansPublished'
    BY <1>5, ClaimStep DEF IngestionInv
  <2> QED BY <1>0, <2>1, <2>3, <2>5, <2>6, <2>7 DEF ExecInv, Typed
<1>6. ASSUME NEW r \in Run, TryLock(r) PROVE ExecInv'
  <2>1. CASE jobLock = None
    <3>1. /\ run' = [run EXCEPT ![r] = [run[r] EXCEPT !.pc = "read"]]
          /\ jobLock' = r
          /\ UNCHANGED <<job, published>>
      BY <1>6, <2>1 DEF TryLock
    <3>2. /\ [run[r] EXCEPT !.pc = "read"] \in Execution
          /\ [run[r] EXCEPT !.pc = "read"].pc = "read"
          /\ [run[r] EXCEPT !.pc = "read"].job = run[r].job
          /\ [run[r] EXCEPT !.pc = "read"].attempt = run[r].attempt
      BY <1>0 DEF Typed, Execution
    <3>3. AtWork(r)
      BY <1>6 DEF TryLock, AtWork
    <3>4. \A s \in Run : s # r /\ jobLock = s => jobLock' = s
      BY <2>1, IngestionAssumption
    <3>5. OnlyMore /\ published' \in [Job -> SUBSET (1..MaxAttempts)]
      BY <1>0, <3>1 DEF OnlyMore, Typed
    <3> QED BY <3>1, <3>2, <3>3, <3>4, <3>5, WorkStep
  <2>2. CASE jobLock # None
    <3>1. /\ run' = [run EXCEPT ![r] = [run[r] EXCEPT !.pc = "failing", !.outcome = "skip"]]
          /\ UNCHANGED <<job, jobLock, published>>
      BY <1>6, <2>2 DEF TryLock
    <3>2. /\ [run[r] EXCEPT !.pc = "failing", !.outcome = "skip"] \in Execution
          /\ [run[r] EXCEPT !.pc = "failing", !.outcome = "skip"].pc = "failing"
          /\ [run[r] EXCEPT !.pc = "failing", !.outcome = "skip"].job = run[r].job
          /\ [run[r] EXCEPT !.pc = "failing", !.outcome = "skip"].attempt = run[r].attempt
      BY <1>0 DEF Typed, Execution
    <3>3. AtWork(r)
      BY <1>6 DEF TryLock, AtWork
    <3>5. OnlyMore /\ published' \in [Job -> SUBSET (1..MaxAttempts)]
      BY <1>0, <3>1 DEF OnlyMore, Typed
    <3> QED BY <1>0, <3>1, <3>2, <3>3, <3>5, WorkStep DEF Typed
  <2> QED BY <2>1, <2>2
<1>7. ASSUME NEW r \in Run, Read(r) PROVE ExecInv'
  <2>1. PICK view \in Prepared, t \in Tables, seen \in SUBSET Pair :
          run' = [run EXCEPT ![r] =
                          [run[r] EXCEPT !.photo[t] = view.table,
                                         !.seen = seen,
                                         !.step = IF @ = 5 THEN 5 ELSE @ + 1,
                                         !.pc = IF run[r].step = 5 THEN "swap" ELSE "read"]]
    <3>1. SourceOrder[run[r].step] \in Tables
      BY <1>0 DEF SourceOrder, Tables, Typed, Execution
    <3>2. \A t \in Tables : Reads(t) \subseteq Prepared
      BY DEF Reads
    <3>3. \A t \in Tables : \A table : SeenAfter(r, t, table) \in SUBSET Pair
      BY <1>0 DEF SeenAfter, Typed, Execution
    <3> QED BY <1>7, <3>1, <3>2, <3>3 DEF Read
  <2> DEFINE e == [run[r] EXCEPT !.photo[t] = view.table,
                                 !.seen = seen,
                                 !.step = IF @ = 5 THEN 5 ELSE @ + 1,
                                 !.pc = IF run[r].step = 5 THEN "swap" ELSE "read"]
  <2>2. run[r] \in Execution
    BY <1>0 DEF Typed
  <2>3. [run[r].photo EXCEPT ![t] = view.table] \in [Tables -> Contents]
    BY <2>2 DEF Execution, Contents
  <2>4. e \in Execution /\ e.pc \in {"read", "swap"} /\ e.job = run[r].job
        /\ e.attempt = run[r].attempt
    <3> DEFINE photo == [run[r].photo EXCEPT ![t] = view.table]
               step  == IF run[r].step = 5 THEN 5 ELSE run[r].step + 1
               pc    == IF run[r].step = 5 THEN "swap" ELSE "read"
    <3>1. e = [run[r] EXCEPT !.photo = photo, !.seen = seen, !.step = step, !.pc = pc]
      BY <2>2 DEF Execution
    <3>2. step \in 1..5 /\ pc \in {"read", "swap"}
      BY <2>2 DEF Execution
    <3>3. photo \in [Tables -> Contents]
      BY <2>3
    <3> HIDE DEF e, photo, step, pc
    <3> QED BY <2>2, <3>1, <3>2, <3>3 DEF Execution
  <2>5. AtWork(r) /\ UNCHANGED <<job, jobLock, published>>
    BY <1>7 DEF Read, AtWork
  <2>6. jobLock = r
    BY <1>7 DEF Read, IngestionInv, LockIsHeld, Collecting
  <2>7. OnlyMore /\ published' \in [Job -> SUBSET (1..MaxAttempts)]
    BY <1>0, <2>5 DEF OnlyMore, Typed
  <2>8. run' = [run EXCEPT ![r] = e]
    BY <2>1
  <2> HIDE DEF e
  <2> QED BY <2>4, <2>5, <2>6, <2>7, <2>8, WorkStep
<1>8. ASSUME NEW r \in Run, Swap(r) PROVE ExecInv'
  <2>1. /\ run[r].pc = "swap"
        /\ run' = [run EXCEPT ![r] = Published(r)]
        /\ published' = [published EXCEPT ![run[r].job] = @ \cup {run[r].attempt}]
        /\ UNCHANGED <<job, jobLock>>
    BY <1>8 DEF Swap, Published
  <2>2. AtWork(r) /\ jobLock = r /\ run[r].job \in Job /\ run[r].attempt \in 1..MaxAttempts
    BY <2>1 DEF AtWork, IngestionInv, LockIsHeld, Collecting, ClaimsAreKept
  <2>3. /\ published' \in [Job -> SUBSET (1..MaxAttempts)]
        /\ OnlyMore
        /\ run[r].attempt \in published'[run[r].job]
    BY <1>0, <2>1, <2>2 DEF Typed, OnlyMore
  <2> QED BY <1>0, <2>1, <2>2, <2>3, StopsAreTyped, WorkStep
<1>9. ASSUME NEW r \in Run, Unlock(r) PROVE ExecInv'
  <2>1. /\ run[r].pc = "unlock"
        /\ run' = [run EXCEPT ![r] = [run[r] EXCEPT !.pc = "succeed"]]
        /\ Release(r)
        /\ UNCHANGED <<job, published>>
    BY <1>9 DEF Unlock
  <2>2. /\ [run[r] EXCEPT !.pc = "succeed"] \in Execution
        /\ [run[r] EXCEPT !.pc = "succeed"].pc = "succeed"
        /\ [run[r] EXCEPT !.pc = "succeed"].job = run[r].job
        /\ [run[r] EXCEPT !.pc = "succeed"].attempt = run[r].attempt
    BY <1>0 DEF Typed, Execution
  <2>3. AtWork(r) /\ run[r].attempt \in published'[run[r].job]
    BY <2>1 DEF AtWork, IngestionInv, SwapIsDone
  <2>4. OnlyMore /\ published' \in [Job -> SUBSET (1..MaxAttempts)]
    BY <1>0, <2>1 DEF OnlyMore, Typed
  <2> QED BY <1>0, <2>1, <2>2, <2>3, <2>4, Released, WorkStep
<1>10. ASSUME NEW r \in Run, Succeed(r) \/ Transition(r) PROVE ExecInv'
  <2>1. run' = [run EXCEPT ![r] = Ended] /\ UNCHANGED <<jobLock, published>>
    BY <1>10 DEF Succeed, Transition, Ends, Ended
  <2>2. run[r].job \in Job
    BY <1>10 DEF Succeed, Transition, AtWork, IngestionInv, ClaimsAreKept
  <2>3. \/ UNCHANGED job
        \/ \E status \in {"succeeded", "skipped", "retrying", "failed"} :
             /\ Set(run[r].job, status)
             /\ status = "succeeded" => Succeed(r) /\ HoldsLease(r)
    BY <1>10 DEF Succeed, Transition, SkipJob, RetryJob, FailJob
  <2>4. Succeed(r) /\ HoldsLease(r) => job[run[r].job].attempt \in published[run[r].job]
    BY DEF Succeed, HoldsLease, IngestionInv, SwapIsDone, ClaimsAreKept, AtWork
  <2>5. NoClaim /\ job' \in [Job -> JobRow]
    BY <1>0, <2>2, <2>3, <2>4, SetIsNoClaim DEF NoClaim, Typed, Waiting, Final
  <2> QED BY <2>1, <2>5, StopStep
<1>11. ASSUME NEW r \in Run,
              \/ ReadRefused(r) \/ SwapBusy(r) \/ KeeperLost(r) \/ Crash(r)
              \/ ServerDropsConnection(r)
              \/ \E outcome \in {"retry", "fail"} : SyncFails(r, outcome)
       PROVE  ExecInv'
  <2>1. UNCHANGED <<job, published>> /\ (Release(r) \/ UNCHANGED jobLock)
    BY <1>11 DEF ReadRefused, SwapBusy, KeeperLost, Crash, ServerDropsConnection, SyncFails
  <2>2. \/ run' = [run EXCEPT ![r] = Ended]
        \/ run' = [run EXCEPT ![r] = Killed]
        \/ /\ AtWork(r)
           /\ \E outcome \in {"none", "retry", "fail", "skip"} :
                  run' = [run EXCEPT ![r] = Failing(r, outcome)]
    BY <1>11 DEF ReadRefused, SwapBusy, KeeperLost, Crash, ServerDropsConnection, SyncFails,
                 Ends, Fails, Ended, Killed, Failing, AtWork
  <2>3. NoClaim /\ job' \in [Job -> JobRow]
    BY <1>0, <2>1 DEF NoClaim, Typed
  <2> QED BY <2>1, <2>2, <2>3, StopStep
<1>12. ASSUME (\E p \in Pair : SourceMoves(p)) \/ WriterStarts \/ WriterCommits \/ UNCHANGED vars
       PROVE  Idle
  BY <1>12 DEF SourceMoves, WriterStarts, WriterCommits, vars
<1> QED
  BY <1>1, <1>2, <1>3, <1>4, <1>5, <1>6, <1>7, <1>8, <1>9, <1>10, <1>11, <1>12
  DEF Next, Progress

-----------------------------------------------------------------------------
(* What is published. *)

NewsInv == NewsTyped /\ UnknownIsUntold /\ ToldOnce /\ ProcessedIsKnown /\ AlertsOfThePhoto

DbInv ==
    /\ world \in [Pair -> Stage]
    /\ busy \in BOOLEAN
    /\ draft \in SUBSET Pair
    /\ carried \in SUBSET Pair
    /\ db \in Database
    /\ ReadIsRebuilt /\ DraftIsPending /\ StandbyIsPending
    /\ NewsInv

LEMMA ReadModels ==
    ASSUME NEW pending, NEW erp
    PROVE  /\ ReadModel(pending, erp, Pair) \in [Pair -> {"absent", "pending", "erp"}]
           /\ \A p \in Pair : ReadModel(pending, erp, Pair)[p] = "erp" => p \in DOMAIN erp
  BY DEF ReadModel

LEMMA RefreshedIs ==
    ASSUME Typed, NEW r \in Run
    PROVE  LET fresh == Refreshed(r)
           IN  /\ fresh \in Database
               /\ fresh.read = ReadModel(fresh.pending, fresh.erp, Pair)
               /\ \A p \in fresh.standby : fresh.read[p] = "pending"
<1>1. \A t \in Tables : run[r].photo[t] \in Contents
  BY DEF Typed, Execution
<1>2. \A t \in Tables : KeptOrReplaced(r, t) \in Contents
  BY <1>1 DEF KeptOrReplaced, Typed, Database, Tables
<1>3. {"pending", "erp", "stock", "billing", "reference"} \subseteq Tables
  BY DEF Tables
<1> DEFINE read == ReadModel(KeptOrReplaced(r, "pending"), KeptOrReplaced(r, "erp"), Pair)
           standby == {p \in db.standby : read[p] = "pending"}
<1>4. Refreshed(r) = [pending   |-> KeptOrReplaced(r, "pending"),
                      stock     |-> KeptOrReplaced(r, "stock"),
                      erp       |-> KeptOrReplaced(r, "erp"),
                      billing   |-> KeptOrReplaced(r, "billing"),
                      reference |-> KeptOrReplaced(r, "reference"),
                      read      |-> read,
                      standby   |-> standby]
  BY DEF Refreshed
<1>5. read \in [Pair -> {"absent", "pending", "erp"}] /\ standby \in SUBSET Pair
  BY ReadModels DEF Typed, Database
<1>6. \A p \in standby : read[p] = "pending"
  OBVIOUS
<1>7. read = ReadModel(KeptOrReplaced(r, "pending"), KeptOrReplaced(r, "erp"), Pair)
  OBVIOUS
<1> HIDE DEF read, standby
<1> QED BY <1>2, <1>3, <1>4, <1>5, <1>6, <1>7 DEF Database

\* What observe_keys does to one topic: whoever is told becomes known with it.
LEMMA ObservedIs ==
    ASSUME Typed, NewsTyped, UnknownIsUntold, ToldOnce, NEW r \in Run, news' = Observed(r)
    PROVE  /\ NewsTyped' /\ UnknownIsUntold' /\ ToldOnce'
           /\ DOMAIN Refreshed(r).erp \subseteq news'.known["history"]
           /\ news'.current => news'.alerts = ActiveAlerts(Refreshed(r))
<1> DEFINE fresh == Refreshed(r)
           complete == run[r].photo["pending"] # Nothing
           keys  == [t \in {"orders", "history"} |->
                        IF t = "history" THEN DOMAIN fresh.erp
                        ELSE DOMAIN fresh.pending \ DOMAIN fresh.erp]
           topics == {t \in {"orders", "history"} : t = "history" \/ complete}
<1>1. /\ news'.started = [t \in Topics |-> news.started[t] \/ t \in topics]
      /\ news'.known = [t \in Topics |->
                          news.known[t] \cup (IF t \in topics THEN keys[t] ELSE {})]
      /\ news'.told = [t \in Topics |-> [p \in Pair |->
                         news.told[t][p] +
                           (IF t \in topics /\ p \in NewKeys(t, keys[t]) THEN 1 ELSE 0)]]
      /\ news'.current = complete
      /\ complete => news'.alerts = ActiveAlerts(fresh)
  BY DEF Observed, Topics
<1>2. "history" \in topics /\ keys["history"] = DOMAIN fresh.erp
  OBVIOUS
<1>3. \A t \in Topics : \A p \in NewKeys(t, keys[t]) : p \in keys[t] \ news.known[t]
  BY DEF NewKeys
<1> HIDE DEF fresh, complete, keys, topics
<1>4. ASSUME NEW t \in Topics, NEW p \in Pair
      PROVE  /\ news'.told[t][p] \in Nat
             /\ news'.told[t][p] <= 1
             /\ p \notin news'.known[t] => news'.told[t][p] = 0
  <2>1. /\ news.told[t][p] \in Nat
        /\ news.told[t][p] <= 1
        /\ p \notin news.known[t] => news.told[t][p] = 0
    BY DEF NewsTyped, UnknownIsUntold, ToldOnce, Topics
  <2>2. news'.told[t][p] = news.told[t][p] +
            (IF t \in topics /\ p \in NewKeys(t, keys[t]) THEN 1 ELSE 0)
    BY <1>1
  <2>3. news'.known[t] = news.known[t] \cup (IF t \in topics THEN keys[t] ELSE {})
    BY <1>1
  <2>4. CASE t \in topics /\ p \in NewKeys(t, keys[t])
    BY <1>3, <2>1, <2>2, <2>3, <2>4
  <2>5. CASE ~(t \in topics /\ p \in NewKeys(t, keys[t]))
    BY <2>1, <2>2, <2>3, <2>5
  <2> QED BY <2>4, <2>5
<1>5. NewsTyped'
  <2>1. news'.started \in [Topics -> BOOLEAN]
    BY <1>1
  <2>2. news'.known = [t \in Topics |-> news'.known[t]]
    BY <1>1
  <2>3. news'.told \in [Topics -> [Pair -> Nat]]
    BY <1>1, <1>4
  <2> QED BY <2>1, <2>2, <2>3 DEF NewsTyped
<1>6. UnknownIsUntold' /\ ToldOnce'
  BY <1>4 DEF UnknownIsUntold, ToldOnce, Topics
<1>7. DOMAIN fresh.erp \subseteq news'.known["history"]
  BY <1>1, <1>2 DEF Topics
<1> QED BY <1>1, <1>5, <1>6, <1>7 DEF fresh

LEMMA DbStep ==
    ASSUME IngestionInv, [Next]_vars
    PROVE  DbInv'
<1>0. Typed /\ DbInv
  BY DEF IngestionInv, Typed, DbInv, NewsInv
<1>1. ASSUME UNCHANGED <<world, busy, draft, carried, db, news>> PROVE DbInv'
  BY <1>0, <1>1 DEF DbInv, NewsInv, ReadIsRebuilt, DraftIsPending, StandbyIsPending, NewsTyped,
                    UnknownIsUntold, ToldOnce, ProcessedIsKnown, AlertsOfThePhoto
<1>2. ASSUME NEW p \in Pair, SourceMoves(p) PROVE DbInv'
  <2>1. world' \in [Pair -> Stage]
    BY <1>0, <1>2 DEF SourceMoves, Typed, Stage
  <2>2. UNCHANGED <<busy, draft, carried, db, news>>
    BY <1>2 DEF SourceMoves
  <2> QED BY <1>0, <2>1, <2>2
          DEF DbInv, NewsInv, ReadIsRebuilt, DraftIsPending, StandbyIsPending, NewsTyped,
              UnknownIsUntold, ToldOnce, ProcessedIsKnown, AlertsOfThePhoto
<1>3. ASSUME NEW r \in Run, Swap(r) PROVE DbInv'
  <2>1. /\ ~busy
        /\ db' = Refreshed(r)
        /\ news' = Observed(r)
        /\ carried' = run[r].seen
        /\ UNCHANGED <<world, busy, draft>>
    BY <1>3 DEF Swap
  <2>2. /\ db' \in Database
        /\ db'.read = ReadModel(db'.pending, db'.erp, Pair)
        /\ \A p \in db'.standby : db'.read[p] = "pending"
    BY <1>0, <2>1, RefreshedIs
  <2>3. /\ NewsTyped' /\ UnknownIsUntold' /\ ToldOnce'
        /\ DOMAIN db'.erp \subseteq news'.known["history"]
        /\ news'.current => news'.alerts = ActiveAlerts(Refreshed(r))
    BY <1>0, <2>1, ObservedIs DEF DbInv, NewsInv
  <2>4. AlertsOfThePhoto'
    BY <2>1, <2>3 DEF AlertsOfThePhoto, ActiveAlerts
  <2>5. ProcessedIsKnown'
    BY <2>2, <2>3, ReadModels DEF ProcessedIsKnown
  <2>6. DraftIsPending'
    BY <1>0, <2>1 DEF DbInv, DraftIsPending
  <2>7. carried' \in SUBSET Pair
    BY <1>0, <2>1 DEF Typed, Execution
  <2> QED BY <1>0, <2>1, <2>2, <2>3, <2>4, <2>5, <2>6, <2>7
          DEF DbInv, NewsInv, ReadIsRebuilt, StandbyIsPending
<1>4. CASE WriterStarts
  <2>1. PICK p \in Pair : db.read[p] = "pending" /\ draft' = {p}
    BY <1>4 DEF WriterStarts
  <2>2. busy' = TRUE /\ UNCHANGED <<world, db, news, carried>>
    BY <1>4 DEF WriterStarts
  <2>3. DraftIsPending'
    BY <2>1, <2>2 DEF DraftIsPending
  <2> QED BY <1>0, <2>1, <2>2, <2>3
          DEF DbInv, NewsInv, ReadIsRebuilt, StandbyIsPending, NewsTyped,
              UnknownIsUntold, ToldOnce, ProcessedIsKnown, AlertsOfThePhoto
<1>5. CASE WriterCommits
  <2>1. /\ busy' = FALSE
        /\ draft' = {}
        /\ db' = [db EXCEPT !.standby = @ \cup draft]
        /\ UNCHANGED <<world, news, carried>>
    BY <1>5 DEF WriterCommits
  <2>2. /\ db' \in Database
        /\ db'.standby = db.standby \cup draft
        /\ db'.pending = db.pending /\ db'.erp = db.erp /\ db'.stock = db.stock
        /\ db'.read = db.read
    BY <1>0, <2>1 DEF DbInv, Database
  <2>3. ReadIsRebuilt' /\ StandbyIsPending' /\ DraftIsPending'
    BY <1>0, <2>1, <2>2 DEF DbInv, ReadIsRebuilt, StandbyIsPending, DraftIsPending
  <2>4. AlertsOfThePhoto' /\ ProcessedIsKnown'
    BY <1>0, <2>1, <2>2 DEF DbInv, NewsInv, AlertsOfThePhoto, ActiveAlerts, ProcessedIsKnown
  <2>5. NewsTyped' /\ UnknownIsUntold' /\ ToldOnce'
    BY <1>0, <2>1 DEF DbInv, NewsInv, NewsTyped, UnknownIsUntold, ToldOnce
  <2> QED BY <1>0, <2>1, <2>2, <2>3, <2>4, <2>5 DEF DbInv, NewsInv
<1>6. ASSUME NEW r \in Run, Progress(r) \/ KeeperLost(r) \/ Crash(r), ~Swap(r)
      PROVE  UNCHANGED <<world, busy, draft, carried, db, news>>
  BY <1>6 DEF Progress, TryLock, Read, ReadRefused, SyncFails, SwapBusy, Unlock, Succeed,
              Transition, ServerDropsConnection, KeeperLost, Crash
<1>7. ASSUME NEW j \in Job,
             \/ Submit(j) \/ LeaseRunsOut(j) \/ DeadlinePasses(j) \/ Sweep(j)
             \/ \E r \in Run : Claim(r, j)
      PROVE  UNCHANGED <<world, busy, draft, carried, db, news>>
  BY <1>7 DEF Submit, LeaseRunsOut, DeadlinePasses, Sweep, Claim
<1>8. UNCHANGED vars => UNCHANGED <<world, busy, draft, carried, db, news>>
  BY DEF vars
<1> QED BY <1>1, <1>2, <1>3, <1>4, <1>5, <1>6, <1>7, <1>8 DEF Next

-----------------------------------------------------------------------------
(* The theorems. *)

LEMMA InvStep == IngestionInv /\ [Next]_vars => IngestionInv'
<1> SUFFICES ASSUME IngestionInv, [Next]_vars PROVE IngestionInv'
  OBVIOUS
<1>1. ExecInv' /\ DbInv'
  BY ExecStep, DbStep
<1> QED BY <1>1 DEF ExecInv, DbInv, NewsInv, IngestionInv, Typed

\* Executions, the sweep, the source and the other writer only ever leave the
\* inductive invariant true.
THEOREM IngestionInvHolds == Spec => []IngestionInv
  BY InvInitially, InvStep, PTL DEF Spec

\* Every variable holds values of its kind; in particular only attempts that
\* were granted are recorded as published.
THEOREM TypeCorrect == Spec => []TypeOK
<1>1. IngestionInv => TypeOK
  BY DEF IngestionInv, Typed, TypeOK, JobRow, Database, Execution
<1> QED BY <1>1, IngestionInvHolds, PTL

\* The success of a job is recorded in another transaction than its photo,
\* and still implies that the photo of that very attempt was committed.
THEOREM SuccessIsPublished == Spec => []SuccessMeansPublished
<1>1. IngestionInv => SuccessMeansPublished
  BY DEF IngestionInv
<1> QED BY <1>1, IngestionInvHolds, PTL

\* A refresh that publishes while orders are being processed never leaves a
\* standby row whose pair is not pending.
THEOREM StandbyStaysPending == Spec => []StandbyIsPending
<1>1. IngestionInv => StandbyIsPending
  BY DEF IngestionInv
<1> QED BY <1>1, IngestionInvHolds, PTL

\* Three of the four parts of NewsFollowThePhoto, for every source: nobody is
\* told twice, what is shown as processed was observed, and the alerts are those
\* of the photo.  The fourth, PendingIsKnown, rests on the ERP view.
THEOREM NewsAreToldOnce ==
    Spec => [](ToldOnce /\ ProcessedIsKnown /\ AlertsOfThePhoto)
<1>1. IngestionInv => ToldOnce /\ ProcessedIsKnown /\ AlertsOfThePhoto
  BY DEF IngestionInv
<1> QED BY <1>1, IngestionInvHolds, PTL

OneCollector == \A r, s \in Run : Collecting(r) /\ Collecting(s) => r = s

\* The session lock keeps two executions from collecting or publishing at the
\* same time, even when one outlives its lease and the job was claimed again.
THEOREM CollectionsExclude == Spec => []OneCollector
<1>1. IngestionInv => OneCollector
  BY DEF IngestionInv, LockIsHeld, OneCollector
<1> QED BY <1>1, IngestionInvHolds, PTL

-----------------------------------------------------------------------------
(* Photos replace each other in the order they were taken. *)

\* The ERP view is the third of SourceOrder.
ErpTaken(r) ==
    \/ run[r].pc = "swap"
    \/ run[r].pc = "read" /\ run[r].step > 3

\* What was processed stays processed, so a photo has all the pairs of the one
\* it will replace, which the lock keeps in place until then.
ErpInOrder ==
    /\ DOMAIN db.erp \subseteq Done
    /\ \A r \in Run : run[r].pc = "lock" => run[r].step = 1
    /\ \A r \in Run : ErpTaken(r) =>
         /\ DOMAIN db.erp \subseteq DOMAIN run[r].photo["erp"]
         /\ DOMAIN run[r].photo["erp"] \subseteq Done

OrderInv == IngestionInv /\ ErpInOrder /\ PendingIsKnown

LEMMA OrderInitially == Init => OrderInv
<1> SUFFICES ASSUME Init PROVE OrderInv
  OBVIOUS
<1>1. IngestionInv
  BY InvInitially
<1>2. DOMAIN db.erp = {}
  BY DEF Init, Nothing
<1>3. ErpInOrder
  BY <1>2 DEF ErpInOrder, ErpTaken, Init, Fresh
<1>4. PendingIsKnown
  BY DEF PendingIsKnown, Init
<1> QED BY <1>1, <1>3, <1>4 DEF OrderInv

\* Pairs move on and never back.
LEMMA DoneGrows ==
    ASSUME Typed, [Next]_vars
    PROVE  Done \subseteq Done'
<1>1. ASSUME NEW p \in Pair, SourceMoves(p) PROVE Done \subseteq Done'
  BY <1>1 DEF SourceMoves, Done, Typed
<1>2. ASSUME UNCHANGED world PROVE Done \subseteq Done'
  BY <1>2 DEF Done
<1>3. ASSUME NEW r \in Run, Progress(r) \/ KeeperLost(r) \/ Crash(r) PROVE UNCHANGED world
  BY <1>3 DEF Progress, TryLock, Read, ReadRefused, SyncFails, Swap, SwapBusy, Unlock, Succeed,
              Transition, ServerDropsConnection, KeeperLost, Crash
<1>4. ASSUME NEW j \in Job,
             \/ Submit(j) \/ LeaseRunsOut(j) \/ DeadlinePasses(j) \/ Sweep(j)
             \/ \E r \in Run : Claim(r, j)
      PROVE  UNCHANGED world
  BY <1>4 DEF Submit, LeaseRunsOut, DeadlinePasses, Sweep, Claim
<1>5. WriterStarts \/ WriterCommits \/ UNCHANGED vars => UNCHANGED world
  BY DEF WriterStarts, WriterCommits, vars
<1> QED BY <1>1, <1>2, <1>3, <1>4, <1>5 DEF Next

LEMMA RefreshedErp ==
    ASSUME Typed, NEW r \in Run
    PROVE  /\ Refreshed(r).erp \in {db.erp, run[r].photo["erp"]}
           /\ run[r].photo["pending"] = Nothing => Refreshed(r).pending = db.pending
           /\ Refreshed(r).read = ReadModel(Refreshed(r).pending, Refreshed(r).erp, Pair)
  BY DEF Refreshed, KeptOrReplaced

LEMMA PendingMeans ==
    ASSUME NEW pending, NEW erp, NEW p \in Pair
    PROVE  ReadModel(pending, erp, Pair)[p] = "pending"
             <=> p \in DOMAIN pending \ DOMAIN erp
  BY DEF ReadModel

LEMMA ErpMeans ==
    ASSUME NEW pending, NEW erp, NEW p \in Pair
    PROVE  ReadModel(pending, erp, Pair)[p] = "erp" <=> p \in DOMAIN erp
  BY DEF ReadModel

\* No swap loses a processed pair.
LEMMA ErpGrows ==
    ASSUME OrderInv, [Next]_vars
    PROVE  DOMAIN db.erp \subseteq DOMAIN db'.erp
<1>0. Typed
  BY DEF OrderInv, IngestionInv
<1>1. ASSUME NEW r \in Run, Swap(r) PROVE DOMAIN db.erp \subseteq DOMAIN db'.erp
  <2>0. db' = Refreshed(r) /\ run[r].pc = "swap"
    BY <1>1 DEF Swap
  <2>1. ErpTaken(r)
    BY <2>0 DEF ErpTaken
  <2>2. DOMAIN db.erp \subseteq DOMAIN run[r].photo["erp"]
    BY <2>1 DEF OrderInv, ErpInOrder
  <2> QED BY <1>0, <2>0, <2>2, RefreshedErp
<1>2. CASE WriterCommits
  <2>1. db' = [db EXCEPT !.standby = @ \cup draft]
    BY <1>2 DEF WriterCommits
  <2>2. db'.erp = db.erp
    BY <1>0, <2>1 DEF Typed, Database
  <2> QED BY <2>2
<1>3. ASSUME NEW r \in Run, Progress(r) \/ KeeperLost(r) \/ Crash(r), ~Swap(r)
      PROVE  UNCHANGED db
  BY <1>3 DEF Progress, TryLock, Read, ReadRefused, SyncFails, SwapBusy, Unlock, Succeed,
              Transition, ServerDropsConnection, KeeperLost, Crash
<1>4. ASSUME NEW j \in Job,
             \/ Submit(j) \/ LeaseRunsOut(j) \/ DeadlinePasses(j) \/ Sweep(j)
             \/ \E r \in Run : Claim(r, j)
      PROVE  UNCHANGED db
  BY <1>4 DEF Submit, LeaseRunsOut, DeadlinePasses, Sweep, Claim
<1>5. WriterStarts \/ UNCHANGED vars \/ (\E p \in Pair : SourceMoves(p)) => UNCHANGED db
  BY DEF WriterStarts, SourceMoves, vars
<1> QED BY <1>1, <1>2, <1>3, <1>4, <1>5 DEF Next

\* Executions that do not read or publish have no photo to bring.
LEMMA OrderKept ==
    ASSUME OrderInv, [Next]_vars, DOMAIN db'.erp = DOMAIN db.erp,
           \A r \in Run :
             /\ run'[r].pc = "lock" => run'[r].step = 1
             /\ ErpTaken(r)' => ErpTaken(r) /\ run'[r].photo["erp"] = run[r].photo["erp"]
    PROVE  ErpInOrder'
<1>1. Done \subseteq Done'
  BY DoneGrows DEF OrderInv, IngestionInv
<1> QED BY <1>1 DEF OrderInv, ErpInOrder

LEMMA ErpInOrderStep ==
    ASSUME ErpViewIsWhole, OrderInv, [Next]_vars
    PROVE  ErpInOrder'
<1>0. Typed /\ ErpInOrder /\ LockIsHeld
  BY DEF OrderInv, IngestionInv
<1>1. Done \subseteq Done'
  BY <1>0, DoneGrows
<1>2. ASSUME UNCHANGED <<run, db>> PROVE ErpInOrder'
  BY <1>0, <1>1, <1>2 DEF ErpInOrder, ErpTaken
<1>3. CASE WriterCommits
  <2>1. db' = [db EXCEPT !.standby = @ \cup draft] /\ UNCHANGED run
    BY <1>3 DEF WriterCommits
  <2>2. db'.erp = db.erp
    BY <1>0, <2>1 DEF Typed, Database
  <2> QED BY <1>0, <1>1, <2>1, <2>2 DEF ErpInOrder, ErpTaken
<1>4. ASSUME NEW r \in Run, NEW e \in Execution, run' = [run EXCEPT ![r] = e], UNCHANGED db,
             e.pc = "lock" => e.step = 1, e.pc \notin {"read", "swap"}
      PROVE  ErpInOrder'
  <2>1. /\ run'[r] = e
        /\ \A s \in Run : s # r => run'[s] = run[s]
    BY <1>0, <1>4 DEF Typed
  <2>2. \A s \in Run : s # r => (ErpTaken(s)' <=> ErpTaken(s))
    BY <2>1 DEF ErpTaken
  <2>3. ~ErpTaken(r)'
    BY <1>4, <2>1 DEF ErpTaken
  <2>4. \A s \in Run :
          /\ run'[s].pc = "lock" => run'[s].step = 1
          /\ ErpTaken(s)' => ErpTaken(s) /\ run'[s].photo["erp"] = run[s].photo["erp"]
    BY <1>0, <1>4, <2>1, <2>2, <2>3 DEF ErpInOrder
  <2> QED BY <1>4, <2>4, OrderKept
<1>5. ASSUME NEW r \in Run, NEW j \in Job, Claim(r, j) PROVE ErpInOrder'
  <2> DEFINE e == [Fresh EXCEPT !.pc = "lock", !.job = j, !.attempt = job[j].attempt + 1]
  <2>1. run' = [run EXCEPT ![r] = e] /\ UNCHANGED db /\ job[j].attempt < MaxAttempts
    BY <1>5 DEF Claim, ClaimJob
  <2>2. job[j].attempt + 1 \in 0..MaxAttempts
    BY <1>0, <2>1, IngestionAssumption DEF Typed, JobRow
  <2>3. e \in Execution /\ e.pc = "lock" /\ e.step = 1
    BY <2>2, FreshIsTyped DEF Execution, Fresh
  <2> HIDE DEF e
  <2> QED BY <1>4, <2>1, <2>3
<1>6. ASSUME NEW r \in Run, TryLock(r) PROVE ErpInOrder'
  <2>1. PICK pc \in {"read", "failing"}, outcome \in {run[r].outcome, "skip"} :
          run' = [run EXCEPT ![r] = [run[r] EXCEPT !.pc = pc, !.outcome = outcome]]
    <3>1. run[r] \in Execution
      BY <1>0 DEF Typed
    <3>2. [run[r] EXCEPT !.pc = "read"] =
          [run[r] EXCEPT !.pc = "read", !.outcome = run[r].outcome]
      BY <3>1 DEF Execution
    <3>3. \/ run' = [run EXCEPT ![r] = [run[r] EXCEPT !.pc = "read"]]
          \/ run' = [run EXCEPT ![r] = [run[r] EXCEPT !.pc = "failing", !.outcome = "skip"]]
      BY <1>6 DEF TryLock
    <3> QED BY <3>2, <3>3
  <2>2. run[r].step = 1 /\ UNCHANGED db
    BY <1>0, <1>6 DEF TryLock, ErpInOrder
  <2>3. run'[r].step = 1 /\ run'[r].pc = pc
    BY <1>0, <2>1, <2>2 DEF Typed, Execution
  <2>4. \A s \in Run : s # r => run'[s] = run[s]
    BY <1>0, <2>1 DEF Typed
  <2>5. ~ErpTaken(r)' /\ \A s \in Run : s # r => (ErpTaken(s)' <=> ErpTaken(s))
    BY <2>3, <2>4 DEF ErpTaken
  <2>6. \A s \in Run :
          /\ run'[s].pc = "lock" => run'[s].step = 1
          /\ ErpTaken(s)' => ErpTaken(s) /\ run'[s].photo["erp"] = run[s].photo["erp"]
    BY <1>0, <2>3, <2>4, <2>5 DEF ErpInOrder
  <2> QED BY <2>2, <2>6, OrderKept
<1>7. ASSUME NEW r \in Run, Read(r) PROVE ErpInOrder'
  <2> DEFINE t == SourceOrder[run[r].step]
  <2>1. PICK view \in Reads(t) :
          /\ ~view.refused
          /\ run' = [run EXCEPT ![r] =
                          [run[r] EXCEPT !.photo[t] = view.table,
                                         !.seen = SeenAfter(r, t, view.table),
                                         !.step = IF @ = 5 THEN 5 ELSE @ + 1,
                                         !.pc = IF run[r].step = 5 THEN "swap" ELSE "read"]]
    BY <1>7 DEF Read
  <2>2. run[r].pc = "read" /\ UNCHANGED <<db, world>> /\ jobLock = r
    BY <1>0, <1>7 DEF Read, LockIsHeld, Collecting
  <2>3. run[r] \in Execution
    BY <1>0 DEF Typed
  <2>4. /\ \A s \in Run : s # r => run'[s] = run[s]
        /\ run'[r].step = IF run[r].step = 5 THEN 5 ELSE run[r].step + 1
        /\ run'[r].pc = IF run[r].step = 5 THEN "swap" ELSE "read"
        /\ run'[r].photo = [run[r].photo EXCEPT ![t] = view.table]
    BY <1>0, <2>1, <2>3 DEF Typed, Execution
  <2>5. t = "erp" <=> run[r].step = 3
    BY <2>3 DEF SourceOrder, Execution
  <2>6. ErpTaken(r)' <=> run[r].step >= 3
    BY <2>3, <2>4 DEF ErpTaken, Execution
  <2>7. CASE run[r].step = 3
    <3>1. run'[r].photo["erp"] = view.table
      BY <2>3, <2>4, <2>5, <2>7 DEF Execution, Tables
    <3>2. view \in Prepared /\ view.view = "erp" /\ view.of = Done
      BY <2>1, <2>5, <2>7 DEF Reads
    <3>3. DOMAIN view.table = Done
      BY <2>1, <3>2 DEF ErpViewIsWhole
    <3>4. \A s \in Run : s # r => (ErpTaken(s)' <=> ErpTaken(s))
      BY <2>4 DEF ErpTaken
    <3> QED BY <1>0, <1>1, <2>2, <2>4, <3>1, <3>3, <3>4 DEF ErpInOrder
  <2>8. CASE run[r].step # 3
    <3>1. run'[r].photo["erp"] = run[r].photo["erp"]
      BY <2>3, <2>4, <2>5, <2>8 DEF Execution, Tables
    <3>2. ErpTaken(r)' => ErpTaken(r)
      BY <2>2, <2>3, <2>6, <2>8 DEF ErpTaken, Execution
    <3>3. \A s \in Run : s # r => (ErpTaken(s)' <=> ErpTaken(s))
      BY <2>4 DEF ErpTaken
    <3>4. \A s \in Run :
            /\ run'[s].pc = "lock" => run'[s].step = 1
            /\ ErpTaken(s)' => ErpTaken(s) /\ run'[s].photo["erp"] = run[s].photo["erp"]
      <4>1. run'[r].pc # "lock"
        BY <2>4
      <4>2. \A s \in Run : s # r => (run'[s].pc = "lock" => run'[s].step = 1)
        BY <1>0, <2>4 DEF ErpInOrder
      <4>3. \A s \in Run : s # r => run'[s].photo["erp"] = run[s].photo["erp"]
        BY <2>4
      <4> QED BY <3>1, <3>2, <3>3, <4>1, <4>2, <4>3
    <3> QED BY <2>2, <3>4, OrderKept
  <2> QED BY <2>7, <2>8
<1>8. ASSUME NEW r \in Run, Swap(r) PROVE ErpInOrder'
  <2>1. /\ db' = Refreshed(r)
        /\ run' = [run EXCEPT ![r] = Published(r)]
        /\ run[r].pc = "swap"
    BY <1>8 DEF Swap, Published
  <2>2. ErpTaken(r) /\ jobLock = r
    BY <1>0, <2>1 DEF ErpTaken, LockIsHeld, Collecting
  <2>3. DOMAIN db'.erp \subseteq Done'
    BY <1>0, <1>1, <2>1, <2>2, RefreshedErp DEF ErpInOrder
  <2>4. run'[r].pc = "unlock" /\ \A s \in Run : s # r => run'[s] = run[s]
    BY <1>0, <2>1, StopsAreTyped DEF Typed
  <2>5. \A s \in Run : s # r => ~ErpTaken(s)
    BY <1>0, <2>2 DEF LockIsHeld, Collecting, ErpTaken
  <2>6. \A s \in Run : ~ErpTaken(s)'
    BY <2>4, <2>5 DEF ErpTaken
  <2> QED BY <1>0, <2>3, <2>4, <2>6 DEF ErpInOrder
<1>9. ASSUME NEW r \in Run, Unlock(r) PROVE ErpInOrder'
  <2>1. /\ [run[r] EXCEPT !.pc = "succeed"] \in Execution
        /\ [run[r] EXCEPT !.pc = "succeed"].pc = "succeed"
    BY <1>0 DEF Typed, Execution
  <2>2. run' = [run EXCEPT ![r] = [run[r] EXCEPT !.pc = "succeed"]] /\ UNCHANGED db
    BY <1>9 DEF Unlock
  <2> QED BY <1>4, <2>1, <2>2
<1>10. ASSUME NEW r \in Run,
              \/ ReadRefused(r) \/ SwapBusy(r) \/ KeeperLost(r) \/ Crash(r)
              \/ ServerDropsConnection(r) \/ Succeed(r) \/ Transition(r)
              \/ \E outcome \in {"retry", "fail"} : SyncFails(r, outcome)
       PROVE  ErpInOrder'
  <2>1. UNCHANGED db
    BY <1>10 DEF ReadRefused, SwapBusy, KeeperLost, Crash, ServerDropsConnection, SyncFails,
                 Succeed, Transition
  <2>2. \/ run' = [run EXCEPT ![r] = Ended]
        \/ run' = [run EXCEPT ![r] = Killed]
        \/ \E outcome \in {"none", "retry", "fail", "skip"} :
             run' = [run EXCEPT ![r] = Failing(r, outcome)]
    BY <1>10 DEF ReadRefused, SwapBusy, KeeperLost, Crash, ServerDropsConnection, SyncFails,
                 Succeed, Transition, Ends, Fails, Ended, Killed, Failing
  <2>3. PICK e \in Execution :
          run' = [run EXCEPT ![r] = e] /\ e.pc \in {"end", "killed", "failing"}
    BY <1>0, <2>2, StopsAreTyped
  <2> QED BY <1>4, <2>1, <2>3
<1>11. ASSUME NEW j \in Job, Submit(j) \/ LeaseRunsOut(j) \/ DeadlinePasses(j) \/ Sweep(j)
       PROVE  UNCHANGED <<run, db>>
  BY <1>11 DEF Submit, LeaseRunsOut, DeadlinePasses, Sweep
<1>12. WriterStarts \/ UNCHANGED vars \/ (\E p \in Pair : SourceMoves(p)) => UNCHANGED <<run, db>>
  BY DEF WriterStarts, SourceMoves, vars
<1> QED
  BY <1>2, <1>3, <1>5, <1>6, <1>7, <1>8, <1>9, <1>10, <1>11, <1>12 DEF Next, Progress

LEMMA PendingIsKnownStep ==
    ASSUME OrderInv, [Next]_vars
    PROVE  PendingIsKnown'
<1>0. Typed /\ PendingIsKnown /\ ReadIsRebuilt /\ NewsTyped
  BY DEF OrderInv, IngestionInv
<1>1. ASSUME NEW r \in Run, Swap(r) PROVE PendingIsKnown'
  <2> DEFINE fresh == Refreshed(r)
  <2>1. db' = fresh /\ news' = Observed(r)
    BY <1>1 DEF Swap
  <2>2. fresh.read = ReadModel(fresh.pending, fresh.erp, Pair)
    BY <1>0, RefreshedErp
  <2>3. DOMAIN db.erp \subseteq DOMAIN fresh.erp
    BY <2>1, ErpGrows
  <2>4. news.known["orders"] \subseteq news'.known["orders"]
    BY <1>0, <2>1 DEF Observed, NewsTyped, Topics
  <2>5. CASE run[r].photo["pending"] # Nothing
    <3>1. DOMAIN fresh.pending \ DOMAIN fresh.erp \subseteq news'.known["orders"]
      BY <2>1, <2>5 DEF Observed
    <3> HIDE DEF fresh
    <3>2. \A p \in Pair : db'.read[p] = "pending" => p \in DOMAIN fresh.pending \ DOMAIN fresh.erp
      BY <2>1, <2>2, PendingMeans
    <3> QED BY <3>1, <3>2 DEF PendingIsKnown
  <2>6. CASE run[r].photo["pending"] = Nothing
    <3>1. fresh.pending = db.pending
      BY <1>0, <2>6, RefreshedErp
    <3> HIDE DEF fresh
    <3>2. \A p \in Pair : db'.read[p] = "pending" => p \in DOMAIN fresh.pending \ DOMAIN fresh.erp
      BY <2>1, <2>2, PendingMeans
    <3>3. \A p \in Pair : db'.read[p] = "pending" => p \in DOMAIN db.pending \ DOMAIN db.erp
      BY <2>3, <3>1, <3>2
    <3>4. \A p \in Pair : db'.read[p] = "pending" => db.read[p] = "pending"
      BY <1>0, <3>3, PendingMeans DEF ReadIsRebuilt
    <3> QED BY <1>0, <2>4, <3>4 DEF PendingIsKnown
  <2> QED BY <2>5, <2>6
<1>2. CASE WriterCommits
  <2>1. db' = [db EXCEPT !.standby = @ \cup draft] /\ UNCHANGED news
    BY <1>2 DEF WriterCommits
  <2>2. db'.read = db.read
    BY <1>0, <2>1 DEF Typed, Database
  <2> QED BY <1>0, <2>1, <2>2 DEF PendingIsKnown
<1>3. ASSUME NEW r \in Run, Progress(r) \/ KeeperLost(r) \/ Crash(r), ~Swap(r)
      PROVE  UNCHANGED <<db, news>>
  BY <1>3 DEF Progress, TryLock, Read, ReadRefused, SyncFails, SwapBusy, Unlock, Succeed,
              Transition, ServerDropsConnection, KeeperLost, Crash
<1>4. ASSUME NEW j \in Job,
             \/ Submit(j) \/ LeaseRunsOut(j) \/ DeadlinePasses(j) \/ Sweep(j)
             \/ \E r \in Run : Claim(r, j)
      PROVE  UNCHANGED <<db, news>>
  BY <1>4 DEF Submit, LeaseRunsOut, DeadlinePasses, Sweep, Claim
<1>5. WriterStarts \/ UNCHANGED vars \/ (\E p \in Pair : SourceMoves(p)) => UNCHANGED <<db, news>>
  BY DEF WriterStarts, SourceMoves, vars
<1>6. UNCHANGED <<db, news>> => PendingIsKnown'
  BY <1>0 DEF PendingIsKnown
<1> QED BY <1>1, <1>2, <1>3, <1>4, <1>5, <1>6 DEF Next

\* While the ERP view shows all it should, whatever is pending was announced:
\* a photo without open orders keeps the old ones and hides none that are new.
THEOREM NewsFollow ==
    ASSUME ErpViewIsWhole
    PROVE  Spec => []NewsFollowThePhoto
<1>1. Init => OrderInv
  BY OrderInitially
<1>2. OrderInv /\ [Next]_vars => OrderInv'
  BY InvStep, ErpInOrderStep, PendingIsKnownStep DEF OrderInv
<1>3. OrderInv => NewsFollowThePhoto
  BY DEF OrderInv, IngestionInv, NewsFollowThePhoto
<1> QED BY <1>1, <1>2, <1>3, PTL DEF Spec

\* The photo an execution publishes is never older than the one it replaces:
\* a pair known as processed is not planned and reserved again.
THEOREM ProcessedStaysProcessed ==
    ASSUME ErpViewIsWhole
    PROVE  Spec => NeverBackToPending
<1>1. Init => OrderInv
  BY OrderInitially
<1>2. OrderInv /\ [Next]_vars => OrderInv'
  BY InvStep, ErpInOrderStep, PendingIsKnownStep DEF OrderInv
<1>3. OrderInv /\ OrderInv' /\ [Next]_vars =>
        [\A p \in Pair : db.read[p] = "erp" => db'.read[p] # "pending"]_vars
  <2> SUFFICES ASSUME OrderInv, OrderInv', [Next]_vars, NEW p \in Pair, db.read[p] = "erp"
               PROVE  db'.read[p] # "pending"
    OBVIOUS
  <2>1. p \in DOMAIN db.erp
    BY ErpMeans DEF OrderInv, IngestionInv, ReadIsRebuilt
  <2>2. p \in DOMAIN db'.erp
    BY <2>1, ErpGrows
  <2>3. db'.read[p] = "erp"
    BY <2>2, ErpMeans DEF OrderInv, IngestionInv, ReadIsRebuilt
  <2> QED BY <2>3
<1> QED BY <1>1, <1>2, <1>3, PTL DEF Spec, NeverBackToPending

-----------------------------------------------------------------------------
(* No pair is lost between two reads. *)

\* The view of the open orders is the first of SourceOrder.
PendingTaken(r) ==
    \/ run[r].pc = "swap"
    \/ run[r].pc = "read" /\ run[r].step > 1

\* What is shown once the ERP was read, and before that what must still come from it.
ErpSide(r) == IF ErpTaken(r) THEN DOMAIN run[r].photo["erp"] ELSE Done

\* A pair that was seen throughout and is not among the open orders was processed
\* before they were read, so the ERP view, which is read later, has it.
SeenIsInPhoto ==
    /\ \A r \in Run : run[r].pc = "lock" => run[r].step = 1
    /\ \A r \in Run : PendingTaken(r) =>
         run[r].seen \subseteq DOMAIN run[r].photo["pending"] \cup ErpSide(r)

SeenInv == IngestionInv /\ SeenIsInPhoto /\ CarriedIsShown

LEMMA SeenInitially == Init => SeenInv
<1> SUFFICES ASSUME Init PROVE SeenInv
  OBVIOUS
<1>1. IngestionInv
  BY InvInitially
<1>2. SeenIsInPhoto
  BY DEF SeenIsInPhoto, PendingTaken, Init, Fresh
<1>3. CarriedIsShown
  BY DEF CarriedIsShown, Init
<1> QED BY <1>1, <1>2, <1>3 DEF SeenInv

\* The photo, as far as the pairs of it go, and what was seen while it was taken.
SamePhoto(r) ==
    /\ PendingTaken(r) /\ (ErpTaken(r)' <=> ErpTaken(r))
    /\ run'[r].seen = run[r].seen
    /\ run'[r].photo["pending"] = run[r].photo["pending"]
    /\ ErpTaken(r) => run'[r].photo["erp"] = run[r].photo["erp"]

LEMMA SeenKept ==
    ASSUME SeenInv, [Next]_vars,
           \A r \in Run :
             /\ run'[r].pc = "lock" => run'[r].step = 1
             /\ PendingTaken(r)' => SamePhoto(r)
    PROVE  SeenIsInPhoto'
<1>1. Done \subseteq Done'
  BY DoneGrows DEF SeenInv, IngestionInv
<1>2. ASSUME NEW r \in Run, PendingTaken(r)'
      PROVE  run'[r].seen \subseteq DOMAIN run'[r].photo["pending"] \cup ErpSide(r)'
  <2>1. SamePhoto(r) /\ run[r].seen \subseteq DOMAIN run[r].photo["pending"] \cup ErpSide(r)
    BY <1>2 DEF SeenInv, SeenIsInPhoto, SamePhoto
  <2>2. ErpSide(r) \subseteq ErpSide(r)'
    BY <1>1, <2>1 DEF SamePhoto, ErpSide
  <2> QED BY <2>1, <2>2 DEF SamePhoto
<1> QED BY <1>2 DEF SeenIsInPhoto

\* What a read leaves of the pairs that were seen.
LEMMA SeenByRead ==
    ASSUME Typed, NEW r \in Run, NEW table, NEW p \in Pair
    PROVE  /\ p \in SeenAfter(r, "pending", table) => p \in DOMAIN table \cup Done
           /\ p \in SeenAfter(r, "erp", table) =>
                /\ p \in Done => p \in DOMAIN table
                /\ run[r].step # 1 => p \in run[r].seen
  BY DEF SeenAfter, Open, Done, Typed

LEMMA SeenStep ==
    ASSUME SeenInv, [Next]_vars
    PROVE  SeenIsInPhoto'
<1>0. Typed /\ SeenIsInPhoto
  BY DEF SeenInv, IngestionInv
<1>1. ASSUME UNCHANGED run PROVE SeenIsInPhoto'
  <2>1. \A r \in Run : PendingTaken(r)' => SamePhoto(r)
    BY <1>1 DEF SamePhoto, PendingTaken, ErpTaken
  <2> QED BY <1>0, <1>1, <2>1, SeenKept DEF SeenIsInPhoto
<1>2. ASSUME NEW r \in Run, NEW e \in Execution, run' = [run EXCEPT ![r] = e],
             e.pc = "lock" => e.step = 1, e.pc \notin {"read", "swap"}
      PROVE  SeenIsInPhoto'
  <2>1. /\ run'[r] = e
        /\ \A s \in Run : s # r => run'[s] = run[s]
    BY <1>0, <1>2 DEF Typed
  <2>2. ~PendingTaken(r)'
    BY <1>2, <2>1 DEF PendingTaken
  <2>3. \A s \in Run : s # r /\ PendingTaken(s)' => SamePhoto(s)
    BY <2>1 DEF PendingTaken, ErpTaken, SamePhoto
  <2>4. \A s \in Run : /\ run'[s].pc = "lock" => run'[s].step = 1
                       /\ PendingTaken(s)' => SamePhoto(s)
    BY <1>0, <1>2, <2>1, <2>2, <2>3 DEF SeenIsInPhoto
  <2> QED BY <2>4, SeenKept
<1>3. ASSUME NEW r \in Run, NEW j \in Job, Claim(r, j) PROVE SeenIsInPhoto'
  <2> DEFINE e == [Fresh EXCEPT !.pc = "lock", !.job = j, !.attempt = job[j].attempt + 1]
  <2>1. run' = [run EXCEPT ![r] = e] /\ job[j].attempt < MaxAttempts
    BY <1>3 DEF Claim, ClaimJob
  <2>2. job[j].attempt + 1 \in 0..MaxAttempts
    BY <1>0, <2>1, IngestionAssumption DEF Typed, JobRow
  <2>3. e \in Execution /\ e.pc = "lock" /\ e.step = 1
    BY <2>2, FreshIsTyped DEF Execution, Fresh
  <2> HIDE DEF e
  <2> QED BY <1>2, <2>1, <2>3
<1>4. ASSUME NEW r \in Run, TryLock(r) PROVE SeenIsInPhoto'
  <2>1. run[r] \in Execution /\ run[r].step = 1
    BY <1>0, <1>4 DEF Typed, TryLock, SeenIsInPhoto
  <2>2. /\ run'[r].step = 1 /\ run'[r].pc # "swap"
        /\ \A s \in Run : s # r => run'[s] = run[s]
    <3>1. \/ run' = [run EXCEPT ![r] = [run[r] EXCEPT !.pc = "read"]]
          \/ run' = [run EXCEPT ![r] = [run[r] EXCEPT !.pc = "failing", !.outcome = "skip"]]
      BY <1>4 DEF TryLock
    <3>2. run \in [Run -> Execution]
      BY <1>0 DEF Typed
    <3>3. \A e : run' = [run EXCEPT ![r] = e] =>
                 run'[r] = e /\ \A s \in Run : s # r => run'[s] = run[s]
      BY <3>2
    <3>4. ASSUME NEW e, e \in {[run[r] EXCEPT !.pc = "read"],
                               [run[r] EXCEPT !.pc = "failing", !.outcome = "skip"]}
          PROVE  e.step = 1 /\ e.pc # "swap"
      <4>1. CASE e = [run[r] EXCEPT !.pc = "read"]
        BY <2>1, <4>1 DEF Execution
      <4>2. CASE e = [run[r] EXCEPT !.pc = "failing", !.outcome = "skip"]
        BY <2>1, <4>2 DEF Execution
      <4> QED BY <3>4, <4>1, <4>2
    <3>5. PICK e \in {[run[r] EXCEPT !.pc = "read"],
                      [run[r] EXCEPT !.pc = "failing", !.outcome = "skip"]} :
            run' = [run EXCEPT ![r] = e]
      BY <3>1
    <3>6. e.step = 1 /\ e.pc # "swap"
      BY <3>4
    <3>7. run'[r] = e /\ \A s \in Run : s # r => run'[s] = run[s]
      BY <3>3, <3>5
    <3> QED BY <3>6, <3>7
  <2>3. ~PendingTaken(r)'
    BY <2>2 DEF PendingTaken
  <2>4. \A s \in Run : s # r /\ PendingTaken(s)' => SamePhoto(s)
    BY <2>2 DEF PendingTaken, ErpTaken, SamePhoto
  <2>5. \A s \in Run : /\ run'[s].pc = "lock" => run'[s].step = 1
                       /\ PendingTaken(s)' => SamePhoto(s)
    BY <1>0, <2>2, <2>3, <2>4 DEF SeenIsInPhoto
  <2> QED BY <2>5, SeenKept
<1>5. ASSUME NEW r \in Run, Read(r) PROVE SeenIsInPhoto'
  <2> DEFINE t == SourceOrder[run[r].step]
  <2>1. PICK view \in Reads(t) :
          run' = [run EXCEPT ![r] =
                          [run[r] EXCEPT !.photo[t] = view.table,
                                         !.seen = SeenAfter(r, t, view.table),
                                         !.step = IF @ = 5 THEN 5 ELSE @ + 1,
                                         !.pc = IF run[r].step = 5 THEN "swap" ELSE "read"]]
    BY <1>5 DEF Read
  <2>2. run[r].pc = "read" /\ UNCHANGED world /\ run[r] \in Execution
    BY <1>0, <1>5 DEF Read, Typed
  <2>3. /\ \A s \in Run : s # r => run'[s] = run[s]
        /\ run'[r].step = IF run[r].step = 5 THEN 5 ELSE run[r].step + 1
        /\ run'[r].pc = IF run[r].step = 5 THEN "swap" ELSE "read"
        /\ run'[r].photo = [run[r].photo EXCEPT ![t] = view.table]
        /\ run'[r].seen = SeenAfter(r, t, view.table)
    BY <1>0, <2>1, <2>2 DEF Typed, Execution
  <2>4. run[r].step \in 1..5 /\ DOMAIN run[r].photo = Tables /\ run[r].seen \subseteq Pair
    BY <2>2 DEF Execution
  <2>5. /\ t = "pending" <=> run[r].step = 1
        /\ t = "erp" <=> run[r].step = 3
    BY <2>4 DEF SourceOrder
  <2>6. /\ PendingTaken(r)'
        /\ ErpTaken(r)' <=> run[r].step >= 3
        /\ PendingTaken(r) <=> run[r].step > 1
        /\ ErpTaken(r) <=> run[r].step > 3
    BY <2>2, <2>3, <2>4 DEF PendingTaken, ErpTaken
  <2>7. Done' = Done
    BY <2>2 DEF Done
  <2>8. \A s \in Run : s # r /\ PendingTaken(s)' => SamePhoto(s)
    BY <2>3 DEF PendingTaken, ErpTaken, SamePhoto
  <2>9. \A s \in Run : run'[s].pc = "lock" => run'[s].step = 1
    BY <1>0, <2>3 DEF SeenIsInPhoto
  <2>10. run[r].step > 1 => run[r].seen \subseteq DOMAIN run[r].photo["pending"] \cup ErpSide(r)
    BY <1>0, <2>6 DEF SeenIsInPhoto
  <2>11. CASE run[r].step \in {1, 3}
    <3>1. run'[r].seen \subseteq Pair
      BY <2>3, <2>4 DEF SeenAfter
    <3>2. ASSUME run[r].step = 1
          PROVE  run'[r].seen \subseteq DOMAIN run'[r].photo["pending"] \cup ErpSide(r)'
      <4>1. run'[r].photo["pending"] = view.table
        BY <2>3, <2>4, <2>5, <3>2 DEF Tables
      <4>2. ErpSide(r)' = Done
        BY <2>6, <2>7, <3>2 DEF ErpSide
      <4>3. run'[r].seen = SeenAfter(r, "pending", view.table)
        BY <2>3, <2>5, <3>2
      <4>4. \A p \in run'[r].seen : p \in DOMAIN view.table \cup Done
        BY <1>0, <3>1, <4>3, SeenByRead
      <4> QED BY <4>1, <4>2, <4>4
    <3>3. ASSUME run[r].step = 3
          PROVE  run'[r].seen \subseteq DOMAIN run'[r].photo["pending"] \cup ErpSide(r)'
      <4>1. /\ run'[r].photo["erp"] = view.table
            /\ run'[r].photo["pending"] = run[r].photo["pending"]
        BY <2>3, <2>4, <2>5, <3>3 DEF Tables
      <4>2. ErpTaken(r)' /\ ~ErpTaken(r)
        BY <2>4, <2>6, <3>3
      <4>3. ErpSide(r)' = DOMAIN view.table /\ ErpSide(r) = Done
        BY <4>1, <4>2 DEF ErpSide
      <4>4. run'[r].seen = SeenAfter(r, "erp", view.table)
        BY <2>3, <2>5, <3>3
      <4>5. \A p \in run'[r].seen : /\ p \in Done => p \in DOMAIN view.table
                                    /\ p \in run[r].seen
        BY <1>0, <3>1, <3>3, <4>4, SeenByRead
      <4>6. \A p \in run[r].seen : p \in DOMAIN run[r].photo["pending"] \cup Done
        BY <2>10, <3>3, <4>3
      <4> QED BY <4>1, <4>3, <4>5, <4>6
    <3>4. run'[r].seen \subseteq DOMAIN run'[r].photo["pending"] \cup ErpSide(r)'
      BY <2>11, <3>2, <3>3
    <3>5. ASSUME NEW s \in Run, s # r, PendingTaken(s)'
          PROVE  run'[s].seen \subseteq DOMAIN run'[s].photo["pending"] \cup ErpSide(s)'
      <4>1. SamePhoto(s) /\ run'[s] = run[s]
        BY <2>3, <2>8, <3>5
      <4>2. run[s].seen \subseteq DOMAIN run[s].photo["pending"] \cup ErpSide(s)
        BY <1>0, <4>1 DEF SamePhoto, SeenIsInPhoto
      <4>3. ErpSide(s)' = ErpSide(s)
        BY <2>7, <4>1 DEF SamePhoto, ErpSide
      <4> QED BY <4>1, <4>2, <4>3
    <3> QED BY <2>9, <3>4, <3>5 DEF SeenIsInPhoto
  <2>12. CASE run[r].step \notin {1, 3}
    <3>1. t \notin {"pending", "erp"} /\ run[r].step # 1
      BY <2>5, <2>12
    <3>2. run'[r].seen = run[r].seen
      BY <2>3, <3>1 DEF SeenAfter
    <3>3. /\ run'[r].photo["pending"] = run[r].photo["pending"]
          /\ run'[r].photo["erp"] = run[r].photo["erp"]
      BY <2>3, <2>4, <3>1 DEF Tables
    <3>4. SamePhoto(r)
      BY <2>4, <2>6, <2>12, <3>2, <3>3 DEF SamePhoto
    <3> QED BY <2>8, <2>9, <3>4, SeenKept
  <2> QED BY <2>11, <2>12
<1>6. ASSUME NEW r \in Run, Swap(r) PROVE SeenIsInPhoto'
  <2>1. run' = [run EXCEPT ![r] = Published(r)]
    BY <1>6 DEF Swap, Published
  <2>2. Published(r) \in Execution /\ Published(r).pc = "unlock"
    BY <1>0, StopsAreTyped
  <2> QED BY <1>2, <2>1, <2>2
<1>7. ASSUME NEW r \in Run, Unlock(r) PROVE SeenIsInPhoto'
  <2>1. /\ [run[r] EXCEPT !.pc = "succeed"] \in Execution
        /\ [run[r] EXCEPT !.pc = "succeed"].pc = "succeed"
    BY <1>0 DEF Typed, Execution
  <2>2. run' = [run EXCEPT ![r] = [run[r] EXCEPT !.pc = "succeed"]]
    BY <1>7 DEF Unlock
  <2> QED BY <1>2, <2>1, <2>2
<1>8. ASSUME NEW r \in Run,
             \/ ReadRefused(r) \/ SwapBusy(r) \/ KeeperLost(r) \/ Crash(r)
             \/ ServerDropsConnection(r) \/ Succeed(r) \/ Transition(r)
             \/ \E outcome \in {"retry", "fail"} : SyncFails(r, outcome)
      PROVE  SeenIsInPhoto'
  <2>1. \/ run' = [run EXCEPT ![r] = Ended]
        \/ run' = [run EXCEPT ![r] = Killed]
        \/ \E outcome \in {"none", "retry", "fail", "skip"} :
             run' = [run EXCEPT ![r] = Failing(r, outcome)]
    BY <1>8 DEF ReadRefused, SwapBusy, KeeperLost, Crash, ServerDropsConnection, SyncFails,
                Succeed, Transition, Ends, Fails, Ended, Killed, Failing
  <2>2. PICK e \in Execution :
          run' = [run EXCEPT ![r] = e] /\ e.pc \in {"end", "killed", "failing"}
    BY <1>0, <2>1, StopsAreTyped
  <2> QED BY <1>2, <2>2
<1>9. ASSUME NEW j \in Job, Submit(j) \/ LeaseRunsOut(j) \/ DeadlinePasses(j) \/ Sweep(j)
      PROVE  UNCHANGED run
  BY <1>9 DEF Submit, LeaseRunsOut, DeadlinePasses, Sweep
<1>10. \/ WriterStarts \/ WriterCommits \/ UNCHANGED vars
       \/ (\E p \in Pair : SourceMoves(p))
       => UNCHANGED run
  BY DEF WriterStarts, WriterCommits, SourceMoves, vars
<1> QED
  BY <1>1, <1>3, <1>4, <1>5, <1>6, <1>7, <1>8, <1>9, <1>10 DEF Next, Progress

LEMMA CarriedStep ==
    ASSUME SeenInv, [Next]_vars
    PROVE  CarriedIsShown'
<1>0. Typed /\ SeenIsInPhoto /\ CarriedIsShown
  BY DEF SeenInv, IngestionInv
<1>1. ASSUME NEW r \in Run, Swap(r) PROVE CarriedIsShown'
  <2>1. /\ db' = Refreshed(r) /\ carried' = run[r].seen
        /\ PendingTaken(r) /\ ErpTaken(r)
    BY <1>1 DEF Swap, PendingTaken, ErpTaken
  <2>2. run[r].seen \subseteq Pair
    BY <1>0 DEF Typed, Execution
  <2>3. \A t \in {"pending", "erp"} : DOMAIN run[r].photo[t] \subseteq DOMAIN KeptOrReplaced(r, t)
    BY DEF KeptOrReplaced, Nothing
  <2>4. db'.read = ReadModel(KeptOrReplaced(r, "pending"), KeptOrReplaced(r, "erp"), Pair)
    BY <2>1 DEF Refreshed
  <2>5. \A p \in run[r].seen :
          p \in DOMAIN KeptOrReplaced(r, "pending") \cup DOMAIN KeptOrReplaced(r, "erp")
    BY <1>0, <2>1, <2>3 DEF SeenIsInPhoto, ErpSide
  <2> QED BY <2>1, <2>2, <2>4, <2>5 DEF CarriedIsShown, ReadModel
<1>2. CASE WriterCommits
  <2>1. db' = [db EXCEPT !.standby = @ \cup draft] /\ UNCHANGED carried
    BY <1>2 DEF WriterCommits
  <2>2. db'.read = db.read
    BY <1>0, <2>1 DEF Typed, Database
  <2> QED BY <1>0, <2>1, <2>2 DEF CarriedIsShown
<1>3. ASSUME NEW r \in Run, Progress(r) \/ KeeperLost(r) \/ Crash(r), ~Swap(r)
      PROVE  UNCHANGED <<db, carried>>
  BY <1>3 DEF Progress, TryLock, Read, ReadRefused, SyncFails, SwapBusy, Unlock, Succeed,
              Transition, ServerDropsConnection, KeeperLost, Crash
<1>4. ASSUME NEW j \in Job,
             \/ Submit(j) \/ LeaseRunsOut(j) \/ DeadlinePasses(j) \/ Sweep(j)
             \/ \E r \in Run : Claim(r, j)
      PROVE  UNCHANGED <<db, carried>>
  BY <1>4 DEF Submit, LeaseRunsOut, DeadlinePasses, Sweep, Claim
<1>5. \/ WriterStarts \/ UNCHANGED vars \/ (\E p \in Pair : SourceMoves(p))
      => UNCHANGED <<db, carried>>
  BY DEF WriterStarts, SourceMoves, vars
<1>6. UNCHANGED <<db, carried>> => CarriedIsShown'
  BY <1>0 DEF CarriedIsShown
<1> QED BY <1>1, <1>2, <1>3, <1>4, <1>5, <1>6 DEF Next

\* A pair the source had from the first read of a photo to the last, wherever it was,
\* is shown when that photo is published: the open orders are read before the ERP.
THEOREM PhotoLosesNoPair == Spec => []CarriedIsShown
<1>1. Init => SeenInv
  BY SeenInitially
<1>2. SeenInv /\ [Next]_vars => SeenInv'
  BY InvStep, SeenStep, CarriedStep DEF SeenInv
<1>3. SeenInv => CarriedIsShown
  BY DEF SeenInv
<1> QED BY <1>1, <1>2, <1>3, PTL DEF Spec

-----------------------------------------------------------------------------
(* Sums and lists.  As in AllocationProofs they are unfolded by induction over  *)
(* finite sets, which is an induction over numbers on a set.                  *)

\* A set of numbers that is not empty has a least one.
LEMMA HasLeast ==
  ASSUME NEW S, S \subseteq Nat, S # {}
  PROVE  \E x \in S : \A y \in S : x <= y
<1>1. PICK x \in S : \A y \in S : ~ (<<y, x>> \in OpToRel(<, Nat))
  BY NatLessThanWellFounded, WFMin
<1>2. \A y \in S : ~ (y < x)
  <2> TAKE y \in S
  <2>1. x \in Nat /\ y \in Nat /\ <<y, x>> \in Nat \X Nat
    OBVIOUS
  <2> QED BY <1>1, <2>1 DEF OpToRel
<1> QED BY <1>2

\* Induction over the numbers, on a set: no operator is passed.
LEMMA Upwards ==
  ASSUME NEW G, 0 \in G, \A n \in Nat : n \in G => n + 1 \in G
  PROVE  Nat \subseteq G
<1> SUFFICES ASSUME Nat \ G # {} PROVE FALSE
  OBVIOUS
<1>1. PICK n \in Nat \ G : \A m \in Nat \ G : n <= m
  BY HasLeast
<1>2. n # 0
  BY <1>1
<1>3. n - 1 \in Nat /\ (n - 1) + 1 = n
  BY <1>2
<1>4. n - 1 \in G
  BY <1>1, <1>3
<1> QED BY <1>1, <1>3, <1>4

\* Induction over a finite set: what holds of {} and survives one more element
\* holds of the set.
LEMMA FiniteInduction ==
  ASSUME NEW S, IsFiniteSet(S), NEW G, {} \in G,
         \A T \in SUBSET S : \A x \in S : T \in G /\ x \notin T => T \cup {x} \in G
  PROVE  S \in G
<1> DEFINE N == {n \in Nat : \A T \in SUBSET S : Cardinality(T) = n => T \in G}
<1>1. \A T \in SUBSET S : IsFiniteSet(T) /\ Cardinality(T) \in Nat
  BY FS_Subset, FS_CardinalityType
<1>2. 0 \in N
  BY <1>1, FS_EmptySet
<1>3. ASSUME NEW n \in Nat, n \in N PROVE n + 1 \in N
  <2> SUFFICES ASSUME NEW T \in SUBSET S, Cardinality(T) = n + 1 PROVE T \in G
    OBVIOUS
  <2>1. T # {}
    BY <1>1, FS_EmptySet
  <2>2. PICK x \in T : TRUE
    BY <2>1
  <2>3. Cardinality(T \ {x}) = Cardinality(T) - 1 /\ T \ {x} \in SUBSET S
    BY <1>1, FS_RemoveElement
  <2>4. T \ {x} \in G
    BY <1>1, <1>3, <2>3
  <2>5. T = (T \ {x}) \cup {x}
    OBVIOUS
  <2> QED BY <2>2, <2>3, <2>4, <2>5
<1>4. Nat \subseteq N
  <2> HIDE DEF N
  <2> QED BY <1>2, <1>3, Upwards
<1> QED BY <1>1, <1>4

\* g is the function that takes a set apart element by element, as pick says.
Rec(g, D, b, h, pick) ==
  \A s \in D : g[s] = IF s = {} THEN b ELSE h[<<pick[s], g[s \ {pick[s]}]>>]

\* There is such a function, for every choice function and every step h.
LEMMA SetRecursion ==
  ASSUME NEW S, IsFiniteSet(S), NEW A, NEW b \in A, NEW h \in [S \X A -> A],
         NEW pick, \A s \in (SUBSET S) \ {{}} : pick[s] \in s
  PROVE  \E g \in [SUBSET S -> A] : Rec(g, SUBSET S, b, h, pick)
<1> DEFINE Upto(n) == {s \in SUBSET S : Cardinality(s) <= n}
           N == {n \in Nat : \E g \in [Upto(n) -> A] : Rec(g, Upto(n), b, h, pick)}
<1>1. \A T \in SUBSET S : IsFiniteSet(T) /\ Cardinality(T) \in Nat
  BY FS_Subset, FS_CardinalityType
<1>2. 0 \in N
  <2>1. Upto(0) = {{}}
    BY <1>1, FS_EmptySet
  <2>2. [s \in Upto(0) |-> b] \in [Upto(0) -> A]
    OBVIOUS
  <2> QED BY <2>1, <2>2 DEF Rec
<1>3. ASSUME NEW n \in Nat, n \in N PROVE n + 1 \in N
  <2>1. PICK g \in [Upto(n) -> A] : Rec(g, Upto(n), b, h, pick)
    BY <1>3
  <2> DEFINE k == [s \in Upto(n + 1) |-> IF s = {} THEN b ELSE h[<<pick[s], g[s \ {pick[s]}]>>]]
  <2>2. ASSUME NEW s \in Upto(n + 1), s # {}
        PROVE  s \ {pick[s]} \in Upto(n) /\ pick[s] \in S
    <3>1. pick[s] \in s /\ s \in SUBSET S
      BY <2>2
    <3>2. Cardinality(s \ {pick[s]}) = Cardinality(s) - 1
      BY <1>1, <3>1, FS_RemoveElement
    <3> QED BY <1>1, <2>2, <3>1, <3>2
  <2>3. k \in [Upto(n + 1) -> A]
    BY <2>2
  <2>4. ASSUME NEW s \in Upto(n) PROVE k[s] = g[s]
    <3>1. s \in Upto(n + 1)
      BY <1>1
    <3> QED BY <2>1, <3>1 DEF Rec
  <2>5. ASSUME NEW s \in Upto(n + 1)
        PROVE  k[s] = IF s = {} THEN b ELSE h[<<pick[s], k[s \ {pick[s]}]>>]
    <3>1. CASE s = {}
      BY <3>1
    <3>2. CASE s # {}
      <4>1. k[s \ {pick[s]}] = g[s \ {pick[s]}]
        BY <2>2, <2>4, <3>2
      <4> QED BY <3>2, <4>1
    <3> QED BY <3>1, <3>2
  <2>6. Rec(k, Upto(n + 1), b, h, pick)
    BY <2>5 DEF Rec
  <2> QED
    <3> HIDE DEF k, Upto
    <3> QED BY <2>3, <2>6
<1>4. Nat \subseteq N
  <2> HIDE DEF N
  <2> QED BY <1>2, <1>3, Upwards
<1>5. Cardinality(S) \in N
  BY <1>1, <1>4
<1>6. SUBSET S = Upto(Cardinality(S))
  <2> SUFFICES ASSUME NEW s \in SUBSET S PROVE Cardinality(s) <= Cardinality(S)
    OBVIOUS
  <2> QED BY FS_Subset
<1> QED BY <1>5, <1>6

\* The element that the folds of the community modules take first.
Choice(s) == CHOOSE x \in s : TRUE

\* The function behind MapThenFoldSet, when it adds the values of f.
Partial(f, S) ==
  CHOOSE g : g = [s \in SUBSET S |-> IF s = {} THEN 0 ELSE f[Choice(s)] + g[s \ {Choice(s)}]]

\* g adds the values of f over each part of S.
Unfolds(g, f, S) ==
  /\ g \in [SUBSET S -> Int]
  /\ \A s \in SUBSET S : g[s] = IF s = {} THEN 0 ELSE f[Choice(s)] + g[s \ {Choice(s)}]

\* A sum over a set is that function at the set.
LEMMA SumIsPartial ==
  ASSUME NEW f, NEW S
  PROVE  SumFunctionOnSet(f, S) = Partial(f, S)[S]
BY Zenon DEF SumFunctionOnSet, FoldFunctionOnSet, MapThenFoldSet, Partial, Choice

\* What is chosen from a set is in it.
LEMMA ChoiceIsIn ==
  ASSUME NEW s, s # {}
  PROVE  Choice(s) \in s
BY DEF Choice

\* Over a finite set it does add: a sum is one value plus the sum of the others.
LEMMA PartialUnfolds ==
  ASSUME NEW S, IsFiniteSet(S), NEW f, \A x \in S : f[x] \in Int
  PROVE  Unfolds(Partial(f, S), f, S)
<1> DEFINE h == [y \in S \X Int |-> f[y[1]] + y[2]]
           pick == [s \in (SUBSET S) \ {{}} |-> Choice(s)]
           Body(g) == [s \in SUBSET S |-> IF s = {} THEN 0 ELSE f[Choice(s)] + g[s \ {Choice(s)}]]
<1>1. h \in [S \X Int -> Int]
  OBVIOUS
<1>2. \A s \in (SUBSET S) \ {{}} : pick[s] \in s
  BY ChoiceIsIn
<1>3. PICK g \in [SUBSET S -> Int] : Rec(g, SUBSET S, 0, h, pick)
  <2> HIDE DEF h, pick
  <2>1. 0 \in Int
    OBVIOUS
  <2> QED BY <1>1, <1>2, <2>1, SetRecursion, Zenon
<1>4. ASSUME NEW s \in SUBSET S
      PROVE  g[s] = IF s = {} THEN 0 ELSE f[Choice(s)] + g[s \ {Choice(s)}]
  <2>1. CASE s = {}
    BY <1>3, <2>1 DEF Rec
  <2>2. CASE s # {}
    <3>1. Choice(s) \in S /\ pick[s] = Choice(s)
      BY <2>2, ChoiceIsIn
    <3>2. g[s] = h[<<pick[s], g[s \ {pick[s]}]>>]
      <4> HIDE DEF h, pick
      <4> QED BY <1>3, <2>2, Zenon DEF Rec
    <3>3. g[s \ {pick[s]}] \in Int /\ <<pick[s], g[s \ {pick[s]}]>> \in S \X Int
      <4> HIDE DEF h, pick
      <4>1. s \ {pick[s]} \in SUBSET S
        OBVIOUS
      <4> QED BY <1>3, <3>1, <4>1
    <3> QED BY <2>2, <3>1, <3>2, <3>3
  <2> QED BY <2>1, <2>2
<1>5. g = Body(g)
  BY <1>4
<1>6. Partial(f, S) = Body(Partial(f, S))
  <2> HIDE DEF Body
  <2>1. Partial(f, S) = CHOOSE k : k = Body(k)
    BY DEF Partial, Body
  <2> QED BY <1>5, <2>1, Zenon
<1> DEFINE P == Partial(f, S)
<1>7. \A s \in SUBSET S : P[s] = IF s = {} THEN 0 ELSE f[Choice(s)] + P[s \ {Choice(s)}]
  <2> HIDE DEF P
  <2>1. P = Body(P)
    BY <1>6 DEF P
  <2> QED BY <2>1
<1>8. DOMAIN P = SUBSET S
  <2> HIDE DEF P
  <2>1. P = Body(P)
    BY <1>6 DEF P
  <2> QED BY <2>1
<1>9. ASSUME NEW n \in Nat, \A s \in SUBSET S : Cardinality(s) = n => P[s] \in Int
      PROVE  \A s \in SUBSET S : Cardinality(s) = n + 1 => P[s] \in Int
  <2> HIDE DEF P
  <2> SUFFICES ASSUME NEW s \in SUBSET S, Cardinality(s) = n + 1 PROVE P[s] \in Int
    OBVIOUS
  <2>1. IsFiniteSet(s) /\ s # {}
    BY FS_Subset, FS_EmptySet
  <2>2. Choice(s) \in s
    BY <2>1, ChoiceIsIn
  <2>3. Cardinality(s \ {Choice(s)}) = Cardinality(s) - 1
    BY <2>1, <2>2, FS_RemoveElement
  <2>4. P[s \ {Choice(s)}] \in Int
    BY <1>9, <2>2, <2>3
  <2> QED BY <1>7, <2>1, <2>2, <2>4
<1>10. \A s \in SUBSET S : P[s] \in Int
  <2> DEFINE N == {n \in Nat : \A s \in SUBSET S : Cardinality(s) = n => P[s] \in Int}
  <2> HIDE DEF P
  <2>1. 0 \in N
    <3>1. \A s \in SUBSET S : Cardinality(s) = 0 => s = {}
      BY FS_Subset, FS_EmptySet
    <3>2. P[{}] = 0
      BY <1>7
    <3>3. \A s \in SUBSET S : Cardinality(s) = 0 => P[s] \in Int
      BY <3>1, <3>2
    <3> QED BY <3>3
  <2>2. \A n \in Nat : n \in N => n + 1 \in N
    BY <1>9
  <2>3. Nat \subseteq N
    <3> HIDE DEF N
    <3> QED BY <2>1, <2>2, Upwards
  <2> QED BY <2>3, FS_Subset, FS_CardinalityType
<1>11. P = [s \in SUBSET S |-> P[s]]
  <2> HIDE DEF P
  <2>1. P = Body(P)
    BY <1>6 DEF P
  <2> QED BY <2>1
<1> QED
  <2> HIDE DEF P
  <2>1. P \in [SUBSET S -> Int]
    BY <1>10, <1>11
  <2>2. Unfolds(P, f, S)
    BY <1>7, <2>1 DEF Unfolds
  <2> QED BY <2>2 DEF P

\* Induction downwards: what holds of a set whenever it holds of the set without one
\* element holds of every part of a finite set.
LEMMA Shrinking ==
  ASSUME NEW S, IsFiniteSet(S), NEW G,
         \A T \in SUBSET S : (\A x \in T : T \ {x} \in G) => T \in G
  PROVE  \A T \in SUBSET S : T \in G
<1> DEFINE N == {n \in Nat : \A T \in SUBSET S : Cardinality(T) = n => T \in G}
<1>1. \A T \in SUBSET S : IsFiniteSet(T) /\ Cardinality(T) \in Nat
  BY FS_Subset, FS_CardinalityType
<1>2. 0 \in N
  <2> SUFFICES ASSUME NEW T \in SUBSET S, Cardinality(T) = 0 PROVE T \in G
    OBVIOUS
  <2>1. T = {}
    BY <1>1, FS_EmptySet
  <2> QED BY <2>1
<1>3. ASSUME NEW n \in Nat, n \in N PROVE n + 1 \in N
  <2> SUFFICES ASSUME NEW T \in SUBSET S, Cardinality(T) = n + 1 PROVE T \in G
    OBVIOUS
  <2>1. ASSUME NEW x \in T PROVE T \ {x} \in G
    <3>1. Cardinality(T \ {x}) = Cardinality(T) - 1 /\ T \ {x} \in SUBSET S
      BY <1>1, FS_RemoveElement
    <3> QED BY <1>1, <1>3, <3>1
  <2> QED BY <2>1
<1>4. Nat \subseteq N
  <2> HIDE DEF N
  <2> QED BY <1>2, <1>3, Upwards
<1> QED BY <1>1, <1>4

\* Sums of the same values agree, whatever larger set each was taken over.
LEMMA UnfoldsAlike ==
  ASSUME NEW S, NEW T \in SUBSET S, IsFiniteSet(S), NEW f, NEW e, NEW g, NEW k,
         Unfolds(g, f, S), Unfolds(k, e, T), \A x \in T : f[x] = e[x]
  PROVE  \A U \in SUBSET T : g[U] = k[U]
<1> DEFINE G == {U \in SUBSET T : g[U] = k[U]}
<1>1. IsFiniteSet(T)
  BY FS_Subset
<1>2. ASSUME NEW U \in SUBSET T, \A x \in U : U \ {x} \in G PROVE U \in G
  <2>1. CASE U = {}
    BY <2>1 DEF Unfolds
  <2>2. CASE U # {}
    <3>1. Choice(U) \in U
      BY <2>2, ChoiceIsIn
    <3>2. g[U \ {Choice(U)}] = k[U \ {Choice(U)}]
      BY <1>2, <3>1
    <3> QED BY <2>2, <3>1, <3>2 DEF Unfolds
  <2> QED BY <2>1, <2>2
<1>3. \A U \in SUBSET T : U \in G
  <2> HIDE DEF G
  <2> QED BY <1>1, <1>2, Shrinking
<1> QED BY <1>3

\* The element taken out first does not matter.
LEMMA AnyOrder ==
  ASSUME NEW S, IsFiniteSet(S), NEW f, \A x \in S : f[x] \in Int, NEW g, Unfolds(g, f, S)
  PROVE  \A T \in SUBSET S : \A x \in T : g[T] = f[x] + g[T \ {x}]
<1> DEFINE G == {T \in SUBSET S : \A x \in T : g[T] = f[x] + g[T \ {x}]}
<1>1. ASSUME NEW T \in SUBSET S, \A x \in T : T \ {x} \in G PROVE T \in G
  <2> SUFFICES ASSUME NEW x \in T PROVE g[T] = f[x] + g[T \ {x}]
    OBVIOUS
  <2> DEFINE y == Choice(T)
  <2>1. y \in T
    BY ChoiceIsIn
  <2>2. g[T] = f[y] + g[T \ {y}]
    BY DEF Unfolds
  <2> HIDE DEF y
  <2>3. CASE y = x
    BY <2>2, <2>3
  <2>4. CASE y # x
    <3>1. g[T \ {y}] = f[x] + g[(T \ {y}) \ {x}]
      BY <1>1, <2>1, <2>4
    <3>2. g[T \ {x}] = f[y] + g[(T \ {x}) \ {y}]
      BY <1>1, <2>1, <2>4
    <3>3. (T \ {y}) \ {x} = (T \ {x}) \ {y}
      OBVIOUS
    <3>4. f[x] \in Int /\ f[y] \in Int /\ g[(T \ {x}) \ {y}] \in Int
      BY <2>1 DEF Unfolds
    <3>5. g[T] = f[y] + (f[x] + g[(T \ {x}) \ {y}])
      BY <2>2, <3>1, <3>3
    <3>6. f[x] + g[T \ {x}] = f[x] + (f[y] + g[(T \ {x}) \ {y}])
      BY <3>2
    <3>7. \A a, b, c \in Int : a + (b + c) = b + (a + c)
      OBVIOUS
    <3> QED BY <3>4, <3>5, <3>6, <3>7
  <2> QED BY <2>3, <2>4
<1>2. \A T \in SUBSET S : T \in G
  <2> HIDE DEF G
  <2> QED BY <1>1, Shrinking
<1> QED BY <1>2

\* The three facts that the lemmas about sums need: the empty sum, its type, and one
\* value taken out.
LEMMA SumFacts ==
  ASSUME NEW S, IsFiniteSet(S), NEW f, \A x \in S : f[x] \in Int
  PROVE  /\ SumFunctionOnSet(f, {}) = 0
         /\ SumFunctionOnSet(f, S) \in Int
         /\ \A x \in S : SumFunctionOnSet(f, S) = f[x] + SumFunctionOnSet(f, S \ {x})
<1>1. \A T \in SUBSET S : IsFiniteSet(T) /\ Unfolds(Partial(f, T), f, T)
  BY FS_Subset, PartialUnfolds
<1>2. \A T \in SUBSET S : SumFunctionOnSet(f, T) = Partial(f, S)[T]
  <2> TAKE T \in SUBSET S
  <2>1. \A U \in SUBSET T : Partial(f, S)[U] = Partial(f, T)[U]
    BY <1>1, UnfoldsAlike
  <2> QED BY <2>1, SumIsPartial
<1>3. Partial(f, S)[{}] = 0 /\ Partial(f, S)[S] \in Int
  BY <1>1 DEF Unfolds
<1>4. \A x \in S : Partial(f, S)[S] = f[x] + Partial(f, S)[S \ {x}]
  BY <1>1, AnyOrder
<1> QED BY <1>2, <1>3, <1>4

\* Over no element at all a sum is 0.
LEMMA SumEmpty ==
  ASSUME NEW f
  PROVE  SumFunctionOnSet(f, {}) = 0
BY SumFacts, FS_EmptySet

\* One more element adds its value.
LEMMA SumAddOne ==
  ASSUME NEW S, IsFiniteSet(S), NEW x, x \notin S, NEW f, \A y \in S \cup {x} : f[y] \in Int
  PROVE  SumFunctionOnSet(f, S \cup {x}) = f[x] + SumFunctionOnSet(f, S)
<1>1. IsFiniteSet(S \cup {x}) /\ (S \cup {x}) \ {x} = S
  BY FS_AddElement
<1> QED BY <1>1, SumFacts

\* The sum over a part of a finite set is an integer.
LEMMA SumType ==
  ASSUME NEW S, IsFiniteSet(S), NEW f, \A y \in S : f[y] \in Int
  PROVE  \A T \in SUBSET S : IsFiniteSet(T) /\ SumFunctionOnSet(f, T) \in Int
BY FS_Subset, SumFacts

\* h is a times f, and e.
Combines(h, a, f, e, S) ==
  \A x \in S : f[x] \in Int /\ e[x] \in Int /\ h[x] = a * f[x] + e[x]

\* A sum distributes over a multiple and an addition.
LEMMA SumLinear ==
  ASSUME NEW S, IsFiniteSet(S), NEW a \in Int, NEW f, NEW e, NEW h, Combines(h, a, f, e, S)
  PROVE  SumFunctionOnSet(h, S) = a * SumFunctionOnSet(f, S) + SumFunctionOnSet(e, S)
<1> USE DEF Combines
<1> DEFINE Law(T) == SumFunctionOnSet(h, T)
                       = a * SumFunctionOnSet(f, T) + SumFunctionOnSet(e, T)
           G == {T \in SUBSET S : Law(T)}
<1>1. \A x \in S : h[x] \in Int
  OBVIOUS
<1>2. {} \in G
  BY SumEmpty
<1>3. ASSUME NEW T \in SUBSET S, NEW x \in S, T \in G, x \notin T PROVE T \cup {x} \in G
  <2>1. IsFiniteSet(T) /\ T \cup {x} \in SUBSET S
    BY FS_Subset
  <2>2. /\ SumFunctionOnSet(h, T \cup {x}) = h[x] + SumFunctionOnSet(h, T)
        /\ SumFunctionOnSet(f, T \cup {x}) = f[x] + SumFunctionOnSet(f, T)
        /\ SumFunctionOnSet(e, T \cup {x}) = e[x] + SumFunctionOnSet(e, T)
    BY <1>1, <1>3, <2>1, SumAddOne
  <2>3. /\ SumFunctionOnSet(f, T) \in Int /\ SumFunctionOnSet(e, T) \in Int
        /\ f[x] \in Int /\ e[x] \in Int
    BY <2>1, SumType
  <2>4. \A u, v, p, q \in Int : (a * u + v) + (a * p + q) = a * (u + p) + (v + q)
    OBVIOUS
  <2>5. (a * f[x] + e[x]) + (a * SumFunctionOnSet(f, T) + SumFunctionOnSet(e, T))
          = a * (f[x] + SumFunctionOnSet(f, T)) + (e[x] + SumFunctionOnSet(e, T))
    BY <2>3, <2>4
  <2>6. Law(T \cup {x})
    BY <1>3, <2>2, <2>5
  <2> QED BY <2>1, <2>6
<1>4. S \in G
  <2> HIDE DEF G
  <2> QED BY <1>2, <1>3, FiniteInduction
<1> QED BY <1>4

\* A sum of smaller values is smaller.
LEMMA SumLeq ==
  ASSUME NEW S, IsFiniteSet(S), NEW f, NEW e,
         \A x \in S : f[x] \in Int /\ e[x] \in Int /\ f[x] <= e[x]
  PROVE  SumFunctionOnSet(f, S) <= SumFunctionOnSet(e, S)
<1> DEFINE Law(T) == SumFunctionOnSet(f, T) <= SumFunctionOnSet(e, T)
           G == {T \in SUBSET S : Law(T)}
<1>1. {} \in G
  BY SumEmpty
<1>2. ASSUME NEW T \in SUBSET S, NEW x \in S, T \in G, x \notin T PROVE T \cup {x} \in G
  <2>1. IsFiniteSet(T) /\ T \cup {x} \in SUBSET S
    BY FS_Subset
  <2>2. /\ SumFunctionOnSet(f, T \cup {x}) = f[x] + SumFunctionOnSet(f, T)
        /\ SumFunctionOnSet(e, T \cup {x}) = e[x] + SumFunctionOnSet(e, T)
    BY <1>2, <2>1, SumAddOne
  <2>3. /\ SumFunctionOnSet(f, T) \in Int /\ SumFunctionOnSet(e, T) \in Int
        /\ f[x] \in Int /\ e[x] \in Int /\ f[x] <= e[x]
    BY <2>1, SumType
  <2>4. Law(T \cup {x})
    BY <1>2, <2>2, <2>3
  <2> QED BY <2>1, <2>4
<1>3. S \in G
  <2> HIDE DEF G
  <2> QED BY <1>1, <1>2, FiniteInduction
<1> QED BY <1>3

\* A sum depends on the values over its set, and on nothing else.
LEMMA SumAlike ==
  ASSUME NEW S, IsFiniteSet(S), NEW f, NEW e, \A x \in S : f[x] \in Int /\ f[x] = e[x]
  PROVE  SumFunctionOnSet(f, S) = SumFunctionOnSet(e, S)
<1>1. /\ SumFunctionOnSet(f, S) <= SumFunctionOnSet(e, S)
      /\ SumFunctionOnSet(e, S) <= SumFunctionOnSet(f, S)
  BY SumLeq
<1> QED BY <1>1, SumType

\* A sum of zeros is 0.
LEMMA SumZeros ==
  ASSUME NEW S, IsFiniteSet(S), NEW f, \A x \in S : f[x] = 0
  PROVE  SumFunctionOnSet(f, S) = 0
<1> DEFINE G == {T \in SUBSET S : SumFunctionOnSet(f, T) = 0}
<1>3. {} \in G
  BY SumEmpty
<1>4. ASSUME NEW T \in SUBSET S, NEW x \in S, T \in G, x \notin T PROVE T \cup {x} \in G
  <2>1. IsFiniteSet(T) /\ T \cup {x} \in SUBSET S
    BY FS_Subset
  <2>a. \A y \in T \cup {x} : f[y] \in Int
    OBVIOUS
  <2>2. SumFunctionOnSet(f, T \cup {x}) = f[x] + SumFunctionOnSet(f, T)
    BY <1>4, <2>1, <2>a, SumAddOne
  <2>3. SumFunctionOnSet(f, T \cup {x}) = 0
    BY <1>4, <2>2
  <2> QED BY <2>1, <2>3
<1>5. S \in G
  <2> HIDE DEF G
  <2> QED BY <1>3, <1>4, FiniteInduction
<1> QED BY <1>5

\* A sum of naturals is one, and bounds each of its values.
LEMMA SumPositive ==
  ASSUME NEW S, IsFiniteSet(S), NEW f, \A x \in S : f[x] \in Nat
  PROVE  /\ SumFunctionOnSet(f, S) \in Nat
         /\ \A x \in S : f[x] <= SumFunctionOnSet(f, S)
<1> DEFINE z == [x \in S |-> 0]
<1>0. \A T \in SUBSET S : IsFiniteSet(T)
  BY FS_Subset
<1>1. ASSUME NEW T \in SUBSET S PROVE SumFunctionOnSet(f, T) \in Nat
  <2>1. SumFunctionOnSet(z, T) = 0
    BY <1>0, SumZeros
  <2>2. SumFunctionOnSet(z, T) <= SumFunctionOnSet(f, T)
    BY <1>0, SumLeq
  <2>3. SumFunctionOnSet(f, T) \in Int
    BY <1>0, SumType
  <2> QED BY <2>1, <2>2, <2>3
<1>2. ASSUME NEW x \in S PROVE f[x] <= SumFunctionOnSet(f, S)
  <2>1. SumFunctionOnSet(f, S) = f[x] + SumFunctionOnSet(f, S \ {x})
    BY SumFacts
  <2>2. SumFunctionOnSet(f, S \ {x}) \in Nat
    BY <1>1
  <2> QED BY <2>1, <2>2
<1> QED BY <1>1, <1>2

\* The sum over two disjoint sets is the sum of the two sums.
LEMMA SumUnion ==
  ASSUME NEW S, IsFiniteSet(S), NEW R, IsFiniteSet(R), S \cap R = {},
         NEW f, \A x \in S \cup R : f[x] \in Int
  PROVE  SumFunctionOnSet(f, S \cup R) = SumFunctionOnSet(f, S) + SumFunctionOnSet(f, R)
<1> DEFINE Law(T) == SumFunctionOnSet(f, S \cup T) = SumFunctionOnSet(f, S) + SumFunctionOnSet(f, T)
           G == {T \in SUBSET R : Law(T)}
<1>0. \A T \in SUBSET R : IsFiniteSet(T) /\ IsFiniteSet(S \cup T)
  BY FS_Subset, FS_Union
<1>1. {} \in G
  <2>1. S \cup {} = S
    OBVIOUS
  <2>2. SumFunctionOnSet(f, S) \in Int
    BY SumType
  <2> QED BY <2>1, <2>2, SumEmpty
<1>2. ASSUME NEW T \in SUBSET R, NEW x \in R, T \in G, x \notin T PROVE T \cup {x} \in G
  <2>1. T \cup {x} \in SUBSET R /\ x \notin S \cup T /\ S \cup (T \cup {x}) = (S \cup T) \cup {x}
    BY <1>2
  <2>2. SumFunctionOnSet(f, T \cup {x}) = f[x] + SumFunctionOnSet(f, T)
    BY <1>0, <1>2, SumAddOne
  <2>3. SumFunctionOnSet(f, (S \cup T) \cup {x}) = f[x] + SumFunctionOnSet(f, S \cup T)
    BY <1>0, <2>1, SumAddOne
  <2>4. SumFunctionOnSet(f, S) \in Int /\ SumFunctionOnSet(f, T) \in Int /\ f[x] \in Int
    BY <1>0, SumType
  <2>5. SumFunctionOnSet(f, S \cup T) = SumFunctionOnSet(f, S) + SumFunctionOnSet(f, T)
    BY <1>2
  <2>6. \A u, v, w \in Int : u + (v + w) = v + (u + w)
    OBVIOUS
  <2>7. SumFunctionOnSet(f, S \cup (T \cup {x})) =
          f[x] + (SumFunctionOnSet(f, S) + SumFunctionOnSet(f, T))
    BY <2>1, <2>3, <2>5
  <2>8. Law(T \cup {x})
    BY <2>2, <2>4, <2>6, <2>7
  <2> QED BY <2>1, <2>8
<1>3. R \in G
  <2> HIDE DEF G
  <2> QED BY <1>1, <1>2, FiniteInduction
<1> QED BY <1>3

\* Zeros outside of a part do not change its sum.
LEMMA SumExtend ==
  ASSUME NEW S, IsFiniteSet(S), NEW T \in SUBSET S, NEW f, NEW e,
         \A x \in S : f[x] = IF x \in T THEN e[x] ELSE 0, \A x \in T : e[x] \in Int
  PROVE  SumFunctionOnSet(e, T) = SumFunctionOnSet(f, S)
<1>1. IsFiniteSet(T) /\ IsFiniteSet(S \ T) /\ T \cap (S \ T) = {} /\ T \cup (S \ T) = S
  BY FS_Subset
<1>2. \A x \in T \cup (S \ T) : f[x] \in Int
  OBVIOUS
<1>3. SumFunctionOnSet(f, T \cup (S \ T)) = SumFunctionOnSet(f, T) + SumFunctionOnSet(f, S \ T)
  BY <1>1, <1>2, SumUnion
<1>4. SumFunctionOnSet(f, S \ T) = 0
  BY <1>1, SumZeros
<1>5. SumFunctionOnSet(f, T) = SumFunctionOnSet(e, T)
  BY <1>1, <1>2, SumAlike
<1>6. SumFunctionOnSet(e, T) \in Int
  BY <1>1, SumType
<1>7. SumFunctionOnSet(f, S) = SumFunctionOnSet(e, T) + 0
  BY <1>1, <1>3, <1>4, <1>5
<1> QED BY <1>6, <1>7

\* A sum of equal values counts the elements.
LEMMA SumOnes ==
  ASSUME NEW S, IsFiniteSet(S), NEW c \in Int, NEW f, \A x \in S : f[x] = c
  PROVE  SumFunctionOnSet(f, S) = c * Cardinality(S)
<1> DEFINE Law(T) == SumFunctionOnSet(f, T) = c * Cardinality(T)
           G == {T \in SUBSET S : Law(T)}
<1>0. \A T \in SUBSET S : IsFiniteSet(T) /\ Cardinality(T) \in Nat
  BY FS_Subset, FS_CardinalityType
<1>1. {} \in G
  BY SumEmpty, FS_EmptySet
<1>2. ASSUME NEW T \in SUBSET S, NEW x \in S, T \in G, x \notin T PROVE T \cup {x} \in G
  <2>a. \A y \in T \cup {x} : f[y] \in Int
    OBVIOUS
  <2>1. SumFunctionOnSet(f, T \cup {x}) = f[x] + SumFunctionOnSet(f, T)
    BY <1>0, <1>2, <2>a, SumAddOne
  <2>2. Cardinality(T \cup {x}) = Cardinality(T) + 1
    BY <1>0, <1>2, FS_AddElement
  <2>3. \A n \in Nat : c + c * n = c * (n + 1)
    OBVIOUS
  <2>4. Law(T \cup {x})
    BY <1>0, <1>2, <2>1, <2>2, <2>3
  <2> QED BY <2>4
<1>3. S \in G
  <2> HIDE DEF G
  <2> QED BY <1>1, <1>2, FiniteInduction
<1> QED BY <1>3

\* R orders the elements of S, strictly and totally.
StrictOrder(R, S) ==
  /\ \A a \in S : <<a, a>> \notin R
  /\ \A a, b \in S : a # b => <<a, b>> \in R \/ <<b, a>> \in R
  /\ \A a, b, c \in S : <<a, b>> \in R /\ <<b, c>> \in R => <<a, c>> \in R

\* q lists S in the order of R.
Enumerates(q, S, R) ==
  /\ q \in [1..Cardinality(S) -> S]
  /\ \A i, j \in 1..Cardinality(S) : i < j => <<q[i], q[j]>> \in R

\* A finite set that is not empty has a last element.
LEMMA LastOne ==
  ASSUME NEW S, IsFiniteSet(S), NEW R, StrictOrder(R, S), S # {}
  PROVE  \E m \in S : \A x \in S \ {m} : <<x, m>> \in R
<1> DEFINE G == {T \in SUBSET S : T # {} => \E m \in T : \A x \in T \ {m} : <<x, m>> \in R}
<1>1. {} \in G
  OBVIOUS
<1>2. ASSUME NEW T \in SUBSET S, NEW x \in S, T \in G, x \notin T PROVE T \cup {x} \in G
  <2>1. CASE T = {}
    BY <2>1
  <2>2. CASE T # {}
    <3>1. PICK m \in T : \A y \in T \ {m} : <<y, m>> \in R
      BY <1>2, <2>2
    <3>2. CASE <<x, m>> \in R
      BY <3>1, <3>2
    <3>3. CASE <<m, x>> \in R
      <4>1. ASSUME NEW y \in T PROVE <<y, x>> \in R
        BY <3>1, <3>3 DEF StrictOrder
      <4> QED BY <4>1
    <3> QED BY <1>2, <3>1, <3>2, <3>3 DEF StrictOrder
  <2> QED BY <2>1, <2>2
<1>3. S \in G
  <2> HIDE DEF G
  <2> QED BY <1>1, <1>2, FiniteInduction
<1> QED BY <1>3

\* A finite set has a list in its order: by induction, the last element last.
LEMMA CanEnumerate ==
  ASSUME NEW S, IsFiniteSet(S), NEW R, StrictOrder(R, S)
  PROVE  \E q : Enumerates(q, S, R)
<1> DEFINE G == {T \in SUBSET S : \E q : Enumerates(q, T, R)}
<1>1. ASSUME NEW T \in SUBSET S, \A x \in T : T \ {x} \in G PROVE T \in G
  <2>0. IsFiniteSet(T) /\ Cardinality(T) \in Nat /\ StrictOrder(R, T)
    BY FS_Subset, FS_CardinalityType DEF StrictOrder
  <2>1. CASE T = {}
    <3>1. Cardinality(T) = 0
      BY <2>1, FS_EmptySet
    <3>2. Enumerates([i \in {} |-> i], T, R)
      BY <3>1 DEF Enumerates
    <3> QED BY <3>2
  <2>2. CASE T # {}
    <3>1. PICK m \in T : \A x \in T \ {m} : <<x, m>> \in R
      BY <2>0, <2>2, LastOne
    <3>2. PICK q : Enumerates(q, T \ {m}, R)
      BY <1>1, <3>1
    <3>3. PICK n \in Nat : Cardinality(T \ {m}) = n /\ Cardinality(T) = n + 1
      <4>1. Cardinality(T \ {m}) = Cardinality(T) - 1 /\ IsFiniteSet(T \ {m})
        BY <2>0, FS_RemoveElement
      <4> QED BY <2>0, <4>1, FS_CardinalityType
    <3> DEFINE k == [i \in 1..(n + 1) |-> IF i = n + 1 THEN m ELSE q[i]]
    <3>4. \A i \in 1..n : q[i] \in T \ {m}
      BY <3>2, <3>3 DEF Enumerates
    <3>5. k \in [1..(n + 1) -> T]
      BY <3>4
    <3>6. ASSUME NEW i \in 1..(n + 1), NEW j \in 1..(n + 1), i < j
          PROVE  <<k[i], k[j]>> \in R
      <4>1. i \in 1..n /\ k[i] = q[i]
        BY <3>6
      <4>2. CASE j = n + 1
        <5>1. <<q[i], m>> \in R
          BY <3>1, <3>4, <4>1
        <5> QED BY <4>1, <4>2, <5>1
      <4>3. CASE j # n + 1
        <5>1. j \in 1..n /\ k[j] = q[j]
          BY <4>3
        <5> QED BY <3>2, <3>3, <3>6, <4>1, <5>1 DEF Enumerates
      <4> QED BY <4>2, <4>3
    <3>7. Enumerates(k, T, R)
      <4> HIDE DEF k
      <4> QED BY <3>3, <3>5, <3>6 DEF Enumerates
    <3> QED BY <3>7
  <2> QED BY <2>1, <2>2
<1>2. \A T \in SUBSET S : T \in G
  <2> HIDE DEF G
  <2> QED BY <1>1, Shrinking
<1> QED BY <1>2

\* Each element is in such a list, once.
LEMMA Enumeration ==
  ASSUME NEW S, IsFiniteSet(S), NEW R, StrictOrder(R, S), NEW q, Enumerates(q, S, R)
  PROVE  /\ \A i, j \in DOMAIN q : q[i] = q[j] => i = j
         /\ \A x \in S : \E i \in DOMAIN q : q[i] = x
<1>1. Cardinality(S) \in Nat
  BY FS_CardinalityType
<1>2. ASSUME NEW i \in 1..Cardinality(S), NEW j \in 1..Cardinality(S), i # j
      PROVE  q[i] # q[j]
  <2>1. q[i] \in S /\ q[j] \in S
    BY DEF Enumerates
  <2>2. i < j \/ j < i
    BY <1>1, <1>2
  <2> QED BY <2>1, <2>2 DEF Enumerates, StrictOrder
<1>3. DOMAIN q = 1..Cardinality(S)
  BY DEF Enumerates
<1> QED
  <2>1. \A i, j \in DOMAIN q : q[i] = q[j] => i = j
    BY <1>2, <1>3
  <2>2. \A x \in S : \E i \in DOMAIN q : q[i] = x
    <3>0. q \in [1..Cardinality(S) -> S]
      BY DEF Enumerates
    <3>1. q \in Injection(1..Cardinality(S), S)
      BY <1>3, <2>1, <3>0 DEF Injection, IsInjective
    <3>2. IsFiniteSet(1..Cardinality(S)) /\ Cardinality(1..Cardinality(S)) = Cardinality(S)
      BY <1>1, FS_Interval
    <3>3. q \in Surjection(1..Cardinality(S), S)
      BY <3>1, <3>2, FS_Injection
    <3> QED BY <1>3, <3>3 DEF Surjection
  <2> QED BY <2>1, <2>2

\* The first k elements of q.
Prefix(q, k) == {q[j] : j \in 1..k}

\* q repeats nothing.
OneToOne(q, n) == \A i, j \in 1..n : q[i] = q[j] => i = j

\* Each position adds one element to the prefix.
LEMMA PrefixFacts ==
  ASSUME NEW n \in Nat, NEW q, OneToOne(q, n)
  PROVE  /\ Prefix(q, 0) = {}
         /\ \A k \in 0..(n - 1) : /\ Prefix(q, k + 1) = Prefix(q, k) \cup {q[k + 1]}
                                  /\ q[k + 1] \notin Prefix(q, k)
         /\ \A k \in 0..n : IsFiniteSet(Prefix(q, k)) /\ Cardinality(Prefix(q, k)) = k
<1> USE DEF OneToOne
<1>1. Prefix(q, 0) = {}
  BY DEF Prefix
<1>2. ASSUME NEW k \in 0..(n - 1)
      PROVE  /\ Prefix(q, k + 1) = Prefix(q, k) \cup {q[k + 1]}
             /\ q[k + 1] \notin Prefix(q, k)
  <2>1. 1..(k + 1) = 1..k \cup {k + 1} /\ k + 1 \in 1..n /\ 1..k \subseteq 1..n
    OBVIOUS
  <2>2. Prefix(q, k + 1) = Prefix(q, k) \cup {q[k + 1]}
    BY <2>1 DEF Prefix
  <2>3. \A j \in 1..k : q[j] # q[k + 1]
    BY <2>1
  <2> QED BY <2>2, <2>3 DEF Prefix
<1> DEFINE N == {k \in Nat : k <= n => IsFiniteSet(Prefix(q, k)) /\ Cardinality(Prefix(q, k)) = k}
<1>3. 0 \in N
  BY <1>1, FS_EmptySet
<1>4. ASSUME NEW k \in Nat, k \in N PROVE k + 1 \in N
  <2> SUFFICES ASSUME k + 1 <= n
               PROVE  IsFiniteSet(Prefix(q, k + 1)) /\ Cardinality(Prefix(q, k + 1)) = k + 1
    OBVIOUS
  <2>1. k \in 0..(n - 1) /\ IsFiniteSet(Prefix(q, k)) /\ Cardinality(Prefix(q, k)) = k
    BY <1>4
  <2>2. /\ Prefix(q, k + 1) = Prefix(q, k) \cup {q[k + 1]} /\ q[k + 1] \notin Prefix(q, k)
    BY <1>2, <2>1
  <2>3. /\ IsFiniteSet(Prefix(q, k) \cup {q[k + 1]})
        /\ Cardinality(Prefix(q, k) \cup {q[k + 1]}) = Cardinality(Prefix(q, k)) + 1
    BY <2>1, <2>2, FS_AddElement
  <2> QED BY <2>1, <2>2, <2>3
<1>5. Nat \subseteq N
  <2> HIDE DEF N
  <2> QED BY <1>3, <1>4, Upwards
<1> QED BY <1>1, <1>2, <1>5

\* In a strict order exactly m elements have fewer than m before them.
LEMMA Ranking ==
  ASSUME NEW S, IsFiniteSet(S), NEW R, StrictOrder(R, S), NEW m \in Nat, m <= Cardinality(S)
  PROVE  Cardinality({s \in S : Cardinality({t \in S : <<t, s>> \in R}) < m}) = m
<1> DEFINE n == Cardinality(S)
<1>1. n \in Nat
  BY FS_CardinalityType
<1>2. PICK q : Enumerates(q, S, R)
  BY CanEnumerate
<1>3. /\ q \in [1..n -> S]
      /\ \A i, j \in 1..n : i < j => <<q[i], q[j]>> \in R
  BY <1>2 DEF Enumerates
<1>4. /\ OneToOne(q, n)
      /\ \A x \in S : \E i \in 1..n : q[i] = x
  <2> HIDE DEF n
  <2>1. DOMAIN q = 1..n
    BY <1>3
  <2> QED BY <1>2, <2>1, Enumeration DEF OneToOne
<1> HIDE DEF n
<1>5. \A i, j \in 1..n : <<q[j], q[i]>> \in R => j < i
  <2> SUFFICES ASSUME NEW i \in 1..n, NEW j \in 1..n, <<q[j], q[i]>> \in R, ~(j < i)
               PROVE  FALSE
    OBVIOUS
  <2>1. q[i] \in S /\ q[j] \in S
    BY <1>3
  <2>2. <<q[i], q[i]>> \notin R
    BY <2>1 DEF StrictOrder
  <2>3. i < j
    BY <1>1, <2>2
  <2>4. <<q[i], q[j]>> \in R
    BY <1>3, <2>3
  <2>5. <<q[i], q[i]>> \in R
    BY <2>1, <2>4 DEF StrictOrder
  <2> QED BY <2>2, <2>5
<1>6. \A i \in 1..n : Cardinality({t \in S : <<t, q[i]>> \in R}) = i - 1
  <2> TAKE i \in 1..n
  <2>1. {t \in S : <<t, q[i]>> \in R} = Prefix(q, i - 1)
    <3>1. ASSUME NEW t \in S, <<t, q[i]>> \in R PROVE t \in Prefix(q, i - 1)
      <4>1. PICK j \in 1..n : q[j] = t
        BY <1>4
      <4>2. j \in 1..(i - 1)
        BY <1>1, <1>5, <3>1, <4>1
      <4> QED BY <4>1, <4>2 DEF Prefix
    <3>2. ASSUME NEW j \in 1..(i - 1) PROVE q[j] \in S /\ <<q[j], q[i]>> \in R
      BY <1>1, <1>3
    <3> QED BY <3>1, <3>2 DEF Prefix
  <2>2. i - 1 \in 0..n
    BY <1>1
  <2> QED BY <1>1, <1>4, <2>1, <2>2, PrefixFacts
<1>7. {s \in S : Cardinality({t \in S : <<t, s>> \in R}) < m} = Prefix(q, m)
  <2>1. ASSUME NEW s \in S, Cardinality({t \in S : <<t, s>> \in R}) < m PROVE s \in Prefix(q, m)
    <3>1. PICK i \in 1..n : q[i] = s
      BY <1>4
    <3>2. i - 1 < m
      BY <1>6, <2>1, <3>1
    <3>3. i \in 1..m
      BY <1>1, <3>2
    <3> QED BY <3>1, <3>3 DEF Prefix
  <2>2. ASSUME NEW i \in 1..m
        PROVE  q[i] \in S /\ Cardinality({t \in S : <<t, q[i]>> \in R}) < m
    <3>1. i \in 1..n
      BY <1>1 DEF n
    <3> QED BY <1>1, <1>3, <1>6, <3>1
  <2> QED BY <2>1, <2>2 DEF Prefix
<1>8. m \in 0..n
  BY <1>1 DEF n
<1> QED BY <1>1, <1>4, <1>7, <1>8, PrefixFacts

-----------------------------------------------------------------------------
(* The money of a pair, shared by its sizes.                                *)

\* The order in which the cents that the floors leave are handed out: the largest
\* remainder first, then the name of the size.
SizeOrder(weight, rest) ==
  {y \in (DOMAIN weight) \X (DOMAIN weight) :
     \/ rest[y[1]] > rest[y[2]]
     \/ rest[y[1]] = rest[y[2]] /\ y[1] < y[2]}

\* The remainders of the exact shares.
Remainders(size, weight) == [s \in DOMAIN weight |-> (size * weight[s]) % SumFunction(weight)]

\* The sizes that get one more than their floor.
Winners(size, weight) ==
  {s \in DOMAIN weight :
     Cardinality({t \in DOMAIN weight : <<t, s>> \in SizeOrder(weight, Remainders(size, weight))})
       < size - SumFunction(Floors(size, weight))}

\* Ties are broken by name, so the order is strict.
LEMMA SizeOrderIsStrict ==
  ASSUME NEW weight, DOMAIN weight \subseteq Int, NEW rest,
         \A s \in DOMAIN weight : rest[s] \in Int
  PROVE  StrictOrder(SizeOrder(weight, rest), DOMAIN weight)
<1> DEFINE D == DOMAIN weight
<1>1. \A s \in D : s \in Int /\ rest[s] \in Int
  OBVIOUS
<1>2. \A s, t \in D : <<s, t>> \in SizeOrder(weight, rest) <=>
                        (rest[s] > rest[t] \/ (rest[s] = rest[t] /\ s < t))
  BY DEF SizeOrder
<1> HIDE DEF D
<1> QED BY <1>1, <1>2 DEF StrictOrder, D

\* Apportioned, in these terms.
LEMMA ApportionedUnfold ==
  ASSUME NEW total, NEW weight
  PROVE  Apportioned(total, weight) =
           [s \in DOMAIN weight |->
              IF SumFunction(weight) = 0 THEN 0
              ELSE (IF total < 0 THEN -1 ELSE 1)
                     * (Floors(Size(total), weight)[s]
                          + IF s \in Winners(Size(total), weight) THEN 1 ELSE 0)]
<1> DEFINE left == Remainders(Size(total), weight)
           Ahead(s, t) == left[s] > left[t] \/ (left[s] = left[t] /\ s < t)
           Won == {s \in DOMAIN weight :
                      Cardinality({t \in DOMAIN weight : Ahead(t, s)})
                        < Size(total) - SumFunction(Floors(Size(total), weight))}
<1>1. \A s, t \in DOMAIN weight :
        <<t, s>> \in SizeOrder(weight, left) <=> left[t] > left[s] \/ (left[t] = left[s] /\ t < s)
  BY DEF SizeOrder
<1>2. \A s \in DOMAIN weight :
        {t \in DOMAIN weight : Ahead(t, s)} =
          {t \in DOMAIN weight : <<t, s>> \in SizeOrder(weight, left)}
  BY <1>1
<1>3. Won = Winners(Size(total), weight)
  <2> HIDE DEF Ahead
  <2> QED BY <1>2 DEF Winners
<1>4. Apportioned(total, weight) =
        [s \in DOMAIN weight |->
           IF SumFunction(weight) = 0 THEN 0
           ELSE (IF total < 0 THEN -1 ELSE 1)
                  * (Floors(Size(total), weight)[s] + IF s \in Won THEN 1 ELSE 0)]
  BY Zenon DEF Apportioned, Remainders
<1> HIDE DEF Won
<1> QED BY Zenon, <1>3, <1>4

\* What the floors leave is a number of pieces, no more than there are sizes.
LEMMA RoomForWinners ==
  ASSUME NEW w \in Nat \ {0}, NEW l \in Int, NEW n \in Nat, NEW r \in Nat,
         r = w * l, r <= (w - 1) * n
  PROVE  l \in Nat /\ l <= n
<1>1. l >= 0
  BY SMT
<1>2. l <= n
  <2> SUFFICES ASSUME l >= n + 1 PROVE FALSE
    OBVIOUS
  <2>1. w * l >= w * (n + 1)
    BY SMT
  <2>2. w * (n + 1) = w * n + w /\ (w - 1) * n = w * n - n
    BY SMT
  <2> QED BY <2>1, <2>2
<1> QED BY <1>1, <1>2

\* Weights that add up to something.
Weighs(weight) ==
  /\ DOMAIN weight \subseteq Int /\ IsFiniteSet(DOMAIN weight)
  /\ \A s \in DOMAIN weight : weight[s] \in Nat
  /\ SumFunction(weight) > 0

\* _ratear_valor_repetido_por_tamanho loses nothing and invents nothing: what the sizes of
\* a pair get of its total adds up to that total, to the cent, also for a return, whose
\* total is negative.
THEOREM ApportionedSums ==
  ASSUME NEW total, total \in Int, NEW weight, Weighs(weight)
  PROVE  /\ DOMAIN Apportioned(total, weight) = DOMAIN weight
         /\ \A s \in DOMAIN weight : Apportioned(total, weight)[s] \in Int
         /\ SumFunction(Apportioned(total, weight)) = total
<1> DEFINE D == DOMAIN weight
           w == SumFunction(weight)
           m == Size(total)
           n == Cardinality(D)
           Added(f) == SumFunctionOnSet(f, D)
           floor == Floors(m, weight)
           rest == Remainders(m, weight)
           won == Winners(m, weight)
           bonus == [s \in D |-> IF s \in won THEN 1 ELSE 0]
           plain == [s \in D |-> floor[s] + bonus[s]]
           shares == Apportioned(total, weight)
           scaled == [s \in D |-> m * weight[s]]
           sign == IF total < 0 THEN -1 ELSE 1
           l == m - SumFunction(floor)
<1>0. /\ D \subseteq Int /\ IsFiniteSet(D)
      /\ \A s \in D : weight[s] \in Nat
      /\ SumFunction(weight) > 0
  BY DEF Weighs
<1>1. IsFiniteSet(D) /\ n \in Nat
  BY <1>0, FS_CardinalityType
<1>2. w \in Nat \ {0} /\ Added(weight) = w
  BY <1>0, <1>1, SumPositive DEF SumFunction
<1>3. m \in Nat /\ sign \in Int /\ sign * m = total
  BY DEF Size
<1>4. shares = [s \in D |-> sign * plain[s]]
  <2>1. \A s \in D : plain[s] = floor[s] + IF s \in won THEN 1 ELSE 0
    BY DEF plain
  <2>2. w # 0
    BY <1>2
  <2> HIDE DEF plain
  <2> QED BY <2>1, <2>2, ApportionedUnfold
<1>5. \A s \in D : /\ floor[s] = (m * weight[s]) \div w /\ rest[s] = (m * weight[s]) % w
                   /\ DOMAIN floor = D
  BY DEF Floors, Remainders
<1>6. \A s \in D : /\ floor[s] \in Nat /\ rest[s] \in 0..(w - 1)
                   /\ m * weight[s] = w * floor[s] + rest[s]
  <2> TAKE s \in D
  <2> HIDE DEF w, m
  <2>1. m * weight[s] \in Nat
    BY <1>0, <1>3
  <2>2. \A k \in Nat : /\ k \div w \in Nat /\ k % w \in 0..(w - 1)
                       /\ k = w * (k \div w) + (k % w)
    <3> TAKE k \in Nat
    <3>1. k \div w \in Int /\ k \div w >= 0
      BY <1>2
    <3>2. k % w \in 0..(w - 1) /\ k = w * (k \div w) + (k % w)
      BY <1>2
    <3> QED BY <3>1, <3>2
  <2> HIDE DEF floor, rest
  <2> QED BY <1>5, <2>1, <2>2
<1> HIDE DEF w, m, floor, rest, won, sign, shares
<1>7. Added(scaled) = m * w
  <2> DEFINE zero == [s \in D |-> 0]
  <2>1. Added(zero) = 0
    BY <1>1, SumZeros
  <2>2. \A s \in D : weight[s] \in Int /\ zero[s] \in Int /\ scaled[s] = m * weight[s] + zero[s]
    BY <1>0, <1>3
  <2> HIDE DEF zero, scaled
  <2>3. Combines(scaled, m, weight, zero, D)
    BY <2>2 DEF Combines
  <2>4. Added(scaled) = m * Added(weight) + Added(zero)
    BY <1>1, <1>3, <2>3, SumLinear
  <2> QED BY <1>2, <1>3, <2>1, <2>4
<1>8. Added(scaled) = w * Added(floor) + Added(rest)
  <2>1. \A s \in D : /\ floor[s] \in Int /\ rest[s] \in Int
                     /\ scaled[s] = w * floor[s] + rest[s]
    BY <1>6
  <2> HIDE DEF scaled
  <2>2. Combines(scaled, w, floor, rest, D)
    BY <2>1 DEF Combines
  <2> QED BY <1>1, <1>2, <2>2, SumLinear
<1>9. Added(floor) \in Nat /\ Added(rest) \in Nat /\ Added(floor) = SumFunction(floor)
  <2>1. \A s \in D : floor[s] \in Nat /\ rest[s] \in Nat
    BY <1>6
  <2>2. DOMAIN floor = D
    BY DEF floor, Floors
  <2>3. Added(floor) = SumFunction(floor)
    BY <2>2 DEF SumFunction
  <2> QED BY <1>1, <2>1, <2>3, SumPositive
<1>10. Added(rest) <= (w - 1) * n
  <2> DEFINE top == [s \in D |-> w - 1]
  <2>1. Added(top) = (w - 1) * n
    BY <1>1, <1>2, SumOnes
  <2>2. \A s \in D : rest[s] \in Int /\ top[s] \in Int /\ rest[s] <= top[s]
    BY <1>2, <1>6
  <2> HIDE DEF top, n
  <2>3. Added(rest) <= Added(top)
    BY <1>1, <2>2, SumLeq
  <2> QED BY <2>1, <2>3
<1>11. l \in Nat /\ l <= n
  <2>1. l \in Int /\ Added(rest) = w * l
    <3> DEFINE sf == SumFunction(floor)
    <3>1. /\ m * w = w * sf + Added(rest) /\ sf \in Nat /\ l = m - sf /\ Added(rest) \in Nat
      BY <1>7, <1>8, <1>9
    <3> HIDE DEF sf, l, Added
    <3>2. \A u, v, y, z \in Nat : u * v = v * y + z => z = v * (u - y)
      BY SMT
    <3> QED BY <1>2, <1>3, <3>1, <3>2
  <2> HIDE DEF l, n, Added
  <2> QED BY <1>1, <1>2, <1>9, <1>10, <2>1, RoomForWinners
<1>12. Cardinality(won) = l /\ won \in SUBSET D
  <2>1. \A s \in D : rest[s] \in Int
    BY <1>6
  <2>2. StrictOrder(SizeOrder(weight, rest), D)
    BY <1>0, <2>1, SizeOrderIsStrict
  <2>3. won = {s \in D : Cardinality({t \in D : <<t, s>> \in SizeOrder(weight, rest)}) < l}
    BY DEF won, Winners, rest, floor
  <2> HIDE DEF l, D
  <2> QED BY <1>1, <1>11, <2>2, <2>3, Ranking DEF n
<1>13. Added(bonus) = l
  <2> DEFINE one == [s \in won |-> 1]
  <2>1. IsFiniteSet(won)
    BY <1>1, <1>12, FS_Subset
  <2>2. SumFunctionOnSet(one, won) = 1 * Cardinality(won)
    BY <2>1, SumOnes
  <2>3. \A s \in D : bonus[s] = IF s \in won THEN one[s] ELSE 0
    OBVIOUS
  <2>4. \A s \in won : one[s] \in Int
    OBVIOUS
  <2> HIDE DEF one, bonus, l
  <2>5. SumFunctionOnSet(one, won) = Added(bonus)
    BY <1>1, <1>12, <2>3, <2>4, SumExtend
  <2> QED BY <1>11, <1>12, <2>2, <2>5
<1>14. \A s \in D : floor[s] \in Nat /\ bonus[s] \in Nat /\ plain[s] = 1 * floor[s] + bonus[s]
                    /\ plain[s] \in Nat
  BY <1>6
<1>15. Added(plain) = m
  <2>1. \A s \in D : floor[s] \in Int /\ bonus[s] \in Int /\ plain[s] = 1 * floor[s] + bonus[s]
    BY <1>14
  <2> HIDE DEF plain, bonus
  <2>2. Added(plain) = 1 * Added(floor) + Added(bonus)
    <3>1. Combines(plain, 1, floor, bonus, D) /\ 1 \in Int
      BY <2>1 DEF Combines
    <3> QED BY <1>1, <3>1, SumLinear
  <2> QED BY <1>3, <1>9, <1>11, <1>13, <2>2
<1> HIDE DEF plain, bonus, l, D
<1>16. DOMAIN shares = D /\ \A s \in D : shares[s] = sign * plain[s]
  BY <1>4
<1>17. Added(shares) = total
  <2> DEFINE zero == [s \in D |-> 0]
  <2>1. Added(zero) = 0
    BY <1>1, SumZeros
  <2>2. \A s \in D : plain[s] \in Int /\ zero[s] \in Int /\ shares[s] = sign * plain[s] + zero[s]
    BY <1>3, <1>14, <1>16
  <2> HIDE DEF zero
  <2>3. Added(shares) = sign * Added(plain) + Added(zero)
    <3>1. Combines(shares, sign, plain, zero, D)
      BY <2>2 DEF Combines
    <3> QED BY <1>1, <1>3, <3>1, SumLinear
  <2> QED BY <1>3, <1>15, <2>1, <2>3
<1>18. \A s \in D : shares[s] \in Int
  BY <1>14, <1>16 DEF sign
<1> QED BY <1>16, <1>17, <1>18 DEF shares, D, SumFunction

\* Without items there are no shares.
LEMMA ApportionedIsFunction ==
  ASSUME NEW total, NEW weight
  PROVE  /\ Apportioned(total, weight) =
              [s \in DOMAIN weight |-> Apportioned(total, weight)[s]]
         /\ SumFunction(weight) = 0 => \A s \in DOMAIN weight : Apportioned(total, weight)[s] = 0
<1> DEFINE Share(s) == IF SumFunction(weight) = 0 THEN 0
                       ELSE (IF total < 0 THEN -1 ELSE 1)
                              * (Floors(Size(total), weight)[s]
                                   + IF s \in Winners(Size(total), weight) THEN 1 ELSE 0)
<1>1. Apportioned(total, weight) = [s \in DOMAIN weight |-> Share(s)]
  BY ApportionedUnfold, Zenon
<1>2. SumFunction(weight) = 0 => \A s \in DOMAIN weight : Share(s) = 0
  OBVIOUS
<1> HIDE DEF Share
<1> QED BY <1>1, <1>2

-----------------------------------------------------------------------------
(* The lines of a view, pair after pair.                                    *)

Joined(of) == FoldFunction(LAMBDA one, others : others \o one, <<>>, of)

\* q has the lines that of gives the elements of T, and no others.
HasLines(q, of, T) ==
  /\ \A i \in DOMAIN q : \E p \in T : \E k \in DOMAIN of[p] : q[i] = of[p][k]
  /\ \A p \in T : \A k \in DOMAIN of[p] : \E i \in DOMAIN q : q[i] = of[p][k]

\* One more pair adds its lines.
LEMMA JoinOne ==
  ASSUME NEW A, NEW of, NEW T, NEW x, of[x] \in Seq(A), NEW q \in Seq(A), HasLines(q, of, T)
  PROVE  q \o of[x] \in Seq(A) /\ HasLines(q \o of[x], of, T \cup {x})
<1> DEFINE r == of[x]
           n == Len(q)
           m == Len(r)
           c == q \o r
<1>1. /\ n \in Nat /\ DOMAIN q = 1..n
      /\ m \in Nat /\ DOMAIN r = 1..m
  OBVIOUS
<1>2. /\ c \in Seq(A) /\ DOMAIN c = 1..(n + m)
      /\ \A i \in 1..n : c[i] = q[i]
      /\ \A k \in 1..m : c[n + k] = r[k]
  OBVIOUS
<1> HIDE DEF c, n, m
<1>3. ASSUME NEW i \in DOMAIN c
      PROVE  \E p \in T \cup {x} : \E k \in DOMAIN of[p] : c[i] = of[p][k]
  <2>1. CASE i \in 1..n
    <3>1. c[i] = q[i] /\ i \in DOMAIN q
      BY <1>1, <1>2, <2>1
    <3> QED BY <3>1 DEF HasLines
  <2>2. CASE i \notin 1..n
    <3>1. i - n \in 1..m /\ n + (i - n) = i
      BY <1>1, <1>2, <2>2
    <3>2. c[i] = of[x][i - n] /\ i - n \in DOMAIN of[x]
      BY <1>1, <1>2, <3>1
    <3> QED BY <3>2
  <2> QED BY <2>1, <2>2
<1>4. ASSUME NEW p \in T \cup {x}, NEW k \in DOMAIN of[p]
      PROVE  \E i \in DOMAIN c : c[i] = of[p][k]
  <2>1. CASE p = x
    <3>1. k \in 1..m /\ n + k \in DOMAIN c
      BY <1>1, <1>2, <2>1
    <3> QED BY <1>2, <2>1, <3>1
  <2>2. CASE p \in T
    <3>1. PICK i \in DOMAIN q : q[i] = of[p][k]
      BY <2>2 DEF HasLines
    <3>2. i \in DOMAIN c /\ c[i] = q[i]
      BY <1>1, <1>2, <3>1
    <3> QED BY <3>1, <3>2
  <2> QED BY <2>1, <2>2
<1>5. c \in Seq(A) /\ HasLines(c, of, T \cup {x})
  BY <1>2, <1>3, <1>4 DEF HasLines
<1> QED BY <1>5 DEF c

\* A view has the lines of its pairs.
LEMMA JoinedLines ==
  ASSUME NEW S, IsFiniteSet(S), NEW A, NEW of \in [S -> Seq(A)]
  PROVE  Joined(of) \in Seq(A) /\ HasLines(Joined(of), of, S)
<1> DEFINE h == [y \in S \X Seq(A) |-> y[2] \o of[y[1]]]
           pick == [s \in (SUBSET S) \ {{}} |-> Choice(s)]
           Onward(g, s) == g[s \ {Choice(s)}] \o of[Choice(s)]
           Body(g) == [s \in SUBSET S |-> IF s = {} THEN <<>> ELSE Onward(g, s)]
           it == CHOOSE g : g = Body(g)
<1>1. h \in [S \X Seq(A) -> Seq(A)]
  OBVIOUS
<1>2. \A s \in (SUBSET S) \ {{}} : pick[s] \in s
  BY ChoiceIsIn
<1>3. PICK g \in [SUBSET S -> Seq(A)] : Rec(g, SUBSET S, <<>>, h, pick)
  <2> HIDE DEF h, pick
  <2>1. <<>> \in Seq(A)
    OBVIOUS
  <2> QED BY <1>1, <1>2, <2>1, SetRecursion, Zenon
<1>4. ASSUME NEW s \in SUBSET S
      PROVE  g[s] = IF s = {} THEN <<>> ELSE Onward(g, s)
  <2>1. CASE s = {}
    BY <1>3, <2>1 DEF Rec
  <2>2. CASE s # {}
    <3>1. Choice(s) \in S /\ pick[s] = Choice(s)
      BY <2>2, ChoiceIsIn
    <3>2. g[s] = h[<<pick[s], g[s \ {pick[s]}]>>]
      <4> HIDE DEF h, pick
      <4> QED BY <1>3, <2>2, Zenon DEF Rec
    <3>3. g[s \ {pick[s]}] \in Seq(A) /\ <<pick[s], g[s \ {pick[s]}]>> \in S \X Seq(A)
      <4> HIDE DEF h, pick
      <4>1. s \ {pick[s]} \in SUBSET S
        OBVIOUS
      <4> QED BY <1>3, <3>1, <4>1
    <3> QED BY <2>2, <3>1, <3>2, <3>3
  <2> QED BY <2>1, <2>2
<1>5. g = Body(g)
  <2> HIDE DEF Onward
  <2> QED BY <1>4
<1>6. it = Body(it)
  <2> HIDE DEF Body
  <2> QED BY <1>5, Zenon
<1>7. Joined(of) = it[S]
  <2>1. Joined(of) = it[DOMAIN of]
    BY Zenon DEF Joined, FoldFunction, FoldFunctionOnSet, MapThenFoldSet, Choice
  <2> HIDE DEF it
  <2> QED BY <2>1
<1>8. \A s \in SUBSET S : it[s] = IF s = {} THEN <<>> ELSE Onward(it, s)
  <2> HIDE DEF it, Onward
  <2> QED BY <1>6
<1> DEFINE G == {T \in SUBSET S : it[T] \in Seq(A) /\ HasLines(it[T], of, T)}
<1>9. ASSUME NEW T \in SUBSET S, \A x \in T : T \ {x} \in G PROVE T \in G
  <2> HIDE DEF it
  <2>1. CASE T = {}
    <3>1. it[T] = <<>>
      BY <1>8, <2>1
    <3>2. HasLines(<<>>, of, {})
      BY DEF HasLines
    <3>3. <<>> \in Seq(A)
      OBVIOUS
    <3>4. it[T] \in Seq(A) /\ HasLines(it[T], of, T)
      BY <2>1, <3>1, <3>2, <3>3
    <3> QED BY <3>4
  <2>2. CASE T # {}
    <3> DEFINE x == Choice(T)
               q == it[T \ {x}]
    <3>1. x \in T
      BY <2>2, ChoiceIsIn
    <3>2. it[T] = q \o of[x]
      BY <1>8, <2>2
    <3> HIDE DEF x
    <3>3. q \in Seq(A) /\ HasLines(q, of, T \ {x}) /\ of[x] \in Seq(A)
      BY <1>9, <3>1
    <3>4. (T \ {x}) \cup {x} = T
      BY <3>1
    <3> HIDE DEF q
    <3>5. q \o of[x] \in Seq(A) /\ HasLines(q \o of[x], of, (T \ {x}) \cup {x})
      BY <3>3, JoinOne
    <3> QED BY <3>2, <3>4, <3>5
  <2> QED BY <2>1, <2>2
<1>10. \A T \in SUBSET S : T \in G
  <2> HIDE DEF G
  <2> QED BY <1>9, Shrinking
<1>11. it[S] \in Seq(A) /\ HasLines(it[S], of, S)
  <2> HIDE DEF it
  <2> QED BY <1>10
<1> QED
  <2> HIDE DEF it
  <2> QED BY <1>7, <1>11

-----------------------------------------------------------------------------
(* What a pair is worth in a table.                                         *)

\* Lines with the fields that the aggregation reads.
Typed1(lines) ==
  \A i \in DOMAIN lines : /\ lines[i].size \in Int /\ lines[i].qty \in Int
                          /\ lines[i].value \in Int

\* The items of the sizes of a pair.
LEMMA QuantitiesWeigh ==
  ASSUME NEW lines, IsFiniteSet(DOMAIN lines), Typed1(lines),
         NEW usable \in SUBSET DOMAIN lines, NEW p
  PROVE  LET qty == Quantities(lines, usable, p)
         IN  /\ DOMAIN qty = {lines[i].size : i \in OfPair(lines, usable, p)}
             /\ DOMAIN qty \subseteq Int /\ IsFiniteSet(DOMAIN qty)
             /\ \A s \in DOMAIN qty : qty[s] \in Nat
             /\ \A i \in OfPair(lines, usable, p) : lines[i].qty <= qty[lines[i].size]
<1> DEFINE mine == OfPair(lines, usable, p)
           sizes == {lines[i].size : i \in mine}
           At(s) == {k \in mine : lines[k].size = s}
           items(s) == [i \in At(s) |-> Positive(lines[i].qty)]
           qty == Quantities(lines, usable, p)
<1>1. mine \subseteq DOMAIN lines /\ IsFiniteSet(mine)
  <2>1. mine \subseteq DOMAIN lines
    BY DEF OfPair
  <2> QED BY <2>1, FS_Subset
<1>2. IsFiniteSet(sizes)
  <2> DEFINE f == [i \in mine |-> lines[i].size]
  <2>1. f \in Surjection(mine, sizes)
    BY DEF Surjection
  <2> HIDE DEF f, mine, sizes
  <2> QED BY <1>1, <2>1, FS_Surjection
<1>3. sizes \subseteq Int
  BY <1>1 DEF Typed1
<1>4. qty = [s \in sizes |-> SumFunction(items(s))]
  BY Zenon DEF Quantities
<1> HIDE DEF mine
<1>5. ASSUME NEW s \in sizes
      PROVE  /\ SumFunction(items(s)) \in Nat
             /\ \A i \in At(s) : lines[i].qty <= SumFunction(items(s))
  <2>1. At(s) \subseteq mine /\ IsFiniteSet(At(s))
    <3>1. At(s) \subseteq mine
      OBVIOUS
    <3> HIDE DEF At
    <3> QED BY <1>1, <3>1, FS_Subset
  <2>2. \A i \in At(s) : lines[i].qty \in Int
    BY <1>1, <2>1 DEF Typed1
  <2> HIDE DEF At
  <2>3. \A i \in At(s) : items(s)[i] \in Nat /\ lines[i].qty <= items(s)[i]
    BY <2>2 DEF Positive
  <2>4. DOMAIN items(s) = At(s)
    OBVIOUS
  <2> DEFINE f == items(s)
  <2>5. SumFunction(f) = SumFunctionOnSet(f, At(s))
    BY <2>4, Zenon DEF SumFunction
  <2>6. \A i \in At(s) : f[i] \in Nat /\ lines[i].qty <= f[i]
    BY <2>3
  <2> HIDE DEF f, items
  <2>7. /\ SumFunctionOnSet(f, At(s)) \in Nat
        /\ \A i \in At(s) : f[i] <= SumFunctionOnSet(f, At(s))
    BY <2>1, <2>6, SumPositive
  <2>8. \A i \in At(s) : lines[i].qty <= SumFunctionOnSet(f, At(s))
    BY <2>2, <2>6, <2>7
  <2> QED BY <2>5, <2>7, <2>8 DEF f
<1> HIDE DEF items
<1>6. DOMAIN qty = sizes /\ \A s \in sizes : qty[s] = SumFunction(items(s))
  <2> HIDE DEF qty, sizes
  <2> QED BY <1>4
<1>7. \A i \in mine : lines[i].size \in sizes /\ i \in At(lines[i].size)
  OBVIOUS
<1> HIDE DEF qty, sizes, At
<1>8. \A s \in sizes : qty[s] \in Nat
  BY <1>5, <1>6
<1>9. \A i \in mine : lines[i].qty <= qty[lines[i].size]
  BY <1>5, <1>6, <1>7
<1> QED BY <1>2, <1>3, <1>6, <1>8, <1>9 DEF qty, mine, sizes

\* The sizes of a pair are worth its only total together, unless no size has an item or
\* there is no total: then they are worth nothing.
LEMMA GradeIsWorth ==
  ASSUME NEW lines, IsFiniteSet(DOMAIN lines), Typed1(lines),
         NEW usable \in SUBSET DOMAIN lines, NEW p, NEW signed \in BOOLEAN
  PROVE  LET totals == Totals(lines, usable, p, signed)
             worth  == Sum(Grade(lines, usable, p, signed))
         IN  /\ totals \subseteq Int
             /\ totals = {} => worth = 0
             /\ totals # {} => worth = 0 \/ worth \in totals
             /\ totals # {} /\ (\E i \in OfPair(lines, usable, p) : lines[i].qty > 0) =>
                  worth \in totals
<1> DEFINE totals == Totals(lines, usable, p, signed)
           qty == Quantities(lines, usable, p)
           total == CHOOSE v \in totals : TRUE
           value == IF totals = {} THEN [s \in DOMAIN qty |-> 0] ELSE Apportioned(total, qty)
           grade == Grade(lines, usable, p, signed)
           D == DOMAIN qty
<1>1. totals \subseteq Int
  BY DEF Totals, OfPair, Money, Positive, Typed1
<1>2. /\ D \subseteq Int /\ IsFiniteSet(D)
      /\ \A s \in D : qty[s] \in Nat
      /\ D = {lines[i].size : i \in OfPair(lines, usable, p)}
      /\ \A i \in OfPair(lines, usable, p) : lines[i].qty <= qty[lines[i].size]
  BY QuantitiesWeigh
<1>3. grade = [s \in D |-> [qty |-> qty[s], value |-> value[s]]]
  BY Zenon DEF Grade
<1> HIDE DEF grade, qty
<1>4. DOMAIN grade = D /\ \A s \in D : grade[s].value = value[s]
  <2> HIDE DEF value
  <2> QED BY <1>3
<1>5. [s \in DOMAIN grade |-> grade[s].value] = [s \in D |-> value[s]]
  <2> HIDE DEF value
  <2> QED BY <1>4
<1>6. Sum(grade) = SumFunctionOnSet([s \in D |-> value[s]], D)
  <2> DEFINE f == [s \in D |-> value[s]]
  <2>1. Sum(grade) = SumFunction(f)
    <3> HIDE DEF value, D
    <3> QED BY <1>5, Zenon DEF Sum
  <2>2. DOMAIN f = D
    OBVIOUS
  <2> HIDE DEF f
  <2>3. SumFunction(f) = SumFunctionOnSet(f, D)
    BY <2>2, Zenon DEF SumFunction
  <2> QED BY <2>1, <2>3 DEF f
<1>7. ASSUME \A s \in D : value[s] = 0 PROVE Sum(grade) = 0
  <2> DEFINE f == [s \in D |-> value[s]]
  <2>1. \A s \in D : f[s] = 0
    BY <1>7
  <2> HIDE DEF f, D
  <2>2. SumFunctionOnSet(f, D) = 0
    BY <1>2, <2>1, SumZeros
  <2> QED BY <1>6, <2>2 DEF f
<1>8. totals = {} => Sum(grade) = 0
  <2> HIDE DEF grade, totals
  <2> QED BY <1>7
<1>9. ASSUME totals # {}
      PROVE  /\ SumFunction(qty) > 0 => Sum(grade) \in totals
             /\ ~(SumFunction(qty) > 0) => Sum(grade) = 0
  <2>1. value = Apportioned(total, qty)
    BY <1>9
  <2>2. total \in totals /\ total \in Int
    BY <1>1, <1>9
  <2> HIDE DEF total, totals, value, D
  <2>3. CASE SumFunction(qty) > 0
    <3>1. Weighs(qty)
      BY <1>2, <2>3 DEF Weighs, D
    <3>2. DOMAIN value = D /\ SumFunction(value) = total
      BY <2>1, <2>2, <3>1, ApportionedSums DEF D
    <3>3. [s \in D |-> value[s]] = value
      <4>1. value = [s \in D |-> value[s]]
        BY <2>1, ApportionedIsFunction DEF D
      <4> QED BY <4>1
    <3>4. SumFunctionOnSet(value, D) = total
      BY <3>2, Zenon DEF SumFunction
    <3> QED BY <1>6, <2>2, <2>3, <3>3, <3>4
  <2>4. CASE ~(SumFunction(qty) > 0)
    <3>1. SumFunction(qty) \in Nat
      <4>1. SumFunctionOnSet(qty, D) \in Nat
        BY <1>2, SumPositive
      <4> QED BY <4>1, Zenon DEF SumFunction, D
    <3>2. SumFunction(qty) = 0
      BY <2>4, <3>1
    <3>3. \A s \in D : value[s] = 0
      BY <2>1, <3>2, ApportionedIsFunction DEF D
    <3> QED BY <1>7, <2>4, <3>3
  <2> QED BY <2>3, <2>4
<1>10. ASSUME NEW i \in OfPair(lines, usable, p), lines[i].qty > 0
       PROVE  SumFunction(qty) > 0
  <2>1. lines[i].size \in D /\ lines[i].qty <= qty[lines[i].size] /\ lines[i].qty \in Int
    BY <1>2 DEF OfPair, Typed1
  <2>2. SumFunctionOnSet(qty, D) \in Nat /\ qty[lines[i].size] <= SumFunctionOnSet(qty, D)
    BY <1>2, <2>1, SumPositive
  <2>3. SumFunctionOnSet(qty, D) > 0
    BY <1>2, <1>10, <2>1, <2>2
  <2> QED BY <2>3, Zenon DEF SumFunction, D
<1> QED
  <2> HIDE DEF totals, grade, value
  <2>1. totals # {} => Sum(grade) = 0 \/ Sum(grade) \in totals
    BY <1>9
  <2>2. totals # {} /\ (\E i \in OfPair(lines, usable, p) : lines[i].qty > 0) =>
          Sum(grade) \in totals
    BY <1>9, <1>10
  <2> QED BY <1>1, <1>8, <2>1, <2>2 DEF totals, grade

\* The totals of a pair are finitely many.
LEMMA TotalsAreFinite ==
  ASSUME NEW lines, IsFiniteSet(DOMAIN lines), NEW usable \in SUBSET DOMAIN lines,
         NEW p, NEW signed \in BOOLEAN
  PROVE  IsFiniteSet(Totals(lines, usable, p, signed))
<1> DEFINE mine == OfPair(lines, usable, p)
           f == [i \in mine |-> Money(lines[i].value, signed)]
           T == {Money(lines[i].value, signed) : i \in mine}
<1>1. mine \subseteq DOMAIN lines
  BY DEF OfPair
<1>2. f \in Surjection(mine, T)
  BY DEF Surjection
<1>3. Totals(lines, usable, p, signed) = T \ {0}
  BY Zenon DEF Totals
<1> HIDE DEF mine, f, T
<1>4. IsFiniteSet(T)
  BY <1>1, <1>2, FS_Subset, FS_Surjection
<1> QED BY <1>3, <1>4, FS_Subset

-----------------------------------------------------------------------------
(* The money of the views.                                                  *)

AnyLine == UNION {Line(p) : p \in Pair}

\* A changed line is a line.
LEMMA ChangedLine ==
    ASSUME NEW A, NEW r \in Seq(A), NEW x, 1 \in DOMAIN r => x \in A
    PROVE  [r EXCEPT ![1] = x] \in Seq(A)
<1> DEFINE n == Len(r)
           e == [r EXCEPT ![1] = x]
<1>1. n \in Nat /\ DOMAIN r = 1..n /\ \A i \in 1..n : r[i] \in A
  OBVIOUS
<1> HIDE DEF n
<1>2. e = [i \in 1..n |-> e[i]] /\ \A i \in 1..n : e[i] \in A
  BY <1>1
<1> HIDE DEF e
<1>3. e \in [1..n -> A]
  BY <1>2
<1>4. e \in Seq(A)
  BY <1>1, <1>3
<1> QED BY <1>4 DEF e

\* What a view has of one pair: the lines of the source, or its total spoilt.
Tells(l, rows, Defects, p) ==
    /\ l \in Seq(Line(p))
    /\ \/ DOMAIN l = DOMAIN rows[p] /\ \A k \in DOMAIN l : l[k].value = rows[p][k].value
       \/ <<"total", p>> \in Defects /\ l = Spoilt(rows[p], "total")

LEMMA LinesAre ==
    ASSUME NEW rows, \A q \in Pair : rows[q] \in Seq(Line(q)),
           NEW Defects, Defects \subseteq {"total", "channel"} \X Pair,
           NEW bad \in {None} \cup Defects, NEW p \in Pair
    PROVE  Tells(LinesOf(rows, p, bad), rows, Defects, p)
<1> DEFINE r == rows[p]
           of == LinesOf(rows, p, bad)
<1>1. r \in Seq(Line(p)) /\ DOMAIN r = 1..Len(r) /\ Len(r) \in Nat
  OBVIOUS
<1>2. \A k \in DOMAIN r : r[k] \in Line(p)
  OBVIOUS
<1> HIDE DEF r
<1>3. CASE ~(bad # None /\ bad[2] = p)
  <2>1. of = r
    BY <1>3 DEF LinesOf, r
  <2> QED BY <1>1, <2>1 DEF r, Tells
<1>4. CASE bad # None /\ bad[2] = p
  <2>1. /\ bad \in Defects /\ bad = <<bad[1], p>> /\ bad[1] \in {"total", "channel"}
        /\ of = Spoilt(r, bad[1])
    BY <1>4 DEF LinesOf, r
  <2>2. CASE bad[1] = "total"
    <3> DEFINE one == [r[1] EXCEPT !.value = @ + 1]
    <3>1. of = [r EXCEPT ![1] = one]
      BY <2>1, <2>2 DEF Spoilt
    <3>2. 1 \in DOMAIN r => one \in Line(p)
      BY <1>2 DEF Line
    <3> HIDE DEF one
    <3>3. of \in Seq(Line(p))
      BY <1>1, <3>1, <3>2, ChangedLine
    <3> QED BY <2>1, <2>2, <3>3 DEF r, Tells
  <2>3. CASE bad[1] = "channel"
    <3> DEFINE one == [r[1] EXCEPT !.channel = NoChannel]
    <3>1. of = [r EXCEPT ![1] = one]
      BY <2>1, <2>3 DEF Spoilt
    <3>2. 1 \in DOMAIN r => one \in Line(p) /\ one.value = r[1].value
      BY <1>2 DEF Line
    <3> HIDE DEF one
    <3>3. of \in Seq(Line(p))
      BY <1>1, <3>1, <3>2, ChangedLine
    <3>4. DOMAIN of = DOMAIN r /\ \A k \in DOMAIN of : of[k].value = r[k].value
      BY <3>1, <3>2
    <3> QED BY <3>3, <3>4 DEF r, Tells
  <2> QED BY <2>1, <2>2, <2>3
<1> QED BY <1>3, <1>4

\* lines is a view of the pairs in S, of says of which lines each pair has.
IsView(lines, of, S) ==
    /\ lines \in Seq(AnyLine)
    /\ \A p \in S : of[p] \in Seq(Line(p))
    /\ HasLines(lines, of, S)

\* of gives the pairs in S their lines of the source, one of them possibly with a spoilt
\* total.
TellsLines(of, rows, Defects, S) ==
    \A p \in S : Tells(of[p], rows, Defects, p)

\* So does a view.
LEMMA ViewsAre ==
    ASSUME NEW rows, \A q \in Pair : rows[q] \in Seq(Line(q)),
           NEW Defects, Defects \subseteq {"total", "channel"} \X Pair,
           NEW S \in SUBSET Pair, NEW lines \in Views(rows, S, Defects)
    PROVE  \E of : IsView(lines, of, S) /\ TellsLines(of, rows, Defects, S)
<1>1. PICK bad \in {None} \cup Defects :
         lines = FoldFunction(LAMBDA one, others : others \o one, <<>>,
                              [p \in S |-> LinesOf(rows, p, bad)])
  BY Zenon DEF Views
<1> DEFINE of == [p \in S |-> LinesOf(rows, p, bad)]
<1>2. lines = Joined(of)
  BY <1>1, Zenon DEF Joined
<1>3. \A p \in S : of[p] \in Seq(Line(p)) /\ Tells(of[p], rows, Defects, p)
  <2> TAKE p \in S
  <2>1. of[p] = LinesOf(rows, p, bad) /\ p \in Pair
    OBVIOUS
  <2> HIDE DEF of
  <2>2. Tells(LinesOf(rows, p, bad), rows, Defects, p)
    BY <2>1, LinesAre
  <2>3. Tells(of[p], rows, Defects, p)
    BY <2>1, <2>2
  <2> QED BY <2>3 DEF Tells
<1>4. of \in [S -> Seq(AnyLine)]
  <2>1. \A p \in S : Seq(Line(p)) \subseteq Seq(AnyLine)
    BY DEF AnyLine
  <2>2. of = [p \in S |-> of[p]]
    OBVIOUS
  <2> HIDE DEF of
  <2> QED BY <1>3, <2>1, <2>2
<1> HIDE DEF of
<1>5. IsFiniteSet(S)
  BY IngestionAssumption, FS_Subset
<1>6. Joined(of) \in Seq(AnyLine) /\ HasLines(Joined(of), of, S)
  BY <1>4, <1>5, JoinedLines
<1>7. IsView(lines, of, S)
  BY <1>2, <1>3, <1>6 DEF IsView
<1>8. TellsLines(of, rows, Defects, S)
  BY <1>3, Zenon DEF TellsLines
<1> QED BY <1>7, <1>8

\* The lines of a view are typed and each is of its pair.
LEMMA ViewFacts ==
    ASSUME NEW lines, NEW of, NEW S \in SUBSET Pair, IsView(lines, of, S)
    PROVE  /\ IsFiniteSet(DOMAIN lines) /\ Typed1(lines)
           /\ \A i \in DOMAIN lines :
                \E p \in S : \E k \in DOMAIN of[p] : lines[i] = of[p][k] /\ lines[i].pair = p
           /\ \A p \in S : \A k \in DOMAIN of[p] :
                of[p][k].pair = p /\ \E i \in DOMAIN lines : lines[i] = of[p][k]
<1>1. DOMAIN lines = 1..Len(lines) /\ Len(lines) \in Nat
  BY DEF IsView
<1>2. \A p \in S : \A k \in DOMAIN of[p] : of[p][k] \in Line(p)
  BY DEF IsView
<1>3. \A i \in DOMAIN lines : lines[i] \in AnyLine
  BY DEF IsView
<1>4. Typed1(lines)
  BY <1>3 DEF Typed1, AnyLine, Line
<1>5. \A p \in S : \A k \in DOMAIN of[p] : of[p][k].pair = p
  BY <1>2 DEF Line
<1>6. IsFiniteSet(DOMAIN lines)
  BY <1>1, FS_Interval
<1>7. /\ \A i \in DOMAIN lines : \E p \in S : \E k \in DOMAIN of[p] : lines[i] = of[p][k]
      /\ \A p \in S : \A k \in DOMAIN of[p] : \E i \in DOMAIN lines : lines[i] = of[p][k]
  BY Zenon DEF IsView, HasLines
<1> QED BY <1>4, <1>5, <1>6, <1>7

\* The totals of a pair are those of its own lines.
LEMMA TotalsOfView ==
    ASSUME NEW lines, NEW of, NEW S \in SUBSET Pair, IsView(lines, of, S),
           NEW p \in S, NEW signed \in BOOLEAN
    PROVE  /\ Totals(lines, UsablePending(lines), p, signed) =
                Totals(of[p], UsablePending(of[p]), p, signed)
           /\ Totals(lines, UsableErp(lines), p, signed) =
                Totals(of[p], UsableErp(of[p]), p, signed)
<1>1. \A i \in DOMAIN lines : lines[i].pair = p =>
        \E k \in DOMAIN of[p] : lines[i] = of[p][k]
  BY ViewFacts
<1>2. \A k \in DOMAIN of[p] :
        of[p][k].pair = p /\ \E i \in DOMAIN lines : lines[i] = of[p][k]
  BY ViewFacts
<1>3. ASSUME NEW U, NEW V, U \subseteq DOMAIN lines, V \subseteq DOMAIN of[p],
             \A i \in U : \A k \in DOMAIN of[p] : lines[i] = of[p][k] => k \in V,
             \A k \in V : \A i \in DOMAIN lines : lines[i] = of[p][k] => i \in U
      PROVE  Totals(lines, U, p, signed) = Totals(of[p], V, p, signed)
  <2>1. \A i \in OfPair(lines, U, p) : \E k \in OfPair(of[p], V, p) : lines[i] = of[p][k]
    BY <1>1, <1>2, <1>3 DEF OfPair
  <2>2. \A k \in OfPair(of[p], V, p) : \E i \in OfPair(lines, U, p) : lines[i] = of[p][k]
    BY <1>1, <1>2, <1>3 DEF OfPair
  <2> QED BY <2>1, <2>2 DEF Totals
<1>4. Totals(lines, UsablePending(lines), p, signed) =
        Totals(of[p], UsablePending(of[p]), p, signed)
  <2> DEFINE U == UsablePending(lines)
             V == UsablePending(of[p])
  <2>1. /\ U \subseteq DOMAIN lines /\ V \subseteq DOMAIN of[p]
        /\ \A i \in U : \A k \in DOMAIN of[p] : lines[i] = of[p][k] => k \in V
        /\ \A k \in V : \A i \in DOMAIN lines : lines[i] = of[p][k] => i \in U
    BY DEF UsablePending
  <2> HIDE DEF U, V
  <2>2. Totals(lines, U, p, signed) = Totals(of[p], V, p, signed)
    BY <1>3, <2>1
  <2> QED BY <2>2 DEF U, V
<1>5. Totals(lines, UsableErp(lines), p, signed) = Totals(of[p], UsableErp(of[p]), p, signed)
  <2> DEFINE U == UsableErp(lines)
             V == UsableErp(of[p])
  <2>1. /\ U \subseteq DOMAIN lines /\ V \subseteq DOMAIN of[p]
        /\ \A i \in U : \A k \in DOMAIN of[p] : lines[i] = of[p][k] => k \in V
        /\ \A k \in V : \A i \in DOMAIN lines : lines[i] = of[p][k] => i \in U
    BY DEF UsableErp
  <2> HIDE DEF U, V
  <2>2. Totals(lines, U, p, signed) = Totals(of[p], V, p, signed)
    BY <1>3, <2>1
  <2> QED BY <2>2 DEF U, V
<1> QED BY <1>4, <1>5

\* An open order is worth what the source states, whatever its sizes and its lines.
LEMMA PendingWorth ==
    ASSUME NEW S \in SUBSET Pair, NEW lines \in Views(PendingRows, S, PendingDefects),
           NEW p \in DOMAIN PendingTable(lines)
    PROVE  Sum(PendingTable(lines)[p]) \in Stated(PendingRows[p], FALSE)
<1> DEFINE usable == UsablePending(lines)
           totals == Totals(lines, usable, p, FALSE)
<1>1. PendingTable(lines) = [q \in {q \in PairsOf(lines, usable) :
                                      Cardinality(Totals(lines, usable, q, FALSE)) = 1} |->
                               Grade(lines, usable, q, FALSE)]
  BY Zenon DEF PendingTable
<1>2. /\ p \in PairsOf(lines, usable) /\ Cardinality(totals) = 1
      /\ PendingTable(lines)[p] = Grade(lines, usable, p, FALSE)
  BY <1>1
<1>3. PICK of : IsView(lines, of, S) /\ TellsLines(of, PendingRows, PendingDefects, S)
  <2>1. /\ \A q \in Pair : PendingRows[q] \in Seq(Line(q))
        /\ PendingDefects \subseteq {"total", "channel"} \X Pair
    BY IngestionAssumption
  <2> QED BY <2>1, ViewsAre
<1>4. IsFiniteSet(DOMAIN lines) /\ Typed1(lines) /\ usable \in SUBSET DOMAIN lines
  BY <1>3, ViewFacts DEF UsablePending
<1>5. PICK i \in usable : lines[i].pair = p
  BY <1>2 DEF PairsOf
<1>6. p \in S
  BY <1>3, <1>4, <1>5, ViewFacts
<1>7. i \in OfPair(lines, usable, p) /\ lines[i].qty > 0
  BY <1>5 DEF OfPair, UsablePending
<1>8. totals = Totals(of[p], UsablePending(of[p]), p, FALSE)
  BY <1>3, <1>6, TotalsOfView
<1>9. ASSUME <<"total", p>> \in PendingDefects, of[p] = Spoilt(PendingRows[p], "total")
      PROVE  FALSE
  <2>1. Cardinality(Totals(of[p], UsablePending(of[p]), p, FALSE)) > 1
    BY <1>9, SpoiltTotalsContradict
  <2>2. Cardinality(totals) > 1
    BY <1>8, <2>1
  <2> HIDE DEF totals
  <2> QED BY <1>2, <2>2
<1>10. /\ DOMAIN of[p] = DOMAIN PendingRows[p]
       /\ \A k \in DOMAIN of[p] : of[p][k].value = PendingRows[p][k].value
  BY <1>3, <1>6, <1>9 DEF TellsLines, Tells
<1>11. totals \subseteq Stated(PendingRows[p], FALSE)
  <2>1. \A k \in OfPair(of[p], UsablePending(of[p]), p) :
          k \in DOMAIN PendingRows[p] /\ of[p][k].value = PendingRows[p][k].value
    BY <1>10 DEF OfPair, UsablePending
  <2>2. \A v \in totals : \E k \in OfPair(of[p], UsablePending(of[p]), p) :
          v = Money(of[p][k].value, FALSE)
    BY <1>8 DEF Totals
  <2>3. ASSUME NEW v \in totals PROVE v \in Stated(PendingRows[p], FALSE)
    <3>1. PICK k \in OfPair(of[p], UsablePending(of[p]), p) : v = Money(of[p][k].value, FALSE)
      BY <2>2
    <3>2. k \in DOMAIN PendingRows[p] /\ v = Money(PendingRows[p][k].value, FALSE)
      BY <2>1, <3>1
    <3> QED BY <3>2 DEF Stated
  <2> QED BY <2>3, Zenon
<1>12. totals # {}
  <2>1. Cardinality(totals) = 1
    BY <1>2
  <2> HIDE DEF totals
  <2> QED BY <2>1, FS_EmptySet
<1>13. Sum(Grade(lines, usable, p, FALSE)) \in totals
  <2> HIDE DEF usable
  <2> QED BY <1>4, <1>7, <1>12, GradeIsWorth
<1> QED BY <1>2, <1>11, <1>13

\* A processed pair is worth what the source states, or nothing where it states nothing or
\* no size has an item.
LEMMA ErpWorth ==
    ASSUME NEW S \in SUBSET Pair, NEW lines \in Views(ErpRows, S, ErpDefects),
           NEW p \in DOMAIN ErpTable(lines)
    PROVE  Sum(ErpTable(lines)[p]) \in Stated(ErpRows[p], TRUE) \cup {0}
<1> DEFINE usable == UsableErp(lines)
           totals == Totals(lines, usable, p, TRUE)
<1>1. ErpTable(lines) = [q \in {q \in PairsOf(lines, usable) :
                                  Cardinality(Totals(lines, usable, q, TRUE)) <= 1} |->
                           Grade(lines, usable, q, TRUE)]
  BY Zenon DEF ErpTable
<1>2. /\ p \in PairsOf(lines, usable) /\ Cardinality(totals) <= 1
      /\ ErpTable(lines)[p] = Grade(lines, usable, p, TRUE)
  BY <1>1
<1>3. PICK of : IsView(lines, of, S) /\ TellsLines(of, ErpRows, ErpDefects, S)
  <2>1. /\ \A q \in Pair : ErpRows[q] \in Seq(Line(q))
        /\ ErpDefects \subseteq {"total", "channel"} \X Pair
    BY IngestionAssumption
  <2> QED BY <2>1, ViewsAre
<1>4. IsFiniteSet(DOMAIN lines) /\ Typed1(lines) /\ usable \in SUBSET DOMAIN lines
  BY <1>3, ViewFacts DEF UsableErp
<1>5. PICK i \in usable : lines[i].pair = p
  BY <1>2 DEF PairsOf
<1>6. p \in S
  BY <1>3, <1>4, <1>5, ViewFacts
<1>7. totals = Totals(of[p], UsableErp(of[p]), p, TRUE)
  BY <1>3, <1>6, TotalsOfView
<1>8. ASSUME <<"total", p>> \in ErpDefects, of[p] = Spoilt(ErpRows[p], "total")
      PROVE  FALSE
  <2>1. Cardinality(Totals(of[p], UsableErp(of[p]), p, TRUE)) > 1
    BY <1>8, SpoiltTotalsContradict
  <2>2. Cardinality(totals) > 1
    BY <1>7, <2>1
  <2>3. IsFiniteSet(totals)
    BY <1>4, TotalsAreFinite
  <2> HIDE DEF totals
  <2> QED BY <1>2, <2>2, <2>3, FS_CardinalityType
<1>9. /\ DOMAIN of[p] = DOMAIN ErpRows[p]
      /\ \A k \in DOMAIN of[p] : of[p][k].value = ErpRows[p][k].value
  BY <1>3, <1>6, <1>8 DEF TellsLines, Tells
<1>10. totals \subseteq Stated(ErpRows[p], TRUE)
  <2>1. \A k \in OfPair(of[p], UsableErp(of[p]), p) :
          k \in DOMAIN ErpRows[p] /\ of[p][k].value = ErpRows[p][k].value
    BY <1>9 DEF OfPair, UsableErp
  <2>2. \A v \in totals : \E k \in OfPair(of[p], UsableErp(of[p]), p) :
          v = Money(of[p][k].value, TRUE)
    BY <1>7 DEF Totals
  <2>3. ASSUME NEW v \in totals PROVE v \in Stated(ErpRows[p], TRUE)
    <3>1. PICK k \in OfPair(of[p], UsableErp(of[p]), p) : v = Money(of[p][k].value, TRUE)
      BY <2>2
    <3>2. k \in DOMAIN ErpRows[p] /\ v = Money(ErpRows[p][k].value, TRUE)
      BY <2>1, <3>1
    <3> QED BY <3>2 DEF Stated
  <2> QED BY <2>3, Zenon
<1>11. Sum(Grade(lines, usable, p, TRUE)) \in totals \cup {0}
  <2> HIDE DEF usable
  <2> QED BY <1>4, GradeIsWorth
<1> QED BY <1>2, <1>10, <1>11

-----------------------------------------------------------------------------
(* The money of the photos. *)

PendingIsStated(table) ==
    \A p \in DOMAIN table : Sum(table[p]) \in Stated(PendingRows[p], FALSE)

ErpIsStated(table) ==
    \A p \in DOMAIN table : Sum(table[p]) \in Stated(ErpRows[p], TRUE) \cup {0}

PhotoIsStated(photo) == PendingIsStated(photo["pending"]) /\ ErpIsStated(photo["erp"])

\* The tables that are published, and those an execution has collected so far.
MoneyInv ==
    /\ IngestionInv
    /\ MoneyIsStated
    /\ \A r \in Run : PhotoIsStated(run[r].photo)

LEMMA FreshIsStated == PhotoIsStated(Fresh.photo)
  BY DEF PhotoIsStated, PendingIsStated, ErpIsStated, Fresh, Nothing, Tables

LEMMA MoneyInitially == Init => MoneyInv
<1> SUFFICES ASSUME Init PROVE MoneyInv
  OBVIOUS
<1>1. MoneyIsStated
  BY DEF Init, MoneyIsStated, Nothing
<1>2. \A r \in Run : PhotoIsStated(run[r].photo)
  BY FreshIsStated DEF Init
<1> QED BY <1>1, <1>2, InvInitially DEF MoneyInv

\* The tables made of a view are worth what the source states.
LEMMA PendingTableIsStated ==
    ASSUME NEW S \in SUBSET Pair, NEW lines \in Views(PendingRows, S, PendingDefects)
    PROVE  PendingIsStated(PendingTable(lines))
<1>1. \A p \in DOMAIN PendingTable(lines) :
        Sum(PendingTable(lines)[p]) \in Stated(PendingRows[p], FALSE)
  BY PendingWorth, Zenon
<1> QED BY <1>1 DEF PendingIsStated

LEMMA ErpTableIsStated ==
    ASSUME NEW S \in SUBSET Pair, NEW lines \in Views(ErpRows, S, ErpDefects)
    PROVE  ErpIsStated(ErpTable(lines))
<1>1. \A p \in DOMAIN ErpTable(lines) :
        Sum(ErpTable(lines)[p]) \in Stated(ErpRows[p], TRUE) \cup {0}
  BY ErpWorth, Zenon
<1> QED BY <1>1 DEF ErpIsStated

\* Whatever a read may return is worth what the source states.
LEMMA ReadsAreStated ==
    ASSUME NEW t \in Tables, NEW view \in Reads(t)
    PROVE  /\ t = "pending" => PendingIsStated(view.table)
           /\ t = "erp" => ErpIsStated(view.table)
<1>1. view \in Prepared /\ view.view = t
  BY DEF Reads
<1> DEFINE Triples == UNION {{<<w, T, l>> : l \in ViewsOf(w, T)} :
                               w \in Tables, T \in SUBSET Pair}
           Made(v) == [view |-> v[1], of |-> v[2], refused |-> Refused(v[1], v[3]),
                       table |-> TableOf(v[1], v[3])]
<1>2. PICK v \in Triples : view = Made(v)
  <2>1. Prepared = {Made(v) : v \in Triples}
    BY DEF Prepared
  <2> HIDE DEF Made, Triples
  <2> QED BY <1>1, <2>1
<1>3. PICK u \in Tables, S \in SUBSET Pair : v \in {<<u, S, l>> : l \in ViewsOf(u, S)}
  BY <1>2
<1> HIDE DEF Triples
<1>4. PICK lines \in ViewsOf(u, S) : v = <<u, S, lines>>
  BY <1>3
<1>5. view.view = u /\ view.table = TableOf(u, lines)
  BY <1>2, <1>4
<1>6. u = t
  BY <1>1, <1>5
<1>7. ASSUME t = "pending" PROVE PendingIsStated(view.table)
  <2>1. lines \in Views(PendingRows, S, PendingDefects)
    BY <1>4, <1>6, <1>7 DEF ViewsOf
  <2>2. view.table = PendingTable(lines)
    BY <1>5, <1>6, <1>7 DEF TableOf
  <2>3. PendingIsStated(PendingTable(lines))
    BY <1>3, <2>1, PendingTableIsStated, Zenon
  <2> QED BY <2>2, <2>3, Zenon
<1>8. ASSUME t = "erp" PROVE ErpIsStated(view.table)
  <2>1. lines \in Views(ErpRows, S, ErpDefects)
    BY <1>4, <1>6, <1>8 DEF ViewsOf
  <2>2. view.table = ErpTable(lines)
    BY <1>5, <1>6, <1>8 DEF TableOf
  <2>3. ErpIsStated(ErpTable(lines))
    BY <1>3, <2>1, ErpTableIsStated, Zenon
  <2> QED BY <2>2, <2>3, Zenon
<1> QED BY <1>7, <1>8

\* A photo that an execution has is the one it had, a fresh one, or has one more view.
LEMMA PhotosStep ==
    ASSUME MoneyInv, [Next]_vars
    PROVE  \A r \in Run : PhotoIsStated(run'[r].photo)
<1> DEFINE Stay == \A r \in Run : PhotoIsStated(run'[r].photo)
<1>0. Typed /\ \A r \in Run : PhotoIsStated(run[r].photo)
  BY DEF MoneyInv, IngestionInv
<1>1. ASSUME NEW r \in Run, NEW e, run' = [run EXCEPT ![r] = e], PhotoIsStated(e.photo)
      PROVE  Stay
  <2>1. run'[r] = e /\ \A s \in Run : s # r => run'[s] = run[s]
    BY <1>0, <1>1 DEF Typed
  <2>2. TAKE s \in Run
  <2>3. CASE s = r
    BY <1>1, <2>1, <2>3
  <2>4. CASE s # r
    BY <1>0, <2>1, <2>4
  <2> QED BY <2>3, <2>4
<1>2. ASSUME NEW r \in Run, NEW e \in Execution, run' = [run EXCEPT ![r] = e],
             e.photo \in {Fresh.photo, run[r].photo}
      PROVE  Stay
  <2>1. PhotoIsStated(e.photo)
    BY <1>0, <1>2, FreshIsStated
  <2> HIDE DEF Stay
  <2> QED BY <1>1, <1>2, <2>1
<1>3. ASSUME NEW r \in Run, NEW j \in Job, Claim(r, j) PROVE Stay
  <2> DEFINE e == [Fresh EXCEPT !.pc = "lock", !.job = j, !.attempt = job[j].attempt + 1]
  <2>1. run' = [run EXCEPT ![r] = e]
    BY <1>3 DEF Claim
  <2>2. e.photo = Fresh.photo
    BY DEF Fresh
  <2>3. PhotoIsStated(e.photo)
    BY <2>2, FreshIsStated
  <2> HIDE DEF Stay, e
  <2> QED BY <1>1, <2>1, <2>3
<1>4. ASSUME NEW r \in Run, TryLock(r) \/ Unlock(r) PROVE Stay
  <2>1. PICK e \in {[run[r] EXCEPT !.pc = "read"], [run[r] EXCEPT !.pc = "succeed"],
                    [run[r] EXCEPT !.pc = "failing", !.outcome = "skip"]} :
          run' = [run EXCEPT ![r] = e]
    BY <1>4 DEF TryLock, Unlock
  <2>2. run[r] \in Execution
    BY <1>0 DEF Typed
  <2>3. e.photo = run[r].photo
    BY <2>1, <2>2 DEF Execution
  <2>4. PhotoIsStated(e.photo)
    BY <1>0, <2>3
  <2> HIDE DEF Stay
  <2> QED BY <1>1, <2>1, <2>4
<1>5. ASSUME NEW r \in Run, Read(r) PROVE Stay
  <2> DEFINE t == SourceOrder[run[r].step]
  <2>1. run[r] \in Execution /\ run[r].step \in 1..5
    BY <1>0 DEF Typed, Execution
  <2>2. t \in Tables
    BY <2>1 DEF SourceOrder, Tables
  <2>3. PICK view \in Reads(t) :
          run' = [run EXCEPT ![r] =
                          [run[r] EXCEPT !.photo[t] = view.table,
                                         !.seen = SeenAfter(r, t, view.table),
                                         !.step = IF @ = 5 THEN 5 ELSE @ + 1,
                                         !.pc = IF run[r].step = 5 THEN "swap" ELSE "read"]]
    BY <1>5 DEF Read
  <2> HIDE DEF t
  <2> DEFINE e == [run[r] EXCEPT !.photo[t] = view.table,
                                 !.seen = SeenAfter(r, t, view.table),
                                 !.step = IF @ = 5 THEN 5 ELSE @ + 1,
                                 !.pc = IF run[r].step = 5 THEN "swap" ELSE "read"]
  <2>4. e.photo = [run[r].photo EXCEPT ![t] = view.table] /\ DOMAIN run[r].photo = Tables
    BY <2>1 DEF Execution
  <2>5. run' = [run EXCEPT ![r] = e]
    BY <2>3
  <2> HIDE DEF e
  <2>6. /\ t = "pending" => PendingIsStated(view.table)
        /\ t = "erp" => ErpIsStated(view.table)
    BY <2>2, <2>3, ReadsAreStated
  <2>7. /\ e.photo["pending"] = IF t = "pending" THEN view.table ELSE run[r].photo["pending"]
        /\ e.photo["erp"] = IF t = "erp" THEN view.table ELSE run[r].photo["erp"]
    BY <2>4 DEF Tables
  <2>8. PendingIsStated(run[r].photo["pending"]) /\ ErpIsStated(run[r].photo["erp"])
    BY <1>0 DEF PhotoIsStated
  <2>9. PendingIsStated(e.photo["pending"]) /\ ErpIsStated(e.photo["erp"])
    BY <2>6, <2>7, <2>8
  <2>10. PhotoIsStated(e.photo)
    BY <2>9 DEF PhotoIsStated
  <2> HIDE DEF Stay
  <2> QED BY <1>1, <2>5, <2>10
<1>6. ASSUME NEW r \in Run,
             \/ Swap(r) \/ ReadRefused(r) \/ SwapBusy(r) \/ KeeperLost(r) \/ Crash(r)
             \/ ServerDropsConnection(r) \/ Succeed(r) \/ Transition(r)
             \/ \E outcome \in {"retry", "fail"} : SyncFails(r, outcome)
      PROVE  Stay
  <2>1. PICK e : /\ run' = [run EXCEPT ![r] = e]
                 /\ \/ e \in {Ended, Killed, Published(r)}
                    \/ \E outcome \in {"none", "retry", "fail", "skip"} :
                         e = Failing(r, outcome)
    BY <1>6 DEF Swap, ReadRefused, SwapBusy, KeeperLost, Crash, ServerDropsConnection,
                SyncFails, Succeed, Transition, Ends, Fails, Ended, Killed, Failing, Published
  <2>2. e.photo = Fresh.photo
    BY <2>1 DEF Ended, Killed, Failing, Published, Fresh
  <2>3. PhotoIsStated(e.photo)
    BY <2>2, FreshIsStated
  <2> HIDE DEF Stay
  <2> QED BY <1>1, <2>1, <2>3
<1>7. UNCHANGED run => Stay
  BY <1>0
<1>8. ASSUME NEW j \in Job, Submit(j) \/ LeaseRunsOut(j) \/ DeadlinePasses(j) \/ Sweep(j)
      PROVE  UNCHANGED run
  BY <1>8 DEF Submit, LeaseRunsOut, DeadlinePasses, Sweep
<1>9. \/ WriterStarts \/ WriterCommits \/ UNCHANGED vars
      \/ (\E p \in Pair : SourceMoves(p))
      => UNCHANGED run
  BY DEF WriterStarts, WriterCommits, SourceMoves, vars
<1> HIDE DEF Stay
<1>10. Stay
  BY <1>3, <1>4, <1>5, <1>6, <1>7, <1>8, <1>9 DEF Next, Progress
<1> QED BY <1>10 DEF Stay

\* A swap keeps a table or replaces it by that of its photo.
LEMMA MoneyStep ==
    ASSUME MoneyInv, [Next]_vars
    PROVE  MoneyIsStated'
<1>0. /\ Typed /\ PendingIsStated(db.pending) /\ ErpIsStated(db.erp)
      /\ \A r \in Run : PhotoIsStated(run[r].photo)
  BY DEF MoneyInv, IngestionInv, MoneyIsStated, PendingIsStated, ErpIsStated
<1>1. ASSUME PendingIsStated(db'.pending), ErpIsStated(db'.erp) PROVE MoneyIsStated'
  BY <1>1 DEF MoneyIsStated, PendingIsStated, ErpIsStated
<1>2. ASSUME NEW r \in Run, Swap(r) PROVE MoneyIsStated'
  <2>1. /\ db'.pending = KeptOrReplaced(r, "pending")
        /\ db'.erp = KeptOrReplaced(r, "erp")
    BY <1>2 DEF Swap, Refreshed
  <2>2. /\ db'.pending \in {db.pending, run[r].photo["pending"]}
        /\ db'.erp \in {db.erp, run[r].photo["erp"]}
    BY <1>0, <2>1 DEF KeptOrReplaced, Typed, Database
  <2>3. PendingIsStated(run[r].photo["pending"]) /\ ErpIsStated(run[r].photo["erp"])
    BY <1>0 DEF PhotoIsStated
  <2> QED BY <1>0, <1>1, <2>2, <2>3
<1>3. CASE WriterCommits
  <2>1. db'.pending = db.pending /\ db'.erp = db.erp
    BY <1>0, <1>3 DEF WriterCommits, Typed, Database
  <2> QED BY <1>0, <1>1, <2>1
<1>4. UNCHANGED db => MoneyIsStated'
  BY <1>0, <1>1
<1>5. ASSUME NEW r \in Run, Progress(r) \/ KeeperLost(r) \/ Crash(r), ~Swap(r)
      PROVE  UNCHANGED db
  BY <1>5 DEF Progress, TryLock, Read, ReadRefused, SyncFails, SwapBusy, Unlock, Succeed,
              Transition, ServerDropsConnection, KeeperLost, Crash
<1>6. ASSUME NEW j \in Job,
             \/ Submit(j) \/ LeaseRunsOut(j) \/ DeadlinePasses(j) \/ Sweep(j)
             \/ \E r \in Run : Claim(r, j)
      PROVE  UNCHANGED db
  BY <1>6 DEF Submit, LeaseRunsOut, DeadlinePasses, Sweep, Claim
<1>7. \/ WriterStarts \/ UNCHANGED vars \/ (\E p \in Pair : SourceMoves(p))
      => UNCHANGED db
  BY DEF WriterStarts, SourceMoves, vars
<1> QED BY <1>2, <1>3, <1>4, <1>5, <1>6, <1>7 DEF Next

\* Every published photo shows the pairs that the source had all the while it was taken,
\* each with the money the source states: its lines repeat the total of the pair, and the
\* Hamilton shares of its sizes sum to that total.
THEOREM PhotosAreFaithful == Spec => []PhotoIsFaithful
<1> DEFINE Inv == SeenInv /\ MoneyInv
<1>1. Init => Inv
  BY SeenInitially, MoneyInitially
<1>2. Inv /\ [Next]_vars => Inv'
  <2> SUFFICES ASSUME Inv, [Next]_vars PROVE Inv'
    OBVIOUS
  <2>1. SeenInv /\ MoneyInv
    OBVIOUS
  <2>2. IngestionInv'
    BY <2>1, InvStep DEF SeenInv
  <2>3. SeenInv'
    BY <2>1, <2>2, SeenStep, CarriedStep DEF SeenInv
  <2>4. MoneyInv'
    BY <2>1, <2>2, MoneyStep, PhotosStep DEF MoneyInv
  <2> QED BY <2>3, <2>4
<1>3. Inv => PhotoIsFaithful
  BY DEF SeenInv, MoneyInv, PhotoIsFaithful
<1> QED BY <1>1, <1>2, <1>3, PTL DEF Spec
=============================================================================
