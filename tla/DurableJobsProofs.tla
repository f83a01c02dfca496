------------------------- MODULE DurableJobsProofs -------------------------
(***************************************************************************)
(* Proofs about DurableJobs for every value of its constants.               *)
(*                                                                          *)
(* Every transaction changes each row in one of the nine ways of RowStep    *)
(* (lemma StepsOfRows).  What is true of one row alone is then proved from  *)
(* RowStep, and what relates rows, bindings and executions from Next.  That *)
(* the ledger implements JobContract is a consequence of both.              *)
(***************************************************************************)
EXTENDS DurableJobs, TLAPS

USE DEF Null

Creates(j) == row[j].status = "absent" /\ \E r \in Request : row'[j] = NewRow(r)

Grants(j) ==
    /\ Claimable(j)
    /\ \E r \in Run :
         /\ run[r].pc = "idle"
         /\ row'[j] = Claimed(j, r)
         /\ run' = [run EXCEPT ![r] = [pc |-> "working", job |-> j,
                                       attempt |-> row[j].attempts + 1]]

\* What every compare-and-set of an execution knows of its row.
Held(j) ==
    /\ row[j].status = "running"
    /\ row[j].leaseExpires > now
    /\ row[j].deadline > now

Renews(j) ==
    /\ Held(j)
    /\ \E p \in 0..Units, t \in {Null, Units} :
         /\ row[j].progress <= p
         /\ \/ t # Null /\ row[j].total \in {Null, t}
            \/ t = Null /\ (row[j].total = Null \/ row[j].total >= p)
         /\ row'[j] = Renewed(j, p, t)

Completes(j) == Held(j) /\ row'[j] = Completed(j)

Drops(j) ==
    /\ Held(j)
    /\ \E status \in {"failed", "skipped"} : row'[j] = Closed(j, status, RunError)

Returns(j) ==
    /\ Held(j)
    /\ \E d \in RetryDelays : row'[j] = Rescheduled(j, now + d, RunError)

Sweeps(j) == Expired(j) /\ row'[j] = Reconciled(j)

Deletes(j) ==
    /\ Deletable(j)
    /\ row'[j] = Blank("deleted")
    /\ \A k \in Key : binding[k] = j => binding'[k] = None

RowStep(j) ==
    \/ row'[j] = row[j]
    \/ Creates(j)   \/ Grants(j) \/ Renews(j)  \/ Completes(j)
    \/ Drops(j)   \/ Returns(j) \/ Sweeps(j)   \/ Deletes(j)

RowsStep ==
    /\ row' = [j \in Job |-> row'[j]]
    /\ \A j \in Job : RowStep(j)

\* A transaction of the repository changes each row in one of these ways.
LEMMA StepsOfRows ==
    ASSUME row \in [Job -> Row], [Next]_vars
    PROVE  RowsStep
<1> SUFFICES ASSUME Next PROVE RowsStep
  BY DEF vars, RowStep, RowsStep
<1>1. ASSUME NEW r \in Request, NEW i \in Job, SubmitCreated(r, i)
      PROVE  RowsStep
  BY <1>1 DEF SubmitCreated, RowStep, RowsStep, Creates
<1>2. ASSUME NEW r \in Run, NEW i \in Job, Claim(r, i)
      PROVE  RowsStep
  BY <1>2 DEF Claim, RowStep, RowsStep, Grants
<1>3. ASSUME NEW r \in Run, NEW p \in 0..Units, NEW t \in {Null, Units},
             Heartbeat(r, p, t)
      PROVE  RowsStep
  <2>1. ASSUME NEW j \in Job, j = run[r].job PROVE Renews(j)
    BY <1>3, <2>1 DEF Heartbeat, HoldsLease, Renews, Held
  <2>2. ASSUME NEW j \in Job, j # run[r].job PROVE row'[j] = row[j]
    BY <1>3, <2>2 DEF Heartbeat
  <2>3. row' = [j \in Job |-> row'[j]]
    BY <1>3 DEF Heartbeat
  <2> QED BY <2>1, <2>2, <2>3 DEF RowStep, RowsStep
<1>4. ASSUME NEW r \in Run, Succeed(r)
      PROVE  RowsStep
  <2>1. ASSUME NEW j \in Job, j = run[r].job PROVE Completes(j)
    BY <1>4, <2>1 DEF Succeed, HoldsLease, Completes, Held
  <2>2. ASSUME NEW j \in Job, j # run[r].job PROVE row'[j] = row[j]
    BY <1>4, <2>2 DEF Succeed
  <2>3. row' = [j \in Job |-> row'[j]]
    BY <1>4 DEF Succeed
  <2> QED BY <2>1, <2>2, <2>3 DEF RowStep, RowsStep
<1>5. ASSUME NEW r \in Run, NEW status \in {"failed", "skipped"}, Fail(r, status)
      PROVE  RowsStep
  BY <1>5 DEF Fail, HoldsLease, RowStep, RowsStep, Drops, Held
<1>6. ASSUME NEW r \in Run, NEW d \in RetryDelays, Retry(r, d)
      PROVE  RowsStep
  BY <1>6 DEF Retry, HoldsLease, RowStep, RowsStep, Returns, Held
<1>7. ASSUME NEW locked \in SUBSET Job, SweepReconcile(locked)
      PROVE  RowsStep
  <2>1. PICK B \in Batches({j \in Job \ locked : Expired(j)}, SweepLimit, ExpiryRank) :
          row' = [j \in Job |-> IF j \in B THEN Reconciled(j) ELSE row[j]]
    BY <1>7 DEF SweepReconcile
  <2>2. \A j \in B : Expired(j)
    BY DEF Batches
  <2> QED BY <2>1, <2>2 DEF RowStep, RowsStep, Sweeps
<1>8. ASSUME NEW locked \in SUBSET Job, SweepCleanup(locked)
      PROVE  RowsStep
  <2>1. PICK B \in Batches({j \in Job \ locked : Deletable(j)}, CleanupLimit,
                           LAMBDA j : row[j].finishedAt) :
          /\ row' = [j \in Job |-> IF j \in B THEN Blank("deleted") ELSE row[j]]
          /\ binding' = [k \in Key |-> IF binding[k] \in B THEN None ELSE binding[k]]
    BY <1>8 DEF SweepCleanup
  <2>2. \A j \in B : Deletable(j)
    BY DEF Batches
  <2> QED BY <2>1, <2>2 DEF RowStep, RowsStep, Deletes
<1>9. ASSUME UNCHANGED row PROVE RowsStep
  BY <1>9 DEF RowStep, RowsStep
<1> QED
  BY <1>1, <1>2, <1>3, <1>4, <1>5, <1>6, <1>7, <1>8, <1>9
  DEF Next, Submission, Execution, Sweep, SubmitCoalesced, LeaseLost, Crash,
      LoseMessage, SweepList, SweepPublish, SweepPublished, SweepCrash, Tick

-----------------------------------------------------------------------------
(* Types.                                                                   *)

\* The rows the repository writes are rows of the table.
LEMMA RowsAreTyped ==
    ASSUME TypeOK, NEW j \in Job, RowStep(j)
    PROVE  row'[j] \in Row
<1> USE ConstantsAssumption
<1>0. row[j] \in Row /\ now \in Nat
  BY DEF TypeOK
<1>1. CASE Creates(j)
  <2>1. PICK r \in Request : row'[j] = NewRow(r)
    BY <1>1 DEF Creates
  <2>2. Blank("queued") \in Row
    BY DEF Blank, Row, Status, Active, Dispatchable
  <2>3. now + Duration \in Nat
    BY <1>0
  <2>4. r \in Request \cup {None} /\ now \in Nat
    BY <1>0
  <2>5. NewRow(r) \in Row
    BY ZenonT(30), <2>2, <2>3, <2>4 DEF NewRow, Row
  <2> QED BY <2>1, <2>5
<1>2. CASE Grants(j)
  <2>1. PICK r \in Run : row'[j] = Claimed(j, r)
    BY <1>2 DEF Grants
  <2>2. row[j].attempts + 1 \in 0..MaxAttempts
    BY <1>0, <1>2 DEF Grants, Claimable, Row
  <2>3. Lesser(now + Lease, row[j].deadline) \in Nat
    BY <1>0 DEF Lesser, Row
  <2>4. "running" \in Status
    BY DEF Status, Active
  <2> QED BY ZenonT(30), <1>0, <2>1, <2>2, <2>3, <2>4 DEF Claimed, Row
<1>3. CASE Renews(j)
  <2>1. PICK p \in 0..Units, t \in {Null, Units} : row'[j] = Renewed(j, p, t)
    BY <1>3 DEF Renews
  <2>2. Greater(row[j].leaseExpires, Lesser(now + Lease, row[j].deadline)) \in Nat
    BY <1>0 DEF Lesser, Greater, Row
  <2> QED BY ZenonT(30), <1>0, <2>1, <2>2 DEF Renewed, Row
<1>4. ASSUME NEW status \in Status, NEW error \in ErrorCode \cup {None}
      PROVE  Closed(j, status, error) \in Row
  BY <1>0 DEF Closed, Row
<1>5. ASSUME NEW at \in Nat, NEW error \in ErrorCode
      PROVE  Rescheduled(j, at, error) \in Row
  <2>1. /\ Closed(j, "failed", DeadlineExceeded) \in Row
        /\ Closed(j, "failed", AttemptsUsed) \in Row
        /\ Closed(j, "retrying", error) \in Row
    BY <1>4 DEF Status, Active, Terminal, Dispatchable, ErrorCode
  <2> QED BY <2>1 DEF Rescheduled, Row
<1>6. CASE Completes(j)
  <2>1. Closed(j, "succeeded", None) \in Row
    BY <1>4 DEF Status, Terminal
  <2> QED BY <1>0, <1>6, <2>1 DEF Completes, Completed, Row
<1>7. CASE Drops(j)
  BY <1>4, <1>7 DEF Drops, Status, Terminal, ErrorCode
<1>8. CASE Returns(j)
  <2>1. PICK d \in RetryDelays : row'[j] = Rescheduled(j, now + d, RunError)
    BY <1>8 DEF Returns
  <2> QED BY <1>0, <1>5, <2>1 DEF ErrorCode
<1>9. CASE Sweeps(j)
  <2>1. Rescheduled(j, now + SweepDelay, LeaseExpired) \in Row
    BY <1>0, <1>5 DEF ErrorCode
  <2>2. Closed(j, "skipped", DeadlineExceeded) \in Row
    BY <1>4 DEF Status, Terminal, ErrorCode
  <2>3. ASSUME NEW next \in Row
        PROVE  [next EXCEPT !.availableAt = row[j].availableAt] \in Row
    BY <1>0 DEF Row
  <2>4. [Rescheduled(j, now + SweepDelay, LeaseExpired) EXCEPT
           !.availableAt = row[j].availableAt] \in Row
    BY <2>1, <2>3
  <2>5. Reconciled(j) \in Row
    BY <2>1, <2>2, <2>4 DEF Reconciled
  <2> QED BY <1>9, <2>5 DEF Sweeps
<1>10. CASE Deletes(j)
  BY <1>10 DEF Deletes, Blank, Row, Status
<1> QED
  BY <1>0, <1>1, <1>2, <1>3, <1>6, <1>7, <1>8, <1>9, <1>10 DEF RowStep

LEMMA TypeOKInitially == Init => TypeOK
  BY ConstantsAssumption DEF Init, TypeOK, Blank, Idle, Row, Status

LEMMA TypeOKStep == TypeOK /\ [Next]_vars => TypeOK'
<1> SUFFICES ASSUME TypeOK, [Next]_vars PROVE TypeOK'
  OBVIOUS
<1> USE ConstantsAssumption DEF TypeOK
<1>1. row' \in [Job -> Row]
  <2>1. RowsStep
    BY StepsOfRows
  <2>2. \A j \in Job : row'[j] \in Row
    BY <2>1, RowsAreTyped DEF RowsStep
  <2> QED BY <2>1, <2>2 DEF RowsStep
<1>2. ASSUME NEW r \in Request, NEW j \in Job,
             SubmitCreated(r, j) \/ SubmitCoalesced(r, j)
      PROVE  TypeOK'
  BY <1>1, <1>2 DEF SubmitCreated, SubmitCoalesced
<1>3. ASSUME NEW r \in Run, NEW j \in Job, Claim(r, j) PROVE TypeOK'
  <2>1. Claimable(j) => row[j].attempts + 1 \in 0..MaxAttempts
    BY DEF Claimable, Row
  <2> QED BY <1>1, <1>3, <2>1 DEF Claim
<1>4. ASSUME NEW r \in Run, Execution(r), \A j \in Job : ~Claim(r, j)
      PROVE  TypeOK'
  <2>1. /\ run' \in [Run -> [pc : {"idle", "working", "done"},
                             job : Job \cup {None}, attempt : 0..MaxAttempts]]
        /\ \A s \in Run : run'[s].job = run[s].job /\ (run'[s].pc = "idle") = (run[s].pc = "idle")
    BY <1>4 DEF Execution, Heartbeat, Succeed, Fail, Retry, LeaseLost, Crash, Ended
  <2>2. broker' \subseteq Job
    <3>1. broker \subseteq Job /\ (run[r].job \in Job \/ run[r].job = None)
      OBVIOUS
    <3>2. run[r].pc = "working" => run[r].job \in Job
      BY <3>1
    <3>3. run[r].pc = "working" /\ broker' \in {broker, broker \cup {run[r].job}}
      BY <1>4 DEF Execution, Heartbeat, Succeed, Fail, Retry, LeaseLost, Crash
    <3> QED BY <3>1, <3>2, <3>3
  <2>3. UNCHANGED <<now, binding, sweeper>>
    BY <1>4 DEF Execution, Heartbeat, Succeed, Fail, Retry, LeaseLost, Crash
  <2>4. \A s \in Run : (run'[s].pc = "idle") = (run'[s].job = None)
    BY <2>1
  <2> QED BY <1>1, <2>1, <2>2, <2>3, <2>4
<1>5. ASSUME NEW locked \in SUBSET Job,
             SweepReconcile(locked) \/ SweepCleanup(locked)
      PROVE  TypeOK'
  <2>1. \E pc \in {"list", "idle"} : sweeper' = [sweeper EXCEPT !.pc = pc]
    BY <1>5 DEF SweepReconcile, SweepCleanup
  <2>2. binding' \in [Key -> Job \cup {None}]
    BY <1>5 DEF SweepReconcile, SweepCleanup
  <2>3. UNCHANGED <<now, broker, run>>
    BY <1>5 DEF SweepReconcile, SweepCleanup
  <2> QED BY <1>1, <2>1, <2>2, <2>3
<1>6. CASE SweepList
  <2>1. PICK B \in SUBSET Job : sweeper' = [pc |-> "publish", todo |-> B]
    BY <1>6 DEF SweepList, Batches
  <2> QED BY <1>1, <1>6, <2>1 DEF SweepList
<1>7. CASE SweepPublished \/ SweepCrash \/ \E j \in Job : SweepPublish(j)
  BY <1>1, <1>7 DEF SweepPublish, SweepPublished, SweepCrash
<1>8. CASE Tick \/ \E j \in Job : LoseMessage(j)
  BY <1>1, <1>8 DEF Tick, LoseMessage
<1>9. CASE UNCHANGED vars
  BY <1>1, <1>9 DEF vars
<1> QED
  BY <1>2, <1>3, <1>4, <1>5, <1>6, <1>7, <1>8, <1>9
  DEF Next, Submission, Execution, Sweep

\* Every value the ledger, the broker, the sweeper and the executions take is
\* one the code allows; in particular no job has more attempts than it may.
THEOREM TypeCorrect == Spec => []TypeOK
  BY TypeOKInitially, TypeOKStep, PTL DEF Spec

-----------------------------------------------------------------------------
(* What is true of each row alone.                                          *)

HasRequest(j) ==
    /\ row[j].status \notin {"absent", "deleted"} => row[j].request \in Request
    /\ row[j].status = "absent" => row[j].progress = 0

RowInv(j) == RowConstraints(j) /\ WithinDeadline(j) /\ HasRequest(j)

RowsInv == TypeOK /\ \A j \in Job : RowInv(j)

SameWork(j) ==
    /\ row'[j].request = row[j].request
    /\ row'[j].attempts = row[j].attempts
    /\ row'[j].deadline = row[j].deadline
    /\ row'[j].progress = row[j].progress
    /\ row'[j].total = row[j].total

\* The row was given a failed or skipped outcome.
IsClosed(j, error) ==
    /\ row'[j].status \in {"failed", "skipped"}
    /\ row'[j].error = error
    /\ ~row'[j].retryable
    /\ row'[j].leaseOwner = None
    /\ row'[j].leaseExpires = Null
    /\ row'[j].finishedAt = now
    /\ SameWork(j)

\* The row waits for its next attempt.
IsRequeued(j, error) ==
    /\ row'[j].status = "retrying"
    /\ row'[j].error = error
    /\ row'[j].retryable
    /\ row'[j].leaseOwner = None
    /\ row'[j].leaseExpires = Null
    /\ row'[j].finishedAt = Null
    /\ row'[j].attempts < MaxAttempts
    /\ row'[j].availableAt < row'[j].deadline
    /\ SameWork(j)

LEMMA ErrorsAreNotNull == \A error \in ErrorCode : error # None
  BY NullAssumption

LEMMA ClosedIsValid ==
    ASSUME TypeOK, NEW j \in Job, RowInv(j), row[j].status \in Active,
           NEW error \in ErrorCode, IsClosed(j, error)
    PROVE  RowInv(j)'
<1>1. now # Null
  BY DEF TypeOK
<1>2. row[j].total # Null => row[j].progress <= row[j].total
  BY DEF RowInv, RowConstraints
<1>3. row[j].request \in Request
  BY DEF RowInv, HasRequest, Active, Dispatchable
<1>4. RowConstraints(j)'
  BY <1>1, <1>2, ErrorsAreNotNull
  DEF RowConstraints, IsClosed, SameWork, Dispatchable, Terminal
<1>5. WithinDeadline(j)' /\ HasRequest(j)'
  BY <1>3 DEF IsClosed, SameWork, WithinDeadline, HasRequest, Dispatchable
<1> QED BY <1>4, <1>5 DEF RowInv

LEMMA RequeuedIsValid ==
    ASSUME TypeOK, NEW j \in Job, RowInv(j), row[j].status = "running",
           NEW error \in ErrorCode, IsRequeued(j, error)
    PROVE  RowInv(j)'
<1>1. row[j].total # Null => row[j].progress <= row[j].total
  BY DEF RowInv, RowConstraints
<1>2. row[j].request \in Request
  BY DEF RowInv, HasRequest
<1>3. RowConstraints(j)'
  BY <1>1, ErrorsAreNotNull
  DEF RowConstraints, IsRequeued, SameWork, Dispatchable, Terminal
<1>4. WithinDeadline(j)' /\ HasRequest(j)'
  BY <1>2 DEF IsRequeued, SameWork, WithinDeadline, HasRequest, Dispatchable
<1> QED BY <1>3, <1>4 DEF RowInv

\* What retry() and the sweep of an expired lease leave behind.
LEMMA RescheduledAs ==
    ASSUME TypeOK, NEW j \in Job, NEW at \in Nat, NEW error \in ErrorCode,
           \/ row'[j] = Rescheduled(j, at, error)
           \/ /\ row'[j] = [Rescheduled(j, at, error) EXCEPT
                               !.availableAt = row[j].availableAt]
              /\ Rescheduled(j, at, error).status = "failed"
    PROVE  \E code \in ErrorCode : IsClosed(j, code) \/ IsRequeued(j, code)
<1>1. row[j] \in Row
  BY DEF TypeOK
<1>2. CASE row[j].deadline <= at
  BY ZenonT(30), <1>1, <1>2 DEF Rescheduled, Closed, IsClosed, SameWork, Row, ErrorCode
<1>3. CASE ~(row[j].deadline <= at) /\ row[j].attempts >= MaxAttempts
  BY ZenonT(30), <1>1, <1>3 DEF Rescheduled, Closed, IsClosed, SameWork, Row, ErrorCode
<1>4. CASE ~(row[j].deadline <= at) /\ ~(row[j].attempts >= MaxAttempts)
  <2>1. Rescheduled(j, at, error) =
          [Closed(j, "retrying", error) EXCEPT !.availableAt = at,
                                               !.retryable = TRUE,
                                               !.finishedAt = Null]
    BY <1>4 DEF Rescheduled
  <2>2. row'[j] = Rescheduled(j, at, error)
    BY <1>1, <2>1 DEF Closed, Row
  <2>3. row[j].attempts < MaxAttempts /\ at < row[j].deadline
    BY <1>1, <1>4, ConstantsAssumption DEF Row
  <2>4. row'[j].retryable
    BY <1>1, <2>1, <2>2 DEF Closed, Row
  <2>5. /\ row'[j].status = "retrying"
        /\ row'[j].error = error
        /\ row'[j].leaseOwner = None
        /\ row'[j].leaseExpires = Null
        /\ row'[j].finishedAt = Null
        /\ row'[j].availableAt = at
        /\ SameWork(j)
    BY <1>1, <2>1, <2>2 DEF Closed, Row, SameWork
  <2>6. IsRequeued(j, error)
    BY <2>3, <2>4, <2>5 DEF IsRequeued, SameWork
  <2> QED BY <2>6
<1> QED BY <1>2, <1>3, <1>4

\* Every other end of an attempt, and of a job nobody started in time.
LEMMA EndsOfAttempts ==
    ASSUME TypeOK, NEW j \in Job, Drops(j) \/ Returns(j) \/ Sweeps(j)
    PROVE  \E error \in ErrorCode :
             \/ IsClosed(j, error) /\ row[j].status \in Active
             \/ IsRequeued(j, error) /\ row[j].status = "running"
<1> USE ConstantsAssumption
<1>0. row[j] \in Row /\ now \in Nat
  BY DEF TypeOK
<1>1. CASE Drops(j)
  <2>1. IsClosed(j, RunError)
    BY <1>0, <1>1 DEF Drops, Closed, IsClosed, SameWork, Row
  <2> QED BY <1>1, <2>1 DEF Drops, Held, Active, ErrorCode
<1>2. CASE Returns(j)
  <2>1. PICK d \in RetryDelays : row'[j] = Rescheduled(j, now + d, RunError)
    BY <1>2 DEF Returns
  <2>2. now + d \in Nat
    BY <1>0
  <2>3. \E code \in ErrorCode : IsClosed(j, code) \/ IsRequeued(j, code)
    BY <2>1, <2>2, RescheduledAs DEF ErrorCode
  <2> QED BY <1>2, <2>3 DEF Returns, Held, Active
<1>3. CASE Sweeps(j) /\ row[j].status # "running"
  <2>1. row'[j] = Closed(j, "skipped", DeadlineExceeded)
    BY <1>3 DEF Sweeps, Reconciled
  <2>2. IsClosed(j, DeadlineExceeded)
    BY <1>0, <2>1 DEF Closed, IsClosed, SameWork, Row
  <2> QED BY <1>3, <2>2
      DEF Sweeps, Expired, ExpiredRunning, ExpiredPending, Active, ErrorCode
<1>4. CASE Sweeps(j) /\ row[j].status = "running"
  <2>1. now + SweepDelay \in Nat
    BY <1>0
  <2>2. \/ row'[j] = Rescheduled(j, now + SweepDelay, LeaseExpired)
        \/ /\ row'[j] = [Rescheduled(j, now + SweepDelay, LeaseExpired) EXCEPT
                            !.availableAt = row[j].availableAt]
           /\ Rescheduled(j, now + SweepDelay, LeaseExpired).status = "failed"
    BY <1>4 DEF Sweeps, Reconciled
  <2>3. \E code \in ErrorCode : IsClosed(j, code) \/ IsRequeued(j, code)
    BY <2>1, <2>2, RescheduledAs DEF ErrorCode
  <2> QED BY <1>4, <2>3 DEF Active
<1> QED BY <1>1, <1>2, <1>3, <1>4

LEMMA RowsStayValid ==
    ASSUME TypeOK, NEW j \in Job, RowInv(j), RowStep(j)
    PROVE  RowInv(j)'
<1> USE ConstantsAssumption
<1>0. row[j] \in Row /\ now \in Nat \ {0}
  BY DEF TypeOK
<1>1. CASE row'[j] = row[j]
  BY <1>1 DEF RowInv, RowConstraints, WithinDeadline, HasRequest
<1>2. CASE Creates(j)
  <2>1. PICK r \in Request : row'[j] = NewRow(r)
    BY <1>2 DEF Creates
  <2>2. RowConstraints(j)'
    BY <1>0, <2>1 DEF NewRow, Blank, RowConstraints, Dispatchable, Terminal
  <2>3. WithinDeadline(j)' /\ HasRequest(j)'
    BY <1>0, <2>1 DEF NewRow, Blank, WithinDeadline, HasRequest, Dispatchable
  <2> QED BY <2>2, <2>3 DEF RowInv
<1>3. CASE Grants(j)
  <2>1. PICK r \in Run : row'[j] = Claimed(j, r)
    BY <1>3 DEF Grants
  <2>2. RowConstraints(j)'
    BY <1>0, <1>3, <2>1
    DEF Grants, Claimable, Claimed, Lesser, Row, RowInv, RowConstraints,
        Dispatchable, Terminal
  <2>3. WithinDeadline(j)'
    BY <1>0, <2>1 DEF Claimed, Lesser, Row, WithinDeadline, Dispatchable
  <2>4. HasRequest(j)'
    BY <1>0, <1>3, <2>1
    DEF Grants, Claimable, Claimed, Row, RowInv, HasRequest, Dispatchable
  <2> QED BY <2>2, <2>3, <2>4 DEF RowInv
<1>4. CASE Renews(j)
  <2>1. PICK p \in 0..Units, t \in {Null, Units} :
          /\ \/ t # Null /\ row[j].total \in {Null, t}
             \/ t = Null /\ (row[j].total = Null \/ row[j].total >= p)
          /\ row'[j] = Renewed(j, p, t)
    BY <1>4 DEF Renews
  <2>2. RowConstraints(j)'
    BY <1>0, <1>4, <2>1
    DEF Renews, Held, Renewed, Lesser, Greater, Row, RowInv, RowConstraints,
        Dispatchable, Terminal
  <2>3. WithinDeadline(j)'
    BY <1>0, <1>4, <2>1
    DEF Renews, Held, Renewed, Lesser, Greater, Row, RowInv, WithinDeadline, Dispatchable
  <2>4. HasRequest(j)'
    BY <1>0, <1>4, <2>1 DEF Renews, Held, Renewed, Row, RowInv, HasRequest
  <2> QED BY <2>2, <2>3, <2>4 DEF RowInv
<1>5. CASE Completes(j)
  <2>1. RowConstraints(j)'
    BY <1>0, <1>5
    DEF Completes, Held, Completed, Closed, Row, RowInv, RowConstraints,
        Dispatchable, Terminal
  <2>2. WithinDeadline(j)' /\ HasRequest(j)'
    BY <1>0, <1>5
    DEF Completes, Held, Completed, Closed, Row, RowInv, WithinDeadline,
        HasRequest, Dispatchable
  <2> QED BY <2>1, <2>2 DEF RowInv
<1>6. CASE Drops(j) \/ Returns(j) \/ Sweeps(j)
  BY <1>6, EndsOfAttempts, ClosedIsValid, RequeuedIsValid
<1>7. CASE Deletes(j)
  <2>1. row'[j] = Blank("deleted")
    BY <1>7 DEF Deletes
  <2>2. RowConstraints(j)'
    BY <2>1 DEF Blank, RowConstraints, Dispatchable, Terminal
  <2>3. WithinDeadline(j)' /\ HasRequest(j)'
    BY <2>1 DEF Blank, WithinDeadline, HasRequest, Dispatchable
  <2> QED BY <2>2, <2>3 DEF RowInv
<1> QED
  BY <1>1, <1>2, <1>3, <1>4, <1>5, <1>6, <1>7 DEF RowStep

LEMMA RowsInvInitially == Init => RowsInv
<1> SUFFICES ASSUME Init, NEW j \in Job PROVE RowInv(j)
  BY TypeOKInitially DEF RowsInv
<1>1. row[j] = Blank("absent")
  BY DEF Init
<1> QED BY <1>1 DEF RowInv, RowConstraints, WithinDeadline, HasRequest, Blank,
                    Dispatchable, Terminal

LEMMA RowsInvStep == RowsInv /\ [Next]_vars => RowsInv'
  BY TypeOKStep, StepsOfRows, RowsStayValid DEF RowsInv, RowsStep, TypeOK

\* The database never rejects a row the repository writes: the CHECK
\* constraints hold in every reachable state.
THEOREM ConstraintsHold == Spec => []LedgerConstraints
<1>1. RowsInv => LedgerConstraints
  BY DEF RowsInv, RowInv, LedgerConstraints
<1> QED BY <1>1, RowsInvInitially, RowsInvStep, PTL DEF Spec

\* No lease outlives its deadline, no retry is put off beyond it and no success
\* is recorded after it.
THEOREM DeadlineIsRespected == Spec => []TimesWithinDeadline
<1>1. RowsInv => TimesWithinDeadline
  BY DEF RowsInv, RowInv, TimesWithinDeadline
<1> QED BY <1>1, RowsInvInitially, RowsInvStep, PTL DEF Spec

\* The rows of the ledger stay valid (DurableJobs!RowsAreValid).
THEOREM RowsAreAlwaysValid == Spec => []RowsAreValid
<1>1. TypeOK /\ LedgerConstraints /\ TimesWithinDeadline => RowsAreValid
  BY DEF RowsAreValid
<1> QED BY <1>1, TypeCorrect, ConstraintsHold, DeadlineIsRespected, PTL

-----------------------------------------------------------------------------
(* Fencing: what relates rows and executions.                               *)

\* Whatever was granted to an execution is in the past of its row.
GrantsAreInThePast ==
    \A r \in Run : run[r].job # None =>
        \/ row[run[r].job].status = "deleted"
        \/ /\ row[run[r].job].status # "absent"
           /\ run[r].attempt <= row[run[r].job].attempts

FencingInv ==
    /\ RowsInv
    /\ GrantsAreInThePast
    /\ AttemptsAreDistinct
    /\ LeaseBelongsToLatestClaim

\* No row goes back in its life, and no attempt is given back.
LEMMA RowsOnlyAge ==
    ASSUME RowsInv, NEW j \in Job, RowStep(j)
    PROVE  /\ row[j].status = "deleted" => row'[j].status = "deleted"
           /\ row[j].status \notin {"absent", "deleted"} =>
                \/ row'[j].status = "deleted"
                \/ /\ row'[j].status # "absent"
                   /\ row'[j].attempts >= row[j].attempts
           /\ row'[j].status = "running" =>
                \/ Grants(j)
                \/ /\ row[j].status = "running"
                   /\ row'[j].leaseOwner = row[j].leaseOwner
                   /\ row'[j].attempts = row[j].attempts
<1> USE ConstantsAssumption
<1>0. row[j] \in Row /\ now \in Nat
  BY DEF RowsInv, TypeOK
<1>1. CASE row'[j] = row[j]
  BY <1>0, <1>1 DEF Row
<1>2. CASE Creates(j)
  BY <1>2 DEF Creates, NewRow, Blank
<1>3. CASE Grants(j)
  <2>1. row[j].status \in Dispatchable
    BY <1>3 DEF Grants, Claimable
  <2>2. row'[j].status = "running" /\ row'[j].attempts >= row[j].attempts
    BY <1>0, <1>3 DEF Grants, Claimed, Row
  <2> QED BY <1>3, <2>1, <2>2 DEF Dispatchable
<1>4. CASE Renews(j)
  BY <1>0, <1>4 DEF Renews, Held, Renewed, Row
<1>5. CASE Completes(j)
  BY <1>0, <1>5 DEF Completes, Held, Completed, Closed, Row
<1>6. CASE \E error \in ErrorCode :
              row[j].status \in Active /\ (IsClosed(j, error) \/ IsRequeued(j, error))
  BY <1>0, <1>6 DEF IsClosed, IsRequeued, SameWork, Active, Dispatchable, Row
<1>7. CASE Deletes(j)
  BY <1>7 DEF Deletes, Deletable, Terminal, Blank
<1> QED
  BY <1>1, <1>2, <1>3, <1>4, <1>5, <1>6, <1>7, EndsOfAttempts
  DEF RowStep, RowsInv, Active

LEMMA FencingInvInitially == Init => FencingInv
  BY RowsInvInitially
  DEF Init, Idle, FencingInv, GrantsAreInThePast, AttemptsAreDistinct,
      LeaseBelongsToLatestClaim

KeepsGrants ==
    \A r \in Run :
        /\ run'[r].job = run[r].job
        /\ run'[r].attempt = run[r].attempt
        /\ run'[r].pc = "idle" <=> run[r].pc = "idle"

LEMMA StepsOfRuns ==
    ASSUME TypeOK, [Next]_vars
    PROVE  KeepsGrants \/ \E j \in Job : Grants(j)
<1>1. ASSUME NEW r \in Run, NEW j \in Job, Claim(r, j)
      PROVE  KeepsGrants \/ Grants(j)
  BY <1>1 DEF Claim, Grants, KeepsGrants, TypeOK
<1>2. ASSUME NEW r \in Run, Execution(r), \A j \in Job : ~Claim(r, j)
      PROVE  KeepsGrants
  BY <1>2 DEF Execution, Heartbeat, Succeed, Fail, Retry, LeaseLost, Crash, Ended,
              KeepsGrants, TypeOK
<1>3. ASSUME UNCHANGED run PROVE KeepsGrants
  BY <1>3 DEF KeepsGrants
<1> QED
  BY <1>1, <1>2, <1>3
  DEF Next, vars, Submission, SubmitCreated, SubmitCoalesced, LoseMessage, Sweep,
      SweepReconcile, SweepList, SweepPublish, SweepPublished, SweepCleanup,
      SweepCrash, Tick

LEMMA FencingInvStep == FencingInv /\ [Next]_vars => FencingInv'
<1> SUFFICES ASSUME FencingInv, [Next]_vars PROVE FencingInv'
  OBVIOUS
<1> USE ConstantsAssumption
<1>1. RowsInv' /\ RowsInv /\ TypeOK
  BY RowsInvStep DEF FencingInv, RowsInv
<1>2. \A j \in Job : RowStep(j)
  BY <1>1, StepsOfRows DEF RowsStep, TypeOK
<1>3. \A r \in Run : run[r].job # None => run[r].job \in Job
  BY <1>1 DEF TypeOK
<1>4. CASE KeepsGrants /\ \A j \in Job : ~Grants(j)
  <2>0. \A r \in Run :
          /\ run'[r].job = run[r].job
          /\ run'[r].attempt = run[r].attempt
          /\ run'[r].pc = "idle" <=> run[r].pc = "idle"
    BY <1>4 DEF KeepsGrants
  <2>1. ASSUME NEW r \in Run, run'[r].job # None
        PROVE  \/ row'[run'[r].job].status = "deleted"
               \/ /\ row'[run'[r].job].status # "absent"
                  /\ run'[r].attempt <= row'[run'[r].job].attempts
    <3> DEFINE i == run[r].job
    <3>1. /\ i \in Job
          /\ run'[r].job = i /\ run'[r].attempt = run[r].attempt
      BY <1>3, <2>0, <2>1
    <3>2. \/ row[i].status = "deleted"
          \/ row[i].status # "absent" /\ run[r].attempt <= row[i].attempts
      BY <2>1, <3>1 DEF FencingInv, GrantsAreInThePast
    <3>3. /\ run[r].attempt \in Nat
          /\ row[i].attempts \in Nat /\ row'[i].attempts \in Nat
      BY <1>1, <3>1 DEF RowsInv, TypeOK, Row
    <3> QED BY <1>1, <1>2, <3>1, <3>2, <3>3, RowsOnlyAge
  <2>2. AttemptsAreDistinct'
    <3>1. ASSUME NEW r \in Run, NEW s \in Run,
                 run'[r].pc # "idle", run'[s].pc # "idle",
                 run'[r].job = run'[s].job, run'[r].attempt = run'[s].attempt
          PROVE  r = s
      <4>1. /\ run[r].pc # "idle" /\ run[s].pc # "idle"
            /\ run[r].job = run[s].job /\ run[r].attempt = run[s].attempt
        BY <2>0, <3>1
      <4> QED BY <4>1 DEF FencingInv, AttemptsAreDistinct
    <3> QED BY <3>1 DEF AttemptsAreDistinct
  <2>3. ASSUME NEW r \in Run, run'[r].job # None,
               row'[run'[r].job].status = "running",
               row'[run'[r].job].leaseOwner = r
        PROVE  run'[r].attempt = row'[run'[r].job].attempts
    <3> DEFINE i == run[r].job
    <3>1. /\ i \in Job /\ i # None
          /\ run'[r].job = i /\ run'[r].attempt = run[r].attempt
      BY <1>3, <2>0, <2>3
    <3>2. /\ row[i].status = "running"
          /\ row[i].leaseOwner = r
          /\ row'[i].attempts = row[i].attempts
      BY <1>1, <1>2, <1>4, <2>3, <3>1, RowsOnlyAge
    <3> QED BY <3>1, <3>2 DEF FencingInv, LeaseBelongsToLatestClaim
  <2>4. GrantsAreInThePast' /\ LeaseBelongsToLatestClaim'
    BY <2>1, <2>3 DEF GrantsAreInThePast, LeaseBelongsToLatestClaim
  <2> QED BY <1>1, <2>2, <2>4 DEF FencingInv
<1>5. ASSUME NEW j \in Job, Grants(j) PROVE FencingInv'
  <2>1. PICK r \in Run :
          /\ run[r].pc = "idle"
          /\ row'[j] = Claimed(j, r)
          /\ run' = [run EXCEPT ![r] = [pc |-> "working", job |-> j,
                                        attempt |-> row[j].attempts + 1]]
    BY <1>5 DEF Grants
  <2>2. /\ run'[r] = [pc |-> "working", job |-> j, attempt |-> row[j].attempts + 1]
        /\ \A s \in Run \ {r} : run'[s] = run[s]
    BY <1>1, <2>1 DEF TypeOK
  <2>3. /\ row'[j].status = "running"
        /\ row'[j].leaseOwner = r
        /\ row'[j].attempts = row[j].attempts + 1
        /\ row[j].status \in Dispatchable
        /\ row[j].attempts \in Nat
    BY <1>1, <1>5, <2>1 DEF Grants, Claimable, Claimed, TypeOK, Row
  <2>4. ASSUME NEW i \in Job \ {j}, Grants(i) PROVE FALSE
    <3>1. PICK s \in Run :
            /\ run[s].pc = "idle"
            /\ run' = [run EXCEPT ![s] = [pc |-> "working", job |-> i,
                                          attempt |-> row[i].attempts + 1]]
      BY <2>4 DEF Grants
    <3>2. run'[s].job = i /\ run'[s].pc = "working"
      BY <1>1, <3>1 DEF TypeOK
    <3> QED BY <2>2, <3>1, <3>2
  <2>5. GrantsAreInThePast'
    <3>1. ASSUME NEW s \in Run \ {r}, run'[s].job # None
          PROVE  \/ row'[run'[s].job].status = "deleted"
                 \/ /\ row'[run'[s].job].status # "absent"
                    /\ run'[s].attempt <= row'[run'[s].job].attempts
      <4> DEFINE i == run[s].job
      <4>1. i \in Job /\ run'[s] = run[s]
        BY <1>3, <2>2, <3>1
      <4>2. \/ row[i].status = "deleted"
            \/ row[i].status # "absent" /\ run[s].attempt <= row[i].attempts
        BY <3>1, <4>1 DEF FencingInv, GrantsAreInThePast
      <4>3. /\ run[s].attempt \in Nat
            /\ row[i].attempts \in Nat /\ row'[i].attempts \in Nat
        BY <1>1, <4>1 DEF RowsInv, TypeOK, Row
      <4> QED BY <1>1, <1>2, <4>1, <4>2, <4>3, RowsOnlyAge
    <3> QED BY <2>2, <2>3, <3>1 DEF GrantsAreInThePast
  <2>6. AttemptsAreDistinct'
    <3>1. ASSUME NEW s \in Run \ {r}, run[s].job = j
          PROVE  run[s].attempt # row[j].attempts + 1
      BY <1>1, <2>3, <3>1 DEF FencingInv, GrantsAreInThePast, TypeOK, Dispatchable
    <3> QED BY <2>2, <3>1 DEF FencingInv, AttemptsAreDistinct
  <2>7. LeaseBelongsToLatestClaim'
    <3>1. ASSUME NEW s \in Run \ {r}, NEW i \in Job \ {j}, run[s].job = i,
                 row'[i].status = "running", row'[i].leaseOwner = s
          PROVE  run[s].attempt = row'[i].attempts
      <4>1. /\ row[i].status = "running"
            /\ row[i].leaseOwner = s
            /\ row'[i].attempts = row[i].attempts
        BY <1>1, <1>2, <2>4, <3>1, RowsOnlyAge
      <4> QED BY <3>1, <4>1 DEF FencingInv, LeaseBelongsToLatestClaim
    <3> QED BY <1>3, <2>2, <2>3, <3>1 DEF LeaseBelongsToLatestClaim
  <2> QED BY <1>1, <2>5, <2>6, <2>7 DEF FencingInv
<1> QED BY <1>1, <1>4, <1>5, StepsOfRuns

\* The worker id alone fences: a row is leased to nobody but the execution that
\* made its latest claim.
THEOREM LeaseIsFenced == Spec => []LeaseBelongsToLatestClaim
<1>1. FencingInv => LeaseBelongsToLatestClaim
  BY DEF FencingInv
<1> QED BY <1>1, FencingInvInitially, FencingInvStep, PTL DEF Spec

\* However often the broker repeats a message, an attempt has one execution.
THEOREM OneExecutionPerAttempt == Spec => []AttemptsAreDistinct
<1>1. FencingInv => AttemptsAreDistinct
  BY DEF FencingInv
<1> QED BY <1>1, FencingInvInitially, FencingInvStep, PTL DEF Spec

-----------------------------------------------------------------------------
(* What a transaction may never do to bindings and rows.                    *)

BindingStep(k) ==
    \/ binding'[k] = binding[k]
    \/ /\ binding[k] = None
       /\ binding'[k] \in Job
       /\ row'[binding'[k]].status \in Active
    \/ binding'[k] = None /\ Deletes(binding[k])

\* A key is bound to a job that is active then, and is only freed together
\* with the row of its job.
LEMMA StepsOfBindings ==
    ASSUME TypeOK, [Next]_vars
    PROVE  \A k \in Key : BindingStep(k)
<1>1. ASSUME NEW r \in Request, NEW j \in Job, SubmitCreated(r, j)
      PROVE  \A k \in Key : BindingStep(k)
  <2>1. row'[j].status = "queued"
    BY <1>1 DEF SubmitCreated, NewRow, Blank, TypeOK
  <2> QED BY <1>1, <2>1 DEF SubmitCreated, BindingStep, TypeOK, Active, Dispatchable
<1>2. ASSUME NEW r \in Request, NEW j \in Job, SubmitCoalesced(r, j)
      PROVE  \A k \in Key : BindingStep(k)
  BY <1>2 DEF SubmitCoalesced, ActiveInScope, BindingStep, TypeOK
<1>3. ASSUME NEW locked \in SUBSET Job, SweepCleanup(locked)
      PROVE  \A k \in Key : BindingStep(k)
  <2>1. PICK B \in Batches({j \in Job \ locked : Deletable(j)}, CleanupLimit,
                           LAMBDA j : row[j].finishedAt) :
          /\ row' = [j \in Job |-> IF j \in B THEN Blank("deleted") ELSE row[j]]
          /\ binding' = [k \in Key |-> IF binding[k] \in B THEN None ELSE binding[k]]
    BY <1>3 DEF SweepCleanup
  <2>2. \A j \in B : j \in Job /\ Deletable(j)
    BY DEF Batches
  <2>3. \A j \in B : Deletes(j)
    BY <2>1, <2>2 DEF Deletes
  <2> QED BY <2>1, <2>3 DEF BindingStep
<1>4. ASSUME UNCHANGED binding PROVE \A k \in Key : BindingStep(k)
  BY <1>4 DEF BindingStep
<1> QED
  BY <1>1, <1>2, <1>3, <1>4
  DEF Next, vars, Submission, Execution, Claim, Heartbeat, Succeed, Fail, Retry,
      LeaseLost, Crash, LoseMessage, Sweep, SweepReconcile, SweepList,
      SweepPublish, SweepPublished, SweepCrash, Tick

BindingInv == FencingInv /\ BindingsReferToRows

LEMMA BindingInvInitially == Init => BindingInv
  BY FencingInvInitially DEF Init, BindingInv, BindingsReferToRows

\* Only the deletion of a row, which frees its keys, leaves the id unused.
LEMMA RowsOfBindingsStay ==
    ASSUME RowsInv, NEW j \in Job, RowStep(j),
           row[j].status \notin {"absent", "deleted"}
    PROVE  \/ row'[j].status \notin {"absent", "deleted"}
           \/ Deletes(j)
<1> USE ConstantsAssumption
<1>0. row[j] \in Row
  BY DEF RowsInv, TypeOK
<1>1. CASE row'[j] = row[j]
  BY <1>1
<1>2. CASE Creates(j)
  BY <1>2 DEF Creates
<1>3. CASE Grants(j)
  BY <1>0, <1>3 DEF Grants, Claimed, Row
<1>4. CASE Renews(j)
  BY <1>0, <1>4 DEF Renews, Held, Renewed, Row
<1>5. CASE Completes(j)
  BY <1>0, <1>5 DEF Completes, Completed, Closed, Row
<1>6. CASE Drops(j) \/ Returns(j) \/ Sweeps(j)
  BY <1>6, EndsOfAttempts DEF RowsInv, IsClosed, IsRequeued
<1> QED BY <1>1, <1>2, <1>3, <1>4, <1>5, <1>6 DEF RowStep

LEMMA BindingInvStep == BindingInv /\ [Next]_vars => BindingInv'
<1> SUFFICES ASSUME BindingInv, [Next]_vars PROVE BindingInv'
  OBVIOUS
<1>1. FencingInv' /\ RowsInv' /\ RowsInv /\ TypeOK
  BY FencingInvStep DEF BindingInv, FencingInv, RowsInv
<1>2. \A j \in Job : RowStep(j)
  BY <1>1, StepsOfRows DEF RowsStep, TypeOK
<1>3. ASSUME NEW k \in Key, binding'[k] # None
      PROVE  /\ row'[binding'[k]].status \notin {"absent", "deleted"}
             /\ row'[binding'[k]].request # None
  <2>1. binding'[k] \in Job
    BY <1>1, <1>3 DEF RowsInv, TypeOK
  <2>2. row'[binding'[k]].status \notin {"absent", "deleted"}
    <3>1. CASE binding'[k] = binding[k]
      <4>1. row[binding[k]].status \notin {"absent", "deleted"}
        BY <1>3, <3>1 DEF BindingInv, BindingsReferToRows
      <4>2. ~Deletes(binding[k])
        BY <1>3, <3>1 DEF Deletes
      <4> QED BY <1>1, <1>2, <2>1, <3>1, <4>1, <4>2, RowsOfBindingsStay
    <3>2. CASE row'[binding'[k]].status \in Active
      BY <3>2 DEF Active, Dispatchable
    <3> QED BY <1>1, <1>3, <3>1, <3>2, StepsOfBindings DEF BindingStep
  <2>3. row'[binding'[k]].request \in Request
    BY <1>1, <2>1, <2>2 DEF RowsInv, RowInv, HasRequest
  <2>4. None \notin Request
    BY ConstantsAssumption
  <2> QED BY <2>2, <2>3, <2>4
<1> QED BY <1>1, <1>3 DEF BindingInv, BindingsReferToRows

\* Retention and cascade never leave a key bound to a row that is gone.
THEOREM BindingsAreNeverDangling == Spec => []BindingsReferToRows
<1>1. BindingInv => BindingsReferToRows
  BY DEF BindingInv
<1> QED BY <1>1, BindingInvInitially, BindingInvStep, PTL DEF Spec

-----------------------------------------------------------------------------
(* Action properties.                                                       *)

\* A key answers with the same job until that job is deleted.
THEOREM KeysStayStable == Spec => KeysAreStable
<1>1. ASSUME TypeOK, [Next]_vars, NEW k \in Key, binding[k] # None
      PROVE  \/ binding'[k] = binding[k]
             \/ binding'[k] = None /\ row'[binding[k]].status = "deleted"
  <2>1. BindingStep(k)
    BY <1>1, StepsOfBindings
  <2>2. Deletes(binding[k]) => row'[binding[k]].status = "deleted"
    BY DEF Deletes, Blank
  <2> QED BY <1>1, <2>1, <2>2 DEF BindingStep
<1>2. TypeOK /\ [Next]_vars =>
        [\A k \in Key : binding[k] # None =>
           \/ binding'[k] = binding[k]
           \/ binding'[k] = None /\ row'[binding[k]].status = "deleted"]_vars
  BY <1>1
<1> QED BY <1>2, TypeCorrect, PTL DEF Spec, KeysAreStable

\* A recorded outcome is never touched again before its retention has passed.
THEOREM OutcomesStayFinal == Spec => OutcomeIsFinal
<1>1. ASSUME TypeOK, [Next]_vars, NEW j \in Job, row[j].status \in Terminal
      PROVE  \/ row'[j] = row[j]
             \/ row'[j].status = "deleted" /\ now > row[j].finishedAt + Retention
  <2>0. /\ row[j] \in Row /\ now \in Nat /\ Retention \in Nat
        /\ row[j].status \notin Active \cup {"absent"}
    BY <1>1, ConstantsAssumption DEF TypeOK, Terminal, Active, Dispatchable
  <2>1. RowStep(j)
    BY <1>1, StepsOfRows DEF RowsStep, TypeOK
  <2>2. ~Creates(j) /\ ~Grants(j)
    BY <2>0 DEF Creates, Grants, Claimable, Active
  <2>3. ~Renews(j) /\ ~Completes(j)
    BY <2>0 DEF Renews, Completes, Held, Active
  <2>4. ~(Drops(j) \/ Returns(j) \/ Sweeps(j))
    BY <1>1, <2>0, EndsOfAttempts DEF Active
  <2>5. Deletes(j) => /\ row'[j].status = "deleted"
                      /\ now > row[j].finishedAt + Retention
    BY <2>0 DEF Deletes, Deletable, Blank, Row
  <2> QED BY <2>1, <2>2, <2>3, <2>4, <2>5 DEF RowStep
<1>2. TypeOK /\ [Next]_vars =>
        [\A j \in Job : row[j].status \in Terminal =>
           \/ row'[j] = row[j]
           \/ row'[j].status = "deleted" /\ now > row[j].finishedAt + Retention]_vars
  BY <1>1
<1> QED BY <1>2, TypeCorrect, PTL DEF Spec, OutcomeIsFinal

LEMMA RowsInvAlways == Spec => []RowsInv
  BY RowsInvInitially, RowsInvStep, PTL DEF Spec

\* Attempts that follow one another never take progress back.
THEOREM ProgressStaysMonotone == Spec => ProgressIsMonotone
<1>1. ASSUME RowsInv, [Next]_vars, NEW j \in Job, row'[j].status # "deleted"
      PROVE  row'[j].progress >= row[j].progress
  <2> USE ConstantsAssumption
  <2>0. row[j] \in Row /\ row[j].progress \in Nat /\ RowStep(j) /\ RowInv(j)
    BY <1>1, StepsOfRows DEF RowsInv, RowsStep, TypeOK, Row
  <2>1. CASE row'[j] = row[j]
    BY <2>0, <2>1
  <2>2. CASE Creates(j)
    <3>1. row[j].progress = 0
      BY <2>0, <2>2 DEF Creates, RowInv, HasRequest
    <3>2. row'[j].progress = 0
      BY <2>2 DEF Creates, NewRow, Blank
    <3> QED BY <3>1, <3>2
  <2>3. CASE Grants(j)
    <3>1. row'[j].progress = row[j].progress
      BY <2>0, <2>3 DEF Grants, Claimed, Row
    <3> QED BY <2>0, <3>1
  <2>4. CASE Renews(j)
    BY <2>0, <2>4 DEF Renews, Renewed, Row
  <2>5. CASE Completes(j)
    <3>1. row[j].total # Null => row[j].progress <= row[j].total
      BY <2>0 DEF RowInv, RowConstraints
    <3>2. row'[j].progress = IF row[j].total # Null THEN row[j].total ELSE row[j].progress
      BY <2>0, <2>5 DEF Completes, Completed, Closed, Row
    <3>3. row[j].total \in {Null, Units}
      BY <2>0 DEF Row
    <3> QED BY <2>0, <3>1, <3>2, <3>3
  <2>6. CASE Drops(j) \/ Returns(j) \/ Sweeps(j)
    <3>1. row'[j].progress = row[j].progress
      BY <1>1, <2>6, EndsOfAttempts DEF RowsInv, IsClosed, IsRequeued, SameWork
    <3> QED BY <2>0, <3>1
  <2>7. CASE Deletes(j)
    BY <1>1, <2>7 DEF Deletes, Blank
  <2> QED BY <2>0, <2>1, <2>2, <2>3, <2>4, <2>5, <2>6, <2>7 DEF RowStep
<1>2. RowsInv /\ [Next]_vars =>
        [\A j \in Job : row'[j].status # "deleted" =>
           row'[j].progress >= row[j].progress]_vars
  BY <1>1
<1> QED BY <1>2, RowsInvAlways, PTL DEF Spec, ProgressIsMonotone

-----------------------------------------------------------------------------
(* The refinement of JobContract.                                           *)

View(j) == [phase   |-> PhaseOf(row[j].status),
            attempt |-> row[j].attempts,
            holder  |-> row[j].leaseOwner]

\* Every way a row changes is a step of the contract or invisible to it.
LEMMA RowStepsKeepContract ==
    ASSUME RowsInv, RowsInv', NEW j \in Job, RowStep(j)
    PROVE  View(j)' = View(j) \/ Contract!Step(View(j), View(j)')
<1> USE ConstantsAssumption
<1>0. row[j] \in Row /\ row'[j] \in Row
  BY DEF RowsInv, TypeOK
<1>1. /\ row[j].status # "running" => row[j].leaseOwner = None
      /\ row'[j].status # "running" => row'[j].leaseOwner = None
      /\ row[j].status \in Dispatchable => row[j].attempts < MaxAttempts
  BY DEF RowsInv, RowInv, RowConstraints
<1>2. CASE row'[j] = row[j]
  BY <1>2 DEF View
<1>3. CASE Creates(j)
  <2>1. row'[j].status = "queued" /\ row'[j].attempts = 0 /\ row'[j].leaseOwner = None
    BY <1>3 DEF Creates, NewRow, Blank
  <2>2. Contract!Submitted(View(j), View(j)')
    BY <1>3, <2>1
    DEF Creates, View, PhaseOf, Contract!Submitted, Contract!Free, Dispatchable
  <2> QED BY <2>2 DEF Contract!Step
<1>4. CASE Grants(j)
  <2>1. PICK r \in Run : row'[j] = Claimed(j, r)
    BY <1>4 DEF Grants
  <2>2. /\ row'[j].status = "running" /\ row'[j].leaseOwner = r
        /\ row'[j].attempts = row[j].attempts + 1
        /\ row[j].status \in Dispatchable /\ row[j].attempts < MaxAttempts
    BY <1>0, <1>4, <2>1 DEF Grants, Claimable, Claimed, Row
  <2>3. Contract!Granted(View(j), View(j)')
    BY <2>2 DEF View, PhaseOf, Contract!Granted, Dispatchable
  <2> QED BY <2>3 DEF Contract!Step
<1>5. CASE Renews(j)
  <2>1. /\ row'[j].status = row[j].status
        /\ row'[j].attempts = row[j].attempts
        /\ row'[j].leaseOwner = row[j].leaseOwner
    BY <1>0, <1>5 DEF Renews, Renewed, Row
  <2> QED BY <2>1 DEF View
<1>6. CASE Completes(j)
  <2>1. /\ row[j].status = "running" /\ row'[j].status = "succeeded"
        /\ row'[j].attempts = row[j].attempts /\ row'[j].leaseOwner = None
    BY <1>0, <1>6 DEF Completes, Held, Completed, Closed, Row
  <2>2. Contract!Completed(View(j), View(j)')
    BY <2>1 DEF View, PhaseOf, Contract!Completed, Contract!Free, Dispatchable
  <2> QED BY <2>2 DEF Contract!Step
<1>7. CASE Drops(j) \/ Returns(j) \/ Sweeps(j)
  <2>1. PICK error \in ErrorCode :
          \/ IsClosed(j, error) /\ row[j].status \in Active
          \/ IsRequeued(j, error) /\ row[j].status = "running"
    BY <1>7, EndsOfAttempts DEF RowsInv
  <2>2. CASE IsClosed(j, error) /\ row[j].status \in Active
    <3>1. Contract!Dropped(View(j), View(j)')
      BY <2>2 DEF IsClosed, SameWork, View, PhaseOf, Contract!Dropped,
                  Contract!Free, Active, Dispatchable
    <3> QED BY <3>1 DEF Contract!Step
  <2>3. CASE IsRequeued(j, error) /\ row[j].status = "running"
    <3>1. Contract!Returned(View(j), View(j)')
      BY <2>3 DEF IsRequeued, SameWork, View, PhaseOf, Contract!Returned,
                  Contract!Free, Dispatchable
    <3> QED BY <3>1 DEF Contract!Step
  <2> QED BY <2>1, <2>2, <2>3
<1>8. CASE Deletes(j)
  <2>1. /\ row[j].status \in Terminal /\ row'[j].status = "deleted"
        /\ row'[j].attempts = 0 /\ row'[j].leaseOwner = None
    BY <1>8 DEF Deletes, Deletable, Blank
  <2>2. Contract!Forgotten(View(j), View(j)')
    BY <2>1 DEF View, PhaseOf, Contract!Forgotten, Contract!Free, Terminal, Dispatchable
  <2> QED BY <2>2 DEF Contract!Step
<1> QED
  BY <1>2, <1>3, <1>4, <1>5, <1>6, <1>7, <1>8 DEF RowStep

\* The ledger implements JobContract: one holder at a time, no more attempts
\* than allowed, success only from within an attempt, outcomes that are final.
THEOREM LedgerImplementsContract == Spec => KeepsContract
<1>1. Init => Contract!Init
  <2> SUFFICES ASSUME Init PROVE Contract!Init
    OBVIOUS
  <2>1. ASSUME NEW j \in Job
        PROVE  /\ PhaseOf(row[j].status) = "unknown"
               /\ row[j].attempts = 0 /\ row[j].leaseOwner = None
    BY DEF Init, Blank, PhaseOf, Dispatchable
  <2> QED BY <2>1 DEF Contract!Init, Contract!Free
<1>2. ASSUME RowsInv, RowsInv', [Next]_vars
      PROVE  Contract!Next
  <2>1. \A j \in Job : RowStep(j)
    BY <1>2, StepsOfRows DEF RowsInv, RowsStep, TypeOK
  <2>2. \A j \in Job : View(j)' = View(j) \/ Contract!Step(View(j), View(j)')
    BY <1>2, <2>1, RowStepsKeepContract
  <2>3. ASSUME NEW j \in Job PROVE View(j)' \in Contract!State
    <3>1. row'[j] \in Row
      BY <1>2 DEF RowsInv, TypeOK
    <3> QED BY <3>1 DEF View, PhaseOf, Row, Status, Active, Terminal, Dispatchable,
                        Contract!State, Contract!Phase
  <2> QED BY <2>2, <2>3 DEF View, Contract!Next
<1>3. RowsInv /\ RowsInv' /\ [Next]_vars => [Contract!Next]_([j \in Job |->
        [phase |-> PhaseOf(row[j].status), attempt |-> row[j].attempts,
         holder |-> row[j].leaseOwner]])
  BY <1>2
<1> QED BY <1>1, <1>3, RowsInvAlways, PTL DEF Spec, KeepsContract, Contract!Spec
=============================================================================
