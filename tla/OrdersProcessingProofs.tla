----------------------- MODULE OrdersProcessingProofs -----------------------
(***************************************************************************)
(* Proofs about OrdersProcessing for every value of its constants.          *)
(*                                                                          *)
(* Two locks carry the argument.  Only the holder of the order lock works    *)
(* (OneSession), so what a session read of the plan, the orders and the      *)
(* source is still so when it commits (Working).  And whoever holds the row  *)
(* of a job owns its running attempt (RowLocks), so what a session commits   *)
(* is the work of that attempt, whatever its lease became meanwhile.         *)
(***************************************************************************)
EXTENDS OrdersProcessing, FiniteSetTheorems, WellFoundedInduction, TLAPS

Pcs == InSession \cup {"idle", "failing", "killed", "end"}

Statuses == Dispatchable \cup Terminal \cup {"absent", "running"}

LedgerRow ==
    [status : Statuses, attempt : 0..MaxAttempts, owner : Run \cup {None},
     live : BOOLEAN, late : BOOLEAN, progress : Nat]

Plan == [state : {"absent", "pending", "planned"}, rows : Seq(Row), next : Nat \ {0},
         deferred : SUBSET Pair]

OrderRow == [job : Job \cup {None}, version : Version, quantity : Quantity \cup {0}]

Execution ==
    [pc : Pcs, job : Job \cup {None}, lost : BOOLEAN, outcome : {"none", "retry", "fail"},
     rows : Seq(Row), deferred : SUBSET Pair]

Typed ==
    /\ ledger \in [Job -> LedgerRow]
    /\ rowLock \in [Job -> Run \cup {None}]
    /\ spec \in [Job -> Plan]
    /\ orderLock \in Run \cup {None}
    /\ source \in [Pair -> Version]
    /\ stock \in Nat
    /\ order \in [Pair -> OrderRow]
    /\ standby \in [Pair -> Nat]
    /\ completed \subseteq Job
    /\ run \in [Run -> Execution]

Committing == {"plan_commit", "apply_commit", "finish_commit"}

OneSession == \A r \in Run : run[r].pc \in InSession => orderLock = r

RowLocks ==
    /\ \A r \in Run : run[r].pc \in Committing => rowLock[run[r].job] = r
    /\ \A j \in Job, r \in Run : rowLock[j] = r =>
         /\ run[r].job = j /\ run[r].pc \in Committing \cup {"killed"}
         /\ ledger[j].status = "running" /\ ledger[j].owner = r

\* What a session knows of its job, from what it has read under the order lock.
WorkingAt(e) ==
    /\ e.pc \in InSession \cup {"failing"} => e.job \in Job
    /\ e.pc \in InSession \ {"claim"} => ledger[e.job].status # "absent"
    /\ e.pc \in {"plan_cas", "plan_commit"} =>
         /\ spec[e.job].state = "pending"
         /\ \A p \in e.deferred : ~HasOrder(p)
    /\ e.pc \in {"apply", "apply_cas", "apply_commit"} => spec[e.job].state = "planned"
    /\ e.pc \in {"apply_cas", "apply_commit"} =>
         /\ e.rows = NextChunk(e.job) /\ ~Complete(e.job)
         /\ \A i \in DOMAIN e.rows :
              ~HasOrder(e.rows[i].pair) /\ source[e.rows[i].pair] = e.rows[i].version
    /\ e.pc \in {"finish", "finish_commit"} => Complete(e.job)

Working == \A r \in Run : WorkingAt(run[r])

\* A plan, and the ledger row it belongs to.
PlanOf(j) ==
    /\ spec[j].next <= Len(spec[j].rows) + 1
    /\ spec[j].state # "planned" => spec[j].rows = <<>> /\ spec[j].deferred = {}
    /\ spec[j].state = "absent" <=> ledger[j].status = "absent"
    /\ ledger[j].progress = Applied(j)
    /\ ledger[j].status = "succeeded" <=> j \in completed
    /\ ledger[j].status = "succeeded" => Complete(j)
    /\ ledger[j].owner # None => ledger[j].status = "running"
    /\ ledger[j].status = "absent" => ledger[j].attempt = 0

Plans == \A j \in Job : PlanOf(j)

\* The orders of j, by the ordinal of the row that made them.
OrdersOf(j) ==
    /\ \A p \in Pair : order[p].job = j <=> \E i \in 1..Applied(j) : spec[j].rows[i].pair = p
    /\ \A i \in 1..Applied(j) : order[spec[j].rows[i].pair].version = spec[j].rows[i].version

Orders == \A j \in Job : OrdersOf(j)

ProcessingInv == Typed /\ OneSession /\ RowLocks /\ Working /\ Plans /\ Orders

Standbys ==
    \A p \in Pair : standby[p] > 0 => ~HasOrder(p)

\* The jobs that left p on standby.
Deferring(p) == {j \in Job : p \in spec[j].deferred}

-----------------------------------------------------------------------------
(* Locks. *)

LEMMA PcsShown ==
    /\ InSession \subseteq Pcs /\ Committing \subseteq InSession
    /\ "idle" \in Pcs /\ "failing" \in Pcs /\ "killed" \in Pcs /\ "end" \in Pcs
    /\ {"idle", "failing", "killed", "end"} \cap InSession = {}
  BY DEF Pcs, InSession, Committing

\* The next chunk of a plan that is not complete: the rows at the checkpoint.
LEMMA NextChunkOf ==
    ASSUME NEW j \in Job, spec[j] \in Plan, PlanOf(j), ~Complete(j), spec[j].state = "planned"
    PROVE  LET rows == NextChunk(j)
           IN  /\ rows \in Seq(Row)
               /\ Len(rows) \in Nat \ {0}
               /\ spec[j].next + Len(rows) <= Len(spec[j].rows) + 1
               /\ \A i \in 1..Len(rows) : rows[i] = spec[j].rows[spec[j].next + i - 1]
<1> DEFINE s == spec[j].rows
           a == spec[j].next
           b == IF a + ChunkSize - 1 <= Len(s) THEN a + ChunkSize - 1 ELSE Len(s)
           rows == NextChunk(j)
<1>1. s \in Seq(Row) /\ a \in Nat \ {0} /\ a <= Len(s) + 1 /\ Len(s) \in Nat
  BY DEF Plan, PlanOf
<1>2. a <= Len(s)
  <2>1. a - 1 # Len(s)
    BY DEF Complete, Applied
  <2> QED BY <1>1, <2>1
<1>3. b \in a..Len(s)
  BY <1>1, <1>2, ProcessingAssumption
<1>4. rows = SubSeq(s, a, b)
  BY DEF NextChunk
<1> HIDE DEF s, a, b, rows
<1>5. /\ rows \in Seq(Row) /\ Len(rows) = b - a + 1
      /\ \A i \in 1..(b - a + 1) : rows[i] = s[a + i - 1]
  BY <1>1, <1>3, <1>4
<1>6. Len(rows) \in Nat \ {0} /\ a + Len(rows) <= Len(s) + 1
  BY <1>1, <1>3, <1>5
<1>7. \A i \in 1..Len(rows) : rows[i] = s[a + i - 1]
  BY <1>5, Zenon
<1> QED BY <1>5, <1>6, <1>7, Zenon DEF s, a, rows

-----------------------------------------------------------------------------
(* What a transition of the ledger alone leaves as it was. *)

LedgerStep(j) ==
    /\ ledger'[j].progress = ledger[j].progress
    /\ ledger'[j].status = "absent" <=> ledger[j].status = "absent"
    /\ ledger'[j].status = "succeeded" <=> ledger[j].status = "succeeded"
    /\ ledger'[j].owner # None => ledger'[j].status = "running"
    /\ ledger'[j].status = "absent" => ledger'[j].attempt = 0

LEMMA LedgerUnchanged ==
    ASSUME Plans, ledger' = ledger
    PROVE  \A j \in Job : LedgerStep(j)
  BY DEF Plans, PlanOf, LedgerStep

\* Every step but the commits of a session and the writes of others.
LEMMA Advances ==
    ASSUME ProcessingInv, Typed', OneSession', RowLocks',
           UNCHANGED <<spec, source, order, completed>>,
           \A j \in Job : LedgerStep(j),
           \A q \in Run : WorkingAt(run'[q])
    PROVE  ProcessingInv'
<1>1. Plans'
  BY DEF ProcessingInv, Plans, PlanOf, LedgerStep, Applied, Complete
<1>2. Orders'
  BY DEF ProcessingInv, Orders, OrdersOf, Applied
<1>3. Working'
  <2> SUFFICES ASSUME NEW q \in Run PROVE WorkingAt(run[q])'
    BY DEF Working
  <2> DEFINE e == run'[q]
  <2>1. WorkingAt(e)
    OBVIOUS
  <2>2. e.job \in Job => LedgerStep(e.job)
    OBVIOUS
  <2>3. e.pc \in InSession => e.job \in Job
    BY <2>1 DEF WorkingAt
  <2> QED BY <2>1, <2>2, <2>3
          DEF WorkingAt, LedgerStep, NextChunk, Complete, Applied, HasOrder
<1> QED BY <1>1, <1>2, <1>3 DEF ProcessingInv

\* A session moves on, and nothing else.
LEMMA Moves ==
    ASSUME ProcessingInv, NEW r \in Run, NEW e \in Execution,
           run' = [run EXCEPT ![r] = e], WorkingAt(e),
           rowLock' \in [Job -> Run \cup {None}], orderLock' \in Run \cup {None},
           OneSession', RowLocks',
           UNCHANGED <<ledger, spec, source, stock, order, standby, completed>>
    PROVE  ProcessingInv'
<1>1. Typed'
  BY DEF ProcessingInv, Typed
<1>2. \A q \in Run : WorkingAt(run'[q])
  <2> SUFFICES ASSUME NEW q \in Run PROVE WorkingAt(run'[q])
    OBVIOUS
  <2>1. run'[q] = IF q = r THEN e ELSE run[q]
    BY DEF ProcessingInv, Typed
  <2>2. WorkingAt(run[q])
    BY DEF ProcessingInv, Working
  <2>3. CASE q = r
    <3>1. run'[q] = e
      BY <2>1, <2>3
    <3> QED BY <3>1
  <2>4. CASE q # r
    <3>1. run'[q] = run[q]
      BY <2>1, <2>4
    <3> QED BY <2>2, <3>1
  <2> QED BY <2>3, <2>4
<1>3. \A j \in Job : LedgerStep(j)
  BY LedgerUnchanged DEF ProcessingInv
<1> QED BY <1>1, <1>2, <1>3, Advances

\* The session ends, with all its locks.
LEMMA Leaves ==
    ASSUME ProcessingInv, NEW r \in Run, NEW e \in Execution, Release(r, e),
           \/ e.pc = "end"
           \/ e.pc = "failing" /\ e.job \in Job,
           UNCHANGED <<ledger, spec, source, stock, order, standby, completed>>
    PROVE  ProcessingInv'
<1>1. /\ run' = [run EXCEPT ![r] = e]
      /\ run' \in [Run -> Execution]
      /\ \A q \in Run : run'[q] = IF q = r THEN e ELSE run[q]
      /\ rowLock' \in [Job -> Run \cup {None}]
      /\ \A j \in Job : rowLock'[j] = IF rowLock[j] = r THEN None ELSE rowLock[j]
      /\ orderLock' = IF orderLock = r THEN None ELSE orderLock
      /\ orderLock' \in Run \cup {None}
  BY DEF Release, ProcessingInv, Typed
<1>2. e.pc \notin InSession /\ e.pc \notin Committing
  BY DEF InSession, Committing
<1>3. OneSession'
  BY <1>1, <1>2 DEF ProcessingInv, OneSession
<1>4. RowLocks'
  <2>1. ASSUME NEW q \in Run, run'[q].pc \in Committing
        PROVE  rowLock'[run'[q].job] = q
    <3>1. q # r /\ run'[q] = run[q]
      BY <1>1, <1>2, <2>1
    <3>2. run[q].job \in Job
      <4>1. run[q].pc \in InSession
        BY <2>1, <3>1, PcsShown
      <4> QED BY <4>1 DEF ProcessingInv, Working, WorkingAt
    <3>3. rowLock[run[q].job] = q
      BY <2>1, <3>1 DEF ProcessingInv, RowLocks
    <3> QED BY <1>1, <3>1, <3>2, <3>3
  <2>2. ASSUME NEW j \in Job, NEW q \in Run, rowLock'[j] = q
        PROVE  /\ run'[q].job = j /\ run'[q].pc \in Committing \cup {"killed"}
               /\ ledger'[j].status = "running" /\ ledger'[j].owner = q
    <3>1. rowLock[j] = q /\ q # r
      BY <1>1, <2>2, ProcessingAssumption
    <3> QED BY <1>1, <3>1 DEF ProcessingInv, RowLocks
  <2> QED BY <2>1, <2>2 DEF RowLocks
<1>5. WorkingAt(e)
  BY <1>2 DEF WorkingAt, InSession
<1> QED BY <1>1, <1>3, <1>4, <1>5, Moves

\* A move that takes and leaves no lock.
LEMMA MovesWithin ==
    ASSUME ProcessingInv, NEW r \in Run, NEW e \in Execution,
           run' = [run EXCEPT ![r] = e], WorkingAt(e),
           run[r].pc \notin Committing \cup {"killed"}, e.pc \notin Committing,
           e.pc \in InSession => run[r].pc \in InSession,
           UNCHANGED <<ledger, rowLock, spec, orderLock, source, stock, order, standby,
                       completed>>
    PROVE  ProcessingInv'
<1>1. \A q \in Run : run'[q] = IF q = r THEN e ELSE run[q]
  BY DEF ProcessingInv, Typed
<1>2. OneSession'
  BY <1>1 DEF ProcessingInv, OneSession
<1>3. RowLocks'
  BY <1>1 DEF ProcessingInv, RowLocks
<1>4. rowLock' \in [Job -> Run \cup {None}] /\ orderLock' \in Run \cup {None}
  BY DEF ProcessingInv, Typed
<1> QED BY <1>2, <1>3, <1>4, Moves

\* The compare-and-set takes the row of the job for the owner of its attempt.
LEMMA TakesRow ==
    ASSUME ProcessingInv, NEW r \in Run, NEW next \in Committing, Cas(r, next),
           run[r].pc \in InSession \ Committing,
           WorkingAt([run[r] EXCEPT !.pc = next])
    PROVE  ProcessingInv'
<1> DEFINE e == [run[r] EXCEPT !.pc = next]
           j == run[r].job
<1>1. run[r] \in Execution /\ j \in Job
  BY DEF ProcessingInv, Typed, Working, WorkingAt
<1>2. e \in Execution /\ e.pc = next /\ e.job = j
  BY <1>1, PcsShown DEF Execution
<1>3. run' = [run EXCEPT ![r] = e]
  BY DEF Cas, Goto, ProcessingInv, Typed
<1>4. WorkingAt(e)
  OBVIOUS
<1> HIDE DEF e
<1>5. \A q \in Run : run'[q] = IF q = r THEN e ELSE run[q]
  BY <1>3 DEF ProcessingInv, Typed
<1>6. /\ rowLock' \in [Job -> Run \cup {None}]
      /\ \A k \in Job : rowLock'[k] = IF k = j THEN r ELSE rowLock[k]
      /\ rowLock[j] \in {None, r}
      /\ ledger[j].status = "running" /\ ledger[j].owner = r
      /\ UNCHANGED <<ledger, spec, orderLock, source, stock, order, standby, completed>>
  BY <1>1 DEF Cas, RowIsFree, HoldsLease, data, ProcessingInv, Typed
<1> HIDE DEF j
<1>7. OneSession'
  BY <1>5, <1>6 DEF ProcessingInv, OneSession
<1>8. RowLocks'
  <2>1. ASSUME NEW q \in Run, run'[q].pc \in Committing
        PROVE  rowLock'[run'[q].job] = q
    <3>1. CASE q = r
      BY <1>1, <1>2, <1>5, <1>6, <3>1
    <3>2. CASE q # r
      <4>1. run'[q] = run[q] /\ rowLock[run[q].job] = q
        BY <1>5, <2>1, <3>2 DEF ProcessingInv, RowLocks
      <4>2. run[q].job \in Job
        <5>1. run[q].pc \in InSession
          BY <2>1, <4>1, PcsShown
        <5> QED BY <5>1 DEF ProcessingInv, Working, WorkingAt
      <4>3. run[q].job # j
        BY <1>6, <3>2, <4>1, ProcessingAssumption
      <4> QED BY <1>6, <4>1, <4>2, <4>3
    <3> QED BY <3>1, <3>2
  <2>2. ASSUME NEW k \in Job, NEW q \in Run, rowLock'[k] = q
        PROVE  /\ run'[q].job = k /\ run'[q].pc \in Committing \cup {"killed"}
               /\ ledger'[k].status = "running" /\ ledger'[k].owner = q
    <3>1. CASE k = j
      BY <1>2, <1>5, <1>6, <2>2, <3>1
    <3>2. CASE k # j
      <4>1. rowLock[k] = q
        BY <1>6, <2>2, <3>2
      <4>2. /\ run[q].job = k /\ run[q].pc \in Committing \cup {"killed"}
            /\ ledger[k].status = "running" /\ ledger[k].owner = q
        BY <4>1 DEF ProcessingInv, RowLocks
      <4>3. q # r
        BY <3>2, <4>2 DEF j
      <4> QED BY <1>5, <1>6, <4>2, <4>3
    <3> QED BY <3>1, <3>2
  <2> QED BY <2>1, <2>2 DEF RowLocks
<1>9. orderLock' \in Run \cup {None}
  BY <1>6 DEF ProcessingInv, Typed
<1> QED BY <1>2, <1>3, <1>4, <1>6, <1>7, <1>8, <1>9, Moves

-----------------------------------------------------------------------------
(* The steps of a session that commit nothing. *)

LEMMA SessionTyped ==
    ASSUME ProcessingInv, NEW r \in Run
    PROVE  /\ run[r] \in Execution /\ WorkingAt(run[r])
           /\ run[r].pc \in InSession \cup {"failing"} => run[r].job \in Job
           /\ Fresh \in Execution
           /\ \A pc \in Pcs, j \in Job \cup {None}, outcome \in {"none", "retry", "fail"} :
                LET e == [Fresh EXCEPT !.pc = pc, !.job = j, !.outcome = outcome]
                IN  e \in Execution /\ e.pc = pc /\ e.job = j
<1>1. run[r] \in Execution /\ WorkingAt(run[r])
  BY DEF ProcessingInv, Typed, Working
<1>2. Fresh \in Execution
  <2>1. <<>> \in Seq(Row) /\ {} \in SUBSET Pair
    OBVIOUS
  <2> QED BY <2>1, PcsShown DEF Fresh, Execution
<1>3. ASSUME NEW pc \in Pcs, NEW j \in Job \cup {None}, NEW outcome \in {"none", "retry", "fail"}
      PROVE  LET e == [Fresh EXCEPT !.pc = pc, !.job = j, !.outcome = outcome]
             IN  e \in Execution /\ e.pc = pc /\ e.job = j
  BY <1>2 DEF Execution
<1> QED BY <1>1, <1>2, <1>3 DEF WorkingAt

LEMMA EndsSession ==
    ASSUME ProcessingInv, NEW r \in Run,
           \/ Leave(r)
           \/ /\ run[r].pc \in InSession
              /\ \E outcome \in {"retry", "fail"} : Fails(r, outcome),
           UNCHANGED <<ledger, spec, source, stock, order, standby, completed>>
    PROVE  ProcessingInv'
<1>1. CASE Leave(r)
  <2> DEFINE e == [Fresh EXCEPT !.pc = "end"]
  <2>1. e \in Execution /\ e.pc = "end"
    BY SessionTyped, PcsShown DEF Execution
  <2>2. Release(r, e)
    BY <1>1 DEF Leave
  <2> HIDE DEF e
  <2> QED BY <2>1, <2>2, Leaves
<1>2. ASSUME NEW outcome \in {"retry", "fail"}, Fails(r, outcome), run[r].pc \in InSession
      PROVE  ProcessingInv'
  <2> DEFINE e == [Fresh EXCEPT !.pc = "failing", !.job = run[r].job, !.outcome = outcome]
  <2>1. e \in Execution /\ e.pc = "failing" /\ e.job \in Job
    BY <1>2, SessionTyped, PcsShown DEF Execution
  <2>2. Release(r, e)
    BY <1>2 DEF Fails
  <2> HIDE DEF e
  <2> QED BY <2>1, <2>2, Leaves
<1> QED BY <1>1, <1>2

LEMMA Entering ==
    ASSUME ProcessingInv, NEW r \in Run, NEW j \in Job, EnterSession(r, j)
    PROVE  ProcessingInv'
<1> DEFINE e == [run[r] EXCEPT !.pc = "claim", !.job = j]
<1>1. e \in Execution /\ e.pc = "claim" /\ e.job = j
  <2>1. run[r] \in Execution
    BY SessionTyped
  <2>2. "claim" \in Pcs
    BY DEF Pcs, InSession
  <2> QED BY <2>1, <2>2 DEF Execution
<1>2. /\ run' = [run EXCEPT ![r] = e]
      /\ \A q \in Run : run'[q] = IF q = r THEN e ELSE run[q]
      /\ run[r].pc = "idle" /\ orderLock = None /\ orderLock' = r
      /\ UNCHANGED <<ledger, rowLock, spec, source, stock, order, standby, completed>>
  BY DEF EnterSession, data, ProcessingInv, Typed
<1> HIDE DEF e
<1>3. WorkingAt(e)
  BY <1>1 DEF WorkingAt
<1>4. OneSession'
  BY <1>2, ProcessingAssumption DEF ProcessingInv, OneSession
<1>5. RowLocks'
  BY <1>1, <1>2 DEF ProcessingInv, RowLocks, Committing
<1>6. rowLock' \in [Job -> Run \cup {None}] /\ orderLock' \in Run \cup {None}
  BY <1>2 DEF ProcessingInv, Typed
<1> QED BY <1>1, <1>2, <1>3, <1>4, <1>5, <1>6, Moves

LEMMA Crashing ==
    ASSUME ProcessingInv, NEW r \in Run, Crash(r)
    PROVE  ProcessingInv'
<1> DEFINE e == [Fresh EXCEPT !.pc = "killed", !.job = run[r].job]
<1>1. e \in Execution /\ e.pc = "killed" /\ e.job = run[r].job
  BY SessionTyped, PcsShown DEF Execution
<1>2. /\ run' = [run EXCEPT ![r] = e]
      /\ \A q \in Run : run'[q] = IF q = r THEN e ELSE run[q]
      /\ UNCHANGED <<ledger, rowLock, spec, orderLock, source, stock, order, standby,
                     completed>>
  BY DEF Crash, data, ProcessingInv, Typed
<1> HIDE DEF e
<1>3. WorkingAt(e)
  BY <1>1, PcsShown DEF WorkingAt, InSession
<1>4. OneSession'
  BY <1>1, <1>2, PcsShown DEF ProcessingInv, OneSession
<1>5. RowLocks'
  BY <1>1, <1>2, PcsShown DEF ProcessingInv, RowLocks
<1>6. rowLock' \in [Job -> Run \cup {None}] /\ orderLock' \in Run \cup {None}
  BY <1>2 DEF ProcessingInv, Typed
<1> QED BY <1>1, <1>2, <1>3, <1>4, <1>5, <1>6, Moves

\* The rows of a plan number at most the pairs.
LEMMA RowsForShown ==
    ASSUME NEW S \in SUBSET Pair, NEW rows \in RowsFor(S)
    PROVE  rows \in Seq(Row)
<1>1. IsFiniteSet(S) /\ Cardinality(S) \in Nat
  BY ProcessingAssumption, FS_Subset, FS_CardinalityType
<1>2. rows \in [1..Cardinality(S) -> Row]
  BY DEF RowsFor
<1> HIDE DEF Row
<1> QED BY <1>1, <1>2

LEMMA Planning ==
    ASSUME ProcessingInv, NEW r \in Run, PlanExists(r) \/ BuildPlan(r)
    PROVE  ProcessingInv'
<1>1. run[r] \in Execution /\ WorkingAt(run[r]) /\ run[r].pc = "plan" /\ run[r].job \in Job
  BY SessionTyped DEF PlanExists, BuildPlan, InSession
<1>2. UNCHANGED <<ledger, rowLock, spec, orderLock, source, stock, order, standby, completed>>
  BY DEF PlanExists, BuildPlan, data
<1>3. CASE PlanExists(r)
  <2> DEFINE pc == IF Complete(run[r].job) THEN "finish" ELSE "apply"
             e == [run[r] EXCEPT !.pc = pc]
  <2>1. pc \in Pcs /\ pc \in InSession \ Committing
    BY DEF Pcs, InSession, Committing
  <2>2. e \in Execution /\ e.pc = pc /\ e.job = run[r].job
    BY <1>1, <2>1 DEF Execution
  <2>3. run' = [run EXCEPT ![r] = e] /\ spec[run[r].job].state = "planned"
    BY <1>3 DEF PlanExists, Goto, ProcessingInv, Typed
  <2> HIDE DEF e
  <2>4. WorkingAt(e)
    BY <1>1, <2>2, <2>3 DEF WorkingAt, InSession
  <2> HIDE DEF pc
  <2> QED BY <1>1, <1>2, <2>1, <2>2, <2>3, <2>4, MovesWithin DEF InSession, Committing
<1>4. CASE BuildPlan(r)
  <2>0. PICK S \in SUBSET Eligible :
          \E rows \in RowsFor(S) :
            run' = [run EXCEPT ![r] = [run[r] EXCEPT !.pc = "plan_cas", !.rows = rows,
                                                     !.deferred = Eligible \ S]]
    BY <1>4 DEF BuildPlan
  <2>1. PICK rows \in RowsFor(S) :
          run' = [run EXCEPT ![r] = [run[r] EXCEPT !.pc = "plan_cas", !.rows = rows,
                                                   !.deferred = Eligible \ S]]
    BY <2>0
  <2> DEFINE deferred == Eligible \ S
             e == [run[r] EXCEPT !.pc = "plan_cas", !.rows = rows, !.deferred = deferred]
  <2>2. deferred \in SUBSET Pair /\ \A p \in deferred : ~HasOrder(p)
    BY DEF Eligible
  <2>3. rows \in Seq(Row) /\ "plan_cas" \in Pcs
    <3>1. S \in SUBSET Pair
      BY DEF Eligible
    <3> QED BY <3>1, RowsForShown DEF Pcs, InSession
  <2>4. run' = [run EXCEPT ![r] = e] /\ spec[run[r].job].state = "pending"
    BY <1>4, <2>1 DEF BuildPlan
  <2> HIDE DEF deferred
  <2>5. /\ e \in Execution /\ e.pc = "plan_cas" /\ e.job = run[r].job
        /\ e.deferred = deferred
    BY <1>1, <2>2, <2>3 DEF Execution
  <2> HIDE DEF e
  <2>6. WorkingAt(e)
    BY <1>1, <2>2, <2>4, <2>5 DEF WorkingAt, InSession
  <2> QED BY <1>1, <1>2, <2>4, <2>5, <2>6, MovesWithin DEF InSession, Committing
<1> QED BY <1>3, <1>4

LEMMA Applying ==
    ASSUME ProcessingInv, NEW r \in Run, ApplyChunk(r)
    PROVE  ProcessingInv'
<1> DEFINE j == run[r].job
<1>1. run[r] \in Execution /\ WorkingAt(run[r]) /\ run[r].pc = "apply" /\ j \in Job
  BY SessionTyped DEF ApplyChunk, InSession
<1>2. UNCHANGED <<ledger, spec, source, stock, order, standby, completed>>
  BY DEF ApplyChunk, data
<1>3. CASE Complete(j) /\ Goto(r, "finish") /\ UNCHANGED <<rowLock, orderLock>>
  <2> DEFINE e == [run[r] EXCEPT !.pc = "finish"]
  <2>1. e \in Execution /\ e.pc = "finish" /\ e.job = j
    BY <1>1 DEF Execution, Pcs, InSession
  <2>2. run' = [run EXCEPT ![r] = e]
    BY <1>3 DEF Goto, ProcessingInv, Typed
  <2> HIDE DEF e
  <2>3. WorkingAt(e)
    BY <1>1, <1>3, <2>1 DEF WorkingAt, InSession
  <2> QED BY <1>1, <1>2, <1>3, <2>1, <2>2, <2>3, MovesWithin DEF InSession, Committing
<1>4. CASE /\ ~Complete(j) /\ StillCurrent(NextChunk(j))
           /\ run' = [run EXCEPT ![r] = [run[r] EXCEPT !.pc = "apply_cas",
                                                       !.rows = NextChunk(j)]]
           /\ UNCHANGED <<rowLock, orderLock>>
  <2> DEFINE rows == NextChunk(j)
             e == [run[r] EXCEPT !.pc = "apply_cas", !.rows = rows]
  <2>1. spec[j].state = "planned" /\ spec[j] \in Plan /\ PlanOf(j)
    BY <1>1 DEF WorkingAt, ProcessingInv, Typed, Plans
  <2>2. rows \in Seq(Row)
    BY <1>1, <1>4, <2>1, NextChunkOf
  <2>3. run' = [run EXCEPT ![r] = e]
    BY <1>4
  <2>4. StillCurrent(rows)
    BY <1>4
  <2>5. rows = NextChunk(j)
    OBVIOUS
  <2> HIDE DEF rows
  <2>6. e \in Execution /\ e.pc = "apply_cas" /\ e.job = j /\ e.rows = rows
    BY <1>1, <2>2 DEF Execution, Pcs, InSession
  <2> HIDE DEF e
  <2>7. WorkingAt(e)
    BY <1>1, <1>4, <2>1, <2>4, <2>5, <2>6 DEF WorkingAt, InSession, StillCurrent
  <2> QED BY <1>1, <1>2, <1>4, <2>3, <2>6, <2>7, MovesWithin DEF InSession, Committing
<1>5. CASE Fails(r, "fail")
  BY <1>1, <1>2, <1>5, EndsSession DEF InSession
<1> QED BY <1>3, <1>4, <1>5 DEF ApplyChunk

LEMMA Taking ==
    ASSUME ProcessingInv, NEW r \in Run, PlanCas(r) \/ ApplyCas(r) \/ FinishCas(r)
    PROVE  ProcessingInv'
<1>1. run[r] \in Execution /\ WorkingAt(run[r])
  BY SessionTyped
<1>2. ASSUME NEW pc \in Committing
      PROVE  LET e == [run[r] EXCEPT !.pc = pc]
             IN  e.pc = pc /\ e.job = run[r].job /\ e.rows = run[r].rows
                 /\ e.deferred = run[r].deferred
  BY <1>1 DEF Execution
<1>3. ASSUME NEW from \in {"plan_cas", "apply_cas", "finish"}, NEW pc \in Committing,
             run[r].pc = from, Cas(r, pc),
             \/ from = "plan_cas" /\ pc = "plan_commit"
             \/ from = "apply_cas" /\ pc = "apply_commit"
             \/ from = "finish" /\ pc = "finish_commit"
      PROVE  ProcessingInv'
  <2> DEFINE e == [run[r] EXCEPT !.pc = pc]
  <2>1. /\ e.pc = pc /\ e.job = run[r].job /\ e.rows = run[r].rows
        /\ e.deferred = run[r].deferred
    BY <1>2
  <2> HIDE DEF e
  <2>2. WorkingAt(e)
    BY <1>1, <1>3, <2>1 DEF WorkingAt, InSession
  <2>3. run[r].pc \in InSession \ Committing
    BY <1>3 DEF InSession, Committing
  <2> QED BY <1>3, <2>2, <2>3, TakesRow DEF e
<1> QED BY <1>3 DEF PlanCas, ApplyCas, FinishCas, Committing

LEMMA Interruptions ==
    ASSUME ProcessingInv, NEW r \in Run,
           \/ LeaseLost(r) \/ ExitSession(r) \/ ServerDropsConnection(r)
           \/ \E outcome \in {"none", "retry", "fail"} : Error(r, outcome)
           \/ KeeperLost(r)
    PROVE  ProcessingInv'
<1>1. CASE \/ LeaseLost(r) \/ ExitSession(r) \/ ServerDropsConnection(r)
           \/ \E outcome \in {"none", "retry", "fail"} : Error(r, outcome)
  <2>1. UNCHANGED <<ledger, spec, source, stock, order, standby, completed>>
    BY <1>1 DEF LeaseLost, ExitSession, ServerDropsConnection, Error, data
  <2>2. \/ Leave(r)
        \/ /\ run[r].pc \in InSession
           /\ \E outcome \in {"retry", "fail"} : Fails(r, outcome)
    BY <1>1 DEF LeaseLost, ExitSession, ServerDropsConnection, Error
  <2> QED BY <2>1, <2>2, EndsSession
<1>2. CASE KeeperLost(r)
  <2> DEFINE e == [run[r] EXCEPT !.lost = TRUE]
  <2>1. run[r] \in Execution /\ WorkingAt(run[r])
    BY SessionTyped
  <2>2. /\ e \in Execution /\ e.pc = run[r].pc /\ e.job = run[r].job
        /\ e.rows = run[r].rows /\ e.deferred = run[r].deferred
    BY <2>1 DEF Execution
  <2>3. run' = [run EXCEPT ![r] = e] /\ run[r].pc \in {"plan", "plan_cas", "apply", "finish"}
    BY <1>2 DEF KeeperLost, ProcessingInv, Typed
  <2> HIDE DEF e
  <2>4. WorkingAt(e)
    BY <2>1, <2>2 DEF WorkingAt
  <2>5. UNCHANGED <<ledger, rowLock, spec, orderLock, source, stock, order, standby,
                    completed>>
    BY <1>2 DEF KeeperLost, data
  <2> QED BY <2>2, <2>3, <2>4, <2>5, MovesWithin DEF InSession, Committing
<1> QED BY <1>1, <1>2

-----------------------------------------------------------------------------
(* Transitions of the ledger. *)

\* A row that a transaction holds keeps its state and its owner.
LEMMA Transitions ==
    ASSUME ProcessingInv, NEW j \in Job, NEW l \in LedgerRow,
           ledger' = [ledger EXCEPT ![j] = l],
           l.progress = ledger[j].progress,
           l.status = "absent" <=> ledger[j].status = "absent",
           l.status = "succeeded" <=> ledger[j].status = "succeeded",
           l.owner # None => l.status = "running",
           l.status = "absent" => l.attempt = 0,
           rowLock[j] # None => l.status = ledger[j].status /\ l.owner = ledger[j].owner,
           run' \in [Run -> Execution],
           \A q \in Run :
              \/ run'[q] = run[q]
              \/ /\ run[q].pc \notin Committing \cup {"killed"}
                 /\ run'[q].pc \notin Committing
                 /\ run'[q].pc \in InSession => run[q].pc \in InSession
                 /\ WorkingAt(run'[q]),
           UNCHANGED <<rowLock, spec, orderLock, source, stock, order, standby, completed>>
    PROVE  ProcessingInv'
<1>1. \A k \in Job : ledger'[k] = IF k = j THEN l ELSE ledger[k]
  BY DEF ProcessingInv, Typed
<1>2. Typed'
  BY DEF ProcessingInv, Typed
<1>3. OneSession'
  BY DEF ProcessingInv, OneSession
<1>4. RowLocks'
  <2>1. ASSUME NEW q \in Run, run'[q].pc \in Committing
        PROVE  rowLock'[run'[q].job] = q
    BY <2>1 DEF ProcessingInv, RowLocks
  <2>2. ASSUME NEW k \in Job, NEW q \in Run, rowLock'[k] = q
        PROVE  /\ run'[q].job = k /\ run'[q].pc \in Committing \cup {"killed"}
               /\ ledger'[k].status = "running" /\ ledger'[k].owner = q
    <3>1. /\ run[q].job = k /\ run[q].pc \in Committing \cup {"killed"}
          /\ ledger[k].status = "running" /\ ledger[k].owner = q /\ rowLock[k] # None
      BY <2>2, ProcessingAssumption DEF ProcessingInv, RowLocks
    <3>2. run'[q] = run[q]
      BY <3>1
    <3> QED BY <1>1, <3>1, <3>2
  <2> QED BY <2>1, <2>2 DEF RowLocks
<1>5. \A k \in Job : LedgerStep(k)
  <2>1. \A k \in Job : PlanOf(k)
    BY DEF ProcessingInv, Plans
  <2> QED BY <1>1, <2>1 DEF LedgerStep, PlanOf
<1>6. \A q \in Run : WorkingAt(run'[q])
  <2> SUFFICES ASSUME NEW q \in Run PROVE WorkingAt(run'[q])
    OBVIOUS
  <2>1. WorkingAt(run[q])
    BY DEF ProcessingInv, Working
  <2>2. CASE run'[q] = run[q]
    BY <2>1, <2>2
  <2> QED BY <2>2
<1> QED BY <1>2, <1>3, <1>4, <1>5, <1>6, Advances

LEMMA Claiming ==
    ASSUME ProcessingInv, NEW r \in Run, Claim(r)
    PROVE  ProcessingInv'
<1> DEFINE j == run[r].job
<1>1. run[r] \in Execution /\ run[r].pc = "claim" /\ j \in Job /\ ledger[j] \in LedgerRow
  BY SessionTyped DEF Claim, InSession, ProcessingInv, Typed
<1>2. UNCHANGED <<spec, source, stock, order, standby, completed>>
  BY DEF Claim, data
<1>3. CASE Leave(r) /\ UNCHANGED ledger
  BY <1>2, <1>3, EndsSession
<1>4. CASE /\ Claimable(j) /\ rowLock[j] = None
           /\ ledger' = [ledger EXCEPT ![j] =
                          [ledger[j] EXCEPT !.status = "running", !.owner = r, !.live = TRUE,
                                            !.attempt = ledger[j].attempt + 1]]
           /\ Goto(r, "plan")
           /\ UNCHANGED <<rowLock, orderLock>>
  <2> DEFINE attempt == ledger[j].attempt + 1
             l == [ledger[j] EXCEPT !.status = "running", !.owner = r, !.live = TRUE,
                                    !.attempt = attempt]
             e == [run[r] EXCEPT !.pc = "plan"]
  <2>1. attempt \in 0..MaxAttempts
    BY <1>1, <1>4, ProcessingAssumption DEF Claimable, LedgerRow
  <2>2. ledger' = [ledger EXCEPT ![j] = l]
    BY <1>4
  <2> HIDE DEF attempt
  <2>3. /\ l \in LedgerRow /\ l.progress = ledger[j].progress
        /\ l.status = "running" /\ l.owner = r
    BY <1>1, <2>1 DEF LedgerRow, Statuses
  <2>4. ledger[j].status \in Dispatchable
    BY <1>4 DEF Claimable
  <2>5. e \in Execution /\ e.pc = "plan" /\ e.job = j
    BY <1>1 DEF Execution, Pcs, InSession
  <2>6. run' = [run EXCEPT ![r] = e]
    BY <1>4 DEF Goto, ProcessingInv, Typed
  <2> HIDE DEF l, e
  <2>7. /\ run' \in [Run -> Execution]
        /\ \A q \in Run : run'[q] = IF q = r THEN e ELSE run[q]
    BY <2>5, <2>6 DEF ProcessingInv, Typed
  <2>8. WorkingAt(e)
    BY <1>1, <2>4, <2>5 DEF WorkingAt, Dispatchable, InSession
  <2>9. \A q \in Run :
          \/ run'[q] = run[q]
          \/ /\ run[q].pc \notin Committing \cup {"killed"}
             /\ run'[q].pc \notin Committing
             /\ run'[q].pc \in InSession => run[q].pc \in InSession
             /\ WorkingAt(run'[q])
    <3> SUFFICES ASSUME NEW q \in Run, q = r
                 PROVE  /\ run[q].pc \notin Committing \cup {"killed"}
                        /\ run'[q].pc \notin Committing
                        /\ run'[q].pc \in InSession => run[q].pc \in InSession
                        /\ WorkingAt(run'[q])
      BY <2>7
    <3>1. run'[q] = e
      BY <2>7
    <3> QED BY <1>1, <2>5, <2>8, <3>1 DEF Committing, InSession
  <2>10. /\ l.status # "absent" /\ ledger[j].status # "absent"
         /\ l.status # "succeeded" /\ ledger[j].status # "succeeded"
    BY <2>3, <2>4 DEF Dispatchable
  <2> QED BY <1>1, <1>2, <1>4, <2>2, <2>3, <2>7, <2>9, <2>10, Transitions
<1> QED BY <1>1, <1>3, <1>4 DEF Claim

\* The sweep, the end of an attempt, the end of its lease and of the time it has.
LEMMA LedgerMoves ==
    ASSUME ProcessingInv, NEW j \in Job,
           \/ /\ LeaseRunsOut(j) \/ DeadlinePasses(j) \/ Sweep(j)
              /\ run' = run
           \/ \E r \in Run : Transition(r) /\ j = run[r].job
    PROVE  ProcessingInv'
<1>1. ledger[j] \in LedgerRow /\ PlanOf(j)
  BY DEF ProcessingInv, Typed, Plans
<1>2. UNCHANGED <<rowLock, spec, orderLock, source, stock, order, standby, completed>>
  BY DEF LeaseRunsOut, DeadlinePasses, Sweep, Transition, data
<1>3. run' \in [Run -> Execution] /\
      \A q \in Run :
          \/ run'[q] = run[q]
          \/ /\ run[q].pc \notin Committing \cup {"killed"}
             /\ run'[q].pc \notin Committing
             /\ run'[q].pc \in InSession => run[q].pc \in InSession
             /\ WorkingAt(run'[q])
  <2>1. CASE run' = run
    BY <2>1 DEF ProcessingInv, Typed
  <2>2. ASSUME NEW r \in Run, Transition(r) PROVE <1>3!1 /\ <1>3!2
    <3> DEFINE e == [Fresh EXCEPT !.pc = "end"]
    <3>1. e \in Execution /\ e.pc = "end"
      BY SessionTyped, PcsShown DEF Execution
    <3>2. run' = [run EXCEPT ![r] = e] /\ run[r].pc = "failing"
      BY <2>2 DEF Transition
    <3> HIDE DEF e
    <3>3. /\ run' \in [Run -> Execution]
          /\ \A q \in Run : run'[q] = IF q = r THEN e ELSE run[q]
      BY <3>1, <3>2 DEF ProcessingInv, Typed
    <3>4. WorkingAt(e)
      BY <3>1 DEF WorkingAt, InSession
    <3> SUFFICES ASSUME NEW q \in Run, q = r
                 PROVE  /\ run[q].pc \notin Committing \cup {"killed"}
                        /\ run'[q].pc \notin Committing
                        /\ run'[q].pc \in InSession => run[q].pc \in InSession
                        /\ WorkingAt(run'[q])
      BY <3>3
    <3>5. run'[q] = e
      BY <3>3
    <3> QED BY <3>1, <3>2, <3>4, <3>5 DEF Committing, InSession
  <2> QED BY <2>1, <2>2
<1>4. CASE ledger' = ledger
  <2>1. ledger' = [ledger EXCEPT ![j] = ledger[j]]
    BY <1>4 DEF ProcessingInv, Typed
  <2> DEFINE l == ledger[j]
  <2>2. ledger' = [ledger EXCEPT ![j] = l]
    BY <2>1
  <2> QED BY <1>1, <1>2, <1>3, <2>2, Transitions DEF PlanOf
<1>5. ASSUME NEW status \in {"retrying", "failed", "skipped"}, ledger' = Closed(j, status),
             ledger[j].status \in {"running"} \cup Dispatchable, rowLock[j] = None
      PROVE  ProcessingInv'
  <2> DEFINE l == [ledger[j] EXCEPT !.status = status, !.owner = None,
                                    !.live = FALSE, !.late = FALSE]
  <2>1. ledger' = [ledger EXCEPT ![j] = l]
    BY <1>5 DEF Closed
  <2>2. /\ l \in LedgerRow /\ l.progress = ledger[j].progress
        /\ l.status = status /\ l.owner = None
    BY <1>1, <1>5 DEF LedgerRow, Statuses, Dispatchable, Terminal
  <2> HIDE DEF l
  <2>3. /\ l.status # "absent" /\ ledger[j].status # "absent"
        /\ l.status # "succeeded" /\ ledger[j].status # "succeeded"
    BY <1>5, <2>2 DEF Dispatchable
  <2> QED BY <1>2, <1>3, <1>5, <2>1, <2>2, <2>3, Transitions
<1>6. ASSUME NEW live \in BOOLEAN, NEW late \in BOOLEAN,
             ledger' = [ledger EXCEPT ![j] = [ledger[j] EXCEPT !.live = live, !.late = late]]
      PROVE  ProcessingInv'
  <2> DEFINE l == [ledger[j] EXCEPT !.live = live, !.late = late]
  <2>1. /\ l \in LedgerRow /\ l.progress = ledger[j].progress
        /\ l.status = ledger[j].status /\ l.owner = ledger[j].owner
        /\ l.attempt = ledger[j].attempt
    BY <1>1 DEF LedgerRow
  <2>2. ledger' = [ledger EXCEPT ![j] = l]
    BY <1>6
  <2> HIDE DEF l
  <2> QED BY <1>1, <1>2, <1>3, <2>1, <2>2, Transitions DEF PlanOf
<1>7. CASE LeaseRunsOut(j)
  <2>1. ledger' = [ledger EXCEPT ![j] = [ledger[j] EXCEPT !.live = FALSE,
                                                          !.late = ledger[j].late]]
    BY <1>1, <1>7 DEF LeaseRunsOut, LedgerRow
  <2>2. ledger[j].late \in BOOLEAN
    BY <1>1 DEF LedgerRow
  <2> DEFINE late == ledger[j].late
  <2> QED BY <1>6, <2>1, <2>2
<1>8. CASE DeadlinePasses(j)
  <2>1. ledger' = [ledger EXCEPT ![j] = [ledger[j] EXCEPT !.live = FALSE, !.late = TRUE]]
    BY <1>1, <1>8 DEF DeadlinePasses, LedgerRow
  <2> QED BY <1>6, <2>1
<1>9. CASE Sweep(j)
  BY <1>5, <1>9 DEF Sweep
<1>10. ASSUME NEW r \in Run, Transition(r), j = run[r].job
       PROVE  ProcessingInv'
  <2>1. CASE ~HoldsLease(r)
    BY <1>4, <1>10, <2>1 DEF Transition
  <2>2. CASE HoldsLease(r)
    <3>1. ledger[j].status = "running" /\ run[r].pc = "failing" /\ RowIsFree(j, r)
      BY <1>10, <2>2 DEF HoldsLease, Transition
    <3>2. rowLock[j] = None
      <4>1. rowLock[j] # r
        BY <3>1 DEF ProcessingInv, RowLocks, Committing
      <4> QED BY <3>1, <4>1 DEF RowIsFree
    <3>3. ledger' = Closed(j, "retrying") \/ ledger' = Closed(j, "failed")
      BY <1>10, <2>2 DEF Transition
    <3> QED BY <1>5, <3>1, <3>2, <3>3
  <2> QED BY <2>1, <2>2
<1> QED BY <1>7, <1>8, <1>9, <1>10

-----------------------------------------------------------------------------
(* Commits. *)

\* A commit gives the row back, and no other session is under way.
LEMMA Commits ==
    ASSUME ProcessingInv, NEW r \in Run, NEW e \in Execution, run[r].pc \in Committing,
           run' = [run EXCEPT ![r] = e], e.pc \in InSession \ Committing,
           Unlock(run[r].job), orderLock' = orderLock,
           \A k \in Job : k # run[r].job =>
              ledger'[k].status = ledger[k].status /\ ledger'[k].owner = ledger[k].owner
    PROVE  /\ OneSession' /\ RowLocks' /\ rowLock' \in [Job -> Run \cup {None}]
           /\ run' \in [Run -> Execution] /\ run'[r] = e
           /\ run[r].job \in Job
           /\ ledger[run[r].job].status = "running" /\ ledger[run[r].job].owner = r
           /\ orderLock = r
           /\ \A q \in Run : q # r => run'[q] = run[q] /\ run[q].pc \notin InSession
<1> DEFINE j == run[r].job
<1>1. \A q \in Run : run'[q] = IF q = r THEN e ELSE run[q]
  BY DEF ProcessingInv, Typed
<1>2. run[r].pc \in InSession /\ orderLock = r /\ j \in Job
  <2>1. run[r].pc \in InSession
    BY PcsShown
  <2> QED BY <2>1, SessionTyped DEF ProcessingInv, OneSession
<1>3. rowLock[j] = r /\ ledger[j].status = "running" /\ ledger[j].owner = r
  BY <1>2 DEF ProcessingInv, RowLocks
<1>4. /\ rowLock' \in [Job -> Run \cup {None}]
      /\ \A k \in Job : rowLock'[k] = IF k = j THEN None ELSE rowLock[k]
  BY <1>2 DEF Unlock, ProcessingInv, Typed
<1>5. ASSUME NEW q \in Run, q # r PROVE run'[q] = run[q] /\ run[q].pc \notin InSession
  BY <1>1, <1>2, <1>5 DEF ProcessingInv, OneSession
<1>6. run' \in [Run -> Execution]
  BY DEF ProcessingInv, Typed
<1> HIDE DEF j
<1>7. OneSession'
  BY <1>2, <1>5 DEF OneSession
<1>8. RowLocks'
  <2>1. ASSUME NEW q \in Run, run'[q].pc \in Committing PROVE FALSE
    BY <1>1, <1>5, <2>1, PcsShown
  <2>2. ASSUME NEW k \in Job, NEW q \in Run, rowLock'[k] = q
        PROVE  /\ run'[q].job = k /\ run'[q].pc \in Committing \cup {"killed"}
               /\ ledger'[k].status = "running" /\ ledger'[k].owner = q
    <3>1. k # j /\ rowLock[k] = q
      BY <1>4, <2>2, ProcessingAssumption
    <3>2. /\ run[q].job = k /\ run[q].pc \in Committing \cup {"killed"}
          /\ ledger[k].status = "running" /\ ledger[k].owner = q
      BY <3>1 DEF ProcessingInv, RowLocks
    <3>3. q # r
      BY <3>1, <3>2 DEF j
    <3>4. ledger'[k].status = ledger[k].status /\ ledger'[k].owner = ledger[k].owner
      BY <3>1 DEF j
    <3> QED BY <1>5, <3>2, <3>3, <3>4
  <2> QED BY <2>1, <2>2 DEF RowLocks
<1> QED BY <1>1, <1>2, <1>3, <1>4, <1>5, <1>6, <1>7, <1>8 DEF j

\* What remains to be shown of a commit: its own execution, plan and orders.
LEMMA OthersAreIdle ==
    ASSUME NEW r \in Run, WorkingAt(run[r])', run' \in [Run -> Execution], ProcessingInv,
           \A q \in Run : q # r => run'[q] = run[q] /\ run[q].pc \notin InSession
    PROVE  Working'
  <1> SUFFICES ASSUME NEW q \in Run, q # r PROVE WorkingAt(run[q])'
    BY DEF Working
  <1>1. WorkingAt(run[q]) /\ run'[q] = run[q] /\ run[q].pc \notin InSession
    BY DEF ProcessingInv, Working
  <1> QED BY <1>1 DEF WorkingAt, InSession

LEMMA CommitsThePlan ==
    ASSUME ProcessingInv, NEW r \in Run, PlanCommit(r)
    PROVE  ProcessingInv'
<1> DEFINE j == run[r].job
           rows == run[r].rows
           deferred == run[r].deferred
           pc == IF rows = <<>> THEN "finish" ELSE "apply"
           e == [run[r] EXCEPT !.pc = pc, !.rows = <<>>, !.deferred = {}]
           s == [state |-> "planned", rows |-> rows, next |-> 1, deferred |-> deferred]
<1>1. /\ run[r] \in Execution /\ WorkingAt(run[r]) /\ run[r].pc = "plan_commit"
      /\ run[r].pc \in Committing
  BY SessionTyped DEF PlanCommit, Committing
<1>2. rows \in Seq(Row) /\ deferred \in SUBSET Pair
  BY <1>1 DEF Execution
<1>3. /\ run' = [run EXCEPT ![r] = e] /\ spec' = [spec EXCEPT ![j] = s] /\ Unlock(j)
      /\ UNCHANGED <<ledger, orderLock, source, stock, order, completed>>
      /\ standby' = [p \in Pair |-> IF p \in deferred THEN standby[p] + 1 ELSE standby[p]]
  BY DEF PlanCommit
<1>4. /\ e \in Execution /\ e.pc = pc /\ e.job = j /\ e.pc \in InSession \ Committing
      /\ pc \in {"finish", "apply"}
  <2>1. <<>> \in Seq(Row) /\ {} \in SUBSET Pair
    OBVIOUS
  <2> QED BY <1>1, <2>1 DEF Execution, Pcs, InSession, Committing
<1>5. s \in Plan
  BY <1>2 DEF Plan
<1>6. s.state = "planned" /\ s.rows = rows /\ s.next = 1 /\ s.deferred = deferred
  OBVIOUS
<1> HIDE DEF e, s
<1>7. /\ OneSession' /\ RowLocks' /\ rowLock' \in [Job -> Run \cup {None}]
      /\ run' \in [Run -> Execution] /\ run'[r] = e
      /\ j \in Job /\ ledger[j].status = "running" /\ ledger[j].owner = r
      /\ \A q \in Run : q # r => run'[q] = run[q] /\ run[q].pc \notin InSession
  <2>1. \A k \in Job : k # j =>
          ledger'[k].status = ledger[k].status /\ ledger'[k].owner = ledger[k].owner
    BY <1>3
  <2> QED BY <1>1, <1>3, <1>4, <2>1, Commits
<1>8. spec[j].state = "pending" /\ PlanOf(j) /\ spec[j] \in Plan
  BY <1>1, <1>7 DEF WorkingAt, ProcessingInv, Plans, Typed
<1>9. Applied(j) = 0 /\ spec[j].rows = <<>>
  BY <1>8 DEF PlanOf, Plan, Applied
<1>10. /\ spec' \in [Job -> Plan]
       /\ \A k \in Job : spec'[k] = IF k = j THEN s ELSE spec[k]
  BY <1>3, <1>5, <1>7 DEF ProcessingInv, Typed
<1>11. Typed'
  <2>1. standby' \in [Pair -> Nat]
    BY <1>3 DEF ProcessingInv, Typed
  <2> QED BY <1>3, <1>7, <1>10, <2>1 DEF ProcessingInv, Typed
<1>12. Plans'
  <2> SUFFICES ASSUME NEW k \in Job PROVE PlanOf(k)'
    BY DEF Plans
  <2>1. PlanOf(k)
    BY DEF ProcessingInv, Plans
  <2>2. CASE k # j
    BY <1>3, <1>10, <2>1, <2>2 DEF PlanOf, Applied, Complete
  <2>3. CASE k = j
    <3>1. spec'[k] = s /\ Len(rows) \in Nat
      BY <1>2, <1>10, <2>3
    <3>2. Applied(k)' = 0
      BY <1>6, <3>1 DEF Applied
    <3> QED BY <1>3, <1>6, <1>7, <1>9, <2>1, <2>3, <3>1, <3>2 DEF PlanOf
  <2> QED BY <2>2, <2>3
<1>13. Orders'
  <2> SUFFICES ASSUME NEW k \in Job PROVE OrdersOf(k)'
    BY DEF Orders
  <2>1. OrdersOf(k)
    BY DEF ProcessingInv, Orders
  <2>2. CASE k # j
    BY <1>3, <1>10, <2>1, <2>2 DEF OrdersOf, Applied
  <2>3. CASE k = j
    <3>1. Applied(k)' = 0
      BY <1>6, <1>10, <2>3 DEF Applied
    <3> QED BY <1>3, <1>9, <2>1, <2>3, <3>1 DEF OrdersOf
  <2> QED BY <2>2, <2>3
<1>14. WorkingAt(run[r])'
  <2>1. run'[r].pc = pc /\ run'[r].job = j /\ spec'[j] = s /\ ledger' = ledger
    BY <1>3, <1>4, <1>7, <1>10
  <2>2. pc = "finish" => Complete(j)'
    <3>1. SUFFICES ASSUME rows = <<>> PROVE Complete(j)'
      OBVIOUS
    <3> QED BY <1>6, <2>1, <3>1 DEF Complete, Applied
  <2> QED BY <1>4, <1>6, <1>7, <2>1, <2>2 DEF WorkingAt
<1>15. Working'
  BY <1>7, <1>14, OthersAreIdle
<1> QED BY <1>7, <1>11, <1>12, <1>13, <1>15 DEF ProcessingInv

LEMMA CommitsAChunk ==
    ASSUME ProcessingInv, NEW r \in Run, ApplyCommit(r)
    PROVE  ProcessingInv'
<1> DEFINE j == run[r].job
           rows == run[r].rows
           a == spec[j].next
           b == a + Len(rows)
           e == [run[r] EXCEPT !.pc = "apply", !.rows = <<>>]
           s == [spec[j] EXCEPT !.next = b]
           progress == Applied(j) + Len(rows)
           l == [ledger[j] EXCEPT !.progress = progress]
<1>1. /\ run[r] \in Execution /\ WorkingAt(run[r]) /\ run[r].pc = "apply_commit"
      /\ run[r].pc \in Committing /\ j \in Job
  BY SessionTyped DEF ApplyCommit, Committing, InSession
<1>2. /\ spec[j] \in Plan /\ PlanOf(j) /\ ledger[j] \in LedgerRow
      /\ spec[j].state = "planned" /\ ~Complete(j) /\ rows = NextChunk(j)
      /\ \A i \in DOMAIN rows :
           ~HasOrder(rows[i].pair) /\ source[rows[i].pair] = rows[i].version
  BY <1>1 DEF ProcessingInv, Typed, Plans, WorkingAt
<1>3. /\ rows \in Seq(Row) /\ Len(rows) \in Nat \ {0} /\ b <= Len(spec[j].rows) + 1
      /\ \A i \in 1..Len(rows) : rows[i] = spec[j].rows[a + i - 1]
      /\ DOMAIN rows = 1..Len(rows)
  BY <1>1, <1>2, NextChunkOf
<1>4. a \in Nat \ {0} /\ Len(spec[j].rows) \in Nat /\ b \in Nat \ {0} /\ progress \in Nat
      /\ progress = b - 1 /\ spec[j].rows \in Seq(Row)
  BY <1>2, <1>3 DEF Plan, Applied
<1>5. /\ run' = [run EXCEPT ![r] = e] /\ spec' = [spec EXCEPT ![j] = s] /\ Unlock(j)
      /\ ledger' = [ledger EXCEPT ![j] = l]
      /\ UNCHANGED <<orderLock, source, stock, completed>>
      /\ standby' = [p \in Pair |-> IF p \in Pairs(rows) THEN 0 ELSE standby[p]]
      /\ order' = [p \in Pair |->
                       IF p \in Pairs(rows)
                         THEN [job |-> j, version |-> source[p], quantity |-> 1]
                         ELSE order[p]]
  BY DEF ApplyCommit, ProcessingInv, Typed
<1> HIDE DEF b, progress
<1>6. /\ e \in Execution /\ e.pc = "apply" /\ e.job = j /\ e.pc \in InSession \ Committing
  <2>1. <<>> \in Seq(Row)
    OBVIOUS
  <2> QED BY <1>1, <2>1 DEF Execution, Pcs, InSession, Committing
<1>7. s \in Plan /\ s.state = "planned" /\ s.rows = spec[j].rows /\ s.next = b
      /\ s.deferred = spec[j].deferred
  BY <1>2, <1>4 DEF Plan
<1>8. /\ l \in LedgerRow /\ l.progress = progress /\ l.status = ledger[j].status
      /\ l.owner = ledger[j].owner /\ l.attempt = ledger[j].attempt
  BY <1>2, <1>4 DEF LedgerRow
<1> HIDE DEF e, s, l
<1>9. /\ spec' \in [Job -> Plan]
      /\ \A k \in Job : spec'[k] = IF k = j THEN s ELSE spec[k]
      /\ ledger' \in [Job -> LedgerRow]
      /\ \A k \in Job : ledger'[k] = IF k = j THEN l ELSE ledger[k]
  BY <1>1, <1>5, <1>7, <1>8 DEF ProcessingInv, Typed
<1>10. /\ OneSession' /\ RowLocks' /\ rowLock' \in [Job -> Run \cup {None}]
       /\ run' \in [Run -> Execution] /\ run'[r] = e
       /\ ledger[j].status = "running" /\ ledger[j].owner = r
       /\ \A q \in Run : q # r => run'[q] = run[q] /\ run[q].pc \notin InSession
  <2>1. \A k \in Job : k # j =>
          ledger'[k].status = ledger[k].status /\ ledger'[k].owner = ledger[k].owner
    BY <1>9
  <2> QED BY <1>1, <1>5, <1>6, <2>1, Commits
<1>11. /\ \A p \in Pairs(rows) : p \in Pair /\ order[p].job = None
       /\ \A i \in 1..Len(rows) : rows[i].pair \in Pairs(rows)
       /\ \A p \in Pairs(rows) : \E i \in 1..Len(rows) : rows[i].pair = p
       /\ \A i \in 1..Len(rows) : source[rows[i].pair] = rows[i].version
  <2> HIDE DEF rows, a
  <2>1. \A i \in 1..Len(rows) : rows[i] \in Row
    BY <1>3
  <2>2. \A i \in 1..Len(rows) : rows[i].pair \in Pair
    BY <2>1 DEF Row
  <2> QED BY ZenonT(30), <1>2, <1>3, <2>2 DEF Pairs, HasOrder
<1>12. /\ \A p \in Pairs(rows) : order'[p].job = j /\ order'[p].version = source[p]
       /\ \A p \in Pair : p \notin Pairs(rows) => order'[p] = order[p]
       /\ order' \in [Pair -> OrderRow]
  <2>1. ASSUME NEW p \in Pair
        PROVE  [job |-> j, version |-> source[p], quantity |-> 1] \in OrderRow
    BY <1>1, ProcessingAssumption DEF OrderRow, ProcessingInv, Typed
  <2> QED BY <1>5, <1>11, <2>1 DEF ProcessingInv, Typed
<1> HIDE DEF j, rows, a
<1>13. Typed'
  <2>1. standby' \in [Pair -> Nat]
    BY <1>5 DEF ProcessingInv, Typed
  <2> QED BY <1>5, <1>9, <1>10, <1>12, <2>1 DEF ProcessingInv, Typed
<1>14. Plans'
  <2> SUFFICES ASSUME NEW k \in Job PROVE PlanOf(k)'
    BY DEF Plans
  <2>1. PlanOf(k)
    BY DEF ProcessingInv, Plans
  <2>2. CASE k # j
    BY <1>5, <1>9, <2>1, <2>2 DEF PlanOf, Applied, Complete
  <2>3. CASE k = j
    <3>1. spec'[k] = s /\ ledger'[k] = l
      BY <1>9, <2>3
    <3> QED BY <1>3, <1>4, <1>5, <1>7, <1>8, <1>10, <2>1, <2>3, <3>1
            DEF PlanOf, Applied
  <2> QED BY <2>2, <2>3
<1>15. ASSUME NEW k \in Job, NEW i \in 1..Applied(k)
       PROVE  /\ spec[k].rows[i].pair \in Pair \ Pairs(rows)
              /\ order[spec[k].rows[i].pair].job = k
  <2>1. spec[k] \in Plan /\ PlanOf(k) /\ OrdersOf(k)
    BY DEF ProcessingInv, Typed, Plans, Orders
  <2>2. spec[k].rows[i] \in Row
    BY <2>1 DEF Plan, PlanOf, Applied
  <2>3. spec[k].rows[i].pair \in Pair
    BY <2>2 DEF Row
  <2>4. order[spec[k].rows[i].pair].job = k
    BY <2>1, <2>3 DEF OrdersOf
  <2> QED BY <1>11, <2>3, <2>4, ProcessingAssumption
<1>16. Orders'
  <2> SUFFICES ASSUME NEW k \in Job PROVE OrdersOf(k)'
    BY DEF Orders
  <2>1. OrdersOf(k)
    BY DEF ProcessingInv, Orders
  <2>2. CASE k # j
    <3>1. spec'[k] = spec[k] /\ Applied(k)' = Applied(k)
      BY <1>9, <2>2 DEF Applied
    <3>2. ASSUME NEW p \in Pair
          PROVE  order'[p].job = k <=> \E i \in 1..Applied(k) : spec[k].rows[i].pair = p
      <4>1. CASE p \in Pairs(rows)
        BY <1>12, <1>15, <2>2, <4>1
      <4>2. CASE p \notin Pairs(rows)
        BY <1>12, <2>1, <4>2 DEF OrdersOf
      <4> QED BY <4>1, <4>2
    <3>3. ASSUME NEW i \in 1..Applied(k)
          PROVE  order'[spec[k].rows[i].pair].version = spec[k].rows[i].version
      BY <1>12, <1>15, <2>1 DEF OrdersOf
    <3> QED BY <3>1, <3>2, <3>3 DEF OrdersOf
  <2>3. CASE k = j
    <3>1. /\ spec'[k].rows = spec[k].rows /\ Applied(k)' = b - 1 /\ Applied(k) = a - 1
          /\ b = a + Len(rows)
      BY <1>7, <1>9, <2>3 DEF Applied, a, b
    <3>2. ASSUME NEW i \in 1..Len(rows)
          PROVE  a + i - 1 \in a..(b - 1) /\ rows[i] = spec[k].rows[a + i - 1]
      BY <1>3, <1>4, <2>3, <3>1
    <3>3. ASSUME NEW i \in a..(b - 1)
          PROVE  i - a + 1 \in 1..Len(rows) /\ rows[i - a + 1] = spec[k].rows[i]
      <4> DEFINE m == i - a + 1
      <4>1. m \in 1..Len(rows) /\ a + m - 1 = i
        BY <1>3, <1>4, <3>1
      <4> HIDE DEF m
      <4>2. rows[m] = spec[k].rows[a + m - 1]
        BY <1>3, <2>3, <4>1
      <4> QED BY <4>1, <4>2 DEF m
    <3>4. 1..(b - 1) = (1..(a - 1)) \cup (a..(b - 1))
      BY <1>3, <1>4, <3>1
    <3>5. ASSUME NEW p \in Pair
          PROVE  order'[p].job = k <=> \E i \in 1..(b - 1) : spec[k].rows[i].pair = p
      <4>1. CASE p \in Pairs(rows)
        <5>1. PICK m \in 1..Len(rows) : rows[m].pair = p
          BY <1>11, <4>1
        <5> DEFINE i == a + m - 1
        <5>2. i \in a..(b - 1) /\ spec[k].rows[i].pair = p
          BY <3>2, <5>1
        <5> HIDE DEF i
        <5> QED BY <1>12, <2>3, <3>4, <4>1, <5>2
      <4>2. CASE p \notin Pairs(rows)
        <5>1. order'[p].job = k <=> \E i \in 1..(a - 1) : spec[k].rows[i].pair = p
          BY <1>12, <2>1, <3>1, <4>2 DEF OrdersOf
        <5>2. ~\E i \in a..(b - 1) : spec[k].rows[i].pair = p
          <6> SUFFICES ASSUME NEW i \in a..(b - 1), spec[k].rows[i].pair = p PROVE FALSE
            OBVIOUS
          <6> DEFINE m == i - a + 1
          <6>1. m \in 1..Len(rows) /\ rows[m] = spec[k].rows[i]
            BY <3>3
          <6> HIDE DEF m
          <6> QED BY <1>11, <4>2, <6>1
        <5> QED BY <3>4, <5>1, <5>2
      <4> QED BY <4>1, <4>2
    <3>6. ASSUME NEW i \in 1..(b - 1)
          PROVE  order'[spec[k].rows[i].pair].version = spec[k].rows[i].version
      <4>1. CASE i \in 1..(a - 1)
        BY <1>12, <1>15, <2>1, <3>1, <4>1 DEF OrdersOf
      <4>2. CASE i \in a..(b - 1)
        <5> DEFINE m == i - a + 1
        <5>1. m \in 1..Len(rows) /\ rows[m] = spec[k].rows[i]
          BY <3>3, <4>2
        <5> HIDE DEF m
        <5> QED BY <1>11, <1>12, <5>1
      <4> QED BY <3>4, <4>1, <4>2
    <3> QED BY <3>1, <3>5, <3>6 DEF OrdersOf
  <2> QED BY <2>2, <2>3
<1>17. WorkingAt(run[r])'
  <2>1. run'[r].pc = "apply" /\ run'[r].job = j /\ spec'[j] = s /\ ledger'[j] = l
    BY <1>1, <1>6, <1>9, <1>10
  <2> QED BY <1>1, <1>7, <1>8, <1>10, <2>1 DEF WorkingAt
<1>18. Working'
  BY <1>10, <1>17, OthersAreIdle
<1> QED BY <1>10, <1>13, <1>14, <1>16, <1>18 DEF ProcessingInv

LEMMA CommitsTheEnd ==
    ASSUME ProcessingInv, NEW r \in Run, FinishCommit(r)
    PROVE  ProcessingInv'
<1> DEFINE j == run[r].job
           progress == Len(spec[j].rows)
           e == [run[r] EXCEPT !.pc = "leave"]
           l == [ledger[j] EXCEPT !.status = "succeeded", !.owner = None, !.live = FALSE,
                                  !.late = FALSE, !.progress = progress]
<1>1. /\ run[r] \in Execution /\ WorkingAt(run[r]) /\ run[r].pc = "finish_commit"
      /\ run[r].pc \in Committing /\ j \in Job
  BY SessionTyped DEF FinishCommit, Committing, InSession
<1>2. /\ spec[j] \in Plan /\ PlanOf(j) /\ ledger[j] \in LedgerRow /\ Complete(j)
      /\ progress \in Nat /\ progress = Applied(j)
  BY <1>1 DEF ProcessingInv, Typed, Plans, WorkingAt, Plan, Complete
<1> HIDE DEF progress
<1>3. /\ run' = [run EXCEPT ![r] = e] /\ Unlock(j)
      /\ completed' = completed \cup {j}
      /\ UNCHANGED <<spec, orderLock, source, stock, order, standby>>
  BY DEF FinishCommit, Goto, data, ProcessingInv, Typed
<1>4. /\ ledger' \in [Job -> LedgerRow] /\ ledger'[j].progress = progress
      /\ ledger'[j].status = "succeeded" /\ ledger'[j].owner = None
      /\ \A k \in Job : k # j => ledger'[k] = ledger[k]
  <2>1. l \in LedgerRow /\ l.progress = progress /\ l.status = "succeeded" /\ l.owner = None
    BY <1>2 DEF LedgerRow, Statuses, Terminal
  <2>2. ledger' = [ledger EXCEPT ![j] = l]
    BY <1>1, <1>2 DEF FinishCommit, Closed, ProcessingInv, Typed, LedgerRow, progress
  <2> HIDE DEF l
  <2> QED BY <1>1, <2>1, <2>2 DEF ProcessingInv, Typed
<1>5. /\ e \in Execution /\ e.pc = "leave" /\ e.job = j /\ e.pc \in InSession \ Committing
  BY <1>1 DEF Execution, Pcs, InSession, Committing
<1> HIDE DEF e
<1>6. /\ OneSession' /\ RowLocks' /\ rowLock' \in [Job -> Run \cup {None}]
      /\ run' \in [Run -> Execution] /\ run'[r] = e
      /\ ledger[j].status = "running"
      /\ \A q \in Run : q # r => run'[q] = run[q] /\ run[q].pc \notin InSession
  <2>1. \A k \in Job : k # j =>
          ledger'[k].status = ledger[k].status /\ ledger'[k].owner = ledger[k].owner
    BY <1>4
  <2> QED BY <1>1, <1>3, <1>5, <2>1, Commits
<1>7. Typed'
  BY <1>1, <1>3, <1>4, <1>6 DEF ProcessingInv, Typed
<1>8. Plans'
  <2> SUFFICES ASSUME NEW k \in Job PROVE PlanOf(k)'
    BY DEF Plans
  <2>1. PlanOf(k)
    BY DEF ProcessingInv, Plans
  <2>2. CASE k # j
    BY <1>3, <1>4, <2>1, <2>2 DEF PlanOf, Applied, Complete
  <2>3. CASE k = j
    BY <1>2, <1>3, <1>4, <1>6, <2>1, <2>3 DEF PlanOf, Applied, Complete
  <2> QED BY <2>2, <2>3
<1>9. Orders'
  BY <1>3 DEF ProcessingInv, Orders, OrdersOf, Applied
<1>10. WorkingAt(run[r])'
  BY <1>1, <1>4, <1>5, <1>6 DEF WorkingAt
<1>11. Working'
  BY <1>6, <1>10, OthersAreIdle
<1> QED BY <1>6, <1>7, <1>8, <1>9, <1>11 DEF ProcessingInv

-----------------------------------------------------------------------------
(* The other writers. *)

LEMMA Submitting ==
    ASSUME ProcessingInv, NEW j \in Job, Submit(j)
    PROVE  ProcessingInv'
<1> DEFINE l == [ledger[j] EXCEPT !.status = "queued"]
           s == [NoSpec EXCEPT !.state = "pending"]
<1>1. /\ ledger[j].status = "absent" /\ ledger' = [ledger EXCEPT ![j] = l]
      /\ spec' = [spec EXCEPT ![j] = s]
      /\ UNCHANGED <<rowLock, orderLock, source, stock, order, standby, completed, run>>
  BY DEF Submit, data, ProcessingInv, Typed
<1>2. ledger[j] \in LedgerRow /\ PlanOf(j) /\ spec[j] \in Plan
  BY DEF ProcessingInv, Typed, Plans
<1>3. /\ l \in LedgerRow /\ l.status = "queued" /\ l.progress = ledger[j].progress
      /\ l.owner = ledger[j].owner
  BY <1>2 DEF LedgerRow, Statuses, Dispatchable
<1>4. s \in Plan /\ s.state = "pending" /\ s.rows = <<>> /\ s.next = 1 /\ s.deferred = {}
  <2>1. <<>> \in Seq(Row) /\ {} \in SUBSET Pair /\ 1 \in Nat \ {0}
    OBVIOUS
  <2>2. NoSpec \in Plan
    BY <2>1 DEF NoSpec, Plan
  <2>3. NoSpec.rows = <<>> /\ NoSpec.next = 1 /\ NoSpec.deferred = {}
    BY DEF NoSpec
  <2> QED BY <2>2, <2>3 DEF Plan
<1> HIDE DEF l, s
<1>5. /\ spec' \in [Job -> Plan]
      /\ \A k \in Job : spec'[k] = IF k = j THEN s ELSE spec[k]
      /\ ledger' \in [Job -> LedgerRow]
      /\ \A k \in Job : ledger'[k] = IF k = j THEN l ELSE ledger[k]
  BY <1>1, <1>3, <1>4 DEF ProcessingInv, Typed
<1>6. spec[j].next = 1 /\ Applied(j) = 0 /\ Applied(j)' = 0 /\ spec[j].state = "absent"
  <2>1. spec[j].rows = <<>> /\ spec[j].next = 1 /\ spec[j].state = "absent"
    BY <1>1, <1>2 DEF PlanOf, Plan
  <2> QED BY <1>4, <1>5, <2>1 DEF Applied
<1>7. Typed'
  BY <1>1, <1>5 DEF ProcessingInv, Typed
<1>8. OneSession' /\ RowLocks'
  <2>1. OneSession'
    BY <1>1 DEF ProcessingInv, OneSession
  <2>2. \A q \in Run : rowLock[j] # q
    BY <1>1 DEF ProcessingInv, RowLocks
  <2>3. RowLocks'
    BY <1>1, <1>5, <2>2 DEF ProcessingInv, RowLocks
  <2> QED BY <2>1, <2>3
<1>9. Plans'
  <2> SUFFICES ASSUME NEW k \in Job PROVE PlanOf(k)'
    BY DEF Plans
  <2>1. PlanOf(k)
    BY DEF ProcessingInv, Plans
  <2>2. CASE k # j
    BY <1>1, <1>5, <2>1, <2>2 DEF PlanOf, Applied, Complete
  <2>3. CASE k = j
    BY <1>1, <1>3, <1>4, <1>5, <1>6, <2>1, <2>3 DEF PlanOf
  <2> QED BY <2>2, <2>3
<1>10. Orders'
  <2> SUFFICES ASSUME NEW k \in Job PROVE OrdersOf(k)'
    BY DEF Orders
  <2>1. OrdersOf(k)
    BY DEF ProcessingInv, Orders
  <2>2. CASE k # j
    BY <1>1, <1>5, <2>1, <2>2 DEF OrdersOf, Applied
  <2>3. CASE k = j
    BY <1>1, <1>6, <2>1, <2>3 DEF OrdersOf
  <2> QED BY <2>2, <2>3
<1>11. Working'
  <2> SUFFICES ASSUME NEW q \in Run PROVE WorkingAt(run[q])'
    BY DEF Working
  <2>1. WorkingAt(run[q]) /\ run'[q] = run[q]
    BY <1>1 DEF ProcessingInv, Working
  <2>2. CASE run[q].job # j \/ run[q].pc \notin InSession \ {"claim"}
    <3>1. CASE run[q].pc \notin InSession \ {"claim"}
      BY <2>1, <3>1 DEF WorkingAt, InSession
    <3>2. CASE run[q].pc \in InSession /\ run[q].job # j
      <4>1. run[q].job \in Job
        BY <2>1, <3>2 DEF WorkingAt
      <4>2. spec'[run[q].job] = spec[run[q].job] /\ ledger'[run[q].job] = ledger[run[q].job]
        BY <1>5, <3>2, <4>1
      <4> QED BY <1>1, <2>1, <4>2 DEF WorkingAt, NextChunk, Complete, Applied, HasOrder
    <3> QED BY <2>2, <3>1, <3>2
  <2>3. CASE run[q].job = j /\ run[q].pc \in InSession \ {"claim"}
    BY <1>1, <2>1, <2>3 DEF WorkingAt
  <2> QED BY <2>2, <2>3
<1> QED BY <1>7, <1>8, <1>9, <1>10, <1>11 DEF ProcessingInv

\* Who writes the order state outside a session finds none under way.
LEMMA OtherWriters ==
    ASSUME ProcessingInv, Refresh \/ \E p \in Pair, q \in Quantity : EditGrade(p, q)
    PROVE  ProcessingInv'
<1>1. /\ orderLock = None
      /\ UNCHANGED <<ledger, rowLock, spec, orderLock, standby, completed, run>>
  BY DEF Refresh, EditGrade
<1>2. /\ source' \in [Pair -> Version] /\ stock' \in Nat /\ order' \in [Pair -> OrderRow]
      /\ \A p \in Pair : order'[p].job = order[p].job /\ order'[p].version = order[p].version
  <2>1. CASE Refresh
    BY <2>1, ProcessingAssumption DEF Refresh, ProcessingInv, Typed
  <2>2. ASSUME NEW p \in Pair, NEW q \in Quantity, EditGrade(p, q)
        PROVE  <1>2
    <3> DEFINE o == [order[p] EXCEPT !.quantity = q]
    <3>1. order[p] \in OrderRow
      BY DEF ProcessingInv, Typed
    <3>2. o \in OrderRow /\ o.job = order[p].job /\ o.version = order[p].version
      BY <3>1 DEF OrderRow
    <3>3. order' = [order EXCEPT ![p] = o] /\ UNCHANGED <<source, stock>>
      BY <2>2 DEF EditGrade, ProcessingInv, Typed
    <3> HIDE DEF o
    <3> QED BY <3>2, <3>3 DEF ProcessingInv, Typed
  <2> QED BY <2>1, <2>2
<1>3. Typed'
  BY <1>1, <1>2 DEF ProcessingInv, Typed
<1>4. \A r \in Run : run[r].pc \notin InSession
  BY <1>1, ProcessingAssumption DEF ProcessingInv, OneSession
<1>5. OneSession' /\ RowLocks'
  BY <1>1 DEF ProcessingInv, OneSession, RowLocks
<1>6. Working'
  <2> SUFFICES ASSUME NEW r \in Run PROVE WorkingAt(run[r])'
    BY DEF Working
  <2>1. WorkingAt(run[r])
    BY DEF ProcessingInv, Working
  <2> QED BY <1>1, <1>4, <2>1 DEF WorkingAt, InSession
<1>7. Plans'
  BY <1>1 DEF ProcessingInv, Plans, PlanOf, Applied, Complete
<1>8. Orders'
  <2> SUFFICES ASSUME NEW k \in Job PROVE OrdersOf(k)'
    BY DEF Orders
  <2>1. OrdersOf(k) /\ Applied(k)' = Applied(k) /\ spec' = spec
    BY <1>1 DEF ProcessingInv, Orders, Applied
  <2>2. ASSUME NEW i \in 1..Applied(k) PROVE spec[k].rows[i].pair \in Pair
    <3>1. spec[k] \in Plan /\ PlanOf(k)
      BY DEF ProcessingInv, Typed, Plans
    <3>2. spec[k].rows[i] \in Row
      BY <3>1 DEF Plan, PlanOf, Applied
    <3> QED BY <3>2 DEF Row
  <2> QED BY <1>2, <2>1, <2>2 DEF OrdersOf
<1> QED BY <1>3, <1>5, <1>6, <1>7, <1>8 DEF ProcessingInv

-----------------------------------------------------------------------------
(* The invariant. *)

LEMMA InitialInv ==
    ASSUME Init
    PROVE  ProcessingInv
<1>1. <<>> \in Seq(Row) /\ {} \in SUBSET Pair /\ Len(<<>>) = 0
  OBVIOUS
<1>2. [status |-> "absent", attempt |-> 0, owner |-> None, live |-> FALSE, late |-> FALSE,
       progress |-> 0] \in LedgerRow
  BY ProcessingAssumption DEF LedgerRow, Statuses
<1>3. NoSpec \in Plan /\ Fresh \in Execution /\ NoOrder \in OrderRow
  BY <1>1, ProcessingAssumption
     DEF NoSpec, Plan, Fresh, Execution, NoOrder, OrderRow, Pcs
<1>4. Typed
  BY <1>2, <1>3, ProcessingAssumption DEF Init, Typed
<1>5. \A r \in Run : run[r].pc = "idle"
  BY DEF Init, Fresh
<1>6. OneSession /\ RowLocks /\ Working
  BY <1>5, ProcessingAssumption
     DEF Init, OneSession, RowLocks, Working, WorkingAt, InSession, Committing
<1>7. \A j \in Job : spec[j].next = 1 /\ spec[j].rows = <<>> /\ spec[j].state = "absent"
                     /\ spec[j].deferred = {} /\ Applied(j) = 0
  BY DEF Init, NoSpec, Applied
<1>8. Plans
  <2>1. \A j \in Job : ledger[j].status = "absent" /\ ledger[j].owner = None
                       /\ ledger[j].attempt = 0 /\ ledger[j].progress = 0
    BY DEF Init
  <2> QED BY <1>1, <1>7, <2>1 DEF Init, Plans, PlanOf
<1>9. Orders
  BY <1>7, ProcessingAssumption DEF Init, NoOrder, Orders, OrdersOf
<1> QED BY <1>4, <1>6, <1>8, <1>9 DEF ProcessingInv

LEMMA StepRight ==
    ASSUME ProcessingInv, [Next]_vars
    PROVE  ProcessingInv'
<1>1. CASE UNCHANGED vars
  <2>1. \A j \in Job : LedgerStep(j)
    BY <1>1, LedgerUnchanged DEF ProcessingInv, vars
  <2>2. \A q \in Run : WorkingAt(run'[q])
    BY <1>1 DEF ProcessingInv, Working, vars
  <2> QED BY <1>1, <2>1, <2>2, Advances
          DEF vars, data, ProcessingInv, Typed, OneSession, RowLocks
<1>2. CASE Environment
  <2>1. ASSUME NEW j \in Job, Submit(j) PROVE ProcessingInv'
    BY <2>1, Submitting
  <2>2. ASSUME NEW j \in Job, LeaseRunsOut(j) \/ DeadlinePasses(j) \/ Sweep(j)
        PROVE  ProcessingInv'
    <3>1. run' = run
      BY <2>2 DEF LeaseRunsOut, DeadlinePasses, Sweep
    <3> QED BY <2>2, <3>1, LedgerMoves
  <2> QED BY <1>2, <2>1, <2>2, OtherWriters DEF Environment
<1>3. ASSUME NEW r \in Run, Session(r) PROVE ProcessingInv'
  <2>1. ASSUME Transition(r) PROVE ProcessingInv'
    <3>1. run[r].job \in Job
      BY <2>1, SessionTyped DEF Transition
    <3> QED BY <2>1, <3>1, LedgerMoves
  <2>2. ASSUME NEW j \in Job, EnterSession(r, j) PROVE ProcessingInv'
    BY <2>2, Entering
  <2>3. CASE Claim(r)
    BY <2>3, Claiming
  <2>4. CASE PlanExists(r) \/ BuildPlan(r)
    BY <2>4, Planning
  <2>5. CASE PlanCas(r) \/ ApplyCas(r) \/ FinishCas(r)
    BY <2>5, Taking
  <2>6. CASE PlanCommit(r) \/ ApplyCommit(r) \/ FinishCommit(r)
    BY <2>6, CommitsThePlan, CommitsAChunk, CommitsTheEnd
  <2>7. CASE ApplyChunk(r)
    BY <2>7, Applying
  <2>8. CASE Crash(r)
    BY <2>8, Crashing
  <2> QED BY <1>3, <2>1, <2>2, <2>3, <2>4, <2>5, <2>6, <2>7, <2>8, Interruptions
          DEF Session
<1> QED BY <1>1, <1>2, <1>3 DEF Next

\* The inductive invariant: one session at a time under the order lock, row
\* locks in the hands of the running attempt, and plan, orders, checkpoint and
\* ledger in agreement with what each session has read.
THEOREM ProcessingInvHolds == Spec => []ProcessingInv
<1>1. Init => ProcessingInv
  BY InitialInv
<1>2. ProcessingInv /\ [Next]_vars => ProcessingInv'
  BY StepRight
<1> QED BY <1>1, <1>2, PTL DEF Spec

-----------------------------------------------------------------------------
(* Orders, checkpoint and ledger. *)

\* At every instant, whatever crashed, was lost or runs over the same pairs,
\* the orders of a job are those of the rows its checkpoint counts as applied,
\* each from the version of the source that was planned.
THEOREM OrdersAreTheCheckpoint == Spec => []OrdersMatchCheckpoint
<1>1. ASSUME ProcessingInv PROVE OrdersMatchCheckpoint
  <2> SUFFICES ASSUME NEW j \in Job
               PROVE  /\ {p \in Pair : order[p].job = j} = Pairs(AppliedRows(j))
                      /\ \A i \in 1..Applied(j) :
                           order[spec[j].rows[i].pair].version = spec[j].rows[i].version
    BY DEF OrdersMatchCheckpoint
  <2> DEFINE s == spec[j].rows
             n == Applied(j)
             rows == AppliedRows(j)
  <2>1. s \in Seq(Row) /\ n \in 0..Len(s) /\ OrdersOf(j)
    BY <1>1 DEF ProcessingInv, Typed, Plans, Orders, Plan, PlanOf, Applied
  <2>2. rows = SubSeq(s, 1, n)
    BY DEF AppliedRows
  <2>3. \A p \in Pair : order[p].job = j <=> \E i \in 1..n : s[i].pair = p
    BY <2>1 DEF OrdersOf
  <2>4. \A i \in 1..n : order[s[i].pair].version = s[i].version
    BY <2>1 DEF OrdersOf
  <2> HIDE DEF s, n, rows
  <2>5. DOMAIN rows = 1..n /\ \A i \in 1..n : rows[i] = s[i]
    BY <2>1, <2>2
  <2>6. \A i \in 1..n : s[i].pair \in Pair
    <3>1. \A i \in 1..n : s[i] \in Row
      BY <2>1
    <3> QED BY <3>1 DEF Row
  <2>7. {p \in Pair : order[p].job = j} = Pairs(rows)
    BY <2>3, <2>5, <2>6 DEF Pairs
  <2> QED BY <2>4, <2>7 DEF s, n, rows
<1> QED BY <1>1, ProcessingInvHolds, PTL

\* The progress the ledger reports is what the checkpoint has committed; a job
\* is a success exactly when its completion event is committed, and then its
\* whole plan is applied.
THEOREM LedgerReportsTheCheckpoint == Spec => []LedgerAgreesWithCheckpoint
<1>1. ProcessingInv => LedgerAgreesWithCheckpoint
  <2> SUFFICES ASSUME ProcessingInv, NEW j \in Job
               PROVE  /\ ledger[j].progress = Applied(j)
                      /\ (ledger[j].status = "succeeded") = (j \in completed)
                      /\ ledger[j].status = "succeeded" => Complete(j)
    BY DEF LedgerAgreesWithCheckpoint
  <2>1. PlanOf(j)
    BY DEF ProcessingInv, Plans
  <2> QED BY <2>1 DEF PlanOf
<1> QED BY <1>1, ProcessingInvHolds, PTL

\* What the two commits of the work do to the plan of their job.
LEMMA WorkOf ==
    ASSUME ProcessingInv, NEW r \in Run, PlanCommit(r) \/ ApplyCommit(r)
    PROVE  LET j == run[r].job
           IN  /\ j \in Job /\ ledger[j].status = "running" /\ ledger[j].owner = r
               /\ orderLock = r
               /\ \A k \in Job : k # j => spec'[k] = spec[k]
               /\ spec[j].state = "planned" =>
                    /\ spec'[j].rows = spec[j].rows /\ spec'[j].next > spec[j].next
                    /\ spec'[j].deferred = spec[j].deferred
               /\ PlanCommit(r) => /\ spec[j].state = "pending"
                                   /\ spec'[j].deferred = run[r].deferred
<1> DEFINE j == run[r].job
<1>1. /\ run[r] \in Execution /\ WorkingAt(run[r]) /\ run[r].pc \in Committing
      /\ run[r].pc \in InSession /\ j \in Job /\ spec[j] \in Plan /\ PlanOf(j)
  BY SessionTyped DEF PlanCommit, ApplyCommit, Committing, InSession,
                      ProcessingInv, Typed, Plans
<1>2. /\ ledger[j].status = "running" /\ ledger[j].owner = r /\ orderLock = r
  BY <1>1 DEF ProcessingInv, OneSession, RowLocks
<1>3. CASE PlanCommit(r)
  <2>1. spec[j].state = "pending"
    BY <1>1, <1>3 DEF PlanCommit, WorkingAt
  <2>2. spec' = [spec EXCEPT ![j] = [state |-> "planned", rows |-> run[r].rows,
                                     next |-> 1, deferred |-> run[r].deferred]]
    BY <1>3 DEF PlanCommit
  <2> QED BY <1>1, <1>2, <2>1, <2>2 DEF ProcessingInv, Typed
<1>4. CASE ApplyCommit(r)
  <2> DEFINE rows == run[r].rows
             n == Len(rows)
  <2>1. run[r].pc = "apply_commit" /\ spec' = [spec EXCEPT ![j].next = spec[j].next + n]
    BY <1>4 DEF ApplyCommit
  <2>2. spec[j].state = "planned" /\ ~Complete(j) /\ rows = NextChunk(j)
    BY <1>1, <2>1 DEF WorkingAt
  <2>3. n \in Nat \ {0}
    BY <1>1, <2>2, NextChunkOf
  <2>4. run[r].pc # "plan_commit"
    BY <2>1
  <2>5. /\ spec'[j].rows = spec[j].rows /\ spec'[j].next = spec[j].next + n
        /\ spec'[j].deferred = spec[j].deferred /\ \A k \in Job : k # j => spec'[k] = spec[k]
    <3> HIDE DEF n
    <3> QED BY <1>1, <2>1 DEF ProcessingInv, Typed, Plan
  <2>6. spec[j].next \in Nat
    BY <1>1 DEF Plan
  <2>7. ~PlanCommit(r)
    BY <2>4 DEF PlanCommit
  <2> HIDE DEF n
  <2> QED BY <1>1, <1>2, <2>3, <2>5, <2>6, <2>7
<1> QED BY <1>3, <1>4

\* Every other step writes no plan but that of the job it submits.
LEMMA PlansAreWrittenByWork ==
    ASSUME Next
    PROVE  \/ spec' = spec /\ standby' = standby
           \/ \E r \in Run : PlanCommit(r) \/ ApplyCommit(r)
           \/ \E j \in Job : Submit(j)
<1>1. CASE Environment
  BY <1>1 DEF Environment, LeaseRunsOut, DeadlinePasses, Sweep, Refresh, EditGrade, data
<1>2. ASSUME NEW r \in Run, Session(r), ~PlanCommit(r), ~ApplyCommit(r)
      PROVE  spec' = spec /\ standby' = standby
  BY <1>2 DEF Session, EnterSession, Claim, PlanExists, BuildPlan, PlanCas, ApplyChunk,
              ApplyCas, FinishCas, FinishCommit, ExitSession, LeaseLost, Transition, Error,
              KeeperLost, Crash, ServerDropsConnection, Cas, data
<1> QED BY <1>1, <1>2 DEF Next

\* A frozen plan never changes but for its checkpoint, which only grows, and
\* work is committed for a running job alone, by the owner of its lease, which
\* holds the order lock.
THEOREM WorkIsFencedAlways == Spec => WorkIsFenced
<1> DEFINE Fenced ==
             \A j \in Job : spec'[j] # spec[j] /\ spec[j].state # "absent" =>
                 /\ ledger[j].status = "running"
                 /\ orderLock = ledger[j].owner
                 /\ spec[j].state = "planned" =>
                      spec'[j].rows = spec[j].rows /\ spec'[j].next > spec[j].next
<1>1. ASSUME ProcessingInv, Next PROVE Fenced
  <2> SUFFICES ASSUME NEW j \in Job, spec'[j] # spec[j], spec[j].state # "absent"
               PROVE  /\ ledger[j].status = "running"
                      /\ orderLock = ledger[j].owner
                      /\ spec[j].state = "planned" =>
                           spec'[j].rows = spec[j].rows /\ spec'[j].next > spec[j].next
    OBVIOUS
  <2>1. ASSUME NEW r \in Run, PlanCommit(r) \/ ApplyCommit(r)
        PROVE  /\ ledger[j].status = "running"
               /\ orderLock = ledger[j].owner
               /\ spec[j].state = "planned" =>
                    spec'[j].rows = spec[j].rows /\ spec'[j].next > spec[j].next
    BY <1>1, <2>1, WorkOf
  <2>2. ASSUME NEW k \in Job, Submit(k) PROVE FALSE
    <3>1. ledger[k].status = "absent" /\ PlanOf(k) /\ \A i \in Job : i # k => spec'[i] = spec[i]
      BY <1>1, <2>2 DEF Submit, ProcessingInv, Typed, Plans
    <3> QED BY <3>1 DEF PlanOf
  <2> QED BY <1>1, <2>1, <2>2, PlansAreWrittenByWork
<1>2. ProcessingInv /\ [Next]_vars => [Fenced]_vars
  BY <1>1
<1> HIDE DEF Fenced
<1>3. Spec => [][Fenced]_vars
  BY <1>2, ProcessingInvHolds, PTL DEF Spec
<1> QED BY <1>3 DEF WorkIsFenced, Fenced

-----------------------------------------------------------------------------
(* Standby. *)

StandbyBound == \A p \in Pair : standby[p] <= Cardinality(Deferring(p))

\* What a step does to the standby of a pair and to its orders.
LEMMA StandbyStep ==
    ASSUME ProcessingInv, Standbys, Next
    PROVE  Standbys'
<1> SUFFICES ASSUME NEW p \in Pair, standby'[p] > 0 PROVE ~HasOrder(p)'
  BY DEF Standbys
<1>1. standby[p] > 0 => ~HasOrder(p)
  BY DEF Standbys
<1>2. ASSUME order'[p].job = order[p].job, standby'[p] = standby[p] PROVE ~HasOrder(p)'
  BY <1>1, <1>2 DEF HasOrder
<1>3. ASSUME NEW r \in Run, PlanCommit(r) PROVE ~HasOrder(p)'
  <2>1. WorkingAt(run[r]) /\ run[r].pc = "plan_commit" /\ order' = order
    BY <1>3, SessionTyped DEF PlanCommit
  <2>2. CASE p \in run[r].deferred
    BY <2>1, <2>2 DEF WorkingAt, HasOrder
  <2>3. CASE p \notin run[r].deferred
    BY <1>2, <1>3, <2>1, <2>3 DEF PlanCommit
  <2> QED BY <2>2, <2>3
<1>4. ASSUME NEW r \in Run, ApplyCommit(r) PROVE ~HasOrder(p)'
  <2>1. p \notin Pairs(run[r].rows)
    BY <1>4 DEF ApplyCommit
  <2>2. order'[p] = order[p] /\ standby'[p] = standby[p]
    BY <1>4, <2>1 DEF ApplyCommit
  <2> QED BY <1>2, <2>2
<1>5. ASSUME NEW q \in Pair, NEW n \in Quantity, EditGrade(q, n) PROVE ~HasOrder(p)'
  <2>1. order[p] \in OrderRow /\ order[q] \in OrderRow /\ standby' = standby
        /\ order' = [order EXCEPT ![q].quantity = n]
    BY <1>5 DEF EditGrade, ProcessingInv, Typed
  <2>2. order'[p].job = order[p].job
    BY <2>1 DEF OrderRow, ProcessingInv, Typed
  <2> QED BY <1>2, <2>1, <2>2
<1>6. ASSUME NEW r \in Run, Session(r), ~PlanCommit(r), ~ApplyCommit(r)
      PROVE  order' = order /\ standby' = standby
  BY <1>6 DEF Session, EnterSession, Claim, PlanExists, BuildPlan, PlanCas, ApplyChunk,
              ApplyCas, FinishCas, FinishCommit, ExitSession, LeaseLost, Transition, Error,
              KeeperLost, Crash, ServerDropsConnection, Cas, data
<1>7. ASSUME Refresh \/ \E j \in Job : Submit(j) \/ LeaseRunsOut(j) \/ DeadlinePasses(j)
                                       \/ Sweep(j)
      PROVE  order' = order /\ standby' = standby
  BY <1>7 DEF Submit, LeaseRunsOut, DeadlinePasses, Sweep, Refresh, data
<1> QED BY <1>2, <1>3, <1>4, <1>5, <1>6, <1>7 DEF Next, Environment

LEMMA StandbyBoundStep ==
    ASSUME IsFiniteSet(Job), ProcessingInv, StandbyBound, Next
    PROVE  StandbyBound'
<1> SUFFICES ASSUME NEW p \in Pair PROVE standby'[p] <= Cardinality(Deferring(p)')
  BY DEF StandbyBound
<1>1. /\ standby[p] \in Nat /\ standby[p] <= Cardinality(Deferring(p))
      /\ Cardinality(Deferring(p)) \in Nat /\ IsFiniteSet(Deferring(p))
  <2>1. Deferring(p) \in SUBSET Job
    BY DEF Deferring
  <2>2. IsFiniteSet(Deferring(p))
    BY <2>1, FS_Subset
  <2> QED BY <2>2, FS_CardinalityType DEF StandbyBound, ProcessingInv, Typed
<1>2. ASSUME standby'[p] \in {standby[p], 0}, Deferring(p)' = Deferring(p)
      PROVE  standby'[p] <= Cardinality(Deferring(p)')
  BY <1>1, <1>2
<1>3. CASE spec' = spec /\ standby' = standby
  BY <1>2, <1>3 DEF Deferring
<1>4. ASSUME NEW j \in Job, Submit(j)
      PROVE  standby'[p] <= Cardinality(Deferring(p)')
  <2>1. spec[j].deferred = {} /\ spec'[j].deferred = {}
    <3>1. PlanOf(j) /\ ledger[j].status = "absent"
      BY <1>4 DEF ProcessingInv, Plans, Submit
    <3>2. spec[j].deferred = {}
      BY <3>1 DEF PlanOf
    <3>3. spec'[j].deferred = NoSpec.deferred
      BY <1>4 DEF Submit, ProcessingInv, Typed, NoSpec
    <3> QED BY <3>2, <3>3 DEF NoSpec
  <2>2. standby' = standby /\ \A k \in Job : k # j => spec'[k] = spec[k]
    BY <1>4 DEF Submit, data, ProcessingInv, Typed
  <2>3. Deferring(p)' = Deferring(p)
    BY <2>1, <2>2 DEF Deferring
  <2> QED BY <1>2, <2>2, <2>3
<1>5. ASSUME NEW r \in Run, ApplyCommit(r)
      PROVE  standby'[p] <= Cardinality(Deferring(p)')
  <2> DEFINE j == run[r].job
  <2>1. spec[j].state = "planned"
    BY <1>5, SessionTyped DEF ApplyCommit, WorkingAt
  <2>2. j \in Job /\ spec'[j].deferred = spec[j].deferred
        /\ \A k \in Job : k # j => spec'[k] = spec[k]
    BY <1>5, <2>1, WorkOf
  <2>3. Deferring(p)' = Deferring(p)
    BY <2>2 DEF Deferring
  <2>4. standby'[p] \in {standby[p], 0}
    BY <1>5 DEF ApplyCommit
  <2> QED BY <1>2, <2>3, <2>4
<1>6. ASSUME NEW r \in Run, PlanCommit(r)
      PROVE  standby'[p] <= Cardinality(Deferring(p)')
  <2> DEFINE j == run[r].job
  <2>1. /\ j \in Job /\ spec[j].state = "pending" /\ spec'[j].deferred = run[r].deferred
        /\ \A k \in Job : k # j => spec'[k] = spec[k]
    BY <1>6, WorkOf
  <2>2. spec[j].deferred = {}
    BY <2>1 DEF ProcessingInv, Plans, PlanOf
  <2>3. standby'[p] = IF p \in run[r].deferred THEN standby[p] + 1 ELSE standby[p]
    BY <1>6 DEF PlanCommit
  <2>4. CASE p \notin run[r].deferred
    <3>1. Deferring(p)' = Deferring(p)
      BY <2>1, <2>2, <2>4 DEF Deferring
    <3> QED BY <1>2, <2>3, <2>4, <3>1
  <2>5. CASE p \in run[r].deferred
    <3>1. Deferring(p)' = Deferring(p) \cup {j} /\ j \notin Deferring(p)
      BY <2>1, <2>2, <2>5 DEF Deferring
    <3>2. Cardinality(Deferring(p) \cup {j}) = Cardinality(Deferring(p)) + 1
      BY <1>1, <3>1, FS_AddElement
    <3> QED BY <1>1, <2>3, <2>5, <3>1, <3>2
  <2> QED BY <2>4, <2>5
<1> QED BY <1>3, <1>4, <1>5, <1>6, PlansAreWrittenByWork

\* A pair is put on standby at most once per job that left it out of its plan,
\* however often the job is attempted, and never while it has an order.  Jobs
\* are finitely many because one counts them.
THEOREM StandbyIsCounted ==
    ASSUME IsFiniteSet(Job)
    PROVE  Spec => []StandbyCountsJobs
<1>1. Init => Standbys /\ StandbyBound
  <2> SUFFICES ASSUME Init, NEW p \in Pair
               PROVE  standby[p] = 0 /\ Cardinality(Deferring(p)) \in Nat
    BY DEF Standbys, StandbyBound
  <2>1. standby[p] = 0
    BY DEF Init
  <2>2. Deferring(p) \in SUBSET Job
    BY DEF Deferring
  <2>3. Cardinality(Deferring(p)) \in Nat
    BY <2>2, FS_Subset, FS_CardinalityType
  <2> QED BY <2>1, <2>3
<1>2. ProcessingInv /\ Standbys /\ StandbyBound /\ [Next]_vars => Standbys' /\ StandbyBound'
  <2>1. ASSUME ProcessingInv, Standbys, StandbyBound, UNCHANGED vars
        PROVE  Standbys' /\ StandbyBound'
    BY <2>1 DEF Standbys, StandbyBound, Deferring, HasOrder, vars, data
  <2> QED BY <2>1, StandbyStep, StandbyBoundStep
<1>3. Standbys /\ StandbyBound => StandbyCountsJobs
  BY DEF Standbys, StandbyBound, StandbyCountsJobs, Deferring
<1> QED BY <1>1, <1>2, <1>3, ProcessingInvHolds, PTL DEF Spec

-----------------------------------------------------------------------------
(* The ranges of the columns. *)

\* A plan has a row per pair at most, a chunk is a part of a plan.
Fits ==
    /\ \A j \in Job : Len(spec[j].rows) <= Cardinality(Pair)
    /\ \A r \in Run : Len(run[r].rows) <= Cardinality(Pair)
    /\ stock <= MaxStock

LEMMA RowsForFit ==
    ASSUME NEW S \in SUBSET Pair, NEW rows \in RowsFor(S)
    PROVE  Len(rows) <= Cardinality(Pair)
<1>1. Cardinality(S) <= Cardinality(Pair) /\ Cardinality(S) \in Nat
  BY ProcessingAssumption, FS_Subset, FS_CardinalityType
<1>2. rows \in [1..Cardinality(S) -> Row]
  BY DEF RowsFor
<1> HIDE DEF Row
<1> QED BY <1>1, <1>2

\* Only the two reads of a session give it rows: a plan, or a chunk of one.
LEMMA RowsAreRead ==
    ASSUME ProcessingInv, Next, NEW r \in Run
    PROVE  \/ run'[r].rows \in {run[r].rows, <<>>}
           \/ \E S \in SUBSET Pair : run'[r].rows \in RowsFor(S)
           \/ run[r].pc = "apply" /\ ~Complete(run[r].job) /\ run'[r].rows = NextChunk(run[r].job)
<1> DEFINE Same == run'[r].rows \in {run[r].rows, <<>>}
<1>0. run \in [Run -> Execution] /\ run[r] \in Execution
  BY DEF ProcessingInv, Typed
<1>1. ASSUME run' = run \/ \E q \in Run : q # r /\ Session(q) PROVE Same
  <2>1. ASSUME NEW q \in Run, Session(q), q # r PROVE run'[r] = run[r]
    BY <1>0, <2>1 DEF Session, EnterSession, Claim, PlanExists, BuildPlan, PlanCas, PlanCommit,
                ApplyChunk, ApplyCommit,
                ApplyCas, FinishCas, FinishCommit, ExitSession, LeaseLost, Transition, Error,
                KeeperLost, Crash, ServerDropsConnection, Cas, Goto, Leave, Fails, Release
  <2> QED BY <1>1, <2>1
<1>2. CASE Environment
  <2>1. run' = run
    BY <1>2 DEF Environment, Submit, LeaseRunsOut, DeadlinePasses, Sweep, Refresh, EditGrade
  <2> QED BY <1>1, <2>1
<1>3. CASE BuildPlan(r)
  <2>1. PICK S \in SUBSET Eligible : \E rows \in RowsFor(S) :
           run' = [run EXCEPT ![r] = [run[r] EXCEPT !.pc = "plan_cas", !.rows = rows,
                                                    !.deferred = Eligible \ S]]
    BY <1>3 DEF BuildPlan
  <2>0. PICK rows \in RowsFor(S) :
           run' = [run EXCEPT ![r] = [run[r] EXCEPT !.pc = "plan_cas", !.rows = rows,
                                                    !.deferred = Eligible \ S]]
    BY <2>1
  <2>2. run'[r].rows = rows
    BY <1>0, <2>0 DEF Execution
  <2> QED BY <2>2 DEF Eligible
<1>4. CASE ApplyChunk(r)
  <2> DEFINE rows == NextChunk(run[r].job)
  <2>1. CASE Goto(r, "finish")
    BY <1>0, <2>1 DEF Goto, Execution
  <2>2. CASE Fails(r, "fail")
    BY <1>0, <2>2 DEF Fails, Release, Fresh
  <2>3. CASE /\ run[r].pc = "apply" /\ ~Complete(run[r].job)
             /\ run' = [run EXCEPT ![r] = [run[r] EXCEPT !.pc = "apply_cas", !.rows = rows]]
    <3> HIDE DEF rows
    <3>1. run'[r].rows = rows
      BY <1>0, <2>3 DEF Execution
    <3> QED BY <2>3, <3>1 DEF rows
  <2> QED BY <1>4, <2>1, <2>2, <2>3 DEF ApplyChunk
<1>5. CASE \/ LeaseLost(r) \/ ExitSession(r) \/ ServerDropsConnection(r) \/ Transition(r)
           \/ Crash(r) \/ \E outcome \in {"none", "retry", "fail"} : Error(r, outcome)
  BY <1>0, <1>5 DEF LeaseLost, ExitSession, ServerDropsConnection, Transition, Error,
                    Crash, Leave, Fails, Release, Fresh
<1>6. CASE Claim(r) \/ PlanExists(r) \/ KeeperLost(r) \/ \E j \in Job : EnterSession(r, j)
  <2>1. CASE Claim(r)
    BY <1>0, <2>1 DEF Claim, Goto, Leave, Release, Fresh, Execution
  <2>2. CASE PlanExists(r)
    BY <1>0, <2>2 DEF PlanExists, Goto, Execution
  <2>3. CASE KeeperLost(r)
    BY <1>0, <2>3 DEF KeeperLost, Execution
  <2>4. ASSUME NEW j \in Job, EnterSession(r, j) PROVE Same
    BY <1>0, <2>4 DEF EnterSession, Execution
  <2> QED BY <1>6, <2>1, <2>2, <2>3, <2>4
<1>7. CASE PlanCas(r) \/ ApplyCas(r) \/ FinishCas(r) \/ FinishCommit(r)
  BY <1>0, <1>7 DEF PlanCas, ApplyCas, FinishCas, FinishCommit, Cas, Goto, Execution
<1>8. CASE PlanCommit(r)
  BY <1>0, <1>8 DEF PlanCommit, Execution
<1>9. CASE ApplyCommit(r)
  BY <1>0, <1>9 DEF ApplyCommit, Execution
<1> QED BY <1>1, <1>2, <1>3, <1>4, <1>5, <1>6, <1>7, <1>8, <1>9 DEF Next, Session

LEMMA FitsStep ==
    ASSUME ProcessingInv, Fits, [Next]_vars
    PROVE  Fits'
<1>1. CASE UNCHANGED vars
  BY <1>1 DEF Fits, vars, data
<1>2. CASE Next
  <2>0. Cardinality(Pair) \in Nat
    BY ProcessingAssumption, FS_CardinalityType
  <2>1. ASSUME NEW r \in Run PROVE Len(run'[r].rows) <= Cardinality(Pair)
    <3> DEFINE j == run[r].job
    <3>1. CASE run'[r].rows \in {run[r].rows, <<>>}
      BY <2>0, <3>1 DEF Fits
    <3>2. CASE \E S \in SUBSET Pair : run'[r].rows \in RowsFor(S)
      BY <3>2, RowsForFit
    <3>3. CASE run[r].pc = "apply" /\ ~Complete(j) /\ run'[r].rows = NextChunk(j)
      <4>1. j \in Job /\ spec[j].state = "planned"
        BY <3>3, SessionTyped DEF WorkingAt, InSession
      <4>2. spec[j] \in Plan /\ PlanOf(j)
        BY <4>1 DEF ProcessingInv, Typed, Plans
      <4>3. /\ Len(run'[r].rows) \in Nat
            /\ spec[j].next + Len(run'[r].rows) <= Len(spec[j].rows) + 1
        BY <3>3, <4>1, <4>2, NextChunkOf
      <4>4. /\ spec[j].next \in Nat /\ spec[j].next >= 1 /\ Len(spec[j].rows) \in Nat
            /\ Len(spec[j].rows) <= Cardinality(Pair)
        BY <4>1, <4>2 DEF Plan, Fits
      <4> HIDE DEF j
      <4> QED BY <2>0, <4>3, <4>4
    <3> QED BY <1>2, <3>1, <3>2, <3>3, RowsAreRead
  <2>2. ASSUME NEW j \in Job PROVE Len(spec'[j].rows) <= Cardinality(Pair)
    <3>1. CASE spec'[j].rows = spec[j].rows
      BY <3>1 DEF Fits
    <3>2. ASSUME NEW k \in Job, Submit(k)
          PROVE  spec'[j].rows = spec[j].rows \/ spec'[j].rows = <<>>
      BY <3>2 DEF Submit, NoSpec, ProcessingInv, Typed
    <3>3. ASSUME NEW r \in Run, PlanCommit(r)
          PROVE  spec'[j].rows \in {spec[j].rows, run[r].rows}
      BY <3>3 DEF PlanCommit, ProcessingInv, Typed
    <3>4. ASSUME NEW r \in Run, ApplyCommit(r) PROVE spec'[j].rows = spec[j].rows
      <4>1. spec[run[r].job].state = "planned"
        BY <3>4, SessionTyped DEF ApplyCommit, WorkingAt
      <4> QED BY <3>4, <4>1, WorkOf
    <3> QED BY <1>2, <2>0, <3>1, <3>2, <3>3, <3>4, PlansAreWrittenByWork DEF Fits
  <2>3. stock' <= MaxStock
    <3>1. CASE Refresh
      <4>1. stock' \in 0..MaxStock
        BY <3>1 DEF Refresh
      <4> QED BY <4>1, ProcessingAssumption
    <3>2. CASE Environment /\ ~Refresh
      <4>1. stock' = stock
        BY <3>2 DEF Environment, Submit, LeaseRunsOut, DeadlinePasses, Sweep, EditGrade, data
      <4> QED BY <4>1 DEF Fits
    <3>3. ASSUME NEW r \in Run, Session(r) PROVE stock' <= MaxStock
      <4>1. stock' = stock
        BY <3>3 DEF Session, EnterSession, Claim, PlanExists, BuildPlan, PlanCas, PlanCommit,
              ApplyChunk, ApplyCas, ApplyCommit, FinishCas, FinishCommit, ExitSession,
              LeaseLost, Transition, Error, KeeperLost, Crash, ServerDropsConnection, Cas, data
      <4> QED BY <4>1 DEF Fits
    <3> QED BY <1>2, <3>1, <3>2, <3>3 DEF Next
  <2> QED BY <2>1, <2>2, <2>3 DEF Fits
<1> QED BY <1>1, <1>2

LEMMA BoundedRows ==
    ASSUME NEW s \in Seq(Row), NEW n \in Nat, Len(s) <= n
    PROVE  s \in BoundedSeq(Row, n)
<1>1. Len(s) \in 0..n /\ s \in [1..Len(s) -> Row]
  OBVIOUS
<1> HIDE DEF Row
<1> QED BY <1>1 DEF BoundedSeq, SeqOf

LEMMA RangesHold ==
    ASSUME IsFiniteSet(Job), ProcessingInv, StandbyBound, Fits
    PROVE  TypeOK
<1> DEFINE n == Cardinality(Pair)
<1>0. n \in Nat
  BY ProcessingAssumption, FS_CardinalityType
<1> HIDE DEF n
<1>1. ASSUME NEW j \in Job
      PROVE  /\ spec[j] \in SpecRow
             /\ ledger[j] \in [status : Dispatchable \cup Terminal \cup {"absent", "running"},
                               attempt : 0..MaxAttempts, owner : Run \cup {None},
                               live : BOOLEAN, late : BOOLEAN, progress : 0..n]
  <2>1. spec[j] \in Plan /\ ledger[j] \in LedgerRow /\ PlanOf(j) /\ Len(spec[j].rows) <= n
    BY DEF ProcessingInv, Typed, Plans, Fits, n
  <2>2. spec[j].rows \in Seq(Row) /\ spec[j].next \in Nat \ {0} /\ Len(spec[j].rows) \in Nat
    BY <2>1 DEF Plan
  <2>3. spec[j].rows \in BoundedSeq(Row, n)
    BY <1>0, <2>1, <2>2, BoundedRows
  <2>4. spec[j].next \in 1..(n + 1) /\ ledger[j].progress \in 0..n
    BY <1>0, <2>1, <2>2 DEF PlanOf, Applied
  <2> HIDE DEF Row
  <2>5. spec[j] \in SpecRow
    BY <2>1, <2>3, <2>4 DEF Plan, SpecRow, n
  <2> QED BY <2>1, <2>4, <2>5 DEF LedgerRow, Statuses
<1>2. ASSUME NEW p \in Pair PROVE standby[p] \in 0..Cardinality(Job)
  <2>1. Deferring(p) \in SUBSET Job
    BY DEF Deferring
  <2>2. /\ Cardinality(Deferring(p)) <= Cardinality(Job)
        /\ Cardinality(Deferring(p)) \in Nat /\ Cardinality(Job) \in Nat
    BY <2>1, FS_Subset, FS_CardinalityType
  <2>3. standby[p] \in Nat /\ standby[p] <= Cardinality(Deferring(p))
    BY DEF ProcessingInv, Typed, StandbyBound
  <2> QED BY <2>2, <2>3
<1>3. ASSUME NEW r \in Run
      PROVE  /\ run[r].pc \in Pcs /\ run[r].job \in Job \cup {None}
             /\ run[r].lost \in BOOLEAN /\ run[r].outcome \in {"none", "retry", "fail"}
             /\ run[r].rows \in BoundedSeq(Row, n) /\ run[r].deferred \subseteq Pair
  <2>1. run[r] \in Execution /\ Len(run[r].rows) <= n
    BY DEF ProcessingInv, Typed, Fits, n
  <2>2. run[r].rows \in Seq(Row)
    BY <2>1 DEF Execution
  <2>3. run[r].rows \in BoundedSeq(Row, n)
    BY <1>0, <2>1, <2>2, BoundedRows
  <2> QED BY <2>1, <2>3 DEF Execution
<1>4. stock \in 0..MaxStock
  BY ProcessingAssumption DEF ProcessingInv, Typed, Fits
<1>5. Typed
  BY DEF ProcessingInv
<1> QED BY <1>1, <1>2, <1>3, <1>4, <1>5 DEF TypeOK, Typed, OrderRow, Pcs, InSession, n

\* The columns keep their ranges: no plan outgrows the pairs, no checkpoint its
\* plan, no attempt its limit, and no standby count the jobs that there are.
THEOREM TypeCorrect ==
    ASSUME IsFiniteSet(Job)
    PROVE  Spec => []TypeOK
<1>1. Init => StandbyBound /\ Fits
  <2>1. Cardinality(Pair) \in Nat /\ MaxStock \in Nat
    BY ProcessingAssumption, FS_CardinalityType
  <2>2. ASSUME NEW p \in Pair PROVE Cardinality(Deferring(p)) \in Nat
    <3>1. Deferring(p) \in SUBSET Job
      BY DEF Deferring
    <3> QED BY <3>1, FS_Subset, FS_CardinalityType
  <2> QED BY <2>1, <2>2 DEF Init, StandbyBound, Fits, NoSpec, Fresh
<1>2. ProcessingInv /\ StandbyBound /\ Fits /\ [Next]_vars => StandbyBound' /\ Fits'
  <2>1. ASSUME ProcessingInv, StandbyBound, UNCHANGED vars
        PROVE  StandbyBound'
    BY <2>1 DEF StandbyBound, Deferring, vars, data
  <2> QED BY <2>1, StandbyBoundStep, FitsStep
<1>3. ProcessingInv /\ StandbyBound /\ Fits => TypeOK
  BY RangesHold
<1> QED BY <1>1, <1>2, <1>3, ProcessingInvHolds, PTL DEF Spec

-----------------------------------------------------------------------------
(* Stock.  What the orders reserve is a sum over the pairs; as in             *)
(* AllocationProofs it is unfolded by induction over finite sets.             *)

\* A set of numbers that is not empty has a least one.
LEMMA HasLeast ==
  ASSUME NEW S, S \subseteq Nat, S # {}
  PROVE  \E x \in S : \A y \in S : x <= y
<1>1. PICK x \in S : \A y \in S : ~ (<<y, x>> \in OpToRel(<, Nat))
  BY NatLessThanWellFounded, WFMin
<1>2. \A y \in S : ~ (y < x)
  <2> TAKE y \in S
  <2>1. x \in Nat /\ y \in Nat /\ <<y, x>> \in Nat \X Nat
    OBVIOUS
  <2> QED BY <1>1, <2>1 DEF OpToRel
<1> QED BY <1>2

\* Induction over the numbers, on a set: no operator is passed.
LEMMA Upwards ==
  ASSUME NEW G, 0 \in G, \A n \in Nat : n \in G => n + 1 \in G
  PROVE  Nat \subseteq G
<1> SUFFICES ASSUME Nat \ G # {} PROVE FALSE
  OBVIOUS
<1>1. PICK n \in Nat \ G : \A m \in Nat \ G : n <= m
  BY HasLeast
<1>2. n # 0
  BY <1>1
<1>3. n - 1 \in Nat /\ (n - 1) + 1 = n
  BY <1>2
<1>4. n - 1 \in G
  BY <1>1, <1>3
<1> QED BY <1>1, <1>3, <1>4

\* Induction over a finite set: what holds of {} and survives one more element
\* holds of the set.
LEMMA FiniteInduction ==
  ASSUME NEW S, IsFiniteSet(S), NEW G, {} \in G,
         \A T \in SUBSET S : \A x \in S : T \in G /\ x \notin T => T \cup {x} \in G
  PROVE  S \in G
<1> DEFINE N == {n \in Nat : \A T \in SUBSET S : Cardinality(T) = n => T \in G}
<1>1. \A T \in SUBSET S : IsFiniteSet(T) /\ Cardinality(T) \in Nat
  BY FS_Subset, FS_CardinalityType
<1>2. 0 \in N
  BY <1>1, FS_EmptySet
<1>3. ASSUME NEW n \in Nat, n \in N PROVE n + 1 \in N
  <2> SUFFICES ASSUME NEW T \in SUBSET S, Cardinality(T) = n + 1 PROVE T \in G
    OBVIOUS
  <2>1. T # {}
    BY <1>1, FS_EmptySet
  <2>2. PICK x \in T : TRUE
    BY <2>1
  <2>3. Cardinality(T \ {x}) = Cardinality(T) - 1 /\ T \ {x} \in SUBSET S
    BY <1>1, FS_RemoveElement
  <2>4. T \ {x} \in G
    BY <1>1, <1>3, <2>3
  <2>5. T = (T \ {x}) \cup {x}
    OBVIOUS
  <2> QED BY <2>2, <2>3, <2>4, <2>5
<1>4. Nat \subseteq N
  <2> HIDE DEF N
  <2> QED BY <1>2, <1>3, Upwards
<1> QED BY <1>1, <1>4

\* g is the function that takes a set apart element by element, as pick says.
Rec(g, D, b, h, pick) ==
  \A s \in D : g[s] = IF s = {} THEN b ELSE h[<<pick[s], g[s \ {pick[s]}]>>]

\* There is such a function, for every choice function and every step h.
LEMMA SetRecursion ==
  ASSUME NEW S, IsFiniteSet(S), NEW A, NEW b \in A, NEW h \in [S \X A -> A],
         NEW pick, \A s \in (SUBSET S) \ {{}} : pick[s] \in s
  PROVE  \E g \in [SUBSET S -> A] : Rec(g, SUBSET S, b, h, pick)
<1> DEFINE Upto(n) == {s \in SUBSET S : Cardinality(s) <= n}
           N == {n \in Nat : \E g \in [Upto(n) -> A] : Rec(g, Upto(n), b, h, pick)}
<1>1. \A T \in SUBSET S : IsFiniteSet(T) /\ Cardinality(T) \in Nat
  BY FS_Subset, FS_CardinalityType
<1>2. 0 \in N
  <2>1. Upto(0) = {{}}
    BY <1>1, FS_EmptySet
  <2>2. [s \in Upto(0) |-> b] \in [Upto(0) -> A]
    OBVIOUS
  <2> QED BY <2>1, <2>2 DEF Rec
<1>3. ASSUME NEW n \in Nat, n \in N PROVE n + 1 \in N
  <2>1. PICK g \in [Upto(n) -> A] : Rec(g, Upto(n), b, h, pick)
    BY <1>3
  <2> DEFINE k == [s \in Upto(n + 1) |-> IF s = {} THEN b ELSE h[<<pick[s], g[s \ {pick[s]}]>>]]
  <2>2. ASSUME NEW s \in Upto(n + 1), s # {}
        PROVE  s \ {pick[s]} \in Upto(n) /\ pick[s] \in S
    <3>1. pick[s] \in s /\ s \in SUBSET S
      BY <2>2
    <3>2. Cardinality(s \ {pick[s]}) = Cardinality(s) - 1
      BY <1>1, <3>1, FS_RemoveElement
    <3> QED BY <1>1, <2>2, <3>1, <3>2
  <2>3. k \in [Upto(n + 1) -> A]
    BY <2>2
  <2>4. ASSUME NEW s \in Upto(n) PROVE k[s] = g[s]
    <3>1. s \in Upto(n + 1)
      BY <1>1
    <3> QED BY <2>1, <3>1 DEF Rec
  <2>5. ASSUME NEW s \in Upto(n + 1)
        PROVE  k[s] = IF s = {} THEN b ELSE h[<<pick[s], k[s \ {pick[s]}]>>]
    <3>1. CASE s = {}
      BY <3>1
    <3>2. CASE s # {}
      <4>1. k[s \ {pick[s]}] = g[s \ {pick[s]}]
        BY <2>2, <2>4, <3>2
      <4> QED BY <3>2, <4>1
    <3> QED BY <3>1, <3>2
  <2>6. Rec(k, Upto(n + 1), b, h, pick)
    BY <2>5 DEF Rec
  <2> QED
    <3> HIDE DEF k, Upto
    <3> QED BY <2>3, <2>6
<1>4. Nat \subseteq N
  <2> HIDE DEF N
  <2> QED BY <1>2, <1>3, Upwards
<1>5. Cardinality(S) \in N
  BY <1>1, <1>4
<1>6. SUBSET S = Upto(Cardinality(S))
  <2> SUFFICES ASSUME NEW s \in SUBSET S PROVE Cardinality(s) <= Cardinality(S)
    OBVIOUS
  <2> QED BY FS_Subset
<1> QED BY <1>5, <1>6

-----------------------------------------------------------------------------

\* The element that the folds of the community modules take first.
Choice(s) == CHOOSE x \in s : TRUE

\* The function behind MapThenFoldSet, when it adds the values of f.
Partial(f, S) ==
  CHOOSE g : g = [s \in SUBSET S |-> IF s = {} THEN 0 ELSE f[Choice(s)] + g[s \ {Choice(s)}]]

\* g adds the values of f over each part of S.
Unfolds(g, f, S) ==
  /\ g \in [SUBSET S -> Int]
  /\ \A s \in SUBSET S : g[s] = IF s = {} THEN 0 ELSE f[Choice(s)] + g[s \ {Choice(s)}]

\* A sum over a set is that function at the set.
LEMMA SumIsPartial ==
  ASSUME NEW f, NEW S
  PROVE  SumFunctionOnSet(f, S) = Partial(f, S)[S]
BY Zenon DEF SumFunctionOnSet, FoldFunctionOnSet, MapThenFoldSet, Partial, Choice

\* What is chosen from a set is in it.
LEMMA ChoiceIsIn ==
  ASSUME NEW s, s # {}
  PROVE  Choice(s) \in s
BY DEF Choice

\* Over a finite set it does add: a sum is one value plus the sum of the others.
LEMMA PartialUnfolds ==
  ASSUME NEW S, IsFiniteSet(S), NEW f, \A x \in S : f[x] \in Int
  PROVE  Unfolds(Partial(f, S), f, S)
<1> DEFINE h == [y \in S \X Int |-> f[y[1]] + y[2]]
           pick == [s \in (SUBSET S) \ {{}} |-> Choice(s)]
           Body(g) == [s \in SUBSET S |-> IF s = {} THEN 0 ELSE f[Choice(s)] + g[s \ {Choice(s)}]]
<1>1. h \in [S \X Int -> Int]
  OBVIOUS
<1>2. \A s \in (SUBSET S) \ {{}} : pick[s] \in s
  BY ChoiceIsIn
<1>3. PICK g \in [SUBSET S -> Int] : Rec(g, SUBSET S, 0, h, pick)
  <2> HIDE DEF h, pick
  <2>1. 0 \in Int
    OBVIOUS
  <2> QED BY <1>1, <1>2, <2>1, SetRecursion, Zenon
<1>4. ASSUME NEW s \in SUBSET S
      PROVE  g[s] = IF s = {} THEN 0 ELSE f[Choice(s)] + g[s \ {Choice(s)}]
  <2>1. CASE s = {}
    BY <1>3, <2>1 DEF Rec
  <2>2. CASE s # {}
    <3>1. Choice(s) \in S /\ pick[s] = Choice(s)
      BY <2>2, ChoiceIsIn
    <3>2. g[s] = h[<<pick[s], g[s \ {pick[s]}]>>]
      <4> HIDE DEF h, pick
      <4> QED BY <1>3, <2>2, Zenon DEF Rec
    <3>3. g[s \ {pick[s]}] \in Int /\ <<pick[s], g[s \ {pick[s]}]>> \in S \X Int
      <4> HIDE DEF h, pick
      <4>1. s \ {pick[s]} \in SUBSET S
        OBVIOUS
      <4> QED BY <1>3, <3>1, <4>1
    <3> QED BY <2>2, <3>1, <3>2, <3>3
  <2> QED BY <2>1, <2>2
<1>5. g = Body(g)
  BY <1>4
<1>6. Partial(f, S) = Body(Partial(f, S))
  <2> HIDE DEF Body
  <2>1. Partial(f, S) = CHOOSE k : k = Body(k)
    BY DEF Partial, Body
  <2> QED BY <1>5, <2>1, Zenon
<1> DEFINE P == Partial(f, S)
<1>7. \A s \in SUBSET S : P[s] = IF s = {} THEN 0 ELSE f[Choice(s)] + P[s \ {Choice(s)}]
  <2> HIDE DEF P
  <2>1. P = Body(P)
    BY <1>6 DEF P
  <2> QED BY <2>1
<1>8. DOMAIN P = SUBSET S
  <2> HIDE DEF P
  <2>1. P = Body(P)
    BY <1>6 DEF P
  <2> QED BY <2>1
<1>9. ASSUME NEW n \in Nat, \A s \in SUBSET S : Cardinality(s) = n => P[s] \in Int
      PROVE  \A s \in SUBSET S : Cardinality(s) = n + 1 => P[s] \in Int
  <2> HIDE DEF P
  <2> SUFFICES ASSUME NEW s \in SUBSET S, Cardinality(s) = n + 1 PROVE P[s] \in Int
    OBVIOUS
  <2>1. IsFiniteSet(s) /\ s # {}
    BY FS_Subset, FS_EmptySet
  <2>2. Choice(s) \in s
    BY <2>1, ChoiceIsIn
  <2>3. Cardinality(s \ {Choice(s)}) = Cardinality(s) - 1
    BY <2>1, <2>2, FS_RemoveElement
  <2>4. P[s \ {Choice(s)}] \in Int
    BY <1>9, <2>2, <2>3
  <2> QED BY <1>7, <2>1, <2>2, <2>4
<1>10. \A s \in SUBSET S : P[s] \in Int
  <2> DEFINE N == {n \in Nat : \A s \in SUBSET S : Cardinality(s) = n => P[s] \in Int}
  <2> HIDE DEF P
  <2>1. 0 \in N
    <3>1. \A s \in SUBSET S : Cardinality(s) = 0 => s = {}
      BY FS_Subset, FS_EmptySet
    <3>2. P[{}] = 0
      BY <1>7
    <3>3. \A s \in SUBSET S : Cardinality(s) = 0 => P[s] \in Int
      BY <3>1, <3>2
    <3> QED BY <3>3
  <2>2. \A n \in Nat : n \in N => n + 1 \in N
    BY <1>9
  <2>3. Nat \subseteq N
    <3> HIDE DEF N
    <3> QED BY <2>1, <2>2, Upwards
  <2> QED BY <2>3, FS_Subset, FS_CardinalityType
<1>11. P = [s \in SUBSET S |-> P[s]]
  <2> HIDE DEF P
  <2>1. P = Body(P)
    BY <1>6 DEF P
  <2> QED BY <2>1
<1> QED
  <2> HIDE DEF P
  <2>1. P \in [SUBSET S -> Int]
    BY <1>10, <1>11
  <2>2. Unfolds(P, f, S)
    BY <1>7, <2>1 DEF Unfolds
  <2> QED BY <2>2 DEF P

\* Induction downwards: what holds of a set whenever it holds of the set without one
\* element holds of every part of a finite set.
LEMMA Shrinking ==
  ASSUME NEW S, IsFiniteSet(S), NEW G,
         \A T \in SUBSET S : (\A x \in T : T \ {x} \in G) => T \in G
  PROVE  \A T \in SUBSET S : T \in G
<1> DEFINE N == {n \in Nat : \A T \in SUBSET S : Cardinality(T) = n => T \in G}
<1>1. \A T \in SUBSET S : IsFiniteSet(T) /\ Cardinality(T) \in Nat
  BY FS_Subset, FS_CardinalityType
<1>2. 0 \in N
  <2> SUFFICES ASSUME NEW T \in SUBSET S, Cardinality(T) = 0 PROVE T \in G
    OBVIOUS
  <2>1. T = {}
    BY <1>1, FS_EmptySet
  <2> QED BY <2>1
<1>3. ASSUME NEW n \in Nat, n \in N PROVE n + 1 \in N
  <2> SUFFICES ASSUME NEW T \in SUBSET S, Cardinality(T) = n + 1 PROVE T \in G
    OBVIOUS
  <2>1. ASSUME NEW x \in T PROVE T \ {x} \in G
    <3>1. Cardinality(T \ {x}) = Cardinality(T) - 1 /\ T \ {x} \in SUBSET S
      BY <1>1, FS_RemoveElement
    <3> QED BY <1>1, <1>3, <3>1
  <2> QED BY <2>1
<1>4. Nat \subseteq N
  <2> HIDE DEF N
  <2> QED BY <1>2, <1>3, Upwards
<1> QED BY <1>1, <1>4


\* What is added to a sum is what is added to its values: where e exceeds f it does so by
\* one, in P, and the sum of e exceeds that of f by no more than the elements of P.
LEMMA SumGrows ==
    ASSUME NEW S, IsFiniteSet(S), NEW P \in SUBSET S, NEW f, NEW e,
           \A x \in S : f[x] \in Int /\ e[x] \in Int,
           \A x \in S : e[x] <= f[x] + (IF x \in P THEN 1 ELSE 0)
    PROVE  /\ SumFunctionOnSet(f, S) \in Int /\ SumFunctionOnSet(e, S) \in Int
           /\ SumFunctionOnSet(e, S) <= SumFunctionOnSet(f, S) + Cardinality(P)
<1> DEFINE g == Partial(f, S)
           k == Partial(e, S)
           G == {T \in SUBSET S : k[T] <= g[T] + Cardinality(T \cap P)}
<1>1. Unfolds(g, f, S) /\ Unfolds(k, e, S)
  BY PartialUnfolds
<1>2. SumFunctionOnSet(f, S) = g[S] /\ SumFunctionOnSet(e, S) = k[S]
  BY SumIsPartial
<1> HIDE DEF g, k
<1>3. \A T \in SUBSET S : g[T] \in Int /\ k[T] \in Int
  BY <1>1 DEF Unfolds
<1>4. \A T \in SUBSET S : IsFiniteSet(T \cap P) /\ Cardinality(T \cap P) \in Nat
  BY FS_Subset, FS_CardinalityType
<1>5. ASSUME NEW T \in SUBSET S, \A x \in T : T \ {x} \in G PROVE T \in G
  <2>1. CASE T = {}
    <3>1. g[T] = 0 /\ k[T] = 0
      BY <1>1, <2>1 DEF Unfolds
    <3> QED BY <1>4, <3>1
  <2>2. CASE T # {}
    <3> DEFINE x == Choice(T)
               U == T \ {x}
    <3>1. x \in T
      BY <2>2, ChoiceIsIn
    <3>2. g[T] = f[x] + g[U] /\ k[T] = e[x] + k[U]
      BY <1>1, <2>2 DEF Unfolds
    <3> HIDE DEF x
    <3>3. k[U] <= g[U] + Cardinality(U \cap P)
      BY <1>5, <3>1
    <3>4. Cardinality(T \cap P) = Cardinality(U \cap P) + (IF x \in P THEN 1 ELSE 0)
      <4>1. CASE x \in P
        <5>1. (T \cap P) \ {x} = U \cap P /\ x \in T \cap P
          BY <3>1, <4>1
        <5>2. Cardinality((T \cap P) \ {x}) = Cardinality(T \cap P) - 1
          BY <1>4, <5>1, FS_RemoveElement
        <5>3. Cardinality(U \cap P) = Cardinality(T \cap P) - 1
          BY <5>1, <5>2, Zenon
        <5>4. Cardinality(T \cap P) \in Nat
          BY <1>4
        <5> QED BY <4>1, <5>3, <5>4
      <4>2. CASE x \notin P
        <5>1. T \cap P = U \cap P
          BY <4>2
        <5>2. Cardinality(T \cap P) = Cardinality(U \cap P)
          BY <5>1, Zenon
        <5>3. Cardinality(T \cap P) \in Nat
          BY <1>4
        <5> QED BY <4>2, <5>2, <5>3
      <4> QED BY <4>1, <4>2
    <3>5. g[U] \in Int /\ k[U] \in Int /\ f[x] \in Int /\ e[x] \in Int
          /\ Cardinality(U \cap P) \in Nat /\ e[x] <= f[x] + (IF x \in P THEN 1 ELSE 0)
      BY <1>3, <1>4, <3>1
    <3>6. k[T] <= g[T] + Cardinality(T \cap P)
      BY <3>2, <3>3, <3>4, <3>5
    <3> QED BY <3>6
  <2> QED BY <2>1, <2>2
<1>6. S \in G
  <2> HIDE DEF G
  <2> QED BY <1>5, Shrinking
<1>7. S \cap P = P
  OBVIOUS
<1> QED BY <1>2, <1>3, <1>6, <1>7

\* A session that has looked at the stock has looked at the stock that there still is
\* when it commits.
Room ==
    \A r \in Run : run[r].pc \in {"apply_cas", "apply_commit"} =>
      Len(run[r].rows) + Reserved <= stock

\* Without an order there is no quantity.
NoneIsNone == \A p \in Pair : ~HasOrder(p) => order[p].quantity = 0

\* What is reserved is a number.
LEMMA ReservedIsInt ==
    ASSUME Typed
    PROVE  /\ Reserved \in Int
           /\ \A p \in Pair : order[p].quantity \in Nat
<1>1. \A p \in Pair : order[p].quantity \in Nat
  <2>1. \A p \in Pair : order[p].quantity \in Quantity \cup {0}
    BY DEF Typed, OrderRow
  <2>2. Quantity \cup {0} \subseteq Nat
    BY ProcessingAssumption
  <2> QED BY <2>1, <2>2
<1> DEFINE f == [p \in Pair |-> order[p].quantity]
<1>2. Reserved = SumFunctionOnSet(f, Pair)
  BY DEF Reserved, SumFunction
<1>3. \A p \in Pair : f[p] \in Int
  BY <1>1
<1> HIDE DEF f
<1>4. SumFunctionOnSet(f, Pair) \in Int
  <2>1. {} \in SUBSET Pair /\ \A p \in Pair : f[p] <= f[p] + (IF p \in {} THEN 1 ELSE 0)
    BY <1>3
  <2> QED BY <1>3, <2>1, ProcessingAssumption, SumGrows
<1> QED BY <1>1, <1>2, <1>4

\* A chunk reserves one piece per row at most.
LEMMA ChunkReserves ==
    ASSUME ProcessingInv, NoneIsNone, NEW r \in Run, ApplyCommit(r)
    PROVE  Reserved' \in Int /\ Reserved' <= Reserved + Len(run[r].rows)
<1> DEFINE rows == run[r].rows
           f == [p \in Pair |-> order[p].quantity]
           e == [p \in Pair |-> order'[p].quantity]
           P == Pairs(rows)
<1>1. /\ run[r].pc = "apply_commit" /\ rows \in Seq(Row)
      /\ \A i \in DOMAIN rows : ~HasOrder(rows[i].pair)
  BY SessionTyped DEF ApplyCommit, WorkingAt, Execution
<1>2. P \in SUBSET Pair
  <2>1. \A i \in DOMAIN rows : rows[i] \in Row
    BY <1>1
  <2> QED BY <2>1 DEF Pairs, Row
<1>3. Cardinality(P) <= Len(rows) /\ Cardinality(P) \in Nat /\ Len(rows) \in Nat
  <2> DEFINE h == [i \in 1..Len(rows) |-> rows[i].pair]
  <2>1. Len(rows) \in Nat /\ DOMAIN rows = 1..Len(rows)
    BY <1>1
  <2> HIDE DEF rows
  <2>2. IsFiniteSet(1..Len(rows)) /\ Cardinality(1..Len(rows)) = Len(rows)
    <3>1. 1 \in Int /\ Len(rows) \in Int /\ Len(rows) - 1 + 1 = Len(rows)
          /\ (1 > Len(rows) => Len(rows) = 0)
      BY <2>1
    <3> HIDE DEF h
    <3> QED BY <3>1, FS_Interval
  <2>3. P = {h[i] : i \in 1..Len(rows)}
    BY <2>1 DEF Pairs
  <2>4. h \in Surjection(1..Len(rows), P)
    BY <2>3 DEF Surjection
  <2> QED BY <2>1, <2>2, <2>4, FS_Surjection, FS_CardinalityType
<1>4. \A p \in Pair : order'[p].quantity = IF p \in P THEN 1 ELSE order[p].quantity
  BY DEF ApplyCommit
<1>5. \A p \in P : order[p].quantity = 0
  BY <1>1, <1>2 DEF NoneIsNone, Pairs
<1>6. \A p \in Pair : order[p].quantity \in Nat
  BY ReservedIsInt DEF ProcessingInv
<1>7. Reserved = SumFunctionOnSet(f, Pair) /\ Reserved' = SumFunctionOnSet(e, Pair)
  BY DEF Reserved, SumFunction
<1> HIDE DEF P
<1>8. \A p \in Pair : /\ f[p] \in Int /\ e[p] \in Int
                      /\ e[p] <= f[p] + (IF p \in P THEN 1 ELSE 0)
  BY <1>4, <1>5, <1>6
<1> HIDE DEF f, e
<1>9. /\ SumFunctionOnSet(f, Pair) \in Int /\ SumFunctionOnSet(e, Pair) \in Int
      /\ SumFunctionOnSet(e, Pair) <= SumFunctionOnSet(f, Pair) + Cardinality(P)
  BY <1>2, <1>8, ProcessingAssumption, SumGrows
<1> QED BY <1>3, <1>7, <1>9

\* What writes orders, and what else changes the stock.
LEMMA OrdersAreWritten ==
    ASSUME Next
    PROVE  \/ order' = order /\ stock' = stock
           \/ \E r \in Run : ApplyCommit(r)
           \/ orderLock = None /\ run' = run
                /\ (Refresh \/ \E p \in Pair, q \in Quantity : EditGrade(p, q))
<1>1. CASE Environment
  BY <1>1 DEF Environment, Submit, LeaseRunsOut, DeadlinePasses, Sweep, Refresh, EditGrade, data
<1>2. ASSUME NEW r \in Run, Session(r), ~ApplyCommit(r)
      PROVE  order' = order /\ stock' = stock
  BY <1>2 DEF Session, EnterSession, Claim, PlanExists, BuildPlan, PlanCas, PlanCommit, ApplyChunk,
              ApplyCas, FinishCas, FinishCommit, ExitSession, LeaseLost, Transition, Error,
              KeeperLost, Crash, ServerDropsConnection, Cas, data
<1> QED BY <1>1, <1>2 DEF Next

\* A row without an order stays empty.
LEMMA NoneStaysNone ==
    ASSUME ProcessingInv, NoneIsNone, [Next]_vars
    PROVE  NoneIsNone'
<1>1. CASE order' = order
  BY <1>1 DEF NoneIsNone, HasOrder
<1>2. ASSUME NEW r \in Run, ApplyCommit(r) PROVE NoneIsNone'
  <2> SUFFICES ASSUME NEW p \in Pair, order'[p].job = None PROVE order'[p].quantity = 0
    BY DEF NoneIsNone, HasOrder
  <2>1. run[r].job \in Job /\ run[r].job # None
    BY <1>2, SessionTyped, ProcessingAssumption DEF ApplyCommit, InSession
  <2>2. order'[p] = order[p]
    BY <1>2, <2>1 DEF ApplyCommit
  <2> QED BY <2>2 DEF NoneIsNone, HasOrder
<1>3. ASSUME NEW q \in Pair, NEW n \in Quantity, EditGrade(q, n) PROVE NoneIsNone'
  <2> SUFFICES ASSUME NEW p \in Pair, order'[p].job = None PROVE order'[p].quantity = 0
    BY DEF NoneIsNone, HasOrder
  <2>1. order' = [order EXCEPT ![q].quantity = n] /\ order \in [Pair -> OrderRow] /\ HasOrder(q)
    BY <1>3 DEF EditGrade, ProcessingInv, Typed
  <2>2. order'[p].job = order[p].job
    BY <2>1 DEF OrderRow
  <2>3. p # q
    BY <2>1, <2>2 DEF HasOrder
  <2>4. order'[p] = order[p]
    BY <2>1, <2>3
  <2> QED BY <2>4 DEF NoneIsNone, HasOrder
<1>4. CASE Refresh
  BY <1>1, <1>4 DEF Refresh
<1> QED BY <1>1, <1>2, <1>3, <1>4, OrdersAreWritten DEF vars, data

\* A session enters the state after its look at the stock in ApplyChunk only.
LEMMA LooksAtTheStock ==
    ASSUME ProcessingInv, Next, NEW r \in Run, run'[r].pc \in {"apply_cas", "apply_commit"}
    PROVE  \/ /\ run[r].pc \in {"apply_cas", "apply_commit"}
              /\ run'[r].rows = run[r].rows
           \/ /\ ApplyChunk(r) /\ StillCurrent(run'[r].rows)
<1>0. run \in [Run -> Execution]
  BY DEF ProcessingInv, Typed
<1>1. CASE Environment
  <2>1. run' = run
    BY <1>1 DEF Environment, Submit, LeaseRunsOut, DeadlinePasses, Sweep, Refresh, EditGrade
  <2> QED BY <2>1
<1>2. ASSUME NEW q \in Run, Session(q), q # r PROVE run'[r] = run[r]
  BY <1>0, <1>2 DEF Session, EnterSession, Claim, PlanExists, BuildPlan, PlanCas, PlanCommit,
              ApplyChunk, ApplyCommit,
              ApplyCas, FinishCas, FinishCommit, ExitSession, LeaseLost, Transition, Error,
              KeeperLost, Crash, ServerDropsConnection, Cas, Goto, Leave, Fails, Release
<1>3. ASSUME ApplyChunk(r) PROVE StillCurrent(run'[r].rows)
  <2> DEFINE rows == NextChunk(run[r].job)
  <2>1. CASE Goto(r, "finish")
    BY <1>0, <2>1 DEF Goto, Execution
  <2>2. CASE Fails(r, "fail")
    BY <1>0, <2>2 DEF Fails, Release
  <2>3. CASE /\ StillCurrent(rows)
             /\ run' = [run EXCEPT ![r] = [run[r] EXCEPT !.pc = "apply_cas", !.rows = rows]]
    <3>1. run[r] \in Execution
      BY <1>0
    <3> HIDE DEF rows
    <3>2. run'[r].rows = rows
      BY <1>0, <2>3, <3>1 DEF Execution
    <3> QED BY <2>3, <3>2
  <2> QED BY <1>3, <2>1, <2>2, <2>3 DEF ApplyChunk
<1>4. ASSUME KeeperLost(r) \/ ApplyCas(r)
      PROVE  run[r].pc \in {"apply_cas", "apply_commit"} /\ run'[r].rows = run[r].rows
  <2>1. run[r] \in Execution
    BY <1>0
  <2>2. CASE KeeperLost(r)
    BY <1>0, <2>1, <2>2 DEF KeeperLost, Execution
  <2>3. CASE ApplyCas(r)
    BY <1>0, <2>1, <2>3 DEF ApplyCas, Cas, Goto, Execution
  <2> QED BY <1>4, <2>2, <2>3
<1>5. ASSUME Session(r), ~ApplyChunk(r), ~KeeperLost(r), ~ApplyCas(r)
      PROVE  run'[r].pc \notin {"apply_cas", "apply_commit"}
  <2>1. run[r] \in Execution
    BY <1>0
  <2>2. CASE \/ LeaseLost(r) \/ ExitSession(r) \/ ServerDropsConnection(r) \/ Transition(r)
             \/ Crash(r) \/ \E outcome \in {"none", "retry", "fail"} : Error(r, outcome)
    BY <1>0, <2>1, <2>2 DEF LeaseLost, ExitSession, ServerDropsConnection, Transition, Error,
                       Crash, Leave, Fails, Release, Fresh
  <2>3. CASE \/ \E j \in Job : EnterSession(r, j)
             \/ Claim(r) \/ PlanExists(r) \/ BuildPlan(r) \/ PlanCas(r) \/ PlanCommit(r)
             \/ ApplyCommit(r) \/ FinishCas(r) \/ FinishCommit(r)
    <3>1. ASSUME NEW j \in Job, EnterSession(r, j)
          PROVE  run'[r].pc \notin {"apply_cas", "apply_commit"}
      BY <1>0, <2>1, <3>1 DEF EnterSession, Execution
    <3>2. CASE Claim(r)
      BY <1>0, <2>1, <3>2 DEF Claim, Goto, Leave, Release, Fresh, Execution
    <3>3. CASE PlanExists(r)
      BY <1>0, <2>1, <3>3 DEF PlanExists, Goto, Execution
    <3>4. CASE BuildPlan(r)
      BY <1>0, <2>1, <3>4 DEF BuildPlan, Execution
    <3>5. CASE PlanCas(r) \/ FinishCas(r) \/ FinishCommit(r)
      BY <1>0, <2>1, <3>5 DEF PlanCas, FinishCas, FinishCommit, Cas, Goto, Execution
    <3>6. CASE PlanCommit(r)
      BY <1>0, <2>1, <3>6 DEF PlanCommit, Execution
    <3>7. CASE ApplyCommit(r)
      BY <1>0, <2>1, <3>7 DEF ApplyCommit, Execution
    <3> QED BY <2>3, <3>1, <3>2, <3>3, <3>4, <3>5, <3>6, <3>7
  <2> QED BY <1>5, <2>2, <2>3 DEF Session
<1> QED BY <1>1, <1>2, <1>3, <1>4, <1>5 DEF Next

\* The look at the stock stays valid, as nobody else has the order lock.
LEMMA RoomStays ==
    ASSUME ProcessingInv, Room, NEW q \in Run, [Next]_vars,
           run'[q].pc \in {"apply_cas", "apply_commit"}
    PROVE  Len(run'[q].rows) + Reserved' <= stock'
<1>1. CASE UNCHANGED vars
  BY <1>1 DEF Room, vars, data, Reserved
<1>2. CASE Next
  <2>1. run[q].pc \in InSession
    BY <1>2, LooksAtTheStock DEF InSession, ApplyChunk
  <2>2. orderLock = q
    BY <2>1 DEF ProcessingInv, OneSession
  <2>3. ASSUME NEW r \in Run, ApplyCommit(r) PROVE FALSE
    <3>0. run[r].pc = "apply_commit" /\ run[r] \in Execution /\ run \in [Run -> Execution]
      BY <2>3, SessionTyped DEF ApplyCommit, ProcessingInv, Typed
    <3>1. orderLock = r
      BY <3>0 DEF ProcessingInv, OneSession, InSession
    <3>2. run'[r].pc = "apply"
      BY <2>3, <3>0 DEF ApplyCommit, Execution
    <3> QED BY <2>2, <3>1, <3>2
  <2>4. order' = order /\ stock' = stock
    BY <1>2, <2>2, <2>3, OrdersAreWritten, ProcessingAssumption
  <2>5. Reserved' = Reserved
    BY <2>4 DEF Reserved
  <2>6. Len(run'[q].rows) + Reserved <= stock
    BY <1>2, LooksAtTheStock DEF Room, StillCurrent
  <2> QED BY <2>4, <2>5, <2>6
<1> QED BY <1>1, <1>2

\* A chunk is applied only if what all orders then reserve is in stock at that moment,
\* whether the plan is new or was frozen by an earlier attempt, before an edit or
\* before another photo.
THEOREM NothingIsOverReserved == Spec => NeverOverReserved
<1> DEFINE Enough == (\E p \in Pair : ~HasOrder(p) /\ order'[p].job # None) => Reserved' <= stock
<1>1. Init => NoneIsNone /\ Room
  BY DEF Init, NoneIsNone, Room, NoOrder, Fresh
<1>2. ProcessingInv /\ NoneIsNone /\ Room /\ [Next]_vars => NoneIsNone' /\ Room'
  BY NoneStaysNone, RoomStays DEF Room
<1>3. ProcessingInv /\ NoneIsNone /\ Room /\ [Next]_vars => [Enough]_vars
  <2> SUFFICES ASSUME ProcessingInv, NoneIsNone, Room, Next,
                      NEW p \in Pair, ~HasOrder(p), order'[p].job # None
               PROVE  Reserved' <= stock
    OBVIOUS
  <2>1. ASSUME NEW r \in Run, ApplyCommit(r) PROVE Reserved' <= stock
    <3>1. Reserved' \in Int /\ Reserved' <= Reserved + Len(run[r].rows)
      BY <2>1, ChunkReserves
    <3>2. run[r].pc = "apply_commit" /\ run[r] \in Execution
      BY <2>1, SessionTyped DEF ApplyCommit
    <3>3. Len(run[r].rows) + Reserved <= stock /\ Len(run[r].rows) \in Nat
      BY <3>2 DEF Room, Execution
    <3>4. Reserved \in Int /\ stock \in Nat
      BY ReservedIsInt DEF ProcessingInv, Typed
    <3> QED BY <3>1, <3>3, <3>4
  <2>2. ASSUME NEW q \in Pair, NEW n \in Quantity, EditGrade(q, n) PROVE FALSE
    <3>1. order' = [order EXCEPT ![q].quantity = n] /\ order \in [Pair -> OrderRow]
      BY <2>2 DEF EditGrade, ProcessingInv, Typed
    <3> QED BY <3>1 DEF HasOrder, OrderRow
  <2>3. CASE order' = order
    BY <2>3 DEF HasOrder
  <2> QED BY <2>1, <2>2, <2>3, OrdersAreWritten DEF Refresh
<1>4. Spec => [][Enough]_vars
  <2> HIDE DEF Enough
  <2> QED BY <1>1, <1>2, <1>3, ProcessingInvHolds, PTL DEF Spec
<1>5. NeverOverReserved <=> [][Enough]_vars
  BY Zenon DEF NeverOverReserved
<1> QED BY <1>4, <1>5

-----------------------------------------------------------------------------
(* The refinement of JobContract. *)

View(j) == [phase   |-> PhaseOf(ledger[j].status),
            attempt |-> ledger[j].attempt,
            holder  |-> ledger[j].owner]

\* The ways a ledger row moves.
Same(j) ==
    /\ ledger'[j].status = ledger[j].status /\ ledger'[j].attempt = ledger[j].attempt
    /\ ledger'[j].owner = ledger[j].owner

Created(j) ==
    /\ ledger[j].status = "absent" /\ ledger'[j].status = "queued"
    /\ ledger'[j].attempt = 0 /\ ledger'[j].owner = None

Given(j) ==
    /\ ledger[j].status \in Dispatchable /\ ledger'[j].status = "running"
    /\ ledger[j].attempt < MaxAttempts
    /\ ledger'[j].attempt = ledger[j].attempt + 1 /\ ledger'[j].owner \in Run

Ended(j) ==
    /\ ledger'[j].attempt = ledger[j].attempt /\ ledger'[j].owner = None
    /\ \/ ledger[j].status = "running" /\ ledger'[j].status \in {"succeeded", "failed"}
       \/ /\ ledger[j].status = "running" /\ ledger'[j].status = "retrying"
          /\ ledger[j].attempt < MaxAttempts
       \/ ledger[j].status \in Dispatchable /\ ledger'[j].status = "skipped"

RowMoves(j) == Same(j) \/ Created(j) \/ Given(j) \/ Ended(j)

LEMMA ClosedRow ==
    ASSUME ProcessingInv, NEW j \in Job, NEW status, ledger' = Closed(j, status)
    PROVE  /\ ledger'[j].status = status /\ ledger'[j].attempt = ledger[j].attempt
           /\ ledger'[j].owner = None
           /\ \A k \in Job : k # j => Same(k)
<1>1. ledger[j] \in LedgerRow
  BY DEF ProcessingInv, Typed
<1> QED BY <1>1 DEF Closed, LedgerRow, Same, ProcessingInv, Typed

LEMMA OneRowMoves ==
    ASSUME ProcessingInv, [Next]_vars
    PROVE  \A k \in Job : RowMoves(k)
<1>1. CASE UNCHANGED ledger
  BY <1>1 DEF RowMoves, Same
<1>2. ASSUME NEW j \in Job, Submit(j) PROVE \A k \in Job : RowMoves(k)
  <2>1. ledger[j] \in LedgerRow /\ PlanOf(j) /\ ledger[j].status = "absent"
        /\ ledger' = [ledger EXCEPT ![j].status = "queued"]
    BY <1>2 DEF Submit, ProcessingInv, Typed, Plans
  <2>2. ledger[j].attempt = 0 /\ ledger[j].owner = None
    BY <2>1 DEF PlanOf
  <2>3. Created(j)
    BY <2>1, <2>2 DEF Created, LedgerRow, ProcessingInv, Typed
  <2>4. \A k \in Job : k # j => Same(k)
    BY <2>1 DEF Same, ProcessingInv, Typed
  <2> QED BY <2>3, <2>4 DEF RowMoves
<1>3. ASSUME NEW j \in Job, LeaseRunsOut(j) \/ DeadlinePasses(j)
      PROVE  \A k \in Job : RowMoves(k)
  <2>1. ledger[j] \in LedgerRow
    BY DEF ProcessingInv, Typed
  <2>2. Same(j)
    BY ZenonT(30), <1>3, <2>1 DEF LeaseRunsOut, DeadlinePasses, Same, LedgerRow, ProcessingInv, Typed
  <2>3. \A k \in Job : k # j => Same(k)
    BY <1>3 DEF LeaseRunsOut, DeadlinePasses, Same, ProcessingInv, Typed
  <2> QED BY <2>2, <2>3 DEF RowMoves
<1>4. ASSUME NEW j \in Job, NEW status, ledger' = Closed(j, status),
             \/ ledger[j].status = "running" /\ status \in {"succeeded", "failed"}
             \/ /\ ledger[j].status = "running" /\ status = "retrying"
                /\ ledger[j].attempt < MaxAttempts
             \/ ledger[j].status \in Dispatchable /\ status = "skipped"
      PROVE  \A k \in Job : RowMoves(k)
  BY <1>4, ClosedRow DEF RowMoves, Ended
<1>5. ASSUME NEW j \in Job, Sweep(j) PROVE \A k \in Job : RowMoves(k)
  BY <1>4, <1>5 DEF Sweep
<1>6. ASSUME NEW r \in Run, Claim(r) PROVE \A k \in Job : RowMoves(k)
  <2> DEFINE j == run[r].job
  <2>1. CASE ~UNCHANGED ledger
    <3>1. j \in Job /\ ledger[j] \in LedgerRow
      BY <1>6, SessionTyped DEF Claim, InSession, ProcessingInv, Typed
    <3> DEFINE attempt == ledger[j].attempt + 1
               l == [ledger[j] EXCEPT !.status = "running", !.owner = r, !.live = TRUE,
                                      !.attempt = attempt]
    <3>2. ledger' = [ledger EXCEPT ![j] = l] /\ Claimable(j)
      BY <1>6, <2>1 DEF Claim
    <3> HIDE DEF attempt
    <3>3. l.status = "running" /\ l.owner = r /\ l.attempt = attempt
      BY <3>1 DEF LedgerRow
    <3> HIDE DEF l
    <3>4. Given(j)
      BY <3>1, <3>2, <3>3 DEF Given, Claimable, ProcessingInv, Typed, attempt
    <3>5. \A k \in Job : k # j => Same(k)
      BY <3>2 DEF Same, ProcessingInv, Typed
    <3> QED BY <3>4, <3>5 DEF RowMoves
  <2> QED BY <1>1, <2>1
<1>7. ASSUME NEW r \in Run, ApplyCommit(r) PROVE \A k \in Job : RowMoves(k)
  <2> DEFINE j == run[r].job
             progress == Applied(j) + Len(run[r].rows)
  <2>1. /\ ledger' = [ledger EXCEPT ![j].progress = progress]
        /\ j \in Job /\ ledger[j] \in LedgerRow
    BY <1>7, SessionTyped DEF ApplyCommit, InSession, ProcessingInv, Typed
  <2> HIDE DEF progress
  <2>2. \A k \in Job : Same(k)
    BY <2>1 DEF Same, LedgerRow, ProcessingInv, Typed
  <2> QED BY <2>2 DEF RowMoves
<1>8. ASSUME NEW r \in Run, FinishCommit(r) PROVE \A k \in Job : RowMoves(k)
  <2> DEFINE j == run[r].job
             progress == Len(spec[j].rows)
             l == [ledger[j] EXCEPT !.status = "succeeded", !.owner = None,
                                    !.live = FALSE, !.late = FALSE]
             m == [l EXCEPT !.progress = progress]
  <2>1. /\ j \in Job /\ ledger[j] \in LedgerRow
        /\ ledger[j].status = "running"
    <3>1. run[r].pc \in Committing /\ run[r].pc \in InSession
      BY <1>8 DEF FinishCommit, Committing, InSession
    <3>2. j \in Job
      BY <3>1, SessionTyped
    <3> QED BY <3>1, <3>2 DEF ProcessingInv, Typed, RowLocks
  <2>2. ledger' = [[ledger EXCEPT ![j] = l] EXCEPT ![j].progress = progress]
    BY <1>8 DEF FinishCommit, Closed
  <2> HIDE DEF progress
  <2>3. /\ m.status = "succeeded" /\ m.owner = None /\ m.attempt = ledger[j].attempt
    BY <2>1 DEF LedgerRow
  <2>4. ledger' = [ledger EXCEPT ![j] = m]
    BY <2>1, <2>2 DEF ProcessingInv, Typed
  <2> HIDE DEF m
  <2>5. Ended(j)
    BY <2>1, <2>3, <2>4 DEF Ended, ProcessingInv, Typed
  <2>6. \A k \in Job : k # j => Same(k)
    BY <2>4 DEF Same, ProcessingInv, Typed
  <2> QED BY <2>5, <2>6 DEF RowMoves
<1>9. ASSUME NEW r \in Run, Transition(r) PROVE \A k \in Job : RowMoves(k)
  <2>1. run[r].job \in Job
    BY <1>9, SessionTyped DEF Transition
  <2> QED BY <1>1, <1>4, <1>9, <2>1 DEF Transition, HoldsLease
<1>10. ASSUME NEW r \in Run, Session(r), ~Claim(r), ~ApplyCommit(r), ~FinishCommit(r),
              ~Transition(r)
       PROVE  UNCHANGED ledger
  BY <1>10 DEF Session, EnterSession, PlanExists, BuildPlan, PlanCas, PlanCommit, ApplyChunk,
              ApplyCas, FinishCas, ExitSession, LeaseLost, Error,
              KeeperLost, Crash, ServerDropsConnection, Cas
<1>11. ASSUME Refresh \/ \E p \in Pair, q \in Quantity : EditGrade(p, q)
       PROVE  UNCHANGED ledger
  BY <1>11 DEF Refresh, EditGrade
<1>12. CASE UNCHANGED vars
  BY <1>1, <1>12 DEF vars
<1> QED BY <1>1, <1>2, <1>3, <1>5, <1>6, <1>7, <1>8, <1>9, <1>10, <1>11, <1>12
        DEF Next, Environment

\* Every way a ledger row moves is a step of the contract or invisible to it.
LEMMA RowMovesKeepContract ==
    ASSUME NEW j \in Job, RowMoves(j)
    PROVE  View(j)' = View(j) \/ Contract!Step(View(j), View(j)')
<1>1. CASE Same(j)
  BY <1>1 DEF Same, View
<1>2. CASE Created(j)
  <2>1. Contract!Submitted(View(j), View(j)')
    BY <1>2 DEF Created, View, PhaseOf, Contract!Submitted, Contract!Free, Dispatchable
  <2> QED BY <2>1 DEF Contract!Step
<1>3. CASE Given(j)
  <2>1. Contract!Granted(View(j), View(j)')
    BY <1>3 DEF Given, View, PhaseOf, Contract!Granted, Dispatchable
  <2> QED BY <2>1 DEF Contract!Step
<1>4. CASE Ended(j)
  <2>1. CASE ledger[j].status = "running" /\ ledger'[j].status = "succeeded"
    <3>1. Contract!Completed(View(j), View(j)')
      BY <1>4, <2>1
         DEF Ended, View, PhaseOf, Contract!Completed, Contract!Free, Dispatchable
    <3> QED BY <3>1 DEF Contract!Step
  <2>2. CASE \/ ledger[j].status = "running" /\ ledger'[j].status = "failed"
             \/ ledger[j].status \in Dispatchable /\ ledger'[j].status = "skipped"
    <3>1. Contract!Dropped(View(j), View(j)')
      BY <1>4, <2>2
         DEF Ended, View, PhaseOf, Contract!Dropped, Contract!Free, Dispatchable
    <3> QED BY <3>1 DEF Contract!Step
  <2>3. CASE /\ ledger[j].status = "running" /\ ledger'[j].status = "retrying"
             /\ ledger[j].attempt < MaxAttempts
    <3>1. Contract!Returned(View(j), View(j)')
      BY <1>4, <2>3
         DEF Ended, View, PhaseOf, Contract!Returned, Contract!Free, Dispatchable
    <3> QED BY <3>1 DEF Contract!Step
  <2> QED BY <1>4, <2>1, <2>2, <2>3 DEF Ended
<1> QED BY <1>1, <1>2, <1>3, <1>4 DEF RowMoves

\* Seen through its ledger row, the processing of a job keeps the contract: one
\* holder at a time, no more attempts than allowed, success only from within an
\* attempt, outcomes that are final.
THEOREM ProcessingImplementsContract == Spec => KeepsContract
<1>1. Init => Contract!Init
  <2> SUFFICES ASSUME Init PROVE Contract!Init
    OBVIOUS
  <2>1. ASSUME NEW j \in Job
        PROVE  /\ PhaseOf(ledger[j].status) = "unknown"
               /\ ledger[j].attempt = 0 /\ ledger[j].owner = None
    BY DEF Init, PhaseOf, Dispatchable
  <2> QED BY <2>1 DEF Contract!Init, Contract!Free
<1>2. ASSUME ProcessingInv, ProcessingInv', [Next]_vars
      PROVE  Contract!Next
  <2>1. \A j \in Job : View(j)' = View(j) \/ Contract!Step(View(j), View(j)')
    BY <1>2, OneRowMoves, RowMovesKeepContract
  <2>2. ASSUME NEW j \in Job PROVE View(j)' \in Contract!State
    <3>1. ledger'[j] \in LedgerRow
      BY <1>2 DEF ProcessingInv, Typed
    <3> QED BY <3>1 DEF View, PhaseOf, LedgerRow, Statuses, Terminal, Dispatchable,
                        Contract!State, Contract!Phase
  <2> QED BY <2>1, <2>2 DEF View, Contract!Next
<1>3. ProcessingInv /\ ProcessingInv' /\ [Next]_vars => [Contract!Next]_([j \in Job |->
        [phase |-> PhaseOf(ledger[j].status), attempt |-> ledger[j].attempt,
         holder |-> ledger[j].owner]])
  BY <1>2
<1> QED BY <1>1, <1>3, ProcessingInvHolds, PTL DEF Spec, KeepsContract, Contract!Spec
=============================================================================
