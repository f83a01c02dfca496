------------------------ MODULE JobReservationProofs ------------------------
(***************************************************************************)
(* Proofs about JobReservation for every value of its constants: whatever   *)
(* the number of submissions and the way they share keys and scopes, the    *)
(* statements of reserve() behave as one atomic step.                       *)
(***************************************************************************)
EXTENDS JobReservation, TLAPS

JobState == {"none", "uncommitted", "active", "finished", "old", "deleted"}

Transaction == [pc : PC, target : Tx \cup {None}, outcome : Outcome \cup {"none"},
                tried : 0..InsertAttempts]

Binding == [job : Tx \cup {None}, by : Tx \cup {None}]

Answered == [outcome : Outcome \cup Failure \cup {"pending"}, job : Tx \cup {None}]

Typed ==
    /\ job \in [Tx -> JobState] /\ binding \in [Key -> Binding]
    /\ tx \in [Tx -> Transaction] /\ answer \in [Tx -> Answered]
    /\ window \in [Tx -> SUBSET Tx]

\* A transaction that has chosen its job and has not ended.
Writing == {"bind", "find_bound", "commit"}

\* The job t works with is its own, or one of its scope that it met active.
Target(t) ==
    LET j == tx[t].target
    IN  \/ tx[t].outcome = "created" /\ j = t
        \/ /\ tx[t].outcome = "coalesced" /\ j \in window[t]
           /\ job[j] \in {"active", "finished"}
           /\ ScopeOf(j) = ScopeOf(t) /\ SameFingerprint(t, j)

TransactionInv(t) ==
    /\ answer[t].outcome = "pending" <=> tx[t].pc # "end"
    /\ answer[t].outcome = "pending" => answer[t].job = None
    /\ answer[t].outcome # "binding_conflict_not_visible"
    /\ tx[t].pc # "end" => job[t] \in {"none", "uncommitted"}
    /\ job[t] = "uncommitted" <=> tx[t].pc \in Writing /\ tx[t].outcome = "created"
    /\ tx[t].pc \in Writing => Target(t)
    /\ tx[t].pc \in {"begin", "find", "match"} => tx[t].tried = 0
    /\ tx[t].pc = "insert" => tx[t].tried < InsertAttempts
    /\ tx[t].pc \notin {"begin", "end"} => ActiveJobs \subseteq window[t]

Transactions == \A t \in Tx : TransactionInv(t)

\* An uncommitted binding is that of a transaction about to commit.
BindingInv(k) ==
    /\ binding[k].job = None => binding[k].by = None
    /\ \A t \in Tx : binding[k].by = t =>
         tx[t].pc = "commit" /\ KeyOf(t) = k /\ binding[k].job = tx[t].target

Bindings == \A k \in Key : BindingInv(k)

\* Once its first SELECT found no binding, whatever t finds bound to its key was
\* bound while t was running, so the retention of that job is not over.
KeyInv(t) ==
    LET k == KeyOf(t)
    IN  /\ tx[t].pc = "commit" /\ k # None => binding[k].by = t
        /\ tx[t].pc = "find_bound" =>
             k # None /\ binding[k].job # None /\ binding[k].by = None
        /\ tx[t].pc \notin {"begin", "find", "end"} /\ k # None =>
             \A j \in Tx : binding[k].job = j => job[j] # "old"

Keys == \A t \in Tx : KeyInv(t)

\* The partial unique index on the scope.
OneActivePerScope ==
    \A i, j \in Tx :
        /\ i # j
        /\ job[i] \in {"uncommitted", "active"} /\ job[j] \in {"uncommitted", "active"}
        => ScopeOf(i) # ScopeOf(j)

ReservationInv == Typed /\ Transactions /\ Bindings /\ Keys /\ OneActivePerScope

-----------------------------------------------------------------------------
(* A statement of one transaction.                                          *)

LEMMA Known ==
    ASSUME ReservationInv, NEW t \in Tx
    PROVE  /\ tx[t] \in Transaction /\ TransactionInv(t) /\ KeyInv(t)
           /\ \A u \in Tx, k \in Key : binding[k].by = u =>
                tx[u].pc = "commit" /\ KeyOf(u) = k /\ binding[k].job = tx[u].target
           /\ None \notin Tx /\ None \notin Key
           /\ KeyOf(t) \in Key \cup {None}
  BY ReservationAssumption
     DEF ReservationInv, Typed, Transactions, Keys, Bindings, BindingInv

\* What a statement of t has to show: what it does to t, and to the bindings
\* that were its own or nobody's.
LEMMA Statement ==
    ASSUME ReservationInv, NEW t \in Tx, tx[t].pc # "end", Typed',
           \A u \in Tx \ {t} : tx'[u] = tx[u] /\ answer'[u] = answer[u] /\ job'[u] = job[u],
           job'[t] \in {"none", "uncommitted", "active"},
           \A u \in Tx \ {t} : window[u] \subseteq window'[u],
           job'[t] = "active" =>
              \A u \in Tx : tx'[u].pc \notin {"begin", "end"} => t \in window'[u],
           \A k \in Key :
              \/ binding'[k] = binding[k]
              \/ /\ binding[k].by = t \/ binding[k].job = None
                 /\ binding'[k].by \in {None, t}
                 /\ binding'[k].job = None => binding'[k].by = None
                 /\ \A j \in Tx : binding'[k].job = j => job'[j] # "old",
           \A k \in Key : binding'[k].by = t =>
              tx'[t].pc = "commit" /\ KeyOf(t) = k /\ binding'[k].job = tx'[t].target,
           TransactionInv(t)', KeyInv(t)', OneActivePerScope'
    PROVE  ReservationInv'
<1>1. job[t] \in {"none", "uncommitted"} /\ None \notin Tx
  BY Known DEF TransactionInv
<1>2. ASSUME NEW u \in Tx, u # t PROVE TransactionInv(u)'
  <2>1. TransactionInv(u) /\ tx'[u] = tx[u] /\ answer'[u] = answer[u] /\ job'[u] = job[u]
        /\ window[u] \subseteq window'[u]
    BY <1>2, Known
  <2>2. Target(u) => Target(u)'
    <3>1. \A j \in Tx : job[j] \in {"active", "finished"} => job'[j] = job[j]
      BY <1>1
    <3>2. tx[u].target \in window[u] => tx[u].target \in Tx
      BY DEF ReservationInv, Typed
    <3> QED BY <2>1, <3>1, <3>2 DEF Target, SameFingerprint
  <2>3. tx[u].pc \notin {"begin", "end"} => ActiveJobs' \subseteq window'[u]
    <3> SUFFICES ASSUME tx[u].pc \notin {"begin", "end"}, NEW j \in Tx, job'[j] = "active"
                 PROVE  j \in window'[u]
      BY DEF ActiveJobs
    <3>1. CASE j = t
      BY <2>1, <3>1
    <3>2. CASE j # t
      BY <2>1, <3>2 DEF TransactionInv, ActiveJobs
    <3> QED BY <3>1, <3>2
  <2> QED BY <2>1, <2>2, <2>3 DEF TransactionInv
<1>3. ASSUME NEW u \in Tx, u # t PROVE KeyInv(u)'
  <2>1. KeyInv(u) /\ tx'[u] = tx[u] /\ KeyOf(u) \in Key \cup {None}
    BY <1>3, Known
  <2>2. CASE KeyOf(u) = None
    BY <2>1, <2>2 DEF KeyInv
  <2>3. CASE KeyOf(u) \in Key
    <3> DEFINE k == KeyOf(u)
    <3>1. BindingInv(k)
      BY <2>3 DEF ReservationInv, Bindings
    <3>2. CASE binding'[k] = binding[k]
      <4>1. \A j \in Tx : job[j] # "old" => job'[j] # "old"
        OBVIOUS
      <4> QED BY <2>1, <3>2, <4>1 DEF KeyInv
    <3>3. CASE binding'[k] # binding[k]
      <4>1. /\ binding[k].by = t \/ binding[k].job = None
            /\ \A j \in Tx : binding'[k].job = j => job'[j] # "old"
        BY <2>3, <3>3
      <4>2. binding[k].by \in {t, None} /\ (binding[k].by = None => binding[k].job = None)
        BY <1>1, <3>1, <4>1 DEF BindingInv
      <4> QED BY <1>1, <1>3, <2>1, <2>3, <4>1, <4>2, ReservationAssumption DEF KeyInv
    <3> QED BY <3>2, <3>3
  <2> QED BY <2>1, <2>2, <2>3
<1>4. Bindings'
  <2> SUFFICES ASSUME NEW k \in Key PROVE BindingInv(k)'
    BY DEF Bindings
  <2>1. BindingInv(k)
    BY DEF ReservationInv, Bindings
  <2>2. binding'[k].job = None => binding'[k].by = None
    BY <2>1 DEF BindingInv
  <2>3. ASSUME NEW u \in Tx, binding'[k].by = u
        PROVE  tx'[u].pc = "commit" /\ KeyOf(u) = k /\ binding'[k].job = tx'[u].target
    <3>1. CASE u = t
      BY <2>3, <3>1
    <3>2. CASE u # t
      BY <1>1, <2>1, <2>3, <3>2 DEF BindingInv
    <3> QED BY <3>1, <3>2
  <2> QED BY <2>2, <2>3 DEF BindingInv
<1>5. Transactions' /\ Keys'
  BY <1>2, <1>3 DEF Transactions, Keys
<1> QED BY <1>4, <1>5 DEF ReservationInv

\* Nobody is added to those that hold a scope.
LEMMA ScopesKept ==
    ASSUME ReservationInv,
           \A j \in Tx : job'[j] \in {"uncommitted", "active"} =>
              job[j] \in {"uncommitted", "active"}
    PROVE  OneActivePerScope'
  BY DEF ReservationInv, OneActivePerScope

\* t moves on and writes nothing.
LEMMA MovesOn ==
    ASSUME ReservationInv, NEW t \in Tx, NEW e \in Transaction,
           tx' = [tx EXCEPT ![t] = e], tx[t].pc \notin {"commit", "end"},
           UNCHANGED <<job, binding, answer, window>>,
           e.pc # "end", e.pc # "begin",
           tx[t].pc # "begin",
           e.pc \in Writing =>
              \/ tx[t].pc \in Writing /\ e.outcome = tx[t].outcome /\ e.target = tx[t].target
              \/ /\ job[t] = "none" /\ e.outcome = "coalesced" /\ e.target \in ActiveJobs
                 /\ ScopeOf(e.target) = ScopeOf(t) /\ SameFingerprint(t, e.target),
           e.pc \notin Writing => tx[t].pc \notin Writing,
           e.pc \in {"find", "match"} => e.tried = 0,
           e.pc = "insert" => e.tried < InsertAttempts,
           e.pc = "commit" => KeyOf(t) = None,
           e.pc = "find_bound" =>
              KeyOf(t) # None /\ binding[KeyOf(t)].job # None /\ binding[KeyOf(t)].by = None,
           tx[t].pc = "find" /\ KeyOf(t) # None =>
              \A j \in Tx : binding[KeyOf(t)].job = j => job[j] # "old"
    PROVE  ReservationInv'
<1>1. /\ TransactionInv(t) /\ KeyInv(t) /\ None \notin Tx
      /\ \A k \in Key : binding[k].by # t
  BY Known
<1>2. /\ tx'[t] = e /\ \A u \in Tx \ {t} : tx'[u] = tx[u]
      /\ Typed'
  BY DEF ReservationInv, Typed
<1>3. TransactionInv(t)'
  <2>1. e.pc \in Writing => Target(t)'
    <3>1. CASE tx[t].pc \in Writing /\ e.outcome = tx[t].outcome /\ e.target = tx[t].target
      <4>1. Target(t)
        BY <1>1, <3>1 DEF TransactionInv
      <4> QED BY <1>2, <3>1, <4>1 DEF Target, SameFingerprint
    <3>2. CASE /\ job[t] = "none" /\ e.outcome = "coalesced" /\ e.target \in ActiveJobs
               /\ ScopeOf(e.target) = ScopeOf(t) /\ SameFingerprint(t, e.target)
      <4>1. e.target \in window[t] /\ job[e.target] = "active"
        BY <1>1, <3>2 DEF TransactionInv, ActiveJobs
      <4> QED BY <1>2, <3>2, <4>1 DEF Target, SameFingerprint
    <3> QED BY <3>1, <3>2
  <2> QED BY <1>1, <1>2, <2>1 DEF TransactionInv, ActiveJobs, Writing
<1>4. KeyInv(t)'
  BY <1>1, <1>2 DEF KeyInv
<1>5. job'[t] \in {"none", "uncommitted", "active"} /\ job'[t] # "active"
  BY <1>1 DEF TransactionInv
<1>6. OneActivePerScope'
  BY ScopesKept
<1> QED BY <1>1, <1>2, <1>3, <1>4, <1>5, <1>6, Statement

\* The transaction of t ends and leaves nothing uncommitted.
LEMMA EndsWithNothing ==
    ASSUME ReservationInv, NEW t \in Tx, tx[t].pc \notin {"begin", "end"},
           NEW result \in Answered, result.outcome \notin {"pending", "binding_conflict_not_visible"},
           tx' = [tx EXCEPT ![t] = [tx[t] EXCEPT !.pc = "end"]],
           job' = [job EXCEPT ![t] = IF job[t] = "uncommitted" THEN "none" ELSE job[t]],
           binding' = [k \in Key |-> IF binding[k].by = t THEN Unbound ELSE binding[k]],
           answer' = [answer EXCEPT ![t] = result],
           window' = window
    PROVE  ReservationInv'
<1>1. /\ tx[t] \in Transaction /\ TransactionInv(t) /\ KeyInv(t) /\ None \notin Tx
      /\ job[t] \in {"none", "uncommitted"}
  BY Known DEF TransactionInv
<1> DEFINE e == [tx[t] EXCEPT !.pc = "end"]
<1>2. e \in Transaction /\ e.pc = "end"
  BY <1>1 DEF Transaction, PC
<1>3. tx' = [tx EXCEPT ![t] = e]
  OBVIOUS
<1> HIDE DEF e
<1>4. Unbound \in Binding /\ Unbound.job = None /\ Unbound.by = None
  BY DEF Unbound, Binding
<1>5. /\ tx' \in [Tx -> Transaction] /\ tx'[t].pc = "end"
      /\ \A u \in Tx \ {t} : tx'[u] = tx[u] /\ answer'[u] = answer[u] /\ job'[u] = job[u]
      /\ job' \in [Tx -> JobState] /\ job'[t] = "none"
      /\ answer' \in [Tx -> Answered] /\ answer'[t] = result
      /\ binding' \in [Key -> Binding]
  BY <1>1, <1>2, <1>3, <1>4 DEF ReservationInv, Typed, JobState
<1>6. Typed'
  BY <1>5 DEF ReservationInv, Typed
<1>7. TransactionInv(t)'
  BY <1>5 DEF TransactionInv, Writing
<1>8. KeyInv(t)'
  BY <1>5 DEF KeyInv
<1>9. OneActivePerScope'
  BY <1>5, ScopesKept
<1>10. \A k \in Key :
          \/ binding'[k] = binding[k]
          \/ /\ binding[k].by = t \/ binding[k].job = None
             /\ binding'[k].by \in {None, t}
             /\ binding'[k].job = None => binding'[k].by = None
             /\ \A j \in Tx : binding'[k].job = j => job'[j] # "old"
  BY <1>1, <1>4
<1>11. \A k \in Key : binding'[k].by # t
  BY <1>1, <1>4
<1> QED BY <1>1, <1>5, <1>6, <1>7, <1>8, <1>9, <1>10, <1>11, Statement

LEMMA RollsBack ==
    ASSUME ReservationInv, NEW t \in Tx, tx[t].pc \notin {"begin", "end"},
           NEW outcome \in Failure \ {"binding_conflict_not_visible"}, Rollback(t, outcome)
    PROVE  ReservationInv'
<1> DEFINE result == [outcome |-> outcome, job |-> None]
<1>1. result \in Answered /\ result.outcome = outcome
  BY DEF Answered
<1>2. outcome \notin {"pending", "binding_conflict_not_visible"}
  BY DEF Failure
<1> HIDE DEF result
<1> QED BY <1>1, <1>2, EndsWithNothing DEF Rollback, result

LEMMA Replays ==
    ASSUME ReservationInv, NEW t \in Tx, tx[t].pc \notin {"begin", "commit", "end"},
           NEW j \in Tx, Replay(t, j)
    PROVE  ReservationInv'
<1> DEFINE result == [outcome |-> "replayed", job |-> j]
<1>1. result \in Answered /\ result.outcome = "replayed"
  BY DEF Answered, Outcome
<1>2. tx[t] \in Transaction /\ \A k \in Key : binding[k].by # t
  BY Known
<1>3. binding \in [Key -> Binding]
  BY DEF ReservationInv, Typed
<1>4. binding' = [k \in Key |-> IF binding[k].by = t THEN Unbound ELSE binding[k]]
  BY <1>2, <1>3 DEF Replay
<1>5. tx' = [tx EXCEPT ![t] = [tx[t] EXCEPT !.pc = "end"]]
  BY DEF Replay, ReservationInv, Typed
<1> HIDE DEF result
<1> QED BY <1>1, <1>4, <1>5, EndsWithNothing DEF Replay, result

\* A binding of a transaction that has not committed is not to an old job.
LEMMA UnseenBinding ==
    ASSUME ReservationInv, NEW t \in Tx, tx[t].pc # "commit", VisibleBinding(t) = None,
           KeyOf(t) # None, NEW j \in Tx, binding[KeyOf(t)].job = j
    PROVE  job[j] # "old" /\ binding[KeyOf(t)].by # None
<1> DEFINE k == KeyOf(t)
           u == binding[k].by
<1>1. k \in Key /\ None \notin Tx
  BY Known
<1>2. u \notin {None, t} /\ u \in Tx
  <2>1. binding[k] \in Binding
    BY <1>1 DEF ReservationInv, Typed
  <2> QED BY <1>1, <2>1 DEF VisibleBinding, Binding
<1>3. tx[u].pc = "commit" /\ tx[u].target = j /\ TransactionInv(u)
  BY <1>1, <1>2, Known
<1>4. Target(u)
  BY <1>3 DEF TransactionInv, Writing
<1>5. CASE tx[u].outcome = "created"
  <2>1. job[u] = "uncommitted"
    BY <1>3, <1>5 DEF TransactionInv, Writing
  <2>2. u = j
    BY <1>3, <1>4, <1>5 DEF Target
  <2> HIDE DEF u
  <2>3. job[j] # "old"
    BY <2>1, <2>2
  <2> QED BY <1>2, <2>3 DEF u
<1>6. CASE tx[u].outcome = "coalesced"
  BY <1>2, <1>3, <1>4, <1>6 DEF Target
<1> QED BY <1>2, <1>4, <1>5, <1>6 DEF Target

\* The binding a SELECT returns is to a job, and committed.
LEMMA SeenBinding ==
    ASSUME ReservationInv, NEW t \in Tx, tx[t].pc # "commit", VisibleBinding(t) # None
    PROVE  /\ VisibleBinding(t) \in Tx /\ KeyOf(t) \in Key
           /\ binding[KeyOf(t)].by = None /\ binding[KeyOf(t)].job = VisibleBinding(t)
<1>1. KeyOf(t) \in Key
  BY Known DEF VisibleBinding
<1>2. binding[KeyOf(t)] \in Binding
  BY <1>1 DEF ReservationInv, Typed
<1>3. binding[KeyOf(t)].by # t
  BY <1>1, Known
<1> QED BY <1>1, <1>2, <1>3 DEF VisibleBinding, Binding

LEMMA Moving ==
    ASSUME ReservationInv, NEW t \in Tx, NEW pc \in PC,
           Goto(t, pc), UNCHANGED <<job, binding, answer, window>>,
           \/ tx[t].pc = "find" /\ pc = "match" /\ VisibleBinding(t) = None
           \/ tx[t].pc = "find_again" /\ pc = "match_again"
           \/ tx[t].pc = "match" /\ pc = "insert"
           \/ tx[t].pc = "match_again" /\ pc = "insert" /\ tx[t].tried < InsertAttempts
           \/ tx[t].pc = "bind" /\ pc = "commit" /\ KeyOf(t) = None
           \/ /\ tx[t].pc = "bind" /\ pc = "find_bound"
              /\ KeyOf(t) # None /\ binding[KeyOf(t)].job # None /\ binding[KeyOf(t)].by = None
    PROVE  ReservationInv'
<1> DEFINE e == [tx[t] EXCEPT !.pc = pc]
<1>1. tx[t] \in Transaction /\ TransactionInv(t)
  BY Known
<1>2. /\ e \in Transaction /\ e.pc = pc /\ e.outcome = tx[t].outcome
      /\ e.target = tx[t].target /\ e.tried = tx[t].tried
  BY <1>1 DEF Transaction
<1>3. tx' = [tx EXCEPT ![t] = e]
  BY DEF Goto, ReservationInv, Typed
<1> HIDE DEF e
<1>4. tx[t].pc = "find" /\ KeyOf(t) # None =>
        \A j \in Tx : binding[KeyOf(t)].job = j => job[j] # "old"
  BY UnseenBinding
<1>5. e.pc \in {"find", "match"} => e.tried = 0
  BY <1>1, <1>2 DEF TransactionInv
<1>6. e.pc = "insert" => e.tried < InsertAttempts
  BY <1>1, <1>2, ReservationAssumption DEF TransactionInv
<1> QED BY <1>1, <1>2, <1>3, <1>4, <1>5, <1>6, MovesOn DEF Writing

LEMMA Finding ==
    ASSUME ReservationInv, NEW t \in Tx, FindFirst(t) \/ FindAgain(t) \/ FindBound(t)
    PROVE  ReservationInv'
<1> DEFINE j == VisibleBinding(t)
<1>1. tx[t].pc \in {"find", "find_again", "find_bound"}
  BY DEF FindFirst, FindAgain, FindBound
<1>2. CASE j # None /\ (Replay(t, j) \/ Rollback(t, "conflict"))
  <2>1. j \in Tx
    BY <1>1, <1>2, SeenBinding
  <2>2. CASE Replay(t, j)
    <3> HIDE DEF j
    <3> QED BY <1>1, <2>1, <2>2, Replays
  <2>3. CASE Rollback(t, "conflict")
    BY <1>1, <2>3, RollsBack DEF Failure
  <2> QED BY <1>2, <2>2, <2>3
<1>3. CASE j = None /\ FindBound(t)
  <2>1. KeyInv(t) /\ KeyOf(t) # None /\ binding[KeyOf(t)].job # None
        /\ binding[KeyOf(t)].by = None
    BY <1>3, Known DEF FindBound, KeyInv
  <2> QED BY <1>3, <2>1 DEF VisibleBinding
<1>4. CASE j = None /\ FindFirst(t)
  BY <1>4, Moving DEF FindFirst, Find, PC
<1>5. CASE j = None /\ FindAgain(t)
  BY <1>5, Moving DEF FindAgain, Find, PC
<1>6. CASE j # None
  BY <1>2, <1>6 DEF FindFirst, FindAgain, FindBound, Find
<1> QED BY <1>3, <1>4, <1>5, <1>6

LEMMA Beginning ==
    ASSUME ReservationInv, NEW t \in Tx, Begin(t)
    PROVE  ReservationInv'
<1> DEFINE e == [tx[t] EXCEPT !.pc = "find"]
<1>1. tx[t] \in Transaction /\ TransactionInv(t) /\ None \notin Tx
      /\ \A k \in Key : binding[k].by = t => tx[t].pc = "commit"
  BY Known
<1>2. e \in Transaction /\ e.pc = "find" /\ e.tried = tx[t].tried /\ e.outcome = tx[t].outcome
  BY <1>1 DEF Transaction, PC
<1>3. tx' = [tx EXCEPT ![t] = e] /\ tx[t].pc = "begin"
      /\ window' = [window EXCEPT ![t] = ActiveJobs] /\ UNCHANGED <<job, binding, answer>>
  BY DEF Begin, Goto, ReservationInv, Typed
<1> HIDE DEF e
<1>4. tx'[t] = e /\ \A u \in Tx \ {t} : tx'[u] = tx[u] /\ window'[u] = window[u]
  BY <1>3 DEF ReservationInv, Typed
<1>5. Typed'
  BY <1>2, <1>3 DEF ReservationInv, Typed, ActiveJobs
<1>6. window'[t] = ActiveJobs
  BY <1>3 DEF ReservationInv, Typed
<1>7. TransactionInv(t)'
  BY <1>1, <1>2, <1>3, <1>4, <1>6 DEF TransactionInv, ActiveJobs, Writing
<1>8. KeyInv(t)'
  BY <1>2, <1>4 DEF KeyInv
<1>9. OneActivePerScope'
  BY <1>3, ScopesKept
<1>10. job'[t] \in {"none", "uncommitted"}
  BY <1>1, <1>3 DEF TransactionInv
<1> QED BY <1>1, <1>3, <1>4, <1>5, <1>7, <1>8, <1>9, <1>10, Statement

LEMMA Matching ==
    ASSUME ReservationInv, NEW t \in Tx, Match(t) \/ MatchAgain(t)
    PROVE  ReservationInv'
<1>1. tx[t].pc \in {"match", "match_again"} /\ tx[t] \in Transaction /\ TransactionInv(t)
  BY Known DEF Match, MatchAgain
<1>2. ASSUME NEW j \in VisibleInScope(t), CoalesceWith(t, j) PROVE ReservationInv'
  <2>1. j \in Tx /\ j \in ActiveJobs /\ ScopeOf(j) = ScopeOf(t)
    BY DEF VisibleInScope, ActiveJobs
  <2>2. CASE Rollback(t, "conflict")
    BY <1>1, <2>2, RollsBack DEF Failure
  <2>3. CASE /\ SameFingerprint(t, j)
             /\ tx' = [tx EXCEPT ![t] = [tx[t] EXCEPT !.pc = "bind", !.target = j,
                                                      !.outcome = "coalesced"]]
             /\ UNCHANGED <<job, binding, answer, window>>
    <3> DEFINE e == [tx[t] EXCEPT !.pc = "bind", !.target = j, !.outcome = "coalesced"]
    <3>1. e \in Transaction /\ e.pc = "bind" /\ e.target = j /\ e.outcome = "coalesced"
      BY <1>1, <2>1 DEF Transaction, PC, Outcome
    <3>2. tx' = [tx EXCEPT ![t] = e]
      BY <2>3
    <3> HIDE DEF e
    <3>3. job[t] = "none"
      BY <1>1 DEF TransactionInv, Writing
    <3> QED BY <1>1, <2>1, <2>3, <3>1, <3>2, <3>3, MovesOn DEF Writing
  <2> QED BY <1>2, <2>2, <2>3 DEF CoalesceWith
<1>3. CASE Match(t) /\ Goto(t, "insert") /\ UNCHANGED <<job, binding, answer, window>>
  BY <1>3, Moving DEF Match, PC
<1>4. CASE /\ MatchAgain(t) /\ tx[t].tried < InsertAttempts /\ Goto(t, "insert")
           /\ UNCHANGED <<job, binding, answer, window>>
  BY <1>4, Moving DEF MatchAgain, PC
<1>5. CASE Rollback(t, "insert_conflict_not_visible")
  BY <1>1, <1>5, RollsBack DEF Failure
<1> QED BY <1>2, <1>3, <1>4, <1>5 DEF Match, MatchAgain

LEMMA Inserting ==
    ASSUME ReservationInv, NEW t \in Tx, InsertJob(t)
    PROVE  ReservationInv'
<1>1. tx[t].pc = "insert" /\ tx[t] \in Transaction /\ TransactionInv(t) /\ None \notin Tx
      /\ \A k \in Key : binding[k].by # t
  BY Known DEF InsertJob
<1>2. tx[t].tried < InsertAttempts /\ job[t] = "none" /\ UNCHANGED <<binding, answer, window>>
  BY <1>1 DEF InsertJob, TransactionInv, Writing
<1>3. CASE /\ JobConflicts(t) = {} /\ job' = [job EXCEPT ![t] = "uncommitted"]
           /\ tx' = [tx EXCEPT ![t] = [tx[t] EXCEPT !.pc = "bind", !.target = t,
                                                    !.outcome = "created"]]
  <2> DEFINE e == [tx[t] EXCEPT !.pc = "bind", !.target = t, !.outcome = "created"]
  <2>1. e \in Transaction /\ e.pc = "bind" /\ e.target = t /\ e.outcome = "created"
    BY <1>1 DEF Transaction, PC, Outcome
  <2>2. tx' = [tx EXCEPT ![t] = e]
    BY <1>3
  <2> HIDE DEF e
  <2>3. /\ Typed' /\ tx'[t] = e /\ job'[t] = "uncommitted"
        /\ \A u \in Tx \ {t} : tx'[u] = tx[u] /\ job'[u] = job[u]
    BY <1>2, <1>3, <2>1, <2>2 DEF ReservationInv, Typed, JobState
  <2>4. TransactionInv(t)'
    <3>1. Target(t)'
      BY <2>1, <2>3 DEF Target
    <3>2. ActiveJobs' \subseteq window'[t]
      <4>1. ActiveJobs \subseteq window[t]
        BY <1>1 DEF TransactionInv
      <4> QED BY <1>2, <2>3, <4>1 DEF ActiveJobs
    <3> QED BY <1>1, <1>2, <2>1, <2>3, <3>1, <3>2 DEF TransactionInv, Writing
  <2>5. KeyInv(t)'
    <3> SUFFICES ASSUME KeyOf(t) # None, NEW j \in Tx, binding[KeyOf(t)].job = j
                 PROVE  job'[j] # "old"
      BY <1>2, <2>1, <2>3 DEF KeyInv
    <3>1. job[j] # "old"
      BY <1>1, Known DEF KeyInv
    <3> QED BY <2>3, <3>1
  <2>6. OneActivePerScope'
    <3>1. \A j \in Tx \ {t} : job[j] \in {"uncommitted", "active"} => ScopeOf(j) # ScopeOf(t)
      BY <1>3 DEF JobConflicts
    <3> QED BY <2>3, <3>1 DEF OneActivePerScope, ReservationInv
  <2> QED BY <1>1, <1>2, <2>3, <2>4, <2>5, <2>6, Statement
<1>4. CASE /\ tx' = [tx EXCEPT ![t] = [tx[t] EXCEPT !.pc = "find_again",
                                                    !.tried = tx[t].tried + 1]]
           /\ job' = job
  <2> DEFINE tried == tx[t].tried + 1
             e == [tx[t] EXCEPT !.pc = "find_again", !.tried = tried]
  <2>1. tried \in 0..InsertAttempts
    BY <1>1, <1>2, ReservationAssumption DEF Transaction
  <2>2. tx' = [tx EXCEPT ![t] = e]
    BY <1>4
  <2> HIDE DEF tried
  <2>3. e \in Transaction /\ e.pc = "find_again"
    BY <1>1, <2>1 DEF Transaction, PC
  <2> HIDE DEF e
  <2> QED BY <1>1, <1>2, <1>4, <2>2, <2>3, MovesOn DEF Writing
<1> QED BY <1>3, <1>4 DEF InsertJob

LEMMA Binds ==
    ASSUME ReservationInv, NEW t \in Tx, InsertBinding(t)
    PROVE  ReservationInv'
<1> DEFINE k == KeyOf(t)
           b == [job |-> tx[t].target, by |-> t]
           e == [tx[t] EXCEPT !.pc = "commit"]
<1>1. tx[t].pc = "bind" /\ tx[t] \in Transaction /\ TransactionInv(t) /\ KeyInv(t)
      /\ None \notin Tx /\ UNCHANGED <<job, answer, window>> /\ k \in Key \cup {None}
  BY Known DEF InsertBinding
<1>2. CASE k = None /\ Goto(t, "commit") /\ UNCHANGED binding
  BY <1>1, <1>2, Moving DEF PC
<1>3. CASE /\ k # None /\ binding[k].job # None /\ binding[k].by = None
           /\ Goto(t, "find_bound") /\ UNCHANGED binding
  BY <1>1, <1>3, Moving DEF PC
<1>4. CASE /\ k # None /\ binding[k].job = None /\ Goto(t, "commit")
           /\ binding' = [binding EXCEPT ![k] = b]
  <2>1. Target(t) /\ tx[t].target \in Tx
    <3>1. Target(t)
      BY <1>1 DEF TransactionInv, Writing
    <3> QED BY <3>1 DEF Target, ReservationInv, Typed
  <2>2. b \in Binding /\ b.job = tx[t].target /\ b.by = t
    BY <2>1 DEF Binding
  <2>3. /\ e \in Transaction /\ e.pc = "commit" /\ e.target = tx[t].target
        /\ e.outcome = tx[t].outcome /\ e.tried = tx[t].tried
    BY <1>1 DEF Transaction, PC
  <2>4. tx' = [tx EXCEPT ![t] = e]
    BY <1>4 DEF Goto, ReservationInv, Typed
  <2> HIDE DEF e, b
  <2>5. /\ Typed' /\ tx'[t] = e /\ binding'[k] = b
        /\ \A u \in Tx \ {t} : tx'[u] = tx[u]
        /\ \A i \in Key \ {k} : binding'[i] = binding[i]
    BY <1>1, <1>4, <2>2, <2>3, <2>4 DEF ReservationInv, Typed
  <2>6. \A j \in Tx : b.job = j => job[j] # "old"
    BY <1>1, <2>1, <2>2 DEF Target, TransactionInv
  <2>7. TransactionInv(t)'
    <3>1. Target(t)'
      BY <1>1, <2>1, <2>3, <2>5 DEF Target, SameFingerprint
    <3> QED BY <1>1, <2>3, <2>5, <3>1 DEF TransactionInv, Writing, ActiveJobs
  <2>8. KeyInv(t)'
    BY <1>1, <1>4, <2>2, <2>3, <2>5, <2>6 DEF KeyInv
  <2>9. OneActivePerScope' /\ job'[t] \in {"none", "uncommitted"}
    BY <1>1, ScopesKept DEF TransactionInv
  <2>10. \A i \in Key :
            \/ binding'[i] = binding[i]
            \/ /\ binding[i].by = t \/ binding[i].job = None
               /\ binding'[i].by \in {None, t}
               /\ binding'[i].job = None => binding'[i].by = None
               /\ \A j \in Tx : binding'[i].job = j => job'[j] # "old"
    BY <1>1, <1>4, <2>1, <2>2, <2>5, <2>6
  <2>11. \A i \in Key : binding'[i].by = t =>
            tx'[t].pc = "commit" /\ KeyOf(t) = i /\ binding'[i].job = tx'[t].target
    <3>1. \A i \in Key : binding[i].by # t
      BY <1>1, Known
    <3> QED BY <1>1, <2>2, <2>3, <2>5, <3>1
  <2> QED BY <1>1, <2>5, <2>7, <2>8, <2>9, <2>10, <2>11, Statement
<1> QED BY <1>2, <1>3, <1>4 DEF InsertBinding

LEMMA Committing ==
    ASSUME ReservationInv, NEW t \in Tx, Commit(t)
    PROVE  ReservationInv'
<1> DEFINE e == [tx[t] EXCEPT !.pc = "end"]
           result == [outcome |-> tx[t].outcome, job |-> tx[t].target]
<1>1. tx[t].pc = "commit" /\ tx[t] \in Transaction /\ TransactionInv(t) /\ None \notin Tx
  BY Known DEF Commit
<1>2. job[t] \in {"none", "uncommitted"} /\ Target(t)
  BY <1>1 DEF TransactionInv, Writing
<1>3. e \in Transaction /\ e.pc = "end"
  BY <1>1 DEF Transaction, PC
<1>4. result \in Answered /\ result.outcome \in {"created", "coalesced"}
  BY <1>1, <1>2 DEF Answered, Transaction, Outcome, Target
<1>5. /\ tx' = [tx EXCEPT ![t] = e] /\ answer' = [answer EXCEPT ![t] = result]
      /\ job' = [job EXCEPT ![t] = IF job[t] = "uncommitted" THEN "active" ELSE job[t]]
      /\ window' = [u \in Tx |-> IF job[t] = "uncommitted" /\ u \in InFlight
                                   THEN window[u] \cup {t} ELSE window[u]]
  BY DEF Commit, Goto, ReservationInv, Typed
<1> HIDE DEF e, result
<1>6. /\ tx' \in [Tx -> Transaction] /\ tx'[t] = e /\ job'[t] \in {"none", "active"}
      /\ job' \in [Tx -> JobState] /\ answer' \in [Tx -> Answered] /\ answer'[t] = result
      /\ \A u \in Tx \ {t} : tx'[u] = tx[u] /\ answer'[u] = answer[u] /\ job'[u] = job[u]
      /\ job'[t] = "active" => job[t] = "uncommitted"
      /\ job[t] = "uncommitted" => job'[t] = "active"
  BY <1>2, <1>3, <1>4, <1>5 DEF ReservationInv, Typed, JobState
<1>7. /\ window' \in [Tx -> SUBSET Tx] /\ \A u \in Tx : window[u] \subseteq window'[u]
      /\ job'[t] = "active" =>
           \A u \in Tx : tx'[u].pc \notin {"begin", "end"} => t \in window'[u]
  <2>1. window' \in [Tx -> SUBSET Tx] /\ \A u \in Tx : window[u] \subseteq window'[u]
    BY <1>5 DEF ReservationInv, Typed
  <2>2. ASSUME job'[t] = "active", NEW u \in Tx, tx'[u].pc \notin {"begin", "end"}
        PROVE  t \in window'[u]
    <3>1. u # t /\ u \in InFlight /\ job[t] = "uncommitted"
      BY <1>3, <1>6, <2>2 DEF InFlight
    <3> QED BY <1>5, <3>1
  <2> QED BY <2>1, <2>2
<1>8. ASSUME NEW k \in Key
      PROVE  /\ binding'[k] \in Binding
             /\ binding[k].by # t => binding'[k] = binding[k]
             /\ binding[k].by = t => binding'[k].by = None /\ binding'[k].job = binding[k].job
  <2>1. binding[k] \in Binding
    BY DEF ReservationInv, Typed
  <2>2. binding'[k] = IF binding[k].by = t THEN [binding[k] EXCEPT !.by = None]
                                           ELSE binding[k]
    BY DEF Commit
  <2> QED BY <2>1, <2>2 DEF Binding
<1>9. Typed'
  <2>1. binding' = [k \in Key |-> binding'[k]]
    BY DEF Commit
  <2>2. binding' \in [Key -> Binding]
    BY <1>8, <2>1
  <2> QED BY <1>6, <1>7, <2>2 DEF Typed
<1>10. TransactionInv(t)'
  BY <1>3, <1>4, <1>6 DEF TransactionInv, Writing
<1>11. KeyInv(t)'
  BY <1>3, <1>6 DEF KeyInv
<1>12. OneActivePerScope'
  BY <1>6, ScopesKept
<1>13. ASSUME NEW k \in Key
       PROVE  \/ binding'[k] = binding[k]
              \/ /\ binding[k].by = t \/ binding[k].job = None
                 /\ binding'[k].by \in {None, t}
                 /\ binding'[k].job = None => binding'[k].by = None
                 /\ \A j \in Tx : binding'[k].job = j => job'[j] # "old"
  <2> SUFFICES ASSUME binding[k].by = t, NEW j \in Tx, binding'[k].job = j
               PROVE  job'[j] # "old"
    BY <1>8
  <2>1. tx[t].target = j
    BY <1>8, Known
  <2> QED BY <1>2, <1>6, <2>1 DEF Target
<1>14. \A k \in Key : binding'[k].by # t
  BY <1>1, <1>8
<1> QED BY <1>1, <1>6, <1>7, <1>9, <1>10, <1>11, <1>12, <1>13, <1>14, Statement

-----------------------------------------------------------------------------
(* What happens to jobs outside of reserve().                               *)

LEMMA Outside ==
    ASSUME ReservationInv, NEW j \in Tx, Finish(j) \/ Age(j) \/ CleanUp(j)
    PROVE  ReservationInv'
<1>1. /\ UNCHANGED <<tx, answer, window>> /\ None \notin Tx
      /\ job[j] \in {"active", "finished", "old"} /\ job'[j] \in {"finished", "old", "deleted"}
      /\ \A u \in Tx \ {j} : job'[u] = job[u]
      /\ job' \in [Tx -> JobState]
  BY ReservationAssumption DEF Finish, Age, CleanUp, ReservationInv, Typed, JobState
<1>2. ASSUME NEW k \in Key
      PROVE  /\ binding'[k] \in Binding
             /\ \/ binding'[k] = binding[k]
                \/ /\ CleanUp(j) /\ binding[k].job = j
                   /\ binding'[k].job = None /\ binding'[k].by = None
  <2>1. binding[k] \in Binding /\ Unbound \in Binding
    BY DEF ReservationInv, Typed, Binding, Unbound
  <2> QED BY <2>1 DEF Finish, Age, CleanUp, Unbound
<1>3. Typed'
  <2>1. binding' \in [Key -> Binding]
    BY <1>2 DEF Finish, Age, CleanUp, ReservationInv, Typed
  <2> QED BY <1>1, <2>1 DEF ReservationInv, Typed
<1>4. ASSUME NEW u \in Tx PROVE TransactionInv(u)'
  <2>1. TransactionInv(u)
    BY Known
  <2>2. Target(u) /\ tx[u].pc \in Writing => Target(u)'
    <3>1. CASE Age(j)
      BY <3>1 DEF Age, InFlight, Writing
    <3>2. CASE Finish(j)
      BY <1>1, <3>2 DEF Finish, Target, SameFingerprint, ReservationInv, Typed
    <3>3. CASE CleanUp(j)
      <4>1. job[j] = "old"
        BY <3>3 DEF CleanUp
      <4>2. tx[u].target \in window[u] => tx[u].target \in Tx
        BY DEF ReservationInv, Typed
      <4> QED BY <1>1, <4>1, <4>2 DEF Target, SameFingerprint
    <3> QED BY <3>1, <3>2, <3>3
  <2>3. ActiveJobs' \subseteq ActiveJobs
    BY <1>1 DEF ActiveJobs
  <2>4. /\ job'[u] = "uncommitted" <=> job[u] = "uncommitted"
        /\ tx[u].pc # "end" => job'[u] = job[u]
    BY <1>1, <2>1 DEF TransactionInv
  <2> QED BY <1>1, <2>1, <2>2, <2>3, <2>4 DEF TransactionInv
<1>5. ASSUME NEW u \in Tx PROVE KeyInv(u)'
  <2>1. KeyInv(u) /\ KeyOf(u) \in Key \cup {None}
    BY Known
  <2>2. CASE Age(j)
    <3>1. tx[u].pc \in {"begin", "end"} /\ tx' = tx
      BY <2>2 DEF Age, InFlight
    <3> QED BY <3>1 DEF KeyInv
  <2>3. CASE tx[u].pc \in {"begin", "find", "end"}
    BY <1>1, <2>3 DEF KeyInv
  <2>4. CASE ~Age(j) /\ tx[u].pc \notin {"begin", "find", "end"} /\ KeyOf(u) \in Key
    <3> DEFINE k == KeyOf(u)
    <3>1. job'[j] # "old"
      BY <2>4 DEF Finish, CleanUp, ReservationInv, Typed
    <3>2. binding'[k] = binding[k]
      <4>1. k # None
        BY <2>4, ReservationAssumption
      <4>2. binding[k].job = j => job[j] # "old"
        BY <2>1, <2>4, <4>1 DEF KeyInv
      <4> QED BY <1>2, <2>4, <4>2 DEF CleanUp
    <3> QED BY <1>1, <2>1, <3>1, <3>2 DEF KeyInv
  <2>5. CASE KeyOf(u) = None
    BY <1>1, <2>1, <2>5 DEF KeyInv
  <2> QED BY <2>1, <2>2, <2>3, <2>4, <2>5
<1>6. Bindings'
  <2> SUFFICES ASSUME NEW k \in Key PROVE BindingInv(k)'
    BY DEF Bindings
  <2>1. BindingInv(k)
    BY DEF ReservationInv, Bindings
  <2> QED BY <1>1, <1>2, <2>1 DEF BindingInv
<1>7. OneActivePerScope'
  BY <1>1, ScopesKept
<1> QED BY <1>3, <1>4, <1>5, <1>6, <1>7 DEF ReservationInv, Transactions, Keys

-----------------------------------------------------------------------------
(* The invariant.                                                           *)

LEMMA InitialInv ==
    ASSUME Init
    PROVE  ReservationInv
<1>1. None \notin Tx /\ None \notin Key /\ InsertAttempts \in Nat \ {0}
  BY ReservationAssumption
<1>2. Typed
  BY <1>1 DEF Init, Typed, JobState, Binding, Unbound, Transaction, PC, Answered, Pending
<1>3. Transactions
  BY <1>1 DEF Init, Transactions, TransactionInv, Pending, Writing
<1>4. Bindings /\ Keys
  BY <1>1 DEF Init, Bindings, BindingInv, Keys, KeyInv, Unbound
<1>5. OneActivePerScope
  BY DEF Init, OneActivePerScope
<1> QED BY <1>2, <1>3, <1>4, <1>5 DEF ReservationInv

LEMMA StepRight ==
    ASSUME ReservationInv, [Next]_vars
    PROVE  ReservationInv'
<1>1. CASE UNCHANGED vars
  BY <1>1 DEF vars, ReservationInv, Typed, Transactions, TransactionInv, Target, SameFingerprint,
              ActiveJobs, Bindings, BindingInv, Keys, KeyInv, OneActivePerScope
<1>2. ASSUME NEW t \in Tx, Reserve(t) PROVE ReservationInv'
  BY <1>2, Beginning, Finding, Matching, Inserting, Binds, Committing DEF Reserve
<1>3. ASSUME NEW t \in Tx, Abort(t) PROVE ReservationInv'
  <2>1. "aborted" \in Failure \ {"binding_conflict_not_visible"}
    BY DEF Failure
  <2> QED BY <1>3, <2>1, RollsBack DEF Abort
<1> QED BY <1>1, <1>2, <1>3, Outside DEF Next, Terminated

\* The inductive invariant: what a transaction knows of the job it works with,
\* whose the uncommitted rows are, and that a binding met late is a recent one.
THEOREM ReservationInvHolds == Spec => []ReservationInv
<1>1. Init => ReservationInv
  BY InitialInv
<1>2. ReservationInv /\ [Next]_vars => ReservationInv'
  BY StepRight
<1> QED BY <1>1, <1>2, PTL DEF Spec

\* Every column keeps its range.
THEOREM TypeCorrect == Spec => []TypeOK
<1>1. ReservationInv => TypeOK
  BY DEF ReservationInv, Typed, TypeOK, JobState, Binding, Transaction, Answered
<1> QED BY <1>1, ReservationInvHolds, PTL

\* The committed binding that stopped an INSERT is visible to the SELECT that
\* follows it: the error the code calls defensive never is the answer.
THEOREM BindingIsVisible == Spec => []BindingConflictIsVisible
<1>1. ReservationInv => BindingConflictIsVisible
  BY DEF ReservationInv, Transactions, TransactionInv, BindingConflictIsVisible
<1> QED BY <1>1, ReservationInvHolds, PTL

-----------------------------------------------------------------------------
(* The refinement of ReservationContract.                                   *)

\* What a caller is told, and what others see of a row and of a binding.
Report(pc, a) ==
    CASE pc = "begin" -> [outcome |-> "unasked", job |-> None]
      [] a.outcome \in Failure \ {"conflict"} -> [outcome |-> "error", job |-> None]
      [] OTHER -> a

Shown(state) ==
    CASE state \in {"none", "uncommitted"} -> "none"
      [] state \in {"finished", "old"}     -> "finished"
      [] OTHER                             -> state

Seen(b) == IF b.by = None THEN b.job ELSE None

LEMMA Views ==
    /\ CommittedJob = [t \in Tx |-> Shown(job[t])]
    /\ CommittedJob' = [t \in Tx |-> Shown(job'[t])]
    /\ CommittedBinding = [k \in Key |-> Seen(binding[k])]
    /\ CommittedBinding' = [k \in Key |-> Seen(binding'[k])]
    /\ ReportedAnswer = [t \in Tx |-> Report(tx[t].pc, answer[t])]
    /\ ReportedAnswer' = [t \in Tx |-> Report(tx'[t].pc, answer'[t])]
  BY DEF CommittedJob, CommittedBinding, ReportedAnswer, Shown, Seen, Report

LEMMA ReportOf ==
    ASSUME NEW pc, NEW a
    PROVE  /\ pc = "begin" /\ a.outcome = "pending" =>
                Report(pc, a) = [outcome |-> "unasked", job |-> None]
           /\ pc # "begin" /\ a.outcome \in Failure \ {"conflict"} =>
                Report(pc, a) = [outcome |-> "error", job |-> None]
           /\ pc # "begin" /\ a.outcome \notin Failure \ {"conflict"} => Report(pc, a) = a
  BY DEF Report, Failure

LEMMA ShownOf ==
    /\ Shown("none") = "none" /\ Shown("uncommitted") = "none"
    /\ Shown("active") = "active" /\ Shown("finished") = "finished"
    /\ Shown("old") = "finished" /\ Shown("deleted") = "deleted"
  BY DEF Shown

\* The jobs that callers see active.
LEMMA ActiveShown ==
    /\ Contract!ActiveJobs = ActiveJobs
    /\ \A t \in Tx : Shown(job[t]) = "active" <=> job[t] = "active"
<1>1. \A t \in Tx : Shown(job[t]) = "active" <=> job[t] = "active"
  BY DEF Shown
<1>2. \A t \in Tx : CommittedJob[t] = Shown(job[t])
  BY Views
<1> QED BY <1>1, <1>2 DEF Contract!ActiveJobs, ActiveJobs

\* A request is open while its transaction is under way.
LEMMA Opened ==
    ASSUME ReservationInv, NEW t \in Tx
    PROVE  /\ Contract!IsOpen(t) <=> tx[t].pc \notin {"begin", "end"}
           /\ tx[t].pc = "begin" => ReportedAnswer[t].outcome = "unasked"
<1>1. TransactionInv(t) /\ ReportedAnswer[t] = Report(tx[t].pc, answer[t])
  BY Known, Views
<1>2. CASE tx[t].pc = "begin"
  BY <1>1, <1>2, ReportOf DEF TransactionInv, Contract!IsOpen
<1>3. CASE tx[t].pc \notin {"begin", "end"}
  <2>1. answer[t].outcome = "pending" /\ "pending" \notin Failure
    BY <1>1, <1>3 DEF TransactionInv, Failure
  <2>2. ReportedAnswer[t] = answer[t]
    BY <1>1, <1>3, <2>1, ReportOf
  <2> QED BY <1>3, <2>1, <2>2 DEF Contract!IsOpen
<1>4. CASE tx[t].pc = "end"
  <2>1. answer[t].outcome # "pending"
    BY <1>1, <1>4 DEF TransactionInv
  <2>2. ReportedAnswer[t].outcome # "pending"
    BY <1>1, <1>4, <2>1, ReportOf
  <2> QED BY <1>4, <2>2 DEF Contract!IsOpen
<1> QED BY <1>2, <1>3, <1>4

\* A statement that tells its caller and others nothing.
LEMMA Hidden ==
    ASSUME \A t \in Tx : Shown(job'[t]) = Shown(job[t]),
           \A k \in Key : Seen(binding'[k]) = Seen(binding[k]),
           \A t \in Tx : Report(tx'[t].pc, answer'[t]) = Report(tx[t].pc, answer[t]),
           window' = window
    PROVE  /\ CommittedJob' = CommittedJob /\ CommittedBinding' = CommittedBinding
           /\ ReportedAnswer' = ReportedAnswer
           /\ UNCHANGED Contract!vars
  BY Views DEF Contract!vars

LEMMA Replies ==
    ASSUME NEW t \in Tx, NEW a, Report(tx'[t].pc, answer'[t]) = a,
           \A u \in Tx \ {t} : tx'[u] = tx[u] /\ answer'[u] = answer[u]
    PROVE  ReportedAnswer' = [ReportedAnswer EXCEPT ![t] = a]
  BY Views

\* Statements that only move their transaction on.
LEMMA MovesUnseen ==
    ASSUME ReservationInv, NEW t \in Tx, NEW e, tx' = [tx EXCEPT ![t] = e],
           tx[t].pc \notin {"begin", "end"}, e.pc \notin {"begin", "end"},
           UNCHANGED <<answer, window>>,
           \A u \in Tx : Shown(job'[u]) = Shown(job[u]),
           \A k \in Key : Seen(binding'[k]) = Seen(binding[k])
    PROVE  UNCHANGED Contract!vars
<1>1. TransactionInv(t) /\ tx'[t] = e /\ \A u \in Tx \ {t} : tx'[u] = tx[u]
  BY Known DEF ReservationInv, Typed
<1>2. answer[t].outcome = "pending" /\ "pending" \notin Failure
  BY <1>1 DEF TransactionInv, Failure
<1>3. Report(tx'[t].pc, answer'[t]) = Report(tx[t].pc, answer[t])
  BY <1>1, <1>2, ReportOf
<1>4. \A u \in Tx : Report(tx'[u].pc, answer'[u]) = Report(tx[u].pc, answer[u])
  BY <1>1, <1>3
<1> QED BY <1>4, Hidden

\* The transaction of t ends: all that is seen of it is the answer.
LEMMA EndsInView ==
    ASSUME ReservationInv, NEW t \in Tx, tx[t].pc \notin {"begin", "end"}, NEW result,
           tx' = [tx EXCEPT ![t] = [tx[t] EXCEPT !.pc = "end"]],
           job' = [job EXCEPT ![t] = IF job[t] = "uncommitted" THEN "none" ELSE job[t]],
           binding' = [k \in Key |-> IF binding[k].by = t THEN Unbound ELSE binding[k]],
           answer' = [answer EXCEPT ![t] = result]
    PROVE  /\ CommittedJob' = CommittedJob /\ CommittedBinding' = CommittedBinding
           /\ ReportedAnswer' = [ReportedAnswer EXCEPT ![t] = Report("end", result)]
<1>1. tx[t] \in Transaction /\ None \notin Tx
  BY Known
<1>2. /\ tx'[t].pc = "end" /\ answer'[t] = result
      /\ \A u \in Tx \ {t} : tx'[u] = tx[u] /\ answer'[u] = answer[u]
  BY <1>1 DEF ReservationInv, Typed, Transaction
<1>3. \A u \in Tx : Shown(job'[u]) = Shown(job[u])
  BY ShownOf DEF ReservationInv, Typed
<1>4. \A k \in Key : Seen(binding'[k]) = Seen(binding[k])
  BY <1>1 DEF Seen, Unbound
<1>5. ReportedAnswer' = [ReportedAnswer EXCEPT ![t] = Report("end", result)]
  BY <1>2, Replies
<1> QED BY <1>3, <1>4, <1>5, Views

LEMMA GivesUp ==
    ASSUME ReservationInv, NEW t \in Tx, tx[t].pc \notin {"begin", "end"},
           NEW outcome \in Failure \ {"conflict"}, Rollback(t, outcome)
    PROVE  Contract!GiveUp(t)
<1> DEFINE result == [outcome |-> outcome, job |-> None]
<1>1. /\ CommittedJob' = CommittedJob /\ CommittedBinding' = CommittedBinding
      /\ ReportedAnswer' = [ReportedAnswer EXCEPT ![t] = Report("end", result)]
      /\ window' = window
  BY EndsInView DEF Rollback
<1>2. result.outcome = outcome
  OBVIOUS
<1> HIDE DEF result
<1>3. Report("end", result) = [outcome |-> "error", job |-> None]
  BY <1>2, ReportOf
<1>4. Contract!IsOpen(t)
  BY Opened
<1> QED BY <1>1, <1>3, <1>4 DEF Contract!GiveUp, Contract!Reply, Contract!Answer

\* The request contradicts the job of its key, or one it met in its scope.
LEMMA Refuses ==
    ASSUME ReservationInv, NEW t \in Tx, tx[t].pc \notin {"begin", "end"},
           Rollback(t, "conflict"), NEW j \in Tx, ~SameFingerprint(t, j),
           \/ /\ KeyOf(t) \in Key /\ binding[KeyOf(t)].by = None
              /\ binding[KeyOf(t)].job = j
           \/ j \in window[t] /\ ScopeOf(j) = ScopeOf(t)
    PROVE  Contract!Refuse(t)
<1> DEFINE result == [outcome |-> "conflict", job |-> None]
<1>1. /\ CommittedJob' = CommittedJob /\ CommittedBinding' = CommittedBinding
      /\ ReportedAnswer' = [ReportedAnswer EXCEPT ![t] = Report("end", result)]
      /\ window' = window
  BY EndsInView DEF Rollback
<1>2. result.outcome \notin Failure \ {"conflict"}
  OBVIOUS
<1> HIDE DEF result
<1>3. Report("end", result) = result
  BY <1>2, ReportOf
<1>4. Contract!IsOpen(t) /\ None \notin Tx /\ None \notin Key
  BY Opened, Known
<1>5. FingerprintOf(j) # FingerprintOf(t)
  BY DEF SameFingerprint
<1>6. CASE KeyOf(t) \in Key /\ binding[KeyOf(t)].by = None /\ binding[KeyOf(t)].job = j
  <2>1. CommittedBinding[KeyOf(t)] = j
    BY <1>6, Views DEF Seen
  <2>2. ~Contract!KeyIsFree(t)
    BY <1>4, <1>6, <2>1 DEF Contract!KeyIsFree
  <2> QED BY <1>1, <1>3, <1>4, <1>5, <2>1, <2>2
          DEF Contract!Refuse, Contract!Reply, Contract!Answer, result
<1>7. CASE j \in window[t] /\ ScopeOf(j) = ScopeOf(t)
  BY <1>1, <1>3, <1>4, <1>5, <1>7
     DEF Contract!Refuse, Contract!Reply, Contract!Answer, result
<1> QED BY <1>6, <1>7

LEMMA ReplaysInView ==
    ASSUME ReservationInv, NEW t \in Tx, tx[t].pc \notin {"begin", "commit", "end"},
           NEW j \in Tx, Replay(t, j), SameFingerprint(t, j), KeyOf(t) \in Key,
           binding[KeyOf(t)].by = None, binding[KeyOf(t)].job = j
    PROVE  Contract!Replay(t)
<1> DEFINE result == [outcome |-> "replayed", job |-> j]
<1>1. tx' = [tx EXCEPT ![t] = [tx[t] EXCEPT !.pc = "end"]]
  BY DEF Replay, ReservationInv, Typed
<1>2. binding' = [k \in Key |-> IF binding[k].by = t THEN Unbound ELSE binding[k]]
  <2>1. \A k \in Key : binding[k].by # t
    BY Known
  <2> QED BY <2>1 DEF Replay, ReservationInv, Typed
<1>3. /\ CommittedJob' = CommittedJob /\ CommittedBinding' = CommittedBinding
      /\ ReportedAnswer' = [ReportedAnswer EXCEPT ![t] = Report("end", result)]
      /\ window' = window
  BY <1>1, <1>2, EndsInView DEF Replay
<1>4. result.outcome \notin Failure
  BY DEF Failure
<1> HIDE DEF result
<1>5. Report("end", result) = result
  BY <1>4, ReportOf
<1>6. Contract!IsOpen(t) /\ None \notin Tx /\ None \notin Key
  BY Opened, Known
<1>7. CommittedBinding[KeyOf(t)] = j
  BY Views DEF Seen
<1>8. ~Contract!KeyIsFree(t)
  BY <1>6, <1>7 DEF Contract!KeyIsFree
<1> QED BY <1>3, <1>5, <1>6, <1>7, <1>8
        DEF Contract!Replay, Contract!Reply, Contract!Answer, SameFingerprint, result

LEMMA FindInView ==
    ASSUME ReservationInv, NEW t \in Tx, FindFirst(t) \/ FindAgain(t) \/ FindBound(t)
    PROVE  Contract!Next \/ UNCHANGED Contract!vars
<1> DEFINE j == VisibleBinding(t)
<1>1. tx[t].pc \in {"find", "find_again", "find_bound"} /\ tx[t] \in Transaction
  BY Known DEF FindFirst, FindAgain, FindBound
<1>2. CASE j # None /\ SameFingerprint(t, j) /\ Replay(t, j)
  <2>1. j \in Tx /\ KeyOf(t) \in Key /\ binding[KeyOf(t)].by = None
        /\ binding[KeyOf(t)].job = j
    BY <1>1, <1>2, SeenBinding
  <2>2. SameFingerprint(t, j) /\ Replay(t, j)
    BY <1>2
  <2> HIDE DEF j
  <2>3. Contract!Replay(t)
    BY <1>1, <2>1, <2>2, ReplaysInView
  <2> QED BY <2>3 DEF Contract!Next
<1>3. CASE j # None /\ ~SameFingerprint(t, j) /\ Rollback(t, "conflict")
  <2>1. j \in Tx /\ KeyOf(t) \in Key /\ binding[KeyOf(t)].by = None
        /\ binding[KeyOf(t)].job = j
    BY <1>1, <1>3, SeenBinding
  <2>2. ~SameFingerprint(t, j) /\ Rollback(t, "conflict")
    BY <1>3
  <2> HIDE DEF j
  <2>3. Contract!Refuse(t)
    BY <1>1, <2>1, <2>2, Refuses
  <2> QED BY <2>3 DEF Contract!Next
<1>4. CASE Rollback(t, "binding_conflict_not_visible")
  <2>1. Contract!GiveUp(t)
    BY <1>1, <1>4, GivesUp DEF Failure
  <2> QED BY <2>1 DEF Contract!Next
<1>5. ASSUME NEW pc \in {"match", "match_again"}, Goto(t, pc),
             UNCHANGED <<job, binding, answer, window>>
      PROVE  UNCHANGED Contract!vars
  <2> DEFINE e == [tx[t] EXCEPT !.pc = pc]
  <2>1. tx' = [tx EXCEPT ![t] = e] /\ e.pc = pc
    BY <1>1, <1>5 DEF Goto, ReservationInv, Typed, Transaction
  <2> HIDE DEF e
  <2> QED BY <1>1, <1>5, <2>1, MovesUnseen
<1> QED BY <1>2, <1>3, <1>4, <1>5 DEF FindFirst, FindAgain, FindBound, Find

LEMMA MatchInView ==
    ASSUME ReservationInv, NEW t \in Tx, Match(t) \/ MatchAgain(t)
    PROVE  Contract!Next \/ UNCHANGED Contract!vars
<1>1. tx[t].pc \in {"match", "match_again"} /\ tx[t] \in Transaction /\ TransactionInv(t)
  BY Known DEF Match, MatchAgain
<1>2. ASSUME NEW j \in VisibleInScope(t), CoalesceWith(t, j)
      PROVE  Contract!Next \/ UNCHANGED Contract!vars
  <2>1. j \in Tx /\ j \in ActiveJobs /\ ScopeOf(j) = ScopeOf(t) /\ j \in window[t]
    BY <1>1 DEF VisibleInScope, ActiveJobs, TransactionInv
  <2>2. CASE ~SameFingerprint(t, j) /\ Rollback(t, "conflict")
    <3>1. Contract!Refuse(t)
      BY <1>1, <2>1, <2>2, Refuses
    <3> QED BY <3>1 DEF Contract!Next
  <2>3. CASE /\ tx' = [tx EXCEPT ![t] = [tx[t] EXCEPT !.pc = "bind", !.target = j,
                                                      !.outcome = "coalesced"]]
             /\ UNCHANGED <<job, binding, answer, window>>
    <3> DEFINE e == [tx[t] EXCEPT !.pc = "bind", !.target = j, !.outcome = "coalesced"]
    <3>1. tx' = [tx EXCEPT ![t] = e] /\ e.pc = "bind"
      BY <1>1, <2>3 DEF Transaction
    <3> HIDE DEF e
    <3> QED BY <1>1, <2>3, <3>1, MovesUnseen
  <2> QED BY <1>2, <2>2, <2>3 DEF CoalesceWith
<1>3. CASE Goto(t, "insert") /\ UNCHANGED <<job, binding, answer, window>>
  <2> DEFINE e == [tx[t] EXCEPT !.pc = "insert"]
  <2>1. tx' = [tx EXCEPT ![t] = e] /\ e.pc = "insert"
    BY <1>1, <1>3 DEF Goto, ReservationInv, Typed, Transaction
  <2> HIDE DEF e
  <2> QED BY <1>1, <1>3, <2>1, MovesUnseen
<1>4. CASE Rollback(t, "insert_conflict_not_visible")
  <2>1. Contract!GiveUp(t)
    BY <1>1, <1>4, GivesUp DEF Failure
  <2> QED BY <2>1 DEF Contract!Next
<1> QED BY <1>2, <1>3, <1>4 DEF Match, MatchAgain

LEMMA InsertsUnseen ==
    ASSUME ReservationInv, NEW t \in Tx, InsertJob(t) \/ InsertBinding(t)
    PROVE  UNCHANGED Contract!vars
<1>1. tx[t] \in Transaction /\ TransactionInv(t) /\ None \notin Tx /\ KeyOf(t) \in Key \cup {None}
  BY Known
<1>2. CASE InsertJob(t)
  <2>1. job[t] = "none" /\ tx[t].pc = "insert" /\ UNCHANGED <<binding, answer, window>>
    BY <1>1, <1>2 DEF InsertJob, TransactionInv, Writing
  <2>2. \A u \in Tx : Shown(job'[u]) = Shown(job[u])
    BY <1>2, <2>1, ShownOf DEF InsertJob, ReservationInv, Typed
  <2>3. PICK e : tx' = [tx EXCEPT ![t] = e] /\ e.pc \in {"bind", "find_again"}
    <3>1. CASE tx' = [tx EXCEPT ![t] = [tx[t] EXCEPT !.pc = "bind", !.target = t,
                                                     !.outcome = "created"]]
      <4> DEFINE e == [tx[t] EXCEPT !.pc = "bind", !.target = t, !.outcome = "created"]
      <4>1. e.pc = "bind"
        BY <1>1 DEF Transaction
      <4> QED BY <3>1, <4>1
    <3>2. CASE tx' = [tx EXCEPT ![t] = [tx[t] EXCEPT !.pc = "find_again",
                                                     !.tried = tx[t].tried + 1]]
      <4> DEFINE tried == tx[t].tried + 1
                 e == [tx[t] EXCEPT !.pc = "find_again", !.tried = tried]
      <4>1. tx' = [tx EXCEPT ![t] = e]
        BY <3>2
      <4> HIDE DEF tried
      <4>2. e.pc = "find_again"
        BY <1>1 DEF Transaction
      <4> QED BY <4>1, <4>2
    <3> QED BY <1>2, <3>1, <3>2 DEF InsertJob
  <2> QED BY <2>1, <2>2, <2>3, MovesUnseen
<1>3. CASE InsertBinding(t)
  <2>1. tx[t].pc = "bind" /\ UNCHANGED <<job, answer, window>>
    BY <1>3 DEF InsertBinding
  <2>2. \A k \in Key : Seen(binding'[k]) = Seen(binding[k])
    <3> SUFFICES ASSUME NEW k \in Key, binding'[k] # binding[k]
                 PROVE  Seen(binding'[k]) = Seen(binding[k])
      OBVIOUS
    <3>1. k = KeyOf(t) /\ binding[k].job = None /\ binding'[k].by = t
      BY <1>3 DEF InsertBinding, ReservationInv, Typed
    <3>2. binding[k].by = None
      BY <3>1 DEF ReservationInv, Bindings, BindingInv
    <3> QED BY <1>1, <3>1, <3>2 DEF Seen
  <2>3. PICK pc \in {"commit", "find_bound"} : Goto(t, pc)
    BY <1>3 DEF InsertBinding
  <2> DEFINE e == [tx[t] EXCEPT !.pc = pc]
  <2>4. tx' = [tx EXCEPT ![t] = e] /\ e.pc = pc
    BY <1>1, <2>3 DEF Goto, ReservationInv, Typed, Transaction
  <2> HIDE DEF e
  <2> QED BY <2>1, <2>2, <2>3, <2>4, MovesUnseen
<1> QED BY <1>2, <1>3

LEMMA ArrivesInView ==
    ASSUME ReservationInv, NEW t \in Tx, Begin(t)
    PROVE  Contract!Arrive(t)
<1>1. /\ tx[t] \in Transaction /\ tx[t].pc = "begin" /\ TransactionInv(t)
      /\ answer[t] \in Answered
  BY Known DEF Begin, ReservationInv, Typed
<1> DEFINE e == [tx[t] EXCEPT !.pc = "find"]
<1>2. /\ tx' = [tx EXCEPT ![t] = e] /\ e.pc = "find" /\ UNCHANGED <<job, binding, answer>>
      /\ window' = [window EXCEPT ![t] = ActiveJobs]
  BY <1>1 DEF Begin, Goto, ReservationInv, Typed, Transaction
<1> HIDE DEF e
<1>3. tx'[t] = e /\ \A u \in Tx \ {t} : tx'[u] = tx[u]
  BY <1>2 DEF ReservationInv, Typed
<1>4. answer[t] = [outcome |-> "pending", job |-> None] /\ "pending" \notin Failure
  BY <1>1 DEF TransactionInv, Answered, Failure
<1>5. Report(tx'[t].pc, answer'[t]) = [outcome |-> "pending", job |-> None]
  <2>1. answer[t].outcome = "pending"
    BY <1>1 DEF TransactionInv
  <2>2. Report(e.pc, answer[t]) = answer[t]
    BY <1>2, <1>4, <2>1, ReportOf
  <2> QED BY <1>2, <1>3, <1>4, <2>2
<1>6. ReportedAnswer' = [ReportedAnswer EXCEPT ![t] = [outcome |-> "pending", job |-> None]]
  BY <1>2, <1>3, <1>5, Replies
<1>7. CommittedJob' = CommittedJob /\ CommittedBinding' = CommittedBinding
  BY <1>2, Views
<1>8. ReportedAnswer[t].outcome = "unasked"
  BY <1>1, Opened
<1> QED BY <1>2, <1>6, <1>7, <1>8, ActiveShown
        DEF Contract!Arrive, Contract!Reply, Contract!Answer

LEMMA CommitsInView ==
    ASSUME ReservationInv, NEW t \in Tx, Commit(t)
    PROVE  Contract!Create(t) \/ Contract!Coalesce(t)
<1> DEFINE e == [tx[t] EXCEPT !.pc = "end"]
           j == tx[t].target
           result == [outcome |-> tx[t].outcome, job |-> j]
<1>1. /\ tx[t].pc = "commit" /\ tx[t] \in Transaction /\ TransactionInv(t) /\ KeyInv(t)
      /\ None \notin Tx /\ None \notin Key /\ KeyOf(t) \in Key \cup {None}
      /\ \A k \in Key : binding[k].by = t => KeyOf(t) = k /\ binding[k].job = j
  BY Known DEF Commit
<1>2. job[t] \in {"none", "uncommitted"} /\ Target(t)
      /\ (job[t] = "uncommitted" <=> tx[t].outcome = "created")
  BY <1>1 DEF TransactionInv, Writing
<1>3. /\ tx' = [tx EXCEPT ![t] = e] /\ e.pc = "end" /\ answer' = [answer EXCEPT ![t] = result]
      /\ result.outcome = tx[t].outcome
  BY <1>1 DEF Commit, Goto, ReservationInv, Typed, Transaction
<1> HIDE DEF e, result
<1>4. /\ tx'[t] = e /\ answer'[t] = result
      /\ \A u \in Tx \ {t} : tx'[u] = tx[u] /\ answer'[u] = answer[u]
  BY <1>3 DEF ReservationInv, Typed
<1>5. ReportedAnswer' = [ReportedAnswer EXCEPT ![t] = result]
  <2>1. result.outcome \notin Failure
    BY <1>2, <1>3 DEF Target, Failure
  <2>2. Report(tx'[t].pc, answer'[t]) = result
    BY <1>3, <1>4, <2>1, ReportOf
  <2> QED BY <1>4, <2>2, Replies
<1>6. Contract!IsOpen(t) /\ \A u \in Tx : Contract!IsOpen(u) <=> u \in InFlight
  BY <1>1, Opened DEF InFlight
<1>7. KeyOf(t) # None => CommittedBinding[KeyOf(t)] = None
  BY <1>1, Views DEF KeyInv, Seen
<1>8. Contract!Bind(t, j)
  <2>1. ASSUME NEW k \in Key
        PROVE  Seen(binding'[k]) = IF k = KeyOf(t) THEN j ELSE Seen(binding[k])
    <3>1. binding[k] \in Binding
      BY DEF ReservationInv, Typed
    <3>2. binding'[k] = IF binding[k].by = t THEN [binding[k] EXCEPT !.by = None]
                                             ELSE binding[k]
      BY DEF Commit
    <3>3. CASE binding[k].by = t
      BY <1>1, <3>1, <3>2, <3>3 DEF Seen, Binding
    <3>4. CASE binding[k].by # t
      <4>1. k # KeyOf(t)
        BY <1>1, <3>4 DEF KeyInv
      <4> QED BY <3>2, <3>4, <4>1
    <3> QED BY <3>3, <3>4
  <2> HIDE DEF j
  <2> QED BY <2>1, Views DEF Contract!Bind
<1>9. CASE tx[t].outcome = "created"
  <2>1. j = t /\ result = [outcome |-> "created", job |-> t] /\ job[t] = "uncommitted"
    BY <1>2, <1>9 DEF Target, result
  <2>2. CommittedJob[t] = "none"
    BY <2>1, Views, ShownOf
  <2>3. CommittedJob' = [CommittedJob EXCEPT ![t] = "active"]
    <3>1. job' = [job EXCEPT ![t] = "active"]
      BY <2>1 DEF Commit
    <3>2. \A u \in Tx : job'[u] = IF u = t THEN "active" ELSE job[u]
      BY <3>1 DEF ReservationInv, Typed
    <3> QED BY <3>2, Views, ShownOf
  <2>4. \A u \in Contract!ActiveJobs : ScopeOf(u) # ScopeOf(t)
    <3> SUFFICES ASSUME NEW u \in Tx, job[u] = "active" PROVE ScopeOf(u) # ScopeOf(t)
      BY ActiveShown DEF ActiveJobs
    <3>1. u # t
      BY <2>1
    <3> QED BY <2>1, <3>1 DEF ReservationInv, OneActivePerScope
  <2>5. window' = [u \in Tx |-> IF Contract!IsOpen(u) THEN window[u] \cup {t} ELSE window[u]]
    BY <1>6, <2>1 DEF Commit
  <2>6. Contract!Bind(t, t)
    BY <1>8, <2>1
  <2>7. Contract!KeyIsFree(t)
    BY <1>7 DEF Contract!KeyIsFree
  <2> QED BY <1>5, <1>6, <2>1, <2>2, <2>3, <2>4, <2>5, <2>6, <2>7
          DEF Contract!Create, Contract!Reply, Contract!Answer
<1>10. CASE tx[t].outcome # "created"
  <2>1. /\ job[t] = "none" /\ tx[t].outcome = "coalesced" /\ j \in window[t] /\ j \in Tx
        /\ job[j] \in {"active", "finished"}
        /\ ScopeOf(j) = ScopeOf(t) /\ FingerprintOf(j) = FingerprintOf(t)
    BY <1>2, <1>10 DEF Target, SameFingerprint, ReservationInv, Typed
  <2>2. result = [outcome |-> "coalesced", job |-> j]
    BY <2>1 DEF result
  <2> HIDE DEF j
  <2>3. job' = job /\ window' = window
    BY <2>1 DEF Commit, ReservationInv, Typed
  <2>4. CommittedJob' = CommittedJob /\ CommittedJob[j] \in {"active", "finished"}
    BY <2>1, <2>3, Views, ShownOf
  <2>5. Contract!KeyIsFree(t)
    BY <1>7 DEF Contract!KeyIsFree
  <2> QED BY <1>5, <1>6, <1>8, <2>1, <2>2, <2>3, <2>4, <2>5
          DEF Contract!Coalesce, Contract!Reply, Contract!Answer
<1> QED BY <1>9, <1>10

LEMMA OutsideInView ==
    ASSUME ReservationInv, NEW j \in Tx, Finish(j) \/ Age(j) \/ CleanUp(j)
    PROVE  Contract!Next \/ UNCHANGED Contract!vars
<1>1. UNCHANGED <<tx, answer, window>> /\ job \in [Tx -> JobState]
      /\ binding \in [Key -> Binding] /\ None \notin Tx
  BY ReservationAssumption DEF Finish, Age, CleanUp, ReservationInv, Typed
<1>2. ReportedAnswer' = ReportedAnswer
  BY <1>1, Views
<1>3. CASE Finish(j)
  <2>1. \A u \in Tx : job'[u] = IF u = j THEN "finished" ELSE job[u]
    BY <1>1, <1>3 DEF Finish
  <2>2. CommittedJob[j] = "active" /\ CommittedJob' = [CommittedJob EXCEPT ![j] = "finished"]
    BY <1>3, <2>1, Views, ShownOf DEF Finish
  <2>3. CommittedBinding' = CommittedBinding
    BY <1>3, Views DEF Finish
  <2>4. Contract!Finish(j)
    BY <1>1, <1>2, <2>2, <2>3 DEF Contract!Finish
  <2> QED BY <2>4 DEF Contract!Next
<1>4. CASE Age(j)
  <2>1. \A u \in Tx : Shown(job'[u]) = Shown(job[u])
    BY <1>1, <1>4, ShownOf DEF Age
  <2>2. binding' = binding
    BY <1>4 DEF Age
  <2> QED BY <1>1, <2>1, <2>2, Hidden
<1>5. CASE CleanUp(j)
  <2>1. \A u \in Tx : job'[u] = IF u = j THEN "deleted" ELSE job[u]
    BY <1>1, <1>5 DEF CleanUp
  <2>2. /\ CommittedJob[j] = "finished"
        /\ CommittedJob' = [CommittedJob EXCEPT ![j] = "deleted"]
    BY <1>5, <2>1, Views, ShownOf DEF CleanUp
  <2>3. ASSUME NEW k \in Key
        PROVE  Seen(binding'[k]) = IF Seen(binding[k]) = j THEN None ELSE Seen(binding[k])
    <3>1. binding'[k] = IF binding[k].job = j THEN Unbound ELSE binding[k]
      BY <1>5 DEF CleanUp
    <3> QED BY <1>1, <3>1 DEF Seen, Unbound
  <2>4. CommittedBinding' =
          [k \in Key |-> IF CommittedBinding[k] = j THEN None ELSE CommittedBinding[k]]
    BY <2>3, Views
  <2>5. Contract!CleanUp(j)
    BY <1>1, <1>2, <2>2, <2>4 DEF Contract!CleanUp
  <2> QED BY <2>5 DEF Contract!Next
<1> QED BY <1>3, <1>4, <1>5

\* The statements of reserve() behave as the one atomic step of the contract:
\* replay, join, create or refuse, on the committed state.
THEOREM ReservationImplementsContract == Spec => KeepsContract
<1>1. Init => Contract!Init
  <2> SUFFICES ASSUME Init PROVE Contract!Init
    OBVIOUS
  <2>1. CommittedJob = [t \in Tx |-> "none"]
    BY Views, ShownOf DEF Init
  <2>2. CommittedBinding = [k \in Key |-> None]
    BY Views DEF Init, Seen, Unbound
  <2>3. ReportedAnswer = [t \in Tx |-> [outcome |-> "unasked", job |-> None]]
    <3>1. \A t \in Tx : tx[t].pc = "begin" /\ answer[t].outcome = "pending"
      BY DEF Init, Pending
    <3> QED BY <3>1, Views, ReportOf
  <2> QED BY <2>1, <2>2, <2>3 DEF Init, Contract!Init, Contract!Answer
<1>2. ASSUME ReservationInv, [Next]_vars
      PROVE  Contract!Next \/ UNCHANGED Contract!vars
  <2>1. CASE UNCHANGED vars
    BY <2>1, Hidden DEF vars
  <2>2. ASSUME NEW t \in Tx, Reserve(t) PROVE Contract!Next \/ UNCHANGED Contract!vars
    <3>1. CASE Begin(t)
      BY <1>2, <3>1, ArrivesInView DEF Contract!Next
    <3>2. CASE Commit(t)
      BY <1>2, <3>2, CommitsInView DEF Contract!Next
    <3> QED BY <1>2, <2>2, <3>1, <3>2, FindInView, MatchInView, InsertsUnseen DEF Reserve
  <2>3. ASSUME NEW t \in Tx, Abort(t) PROVE Contract!Next
    <3>1. "aborted" \in Failure \ {"conflict"}
      BY DEF Failure
    <3> QED BY <1>2, <2>3, <3>1, GivesUp DEF Abort, Contract!Next
  <2> QED BY <1>2, <2>1, <2>2, <2>3, OutsideInView DEF Next, Terminated
<1>3. ReservationInv /\ [Next]_vars => [Contract!Next]_(Contract!vars)
  BY <1>2
<1> QED BY <1>1, <1>3, ReservationInvHolds, PTL DEF Spec, KeepsContract, Contract!Spec
=============================================================================
