--------------------------- MODULE JobReservation ---------------------------
(***************************************************************************)
(* SqlAlchemyDurableJobRepository.reserve, statement by statement, run by   *)
(* concurrent transactions under READ COMMITTED.  A SELECT sees committed   *)
(* rows and those of its own transaction; INSERT ... ON CONFLICT DO NOTHING *)
(* waits for the transaction that holds a conflicting uncommitted row, and  *)
(* inserts nothing if the conflicting row is committed.                     *)
(*                                                                          *)
(* Each transaction proposes one job under a fresh id, so the transaction   *)
(* names the job.                                                           *)
(***************************************************************************)
EXTENDS Naturals, FiniteSets

CONSTANTS
    Tx,                 \* submissions, each in its own transaction
    Key, Scope,
    None,
    KeyOf(_),           \* (owner, idempotency digest), or None
    ScopeOf(_),         \* (kind, scope_key)
    FingerprintOf(_),
    InsertAttempts      \* range(2) in reserve()

ASSUME ReservationAssumption ==
    /\ None \notin Tx \cup Key
    /\ \A t \in Tx : KeyOf(t) \in Key \cup {None} /\ ScopeOf(t) \in Scope
    /\ InsertAttempts \in Nat \ {0}

VARIABLES
    job,        \* durable_jobs: state of the row proposed by each transaction
    binding,    \* idempotency bindings: key -> [job, by]; by = None if committed
    tx,         \* where each transaction is, the job it works with, inserts tried
    answer,     \* what reserve() answered, once the transaction has ended
    window      \* history: the jobs seen active since a transaction began

vars == <<job, binding, tx, answer, window>>

Unbound == [job |-> None, by |-> None]
Pending == [outcome |-> "pending", job |-> None]

Outcome == {"created", "replayed", "coalesced"}
Failure == {"conflict", "insert_conflict_not_visible",
            "binding_conflict_not_visible", "aborted"}

PC == {"begin", "find", "match", "insert", "find_again", "match_again",
       "bind", "find_bound", "commit", "end"}

\* Every variable holds values of its kind: the columns keep their ranges.
TypeOK ==
    /\ job \in [Tx -> {"none", "uncommitted", "active", "finished",
                     "old", "deleted"}]
    /\ binding \in [Key -> [job : Tx \cup {None}, by : Tx \cup {None}]]
    /\ tx \in [Tx -> [pc : PC, target : Tx \cup {None},
                      outcome : Outcome \cup {"none"}, tried : 0..InsertAttempts]]
    /\ answer \in [Tx -> [outcome : Outcome \cup Failure \cup {"pending"},
                          job : Tx \cup {None}]]
    /\ window \in [Tx -> SUBSET Tx]

Init ==
    /\ job = [t \in Tx |-> "none"]
    /\ binding = [k \in Key |-> Unbound]
    /\ tx = [t \in Tx |-> [pc |-> "begin", target |-> None,
                           outcome |-> "none", tried |-> 0]]
    /\ answer = [t \in Tx |-> Pending]
    /\ window = [t \in Tx |-> {}]

-----------------------------------------------------------------------------
SameFingerprint(t, j) == FingerprintOf(t) = FingerprintOf(j)

ActiveJobs == {j \in Tx : job[j] = "active"}

\* Fault: the SELECT joins active jobs only.
VisibleBindingIfActive(t) ==
    IF /\ KeyOf(t) # None
       /\ binding[KeyOf(t)].job \in ActiveJobs
       /\ binding[KeyOf(t)].by \in {None, t}
    THEN binding[KeyOf(t)].job ELSE None

\* The binding a SELECT of t returns for its key; None if it sees none.
VisibleBinding(t) ==
    IF /\ KeyOf(t) # None
       /\ binding[KeyOf(t)].job # None
       /\ binding[KeyOf(t)].by \in {None, t}
    THEN binding[KeyOf(t)].job ELSE None

\* Fault: the SELECT does not filter by status.
VisibleInScopeAnyStatus(t) ==
    {j \in Tx : job[j] \in {"active", "finished", "old"} /\ ScopeOf(j) = ScopeOf(t)}

VisibleInScope(t) == {j \in ActiveJobs : ScopeOf(j) = ScopeOf(t)}

InFlight == {t \in Tx : tx[t].pc \notin {"begin", "end"}}

Goto(t, pc) == tx' = [tx EXCEPT ![t].pc = pc]

\* Rollback, or the end of a transaction that wrote nothing.
Rollback(t, outcome) ==
    /\ tx' = [tx EXCEPT ![t] = [@ EXCEPT !.pc = "end"]]
    /\ job' = [job EXCEPT ![t] = IF @ = "uncommitted" THEN "none" ELSE @]
    /\ binding' = [k \in Key |-> IF binding[k].by = t THEN Unbound ELSE binding[k]]
    /\ answer' = [answer EXCEPT ![t] = [outcome |-> outcome, job |-> None]]
    /\ UNCHANGED window

\* A replay has nothing to commit but the deletion of its own losing job, so
\* its commit is taken together with the SELECT that found the binding.
Replay(t, j) ==
    /\ tx' = [tx EXCEPT ![t].pc = "end"]
    /\ job' = [job EXCEPT ![t] = IF @ = "uncommitted" THEN "none" ELSE @]
    /\ answer' = [answer EXCEPT ![t] = [outcome |-> "replayed", job |-> j]]
    /\ UNCHANGED <<binding, window>>

Begin(t) ==
    /\ tx[t].pc = "begin"
    /\ Goto(t, "find")
    /\ window' = [window EXCEPT ![t] = ActiveJobs]
    /\ UNCHANGED <<job, binding, answer>>

\* find_idempotent, at the three places that call it: next is where an empty
\* answer leads.
Find(t, next) ==
    LET j == VisibleBinding(t)
    IN  \/ /\ j = None
           /\ Goto(t, next)
           /\ UNCHANGED <<job, binding, answer, window>>
        \/ j # None /\ SameFingerprint(t, j)  /\ Replay(t, j)
        \/ j # None /\ ~SameFingerprint(t, j) /\ Rollback(t, "conflict")

FindFirst(t) == tx[t].pc = "find" /\ Find(t, "match")

\* Fault: after a lost insert only the key is looked at, again and again.
FindAgainOnly(t) == tx[t].pc = "find_again" /\ Find(t, "find_again")

FindAgain(t) == tx[t].pc = "find_again" /\ Find(t, "match_again")

\* _active_scope_match, and _assert_compatible on what it found.
CoalesceWith(t, j) ==
    \/ /\ SameFingerprint(t, j)
       /\ tx' = [tx EXCEPT ![t] = [@ EXCEPT !.pc = "bind", !.target = j,
                                            !.outcome = "coalesced"]]
       /\ UNCHANGED <<job, binding, answer, window>>
    \/ ~SameFingerprint(t, j) /\ Rollback(t, "conflict")

Match(t) ==
    /\ tx[t].pc = "match"
    /\ \/ \E j \in VisibleInScope(t) : CoalesceWith(t, j)
       \/ /\ VisibleInScope(t) = {}
          /\ Goto(t, "insert")
          /\ UNCHANGED <<job, binding, answer, window>>

MatchAgain(t) ==
    /\ tx[t].pc = "match_again"
    /\ \/ \E j \in VisibleInScope(t) : CoalesceWith(t, j)
       \/ /\ VisibleInScope(t) = {}
          /\ tx[t].tried < InsertAttempts
          /\ Goto(t, "insert")
          /\ UNCHANGED <<job, binding, answer, window>>
       \/ /\ VisibleInScope(t) = {}
          /\ tx[t].tried = InsertAttempts
          /\ Rollback(t, "insert_conflict_not_visible")

\* Rows the unique indexes of durable_jobs set against the proposal of t: the
\* active one of the scope, and any with the same key.
JobConflicts(t) ==
    {j \in Tx \ {t} :
        \/ job[j] \in {"uncommitted", "active"} /\ ScopeOf(j) = ScopeOf(t)
        \/ /\ KeyOf(t) # None /\ KeyOf(j) = KeyOf(t)
           /\ job[j] \in {"uncommitted", "active", "finished", "old"}}

InsertJob(t) ==
    /\ tx[t].pc = "insert"
    /\ \A j \in JobConflicts(t) : job[j] # "uncommitted"
    /\ IF JobConflicts(t) = {}
         THEN /\ job' = [job EXCEPT ![t] = "uncommitted"]
              /\ tx' = [tx EXCEPT ![t] = [@ EXCEPT !.pc = "bind", !.target = t,
                                                   !.outcome = "created"]]
         ELSE /\ tx' = [tx EXCEPT ![t] = [@ EXCEPT !.pc = "find_again",
                                                   !.tried = tx[t].tried + 1]]
              /\ UNCHANGED job
    /\ UNCHANGED <<binding, answer, window>>

\* The INSERT of _bind; a request without a key has no binding.
InsertBinding(t) ==
    LET k == KeyOf(t)
    IN  /\ tx[t].pc = "bind"
        /\ \/ k = None /\ Goto(t, "commit") /\ UNCHANGED binding
           \/ /\ k # None /\ binding[k].job = None
              /\ binding' = [binding EXCEPT ![k] = [job |-> tx[t].target, by |-> t]]
              /\ Goto(t, "commit")
           \/ /\ k # None /\ binding[k].job # None /\ binding[k].by = None
              /\ Goto(t, "find_bound")
              /\ UNCHANGED binding
        /\ UNCHANGED <<job, answer, window>>

\* A binding that won the race is replayed, and the job this transaction had
\* inserted is deleted; a fingerprint conflict or an invisible binding raises.
FindBound(t) ==
    LET j == VisibleBinding(t)
    IN  /\ tx[t].pc = "find_bound"
        /\ \/ j # None /\ SameFingerprint(t, j)  /\ Replay(t, j)
           \/ j # None /\ ~SameFingerprint(t, j) /\ Rollback(t, "conflict")
           \/ j = None /\ Rollback(t, "binding_conflict_not_visible")

Commit(t) ==
    /\ tx[t].pc = "commit"
    /\ Goto(t, "end")
    /\ job' = [job EXCEPT ![t] = IF @ = "uncommitted" THEN "active" ELSE @]
    /\ binding' = [k \in Key |-> IF binding[k].by = t
                                   THEN [binding[k] EXCEPT !.by = None]
                                   ELSE binding[k]]
    /\ answer' = [answer EXCEPT ![t] = [outcome |-> tx[t].outcome,
                                        job |-> tx[t].target]]
    /\ window' = [u \in Tx |-> IF job[t] = "uncommitted" /\ u \in InFlight
                                 THEN window[u] \cup {t} ELSE window[u]]

\* Connection loss, cancellation or a timeout roll the transaction back.
Abort(t) ==
    /\ tx[t].pc \notin {"begin", "end"}
    /\ Rollback(t, "aborted")

\* An execution or the sweeper finishes an active job.
Finish(j) ==
    /\ job[j] = "active"
    /\ job' = [job EXCEPT ![j] = "finished"]
    /\ UNCHANGED <<binding, tx, answer, window>>

\* The retention of 30 days passes.  A reservation lasts seconds, so it never
\* spans that time.
Age(j) ==
    /\ job[j] = "finished"
    /\ InFlight = {}
    /\ job' = [job EXCEPT ![j] = "old"]
    /\ UNCHANGED <<binding, tx, answer, window>>

\* cleanup_terminal deletes an old job and, on cascade, its bindings.
CleanUp(j) ==
    /\ job[j] = "old"
    /\ job' = [job EXCEPT ![j] = "deleted"]
    /\ binding' = [k \in Key |-> IF binding[k].job = j THEN Unbound ELSE binding[k]]
    /\ UNCHANGED <<tx, answer, window>>

-----------------------------------------------------------------------------
Reserve(t) ==
    \/ Begin(t)         \/ FindFirst(t)  \/ Match(t)      \/ InsertJob(t)
    \/ InsertBinding(t) \/ FindBound(t)  \/ FindAgain(t)  \/ MatchAgain(t)
    \/ Commit(t)

Terminated == (\A t \in Tx : tx[t].pc = "end") /\ UNCHANGED vars

Next ==
    \/ \E t \in Tx : Reserve(t) \/ Abort(t) \/ Finish(t) \/ Age(t) \/ CleanUp(t)
    \/ Terminated

Spec == Init /\ [][Next]_vars

\* Each request keeps issuing its statements.
FairSpec == Spec /\ \A t \in Tx : WF_vars(Reserve(t))

-----------------------------------------------------------------------------
(* Safety.                                                                  *)

\* The errors the code calls defensive cannot occur: the committed binding that
\* stopped an INSERT is visible to the SELECT that follows it.
BindingConflictIsVisible ==
    \A t \in Tx : answer[t].outcome # "binding_conflict_not_visible"

\* Uncommitted rows are invisible outside their transaction.
CommittedJob ==
    [t \in Tx |-> CASE job[t] \in {"none", "uncommitted"} -> "none"
                    [] job[t] \in {"finished", "old"}     -> "finished"
                    [] OTHER                              -> job[t]]

CommittedBinding ==
    [k \in Key |-> IF binding[k].by = None THEN binding[k].job ELSE None]

ReportedAnswer ==
    [t \in Tx |-> CASE tx[t].pc = "begin" -> [outcome |-> "unasked", job |-> None]
                    [] answer[t].outcome \in Failure \ {"conflict"}
                         -> [outcome |-> "error", job |-> None]
                    [] OTHER -> answer[t]]

Contract ==
    INSTANCE ReservationContract WITH job     <- CommittedJob,
                                      binding <- CommittedBinding,
                                      answer  <- ReportedAnswer

\* The statements of reserve() together behave as the one atomic step of
\* ReservationContract: its races are invisible to callers.
KeepsContract == Contract!Spec

(* Liveness. *)

\* Waiting for the uncommitted rows of others always ends: no two reservations
\* wait for each other.
EveryRequestEnds == \A t \in Tx : tx[t].pc = "find" ~> tx[t].pc = "end"
=============================================================================
