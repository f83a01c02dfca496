------------------------ MODULE ReservationContract ------------------------
(***************************************************************************)
(* What reserve() promises, as if every submission were one atomic step on  *)
(* the committed state: replay the job its key is bound to, else join a job *)
(* that was active in its scope while it was being served, else create one; *)
(* or refuse a request that contradicts the job it met.                     *)
(***************************************************************************)
EXTENDS Naturals

CONSTANTS Tx, Key, None, KeyOf(_), ScopeOf(_), FingerprintOf(_)

VARIABLES
    job,        \* state of the job each submission may create
    binding,    \* key -> job
    answer,     \* submission -> [outcome, job]
    window      \* jobs active at some time since the submission arrived

vars == <<job, binding, answer, window>>

Answer(outcome, j) == [outcome |-> outcome, job |-> j]

Init ==
    /\ job = [t \in Tx |-> "none"]
    /\ binding = [k \in Key |-> None]
    /\ answer = [t \in Tx |-> Answer("unasked", None)]
    /\ window = [t \in Tx |-> {}]

IsOpen(t) == answer[t].outcome = "pending"

ActiveJobs == {j \in Tx : job[j] = "active"}

KeyIsFree(t) == KeyOf(t) # None => binding[KeyOf(t)] = None

Bind(t, j) == binding' = [k \in Key |-> IF k = KeyOf(t) THEN j ELSE binding[k]]

Reply(t, outcome, j) == answer' = [answer EXCEPT ![t] = Answer(outcome, j)]

Arrive(t) ==
    /\ answer[t].outcome = "unasked"
    /\ Reply(t, "pending", None)
    /\ window' = [window EXCEPT ![t] = ActiveJobs]
    /\ UNCHANGED <<job, binding>>

Create(t) ==
    /\ IsOpen(t)
    /\ KeyIsFree(t)
    /\ \A j \in ActiveJobs : ScopeOf(j) # ScopeOf(t)
    /\ job[t] = "none"
    /\ job' = [job EXCEPT ![t] = "active"]
    /\ Bind(t, t)
    /\ Reply(t, "created", t)
    /\ window' = [u \in Tx |-> IF IsOpen(u) THEN window[u] \cup {t} ELSE window[u]]

Replay(t) ==
    /\ IsOpen(t)
    /\ ~KeyIsFree(t)
    /\ LET j == binding[KeyOf(t)]
       IN  FingerprintOf(j) = FingerprintOf(t) /\ Reply(t, "replayed", j)
    /\ UNCHANGED <<job, binding, window>>

Coalesce(t) ==
    /\ IsOpen(t)
    /\ KeyIsFree(t)
    /\ \E j \in window[t] :
         /\ job[j] \in {"active", "finished"}
         /\ ScopeOf(j) = ScopeOf(t)
         /\ FingerprintOf(j) = FingerprintOf(t)
         /\ Bind(t, j)
         /\ Reply(t, "coalesced", j)
    /\ UNCHANGED <<job, window>>

Refuse(t) ==
    /\ IsOpen(t)
    /\ \E j \in Tx :
         /\ FingerprintOf(j) # FingerprintOf(t)
         /\ \/ ~KeyIsFree(t) /\ binding[KeyOf(t)] = j
            \/ j \in window[t] /\ ScopeOf(j) = ScopeOf(t)
    /\ Reply(t, "conflict", None)
    /\ UNCHANGED <<job, binding, window>>

\* A failed submission leaves nothing behind.
GiveUp(t) ==
    /\ IsOpen(t)
    /\ Reply(t, "error", None)
    /\ UNCHANGED <<job, binding, window>>

Finish(j) ==
    /\ job[j] = "active"
    /\ job' = [job EXCEPT ![j] = "finished"]
    /\ UNCHANGED <<binding, answer, window>>

CleanUp(j) ==
    /\ job[j] = "finished"
    /\ job' = [job EXCEPT ![j] = "deleted"]
    /\ binding' = [k \in Key |-> IF binding[k] = j THEN None ELSE binding[k]]
    /\ UNCHANGED <<answer, window>>

Next ==
    \E t \in Tx :
        \/ Arrive(t)   \/ Create(t) \/ Replay(t) \/ Coalesce(t)
        \/ Refuse(t)   \/ GiveUp(t) \/ Finish(t) \/ CleanUp(t)

Spec == Init /\ [][Next]_vars
=============================================================================
