---------------------------- MODULE JobContract ----------------------------
(***************************************************************************)
(* What the ledger of src/app/shared/jobs promises about one job, without   *)
(* clock, broker, leases or sweeps: an attempt is granted to one execution  *)
(* at a time, there are at most MaxAttempts of them, success can only be    *)
(* reported from within an attempt, and an outcome is final.                *)
(***************************************************************************)
EXTENDS Naturals

CONSTANTS Job, Run, None, MaxAttempts

VARIABLE job    \* job -> [phase, attempt, holder]

Phase == {"unknown", "waiting", "held", "done", "dropped", "forgotten"}

State == [phase : Phase, attempt : 0..MaxAttempts, holder : Run \cup {None}]

Free(phase, attempt) == [phase |-> phase, attempt |-> attempt, holder |-> None]

Init == job = [j \in Job |-> Free("unknown", 0)]

Submitted(a, b) == a.phase = "unknown" /\ b = Free("waiting", 0)

Granted(a, b) ==
    /\ a.phase = "waiting"
    /\ a.attempt < MaxAttempts
    /\ \E r \in Run :
         b = [phase |-> "held", attempt |-> a.attempt + 1, holder |-> r]

\* The execution asked for another attempt, or its lease ran out.
Returned(a, b) ==
    /\ a.phase = "held"
    /\ a.attempt < MaxAttempts
    /\ b = Free("waiting", a.attempt)

Completed(a, b) == a.phase = "held" /\ b = Free("done", a.attempt)

\* Failed, skipped or out of time.
Dropped(a, b) ==
    a.phase \in {"waiting", "held"} /\ b = Free("dropped", a.attempt)

Forgotten(a, b) == a.phase \in {"done", "dropped"} /\ b = Free("forgotten", 0)

Step(a, b) ==
    \/ Submitted(a, b) \/ Granted(a, b)   \/ Returned(a, b)
    \/ Completed(a, b) \/ Dropped(a, b)   \/ Forgotten(a, b)

\* One transaction may move several jobs.
Next ==
    /\ job' \in [Job -> State]
    /\ \A j \in Job : job'[j] = job[j] \/ Step(job[j], job'[j])

Spec == Init /\ [][Next]_job
=============================================================================
