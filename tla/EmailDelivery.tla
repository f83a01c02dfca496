---------------------------- MODULE EmailDelivery ----------------------------
(***************************************************************************)
(* E-mail communications (src/app/modules/comunicacoes): requests persist a *)
(* communication with its delivery and an event in one transaction; the     *)
(* periodic task claims deliveries, talks to the SMTP server between two    *)
(* transactions, and records what it learnt.                                *)
(*                                                                          *)
(* Each request names the communication it may create.  A lease and a       *)
(* backoff are flags that time may change at any moment: workers compare    *)
(* them with clocks of their own.                                           *)
(***************************************************************************)
EXTENDS Naturals, Sequences, FiniteSets

CONSTANTS
    Request,            \* POST requests
    Key,                \* (actor, Idempotency-Key) pairs
    KeyOf(_),
    FingerprintOf(_),
    Worker,             \* executions of the periodic task that may overlap
    MaxAttempts,        \* max_attempts of a delivery
    BatchSize,          \* deliveries one execution reconciles, and claims
    None

ASSUME DeliveryAssumption ==
    /\ None \notin Request \cup Worker
    /\ \A q \in Request : KeyOf(q) \in Key
    /\ MaxAttempts \in Nat \ {0}
    /\ BatchSize \in Nat \ {0}

VARIABLES
    post,           \* progress and answer of each request
    lock,           \* advisory lock of each key: the request that holds it
    communication,  \* status of the communications
    delivery,       \* communication_email_deliveries
    outbox,         \* realtime events committed about each communication
    accepted,       \* times the SMTP server accepted each message
    worker          \* the executions

vars == <<post, lock, communication, delivery, outbox, accepted, worker>>
mail == <<communication, delivery, outbox>>
requests == <<post, lock>>

Resolved == {"sent", "failed", "unknown"}
Result   == {"ok", "transient", "terminal", "uncertain"}

Unasked == [pc |-> "start", answer |-> "none", id |-> None]
NoDelivery == [status |-> "none", attempts |-> 0, owner |-> None,
               expired |-> FALSE, due |-> FALSE]
Resting == [pc |-> "idle", id |-> None, result |-> "none", claims |-> 0]

\* Every variable holds values of its kind; attempts stay within the limit.
TypeOK ==
    /\ post \in [Request ->
                   [pc : {"start", "lock", "find", "commit", "end"},
                    answer : {"none", "created", "replayed", "conflict",
                              "collision", "error"},
                    id : Request \cup {None}]]
    /\ lock \in [Key -> Request \cup {None}]
    /\ communication \in [Request -> {"none", "Pendente", "Enviado", "Falhou",
                                      "Incerto"}]
    /\ delivery \in [Request -> [status : {"none", "pending", "processing"} \cup Resolved,
                                 attempts : 0..MaxAttempts,
                                 owner : Worker \cup {None},
                                 expired : BOOLEAN, due : BOOLEAN]]
    /\ \A m \in Request :
         outbox[m] \in Seq({"created"} \cup Resolved) /\ Len(outbox[m]) <= 2
    /\ accepted \in [Request -> 0..MaxAttempts]
    /\ worker \in [Worker -> [pc : {"idle", "claim", "send", "record"},
                              id : Request \cup {None},
                              result : Result \cup {"none"},
                              claims : 0..BatchSize]]

Init ==
    /\ post = [q \in Request |-> Unasked]
    /\ lock = [k \in Key |-> None]
    /\ communication = [m \in Request |-> "none"]
    /\ delivery = [m \in Request |-> NoDelivery]
    /\ outbox = [m \in Request |-> <<>>]
    /\ accepted = [m \in Request |-> 0]
    /\ worker = [w \in Worker |-> Resting]

-----------------------------------------------------------------------------
(* POST /comunicacoes: agendar_comunicacao. *)

\* Committed communications under the key of q: the partial unique index
\* admits one.
WithKeyOf(q) == {m \in Request : communication[m] # "none" /\ KeyOf(m) = KeyOf(q)}

\* The end of the transaction of q, which also frees its advisory lock.
Answer(q, answer, m) ==
    /\ post' = [post EXCEPT ![q] = [pc |-> "end", answer |-> answer, id |-> m]]
    /\ lock' = [k \in Key |-> IF lock[k] = q THEN None ELSE lock[k]]

\* Only a request whose key is not persisted yet consumes the rate limit,
\* which may refuse it or be unavailable.
Arrive(q) ==
    /\ post[q].pc = "start"
    /\ \/ post' = [post EXCEPT ![q].pc = "lock"] /\ UNCHANGED lock
       \/ WithKeyOf(q) = {} /\ Answer(q, "error", None)
    /\ UNCHANGED <<mail, accepted, worker>>

\* Fault: a lock that nobody waits for.
LockKeyShared(q) ==
    /\ post[q].pc = "lock"
    /\ lock' = [lock EXCEPT ![KeyOf(q)] = q]
    /\ post' = [post EXCEPT ![q].pc = "find"]
    /\ UNCHANGED <<mail, accepted, worker>>

\* bloquear_idempotencia: pg_advisory_xact_lock waits for its holder.
LockKey(q) ==
    /\ post[q].pc = "lock"
    /\ lock[KeyOf(q)] = None
    /\ lock' = [lock EXCEPT ![KeyOf(q)] = q]
    /\ post' = [post EXCEPT ![q].pc = "find"]
    /\ UNCHANGED <<mail, accepted, worker>>

\* obter_por_idempotencia under the lock.
Find(q) ==
    /\ post[q].pc = "find"
    /\ \/ \E m \in WithKeyOf(q) :
            Answer(q, IF FingerprintOf(m) = FingerprintOf(q)
                        THEN "replayed" ELSE "conflict", m)
       \/ /\ WithKeyOf(q) = {}
          /\ post' = [post EXCEPT ![q].pc = "commit"]
          /\ UNCHANGED lock
    /\ UNCHANGED <<mail, accepted, worker>>

\* criar_pendente, its event and the commit.  The unique index on the key
\* turns a second row into an error of the database.
Create(q) ==
    /\ post[q].pc = "commit"
    /\ \/ /\ WithKeyOf(q) = {}
          /\ communication' = [communication EXCEPT ![q] = "Pendente"]
          /\ delivery' = [delivery EXCEPT ![q].status = "pending", ![q].due = TRUE]
          /\ outbox' = [outbox EXCEPT ![q] = Append(@, "created")]
          /\ Answer(q, "created", q)
       \/ /\ WithKeyOf(q) # {}
          /\ Answer(q, "collision", None)
          /\ UNCHANGED mail
    /\ UNCHANGED <<accepted, worker>>

\* A failure before the commit rolls the transaction back.
AbortPost(q) ==
    /\ post[q].pc \in {"lock", "find", "commit"}
    /\ Answer(q, "error", None)
    /\ UNCHANGED <<mail, accepted, worker>>

-----------------------------------------------------------------------------
(* The periodic task: processar_entregas_pendentes. *)

StatusShown(status) ==
    CASE status = "sent"    -> "Enviado"
      [] status = "failed"  -> "Falhou"
      [] status = "unknown" -> "Incerto"

\* Both tables and the event change in one transaction.
Resolve(B, status) ==
    /\ delivery' = [m \in Request |->
                      IF m \in B
                        THEN [delivery[m] EXCEPT !.status = status, !.owner = None,
                                                 !.expired = FALSE]
                        ELSE delivery[m]]
    /\ communication' = [m \in Request |->
                           IF m \in B THEN StatusShown(status) ELSE communication[m]]
    /\ outbox' = [m \in Request |->
                    IF m \in B THEN Append(outbox[m], status) ELSE outbox[m]]

Batches(S) ==
    {B \in SUBSET S :
        Cardinality(B) = IF Cardinality(S) <= BatchSize THEN Cardinality(S)
                                                        ELSE BatchSize}

\* Fault: only deliveries that no execution owns are looked for.
ExpiredUnowned ==
    {m \in Request : /\ delivery[m].status = "processing" /\ delivery[m].expired
                     /\ delivery[m].owner = None}

Expired == {m \in Request : delivery[m].status = "processing" /\ delivery[m].expired}

\* Fault: a delivery whose lease expired is tried again.
ReconcileRequeueing(w, locked) ==
    /\ worker[w].pc = "idle"
    /\ \E B \in Batches(Expired \ locked) :
         delivery' = [m \in Request |->
                        IF m \in B /\ delivery[m].attempts < MaxAttempts
                          THEN [delivery[m] EXCEPT !.status = "pending", !.owner = None,
                                                   !.expired = FALSE, !.due = TRUE]
                          ELSE delivery[m]]
    /\ worker' = [worker EXCEPT ![w].pc = "claim"]
    /\ UNCHANGED <<communication, outbox, requests, accepted>>

\* reconciliar_processamentos_expirados and its commit open the execution.
\* SKIP LOCKED passes over the rows that other transactions hold.
Reconcile(w, locked) ==
    /\ worker[w].pc = "idle"
    /\ \E B \in Batches(Expired \ locked) : Resolve(B, "unknown")
    /\ worker' = [worker EXCEPT ![w].pc = "claim"]
    /\ UNCHANGED <<requests, accepted>>

Claimable(m) == delivery[m].status = "pending" /\ delivery[m].due

\* reivindicar_proxima and the commit that must precede the conversation.
Claim(w, m) ==
    /\ worker[w].pc = "claim"
    /\ worker[w].claims < BatchSize
    /\ Claimable(m)
    /\ delivery' = [delivery EXCEPT ![m] =
                      [delivery[m] EXCEPT !.status = "processing", !.owner = w,
                                          !.attempts = @ + 1, !.due = FALSE]]
    /\ worker' = [worker EXCEPT ![w] = [pc |-> "send", id |-> m, result |-> "none",
                                        claims |-> worker[w].claims + 1]]
    /\ UNCHANGED <<communication, outbox, requests, accepted>>

\* The batch is full, or no row was found that is due and not locked.
Finish(w) ==
    /\ worker[w].pc = "claim"
    /\ worker' = [worker EXCEPT ![w] = Resting]
    /\ UNCHANGED <<mail, requests, accepted>>

\* The SMTP conversation.  A refusal or a failed connection proves that the
\* message was not accepted; a lost connection or a timeout proves nothing.
\* A server that answers neither 2xx, 4xx nor 5xx to the message is left out:
\* email_sender.py:20-25 takes such an answer for a refusal.
Send(w, result) ==
    /\ worker[w].pc = "send"
    /\ worker' = [worker EXCEPT ![w].pc = "record", ![w].result = result]
    /\ accepted' \in {IF takes THEN [accepted EXCEPT ![worker[w].id] = @ + 1]
                               ELSE accepted :
                        takes \in CASE result = "ok"        -> {TRUE}
                                    [] result = "uncertain" -> BOOLEAN
                                    [] OTHER                -> {FALSE}}
    /\ UNCHANGED <<mail, requests>>

\* The compare-and-set of marcar_enviada and registrar_falha: status and
\* owner, whatever has become of the lease.
StillOwns(w) ==
    LET row == delivery[worker[w].id] IN row.status = "processing" /\ row.owner = w

\* What an attempt makes of its delivery; only a proven transient failure is
\* tried again, while attempts are left.
OutcomeOf(result, attempts) ==
    CASE result = "ok"        -> "sent"
      [] result = "terminal"  -> "failed"
      [] result = "uncertain" -> "unknown"
      [] result = "transient" -> IF attempts >= MaxAttempts THEN "failed" ELSE "pending"

Continue(w) ==
    worker' = [worker EXCEPT ![w] = [@ EXCEPT !.pc = "claim", !.id = None,
                                              !.result = "none"]]

\* Fault: the result is recorded although another execution settled the row.
RecordUnchecked(w) ==
    LET m       == worker[w].id
        outcome == OutcomeOf(worker[w].result, delivery[m].attempts)
    IN  /\ worker[w].pc = "record"
        /\ \/ /\ outcome \in Resolved
              /\ Resolve({m}, outcome)
           \/ /\ outcome = "pending"
              /\ delivery' = [delivery EXCEPT ![m].status = "pending", ![m].owner = None,
                                              ![m].expired = FALSE]
              /\ UNCHANGED <<communication, outbox>>
        /\ Continue(w)
        /\ UNCHANGED <<requests, accepted>>

\* The result of the conversation is recorded; one that comes after another
\* execution settled the delivery is stale and changes nothing.
Record(w) ==
    LET m       == worker[w].id
        outcome == OutcomeOf(worker[w].result, delivery[m].attempts)
    IN  /\ worker[w].pc = "record"
        /\ \/ /\ StillOwns(w)
              /\ outcome \in Resolved
              /\ Resolve({m}, outcome)
           \/ /\ StillOwns(w)
              /\ outcome = "pending"
              /\ delivery' = [delivery EXCEPT ![m].status = "pending", ![m].owner = None,
                                              ![m].expired = FALSE]
              /\ UNCHANGED <<communication, outbox>>
           \/ /\ ~StillOwns(w)
              /\ UNCHANGED mail
        /\ Continue(w)
        /\ UNCHANGED <<requests, accepted>>

\* The process dies, or a database error ends the execution.
Crash(w) ==
    /\ worker[w].pc # "idle"
    /\ worker' = [worker EXCEPT ![w] = Resting]
    /\ UNCHANGED <<mail, requests, accepted>>

-----------------------------------------------------------------------------
LeaseRunsOut(m) ==
    /\ delivery[m].status = "processing"
    /\ ~delivery[m].expired
    /\ delivery' = [delivery EXCEPT ![m].expired = TRUE]
    /\ UNCHANGED <<communication, outbox, requests, accepted, worker>>

BackoffEnds(m) ==
    /\ delivery[m].status = "pending"
    /\ ~delivery[m].due
    /\ delivery' = [delivery EXCEPT ![m].due = TRUE]
    /\ UNCHANGED <<communication, outbox, requests, accepted, worker>>

Posting(q) == Arrive(q) \/ LockKey(q) \/ Find(q) \/ Create(q) \/ AbortPost(q)

Delivering(w) ==
    \/ \E locked \in SUBSET Request : Reconcile(w, locked)
    \/ \E m \in Request : Claim(w, m)
    \/ \E result \in Result : Send(w, result)
    \/ Record(w)
    \/ Finish(w)
    \/ Crash(w)

Time == \E m \in Request : LeaseRunsOut(m) \/ BackoffEnds(m)

Next ==
    \/ \E q \in Request : Posting(q)
    \/ \E w \in Worker : Delivering(w)
    \/ Time

Spec == Init /\ [][Next]_vars

\* Beat starts the task again and again.  Executions may die anywhere, but
\* not all of them before their first claim, and a row lock lasts for one
\* transaction: hence strong fairness.  An execution that does not die goes
\* on, as its SMTP timeout makes it.  Nothing is assumed of the requests.
Fairness ==
    /\ \A m \in Request : WF_vars(LeaseRunsOut(m)) /\ WF_vars(BackoffEnds(m))
    /\ SF_vars(\E w \in Worker : Reconcile(w, {}))
    /\ SF_vars(\E w \in Worker, m \in Request : Claim(w, m))
    /\ \A w \in Worker : WF_vars(Finish(w) \/ Record(w)
                                   \/ \E result \in Result : Send(w, result))

FairSpec == Spec /\ Fairness

-----------------------------------------------------------------------------
(* Safety. *)

\* One intention per key, whatever the requests and their failures: equal
\* answers for equal keys, and the unique index is never what stops a race.
OneCommunicationPerKey ==
    \A q, u \in Request :
        /\ post[q].answer # "collision"
        /\ post[q].answer \in {"created", "replayed"} =>
             /\ FingerprintOf(post[q].id) = FingerprintOf(q)
             /\ WithKeyOf(q) = {post[q].id}
        /\ KeyOf(q) = KeyOf(u) /\ q # u => "created" # post[q].answer
                                           \/ "created" # post[u].answer

\* No message is accepted twice, and what the user is told is true: Enviado
\* was accepted, Falhou was not, and a delivery that waits for its next attempt
\* was not either.
ServerAcceptsOnce ==
    \A m \in Request :
        /\ accepted[m] <= 1
        /\ communication[m] = "Enviado" => accepted[m] = 1
        /\ communication[m] \in {"Falhou", "none"} => accepted[m] = 0
        /\ delivery[m].status = "pending" => accepted[m] = 0

\* Both tables and the event stream tell one story: each communication is
\* announced once when created and once when resolved, retries and stale
\* results are silent, and its constraints hold (models.py:66-98).
OneStory ==
    \A m \in Request :
        LET row == delivery[m]
        IN  /\ communication[m] =
                 CASE row.status = "none"                      -> "none"
                   [] row.status \in {"pending", "processing"} -> "Pendente"
                   [] OTHER                                    -> StatusShown(row.status)
            /\ outbox[m] = CASE row.status = "none" -> <<>>
                             [] row.status \in {"pending", "processing"} -> <<"created">>
                             [] OTHER -> <<"created", row.status>>
            /\ row.status = "processing" <=> row.owner # None
            /\ row.status = "pending" => row.attempts < MaxAttempts

(* Liveness. *)

\* Every communication that was accepted for delivery is resolved, whatever
\* dies on the way.
EveryCommunicationIsResolved ==
    \A m \in Request :
        communication[m] = "Pendente" ~> communication[m] \notin {"none", "Pendente"}
=============================================================================
