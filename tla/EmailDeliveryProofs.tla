------------------------- MODULE EmailDeliveryProofs -------------------------
(***************************************************************************)
(* Proofs about EmailDelivery for every value of its constants.             *)
(*                                                                          *)
(* A transaction changes each communication in one of the five ways of      *)
(* MailStep.  What is true of one communication alone (OneStory) follows    *)
(* from these; that the server accepts it once needs to know which          *)
(* execution still talks about it (Flights), and that a key has one         *)
(* communication needs to know what a request that holds the lock may       *)
(* assume (Keys).                                                           *)
(***************************************************************************)
EXTENDS EmailDelivery, TLAPS

Events == {"created"} \cup Resolved

\* TypeOK bounds the events of each communication; this also says that there
\* are no others.
OutboxTyped == outbox \in [Request -> Seq(Events)]

\* A communication that nobody created was never attempted.
Untouched == \A m \in Request : delivery[m].status = "none" => delivery[m].attempts = 0

-----------------------------------------------------------------------------
(* The executions and their conversations.                                  *)

InFlight(w) == worker[w].pc \in {"send", "record"}

\* An execution talks about a delivery it claimed; until it records what it
\* learnt nobody else claims that delivery, though a sweep may give it up.
FlightOf(w) ==
    /\ InFlight(w) <=> worker[w].id # None
    /\ InFlight(w) =>
         LET m == worker[w].id
         IN  /\ delivery[m].status \in {"processing", "unknown"}
             /\ delivery[m].status = "processing" => delivery[m].owner = w
             /\ worker[w].pc = "send" => accepted[m] = 0
             /\ worker[w].pc = "record" =>
                  /\ worker[w].result # "none"
                  /\ worker[w].result = "ok" => accepted[m] = 1
                  /\ worker[w].result \in {"transient", "terminal"} => accepted[m] = 0

OneFlightPerMessage ==
    \A w, v \in Worker : InFlight(w) /\ InFlight(v) /\ worker[w].id = worker[v].id => w = v

Flights ==
    /\ \A w \in Worker : FlightOf(w)
    /\ OneFlightPerMessage

\* What the server did, in terms of the delivery.
AcceptedAsResolved ==
    \A m \in Request :
        /\ accepted[m] <= 1
        /\ delivery[m].status \in {"none", "pending", "failed"} => accepted[m] = 0
        /\ delivery[m].status = "sent" => accepted[m] = 1

-----------------------------------------------------------------------------
(* The requests and their keys.                                             *)

Persisted(m) == communication[m] # "none"

KeyOfRequest(q) ==
    /\ post[q].pc \in {"find", "commit"} => lock[KeyOf(q)] = q
    /\ post[q].pc = "commit" => WithKeyOf(q) = {}
    /\ post[q].pc # "end" => post[q].answer = "none"
    /\ Persisted(q) <=> post[q].answer = "created"
    /\ post[q].answer = "created" => post[q].id = q
    /\ post[q].answer = "replayed" =>
         /\ post[q].id \in WithKeyOf(q)
         /\ FingerprintOf(post[q].id) = FingerprintOf(q)
    /\ post[q].answer # "collision"

KeysAreUnique ==
    \A m, n \in Request : Persisted(m) /\ Persisted(n) /\ KeyOf(m) = KeyOf(n) => m = n

Keys ==
    /\ \A q \in Request : KeyOfRequest(q)
    /\ KeysAreUnique

\* The inductive invariant.
DeliveryInv ==
    /\ TypeOK
    /\ OutboxTyped
    /\ OneStory
    /\ Untouched
    /\ Flights
    /\ AcceptedAsResolved
    /\ Keys

-----------------------------------------------------------------------------
(* What a transaction does to one communication.                            *)

Announced(m, event) == outbox'[m] = Append(outbox[m], event)

Silent(m) == communication'[m] = communication[m] /\ outbox'[m] = outbox[m]

Left(m) ==
    /\ \E late, ready \in BOOLEAN :
         delivery'[m] = [delivery[m] EXCEPT !.expired = late, !.due = ready]
    /\ Silent(m)

LEMMA UntouchedIsLeft ==
    ASSUME TypeOK, NEW m \in Request, delivery'[m] = delivery[m], Silent(m)
    PROVE  Left(m)
<1>1. delivery[m] = [delivery[m] EXCEPT !.expired = delivery[m].expired,
                                        !.due = delivery[m].due]
  BY DEF TypeOK
<1>2. delivery[m].expired \in BOOLEAN /\ delivery[m].due \in BOOLEAN
  BY DEF TypeOK
<1> QED BY <1>1, <1>2 DEF Left

Created(m) ==
    /\ post[m].pc = "commit" /\ post'[m].pc = "end"
    /\ ~Persisted(m)
    /\ delivery'[m] = [delivery[m] EXCEPT !.status = "pending", !.due = TRUE]
    /\ communication'[m] = "Pendente"
    /\ Announced(m, "created")

Claimed(m) ==
    /\ delivery[m].status = "pending"
    /\ \E w \in Worker : delivery'[m] = [delivery[m] EXCEPT !.status = "processing",
                                                            !.owner = w,
                                                            !.attempts = @ + 1,
                                                            !.due = FALSE]
    /\ Silent(m)

Settled(m) ==
    /\ delivery[m].status = "processing"
    /\ \E status \in Resolved :
         /\ delivery'[m] = [delivery[m] EXCEPT !.status = status, !.owner = None,
                                               !.expired = FALSE]
         /\ communication'[m] = StatusShown(status)
         /\ Announced(m, status)

Postponed(m) ==
    /\ delivery[m].status = "processing"
    /\ delivery[m].attempts < MaxAttempts
    /\ delivery'[m] = [delivery[m] EXCEPT !.status = "pending", !.owner = None,
                                          !.expired = FALSE]
    /\ Silent(m)

MailStep(m) == Left(m) \/ Created(m) \/ Claimed(m) \/ Settled(m) \/ Postponed(m)

\* The tables keep their rows.
TablesStay ==
    /\ delivery' = [m \in Request |-> delivery'[m]]
    /\ communication' = [m \in Request |-> communication'[m]]
    /\ outbox' = [m \in Request |-> outbox'[m]]

LEMMA ResolveSettles ==
    ASSUME TypeOK, OutboxTyped, NEW B \in SUBSET Request, NEW status \in Resolved,
           \A m \in B : delivery[m].status = "processing", Resolve(B, status)
    PROVE  TablesStay /\ \A m \in Request : Left(m) \/ Settled(m)
<1>1. TablesStay
  BY DEF Resolve, TablesStay
<1>2. \A m \in B : Settled(m)
  BY DEF Resolve, Settled, Announced
<1>3. \A m \in Request \ B : Left(m)
  BY UntouchedIsLeft DEF Resolve, Silent
<1> QED BY <1>1, <1>2, <1>3

LEMMA OutcomesAre ==
    ASSUME NEW result \in Result, NEW attempts \in Nat
    PROVE  /\ OutcomeOf(result, attempts) \in Resolved \cup {"pending"}
           /\ OutcomeOf(result, attempts) = "pending" =>
                result = "transient" /\ attempts < MaxAttempts
           /\ OutcomeOf(result, attempts) = "sent" => result = "ok"
           /\ OutcomeOf(result, attempts) = "failed" =>
                result \in {"terminal", "transient"}
  BY DeliveryAssumption DEF OutcomeOf, Result, Resolved

\* A transaction of a request or of an execution changes each communication
\* in one of these ways.
LEMMA StepsOfMail ==
    ASSUME TypeOK, OutboxTyped, Flights, [Next]_vars
    PROVE  TablesStay /\ \A m \in Request : MailStep(m)
<1>1. CASE UNCHANGED mail
  BY <1>1, UntouchedIsLeft DEF mail, TablesStay, MailStep, Silent, TypeOK, OutboxTyped
<1>2. ASSUME NEW q \in Request, Create(q), ~UNCHANGED mail
      PROVE  TablesStay /\ \A m \in Request : MailStep(m)
  <2>1. /\ communication' = [communication EXCEPT ![q] = "Pendente"]
        /\ delivery' = [delivery EXCEPT ![q].status = "pending", ![q].due = TRUE]
        /\ outbox' = [outbox EXCEPT ![q] = Append(@, "created")]
        /\ WithKeyOf(q) = {}
        /\ post[q].pc = "commit"
        /\ Answer(q, "created", q)
    BY <1>2 DEF Create
  <2>2. post'[q].pc = "end"
    BY <2>1 DEF Answer, TypeOK
  <2>3. Created(q)
    BY <2>1, <2>2 DEF Created, Announced, TypeOK, OutboxTyped, Persisted, WithKeyOf
  <2>4. \A m \in Request : m # q => Left(m)
    BY <2>1, UntouchedIsLeft DEF Silent, TypeOK, OutboxTyped
  <2>5. TablesStay
    BY <2>1 DEF TablesStay, TypeOK, OutboxTyped
  <2> QED BY <2>3, <2>4, <2>5 DEF MailStep
<1>3. ASSUME NEW w \in Worker, NEW locked \in SUBSET Request, Reconcile(w, locked)
      PROVE  TablesStay /\ \A m \in Request : MailStep(m)
  <2>1. PICK B \in Batches(Expired \ locked) : Resolve(B, "unknown")
    BY <1>3 DEF Reconcile
  <2>2. B \in SUBSET Request /\ \A m \in B : delivery[m].status = "processing"
    BY DEF Batches, Expired
  <2> QED BY <2>1, <2>2, ResolveSettles DEF MailStep, Resolved
<1>4. ASSUME NEW w \in Worker, NEW m \in Request, Claim(w, m)
      PROVE  TablesStay /\ \A n \in Request : MailStep(n)
  <2>1. delivery' = [delivery EXCEPT ![m] =
                      [delivery[m] EXCEPT !.status = "processing", !.owner = w,
                                          !.attempts = @ + 1, !.due = FALSE]]
    BY <1>4 DEF Claim
  <2>2. Claimed(m)
    <3>1. delivery'[m] = [delivery[m] EXCEPT !.status = "processing", !.owner = w,
                                             !.attempts = @ + 1, !.due = FALSE]
      BY <2>1 DEF TypeOK
    <3>2. delivery[m].status = "pending" /\ UNCHANGED <<communication, outbox>>
      BY <1>4 DEF Claim, Claimable
    <3> QED BY <3>1, <3>2 DEF Claimed, Silent
  <2>3. TablesStay /\ \A n \in Request : n # m => Left(n)
    BY <1>4, <2>1, UntouchedIsLeft DEF Claim, Silent, TablesStay, TypeOK, OutboxTyped
  <2> QED BY <2>2, <2>3 DEF MailStep
<1>5. ASSUME NEW w \in Worker, Record(w), ~UNCHANGED mail
      PROVE  TablesStay /\ \A m \in Request : MailStep(m)
  <2> DEFINE m       == worker[w].id
             outcome == OutcomeOf(worker[w].result, delivery[m].attempts)
  <2>1. worker[w].pc = "record" /\ StillOwns(w)
    BY <1>5 DEF Record
  <2>2. m \in Request /\ delivery[m].status = "processing"
    BY <2>1 DEF Flights, FlightOf, InFlight, StillOwns, TypeOK
  <2>3. worker[w].result \in Result /\ delivery[m].attempts \in Nat
    BY <2>1, <2>2 DEF Flights, FlightOf, InFlight, TypeOK
  <2>4. CASE outcome \in Resolved /\ Resolve({m}, outcome)
    BY <2>2, <2>4, ResolveSettles DEF MailStep
  <2>5. CASE outcome = "pending"
    <3>1. delivery' = [delivery EXCEPT ![m].status = "pending", ![m].owner = None,
                                       ![m].expired = FALSE]
          /\ UNCHANGED <<communication, outbox>>
      BY <1>5, <2>5 DEF Record, Resolved
    <3>2. delivery[m].attempts < MaxAttempts
      BY <2>3, <2>5, OutcomesAre
    <3>3. Postponed(m)
      <4>1. delivery'[m] = [delivery[m] EXCEPT !.status = "pending", !.owner = None,
                                               !.expired = FALSE]
        BY <2>2, <3>1 DEF TypeOK
      <4> QED BY <2>2, <3>1, <3>2, <4>1 DEF Postponed, Silent
    <3>4. TablesStay /\ \A n \in Request : n # m => Left(n)
      BY <2>2, <3>1, UntouchedIsLeft DEF Silent, TablesStay, TypeOK, OutboxTyped
    <3> QED BY <3>3, <3>4 DEF MailStep
  <2> QED BY <1>5, <2>1, <2>4, <2>5 DEF Record, mail
<1>6. ASSUME NEW m \in Request, LeaseRunsOut(m) \/ BackoffEnds(m)
      PROVE  TablesStay /\ \A n \in Request : MailStep(n)
  <2>1. \A n \in Request : Left(n)
    <3>1. delivery[m].expired \in BOOLEAN /\ delivery[m].due \in BOOLEAN
      BY DEF TypeOK
    <3>2. \/ delivery' = [delivery EXCEPT ![m] =
                            [delivery[m] EXCEPT !.expired = TRUE, !.due = delivery[m].due]]
          \/ delivery' = [delivery EXCEPT ![m] =
                            [delivery[m] EXCEPT !.expired = delivery[m].expired, !.due = TRUE]]
      BY <1>6 DEF LeaseRunsOut, BackoffEnds, TypeOK
    <3>3. \A n \in Request : Silent(n)
      BY <1>6 DEF LeaseRunsOut, BackoffEnds, Silent
    <3>4. Left(m)
      BY <3>1, <3>2, <3>3 DEF Left, TypeOK
    <3> QED BY <3>2, <3>3, <3>4, UntouchedIsLeft DEF TypeOK
  <2>2. UNCHANGED <<communication, outbox>> /\ \E row : delivery' = [delivery EXCEPT ![m] = row]
    BY <1>6 DEF LeaseRunsOut, BackoffEnds, TypeOK
  <2> QED BY <2>1, <2>2 DEF MailStep, TablesStay, TypeOK, OutboxTyped
<1>7. ASSUME NEW q \in Request, Posting(q), ~Create(q) PROVE UNCHANGED mail
  BY <1>7 DEF Posting, Arrive, LockKey, Find, AbortPost, mail
<1>8. ASSUME NEW w \in Worker, Finish(w) \/ Crash(w) \/ \E result \in Result : Send(w, result)
      PROVE  UNCHANGED mail
  BY <1>8 DEF Finish, Crash, Send, mail
<1>9. [Next]_vars => Next \/ UNCHANGED mail
  BY DEF vars, mail
<1> QED
  BY <1>1, <1>2, <1>3, <1>4, <1>5, <1>6, <1>7, <1>8, <1>9
  DEF Next, Delivering, Time

-----------------------------------------------------------------------------
(* What is true of each communication alone.                                *)

LEMMA StatusesShown ==
    \A status \in Resolved :
        StatusShown(status) = IF status = "sent" THEN "Enviado"
                              ELSE IF status = "failed" THEN "Falhou" ELSE "Incerto"
  BY DEF StatusShown, Resolved

StoryOf(m) ==
    LET row == delivery[m]
    IN  /\ row.status = "none" =>
             communication[m] = "none" /\ outbox[m] = <<>> /\ row.attempts = 0
        /\ row.status \in {"pending", "processing"} =>
             communication[m] = "Pendente" /\ outbox[m] = <<"created">>
        /\ row.status \in Resolved =>
             /\ communication[m] = StatusShown(row.status)
             /\ outbox[m] = <<"created", row.status>>
        /\ row.status = "processing" <=> row.owner # None
        /\ row.status = "pending" => row.attempts < MaxAttempts

Stories == \A m \in Request : StoryOf(m)

LEMMA StoriesAreOne == TypeOK => (Stories <=> OneStory /\ Untouched)
  BY StatusesShown DEF TypeOK, Stories, StoryOf, OneStory, Untouched, Resolved

Delivery == [status : {"none", "pending", "processing"} \cup Resolved,
             attempts : 0..MaxAttempts,
             owner : Worker \cup {None},
             expired : BOOLEAN, due : BOOLEAN]

RowTyped(m) ==
    /\ delivery[m] \in Delivery
    /\ communication[m] \in {"none", "Pendente", "Enviado", "Falhou", "Incerto"}
    /\ outbox[m] \in Seq(Events)
    /\ Len(outbox[m]) <= 2

LEMMA SameSequence ==
    ASSUME NEW S, NEW s \in Seq(S), NEW t \in Seq(S), Len(s) = Len(t),
           \A i \in 1..Len(s) : s[i] = t[i]
    PROVE  s = t
  OBVIOUS

LEMMA PairOf ==
    ASSUME NEW S, NEW x \in S, NEW y \in S
    PROVE  Append(<<x>>, y) = <<x, y>>
<1>1. <<x>> \in Seq(S) /\ <<x, y>> \in Seq(S) /\ Len(<<x, y>>) = 2
  OBVIOUS
<1>2. /\ Append(<<x>>, y) \in Seq(S)
      /\ Len(Append(<<x>>, y)) = 2
      /\ Append(<<x>>, y)[1] = x
      /\ Append(<<x>>, y)[2] = y
  BY <1>1
<1>3. \A i \in 1..2 : Append(<<x>>, y)[i] = <<x, y>>[i]
  BY <1>2
<1> QED BY <1>1, <1>2, <1>3, SameSequence

LEMMA StoryStep ==
    ASSUME NEW m \in Request, RowTyped(m), StoryOf(m), MailStep(m)
    PROVE  RowTyped(m)' /\ StoryOf(m)'
<1> USE DeliveryAssumption
<1>1. CASE Left(m)
  BY <1>1 DEF Left, Silent, RowTyped, Delivery, StoryOf
<1>2. CASE Created(m)
  <2>1. delivery[m].status = "none" /\ outbox[m] = <<>> /\ delivery[m].attempts = 0
    BY <1>2, StatusesShown DEF Created, Persisted, RowTyped, Delivery, StoryOf, Resolved
  <2>2. outbox'[m] = <<"created">>
    BY <1>2, <2>1 DEF Created, Announced
  <2>3. /\ outbox'[m] \in Seq(Events)
        /\ Len(outbox'[m]) = 1
    BY <2>2 DEF Events
  <2>4. delivery'[m] = [delivery[m] EXCEPT !.status = "pending", !.due = TRUE]
        /\ communication'[m] = "Pendente"
    BY <1>2 DEF Created
  <2>5. RowTyped(m)'
    <3>1. delivery'[m] \in Delivery
      BY <2>4 DEF RowTyped, Delivery
    <3> QED BY <2>3, <2>4, <3>1 DEF RowTyped
  <2>6. delivery'[m].status = "pending" /\ delivery'[m].attempts = 0
        /\ delivery'[m].owner = None
    BY <2>1, <2>4 DEF RowTyped, Delivery, StoryOf
  <2> QED BY <2>2, <2>4, <2>5, <2>6 DEF StoryOf, Resolved
<1>3. CASE Claimed(m)
  <2>1. PICK w \in Worker :
          delivery'[m] = [delivery[m] EXCEPT !.status = "processing", !.owner = w,
                                             !.attempts = @ + 1, !.due = FALSE]
    BY <1>3 DEF Claimed
  <2>2. delivery[m].attempts + 1 \in 0..MaxAttempts /\ w # None
    BY <1>3 DEF Claimed, RowTyped, Delivery, StoryOf
  <2>3. delivery[m] \in Delivery /\ delivery[m].status = "pending" /\ Silent(m)
    BY <1>3 DEF Claimed, RowTyped
  <2>4. /\ delivery'[m] \in Delivery
        /\ delivery'[m].status = "processing" /\ delivery'[m].owner = w
    BY <2>1, <2>2, <2>3 DEF Delivery
  <2>5. RowTyped(m)'
    BY <2>3, <2>4 DEF RowTyped, Silent
  <2>6. communication'[m] = "Pendente" /\ outbox'[m] = <<"created">>
    BY <2>3 DEF StoryOf, Silent
  <2>7. StoryOf(m)'
    BY <2>2, <2>4, <2>6 DEF StoryOf, Resolved
  <2> QED BY <2>5, <2>7
<1>4. CASE Settled(m)
  <2>1. PICK status \in Resolved :
          /\ delivery'[m] = [delivery[m] EXCEPT !.status = status, !.owner = None,
                                                !.expired = FALSE]
          /\ communication'[m] = StatusShown(status)
          /\ outbox'[m] = Append(outbox[m], status)
    BY <1>4 DEF Settled, Announced
  <2>2. outbox'[m] = <<"created", status>>
    <3>1. outbox[m] = <<"created">>
      BY <1>4 DEF Settled, StoryOf
    <3>2. "created" \in Events /\ status \in Events
      BY DEF Events
    <3>3. Append(<<"created">>, status) = <<"created", status>>
      BY <3>2, PairOf
    <3> QED BY <2>1, <3>1, <3>3
  <2>3. outbox'[m] \in Seq(Events) /\ Len(outbox'[m]) = 2
    BY <2>2 DEF Events
  <2>4. RowTyped(m)'
    <3>1. delivery'[m] \in Delivery
      BY <2>1 DEF RowTyped, Delivery
    <3> QED BY <2>1, <2>3, <3>1, StatusesShown DEF RowTyped, Resolved
  <2>5. delivery'[m].status = status /\ delivery'[m].owner = None
    BY <2>1 DEF RowTyped, Delivery
  <2> QED BY <2>1, <2>2, <2>4, <2>5 DEF StoryOf, Resolved
<1>5. CASE Postponed(m)
  BY <1>5 DEF Postponed, Silent, RowTyped, Delivery, StoryOf, Resolved
<1> QED BY <1>1, <1>2, <1>3, <1>4, <1>5 DEF MailStep

-----------------------------------------------------------------------------
(* The inductive invariant.                                                 *)

RequestTyped ==
    /\ post \in [Request ->
                   [pc : {"start", "lock", "find", "commit", "end"},
                    answer : {"none", "created", "replayed", "conflict",
                              "collision", "error"},
                    id : Request \cup {None}]]
    /\ lock \in [Key -> Request \cup {None}]

WorkerTyped ==
    worker \in [Worker -> [pc : {"idle", "claim", "send", "record"},
                           id : Request \cup {None},
                           result : Result \cup {"none"},
                           claims : 0..BatchSize]]

LEMMA InvInitially == Init => DeliveryInv
<1> SUFFICES ASSUME Init PROVE DeliveryInv
  OBVIOUS
<1> USE DeliveryAssumption DEF Init
<1>1. TypeOK /\ OutboxTyped
  BY DEF TypeOK, OutboxTyped, Unasked, NoDelivery, Resting, Events
<1>2. OneStory /\ Untouched /\ AcceptedAsResolved
  BY DEF OneStory, Untouched, AcceptedAsResolved, NoDelivery, Resolved
<1>3. Flights
  BY DEF Flights, FlightOf, InFlight, OneFlightPerMessage, Resting
<1>4. Keys
  BY DEF Keys, KeyOfRequest, KeysAreUnique, Persisted, Unasked
<1> QED BY <1>1, <1>2, <1>3, <1>4 DEF DeliveryInv

\* The tables stay typed and keep telling one story.
LEMMA MailInvStep ==
    ASSUME DeliveryInv, [Next]_vars
    PROVE  /\ delivery' \in [Request -> Delivery]
           /\ communication' \in [Request -> {"none", "Pendente", "Enviado", "Falhou",
                                              "Incerto"}]
           /\ OutboxTyped'
           /\ \A m \in Request : Len(outbox'[m]) <= 2
           /\ Stories'
<1>1. TablesStay /\ \A m \in Request : MailStep(m)
  BY StepsOfMail DEF DeliveryInv
<1>2. Stories
  BY StoriesAreOne DEF DeliveryInv
<1>3. \A m \in Request : RowTyped(m)
  BY DEF DeliveryInv, TypeOK, OutboxTyped, RowTyped, Delivery, Events
<1>4. \A m \in Request : RowTyped(m)' /\ StoryOf(m)'
  BY <1>1, <1>2, <1>3, StoryStep DEF Stories
<1> QED BY <1>1, <1>4 DEF TablesStay, RowTyped, Stories, OutboxTyped

LEMMA RequestTypedStep == TypeOK /\ [Next]_vars => RequestTyped'
<1> SUFFICES ASSUME TypeOK, [Next]_vars PROVE RequestTyped'
  OBVIOUS
<1>0. RequestTyped
  BY DEF TypeOK, RequestTyped
<1>1. ASSUME NEW q \in Request, NEW m \in Request \cup {None},
             NEW answer \in {"created", "replayed", "conflict", "collision", "error"},
             Answer(q, answer, m)
      PROVE  RequestTyped'
  BY <1>0, <1>1 DEF Answer, RequestTyped
<1>2. ASSUME NEW q \in Request, NEW pc \in {"lock", "find", "commit"},
             post' = [post EXCEPT ![q].pc = pc],
             UNCHANGED lock \/ lock' = [lock EXCEPT ![KeyOf(q)] = q]
      PROVE  RequestTyped'
  BY <1>0, <1>2, DeliveryAssumption DEF RequestTyped
<1>3. CASE UNCHANGED requests
  BY <1>0, <1>3 DEF requests, RequestTyped
<1>4. ASSUME NEW q \in Request, Posting(q) PROVE RequestTyped'
  <2>1. CASE Arrive(q) BY <1>1, <1>2, <2>1 DEF Arrive
  <2>2. CASE LockKey(q) BY <1>2, <2>2 DEF LockKey
  <2>3. CASE Find(q) BY <1>1, <1>2, <2>3 DEF Find, WithKeyOf
  <2>4. CASE Create(q) BY <1>1, <2>4 DEF Create
  <2>5. CASE AbortPost(q) BY <1>1, <2>5 DEF AbortPost
  <2> QED BY <1>4, <2>1, <2>2, <2>3, <2>4, <2>5 DEF Posting
<1>5. ASSUME NEW w \in Worker, Delivering(w) PROVE UNCHANGED requests
  BY <1>5 DEF Delivering, Reconcile, Claim, Send, Record, Finish, Crash
<1>6. Time => UNCHANGED requests
  BY DEF Time, LeaseRunsOut, BackoffEnds
<1> QED BY <1>3, <1>4, <1>5, <1>6 DEF Next, vars, requests

LEMMA WorkerTypedStep ==
    ASSUME DeliveryInv, [Next]_vars
    PROVE  WorkerTyped'
<1>0. WorkerTyped
  BY DEF DeliveryInv, TypeOK, WorkerTyped
<1>1. ASSUME NEW w \in Worker, Delivering(w) PROVE WorkerTyped'
  <2>1. ASSUME NEW locked \in SUBSET Request, Reconcile(w, locked) PROVE WorkerTyped'
    BY <1>0, <2>1 DEF Reconcile, WorkerTyped
  <2>2. ASSUME NEW m \in Request, Claim(w, m) PROVE WorkerTyped'
    <3>1. worker[w].claims + 1 \in 0..BatchSize
      BY <1>0, <2>2, DeliveryAssumption DEF Claim, WorkerTyped
    <3> QED BY <1>0, <2>2, <3>1 DEF Claim, WorkerTyped
  <2>3. ASSUME NEW result \in Result, Send(w, result) PROVE WorkerTyped'
    <3> DEFINE Kind == [pc : {"idle", "claim", "send", "record"}, id : Request \cup {None},
                        result : Result \cup {"none"}, claims : 0..BatchSize]
               sent == [worker[w] EXCEPT !.pc = "record", !.result = result]
    <3>1. worker \in [Worker -> Kind] /\ worker[w] \in Kind
      BY <1>0 DEF WorkerTyped
    <3>2. sent \in Kind
      BY <3>1
    <3>3. worker' = [worker EXCEPT ![w] = sent]
      BY <2>3, <3>1 DEF Send
    <3> HIDE DEF sent, Kind
    <3>4. worker' \in [Worker -> Kind]
      BY <3>1, <3>2, <3>3
    <3> QED BY <3>4 DEF WorkerTyped, Kind
  <2>4. CASE Record(w)
    <3>1. worker' = [worker EXCEPT ![w] = [worker[w] EXCEPT !.pc = "claim", !.id = None,
                                                            !.result = "none"]]
      BY <2>4 DEF Record, Continue
    <3> QED BY <1>0, <3>1 DEF WorkerTyped
  <2>5. CASE Finish(w) \/ Crash(w)
    BY <1>0, <2>5, DeliveryAssumption DEF Finish, Crash, Resting, WorkerTyped
  <2> QED BY <1>1, <2>1, <2>2, <2>3, <2>4, <2>5 DEF Delivering
<1>2. ASSUME NEW q \in Request, Posting(q) PROVE UNCHANGED worker
  BY <1>2 DEF Posting, Arrive, LockKey, Find, Create, AbortPost
<1>3. Time => UNCHANGED worker
  BY DEF Time, LeaseRunsOut, BackoffEnds
<1> QED BY <1>0, <1>1, <1>2, <1>3 DEF Next, vars, WorkerTyped

AcceptedTyped == accepted \in [Request -> Nat]

FlightInv == Flights /\ AcceptedAsResolved /\ AcceptedTyped

\* Nobody talks about a delivery that waits or does not exist yet.
LEMMA WaitingIsGrounded ==
    ASSUME Flights, NEW m \in Request, delivery[m].status \notin {"processing", "unknown"},
           NEW w \in Worker, worker[w].id = m
    PROVE  ~InFlight(w)
  BY DEF Flights, FlightOf

\* An attempt that changes neither the executions nor what the server accepted.
LEMMA FlightsQuiet ==
    ASSUME TypeOK, FlightInv, UNCHANGED <<worker, accepted>>,
           \A m \in Request :
             \/ delivery'[m].status = delivery[m].status /\ delivery'[m].owner = delivery[m].owner
             \/ delivery[m].status = "none" /\ delivery'[m].status = "pending"
    PROVE  FlightInv'
<1>1. ASSUME NEW w \in Worker PROVE FlightOf(w)' /\ (InFlight(w)' <=> InFlight(w))
  BY DEF FlightInv, Flights, FlightOf, InFlight, TypeOK
<1>2. Flights'
  BY <1>1 DEF FlightInv, Flights, OneFlightPerMessage, InFlight
<1>3. AcceptedAsResolved' /\ AcceptedTyped'
  BY DEF FlightInv, AcceptedAsResolved, AcceptedTyped
<1> QED BY <1>2, <1>3 DEF FlightInv

\* An execution that rests, or goes on to its next claim, talks about nothing.
LEMMA LandingIsSafe ==
    ASSUME TypeOK, FlightInv, NEW w \in Worker,
           \A v \in Worker : v # w => worker'[v] = worker[v],
           ~InFlight(w)', worker'[w].id = None, UNCHANGED accepted,
           NEW S \in SUBSET Request,
           \A m \in Request \ S : delivery'[m].status = delivery[m].status
                                  /\ delivery'[m].owner = delivery[m].owner,
           \A v \in Worker : v # w /\ InFlight(v) /\ worker[v].id \in S =>
                                delivery'[worker[v].id].status = "unknown"
    PROVE  Flights'
<1>1. ASSUME NEW v \in Worker, v # w
      PROVE  FlightOf(v)' /\ (InFlight(v)' <=> InFlight(v)) /\ worker'[v].id = worker[v].id
  <2>1. worker'[v] = worker[v]
    BY <1>1
  <2>2. CASE ~InFlight(v)
    BY <2>1, <2>2 DEF FlightInv, Flights, FlightOf, InFlight
  <2>3. CASE InFlight(v) /\ worker[v].id \in S
    BY <1>1, <2>1, <2>3 DEF FlightInv, Flights, FlightOf, InFlight
  <2>4. CASE InFlight(v) /\ worker[v].id \in Request \ S
    BY <1>1, <2>1, <2>4 DEF FlightInv, Flights, FlightOf, InFlight
  <2>5. InFlight(v) => worker[v].id \in Request
    BY DEF FlightInv, Flights, FlightOf, TypeOK
  <2>6. FlightOf(v)'
    BY <2>2, <2>3, <2>4, <2>5
  <2> QED BY <2>1, <2>6 DEF InFlight
<1>2. FlightOf(w)'
  BY DEF FlightOf, InFlight
<1> QED BY <1>1, <1>2 DEF FlightInv, Flights, OneFlightPerMessage

LEMMA FlightsStep ==
    ASSUME DeliveryInv, [Next]_vars, Stories'
    PROVE  FlightInv'
<1> USE DeliveryAssumption
<1>0. TypeOK /\ FlightInv /\ OneStory
  BY DEF DeliveryInv, FlightInv, AcceptedTyped, TypeOK
<1>1. ASSUME NEW q \in Request, Posting(q) PROVE FlightInv'
  <2>1. UNCHANGED <<worker, accepted>>
    BY <1>1 DEF Posting, Arrive, LockKey, Find, Create, AbortPost
  <2>2. CASE UNCHANGED delivery
    BY <1>0, <2>1, <2>2, FlightsQuiet
  <2>3. CASE Create(q) /\ ~UNCHANGED delivery
    <3>1. delivery' = [delivery EXCEPT ![q].status = "pending", ![q].due = TRUE]
      BY <2>3 DEF Create, mail
    <3>2. communication[q] = "none"
      BY <2>3 DEF Create, WithKeyOf, mail
    <3>3. delivery[q].status = "none"
      BY <1>0, <3>2, StatusesShown DEF OneStory, TypeOK
    <3> QED BY <1>0, <2>1, <3>1, <3>3, FlightsQuiet DEF TypeOK
  <2> QED BY <1>1, <2>2, <2>3 DEF Posting, Arrive, LockKey, Find, AbortPost, mail
<1>2. ASSUME Time PROVE FlightInv'
  <2>1. PICK m \in Request : LeaseRunsOut(m) \/ BackoffEnds(m)
    BY <1>2 DEF Time
  <2>2. \A n \in Request : /\ delivery'[n].status = delivery[n].status
                          /\ delivery'[n].owner = delivery[n].owner
    <3>1. CASE LeaseRunsOut(m)
      BY <1>0, <3>1 DEF LeaseRunsOut, TypeOK
    <3>2. CASE BackoffEnds(m)
      BY <1>0, <3>2 DEF BackoffEnds, TypeOK
    <3> QED BY <2>1, <3>1, <3>2
  <2>3. UNCHANGED <<worker, accepted>>
    BY <2>1 DEF LeaseRunsOut, BackoffEnds
  <2> QED BY <1>0, <2>2, <2>3, FlightsQuiet
<1>3. ASSUME NEW w \in Worker, NEW locked \in SUBSET Request, Reconcile(w, locked)
      PROVE  FlightInv'
  <2>1. PICK B \in Batches(Expired \ locked) : Resolve(B, "unknown")
    BY <1>3 DEF Reconcile
  <2>2. B \in SUBSET Request /\ \A m \in B : delivery[m].status = "processing"
    BY DEF Batches, Expired
  <2>3. /\ \A m \in Request \ B : delivery'[m] = delivery[m]
        /\ \A m \in B : delivery'[m].status = "unknown"
    <3>1. delivery' = [m \in Request |->
                        IF m \in B
                          THEN [delivery[m] EXCEPT !.status = "unknown", !.owner = None,
                                                   !.expired = FALSE]
                          ELSE delivery[m]]
      BY <2>1 DEF Resolve
    <3>2. \A m \in Request :
            [delivery[m] EXCEPT !.status = "unknown", !.owner = None,
                                !.expired = FALSE].status = "unknown"
      BY <1>0 DEF TypeOK
    <3> QED BY <2>2, <3>1, <3>2
  <2>4. /\ worker'[w].pc = "claim"
        /\ worker'[w].id = None
        /\ \A v \in Worker : v # w => worker'[v] = worker[v]
        /\ UNCHANGED accepted
    BY <1>0, <1>3 DEF Reconcile, FlightInv, Flights, FlightOf, InFlight, TypeOK
  <2>5. Flights'
    <3>1. \A v \in Worker : v # w /\ InFlight(v) /\ worker[v].id \in B =>
                           delivery'[worker[v].id].status = "unknown"
      BY <2>3
    <3>2. \A m \in Request \ B : /\ delivery'[m].status = delivery[m].status
                                /\ delivery'[m].owner = delivery[m].owner
      BY <2>3
    <3>3. ~InFlight(w)'
      BY <2>4 DEF InFlight
    <3> QED BY <1>0, <2>2, <2>4, <3>1, <3>2, <3>3, LandingIsSafe
  <2>6. AcceptedAsResolved' /\ AcceptedTyped'
    BY <1>0, <2>2, <2>3, <2>4 DEF FlightInv, AcceptedAsResolved, AcceptedTyped
  <2> QED BY <2>5, <2>6 DEF FlightInv
<1>4. ASSUME NEW w \in Worker, NEW m \in Request, Claim(w, m) PROVE FlightInv'
  <2>1. /\ delivery[m].status = "pending"
        /\ delivery' = [delivery EXCEPT ![m] = delivery'[m]]
        /\ delivery'[m].status = "processing"
        /\ delivery'[m].owner = w
        /\ worker' = [worker EXCEPT ![w] = [pc |-> "send", id |-> m, result |-> "none",
                                            claims |-> worker[w].claims + 1]]
        /\ UNCHANGED accepted
    BY <1>0, <1>4 DEF Claim, Claimable, TypeOK
  <2>2. \A v \in Worker : worker[v].id = m => ~InFlight(v)
    BY <1>0, <2>1, WaitingIsGrounded DEF FlightInv
  <2>3. accepted[m] = 0
    BY <1>0, <2>1 DEF FlightInv, AcceptedAsResolved
  <2>4. FlightOf(w)' /\ InFlight(w)' /\ worker'[w].id = m
    BY <1>0, <2>1, <2>3 DEF FlightOf, InFlight, TypeOK
  <2>5. ASSUME NEW v \in Worker, v # w
        PROVE  FlightOf(v)' /\ (InFlight(v)' <=> InFlight(v)) /\ worker'[v].id = worker[v].id
    BY <1>0, <2>1, <2>2, <2>5 DEF FlightOf, InFlight, FlightInv, Flights, TypeOK
  <2>6. Flights'
    BY <1>0, <2>2, <2>4, <2>5 DEF Flights, OneFlightPerMessage, FlightInv
  <2>7. AcceptedAsResolved' /\ AcceptedTyped'
    BY <1>0, <2>1 DEF FlightInv, AcceptedAsResolved, AcceptedTyped, TypeOK
  <2> QED BY <2>6, <2>7 DEF FlightInv
<1>5. ASSUME NEW w \in Worker, NEW result \in Result, Send(w, result) PROVE FlightInv'
  <2> DEFINE m == worker[w].id
  <2>1. /\ worker[w].pc = "send"
        /\ worker' = [worker EXCEPT ![w].pc = "record", ![w].result = result]
        /\ UNCHANGED delivery
    BY <1>5 DEF Send, mail
  <2>2. /\ m \in Request
        /\ accepted[m] = 0
        /\ delivery[m].status \in {"processing", "unknown"}
    BY <1>0, <2>1 DEF FlightInv, Flights, FlightOf, InFlight, TypeOK
  <2>3. PICK k \in {0, 1} : /\ accepted' = [accepted EXCEPT ![m] = k]
                            /\ result = "ok" => k = 1
                            /\ result \in {"transient", "terminal"} => k = 0
    <3>1. PICK takes \in BOOLEAN :
            /\ accepted' = IF takes THEN [accepted EXCEPT ![m] = @ + 1] ELSE accepted
            /\ result = "ok" => takes
            /\ result \in {"transient", "terminal"} => ~takes
      BY <1>5 DEF Send, Result
    <3>2. accepted = [accepted EXCEPT ![m] = 0]
      BY <1>0, <2>2 DEF TypeOK
    <3>3. [accepted EXCEPT ![m] = @ + 1] = [accepted EXCEPT ![m] = 1]
      BY <2>2
    <3> QED BY <3>1, <3>2, <3>3
  <2>4. FlightOf(w)'
    BY <1>0, <2>1, <2>2, <2>3 DEF FlightOf, InFlight, FlightInv, Flights, TypeOK, Result
  <2>5. ASSUME NEW v \in Worker, v # w PROVE FlightOf(v)'
    <3>1. InFlight(v) => worker[v].id # m
      BY <1>0, <2>1, <2>5 DEF FlightInv, Flights, OneFlightPerMessage, InFlight
    <3>2. InFlight(v) => accepted'[worker[v].id] = accepted[worker[v].id]
      BY <1>0, <2>3, <3>1 DEF FlightInv, Flights, FlightOf, TypeOK
    <3> QED BY <1>0, <2>1, <2>5, <3>2 DEF FlightOf, InFlight, FlightInv, Flights, TypeOK
  <2>6. OneFlightPerMessage'
    BY <1>0, <2>1 DEF OneFlightPerMessage, InFlight, FlightInv, Flights, TypeOK
  <2>7. AcceptedAsResolved' /\ AcceptedTyped'
    BY <1>0, <2>1, <2>2, <2>3 DEF FlightInv, AcceptedAsResolved, AcceptedTyped, TypeOK
  <2> QED BY <2>4, <2>5, <2>6, <2>7 DEF FlightInv, Flights
<1>6. ASSUME NEW w \in Worker, Record(w) PROVE FlightInv'
  <2> DEFINE m       == worker[w].id
             outcome == OutcomeOf(worker[w].result, delivery[m].attempts)
  <2>1. /\ worker[w].pc = "record"
        /\ worker' = [worker EXCEPT ![w] = [worker[w] EXCEPT !.pc = "claim", !.id = None,
                                                            !.result = "none"]]
        /\ UNCHANGED accepted
    BY <1>6 DEF Record, Continue
  <2>2. /\ m \in Request
        /\ worker[w].result \in Result
        /\ worker[w].result = "ok" => accepted[m] = 1
        /\ worker[w].result \in {"transient", "terminal"} => accepted[m] = 0
        /\ delivery[m].attempts \in Nat
    BY <1>0, <2>1 DEF FlightInv, Flights, FlightOf, InFlight, TypeOK
  <2>3. \/ UNCHANGED delivery
        \/ /\ \A n \in Request : n # m => delivery'[n] = delivery[n]
           /\ delivery'[m].status = outcome
    <3>1. CASE Resolve({m}, outcome)
      <4>1. delivery' = [n \in Request |->
                          IF n \in {m}
                            THEN [delivery[n] EXCEPT !.status = outcome, !.owner = None,
                                                     !.expired = FALSE]
                            ELSE delivery[n]]
        BY <3>1 DEF Resolve
      <4>2. [delivery[m] EXCEPT !.status = outcome, !.owner = None,
                                !.expired = FALSE].status = outcome
        BY <1>0, <2>2 DEF TypeOK
      <4> QED BY <2>2, <4>1, <4>2
    <3>2. CASE /\ outcome = "pending"
               /\ delivery' = [delivery EXCEPT ![m].status = "pending", ![m].owner = None,
                                              ![m].expired = FALSE]
      BY <1>0, <2>2, <3>2 DEF TypeOK
    <3> QED BY <1>6, <3>1, <3>2 DEF Record, mail
  <2>4. ASSUME NEW v \in Worker, v # w PROVE InFlight(v) => worker[v].id # m
    BY <1>0, <2>1, <2>4 DEF FlightInv, Flights, OneFlightPerMessage, InFlight
  <2>5. Flights'
    <3>1. \A n \in Request \ {m} : delivery'[n].status = delivery[n].status
                                   /\ delivery'[n].owner = delivery[n].owner
      BY <2>3
    <3>2. worker'[w].id = None /\ ~InFlight(w)' /\ \A v \in Worker : v # w => worker'[v] = worker[v]
      BY <1>0, <2>1 DEF InFlight, TypeOK
    <3>3. {m} \in SUBSET Request
      BY <2>2
    <3>4. \A v \in Worker : v # w /\ InFlight(v) /\ worker[v].id \in {m} =>
                                delivery'[worker[v].id].status = "unknown"
      BY <2>4
    <3> QED BY <1>0, <2>1, <3>1, <3>2, <3>3, <3>4, LandingIsSafe
  <2>6. AcceptedAsResolved' /\ AcceptedTyped'
    BY <1>0, <2>1, <2>2, <2>3, OutcomesAre
    DEF FlightInv, AcceptedAsResolved, AcceptedTyped, Resolved
  <2> QED BY <2>5, <2>6 DEF FlightInv
<1>7. ASSUME NEW w \in Worker, Finish(w) \/ Crash(w) PROVE FlightInv'
  <2>1. /\ worker' = [worker EXCEPT ![w] = Resting]
        /\ UNCHANGED <<delivery, accepted>>
    BY <1>7 DEF Finish, Crash, mail
  <2>2. worker'[w].id = None /\ ~InFlight(w)' /\ \A v \in Worker : v # w => worker'[v] = worker[v]
    BY <1>0, <2>1 DEF InFlight, TypeOK, Resting
  <2>3. Flights'
    <3>1. /\ {} \in SUBSET Request
          /\ \A m \in Request \ {} : /\ delivery'[m].status = delivery[m].status
                                    /\ delivery'[m].owner = delivery[m].owner
          /\ \A v \in Worker : v # w /\ InFlight(v) /\ worker[v].id \in {} =>
                               delivery'[worker[v].id].status = "unknown"
      BY <2>1
    <3> QED BY <1>0, <2>1, <2>2, <3>1, LandingIsSafe
  <2>4. AcceptedAsResolved' /\ AcceptedTyped'
    BY <1>0, <2>1 DEF FlightInv, AcceptedAsResolved, AcceptedTyped
  <2> QED BY <2>3, <2>4 DEF FlightInv
<1>8. CASE UNCHANGED vars
  BY <1>0, <1>8, FlightsQuiet DEF vars
<1> QED BY <1>1, <1>2, <1>3, <1>4, <1>5, <1>6, <1>7, <1>8 DEF Next, Delivering

-----------------------------------------------------------------------------
(* The requests: a key belongs to the request that holds its lock.          *)

\* The answer of q frees its own lock only.
LEMMA KeysAfterAnswer ==
    ASSUME TypeOK, Keys, NEW q \in Request, post[q].pc # "end",
           NEW answer \in {"error", "replayed", "conflict"},
           NEW m \in Request \cup {None},
           answer = "replayed" => m \in WithKeyOf(q) /\ FingerprintOf(m) = FingerprintOf(q),
           Answer(q, answer, m), UNCHANGED communication
    PROVE  Keys'
<1>1. /\ post' = [post EXCEPT ![q] = [pc |-> "end", answer |-> answer, id |-> m]]
      /\ lock' = [k \in Key |-> IF lock[k] = q THEN None ELSE lock[k]]
  BY DEF Answer
<1>2. \A u \in Request : WithKeyOf(u)' = WithKeyOf(u) /\ (Persisted(u)' <=> Persisted(u))
  BY DEF WithKeyOf, Persisted
<1>3. KeyOfRequest(q)'
  BY <1>1, <1>2 DEF Keys, KeyOfRequest, TypeOK
<1>4. ASSUME NEW u \in Request, u # q PROVE KeyOfRequest(u)'
  <2>1. post'[u] = post[u]
    BY <1>1, <1>4 DEF TypeOK
  <2>2. post[u].pc \in {"find", "commit"} => lock'[KeyOf(u)] = u
    BY <1>1, <1>4, DeliveryAssumption DEF Keys, KeyOfRequest
  <2> QED BY <1>2, <2>1, <2>2 DEF Keys, KeyOfRequest
<1> QED BY <1>2, <1>3, <1>4 DEF Keys, KeysAreUnique

\* A request that only moves on keeps what it may assume.
LEMMA KeysAfterMove ==
    ASSUME TypeOK, Keys, NEW q \in Request, post[q].pc # "end",
           NEW pc \in {"lock", "find", "commit"},
           post' = [post EXCEPT ![q].pc = pc],
           UNCHANGED communication,
           \/ lock[KeyOf(q)] = None /\ lock' = [lock EXCEPT ![KeyOf(q)] = q]
           \/ UNCHANGED lock /\ (pc \in {"find", "commit"} => lock[KeyOf(q)] = q),
           pc = "commit" => WithKeyOf(q) = {}
    PROVE  Keys'
<1>2. \A u \in Request : WithKeyOf(u)' = WithKeyOf(u) /\ (Persisted(u)' <=> Persisted(u))
  BY DEF WithKeyOf, Persisted
<1>3. KeyOfRequest(q)'
  <2>1. post'[q] = [post[q] EXCEPT !.pc = pc]
    BY DEF TypeOK
  <2>2. lock'[KeyOf(q)] = q \/ pc = "lock"
    BY DeliveryAssumption DEF TypeOK
  <2> QED BY <1>2, <2>1, <2>2 DEF Keys, KeyOfRequest, TypeOK
<1>4. ASSUME NEW u \in Request, u # q PROVE KeyOfRequest(u)'
  <2>1. post'[u] = post[u]
    BY <1>4 DEF TypeOK
  <2>2. post[u].pc \in {"find", "commit"} => lock'[KeyOf(u)] = u
    BY <1>4, DeliveryAssumption DEF Keys, KeyOfRequest, TypeOK
  <2>3. KeyOfRequest(u)
    BY DEF Keys
  <2>4. /\ post'[u].pc \in {"find", "commit"} => lock'[KeyOf(u)] = u
        /\ post'[u].pc = "commit" => WithKeyOf(u)' = {}
        /\ Persisted(u)' <=> post'[u].answer = "created"
        /\ post'[u].answer = "replayed" => post'[u].id \in WithKeyOf(u)'
    BY Zenon, <1>2, <2>1, <2>2, <2>3 DEF KeyOfRequest
  <2> QED BY Zenon, <2>1, <2>3, <2>4 DEF KeyOfRequest
<1> QED BY <1>2, <1>3, <1>4 DEF Keys, KeysAreUnique

\* The first request of a key persists its communication.
LEMMA KeysAfterCreate ==
    ASSUME TypeOK, Keys, NEW q \in Request, post[q].pc = "commit",
           communication' = [communication EXCEPT ![q] = "Pendente"],
           Answer(q, "created", q)
    PROVE  Keys'
<1>1. /\ post' = [post EXCEPT ![q] = [pc |-> "end", answer |-> "created", id |-> q]]
      /\ lock' = [k \in Key |-> IF lock[k] = q THEN None ELSE lock[k]]
  BY DEF Answer
<1>2. \A u \in Request : Persisted(u)' <=> Persisted(u) \/ u = q
  BY DEF Persisted, TypeOK
<1>3. WithKeyOf(q) = {}
  BY DEF Keys, KeyOfRequest
<1>4. ASSUME NEW u \in Request, KeyOf(u) # KeyOf(q) PROVE WithKeyOf(u)' = WithKeyOf(u)
  BY <1>2, <1>4 DEF WithKeyOf, Persisted
<1>5. KeyOfRequest(q)'
  BY <1>1, <1>2 DEF KeyOfRequest, TypeOK
<1>6. ASSUME NEW u \in Request, u # q PROVE KeyOfRequest(u)'
  <2>1. post'[u] = post[u]
    BY <1>1, <1>6 DEF TypeOK
  <2>2. post[u].pc \in {"find", "commit"} => lock'[KeyOf(u)] = u /\ KeyOf(u) # KeyOf(q)
    BY <1>1, <1>6, DeliveryAssumption DEF Keys, KeyOfRequest
  <2>3. WithKeyOf(u) \subseteq WithKeyOf(u)'
    BY <1>2 DEF WithKeyOf, Persisted
  <2> QED BY <1>2, <1>4, <1>6, <2>1, <2>2, <2>3 DEF Keys, KeyOfRequest
<1>7. KeysAreUnique'
  BY <1>2, <1>3 DEF Keys, KeysAreUnique, WithKeyOf, Persisted
<1> QED BY <1>5, <1>6, <1>7 DEF Keys

\* A communication stays persisted whatever becomes of its delivery.
LEMMA KeysQuiet ==
    ASSUME Keys, UNCHANGED requests,
           \A m \in Request : Persisted(m)' <=> Persisted(m)
    PROVE  Keys'
<1>1. \A q \in Request : WithKeyOf(q)' = WithKeyOf(q)
  BY DEF WithKeyOf, Persisted
<1> QED BY <1>1 DEF Keys, KeyOfRequest, KeysAreUnique, requests

LEMMA KeysStep ==
    ASSUME DeliveryInv, [Next]_vars, Stories'
    PROVE  Keys'
<1>0. TypeOK /\ Keys
  BY DEF DeliveryInv
<1>1. ASSUME NEW q \in Request, Arrive(q) PROVE Keys'
  <2>1. CASE post' = [post EXCEPT ![q].pc = "lock"] /\ UNCHANGED lock
    BY <1>0, <1>1, <2>1, KeysAfterMove DEF Arrive, mail
  <2>2. CASE Answer(q, "error", None)
    BY <1>0, <1>1, <2>2, KeysAfterAnswer DEF Arrive, mail
  <2> QED BY <1>1, <2>1, <2>2 DEF Arrive
<1>2. ASSUME NEW q \in Request, LockKey(q) PROVE Keys'
  BY <1>0, <1>2, KeysAfterMove DEF LockKey, mail
<1>3. ASSUME NEW q \in Request, Find(q) PROVE Keys'
  <2>1. ASSUME NEW m \in WithKeyOf(q),
               Answer(q, IF FingerprintOf(m) = FingerprintOf(q)
                           THEN "replayed" ELSE "conflict", m)
        PROVE  Keys'
    <3>1. PICK answer \in {"replayed", "conflict"} :
             /\ Answer(q, answer, m)
             /\ answer = "replayed" => FingerprintOf(m) = FingerprintOf(q)
      BY <2>1
    <3>2. m \in Request /\ post[q].pc # "end" /\ UNCHANGED communication
      BY <1>3, <2>1 DEF Find, WithKeyOf, mail
    <3> QED BY <1>0, <2>1, <3>1, <3>2, KeysAfterAnswer
  <2>2. CASE WithKeyOf(q) = {} /\ post' = [post EXCEPT ![q].pc = "commit"] /\ UNCHANGED lock
    <3>1. lock[KeyOf(q)] = q
      BY <1>0, <1>3 DEF Find, Keys, KeyOfRequest
    <3> QED BY <1>0, <1>3, <2>2, <3>1, KeysAfterMove DEF Find, mail
  <2> QED BY <1>3, <2>1, <2>2 DEF Find
<1>4. ASSUME NEW q \in Request, Create(q) PROVE Keys'
  <2>1. WithKeyOf(q) = {}
    BY <1>0, <1>4 DEF Create, Keys, KeyOfRequest
  <2> QED BY <1>0, <1>4, <2>1, KeysAfterCreate DEF Create
<1>5. ASSUME NEW q \in Request, AbortPost(q) PROVE Keys'
  BY <1>0, <1>5, KeysAfterAnswer DEF AbortPost, mail
<1>6. CASE UNCHANGED requests
  <2>1. \A m \in Request : MailStep(m)
    BY StepsOfMail DEF DeliveryInv
  <2>2. Stories
    BY StoriesAreOne DEF DeliveryInv
  <2>3. ASSUME NEW m \in Request PROVE Persisted(m)' <=> Persisted(m)
    <3>1. \/ communication'[m] = communication[m]
          \/ /\ delivery[m].status = "processing"
             /\ \E status \in Resolved : communication'[m] = StatusShown(status)
          \/ post'[m].pc = "end" /\ post[m].pc = "commit"
      BY <2>1 DEF MailStep, Left, Silent, Created, Claimed, Settled, Postponed
    <3>2. post' = post
      BY <1>6 DEF requests
    <3>3. delivery[m].status = "processing" => communication[m] = "Pendente"
      BY <2>2 DEF Stories, StoryOf
    <3> QED BY <3>1, <3>2, <3>3, StatusesShown DEF Persisted
  <2> QED BY <1>0, <1>6, <2>3, KeysQuiet
<1>7. ASSUME NEW w \in Worker, Delivering(w) PROVE UNCHANGED requests
  BY <1>7 DEF Delivering, Reconcile, Claim, Send, Record, Finish, Crash
<1>8. Time => UNCHANGED requests
  BY DEF Time, LeaseRunsOut, BackoffEnds
<1> QED BY <1>1, <1>2, <1>3, <1>4, <1>5, <1>6, <1>7, <1>8
        DEF Next, Posting, vars, requests

-----------------------------------------------------------------------------
(* The theorems.                                                            *)

LEMMA InvStep == DeliveryInv /\ [Next]_vars => DeliveryInv'
<1> SUFFICES ASSUME DeliveryInv, [Next]_vars PROVE DeliveryInv'
  OBVIOUS
<1>1. /\ delivery' \in [Request -> Delivery]
      /\ communication' \in [Request -> {"none", "Pendente", "Enviado", "Falhou", "Incerto"}]
      /\ OutboxTyped'
      /\ \A m \in Request : Len(outbox'[m]) <= 2
      /\ Stories'
  BY MailInvStep
<1>2. RequestTyped'
  BY RequestTypedStep DEF DeliveryInv
<1>3. WorkerTyped'
  BY WorkerTypedStep
<1>4. FlightInv'
  BY <1>1, FlightsStep
<1>5. Keys'
  BY <1>1, KeysStep
<1>6. TypeOK'
  <2>1. accepted' \in [Request -> 0..MaxAttempts]
    BY <1>4, DeliveryAssumption DEF FlightInv, AcceptedTyped, AcceptedAsResolved
  <2>2. \A m \in Request : outbox'[m] \in Seq({"created"} \cup Resolved)
    <3>1. \A m \in Request : outbox'[m] \in Seq(Events)
      BY <1>1 DEF OutboxTyped
    <3> QED BY <3>1, Zenon DEF Events
  <2>3. delivery' \in [Request -> [status : {"none", "pending", "processing"} \cup Resolved,
                                  attempts : 0..MaxAttempts,
                                  owner : Worker \cup {None},
                                  expired : BOOLEAN, due : BOOLEAN]]
    BY <1>1 DEF Delivery
  <2> QED BY <1>1, <1>2, <1>3, <2>1, <2>2, <2>3, Zenon
          DEF TypeOK, RequestTyped, WorkerTyped
<1>7. OneStory' /\ Untouched'
  BY <1>1, <1>6, StatusesShown DEF TypeOK, Stories, StoryOf, OneStory, Untouched, Resolved
<1> QED BY <1>1, <1>4, <1>5, <1>6, <1>7 DEF DeliveryInv, FlightInv

\* Requests, executions and the server only ever leave the inductive
\* invariant true.
THEOREM DeliveryInvHolds == Spec => []DeliveryInv
  BY InvInitially, InvStep, PTL DEF Spec

\* Every variable holds values of its kind: attempts stay within their limit
\* and nobody announces a third event about a communication.
THEOREM TypeCorrect == Spec => []TypeOK
<1>1. DeliveryInv => TypeOK
  BY DEF DeliveryInv
<1> QED BY <1>1, DeliveryInvHolds, PTL

\* The communication, its delivery and its events agree after every
\* transaction of a request, of an execution and of the sweep.
THEOREM StoryIsOne == Spec => []OneStory
<1>1. DeliveryInv => OneStory
  BY DEF DeliveryInv
<1> QED BY <1>1, DeliveryInvHolds, PTL

\* However the executions overlap, die and come late, no message is accepted
\* twice by the server, and what the user reads is what the server did.
THEOREM AcceptedOnce == Spec => []ServerAcceptsOnce
<1>1. DeliveryInv => ServerAcceptsOnce
  <2> SUFFICES ASSUME DeliveryInv, NEW m \in Request
               PROVE  /\ accepted[m] <= 1
                      /\ communication[m] = "Enviado" => accepted[m] = 1
                      /\ communication[m] \in {"Falhou", "none"} => accepted[m] = 0
                      /\ delivery[m].status = "pending" => accepted[m] = 0
    BY DEF ServerAcceptsOnce
  <2>1. StoryOf(m)
    BY StoriesAreOne DEF DeliveryInv, Stories
  <2>2. delivery[m].status \in {"none", "pending", "processing"} \cup Resolved
    BY DEF DeliveryInv, TypeOK
  <2>3. AcceptedAsResolved
    BY DEF DeliveryInv
  <2> QED BY <2>1, <2>2, <2>3, StatusesShown DEF StoryOf, AcceptedAsResolved, Resolved
<1> QED BY <1>1, DeliveryInvHolds, PTL

\* A key never has two communications, and whoever repeats it is told of the
\* one there is: the advisory lock leaves nothing for the unique index to do.
THEOREM OneIntentionPerKey == Spec => []OneCommunicationPerKey
<1>1. DeliveryInv => OneCommunicationPerKey
  <2> SUFFICES ASSUME DeliveryInv PROVE OneCommunicationPerKey
    OBVIOUS
  <2>1. Keys
    BY DEF DeliveryInv
  <2>2. ASSUME NEW q \in Request, post[q].answer \in {"created", "replayed"}
        PROVE  /\ FingerprintOf(post[q].id) = FingerprintOf(q)
               /\ WithKeyOf(q) = {post[q].id}
    <3>1. post[q].id \in WithKeyOf(q) /\ FingerprintOf(post[q].id) = FingerprintOf(q)
      BY <2>1, <2>2 DEF Keys, KeyOfRequest, WithKeyOf, Persisted
    <3>2. \A m, n \in WithKeyOf(q) : m = n
      BY <2>1 DEF Keys, KeysAreUnique, WithKeyOf, Persisted
    <3> QED BY <3>1, <3>2
  <2>3. ASSUME NEW q \in Request, NEW u \in Request, KeyOf(q) = KeyOf(u), q # u
        PROVE  "created" # post[q].answer \/ "created" # post[u].answer
    BY <2>1, <2>3 DEF Keys, KeyOfRequest, KeysAreUnique
  <2>4. \A q \in Request : post[q].answer # "collision"
    BY <2>1 DEF Keys, KeyOfRequest
  <2> QED BY <2>2, <2>3, <2>4 DEF OneCommunicationPerKey
<1> QED BY <1>1, DeliveryInvHolds, PTL
=============================================================================
