------------------------------- MODULE Realtime -------------------------------
(***************************************************************************)
(* Realtime events (src/app/modules/realtime): business transactions append *)
(* to an outbox, a relay copies it to a Redis stream, and the API instance   *)
(* of this model fans the stream out to its WebSockets, each of which       *)
(* starts with a replay from the outbox.                                    *)
(*                                                                          *)
(* Sequences identify rows, entries and frames.  Instances share only the   *)
(* database and the stream, and the leader lock makes the relay cycles of   *)
(* all of them one after the other: one instance and its clients suffice.   *)
(***************************************************************************)
EXTENDS Integers, Sequences, FiniteSets, FiniteSetsExt, Functions, TLC

CONSTANTS
    Writer,         \* business transactions that may be open together
    Topic,
    Client,
    None,
    MaxSequence,    \* bound: values the sequence of the table gives out
    MaxFaults,      \* bound: crashes, refused calls and dropped sockets
    BatchSize,      \* realtime_relay_batch_size
    StreamLength,   \* realtime_stream_maxlen
    ReplayLimit,    \* realtime_replay_max_events
    QueueSize       \* realtime_connection_queue_size

ASSUME RealtimeAssumption ==
    /\ None \notin Topic \cup 0..MaxSequence /\ Topic # {}
    /\ {MaxSequence, BatchSize, StreamLength, ReplayLimit, QueueSize} \subseteq Nat \ {0}
    /\ MaxFaults \in Nat

VARIABLES
    txn,        \* the topic each open transaction writes to, and its sequence
    nextSeq,    \* the identity sequence, which no rollback resets
    outbox,     \* realtime_outbox; deleted rows keep a trace
    topic,      \* realtime_topic_state
    stream,     \* entries ever added to the Redis stream
    trimmed,    \* how many of them MAXLEN has removed
    cycle,      \* the relay transaction that holds the leader lock
    listener,   \* _stream_loop
    conn,       \* the socket, its queue and its handler; "sent" is history
    client,     \* what the browser knows, the cursor it consolidated and, as
                \* history, the events that went past its socket unnoticed
    faults

database == <<txn, nextSeq, outbox, topic>>
redis    == <<stream, trimmed>>
vars == <<database, redis, cycle, listener, conn, client, faults>>

Sequence == 1..MaxSequence

Dollar    == -1     \* the stream id "$": what is added from now on
NoCycle   == [open |-> FALSE, marked |-> {}, claims |-> 0]
NoSocket  == [pc |-> "none", registered |-> FALSE, closing |-> FALSE,
              after |-> 0, mark |-> 0, rows |-> <<>>, queue |-> <<>>, seen |-> {},
              sent |-> <<>>]

Stored(s)  == outbox[s].status \in {"pending", "published"}
Committed  == {s \in Sequence : outbox[s].status # "none"}
Watermark  == Max({topic[t].latest : t \in Topic})

\* Every variable holds values of its kind.
TypeOK ==
    /\ txn \in [Writer -> {None} \cup [topic : Topic, seq : Sequence]]
    /\ nextSeq \in 1..MaxSequence + 1
    /\ outbox \in [Sequence -> [topic : Topic \cup {None},
                                status : {"none", "pending", "published", "deleted"}]]
    /\ topic \in [Topic -> [latest : 0..MaxSequence, floor : 0..MaxSequence]]
    /\ stream \in Seq(Sequence) /\ trimmed \in 0..Len(stream)
    /\ cycle.marked \subseteq Sequence /\ cycle.claims \in 0..BatchSize
    /\ listener.pos \in Dollar..Len(stream) /\ listener.batch \in Seq(Sequence)
    /\ \A c \in Client :
         /\ conn[c].rows \in Seq(Sequence) /\ conn[c].queue \in Seq(Sequence)
         /\ Len(conn[c].queue) <= QueueSize
         /\ client[c].cursor \in 0..MaxSequence
         /\ client[c].known \subseteq Sequence /\ client[c].overlooked \subseteq Sequence
    /\ faults \in 0..MaxFaults

\* _stream_loop as it starts ...
Fresh == [pc |-> "idle", pos |-> Dollar, from |-> 0, batch |-> <<>>, last |-> None,
          checked |-> FALSE, degraded |-> FALSE]

\* ... or after it has read an entry, of the event before those of the model.
Settled == [Fresh EXCEPT !.pos = 0, !.last = 0]

Init ==
    /\ txn = [w \in Writer |-> None]
    /\ nextSeq = 1
    /\ outbox = [s \in Sequence |-> [topic |-> None, status |-> "none"]]
    /\ topic = [t \in Topic |-> [latest |-> 0, floor |-> 0]]
    /\ stream = <<>> /\ trimmed = 0
    /\ cycle = NoCycle
    /\ listener \in {Fresh, Settled}
    /\ conn = [c \in Client |-> NoSocket]
    /\ client = [c \in Client |-> [cursor |-> 0, known |-> {}, overlooked |-> {}]]
    /\ faults = 0

Fault == faults < MaxFaults /\ faults' = faults + 1

-----------------------------------------------------------------------------
(* Writers: persist_event inside the transaction of a use case. *)

Idle(w) == txn[w] = None

\* Fault: a transaction does not wait for another.
NotTaken == FALSE

\* The global order lock, and the rows of realtime_topic_state: a writer has
\* them FOR UPDATE until its commit, a replay FOR SHARE while it reads.
TopicsTaken  == \E w \in Writer : ~Idle(w)
TopicsShared == \E c \in Client : conn[c].pc = "read"

\* persist_event: the sequence is taken under the lock, which lasts until
\* commit or rollback.
Record(w) ==
    /\ Idle(w) /\ ~TopicsTaken /\ ~TopicsShared
    /\ nextSeq <= MaxSequence
    /\ \E t \in Topic : txn' = [txn EXCEPT ![w] = [topic |-> t, seq |-> nextSeq]]
    /\ nextSeq' = nextSeq + 1
    /\ UNCHANGED <<outbox, topic, redis, cycle, listener, conn, client, faults>>

Commit(w) ==
    /\ ~Idle(w)
    /\ LET new == txn[w]
       IN  /\ outbox' = [outbox EXCEPT ![new.seq] =
                           [topic |-> new.topic, status |-> "pending"]]
           /\ topic' = [topic EXCEPT ![new.topic].latest = new.seq]
    /\ txn' = [txn EXCEPT ![w] = None]
    /\ UNCHANGED <<nextSeq, redis, cycle, listener, conn, client, faults>>

Rollback(w) ==
    /\ ~Idle(w)
    /\ Fault
    /\ txn' = [txn EXCEPT ![w] = None]
    /\ UNCHANGED <<nextSeq, outbox, topic, redis, cycle, listener, conn, client>>

-----------------------------------------------------------------------------
(* _relay_loop: one transaction under the leader lock per cycle. *)

\* What the relay sees as unpublished: its own marks count.
Unpublished == {s \in Sequence : outbox[s].status = "pending"} \ cycle.marked

\* Fault: the relay waits for a full batch.
LeadOnFullBatch ==
    /\ ~cycle.open /\ Cardinality(Unpublished) >= BatchSize
    /\ cycle' = [NoCycle EXCEPT !.open = TRUE]
    /\ UNCHANGED <<database, redis, listener, conn, client, faults>>

Lead ==
    /\ ~cycle.open /\ Unpublished # {}
    /\ cycle' = [NoCycle EXCEPT !.open = TRUE]
    /\ UNCHANGED <<database, redis, listener, conn, client, faults>>

\* XADD with an approximate MAXLEN: any prefix beyond it may go.
Add(s) ==
    /\ stream' = Append(stream, s)
    /\ \E n \in trimmed..Len(stream) :
         /\ n = trimmed \/ Len(stream) + 1 - n >= StreamLength
         /\ trimmed' = n

\* claim_outbox_batch takes the head only; mark_published follows the XADD.
Publish ==
    /\ cycle.open /\ cycle.claims < BatchSize /\ Unpublished # {}
    /\ Add(Min(Unpublished))
    /\ cycle' = [cycle EXCEPT !.marked = @ \cup {Min(Unpublished)}, !.claims = @ + 1]
    /\ UNCHANGED <<database, listener, conn, client, faults>>

EndCycle ==
    /\ outbox' = [s \in Sequence |->
                    IF s \in cycle.marked THEN [outbox[s] EXCEPT !.status = "published"]
                                          ELSE outbox[s]]
    /\ cycle' = NoCycle

RelayCommit ==
    /\ cycle.open /\ (cycle.claims = BatchSize \/ Unpublished = {})
    /\ EndCycle
    /\ UNCHANGED <<txn, nextSeq, topic, redis, listener, conn, client, faults>>

\* Redis refuses, or its answer is lost: mark_publish_failed and the end of
\* the cycle.  The backoff of the head holds back every later event.
PublishFails ==
    /\ cycle.open /\ cycle.claims < BatchSize /\ Unpublished # {}
    /\ Fault
    /\ Add(Min(Unpublished)) \/ UNCHANGED redis
    /\ EndCycle
    /\ UNCHANGED <<txn, nextSeq, topic, listener, conn, client>>

\* The leader dies: its lock and its marks go, the stream stays.
RelayDies ==
    /\ cycle.open
    /\ Fault
    /\ cycle' = NoCycle
    /\ UNCHANGED <<database, redis, listener, conn, client>>

\* cleanup_published takes the topic rows, then deletes what was published
\* before a cutoff, except the latest event of each topic.
Expired(cutoff) ==
    {s \in Sequence : /\ outbox[s].status = "published" /\ s <= cutoff
                      /\ s < topic[outbox[s].topic].latest}

Floor(t, gone) ==
    Max({topic[t].floor} \cup {s \in gone : outbox[s].topic = t})

Cleanup ==
    /\ ~TopicsTaken /\ ~TopicsShared
    /\ \E cutoff \in Sequence :
         LET gone == Expired(cutoff)
         IN  /\ gone # {}
             /\ outbox' = [s \in Sequence |->
                             IF s \in gone THEN [outbox[s] EXCEPT !.status = "deleted"]
                                           ELSE outbox[s]]
             /\ topic' = [t \in Topic |-> [topic[t] EXCEPT !.floor = Floor(t, gone)]]
    /\ UNCHANGED <<txn, nextSeq, redis, cycle, listener, conn, client, faults>>

-----------------------------------------------------------------------------
(* _stream_loop and LocalConnectionManager. *)

\* disconnect_all: unregistered at once, closed by a task of its own.
Disconnected(sockets) ==
    [c \in Client |-> IF sockets[c].registered
                        THEN [sockets[c] EXCEPT !.registered = FALSE, !.closing = TRUE]
                        ELSE sockets[c]]

\* History: the entries pass the sockets of the hub, and nothing tells.
Overlook(entries) ==
    client' = [c \in Client |->
                 IF conn[c].registered
                   THEN [client[c] EXCEPT !.overlooked = @ \cup Range(entries)]
                   ELSE client[c]]

\* XREAD fixes the id when it is called, and blocks.  "$" leaves out what was
\* added since the call before.
ReadStart ==
    /\ listener.pc = "idle"
    /\ listener' = [listener EXCEPT !.pc = "blocked",
                      !.from = IF listener.pos = Dollar THEN Len(stream) ELSE listener.pos]
    /\ Overlook(IF listener.pos = Dollar /\ ~listener.degraded
                  THEN SubSeq(stream, listener.from + 1, Len(stream)) ELSE <<>>)
    /\ UNCHANGED <<database, redis, cycle, conn, faults>>

\* XREAD answers with the entries still there, or with none after a second.
\* The first answer after a failure closes every socket; without a last
\* sequence, what MAXLEN removed before the answer is not missed.
ReadReturn ==
    /\ listener.pc = "blocked"
    /\ LET first == Max({listener.from, trimmed}) + 1
           batch == SubSeq(stream, first, Len(stream))
       IN  /\ listener' = [listener EXCEPT
                             !.pc = IF batch = <<>> THEN "idle" ELSE "batch",
                             !.batch = batch,
                             !.from = Len(stream),
                             !.pos = IF batch = <<>> THEN @ ELSE Len(stream),
                             !.degraded = FALSE]
           /\ Overlook(IF listener.last = None /\ ~listener.degraded
                         THEN SubSeq(stream, listener.from + 1, first - 1) ELSE <<>>)
    /\ conn' = IF listener.degraded THEN Disconnected(conn) ELSE conn
    /\ UNCHANGED <<database, redis, cycle, faults>>

\* Redis or the database fails: sockets close and the position is kept.
ListenerFails ==
    /\ listener.pc \in {"blocked", "batch"}
    /\ Fault
    /\ listener' = [listener EXCEPT !.pc = "idle", !.batch = <<>>, !.last = None,
                                    !.checked = FALSE, !.degraded = TRUE]
    /\ conn' = Disconnected(conn)
    /\ UNCHANGED <<database, redis, cycle, client>>

Repeated(s) == listener.last # None /\ s <= listener.last

\* Fault: only a row that is still stored counts as lost.
LostIfStored(s) == \E m \in Sequence : listener.last < m /\ m < s /\ Stored(m)

\* stream_gap_requires_resync: a row between, or a floor above the last entry.
Lost(s) ==
    \/ \E m \in Sequence : listener.last < m /\ m < s /\ Stored(m)
    \/ \E t \in Topic : topic[t].floor > listener.last

GapOpen(s) ==
    listener.last # None /\ s > listener.last + 1 /\ ~listener.checked

AfterEntry(s) ==
    [listener EXCEPT !.batch = Tail(@), !.checked = FALSE, !.last = s,
                     !.pc = IF Len(listener.batch) = 1 THEN "idle" ELSE "batch"]

SkipEntry ==
    /\ listener.pc = "batch"
    /\ Repeated(Head(listener.batch))
    /\ listener' = AfterEntry(listener.last)
    /\ UNCHANGED <<database, redis, cycle, conn, client, faults>>

\* The check of the database and disconnect_all; clients may come back
\* before the entry is broadcast.
CheckGap ==
    /\ listener.pc = "batch"
    /\ ~Repeated(Head(listener.batch)) /\ GapOpen(Head(listener.batch))
    /\ listener' = [listener EXCEPT !.checked = TRUE]
    /\ conn' = IF Lost(Head(listener.batch)) THEN Disconnected(conn) ELSE conn
    /\ UNCHANGED <<database, redis, cycle, client, faults>>

\* Fault: an event this socket has seen is queued again.
OfferAgain(k, s) ==
    IF ~k.registered THEN k
    ELSE IF Len(k.queue) < QueueSize
           THEN [k EXCEPT !.queue = Append(@, s), !.seen = @ \cup {s}]
           ELSE [k EXCEPT !.seen = @ \cup {s}, !.registered = FALSE, !.closing = TRUE]

\* remember_event, then put_nowait; a full queue costs the socket.
Offer(k, s) ==
    IF ~k.registered \/ s \in k.seen THEN k
    ELSE IF Len(k.queue) < QueueSize
           THEN [k EXCEPT !.queue = Append(@, s), !.seen = @ \cup {s}]
           ELSE [k EXCEPT !.seen = @ \cup {s}, !.registered = FALSE, !.closing = TRUE]

Broadcast ==
    /\ listener.pc = "batch"
    /\ LET s == Head(listener.batch)
       IN  /\ ~Repeated(s) /\ ~GapOpen(s)
           /\ listener' = AfterEntry(s)
           /\ conn' = [c \in Client |-> Offer(conn[c], s)]
    /\ UNCHANGED <<database, redis, cycle, client, faults>>

-----------------------------------------------------------------------------
(* websocket_realtime and the browser behind it. *)

Step(c, k) ==
    /\ conn' = [conn EXCEPT ![c] = k]
    /\ UNCHANGED <<database, redis, cycle, listener, faults>>

\* The handler of a socket that is to be closed goes on until the close runs.

\* A ticket was consumed; the socket is registered before anything is read.
Register(c) ==
    /\ conn[c].pc = "none"
    /\ Step(c, [NoSocket EXCEPT !.pc = "status", !.registered = TRUE,
                                !.after = client[c].cursor])
    /\ UNCHANGED client

\* hello: the watermark over all topics.
Hello(c) ==
    /\ conn[c].pc = "status"
    /\ Step(c, [conn[c] EXCEPT !.pc = "floors", !.mark = Watermark])
    /\ UNCHANGED client

Missed(k) ==
    \E t \in Topic : k.after < topic[t].floor /\ topic[t].latest > k.after

\* resync_required: the browser reads everything again over REST and goes on
\* from the watermark.
Resync(c) ==
    /\ Step(c, NoSocket)
    /\ client' = [client EXCEPT ![c] = [cursor |-> Watermark, known |-> Committed,
                                                overlooked |-> {}]]

\* replay_events: the floors under a share lock ...
CheckFloors(c) ==
    /\ conn[c].pc = "floors"
    /\ ~TopicsTaken
    /\ \/ /\ conn[c].after > Watermark \/ Missed(conn[c])
          /\ Resync(c)
       \/ /\ ~(conn[c].after > Watermark \/ Missed(conn[c]))
          /\ Step(c, [conn[c] EXCEPT !.pc = "read"])
          /\ UNCHANGED client

\* ORDER BY sequence: the sequence of the members of S in ascending order.
Ascending(S) ==
    {q \in Bijection(1..Cardinality(S), S) : \A i, j \in DOMAIN q : i < j => q[i] < q[j]}

ReplayRows(k) == {s \in Sequence : Stored(s) /\ k.after < s /\ s <= k.mark}

\* ... then the rows up to the watermark, in order.
ReadRows(c) ==
    /\ conn[c].pc = "read"
    /\ \/ Cardinality(ReplayRows(conn[c])) > ReplayLimit /\ Resync(c)
       \/ /\ Cardinality(ReplayRows(conn[c])) <= ReplayLimit
          /\ \E rows \in Ascending(ReplayRows(conn[c])) :
               Step(c, [conn[c] EXCEPT !.pc = "replay", !.rows = rows])
          /\ UNCHANGED client

Receives(c, s) == client' = [client EXCEPT ![c].known = @ \cup {s}]

Sends(k, s) == [k EXCEPT !.sent = Append(@, s)]

\* A frame of the replay, unless the listener offered the event meanwhile,
\* even if it found the queue full.
SendRow(c) ==
    /\ conn[c].pc = "replay" /\ conn[c].rows # <<>>
    /\ LET s == Head(conn[c].rows)
           k == [conn[c] EXCEPT !.rows = Tail(@), !.seen = @ \cup {s}]
       IN  \/ /\ s \in conn[c].seen /\ Step(c, k)
              /\ client' = [client EXCEPT ![c].overlooked = @ \cup ({s} \ Range(conn[c].queue))]
           \/ s \notin conn[c].seen /\ Step(c, Sends(k, s)) /\ Receives(c, s)

Places(q, S) == {i \in DOMAIN q : q[i] \in S}

\* The entries of q that are in S: in their order, or sorted.
Kept(q, S) == {[i \in DOMAIN f |-> q[f[i]]] : f \in Ascending(Places(q, S))}

Sorted(q, S) ==
    {p \in {[i \in DOMAIN f |-> q[f[i]]] :
               f \in Bijection(1..Cardinality(Places(q, S)), Places(q, S))} :
        \A i, j \in DOMAIN p : i < j => p[i] <= p[j]}

Buffered(k, rows, rest) == [k EXCEPT !.pc = "buffered", !.rows = rows, !.queue = rest]

\* _take_buffered_replay: what is neither old nor to be replayed stays queued.
TakeBuffered(c) ==
    /\ conn[c].pc = "replay" /\ conn[c].rows = <<>>
    /\ \E rows \in Sorted(conn[c].queue, conn[c].after + 1 .. conn[c].mark) :
         \E rest \in Kept(conn[c].queue, conn[c].mark + 1 .. MaxSequence) :
             Step(c, Buffered(conn[c], rows, rest))
    /\ UNCHANGED client

SendBuffered(c) ==
    /\ conn[c].pc = "buffered" /\ conn[c].rows # <<>>
    /\ Step(c, Sends([conn[c] EXCEPT !.rows = Tail(@)], Head(conn[c].rows)))
    /\ Receives(c, Head(conn[c].rows))

\* replay_complete: only now does the browser consolidate the watermark.
Complete(c) ==
    /\ conn[c].pc = "buffered" /\ conn[c].rows = <<>>
    /\ Step(c, [conn[c] EXCEPT !.pc = "live", !.after = 0, !.mark = 0])
    /\ client' = [client EXCEPT ![c].cursor = Max({@, conn[c].mark})]

\* _sender
SendLive(c) ==
    /\ conn[c].pc = "live" /\ conn[c].queue # <<>>
    /\ LET s == Head(conn[c].queue)
       IN  /\ Step(c, Sends([conn[c] EXCEPT !.queue = Tail(@)], s))
           /\ client' = [client EXCEPT ![c].cursor = Max({@, s}), ![c].known = @ \cup {s}]

Close(c) ==
    /\ conn[c].closing
    /\ Step(c, NoSocket)
    /\ UNCHANGED client

\* The browser leaves, or a timeout or the watchdog ends the socket.
Drop(c) ==
    /\ conn[c].pc # "none"
    /\ Fault
    /\ conn' = [conn EXCEPT ![c] = NoSocket]
    /\ UNCHANGED <<database, redis, cycle, listener, client>>

-----------------------------------------------------------------------------

Relay     == Lead \/ Publish \/ RelayCommit
Listen    == ReadStart \/ ReadReturn \/ SkipEntry \/ CheckGap \/ Broadcast
Handle(c) == \/ Hello(c) \/ CheckFloors(c) \/ ReadRows(c) \/ SendRow(c)
             \/ TakeBuffered(c) \/ SendBuffered(c) \/ Complete(c) \/ SendLive(c)

Next ==
    \/ \E w \in Writer : Record(w) \/ Commit(w) \/ Rollback(w)
    \/ Relay \/ PublishFails \/ RelayDies \/ Cleanup
    \/ Listen \/ ListenerFails
    \/ \E c \in Client : Register(c) \/ Handle(c) \/ Close(c) \/ Drop(c)

Spec == Init /\ [][Next]_vars

\* The loops of the runtime and the tasks of a socket go on while they are
\* not cancelled; transactions end; a browser comes back.
FairSpec ==
    /\ Spec
    /\ WF_vars(Lead) /\ WF_vars(Publish) /\ WF_vars(RelayCommit)
    /\ WF_vars(Listen)
    /\ \A w \in Writer : WF_vars(Commit(w))
    /\ \A c \in Client : WF_vars(Register(c)) /\ WF_vars(Handle(c)) /\ WF_vars(Close(c))

-----------------------------------------------------------------------------

\* Sequences follow the order of commits: whatever becomes visible is above
\* every sequence visible before (persist_event under the global order lock;
\* docs/realtime.md: "ordenada pelo commit").
CommitsInOrder ==
    [][\A s \in Committed' \ Committed : \A m \in Committed : m < s]_vars

\* Only what was overlooked is missed: a browser knows every committed event
\* up to the cursor it consolidated, through replay, live frames or a
\* resynchronisation, whatever the relay, the stream, the queue and the cleanup
\* did meanwhile, unless the event was added between two reads from "$"
\* (runtime.py:173), trimmed before the first entry that follows a failure
\* (runtime.py:206 has no last sequence then), or offered to a full queue
\* while the replay was going on (connection_manager.py:123).
OnlyOverlookedIsMissed ==
    \A c \in Client : \A s \in Committed :
        s <= client[c].cursor => s \in client[c].known \cup client[c].overlooked

\* No silent gap: a browser knows every committed event up to its cursor.
\* runtime.py:231-234 close the sockets after a failure rather than "manter uma
\* conexão aparentemente saudável com um gap silencioso"; the first reads of a
\* listener leave such a gap.
NoSilentGap ==
    \A c \in Client : \A s \in Committed :
        s <= client[c].cursor => s \in client[c].known

\* A socket is sent no event twice, although the listener feeds its queue
\* while its replay reads the same events from the outbox, and the stream may
\* repeat them (remember_event, _take_buffered_replay).
OncePerSocket == \A c \in Client : IsInjective(conn[c].sent)

\* Every committed event reaches every browser, or a resynchronisation that
\* covers it, once faults stop, unless it was overlooked as above.
EveryEventArrivesOrIsOverlooked ==
    \A s \in Sequence : \A c \in Client :
        s \in Committed ~> \/ s \in client[c].known /\ s <= client[c].cursor
                          \/ s \in client[c].overlooked

=============================================================================
