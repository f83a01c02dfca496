---------------------------- MODULE RealtimeProofs ----------------------------
(***************************************************************************)
(* Theorems about Realtime: events become visible in the order of their      *)
(* sequences, a socket is sent no event twice, and a browser misses below    *)
(* its cursor only what went past its socket unnoticed.                      *)
(***************************************************************************)
EXTENDS Realtime, FunctionTheorems, FiniteSetTheorems, NaturalsInduction, TLAPS

\* The records of the variables.
TxnRecord   == [topic : Topic, seq : Sequence]
Row         == [topic : Topic \cup {None},
                status : {"none", "pending", "published", "deleted"}]
TopicRecord == [latest : 0..MaxSequence, floor : 0..MaxSequence]
Cycle       == [open : BOOLEAN, marked : SUBSET Sequence, claims : Nat]
Listener    == [pc : {"idle", "blocked", "batch"}, pos : Nat \cup {Dollar}, from : Nat,
                batch : Seq(Sequence), last : 0..MaxSequence \cup {None},
                checked : BOOLEAN, degraded : BOOLEAN]
Socket      == [pc : {"none", "status", "floors", "read", "replay", "buffered", "live"},
                registered : BOOLEAN, closing : BOOLEAN,
                after : 0..MaxSequence, mark : 0..MaxSequence,
                rows : Seq(Sequence), queue : Seq(Sequence), seen : SUBSET Sequence,
                sent : Seq(Sequence)]
ClientRecord == [cursor : 0..MaxSequence, known : SUBSET Sequence,
                 overlooked : SUBSET Sequence]

\* A browser as its gaps are judged: what was overlooked counts as known.
Browser == [cursor : 0..MaxSequence, known : SUBSET Sequence]
View(d) == [cursor |-> d.cursor, known |-> d.known \cup d.overlooked]

\* The listener and MAXLEN are nowhere beyond the end of the stream.
InStream ==
    /\ trimmed <= Len(stream)
    /\ listener.pos <= Len(stream) /\ listener.from <= Len(stream)

Typed ==
    /\ txn \in [Writer -> {None} \cup TxnRecord]
    /\ nextSeq \in 1..MaxSequence + 1
    /\ outbox \in [Sequence -> Row]
    /\ topic \in [Topic -> TopicRecord]
    /\ stream \in Seq(Sequence) /\ trimmed \in Nat /\ InStream
    /\ cycle \in Cycle
    /\ listener \in Listener /\ (listener.pc = "batch" => listener.batch # <<>>)
    /\ conn \in [Client -> Socket]
    /\ client \in [Client -> ClientRecord]
    /\ faults \in Nat

\* One writer at a time, numbered in the order of commits; the relay marks what
\* is committed.
Order ==
    /\ \A v, w \in Writer : ~Idle(v) /\ ~Idle(w) => v = w
    /\ \A w \in Writer : ~Idle(w) =>
         txn[w].seq < nextSeq /\ \A s \in Committed : s < txn[w].seq
    /\ \A s \in Committed : s < nextSeq
    /\ cycle.marked \subseteq Committed

\* What the topic rows say of the outbox.
Topics ==
    /\ \A s \in Committed :
         /\ outbox[s].topic \in Topic
         /\ s <= topic[outbox[s].topic].latest
         /\ outbox[s].status = "deleted" => s <= topic[outbox[s].topic].floor
    /\ \A t \in Topic : topic[t].latest \in Committed \cup {0}

\* m is among the first n entries of q.
Among(q, m, n) == \E j \in 1..n : q[j] = m

\* The stream follows the outbox: the relay goes on from the head only.
StreamFollows ==
    /\ Range(stream) \subseteq Committed
    /\ \A i \in DOMAIN stream : \A m \in Committed :
         m < stream[i] => Among(stream, m, i - 1)
    /\ \A m \in Committed :
         m \in cycle.marked \/ outbox[m].status # "pending" => Among(stream, m, Len(stream))

\* The listener has the entries of the stream up to pos, or has seen to it that
\* none is read again up to from; those of its batch are still to be handled.
Reading ==
    /\ listener.pos \in Dollar..listener.from /\ listener.from \in 0..Len(stream)
    /\ listener.last \in Committed \cup {0, None}
    /\ listener.batch # <<>> => Len(listener.batch) <= listener.pos
    /\ \A i \in DOMAIN listener.batch :
         listener.batch[i] = stream[listener.pos - Len(listener.batch) + i]
    /\ listener.pc = "batch" <=> listener.batch # <<>>
    /\ listener.checked => listener.pc = "batch" /\ listener.last # None
    /\ listener.degraded => listener.pc # "batch"

\* How many entries of the stream the listener is through with.
Done == IF listener.batch # <<>> THEN listener.pos - Len(listener.batch) ELSE listener.from

\* The events the listener has left behind, unless the next answer closes every
\* socket anyway.
Behind(m) ==
    /\ ~listener.degraded
    /\ IF listener.last = None THEN Among(stream, m, Done)
       ELSE m <= listener.last \/ (listener.checked /\ m < Head(listener.batch))

-----------------------------------------------------------------------------
(* A socket k and its browser b, when the events C are committed, those in S  *)
(* stored, and the listener has left those in B behind.                       *)

\* A socket that gets events and knows its watermark.
Fed(k) == k.registered /\ k.pc # "status"

\* The browser has the event, or its replay or its queue will bring it.
Covered(k, b, m) == m \in b.known \/ m <= k.mark \/ m \in Range(k.queue)

Cursors(k, b, C) ==
    /\ k.registered <=> k.pc # "none" /\ ~k.closing
    /\ {b.cursor, k.mark, k.after} \subseteq C \cup {0}
    /\ k.seen \cup Range(k.rows) \cup Range(k.queue) \subseteq C
    /\ k.pc \in {"status", "floors", "read", "replay", "buffered"} => k.after = b.cursor
    /\ k.pc = "live" => k.mark = 0

\* What a socket was sent or will be sent, it has seen, and each event once.
Distinct(k) ==
    /\ IsInjective(k.sent) /\ IsInjective(k.queue)
    /\ Range(k.sent) \cup Range(k.queue) \subseteq k.seen
    /\ Range(k.sent) \cap Range(k.queue) = {}
    /\ k.pc = "buffered" =>
         /\ IsInjective(k.rows) /\ Range(k.rows) \subseteq k.seen
         /\ Range(k.rows) \cap (Range(k.sent) \cup Range(k.queue)) = {}

\* Between the floors and the rows nothing a replay needs is deleted.
Reads(k, C, S) == k.pc = "read" => \A m \in C : m > k.after => m \in S

\* What a replay still has to bring is in its rows or was queued meanwhile.
Replays(k, b, C) ==
    /\ k.pc = "replay" =>
         \A m \in C : m > k.after /\ m <= k.mark =>
           m \in b.known \cup Range(k.rows) \cup Range(k.queue)
    /\ k.pc = "buffered" =>
         \A m \in C : m > k.after /\ m <= k.mark => m \in b.known \cup Range(k.rows)

\* The queue has no gap, not even that of a socket that is to be closed.
Queued(k, b, C) ==
    k.pc # "status" =>
      \A i \in DOMAIN k.queue : \A m \in C : m < k.queue[i] =>
        \/ m \in b.known \/ m <= k.mark
        \/ \E j \in DOMAIN k.queue : j < i /\ k.queue[j] = m

\* What the listener left behind, or the socket has seen, does not get lost.
Offered(k, b, B) == Fed(k) => \A m \in B \cup k.seen : Covered(k, b, m)

NoGap(b, C) == \A m \in C : m <= b.cursor => m \in b.known

SocketInv(k, b, C, S, B) ==
    /\ Cursors(k, b, C) /\ Distinct(k) /\ Reads(k, C, S) /\ Replays(k, b, C)
    /\ Queued(k, b, C) /\ Offered(k, b, B) /\ NoGap(b, C)

StoredSet == {m \in Sequence : Stored(m)}
LeftBehind == {m \in Committed : Behind(m)}

Sockets ==
    /\ \A c \in Client : conn[c].pc = "read" => \A w \in Writer : Idle(w)
    /\ \A c \in Client :
         SocketInv(conn[c], View(client[c]), Committed, StoredSet, LeftBehind)

-----------------------------------------------------------------------------
(* Sets of numbers, and sequences. *)

LEMMA Least ==
  ASSUME NEW S, S \subseteq Nat, S # {}
  PROVE  \E x \in S : \A y \in S : x <= y
<1>1. PICK x \in S : \A y \in S : ~ (<<y, x>> \in OpToRel(<, Nat))
  BY NatLessThanWellFounded, WFMin
<1>2. \A y \in S : ~ (y < x)
  <2> TAKE y \in S
  <2>1. x \in Nat /\ y \in Nat /\ <<y, x>> \in Nat \X Nat
    OBVIOUS
  <2> QED BY <1>1, <2>1 DEF OpToRel
<1> QED BY <1>2

LEMMA MinOf ==
  ASSUME NEW S, S \subseteq Nat, S # {}
  PROVE  Min(S) \in S /\ \A y \in S : Min(S) <= y
<1>1. \E x \in S : \A y \in S : x <= y
  BY Least
<1> QED BY <1>1 DEF Min

LEMMA MaxOf ==
  ASSUME NEW n \in Nat, NEW S, S \subseteq 0..n, S # {}
  PROVE  Max(S) \in S /\ \A y \in S : y <= Max(S)
<1> DEFINE T == {n - x : x \in S}
<1>1. T \subseteq Nat /\ T # {}
  <2>1. \A x \in S : x \in 0..n
    OBVIOUS
  <2>2. \A x \in S : n - x \in Nat
    BY <2>1
  <2> QED BY <2>2
<1>2. PICK z \in T : \A y \in T : z <= y
  BY <1>1, Least
<1>3. PICK x \in S : z = n - x
  OBVIOUS
<1>4. \A y \in S : n - y \in T
  OBVIOUS
<1>5. \A y \in S : y <= x
  BY <1>2, <1>3, <1>4
<1> QED BY <1>5 DEF Max

LEMMA LargerOf ==
  ASSUME NEW m \in Nat, NEW n \in Nat
  PROVE  Max({m, n}) = IF m >= n THEN m ELSE n
<1> DEFINE F == {m, n}
<1>1. F \subseteq 0 .. m + n /\ F # {} /\ m + n \in Nat
  OBVIOUS
<1>2. Max(F) \in F /\ \A y \in F : y <= Max(F)
  BY <1>1, MaxOf
<1>3. Max(F) \in {m, n} /\ m <= Max(F) /\ n <= Max(F)
  BY <1>2
<1> HIDE DEF F
<1> QED BY <1>3 DEF F

LEMMA Arranged ==
  ASSUME NEW S, S \subseteq Int, NEW q \in Ascending(S)
  PROVE  /\ Range(q) = S
         /\ IsInjective(q)
         /\ q \in [1..Cardinality(S) -> S]
         /\ \A i, j \in DOMAIN q : i < j => q[i] < q[j]
<1>1. q \in Bijection(1..Cardinality(S), S)
  BY DEF Ascending
<1> QED BY <1>1 DEF Bijection, Injection, Surjection, Range, Ascending

LEMMA FirstOf ==
  ASSUME NEW S, NEW q \in Seq(S), q # <<>>
  PROVE  /\ Head(q) \in S /\ Tail(q) \in Seq(S)
         /\ Len(q) \in Nat \ {0} /\ Len(Tail(q)) = Len(q) - 1
         /\ Head(q) = q[1] /\ \A i \in 1 .. Len(q) - 1 : Tail(q)[i] = q[i + 1]
         /\ Range(q) = {Head(q)} \cup Range(Tail(q))
<1>1. /\ Len(q) \in Nat \ {0} /\ Head(q) = q[1] /\ Head(q) \in S
      /\ Tail(q) \in Seq(S) /\ Len(Tail(q)) = Len(q) - 1
      /\ \A i \in 1 .. Len(q) - 1 : Tail(q)[i] = q[i + 1]
  OBVIOUS
<1>2. DOMAIN q = 1..Len(q) /\ DOMAIN Tail(q) = 1 .. Len(q) - 1
  BY <1>1
<1>3. ASSUME NEW x \in Range(q)
      PROVE  x = Head(q) \/ x \in Range(Tail(q))
  <2>1. PICK i \in 1..Len(q) : x = q[i]
    BY <1>2 DEF Range
  <2>2. i # 1 => i - 1 \in 1 .. Len(q) - 1 /\ Tail(q)[i - 1] = q[i]
    BY <1>1
  <2> QED BY <1>1, <1>2, <2>1, <2>2 DEF Range
<1>4. Head(q) \in Range(q)
  BY <1>1, <1>2 DEF Range
<1>5. ASSUME NEW x \in Range(Tail(q))
      PROVE  x \in Range(q)
  <2>1. PICK i \in 1 .. Len(q) - 1 : x = Tail(q)[i]
    BY <1>2 DEF Range
  <2>2. i + 1 \in 1..Len(q) /\ x = q[i + 1]
    BY <1>1, <2>1
  <2> QED BY <1>2, <2>2 DEF Range
<1> QED BY <1>1, <1>3, <1>4, <1>5

LEMMA FirstIsGone ==
  ASSUME NEW S, NEW q \in Seq(S), q # <<>>, IsInjective(q)
  PROVE  IsInjective(Tail(q)) /\ Head(q) \notin Range(Tail(q))
<1>1. /\ Len(q) \in Nat \ {0} /\ Head(q) = q[1]
      /\ DOMAIN Tail(q) = 1 .. Len(q) - 1 /\ DOMAIN q = 1..Len(q)
      /\ \A i \in 1 .. Len(q) - 1 : Tail(q)[i] = q[i + 1]
  OBVIOUS
<1>2. \A i, j \in 1..Len(q) : q[i] = q[j] => i = j
  BY <1>1 DEF IsInjective
<1>3. \A i \in 1 .. Len(q) - 1 : i + 1 \in 1..Len(q) /\ i + 1 # 1 /\ 1 \in 1..Len(q)
  BY <1>1
<1>4. \A i, j \in 1 .. Len(q) - 1 : i + 1 = j + 1 => i = j
  BY <1>1
<1>5. IsInjective(Tail(q))
  BY <1>1, <1>2, <1>3, <1>4 DEF IsInjective
<1>6. Head(q) \notin Range(Tail(q))
  BY <1>1, <1>2, <1>3 DEF Range
<1> QED BY <1>5, <1>6

LEMMA LastOf ==
  ASSUME NEW S, NEW q \in Seq(S), NEW s \in S
  PROVE  /\ Append(q, s) \in Seq(S) /\ Len(Append(q, s)) = Len(q) + 1
         /\ \A i \in 1..Len(q) : Append(q, s)[i] = q[i]
         /\ Append(q, s)[Len(q) + 1] = s
         /\ Range(Append(q, s)) = Range(q) \cup {s}
         /\ IsInjective(q) /\ s \notin Range(q) => IsInjective(Append(q, s))
<1>1. /\ Append(q, s) \in Seq(S) /\ Len(Append(q, s)) = Len(q) + 1
      /\ \A i \in 1..Len(q) : Append(q, s)[i] = q[i]
      /\ Append(q, s)[Len(q) + 1] = s
  OBVIOUS
<1>2. /\ Len(q) \in Nat /\ DOMAIN q = 1..Len(q)
      /\ DOMAIN Append(q, s) = 1 .. Len(q) + 1
  BY <1>1
<1>3. \A i \in 1 .. Len(q) + 1 : i \in 1..Len(q) \/ i = Len(q) + 1
  BY <1>2
<1>4. \A i \in 1..Len(q) : i \in 1 .. Len(q) + 1
  BY <1>2
<1>5. Len(q) + 1 \in 1 .. Len(q) + 1
  BY <1>2
<1>6. Range(Append(q, s)) = Range(q) \cup {s}
  BY <1>1, <1>2, <1>3, <1>4, <1>5 DEF Range
<1>7. ASSUME IsInjective(q), s \notin Range(q)
      PROVE  IsInjective(Append(q, s))
  BY <1>1, <1>2, <1>3, <1>7 DEF IsInjective, Range
<1> QED BY <1>1, <1>6, <1>7

\* p has the entries of q that are in S, in the order of q.
InOrder(p, q, S) ==
    \E f \in [DOMAIN p -> DOMAIN q] :
      /\ \A i \in DOMAIN p : p[i] = q[f[i]]
      /\ \A i, j \in DOMAIN p : i < j => f[i] < f[j]
      /\ \A n \in DOMAIN q : q[n] \in S => \E i \in DOMAIN p : f[i] = n

\* The entries of q at the places that f numbers.
LEMMA Chosen ==
  ASSUME NEW q \in Seq(Sequence), NEW S, NEW p,
         NEW f \in Bijection(1..Cardinality(Places(q, S)), Places(q, S)),
         p = [i \in DOMAIN f |-> q[f[i]]]
  PROVE  /\ p \in Seq(Sequence) /\ Range(p) = Range(q) \cap S
         /\ IsInjective(q) => IsInjective(p)
         /\ f \in [DOMAIN p -> DOMAIN q] /\ DOMAIN p = DOMAIN f
         /\ \A i \in DOMAIN p : p[i] = q[f[i]]
         /\ \A m \in DOMAIN q : q[m] \in S => \E i \in DOMAIN p : f[i] = m
<1> DEFINE n == Cardinality(Places(q, S))
<1>1. f \in Bijection(1..n, Places(q, S))
  OBVIOUS
<1>2. Places(q, S) \subseteq DOMAIN q /\ DOMAIN q = 1..Len(q) /\ Len(q) \in Nat
  BY DEF Places
<1>3. n \in Nat
  <2>1. IsFiniteSet(1..Len(q))
    BY <1>2, FS_Interval
  <2> QED BY <1>2, <2>1, FS_Subset, FS_CardinalityType
<1> HIDE DEF n
<1>4. /\ f \in [1..n -> Places(q, S)] /\ Range(f) = Places(q, S) /\ IsInjective(f)
  BY <1>1 DEF Bijection, Injection, Surjection, Range
<1>5. DOMAIN p = 1..n /\ \A i \in 1..n : p[i] = q[f[i]] /\ p[i] \in S /\ p[i] \in Sequence
                                     /\ f[i] \in DOMAIN q
  <2>1. DOMAIN p = 1..n /\ \A i \in 1..n : p[i] = q[f[i]]
    BY <1>4
  <2>2. \A i \in 1..n : f[i] \in DOMAIN q /\ q[f[i]] \in S
    BY <1>4 DEF Places
  <2>3. \A i \in DOMAIN q : q[i] \in Sequence
    BY <1>2
  <2> QED BY <1>2, <1>4, <2>1, <2>2, <2>3
<1>6. p \in Seq(Sequence)
  <2>1. p \in [1..n -> Sequence]
    BY <1>4, <1>5
  <2> QED BY <1>3, <2>1
<1>7. Range(p) = Range(q) \cap S
  <2>1. Range(p) \subseteq Range(q) \cap S
    BY <1>5 DEF Range
  <2>2. ASSUME NEW x \in Range(q) \cap S
        PROVE  x \in Range(p)
    <3>1. PICK i \in Places(q, S) : x = q[i]
      BY DEF Range, Places
    <3>2. PICK j \in 1..n : f[j] = i
      BY <1>4, <3>1 DEF Range
    <3> QED BY <1>5, <3>1, <3>2 DEF Range
  <2> QED BY <2>1, <2>2
<1>8. IsInjective(q) => IsInjective(p)
  BY <1>4, <1>5 DEF IsInjective
<1>9. \A m \in DOMAIN q : q[m] \in S => \E i \in DOMAIN p : f[i] = m
  BY <1>4, <1>5 DEF Range, Places
<1> QED BY <1>4, <1>5, <1>6, <1>7, <1>8, <1>9

LEMMA KeptOf ==
  ASSUME NEW q \in Seq(Sequence), NEW S, NEW p \in Kept(q, S)
  PROVE  /\ p \in Seq(Sequence) /\ Range(p) = Range(q) \cap S
         /\ IsInjective(q) => IsInjective(p)
         /\ InOrder(p, q, S)
<1>1. PICK f \in Ascending(Places(q, S)) : p = [i \in DOMAIN f |-> q[f[i]]]
  BY DEF Kept
<1>2. /\ f \in Bijection(1..Cardinality(Places(q, S)), Places(q, S))
      /\ \A i, j \in DOMAIN f : i < j => f[i] < f[j]
  BY DEF Ascending
<1>3. /\ p \in Seq(Sequence) /\ Range(p) = Range(q) \cap S
      /\ IsInjective(q) => IsInjective(p)
      /\ f \in [DOMAIN p -> DOMAIN q] /\ DOMAIN p = DOMAIN f
      /\ \A i \in DOMAIN p : p[i] = q[f[i]]
      /\ \A m \in DOMAIN q : q[m] \in S => \E i \in DOMAIN p : f[i] = m
  BY <1>1, <1>2, Chosen
<1> QED BY <1>2, <1>3 DEF InOrder

LEMMA SortedOf ==
  ASSUME NEW q \in Seq(Sequence), NEW S, NEW p \in Sorted(q, S)
  PROVE  /\ p \in Seq(Sequence) /\ Range(p) = Range(q) \cap S
         /\ IsInjective(q) => IsInjective(p)
<1>1. PICK f \in Bijection(1..Cardinality(Places(q, S)), Places(q, S)) :
        p = [i \in DOMAIN f |-> q[f[i]]]
  BY DEF Sorted
<1> QED BY <1>1, Chosen

-----------------------------------------------------------------------------
(* The steps of a socket. *)

\* What a handler makes of a socket k, and its frame of a browser b.
Skips(k)    == [k EXCEPT !.rows = Tail(@), !.seen = @ \cup {Head(k.rows)}]
Drains(k)   == Sends([k EXCEPT !.rows = Tail(@)], Head(k.rows))
GoesLive(k) == [k EXCEPT !.pc = "live", !.after = 0, !.mark = 0]
Delivers(k) == Sends([k EXCEPT !.queue = Tail(@)], Head(k.queue))

Frame(k)           == Head(k.rows)
Learns(b, s)       == [b EXCEPT !.known = @ \cup {s}]
Consolidates(b, n) == [b EXCEPT !.cursor = Max({@, n})]
Heeds(b, s)        == [cursor |-> Max({b.cursor, s}), known |-> b.known \cup {s}]

\* No socket, as a record.
LEMMA NothingThere ==
  /\ NoSocket \in Socket
  /\ NoSocket.pc = "none" /\ ~NoSocket.registered /\ ~NoSocket.closing
  /\ NoSocket.after = 0 /\ NoSocket.mark = 0
  /\ NoSocket.rows = <<>> /\ NoSocket.queue = <<>> /\ NoSocket.seen = {} /\ NoSocket.sent = <<>>
BY RealtimeAssumption DEF NoSocket, Socket

\* It is gone, and the browser is as it was or has read everything again.
LEMMA Leaves ==
  ASSUME NEW b \in Browser, NEW C, NEW S, NEW B
  PROVE  /\ NoSocket \in Socket /\ Distinct(NoSocket)
         /\ b.cursor \in C \cup {0} /\ NoGap(b, C) => SocketInv(NoSocket, b, C, S, B)
<1>1. NoSocket \in Socket
  BY NothingThere
<1>2. Range(<<>>) = {} /\ IsInjective(<<>>)
  BY DEF Range, IsInjective
<1>3. Distinct(NoSocket)
  BY <1>2, NothingThere DEF Distinct
<1>4. ASSUME b.cursor \in C \cup {0}, NoGap(b, C)
      PROVE  SocketInv(NoSocket, b, C, S, B)
  <2>1. DOMAIN NoSocket.queue = {}
    BY NothingThere
  <2> QED BY <1>2, <1>3, <1>4, <2>1, NothingThere
          DEF SocketInv, Cursors, Reads, Replays, Queued, Offered, Fed
<1> QED BY <1>1, <1>3, <1>4

\* Its handler registers it.
LEMMA Registers ==
  ASSUME NEW b \in Browser, NEW C, NEW S, NEW B, NEW k,
         k = [NoSocket EXCEPT !.pc = "status", !.registered = TRUE, !.after = b.cursor]
  PROVE  /\ k \in Socket /\ Distinct(k)
         /\ b.cursor \in C \cup {0} /\ NoGap(b, C) => SocketInv(k, b, C, S, B)
<1>1. /\ k \in Socket /\ k.pc = "status" /\ k.registered /\ ~k.closing
      /\ k.after = b.cursor /\ k.mark = 0
      /\ k.rows = <<>> /\ k.queue = <<>> /\ k.seen = {} /\ k.sent = <<>>
  BY NothingThere DEF Socket, Browser
<1>2. Range(<<>>) = {} /\ IsInjective(<<>>)
  BY DEF Range, IsInjective
<1>3. Distinct(k)
  BY <1>1, <1>2 DEF Distinct
<1>4. ASSUME b.cursor \in C \cup {0}, NoGap(b, C)
      PROVE  SocketInv(k, b, C, S, B)
  BY <1>1, <1>2, <1>3, <1>4
     DEF SocketInv, Cursors, Reads, Replays, Queued, Offered, Fed
<1> QED BY <1>1, <1>3, <1>4

\* The floors hide nothing; the rows are read.
LEMMA PassesFloors ==
  ASSUME NEW k \in Socket, NEW b \in Browser, NEW C, NEW S, NEW B,
         k.pc = "floors", NEW l, l = [k EXCEPT !.pc = "read"]
  PROVE  /\ l \in Socket
         /\ Distinct(k) => Distinct(l)
         /\ SocketInv(k, b, C, S, B) /\ (\A m \in C : m > k.after => m \in S)
              => SocketInv(l, b, C, S, B)
<1>1. /\ l \in Socket /\ l.pc = "read" /\ l.mark = k.mark
      /\ l.registered = k.registered /\ l.closing = k.closing /\ l.after = k.after
      /\ l.rows = k.rows /\ l.queue = k.queue /\ l.seen = k.seen /\ l.sent = k.sent
  BY DEF Socket
<1>2. Distinct(k) => Distinct(l)
  BY <1>1 DEF Distinct
<1>3. ASSUME SocketInv(k, b, C, S, B), \A m \in C : m > k.after => m \in S
      PROVE  SocketInv(l, b, C, S, B)
  BY <1>1, <1>2, <1>3
     DEF SocketInv, Cursors, Reads, Replays, Queued, Offered, Covered, Fed
<1> QED BY <1>1, <1>2, <1>3

\* The rows of the replay.
LEMMA TakesRows ==
  ASSUME NEW k \in Socket, NEW b \in Browser, NEW C \in SUBSET Sequence, NEW S, NEW B,
         S \subseteq C, k.pc = "read", NEW q \in Seq(Sequence), NEW l,
         l = [k EXCEPT !.pc = "replay", !.rows = q]
  PROVE  /\ l \in Socket
         /\ Distinct(k) => Distinct(l)
         /\ /\ SocketInv(k, b, C, S, B)
            /\ Range(q) = {m \in S : k.after < m /\ m <= k.mark}
            => SocketInv(l, b, C, S, B)
<1>1. /\ l \in Socket /\ l.pc = "replay" /\ l.mark = k.mark
      /\ l.registered = k.registered /\ l.closing = k.closing /\ l.after = k.after
      /\ l.rows = q /\ l.queue = k.queue /\ l.seen = k.seen /\ l.sent = k.sent
  BY DEF Socket
<1>2. Distinct(k) => Distinct(l)
  BY <1>1 DEF Distinct
<1>3. ASSUME SocketInv(k, b, C, S, B), Range(q) = {m \in S : k.after < m /\ m <= k.mark}
      PROVE  SocketInv(l, b, C, S, B)
  <2>1. Cursors(l, b, C) /\ Reads(l, C, S)
    BY <1>1, <1>3 DEF SocketInv, Cursors, Reads
  <2>2. \A m \in C : m > k.after /\ m <= k.mark => m \in Range(q)
    <3>1. \A m \in C : m > k.after => m \in S
      BY <1>3 DEF SocketInv, Reads
    <3>2. \A m \in C : m > k.after => k.after < m
      BY DEF Socket, Sequence
    <3> QED BY <1>3, <3>1, <3>2
  <2>3. Replays(l, b, C)
    BY <1>1, <1>3, <2>2 DEF SocketInv, Replays
  <2>4. Queued(l, b, C) /\ Offered(l, b, B)
    BY <1>1, <1>3 DEF SocketInv, Queued, Offered, Covered, Fed
  <2> QED BY <1>2, <1>3, <2>1, <2>3, <2>4 DEF SocketInv
<1> QED BY <1>1, <1>2, <1>3


LEMMA Numbers ==
  ASSUME NEW C \in SUBSET Sequence, NEW m \in C
  PROVE  m \in Nat /\ 0 < m /\ m <= MaxSequence
<1>1. m \in Sequence /\ MaxSequence \in Nat
  BY RealtimeAssumption
<1> QED BY <1>1 DEF Sequence

\* A row the listener offered meanwhile, whether the queue took it or not.
LEMMA SkipsRow ==
  ASSUME NEW k \in Socket, NEW b \in Browser, NEW C \in SUBSET Sequence, NEW S, NEW B,
         k.pc = "replay", k.rows # <<>>, Frame(k) \in k.seen, NEW d \in Browser,
         d.cursor = b.cursor, d.known = b.known \cup ({Frame(k)} \ Range(k.queue))
  PROVE  /\ Skips(k) \in Socket
         /\ Distinct(k) => Distinct(Skips(k))
         /\ SocketInv(k, b, C, S, B) => SocketInv(Skips(k), d, C, S, B)
<1> DEFINE q == Tail(k.rows)
           s == Frame(k)
           l == Skips(k)
<1>1. q \in Seq(Sequence) /\ Range(k.rows) = {s} \cup Range(q)
  BY FirstOf DEF Socket, Frame
<1>2. l = [k EXCEPT !.rows = q, !.seen = k.seen]
  BY DEF Skips, Socket, Frame
<1>3. d.cursor = b.cursor /\ d.known = b.known \cup ({s} \ Range(k.queue))
  OBVIOUS
<1> HIDE DEF q, s, l
<1>4. /\ l \in Socket /\ l.pc = "replay" /\ l.mark = k.mark
      /\ l.registered = k.registered /\ l.closing = k.closing /\ l.after = k.after
      /\ l.rows = q /\ l.queue = k.queue /\ l.seen = k.seen /\ l.sent = k.sent
  BY <1>1, <1>2 DEF Socket
<1>5. Distinct(k) => Distinct(l)
  BY <1>4 DEF Distinct
<1>6. ASSUME SocketInv(k, b, C, S, B)
      PROVE  SocketInv(l, d, C, S, B)
  <2>1. Cursors(l, d, C) /\ Reads(l, C, S)
    BY <1>1, <1>3, <1>4, <1>6 DEF SocketInv, Cursors, Reads
  <2>2. \A m \in C : m > k.after /\ m <= k.mark =>
          m \in b.known \cup Range(k.rows) \cup Range(k.queue)
    BY <1>6 DEF SocketInv, Replays
  <2>3. Replays(l, d, C)
    BY <1>1, <1>3, <1>4, <2>2 DEF Replays
  <2>4. Queued(l, d, C)
    BY <1>3, <1>4, <1>6 DEF SocketInv, Queued
  <2>5. Offered(l, d, B)
    BY <1>3, <1>4, <1>6 DEF SocketInv, Offered, Covered, Fed
  <2>6. NoGap(d, C)
    BY <1>3, <1>6 DEF SocketInv, NoGap
  <2> QED BY <1>5, <1>6, <2>1, <2>3, <2>4, <2>5, <2>6 DEF SocketInv
<1> QED BY <1>4, <1>5, <1>6 DEF l

\* A row the listener did not: a frame of the replay.
LEMMA SendsRow ==
  ASSUME NEW k \in Socket, NEW b \in Browser, NEW C \in SUBSET Sequence, NEW S, NEW B,
         k.pc = "replay", k.rows # <<>>, Frame(k) \notin k.seen,
         NEW l, l = Sends(Skips(k), Frame(k)), NEW d, d = Learns(b, Frame(k))
  PROVE  /\ l \in Socket /\ d \in Browser
         /\ Distinct(k) => Distinct(l)
         /\ SocketInv(k, b, C, S, B) => SocketInv(l, d, C, S, B)
<1> DEFINE q == Tail(k.rows)
           s == Frame(k)
           e == k.seen \cup {s}
           a == Append(k.sent, s)
           n == b.known \cup {s}
<1>1. q \in Seq(Sequence) /\ s \in Sequence /\ Range(k.rows) = {s} \cup Range(q)
  BY FirstOf DEF Socket, Frame
<1>2. k.sent \in Seq(Sequence)
  BY DEF Socket
<1> HIDE DEF s
<1>3. /\ a \in Seq(Sequence) /\ Range(a) = Range(k.sent) \cup {s}
      /\ IsInjective(k.sent) /\ s \notin Range(k.sent) => IsInjective(a)
  BY <1>1, <1>2, LastOf
<1>4. e \in SUBSET Sequence /\ n \in SUBSET Sequence
  BY <1>1 DEF Socket, Browser
<1>5. l = [k EXCEPT !.rows = q, !.seen = e, !.sent = a] /\ d = [b EXCEPT !.known = n]
  BY DEF Skips, Sends, Frame, Learns, Socket, Browser, s
<1> HIDE DEF q, e, a, n
<1>6. /\ l \in Socket /\ l.pc = "replay" /\ l.mark = k.mark
      /\ l.registered = k.registered /\ l.closing = k.closing /\ l.after = k.after
      /\ l.rows = q /\ l.queue = k.queue /\ l.seen = e /\ l.sent = a
  BY <1>1, <1>3, <1>4, <1>5 DEF Socket
<1>7. d \in Browser /\ d.cursor = b.cursor /\ d.known = n
  BY <1>4, <1>5 DEF Browser
<1>8. s \notin k.seen
  BY DEF s
<1>9. Distinct(k) => Distinct(l)
  BY <1>3, <1>6, <1>8 DEF Distinct, e
<1>10. ASSUME SocketInv(k, b, C, S, B)
       PROVE  SocketInv(l, d, C, S, B)
  <2>1. Cursors(l, d, C) /\ Reads(l, C, S)
    BY <1>1, <1>6, <1>7, <1>10 DEF SocketInv, Cursors, Reads, e
  <2>2. Replays(l, d, C)
    BY <1>1, <1>6, <1>7, <1>10 DEF SocketInv, Replays, e, n
  <2>3. Queued(l, d, C)
    BY <1>6, <1>7, <1>10 DEF SocketInv, Queued, Fed, n
  <2>4. Offered(l, d, B)
    BY <1>6, <1>7, <1>10 DEF SocketInv, Offered, Covered, Fed, e, n
  <2>5. NoGap(d, C)
    BY <1>7, <1>10 DEF SocketInv, NoGap, n
  <2> QED BY <1>9, <1>10, <2>1, <2>2, <2>3, <2>4, <2>5 DEF SocketInv
<1> QED BY <1>6, <1>7, <1>9, <1>10

\* What the listener queued is taken over: sorted rows, and a rest.
LEMMA TakesQueued ==
  ASSUME NEW k \in Socket, NEW b \in Browser, NEW C \in SUBSET Sequence, NEW S, NEW B,
         k.pc = "replay", k.rows = <<>>,
         NEW q \in Sorted(k.queue, k.after + 1 .. k.mark),
         NEW p \in Kept(k.queue, k.mark + 1 .. MaxSequence),
         NEW l, l = Buffered(k, q, p)
  PROVE  /\ l \in Socket
         /\ Distinct(k) => Distinct(l)
         /\ SocketInv(k, b, C, S, B) /\ B \subseteq C => SocketInv(l, b, C, S, B)
<1> DEFINE R == k.after + 1 .. k.mark
           T == k.mark + 1 .. MaxSequence
<1>1. k.queue \in Seq(Sequence) /\ k.seen \in SUBSET Sequence
  BY DEF Socket
<1>2. /\ k.mark \in Nat /\ k.after \in Nat /\ MaxSequence \in Nat
  BY RealtimeAssumption DEF Socket
<1>3. \A m \in C : m \in Nat /\ m <= MaxSequence
  BY Numbers
<1>4. R \cap T = {}
  BY <1>2
<1>5. \A m \in C : /\ m > k.after /\ m <= k.mark => m \in R
                   /\ ~(m <= k.mark) => m \in T
  BY <1>2, <1>3
<1> HIDE DEF R, T
<1>6. /\ q \in Seq(Sequence) /\ Range(q) = Range(k.queue) \cap R
      /\ IsInjective(k.queue) => IsInjective(q)
  BY <1>1, SortedOf DEF R
<1>7. /\ p \in Seq(Sequence) /\ Range(p) = Range(k.queue) \cap T
      /\ IsInjective(k.queue) => IsInjective(p)
      /\ InOrder(p, k.queue, T)
  BY <1>1, KeptOf DEF T
<1>8. /\ l \in Socket /\ l.pc = "buffered" /\ l.mark = k.mark
      /\ l.registered = k.registered /\ l.closing = k.closing /\ l.after = k.after
      /\ l.rows = q /\ l.queue = p /\ l.seen = k.seen /\ l.sent = k.sent
  BY <1>6, <1>7 DEF Socket, Buffered
<1>9. Distinct(k) => Distinct(l)
  BY <1>4, <1>6, <1>7, <1>8 DEF Distinct
<1>10. ASSUME SocketInv(k, b, C, S, B), B \subseteq C
       PROVE  SocketInv(l, b, C, S, B)
  <2>1. Cursors(l, b, C) /\ Reads(l, C, S)
    BY <1>6, <1>7, <1>8, <1>10 DEF SocketInv, Cursors, Reads
  <2>2. Replays(l, b, C)
    <3>1. ASSUME NEW m \in C, m > k.after, m <= k.mark
          PROVE  m \in b.known \cup Range(q)
      <4>1. m \in b.known \cup Range(k.rows) \cup Range(k.queue)
        BY <1>10, <3>1 DEF SocketInv, Replays
      <4>2. Range(k.rows) = {}
        BY DEF Range
      <4> QED BY <1>5, <1>6, <3>1, <4>1, <4>2
    <3> QED BY <1>8, <3>1 DEF Replays
  <2>3. Queued(l, b, C)
    <3> SUFFICES ASSUME NEW i \in DOMAIN p, NEW m \in C, m < p[i],
                        m \notin b.known, ~(m <= k.mark)
                 PROVE  \E j \in DOMAIN p : j < i /\ p[j] = m
      BY <1>8 DEF Queued
    <3>1. PICK f \in [DOMAIN p -> DOMAIN k.queue] :
            /\ \A j \in DOMAIN p : p[j] = k.queue[f[j]]
            /\ \A j, h \in DOMAIN p : j < h => f[j] < f[h]
            /\ \A n \in DOMAIN k.queue : k.queue[n] \in T => \E j \in DOMAIN p : f[j] = n
      BY <1>7 DEF InOrder
    <3>2. f[i] \in DOMAIN k.queue /\ m < k.queue[f[i]]
      BY <3>1
    <3>3. PICK n \in DOMAIN k.queue : n < f[i] /\ k.queue[n] = m
      BY <1>10, <3>2 DEF SocketInv, Queued
    <3>4. PICK j \in DOMAIN p : f[j] = n
      BY <1>5, <3>1, <3>3
    <3>5. p[j] = m /\ f[j] < f[i] /\ (i < j => f[i] < f[j])
      BY <3>1, <3>3, <3>4
    <3>6. /\ i \in Int /\ j \in Int /\ f[i] \in Int /\ f[j] \in Int
      BY <1>1, <1>7, <3>2, <3>4
    <3>7. j < i
      BY <3>5, <3>6
    <3> QED BY <3>5, <3>7
  <2>4. Offered(l, b, B)
    <3> SUFFICES ASSUME k.registered, NEW m \in B \cup k.seen
                 PROVE  m \in b.known \/ m <= k.mark \/ m \in Range(p)
      BY <1>8 DEF Offered, Fed, Covered
    <3>1. m \in b.known \/ m <= k.mark \/ m \in Range(k.queue)
      BY <1>10 DEF SocketInv, Offered, Fed, Covered
    <3>2. m \in C
      BY <1>10 DEF SocketInv, Cursors
    <3> QED BY <1>5, <1>7, <3>1, <3>2
  <2> QED BY <1>8, <1>9, <1>10, <2>1, <2>2, <2>3, <2>4 DEF SocketInv
<1> QED BY <1>8, <1>9, <1>10

\* A frame of what was queued.
LEMMA SendsQueued ==
  ASSUME NEW k \in Socket, NEW b \in Browser, NEW C \in SUBSET Sequence, NEW S, NEW B,
         k.pc = "buffered", k.rows # <<>>,
         NEW l, l = Drains(k), NEW d, d = Learns(b, Frame(k))
  PROVE  /\ l \in Socket /\ d \in Browser
         /\ Distinct(k) => Distinct(l)
         /\ SocketInv(k, b, C, S, B) => SocketInv(l, d, C, S, B)
<1> DEFINE q == Tail(k.rows)
           s == Frame(k)
           a == Append(k.sent, s)
           n == b.known \cup {s}
<1>1. /\ q \in Seq(Sequence) /\ s \in Sequence /\ Range(k.rows) = {s} \cup Range(q)
  BY FirstOf DEF Socket, Frame
<1>2. IsInjective(k.rows) => IsInjective(q) /\ s \notin Range(q)
  <2>1. k.rows \in Seq(Sequence)
    BY DEF Socket
  <2> QED BY <2>1, FirstIsGone DEF Frame
<1>3. k.sent \in Seq(Sequence)
  BY DEF Socket
<1> HIDE DEF s
<1>4. /\ a \in Seq(Sequence) /\ Range(a) = Range(k.sent) \cup {s}
      /\ IsInjective(k.sent) /\ s \notin Range(k.sent) => IsInjective(a)
  BY <1>1, <1>3, LastOf
<1>5. n \in SUBSET Sequence
  BY <1>1 DEF Browser
<1>6. l = [k EXCEPT !.rows = q, !.sent = a] /\ d = [b EXCEPT !.known = n]
  BY DEF Drains, Sends, Frame, Learns, Socket, Browser, s
<1> HIDE DEF q, a, n
<1>7. /\ l \in Socket /\ l.pc = "buffered" /\ l.mark = k.mark
      /\ l.registered = k.registered /\ l.closing = k.closing /\ l.after = k.after
      /\ l.rows = q /\ l.queue = k.queue /\ l.seen = k.seen /\ l.sent = a
  BY <1>1, <1>4, <1>6 DEF Socket
<1>8. d \in Browser /\ d.cursor = b.cursor /\ d.known = n
  BY <1>5, <1>6 DEF Browser
<1>9. Distinct(k) => Distinct(l)
  BY <1>1, <1>2, <1>4, <1>7 DEF Distinct
<1>10. ASSUME SocketInv(k, b, C, S, B)
       PROVE  SocketInv(l, d, C, S, B)
  <2>1. Cursors(l, d, C) /\ Reads(l, C, S)
    BY <1>1, <1>7, <1>8, <1>10 DEF SocketInv, Cursors, Reads
  <2>2. Replays(l, d, C)
    BY <1>1, <1>7, <1>8, <1>10 DEF SocketInv, Replays, n
  <2>3. Queued(l, d, C)
    BY <1>7, <1>8, <1>10 DEF SocketInv, Queued, Fed, n
  <2>4. Offered(l, d, B)
    BY <1>7, <1>8, <1>10 DEF SocketInv, Offered, Covered, Fed, n
  <2>5. NoGap(d, C)
    BY <1>8, <1>10 DEF SocketInv, NoGap, n
  <2> QED BY <1>9, <1>10, <2>1, <2>2, <2>3, <2>4, <2>5 DEF SocketInv
<1> QED BY <1>7, <1>8, <1>9, <1>10

\* The replay is over: the browser consolidates the watermark.
LEMMA Completes ==
  ASSUME NEW k \in Socket, NEW b \in Browser, NEW C \in SUBSET Sequence, NEW S, NEW B,
         k.pc = "buffered", k.rows = <<>>
  PROVE  /\ GoesLive(k) \in Socket /\ Consolidates(b, k.mark) \in Browser
         /\ Distinct(k) => Distinct(GoesLive(k))
         /\ SocketInv(k, b, C, S, B) /\ B \subseteq C
              => SocketInv(GoesLive(k), Consolidates(b, k.mark), C, S, B)
<1> DEFINE l == GoesLive(k)
           d == Consolidates(b, k.mark)
           n == Max({b.cursor, k.mark})
<1>1. /\ k.mark \in 0..MaxSequence /\ k.after \in 0..MaxSequence /\ b.cursor \in 0..MaxSequence
      /\ MaxSequence \in Nat
  BY RealtimeAssumption DEF Socket, Browser
<1>2. n \in {b.cursor, k.mark} /\ b.cursor <= n /\ k.mark <= n
  <2> DEFINE F == {b.cursor, k.mark}
  <2>1. F \subseteq 0..MaxSequence /\ F # {}
    BY <1>1
  <2>2. Max(F) \in F /\ \A y \in F : y <= Max(F)
    BY <1>1, <2>1, MaxOf
  <2> QED BY <2>2
<1>3. d = [b EXCEPT !.cursor = n]
  BY DEF Consolidates, Browser
<1> HIDE DEF n
<1>4. d \in Browser /\ d.cursor = n /\ d.known = b.known
  BY <1>1, <1>2, <1>3 DEF Browser
<1>5. /\ l \in Socket /\ l.pc = "live" /\ l.mark = 0
      /\ l.registered = k.registered /\ l.closing = k.closing /\ l.after = 0
      /\ l.rows = k.rows /\ l.queue = k.queue /\ l.seen = k.seen /\ l.sent = k.sent
  <2>1. l = [k EXCEPT !.pc = "live", !.after = 0, !.mark = 0] /\ 0 \in 0..MaxSequence
    BY <1>1 DEF GoesLive
  <2> HIDE DEF l, d
  <2> QED BY <2>1 DEF Socket
<1> HIDE DEF l, d
<1>6. Distinct(k) => Distinct(l)
  BY <1>5 DEF Distinct
<1>7. ASSUME SocketInv(k, b, C, S, B), B \subseteq C
      PROVE  SocketInv(l, d, C, S, B)
  <2>1. k.after = b.cursor /\ Range(k.rows) = {} /\ k.pc # "status"
    BY <1>7 DEF SocketInv, Cursors, Range
  <2>2. \A m \in C : m \in Int
    BY DEF Sequence
  <2>3. \A m \in C : m <= k.mark => m \in b.known
    <3> TAKE m \in C
    <3>1. m <= b.cursor => m \in b.known
      BY <1>7 DEF SocketInv, NoGap
    <3>2. m > k.after /\ m <= k.mark => m \in b.known
      BY <1>7, <2>1 DEF SocketInv, Replays
    <3>3. m <= b.cursor \/ m > k.after
      BY <1>1, <2>1, <2>2
    <3> QED BY <3>1, <3>2, <3>3
  <2>4. Cursors(l, d, C)
    BY <1>2, <1>4, <1>5, <1>7 DEF SocketInv, Cursors
  <2>5. Reads(l, C, S) /\ Replays(l, d, C)
    BY <1>5 DEF Reads, Replays
  <2>6. Queued(l, d, C)
    BY <1>4, <1>5, <1>7, <2>1, <2>3 DEF SocketInv, Queued
  <2>7. Offered(l, d, B)
    <3>1. B \cup k.seen \subseteq C
      BY <1>7 DEF SocketInv, Cursors
    <3> QED BY <1>4, <1>5, <1>7, <2>1, <2>3, <3>1 DEF SocketInv, Offered, Covered, Fed
  <2>8. NoGap(d, C)
    BY <1>2, <1>4, <1>7, <2>3 DEF SocketInv, NoGap
  <2> QED BY <1>6, <1>7, <2>4, <2>5, <2>6, <2>7, <2>8 DEF SocketInv
<1> QED BY <1>4, <1>5, <1>6, <1>7 DEF l, d

\* A live frame, which the browser consolidates.
LEMMA SendsLive ==
  ASSUME NEW k \in Socket, NEW b \in Browser, NEW C \in SUBSET Sequence, NEW S, NEW B,
         k.pc = "live", k.queue # <<>>,
         NEW l, l = Delivers(k), NEW d, d = Heeds(b, Head(k.queue))
  PROVE  /\ l \in Socket /\ d \in Browser
         /\ Distinct(k) => Distinct(l)
         /\ SocketInv(k, b, C, S, B) => SocketInv(l, d, C, S, B)
<1> DEFINE q == Tail(k.queue)
           s == Head(k.queue)
           a == Append(k.sent, s)
           n == b.known \cup {s}
           x == Max({b.cursor, s})
<1>1. k.queue \in Seq(Sequence) /\ k.sent \in Seq(Sequence) /\ b.known \in SUBSET Sequence
  BY DEF Socket, Browser
<1>2. /\ q \in Seq(Sequence) /\ s \in Sequence /\ Range(k.queue) = {s} \cup Range(q)
      /\ Len(k.queue) \in Nat \ {0} /\ Len(q) = Len(k.queue) - 1 /\ s = k.queue[1]
      /\ \A i \in 1 .. Len(k.queue) - 1 : q[i] = k.queue[i + 1]
  BY <1>1, FirstOf
<1>3. IsInjective(k.queue) => IsInjective(q) /\ s \notin Range(q)
  BY <1>1, FirstIsGone
<1>4. x \in 0..MaxSequence /\ x \in {b.cursor, s}
  <2> DEFINE F == {b.cursor, s}
  <2>1. b.cursor \in 0..MaxSequence /\ s \in 0..MaxSequence /\ MaxSequence \in Nat
    BY <1>2, RealtimeAssumption DEF Browser, Sequence
  <2>2. F \subseteq 0..MaxSequence /\ F # {}
    BY <2>1
  <2>3. Max(F) \in F
    BY <2>1, <2>2, MaxOf
  <2> QED BY <2>2, <2>3
<1>5. l = [k EXCEPT !.queue = q, !.sent = a] /\ d = [cursor |-> x, known |-> n]
  BY DEF Delivers, Heeds, Sends, Socket
<1> HIDE DEF s
<1>6. /\ a \in Seq(Sequence) /\ Range(a) = Range(k.sent) \cup {s}
      /\ IsInjective(k.sent) /\ s \notin Range(k.sent) => IsInjective(a)
  BY <1>1, <1>2, LastOf
<1>7. n \in SUBSET Sequence
  BY <1>1, <1>2
<1> HIDE DEF q, a, n, x
<1>8. /\ l \in Socket /\ l.pc = "live" /\ l.mark = k.mark
      /\ l.registered = k.registered /\ l.closing = k.closing /\ l.after = k.after
      /\ l.rows = k.rows /\ l.queue = q /\ l.seen = k.seen /\ l.sent = a
  BY <1>2, <1>5, <1>6 DEF Socket
<1>9. d \in Browser /\ d.cursor = x /\ d.known = n
  BY <1>4, <1>5, <1>7 DEF Browser
<1>10. Distinct(k) => Distinct(l)
  <2> SUFFICES ASSUME Distinct(k)
               PROVE  Distinct(l)
    OBVIOUS
  <2>1. /\ IsInjective(k.sent) /\ IsInjective(k.queue)
        /\ Range(k.sent) \cup Range(k.queue) \subseteq k.seen
        /\ Range(k.sent) \cap Range(k.queue) = {}
    BY DEF Distinct
  <2>2. Range(k.queue) = {s} \cup Range(q) /\ Range(a) = Range(k.sent) \cup {s}
    BY <1>2, <1>6
  <2>3. s \notin Range(q) /\ s \notin Range(k.sent)
    BY <1>3, <2>1, <2>2
  <2>4. IsInjective(a) /\ IsInjective(q)
    BY <1>3, <1>6, <2>1, <2>3
  <2>5. Range(a) \cup Range(q) \subseteq k.seen /\ Range(a) \cap Range(q) = {}
    BY <2>1, <2>2, <2>3
  <2> QED BY <1>8, <2>4, <2>5 DEF Distinct
<1>11. ASSUME SocketInv(k, b, C, S, B)
       PROVE  SocketInv(l, d, C, S, B)
  <2>1. k.mark = 0 /\ k.pc # "status" /\ s \in C
    BY <1>2, <1>11 DEF SocketInv, Cursors
  <2>2. \A m \in C : m \in Int /\ ~(m <= 0)
    BY DEF Sequence
  <2>3. /\ DOMAIN k.queue = 1..Len(k.queue) /\ DOMAIN q = 1..Len(q)
        /\ 1 \in DOMAIN k.queue
    BY <1>1, <1>2
  <2>4. \A i \in DOMAIN k.queue : \A m \in C : m < k.queue[i] =>
          m \in b.known \/ \E j \in DOMAIN k.queue : j < i /\ k.queue[j] = m
    BY <1>11, <2>1, <2>2 DEF SocketInv, Queued
  <2>5. \A m \in C : m < s => m \in b.known
    <3>1. ~ \E j \in DOMAIN k.queue : j < 1
      BY <1>2, <2>3
    <3>2. \A m \in C : m < k.queue[1] => m \in b.known
      BY <2>3, <2>4, <3>1
    <3> QED BY <1>2, <3>2
  <2>6. Cursors(l, d, C)
    <3>1. b.cursor \in C \cup {0} /\ d.cursor \in {b.cursor, s}
      BY <1>4, <1>9, <1>11 DEF SocketInv, Cursors
    <3>2. Range(q) \subseteq Range(k.queue)
      BY <1>2
    <3> QED BY <1>8, <1>11, <2>1, <3>1, <3>2 DEF SocketInv, Cursors
  <2>7. Reads(l, C, S) /\ Replays(l, d, C)
    BY <1>8 DEF Reads, Replays
  <2>8. Queued(l, d, C)
    <3> SUFFICES ASSUME NEW i \in DOMAIN q, NEW m \in C, m < q[i], m \notin n
                 PROVE  \E j \in DOMAIN q : j < i /\ q[j] = m
      <4>1. l.queue = q /\ d.known = n
        BY <1>8, <1>9
      <4> QED BY <4>1 DEF Queued
    <3>1. i + 1 \in DOMAIN k.queue /\ q[i] = k.queue[i + 1] /\ i \in Int
      BY <1>2, <2>3
    <3>2. m \notin b.known /\ m # s
      BY DEF n
    <3>3. PICK j \in DOMAIN k.queue : j < i + 1 /\ k.queue[j] = m
      BY <2>4, <3>1, <3>2
    <3>4. j # 1
      BY <1>2, <3>2, <3>3
    <3>5. j - 1 \in 1 .. Len(k.queue) - 1 /\ j - 1 < i /\ (j - 1) + 1 = j
      BY <1>2, <2>3, <3>1, <3>3, <3>4
    <3>6. q[j - 1] = k.queue[j] /\ j - 1 \in DOMAIN q
      BY <1>2, <2>3, <3>5
    <3> QED BY <3>3, <3>5, <3>6
  <2>9. Offered(l, d, B)
    BY <1>2, <1>8, <1>9, <1>11, <2>1 DEF SocketInv, Offered, Covered, Fed, n
  <2>10. NoGap(d, C)
    <3> SUFFICES ASSUME NEW m \in C, m <= x
                 PROVE  m \in b.known \/ m = s
      BY <1>9 DEF NoGap, n
    <3>1. m <= b.cursor => m \in b.known
      BY <1>11 DEF SocketInv, NoGap
    <3>2. m <= s => m < s \/ m = s
      BY <2>1, <2>2
    <3> QED BY <1>4, <2>5, <3>1, <3>2
  <2> QED BY <1>10, <1>11, <2>6, <2>7, <2>8, <2>9, <2>10 DEF SocketInv
<1> QED BY <1>8, <1>9, <1>10, <1>11

\* The listener offers it an entry, or has it closed.
LEMMA IsOffered ==
  ASSUME NEW k \in Socket, NEW b \in Browser, NEW C \in SUBSET Sequence, NEW S, NEW B, NEW D,
         NEW s \in Sequence, NEW l, l = Offer(k, s)
  PROVE  /\ l \in Socket
         /\ Distinct(k) => Distinct(l)
         /\ l.pc = k.pc
         /\ /\ SocketInv(k, b, C, S, B) /\ s \in C
            /\ \A m \in C : m < s => m \in B
            /\ D \subseteq {m \in C : m <= s}
            => SocketInv(l, b, C, S, D)
<1>1. CASE ~k.registered \/ s \in k.seen
  <2>1. l = k
    BY <1>1 DEF Offer
  <2>2. ASSUME SocketInv(k, b, C, S, B), \A m \in C : m < s => m \in B,
               D \subseteq {m \in C : m <= s}
        PROVE  SocketInv(l, b, C, S, D)
    <3>1. Offered(k, b, D)
      <4> SUFFICES ASSUME Fed(k), NEW m \in D \cup k.seen
                   PROVE  Covered(k, b, m)
        BY DEF Offered
      <4>1. m \in k.seen \/ (m \in C /\ m <= s)
        BY <2>2
      <4>2. m \in k.seen \/ (m \in C /\ m < s)
        <5>1. s \in k.seen
          BY <1>1 DEF Fed
        <5>2. m \in C => m \in Int /\ s \in Int
          BY DEF Sequence
        <5> QED BY <4>1, <5>1, <5>2
      <4> QED BY <2>2, <4>2 DEF SocketInv, Offered
    <3> QED BY <2>1, <2>2, <3>1 DEF SocketInv
  <2> QED BY <2>1, <2>2
<1>2. CASE k.registered /\ s \notin k.seen /\ Len(k.queue) < QueueSize
  <2>1. /\ k.queue \in Seq(Sequence) /\ Len(k.queue) \in Nat
        /\ DOMAIN k.queue = 1..Len(k.queue)
    BY DEF Socket
  <2>2. /\ Append(k.queue, s) \in Seq(Sequence) /\ Len(Append(k.queue, s)) = Len(k.queue) + 1
        /\ \A i \in 1..Len(k.queue) : Append(k.queue, s)[i] = k.queue[i]
        /\ Append(k.queue, s)[Len(k.queue) + 1] = s
        /\ Range(Append(k.queue, s)) = Range(k.queue) \cup {s}
        /\ IsInjective(k.queue) /\ s \notin Range(k.queue) => IsInjective(Append(k.queue, s))
    BY <2>1, LastOf
  <2>3. l = [k EXCEPT !.queue = Append(@, s), !.seen = @ \cup {s}]
    BY <1>2 DEF Offer
  <2>4. /\ l \in Socket /\ l.pc = k.pc /\ l.mark = k.mark
        /\ l.registered = k.registered /\ l.closing = k.closing /\ l.after = k.after
        /\ l.rows = k.rows /\ l.queue = Append(k.queue, s) /\ l.seen = k.seen \cup {s}
        /\ l.sent = k.sent
    <3> DEFINE a == Append(k.queue, s)
               e == k.seen \cup {s}
    <3>1. a \in Seq(Sequence) /\ e \in SUBSET Sequence /\ l = [k EXCEPT !.queue = a, !.seen = e]
      BY <2>2, <2>3 DEF Socket
    <3> HIDE DEF a, e
    <3>2. /\ l \in Socket /\ l.pc = k.pc /\ l.mark = k.mark
          /\ l.registered = k.registered /\ l.closing = k.closing /\ l.after = k.after
          /\ l.rows = k.rows /\ l.queue = a /\ l.seen = e /\ l.sent = k.sent
      BY <3>1 DEF Socket
    <3> QED BY <3>2 DEF a, e
  <2>5. Distinct(k) => Distinct(l)
    BY <1>2, <2>2, <2>4 DEF Distinct
  <2>6. ASSUME SocketInv(k, b, C, S, B), s \in C, \A m \in C : m < s => m \in B,
               D \subseteq {m \in C : m <= s}
        PROVE  SocketInv(l, b, C, S, D)
    <3>1. Cursors(l, b, C)
      BY <2>2, <2>4, <2>6 DEF SocketInv, Cursors
    <3>2. Replays(l, b, C)
      BY <2>2, <2>4, <2>6 DEF SocketInv, Replays
    <3>3. \A m \in C : m < s /\ Fed(k) => Covered(k, b, m)
      BY <2>6 DEF SocketInv, Offered
    <3>4. Queued(l, b, C)
      <4> SUFFICES ASSUME k.pc # "status", NEW i \in DOMAIN Append(k.queue, s), NEW m \in C,
                          m < Append(k.queue, s)[i], m \notin b.known, ~(m <= k.mark)
                   PROVE  \E j \in DOMAIN Append(k.queue, s) :
                            j < i /\ Append(k.queue, s)[j] = m
        BY <2>4 DEF Queued
      <4>1. DOMAIN Append(k.queue, s) = 1 .. Len(k.queue) + 1
        BY <2>2
      <4>2. CASE i \in 1..Len(k.queue)
        <5>1. PICK j \in DOMAIN k.queue : j < i /\ k.queue[j] = m
          BY <2>1, <2>2, <2>6, <4>2 DEF SocketInv, Queued
        <5> QED BY <2>1, <2>2, <4>1, <5>1
      <4>3. CASE i = Len(k.queue) + 1
        <5>1. m \in Range(k.queue)
          BY <1>2, <2>2, <3>3, <4>3 DEF Covered, Fed
        <5>2. PICK j \in 1..Len(k.queue) : k.queue[j] = m
          BY <2>1, <5>1 DEF Range
        <5> QED BY <2>1, <2>2, <4>1, <4>3, <5>2
      <4> QED BY <2>1, <4>1, <4>2, <4>3
    <3>5. Offered(l, b, D)
      <4> SUFFICES ASSUME Fed(k), NEW m \in D \cup k.seen, m # s
                   PROVE  Covered(k, b, m)
        BY <2>2, <2>4 DEF Offered, Fed, Covered
      <4>1. CASE m \in k.seen
        BY <2>6, <4>1 DEF SocketInv, Offered
      <4>2. CASE m \in C /\ m <= s
        BY <3>3, <4>2 DEF Sequence
      <4> QED BY <2>6, <4>1, <4>2
    <3> QED BY <2>4, <2>5, <2>6, <3>1, <3>2, <3>4, <3>5 DEF SocketInv, Reads
  <2> QED BY <2>4, <2>5, <2>6
<1>3. CASE k.registered /\ s \notin k.seen /\ ~(Len(k.queue) < QueueSize)
  <2>1. l = [k EXCEPT !.seen = @ \cup {s}, !.registered = FALSE, !.closing = TRUE]
    BY <1>3 DEF Offer
  <2>2. /\ l \in Socket /\ l.pc = k.pc /\ l.mark = k.mark
        /\ ~l.registered /\ l.closing /\ l.after = k.after
        /\ l.rows = k.rows /\ l.queue = k.queue /\ l.seen = k.seen \cup {s}
        /\ l.sent = k.sent
    <3> DEFINE e == k.seen \cup {s}
    <3>1. e \in SUBSET Sequence /\ l = [k EXCEPT !.seen = e, !.registered = FALSE, !.closing = TRUE]
      BY <2>1 DEF Socket
    <3> HIDE DEF e
    <3>2. /\ l \in Socket /\ l.pc = k.pc /\ l.mark = k.mark
          /\ ~l.registered /\ l.closing /\ l.after = k.after
          /\ l.rows = k.rows /\ l.queue = k.queue /\ l.seen = e /\ l.sent = k.sent
      BY <3>1 DEF Socket
    <3> QED BY <3>2 DEF e
  <2>3. Distinct(k) => Distinct(l)
    BY <2>2 DEF Distinct
  <2>4. ASSUME SocketInv(k, b, C, S, B), s \in C
        PROVE  SocketInv(l, b, C, S, D)
    BY <2>2, <2>3, <2>4
       DEF SocketInv, Cursors, Reads, Replays, Queued, Offered, Fed
  <2> QED BY <2>2, <2>3, <2>4
<1> QED BY <1>1, <1>2, <1>3

Closed(k) == IF k.registered THEN [k EXCEPT !.registered = FALSE, !.closing = TRUE] ELSE k

\* disconnect_all: whatever the listener leaves behind, the socket is none of it.
LEMMA IsDisconnected ==
  ASSUME NEW k \in Socket, NEW b \in Browser, NEW C, NEW S, NEW B, NEW D, NEW l,
         l = Closed(k)
  PROVE  /\ l \in Socket
         /\ Distinct(k) => Distinct(l)
         /\ l.pc = k.pc
         /\ SocketInv(k, b, C, S, B) => SocketInv(l, b, C, S, D)
<1>1. /\ l \in Socket /\ l.pc = k.pc /\ l.mark = k.mark
      /\ ~l.registered /\ l.closing = (k.closing \/ k.registered) /\ l.after = k.after
      /\ l.rows = k.rows /\ l.queue = k.queue /\ l.seen = k.seen /\ l.sent = k.sent
  BY DEF Socket, Closed
<1>2. Distinct(k) => Distinct(l)
  BY <1>1 DEF Distinct
<1>3. ASSUME SocketInv(k, b, C, S, B)
      PROVE  SocketInv(l, b, C, S, D)
  <2>1. Cursors(l, b, C)
    BY <1>1, <1>3 DEF SocketInv, Cursors
  <2>2. Distinct(l)
    BY <1>2, <1>3 DEF SocketInv
  <2>3. Reads(l, C, S)
    BY <1>1, <1>3 DEF SocketInv, Reads
  <2>4. Replays(l, b, C) /\ Queued(l, b, C) /\ Offered(l, b, D)
    BY <1>1, <1>3 DEF SocketInv, Replays, Queued, Offered, Fed
  <2> QED BY <1>3, <2>1, <2>2, <2>3, <2>4 DEF SocketInv
<1> QED BY <1>1, <1>2, <1>3

\* A socket that does nothing while others commit, publish, delete and read.
LEMMA IsLeftAlone ==
  ASSUME NEW k \in Socket, NEW b \in Browser, NEW C \in SUBSET Sequence, NEW S, NEW B,
         NEW E \in SUBSET Sequence, NEW T, NEW D,
         SocketInv(k, b, C, S, B),
         C \subseteq E, \A s \in E \ C : \A m \in C : m < s,
         D \subseteq B,
         k.pc = "read" => E = C /\ S \subseteq T
  PROVE  SocketInv(k, b, E, T, D)
<1>1. /\ k.mark \in Nat /\ k.after \in Nat /\ b.cursor \in Nat
      /\ \A m \in E : m \in Nat /\ 0 < m
  <2>1. k.mark \in 0..MaxSequence /\ k.after \in 0..MaxSequence
    BY DEF Socket
  <2>2. b.cursor \in 0..MaxSequence
    BY DEF Browser
  <2>3. \A m \in E : m \in Nat /\ 0 < m
    BY RealtimeAssumption DEF Sequence
  <2> QED BY <2>1, <2>2, <2>3, RealtimeAssumption
<1>2. {b.cursor, k.mark, k.after} \subseteq C \cup {0} /\ Range(k.queue) \subseteq C
  BY DEF SocketInv, Cursors
<1>3. \A s \in E \ C : b.cursor < s /\ k.mark < s /\ k.after < s /\ \A m \in C : m < s
  BY <1>1, <1>2
<1>4. Cursors(k, b, E)
  BY DEF SocketInv, Cursors
<1>5. Reads(k, E, T)
  BY DEF SocketInv, Reads
<1>6. Replays(k, b, E)
  <2>1. \A m \in E : m <= k.mark => m \in C
    BY <1>1, <1>3
  <2> QED BY <2>1 DEF SocketInv, Replays
<1>7. Queued(k, b, E)
  <2>1. k.queue \in Seq(Sequence)
    BY DEF Socket
  <2>2. \A i \in DOMAIN k.queue : k.queue[i] \in C
    BY <1>2, <2>1 DEF Range
  <2>3. \A i \in DOMAIN k.queue : \A m \in E : m < k.queue[i] => m \in C
    BY <1>1, <1>3, <2>2
  <2> QED BY <2>3 DEF SocketInv, Queued
<1>8. Offered(k, b, D)
  BY DEF SocketInv, Offered
<1>9. NoGap(b, E)
  BY <1>1, <1>3 DEF SocketInv, NoGap
<1> QED BY <1>4, <1>5, <1>6, <1>7, <1>8, <1>9 DEF SocketInv

\* What the listener goes past, and overlooks, a socket need not be offered.
LEMMA IsOverlooked ==
  ASSUME NEW k \in Socket, NEW b \in Browser, NEW C \in SUBSET Sequence, NEW S, NEW B,
         NEW X, NEW D, k.registered => D \subseteq B \cup X,
         SocketInv(k, b, C, S, B), NEW d \in Browser,
         d.cursor = b.cursor, b.known \subseteq d.known,
         k.registered => X \subseteq d.known
  PROVE  SocketInv(k, d, C, S, D)
<1>1. Cursors(k, d, C)
  BY DEF SocketInv, Cursors
<1>2. Replays(k, d, C)
  BY DEF SocketInv, Replays
<1>3. Queued(k, d, C)
  BY DEF SocketInv, Queued
<1>4. Offered(k, d, D)
  <2> SUFFICES ASSUME Fed(k), NEW m \in D \cup k.seen
               PROVE  Covered(k, d, m)
    BY DEF Offered
  <2>1. k.registered
    BY DEF Fed
  <2>2. m \in B \cup k.seen => Covered(k, b, m)
    BY DEF SocketInv, Offered
  <2> QED BY <2>1, <2>2 DEF Covered
<1>5. NoGap(d, C)
  BY DEF SocketInv, NoGap
<1> QED BY <1>1, <1>2, <1>3, <1>4, <1>5 DEF SocketInv

-----------------------------------------------------------------------------
(* What the steps of the handler of a socket do. *)

LEMMA WatermarkIs ==
  ASSUME Typed
  PROVE  /\ Watermark \in 0..MaxSequence
         /\ \E t \in Topic : Watermark = topic[t].latest
         /\ \A t \in Topic : topic[t].latest <= Watermark
         /\ Topics => /\ Watermark \in Committed \cup {0}
                      /\ \A m \in Committed : m <= Watermark
<1> DEFINE L == {topic[t].latest : t \in Topic}
<1>1. L \subseteq 0..MaxSequence /\ L # {} /\ MaxSequence \in Nat
  BY RealtimeAssumption DEF Typed, TopicRecord
<1>2. Max(L) \in L /\ \A y \in L : y <= Max(L)
  BY <1>1, MaxOf
<1>3. /\ Watermark \in 0..MaxSequence
      /\ \E t \in Topic : Watermark = topic[t].latest
      /\ \A t \in Topic : topic[t].latest <= Watermark
  BY <1>1, <1>2 DEF Watermark
<1>4. ASSUME Topics
      PROVE  Watermark \in Committed \cup {0} /\ \A m \in Committed : m <= Watermark
  <2>1. Watermark \in Committed \cup {0}
    BY <1>3, <1>4 DEF Topics
  <2>2. ASSUME NEW m \in Committed
        PROVE  m <= Watermark
    <3>1. PICK t \in Topic : m <= topic[t].latest
      BY <1>4 DEF Topics
    <3>2. topic[t].latest \in 0..MaxSequence /\ topic[t].latest <= Watermark /\ m \in Int
      BY <1>3 DEF Typed, TopicRecord, Committed, Sequence
    <3> QED BY <1>1, <1>3, <3>1, <3>2
  <2> QED BY <2>1, <2>2
<1> QED BY <1>3, <1>4

Advances(c) ==
  /\ conn' \in [Client -> Socket] /\ client' \in [Client -> ClientRecord]
  /\ \A e \in Client \ {c} : conn'[e] = conn[e] /\ client'[e] = client[e]
  /\ Distinct(conn[c]) => Distinct(conn'[c])
  /\ conn'[c].pc = "read" => conn[c].pc = "read" \/ ~TopicsTaken
  /\ Topics /\ SocketInv(conn[c], View(client[c]), Committed, StoredSet, LeftBehind)
       => SocketInv(conn'[c], View(client'[c]), Committed, StoredSet, LeftBehind)

\* The view of a record of the client.
LEMMA ViewIs ==
  ASSUME NEW d \in ClientRecord
  PROVE  /\ View(d) \in Browser /\ View(d).cursor = d.cursor
         /\ View(d).known = d.known \cup d.overlooked
BY DEF View, Browser, ClientRecord

LEMMA SocketsAre ==
  ASSUME Typed, NEW c \in Client
  PROVE  /\ conn[c] \in Socket /\ client[c] \in ClientRecord /\ View(client[c]) \in Browser
         /\ Committed \in SUBSET Sequence /\ StoredSet \in SUBSET Committed
         /\ LeftBehind \subseteq Committed
<1>1. client[c] \in ClientRecord
  BY DEF Typed
<1> QED BY <1>1, ViewIs DEF Typed, Committed, StoredSet, LeftBehind, Stored

LEMMA StepIs ==
  ASSUME Typed, NEW c \in Client, NEW l, l \in Socket, Step(c, l)
  PROVE  /\ conn' \in [Client -> Socket] /\ conn'[c] = l
         /\ \A e \in Client \ {c} : conn'[e] = conn[e]
         /\ UNCHANGED <<txn, nextSeq, outbox, topic, stream, trimmed, cycle, listener>>
BY DEF Typed, Step, database, redis

LEMMA BrowserIs ==
  ASSUME Typed, NEW c \in Client, NEW d, d \in ClientRecord,
         client' = [client EXCEPT ![c] = d]
  PROVE  /\ client' \in [Client -> ClientRecord] /\ client'[c] = d
         /\ \A e \in Client \ {c} : client'[e] = client[e]
BY DEF Typed

LEMMA RegisterAdvances ==
  ASSUME Typed, NEW c \in Client, Register(c)
  PROVE  Advances(c)
<1> DEFINE l == [NoSocket EXCEPT !.pc = "status", !.registered = TRUE,
                                 !.after = client[c].cursor]
<1> DEFINE b == View(client[c])
<1>1. /\ conn[c] \in Socket /\ client[c] \in ClientRecord
      /\ b \in Browser /\ b.cursor = client[c].cursor
  BY SocketsAre, ViewIs
<1>2. Step(c, l) /\ client' = client
  BY DEF Register
<1>3. /\ l \in Socket /\ Distinct(l)
      /\ /\ b.cursor \in Committed \cup {0} /\ NoGap(b, Committed)
         => SocketInv(l, b, Committed, StoredSet, LeftBehind)
  <2>1. l = [NoSocket EXCEPT !.pc = "status", !.registered = TRUE, !.after = b.cursor]
    BY <1>1
  <2> HIDE DEF b, l
  <2> QED BY <1>1, <2>1, Registers
<1>4. l.pc = "status"
  BY <1>3, NothingThere DEF Socket
<1> HIDE DEF l
<1>5. /\ conn' \in [Client -> Socket] /\ conn'[c] = l
      /\ \A e \in Client \ {c} : conn'[e] = conn[e]
  BY <1>2, <1>3, StepIs
<1> QED BY <1>2, <1>3, <1>4, <1>5 DEF Advances, Typed, SocketInv, Cursors

LEMMA HelloAdvances ==
  ASSUME Typed, NEW c \in Client, Hello(c)
  PROVE  Advances(c)
<1> DEFINE k == conn[c]
           b == View(client[c])
           l == [k EXCEPT !.pc = "floors", !.mark = Watermark]
<1>1. /\ k \in Socket /\ b \in Browser /\ Committed \in SUBSET Sequence
      /\ LeftBehind \subseteq Committed
  BY SocketsAre
<1>2. Step(c, l) /\ client' = client /\ k.pc = "status"
  BY DEF Hello
<1>3. Watermark \in 0..MaxSequence
  BY WatermarkIs
<1>4. /\ l \in Socket /\ l.pc = "floors" /\ l.mark = Watermark
      /\ l.registered = k.registered /\ l.closing = k.closing /\ l.after = k.after
      /\ l.rows = k.rows /\ l.queue = k.queue /\ l.seen = k.seen /\ l.sent = k.sent
  BY <1>1, <1>3 DEF Socket
<1> HIDE DEF l
<1>5. Distinct(k) => Distinct(l)
  BY <1>2, <1>4 DEF Distinct
<1>6. ASSUME Topics, SocketInv(k, b, Committed, StoredSet, LeftBehind)
      PROVE  SocketInv(l, b, Committed, StoredSet, LeftBehind)
  <2>1. Watermark \in Committed \cup {0} /\ \A m \in Committed : m <= Watermark
    BY <1>6, WatermarkIs
  <2>2. k.seen \cup LeftBehind \subseteq Committed /\ Range(k.queue) \subseteq Committed
    BY <1>1, <1>6 DEF SocketInv, Cursors
  <2>3. Cursors(l, b, Committed) /\ Replays(l, b, Committed) /\ Reads(l, Committed, StoredSet)
    BY <1>2, <1>4, <1>6, <2>1 DEF SocketInv, Cursors, Replays, Reads
  <2>4. Offered(l, b, LeftBehind)
    BY <1>4, <2>1, <2>2 DEF Offered, Covered
  <2>5. Queued(l, b, Committed)
    BY <1>4, <2>1 DEF Queued
  <2> QED BY <1>5, <1>6, <2>3, <2>4, <2>5 DEF SocketInv
<1>7. /\ conn' \in [Client -> Socket] /\ conn'[c] = l
      /\ \A e \in Client \ {c} : conn'[e] = conn[e]
  BY <1>2, <1>4, StepIs
<1> QED BY <1>2, <1>4, <1>5, <1>6, <1>7 DEF Advances, Typed

LEMMA ResyncAdvances ==
  ASSUME Typed, NEW c \in Client, Resync(c)
  PROVE  Advances(c)
<1> DEFINE d == [cursor |-> Watermark, known |-> Committed, overlooked |-> {}]
           b == View(d)
<1>1. Step(c, NoSocket) /\ client' = [client EXCEPT ![c] = d]
  BY DEF Resync
<1>2. d \in ClientRecord /\ d.cursor = Watermark /\ d.known = Committed /\ d.overlooked = {}
  BY WatermarkIs DEF ClientRecord, Committed
<1> HIDE DEF d
<1>3. /\ client' \in [Client -> ClientRecord] /\ client'[c] = d
      /\ \A e \in Client \ {c} : client'[e] = client[e]
  BY <1>1, <1>2, BrowserIs
<1>4. b \in Browser /\ b.cursor = Watermark /\ b.known = Committed
  BY <1>2, ViewIs
<1>5. b = View(client'[c])
  BY <1>3
<1> HIDE DEF b
<1>6. /\ NoSocket \in Socket /\ Distinct(NoSocket)
      /\ /\ b.cursor \in Committed \cup {0} /\ NoGap(b, Committed)
         => SocketInv(NoSocket, b, Committed, StoredSet, LeftBehind)
  BY <1>4, Leaves
<1>7. NoGap(b, Committed) /\ NoSocket.pc # "read"
  BY <1>4, NothingThere DEF NoGap
<1>8. Topics => b.cursor \in Committed \cup {0}
  BY <1>4, WatermarkIs
<1>9. /\ conn' \in [Client -> Socket] /\ conn'[c] = NoSocket
      /\ \A e \in Client \ {c} : conn'[e] = conn[e]
  BY <1>1, <1>6, StepIs
<1> QED BY <1>3, <1>5, <1>6, <1>7, <1>8, <1>9 DEF Advances

LEMMA EndAdvances ==
  ASSUME Typed, NEW c \in Client, Close(c) \/ Drop(c)
  PROVE  Advances(c)
<1> DEFINE b == View(client[c])
<1>1. /\ client' = client /\ conn' = [conn EXCEPT ![c] = NoSocket]
  BY DEF Close, Drop, Step
<1>2. b \in Browser
  BY SocketsAre
<1>3. /\ NoSocket \in Socket /\ Distinct(NoSocket) /\ NoSocket.pc # "read"
      /\ /\ b.cursor \in Committed \cup {0} /\ NoGap(b, Committed)
         => SocketInv(NoSocket, b, Committed, StoredSet, LeftBehind)
  BY <1>2, Leaves, NothingThere
<1>4. /\ conn' \in [Client -> Socket] /\ conn'[c] = NoSocket
      /\ \A e \in Client \ {c} : conn'[e] = conn[e]
  BY <1>1, <1>3 DEF Typed
<1> QED BY <1>1, <1>3, <1>4 DEF Advances, Typed, SocketInv, Cursors

LEMMA CheckFloorsAdvances ==
  ASSUME Typed, NEW c \in Client, CheckFloors(c)
  PROVE  Advances(c)
<1>1. CASE Resync(c)
  BY <1>1, ResyncAdvances
<1>2. CASE ~Missed(conn[c]) /\ Step(c, [conn[c] EXCEPT !.pc = "read"]) /\ UNCHANGED client
  <2> DEFINE l == [conn[c] EXCEPT !.pc = "read"]
             I(k) == SocketInv(k, View(client[c]), Committed, StoredSet, LeftBehind)
  <2>1. conn[c] \in Socket /\ View(client[c]) \in Browser /\ conn[c].pc = "floors" /\ ~TopicsTaken
    BY SocketsAre DEF CheckFloors
  <2>2. /\ l \in Socket
        /\ Distinct(conn[c]) => Distinct(l)
        /\ I(conn[c]) /\ (\A m \in Committed : m > conn[c].after => m \in StoredSet) => I(l)
    BY <2>1, PassesFloors
  <2>3. ASSUME Topics, NEW m \in Committed, m > conn[c].after
        PROVE  m \in StoredSet
    <3> DEFINE t == outbox[m].topic
    <3>1. /\ t \in Topic /\ m <= topic[t].latest
          /\ outbox[m].status = "deleted" => m <= topic[t].floor
      BY <2>3 DEF Topics
    <3>2. /\ m \in Int /\ conn[c].after \in Int
          /\ topic[t].latest \in Int /\ topic[t].floor \in Int
      BY <2>1, <3>1 DEF Typed, TopicRecord, Committed, Sequence, Socket
    <3>3. ~(conn[c].after < topic[t].floor /\ topic[t].latest > conn[c].after)
      BY <1>2, <3>1 DEF Missed
    <3>4. outbox[m].status # "deleted"
      BY <2>3, <3>1, <3>2, <3>3
    <3>5. outbox[m] \in Row /\ outbox[m].status # "none" /\ m \in Sequence
      BY DEF Committed, Typed
    <3> QED BY <3>4, <3>5 DEF StoredSet, Stored, Row
  <2> HIDE DEF l
  <2>4. /\ conn' \in [Client -> Socket] /\ conn'[c] = l
        /\ \A e \in Client \ {c} : conn'[e] = conn[e]
    BY <1>2, <2>2, StepIs DEF l
  <2> QED BY <1>2, <2>1, <2>2, <2>3, <2>4 DEF Advances, Typed
<1> QED BY <1>1, <1>2 DEF CheckFloors

LEMMA ReadRowsAdvances ==
  ASSUME Typed, NEW c \in Client, ReadRows(c)
  PROVE  Advances(c)
<1>1. CASE Resync(c)
  BY <1>1, ResyncAdvances
<1>2. ASSUME NEW q \in Ascending(ReplayRows(conn[c])),
             Step(c, [conn[c] EXCEPT !.pc = "replay", !.rows = q]), UNCHANGED client
      PROVE  Advances(c)
  <2> DEFINE R == ReplayRows(conn[c])
             l == [conn[c] EXCEPT !.pc = "replay", !.rows = q]
             I(k) == SocketInv(k, View(client[c]), Committed, StoredSet, LeftBehind)
  <2>1. /\ conn[c] \in Socket /\ View(client[c]) \in Browser /\ conn[c].pc = "read"
        /\ Committed \in SUBSET Sequence /\ StoredSet \in SUBSET Committed
    BY SocketsAre DEF ReadRows
  <2>2. /\ R = {m \in StoredSet : conn[c].after < m /\ m <= conn[c].mark}
        /\ R \subseteq Sequence
    BY DEF ReplayRows, StoredSet
  <2>3. Range(q) = R /\ q \in [1..Cardinality(R) -> R] /\ Cardinality(R) \in Nat
    <3>1. R \subseteq Int
      BY <2>2 DEF Sequence
    <3>2. IsFiniteSet(Sequence)
      BY RealtimeAssumption, FS_Interval DEF Sequence
    <3>3. Cardinality(R) \in Nat
      BY <2>2, <3>2, FS_Subset, FS_CardinalityType
    <3> QED BY <1>2, <3>1, <3>3, Arranged
  <2>4. q \in Seq(Sequence)
    <3>1. R \subseteq Sequence
      BY <2>2
    <3> DEFINE n == Cardinality(R)
    <3>2. q \in [1..n -> R] /\ n \in Nat
      BY <2>3
    <3> HIDE DEF n, R
    <3>3. q \in [1..n -> Sequence]
      BY <3>1, <3>2
    <3> QED BY <3>2, <3>3
  <2>5. /\ l \in Socket
        /\ Distinct(conn[c]) => Distinct(l)
        /\ I(conn[c]) => I(l)
    <3>1. Range(q) = {m \in StoredSet : conn[c].after < m /\ m <= conn[c].mark}
      BY <2>2, <2>3
    <3>2. /\ l \in Socket
          /\ Distinct(conn[c]) => Distinct(l)
          /\ /\ I(conn[c])
             /\ Range(q) = {m \in StoredSet : conn[c].after < m /\ m <= conn[c].mark}
             => I(l)
      BY <2>1, <2>4, TakesRows
    <3> QED BY <3>1, <3>2
  <2>6. l.pc = "replay"
    BY <2>1 DEF Socket
  <2> HIDE DEF l
  <2>7. /\ conn' \in [Client -> Socket] /\ conn'[c] = l
        /\ \A e \in Client \ {c} : conn'[e] = conn[e]
    BY <1>2, <2>5, StepIs DEF l
  <2> QED BY <1>2, <2>5, <2>6, <2>7 DEF Advances, Typed
<1> QED BY <1>1, <1>2 DEF ReadRows

LEMMA ReceivesIs ==
  ASSUME Typed, NEW c \in Client, NEW s \in Sequence, Receives(c, s)
  PROVE  /\ client' \in [Client -> ClientRecord]
         /\ View(client'[c]) = Learns(View(client[c]), s)
         /\ \A e \in Client \ {c} : client'[e] = client[e]
<1> DEFINE b == client[c]
           n == b.known \cup {s}
           d == [b EXCEPT !.known = n]
<1>1. b \in ClientRecord /\ View(b) \in Browser
  BY SocketsAre
<1>2. client' = [client EXCEPT ![c] = d]
  BY DEF Receives, Typed
<1>3. n \in SUBSET Sequence
  BY <1>1 DEF ClientRecord
<1> HIDE DEF n, b
<1>4. /\ d \in ClientRecord /\ d.cursor = b.cursor
      /\ d.known = n /\ d.overlooked = b.overlooked
  BY <1>1, <1>3 DEF ClientRecord
<1>5. /\ client' \in [Client -> ClientRecord] /\ client'[c] = d
      /\ \A e \in Client \ {c} : client'[e] = client[e]
  BY <1>2, <1>4, BrowserIs
<1> HIDE DEF d
<1>6. View(d) = Learns(View(b), s)
  <2>1. View(b) = [cursor |-> b.cursor, known |-> b.known \cup b.overlooked]
    BY DEF View
  <2>2. Learns(View(b), s) = [cursor |-> b.cursor, known |-> (b.known \cup b.overlooked) \cup {s}]
    BY <2>1 DEF Learns
  <2>3. View(d) = [cursor |-> b.cursor, known |-> n \cup b.overlooked]
    BY <1>4 DEF View
  <2>4. n \cup b.overlooked = (b.known \cup b.overlooked) \cup {s}
    BY DEF n
  <2> QED BY <2>2, <2>3, <2>4
<1> QED BY <1>5, <1>6 DEF b

LEMMA SkippedIs ==
  ASSUME Typed, NEW c \in Client, NEW X \in SUBSET Sequence,
         client' = [client EXCEPT ![c].overlooked = @ \cup X]
  PROVE  /\ client' \in [Client -> ClientRecord]
         /\ View(client'[c]) \in Browser
         /\ View(client'[c]).cursor = View(client[c]).cursor
         /\ View(client'[c]).known = View(client[c]).known \cup X
         /\ \A e \in Client \ {c} : client'[e] = client[e]
<1> DEFINE b == client[c]
           n == b.overlooked \cup X
           d == [b EXCEPT !.overlooked = n]
<1>1. b \in ClientRecord
  BY SocketsAre
<1>2. client' = [client EXCEPT ![c] = d]
  BY DEF Typed
<1>3. n \in SUBSET Sequence
  BY <1>1 DEF ClientRecord
<1> HIDE DEF n, b
<1>4. /\ d \in ClientRecord /\ d.cursor = b.cursor
      /\ d.known = b.known /\ d.overlooked = n
  BY <1>1, <1>3 DEF ClientRecord
<1>5. /\ client' \in [Client -> ClientRecord] /\ client'[c] = d
      /\ \A e \in Client \ {c} : client'[e] = client[e]
  BY <1>2, <1>4, BrowserIs
<1> HIDE DEF d
<1>6. /\ View(d) \in Browser /\ View(d).cursor = View(b).cursor
      /\ View(d).known = View(b).known \cup X
  BY <1>1, <1>4, ViewIs DEF n
<1> QED BY <1>5, <1>6 DEF b

LEMMA SendRowAdvances ==
  ASSUME Typed, NEW c \in Client, SendRow(c)
  PROVE  Advances(c)
<1> DEFINE k == conn[c]
           b == View(client[c])
           s == Frame(k)
           X == {s} \ Range(k.queue)
           l0 == Skips(k)
           l1 == Sends(Skips(k), s)
           d == View(client'[c])
<1>1. /\ k \in Socket /\ b \in Browser /\ Committed \in SUBSET Sequence
      /\ k.pc = "replay" /\ k.rows # <<>>
  BY SocketsAre DEF SendRow
<1>0. s \in Sequence
  BY <1>1, FirstOf DEF Socket, Frame
<1>2. ASSUME s \in k.seen, Step(c, l0),
             client' = [client EXCEPT ![c].overlooked = @ \cup X]
      PROVE  Advances(c)
  <2>1. /\ client' \in [Client -> ClientRecord] /\ d \in Browser
        /\ d.cursor = b.cursor /\ d.known = b.known \cup X
        /\ \A e \in Client \ {c} : client'[e] = client[e]
    <3>1. X \in SUBSET Sequence
      BY <1>0
    <3> HIDE DEF X
    <3> QED BY <1>2, <3>1, SkippedIs
  <2>2. /\ l0 \in Socket
        /\ Distinct(k) => Distinct(l0)
        /\ SocketInv(k, b, Committed, StoredSet, LeftBehind)
             => SocketInv(l0, d, Committed, StoredSet, LeftBehind)
    <3>1. /\ Frame(k) \in k.seen /\ d.cursor = b.cursor
          /\ d.known = b.known \cup ({Frame(k)} \ Range(k.queue)) /\ l0 = Skips(k)
      BY <1>2, <2>1
    <3>2. d \in Browser
      BY <2>1
    <3> HIDE DEF k, b, d, s, X, l0
    <3> QED BY <1>1, <3>1, <3>2, SkipsRow
  <2>3. l0.pc = "replay"
    BY <1>1 DEF Socket, Skips
  <2> HIDE DEF l0
  <2>4. /\ conn' \in [Client -> Socket] /\ conn'[c] = l0
        /\ \A e \in Client \ {c} : conn'[e] = conn[e]
    BY <1>2, <2>2, StepIs
  <2> HIDE DEF X, s
  <2> QED BY <2>1, <2>2, <2>3, <2>4 DEF Advances
<1>3. ASSUME s \notin k.seen, Step(c, l1), Receives(c, s)
      PROVE  Advances(c)
  <2>1. /\ client' \in [Client -> ClientRecord] /\ d = Learns(b, s)
        /\ \A e \in Client \ {c} : client'[e] = client[e]
    BY <1>0, <1>3, ReceivesIs
  <2>2. /\ l1 \in Socket
        /\ Distinct(k) => Distinct(l1)
        /\ SocketInv(k, b, Committed, StoredSet, LeftBehind)
             => SocketInv(l1, d, Committed, StoredSet, LeftBehind)
    <3>1. l1 = Sends(Skips(k), Frame(k)) /\ d = Learns(b, Frame(k)) /\ Frame(k) \notin k.seen
      BY <1>3, <2>1
    <3> HIDE DEF l1, d, k, b, s
    <3> QED BY <1>1, <3>1, SendsRow, Zenon
  <2>3. l1.pc = "replay"
    BY <1>1 DEF Socket, Sends, Skips
  <2> HIDE DEF l1
  <2>4. /\ conn' \in [Client -> Socket] /\ conn'[c] = l1
        /\ \A e \in Client \ {c} : conn'[e] = conn[e]
    BY <1>3, <2>2, StepIs
  <2> QED BY <2>1, <2>2, <2>3, <2>4 DEF Advances
<1> QED BY <1>2, <1>3 DEF SendRow, Skips, Frame

LEMMA TakeBufferedAdvances ==
  ASSUME Typed, NEW c \in Client, TakeBuffered(c)
  PROVE  Advances(c)
<1> DEFINE k == conn[c]
           b == View(client[c])
<1>1. /\ k \in Socket /\ b \in Browser /\ Committed \in SUBSET Sequence
      /\ LeftBehind \subseteq Committed
      /\ k.pc = "replay" /\ k.rows = <<>> /\ client' = client
  BY SocketsAre DEF TakeBuffered
<1>2. PICK q \in Sorted(k.queue, k.after + 1 .. k.mark) :
        \E p \in Kept(k.queue, k.mark + 1 .. MaxSequence) : Step(c, Buffered(k, q, p))
  BY DEF TakeBuffered
<1>3. PICK p \in Kept(k.queue, k.mark + 1 .. MaxSequence) : Step(c, Buffered(k, q, p))
  BY <1>2
<1> DEFINE l == Buffered(k, q, p)
<1>4. /\ l \in Socket
      /\ Distinct(k) => Distinct(l)
      /\ SocketInv(k, b, Committed, StoredSet, LeftBehind) /\ LeftBehind \subseteq Committed
           => SocketInv(l, b, Committed, StoredSet, LeftBehind)
  <2>1. l = Buffered(k, q, p)
    OBVIOUS
  <2> HIDE DEF l, k, b
  <2> QED BY <1>1, <2>1, TakesQueued, Zenon
<1>5. l.pc = "buffered"
  BY <1>1 DEF Socket, Buffered
<1> HIDE DEF l
<1>6. /\ conn' \in [Client -> Socket] /\ conn'[c] = l
      /\ \A e \in Client \ {c} : conn'[e] = conn[e]
  BY <1>3, <1>4, StepIs DEF l
<1> QED BY <1>1, <1>4, <1>5, <1>6 DEF Advances, Typed

LEMMA SendBufferedAdvances ==
  ASSUME Typed, NEW c \in Client, SendBuffered(c)
  PROVE  Advances(c)
<1> DEFINE k == conn[c]
           b == View(client[c])
           l == Drains(k)
           d == View(client'[c])
<1>1. /\ k \in Socket /\ b \in Browser /\ Committed \in SUBSET Sequence
      /\ k.pc = "buffered" /\ k.rows # <<>>
      /\ Step(c, l) /\ Receives(c, Frame(k))
  BY SocketsAre DEF SendBuffered, Drains, Frame
<1>2. Frame(k) \in Sequence
  BY <1>1, FirstOf DEF Socket, Frame
<1>3. /\ client' \in [Client -> ClientRecord] /\ d = Learns(b, Frame(k))
      /\ \A e \in Client \ {c} : client'[e] = client[e]
  BY <1>1, <1>2, ReceivesIs
<1>4. /\ l \in Socket
      /\ Distinct(k) => Distinct(l)
      /\ SocketInv(k, b, Committed, StoredSet, LeftBehind)
           => SocketInv(l, d, Committed, StoredSet, LeftBehind)
  <2>1. l = Drains(k) /\ d = Learns(b, Frame(k))
    BY <1>3
  <2> HIDE DEF l, d, k, b
  <2> QED BY <1>1, <2>1, SendsQueued, Zenon
<1>5. l.pc = "buffered"
  BY <1>1 DEF Socket, Sends, Drains, Frame
<1> HIDE DEF l
<1>6. /\ conn' \in [Client -> Socket] /\ conn'[c] = l
      /\ \A e \in Client \ {c} : conn'[e] = conn[e]
  BY <1>1, <1>4, StepIs
<1> QED BY <1>3, <1>4, <1>5, <1>6 DEF Advances

\* A cursor that is consolidated, with a frame or without.
LEMMA ConsolidatedIs ==
  ASSUME Typed, NEW c \in Client, NEW n \in 0..MaxSequence, NEW X \in SUBSET Sequence,
         NEW d, d = [client[c] EXCEPT !.cursor = n, !.known = @ \cup X],
         client' = [client EXCEPT ![c] = d]
  PROVE  /\ client' \in [Client -> ClientRecord]
         /\ View(client'[c]) = [cursor |-> n, known |-> View(client[c]).known \cup X]
         /\ \A e \in Client \ {c} : client'[e] = client[e]
<1> DEFINE b == client[c]
           m == b.known \cup X
<1>1. b \in ClientRecord
  BY SocketsAre
<1>2. d = [b EXCEPT !.cursor = n, !.known = m]
  BY <1>1 DEF ClientRecord
<1>3. m \in SUBSET Sequence
  BY <1>1 DEF ClientRecord
<1> HIDE DEF m, b
<1>4. /\ d \in ClientRecord /\ d.cursor = n
      /\ d.known = m /\ d.overlooked = b.overlooked
  BY <1>1, <1>2, <1>3 DEF ClientRecord
<1>5. /\ client' \in [Client -> ClientRecord] /\ client'[c] = d
      /\ \A e \in Client \ {c} : client'[e] = client[e]
  BY <1>4, BrowserIs
<1>6. View(d) = [cursor |-> n, known |-> View(b).known \cup X]
  <2>1. View(d) = [cursor |-> n, known |-> m \cup b.overlooked]
    BY <1>4 DEF View
  <2>2. View(b).known = b.known \cup b.overlooked
    BY <1>1, ViewIs
  <2>3. m \cup b.overlooked = View(b).known \cup X
    BY <2>2 DEF m
  <2> QED BY <2>1, <2>3
<1> QED BY <1>5, <1>6 DEF b

LEMMA CompleteAdvances ==
  ASSUME Typed, NEW c \in Client, Complete(c)
  PROVE  Advances(c)
<1> DEFINE k == conn[c]
           b == View(client[c])
           l == GoesLive(k)
           n == Max({b.cursor, k.mark})
           d == View(client'[c])
<1>1. /\ k \in Socket /\ b \in Browser /\ Committed \in SUBSET Sequence
      /\ LeftBehind \subseteq Committed
      /\ k.pc = "buffered" /\ k.rows = <<>> /\ Step(c, l)
      /\ client[c] \in ClientRecord /\ b.cursor = client[c].cursor
  BY SocketsAre, ViewIs DEF Complete, GoesLive
<1>2. /\ l \in Socket /\ Consolidates(b, k.mark) \in Browser
      /\ Distinct(k) => Distinct(l)
      /\ /\ SocketInv(k, b, Committed, StoredSet, LeftBehind)
         /\ LeftBehind \subseteq Committed
         => SocketInv(l, Consolidates(b, k.mark), Committed, StoredSet, LeftBehind)
  <2> HIDE DEF b, k
  <2> QED BY <1>1, Completes
<1>3. l.pc = "live"
  BY <1>1 DEF Socket, GoesLive
<1>4. client' = [client EXCEPT ![c] = [client[c] EXCEPT !.cursor = n,
                                                        !.known = @ \cup {}]]
  <2>1. client' = [client EXCEPT ![c].cursor = n]
    BY <1>1 DEF Complete
  <2>2. client[c].known \cup {} = client[c].known
    OBVIOUS
  <2> HIDE DEF n
  <2>3. [client[c] EXCEPT !.cursor = n] = [client[c] EXCEPT !.cursor = n, !.known = @ \cup {}]
    BY <1>1, <2>2 DEF ClientRecord
  <2> QED BY <2>1, <2>3 DEF Typed
<1>5. n \in 0..MaxSequence
  BY <1>2 DEF Consolidates, Browser
<1>6. /\ client' \in [Client -> ClientRecord]
      /\ d = [cursor |-> n, known |-> b.known \cup {}]
      /\ \A e \in Client \ {c} : client'[e] = client[e]
  <2> HIDE DEF n
  <2> QED BY <1>4, <1>5, ConsolidatedIs
<1>7. d = Consolidates(b, k.mark)
  <2>1. b = [cursor |-> b.cursor, known |-> b.known] /\ b.known \cup {} = b.known
    BY <1>1 DEF Browser
  <2>2. Consolidates(b, k.mark) = [b EXCEPT !.cursor = n]
    BY <1>1 DEF Consolidates, Browser
  <2> HIDE DEF b, n, d
  <2> QED BY <1>6, <2>1, <2>2
<1> HIDE DEF l, d, n, b
<1>8. /\ conn' \in [Client -> Socket] /\ conn'[c] = l
      /\ \A e \in Client \ {c} : conn'[e] = conn[e]
  BY <1>1, <1>2, StepIs
<1> QED BY <1>1, <1>2, <1>3, <1>6, <1>7, <1>8 DEF Advances, b, d

LEMMA SendLiveAdvances ==
  ASSUME Typed, NEW c \in Client, SendLive(c)
  PROVE  Advances(c)
<1> DEFINE k == conn[c]
           b == View(client[c])
           s == Head(k.queue)
           n == Max({b.cursor, s})
           l == Sends([k EXCEPT !.queue = Tail(@)], s)
           d == View(client'[c])
           e0 == [cursor |-> n, known |-> b.known \cup {s}]
<1>1. /\ k \in Socket /\ b \in Browser /\ Committed \in SUBSET Sequence
      /\ k.pc = "live" /\ k.queue # <<>> /\ Step(c, l)
      /\ client[c] \in ClientRecord /\ b.cursor = client[c].cursor
  BY SocketsAre, ViewIs DEF SendLive
<1>2. s \in Sequence
  BY <1>1, FirstOf DEF Socket
<1>3. /\ l \in Socket /\ e0 \in Browser
      /\ Distinct(k) => Distinct(l)
      /\ SocketInv(k, b, Committed, StoredSet, LeftBehind)
           => SocketInv(l, e0, Committed, StoredSet, LeftBehind)
  <2>1. l = Delivers(k) /\ e0 = Heeds(b, Head(k.queue))
    BY DEF Delivers, Heeds
  <2>2. /\ k \in Socket /\ b \in Browser /\ Committed \in SUBSET Sequence
        /\ k.pc = "live" /\ k.queue # <<>>
    BY <1>1
  <2> HIDE DEF b, k, s, n, l, d, e0
  <2>3. /\ l \in Socket /\ e0 \in Browser
        /\ Distinct(k) => Distinct(l)
    BY <2>1, <2>2, SendsLive
  <2>4. SocketInv(k, b, Committed, StoredSet, LeftBehind)
          => SocketInv(l, e0, Committed, StoredSet, LeftBehind)
    BY <2>1, <2>2, SendsLive
  <2> QED BY <2>3, <2>4
<1>4. l.pc = "live"
  BY <1>1 DEF Socket, Sends
<1>5. n \in 0..MaxSequence
  BY <1>3 DEF Browser
<1>6. client' = [client EXCEPT ![c] = [client[c] EXCEPT !.cursor = n,
                                                        !.known = @ \cup {s}]]
  <2>1. client' = [client EXCEPT ![c].cursor = n, ![c].known = @ \cup {s}]
    BY <1>1 DEF SendLive
  <2> HIDE DEF n, s
  <2> QED BY <2>1 DEF Typed
<1>7. /\ client' \in [Client -> ClientRecord] /\ d = e0
      /\ \A e \in Client \ {c} : client'[e] = client[e]
  <2>1. {s} \in SUBSET Sequence
    BY <1>2
  <2> HIDE DEF n, s
  <2> QED BY <1>5, <1>6, <2>1, ConsolidatedIs
<1> HIDE DEF l, d, e0
<1>8. /\ conn' \in [Client -> Socket] /\ conn'[c] = l
      /\ \A e \in Client \ {c} : conn'[e] = conn[e]
  BY <1>1, <1>3, StepIs
<1> QED BY <1>3, <1>4, <1>7, <1>8 DEF Advances, d

HandlerStep(c) == Register(c) \/ Handle(c) \/ Close(c) \/ Drop(c)

\* Every step of a handler, of its socket and of its browser.
LEMMA HandlersAdvance ==
  ASSUME Typed, NEW c \in Client, HandlerStep(c)
  PROVE  /\ Advances(c)
         /\ UNCHANGED <<txn, nextSeq, outbox, topic, stream, trimmed, cycle, listener>>
<1>1. Advances(c)
  BY RegisterAdvances, HelloAdvances, CheckFloorsAdvances, ReadRowsAdvances, SendRowAdvances,
     TakeBufferedAdvances, SendBufferedAdvances, CompleteAdvances, SendLiveAdvances, EndAdvances
     DEF HandlerStep, Handle
<1>2. UNCHANGED <<txn, nextSeq, outbox, topic, stream, trimmed, cycle, listener>>
  BY DEF HandlerStep, Handle, Register, Hello, CheckFloors, ReadRows, SendRow, TakeBuffered,
         SendBuffered, Complete, SendLive, Close, Drop, Resync, Step, database, redis
<1> QED BY <1>1, <1>2

-----------------------------------------------------------------------------
(* What the relay, the cleanup and the listener do. *)

LEMMA InitTyped == Init => Typed /\ \A c \in Client : Distinct(conn[c])
<1> SUFFICES ASSUME Init
             PROVE  Typed /\ \A c \in Client : Distinct(conn[c])
  OBVIOUS
<1>1. NoSocket \in Socket /\ Distinct(NoSocket)
  <2> DEFINE b == [cursor |-> 0, known |-> {}]
  <2>1. b \in Browser
    BY RealtimeAssumption DEF Browser
  <2> HIDE DEF b
  <2> QED BY <2>1, Leaves
<1>2. NoCycle \in Cycle
  BY DEF NoCycle, Cycle
<1>3. listener \in Listener /\ listener.pc = "idle" /\ InStream
  <2>0. <<>> \in Seq(Sequence) /\ 0 \in 0..MaxSequence
    BY RealtimeAssumption
  <2>1. /\ Fresh \in Listener /\ Fresh.pc = "idle" /\ Fresh.pos = -1 /\ Fresh.from = 0
        /\ ~Fresh.degraded
    BY <2>0 DEF Fresh, Listener, Dollar
  <2>2. /\ Settled \in Listener /\ Settled.pc = "idle" /\ Settled.pos = 0
        /\ Settled.from = 0 /\ ~Settled.degraded
    BY <2>0 DEF Fresh, Settled, Listener
  <2>3. Len(stream) = 0 /\ trimmed = 0 /\ listener \in {Fresh, Settled}
    BY DEF Init
  <2> QED BY <2>1, <2>2, <2>3 DEF InStream
<1>4. txn \in [Writer -> {None} \cup TxnRecord] /\ nextSeq \in 1 .. MaxSequence + 1
  BY RealtimeAssumption DEF Init
<1>5. outbox \in [Sequence -> Row] /\ topic \in [Topic -> TopicRecord]
  BY RealtimeAssumption DEF Init, Row, TopicRecord
<1>6. client \in [Client -> ClientRecord]
  BY RealtimeAssumption DEF Init, ClientRecord
<1> QED BY <1>1, <1>2, <1>3, <1>4, <1>5, <1>6 DEF Init, Typed

LEMMA HeadOfLine ==
  ASSUME Typed, Unpublished # {}
  PROVE  /\ Min(Unpublished) \in Sequence
         /\ outbox[Min(Unpublished)].status = "pending"
         /\ Min(Unpublished) \notin cycle.marked
         /\ \A m \in Unpublished : Min(Unpublished) <= m
<1>1. Unpublished \subseteq Nat
  BY DEF Unpublished, Sequence
<1>2. Min(Unpublished) \in Unpublished /\ \A m \in Unpublished : Min(Unpublished) <= m
  BY <1>1, MinOf
<1> QED BY <1>2 DEF Unpublished

LEMMA FloorIs ==
  ASSUME Typed, NEW t \in Topic, NEW gone, gone \subseteq Sequence
  PROVE  /\ Floor(t, gone) \in 0..MaxSequence
         /\ topic[t].floor <= Floor(t, gone)
         /\ \A s \in gone : outbox[s].topic = t => s <= Floor(t, gone)
<1> DEFINE F == {topic[t].floor} \cup {s \in gone : outbox[s].topic = t}
<1>1. F \subseteq 0..MaxSequence /\ F # {} /\ MaxSequence \in Nat
  <2>1. topic[t] \in TopicRecord /\ MaxSequence \in Nat
    BY RealtimeAssumption DEF Typed
  <2>2. topic[t].floor \in 0..MaxSequence
    BY <2>1 DEF TopicRecord
  <2>3. \A s \in gone : s \in 0..MaxSequence
    BY <2>1 DEF Sequence
  <2> QED BY <2>1, <2>2, <2>3
<1>2. Max(F) \in F /\ \A y \in F : y <= Max(F)
  BY <1>1, MaxOf
<1>3. Floor(t, gone) = Max(F)
  BY DEF Floor
<1> QED BY <1>1, <1>2, <1>3

LEMMA ClosesAll ==
  ASSUME Typed, conn' = Disconnected(conn)
  PROVE  /\ conn' \in [Client -> Socket]
         /\ \A c \in Client :
              /\ Distinct(conn[c]) => Distinct(conn'[c])
              /\ conn'[c].pc = conn[c].pc
              /\ \A D : SocketInv(conn[c], View(client[c]), Committed, StoredSet, LeftBehind)
                          => SocketInv(conn'[c], View(client[c]), Committed, StoredSet, D)
<1>1. ASSUME NEW c \in Client, NEW D
      PROVE  /\ conn'[c] \in Socket
             /\ Distinct(conn[c]) => Distinct(conn'[c])
             /\ conn'[c].pc = conn[c].pc
             /\ SocketInv(conn[c], View(client[c]), Committed, StoredSet, LeftBehind)
                  => SocketInv(conn'[c], View(client[c]), Committed, StoredSet, D)
  <2> DEFINE k == conn[c]
             l == conn'[c]
             b == View(client[c])
  <2>1. k \in Socket /\ b \in Browser
    BY SocketsAre
  <2>2. l = Closed(k)
    BY DEF Disconnected, Closed
  <2> HIDE DEF k, l, b
  <2>3. /\ l \in Socket
        /\ Distinct(k) => Distinct(l)
        /\ l.pc = k.pc
        /\ SocketInv(k, b, Committed, StoredSet, LeftBehind)
             => SocketInv(l, b, Committed, StoredSet, D)
    BY <2>1, <2>2, IsDisconnected
  <2> QED BY <2>3 DEF k, l, b
<1>2. DOMAIN conn' = Client /\ conn' = [c \in Client |-> conn'[c]]
  BY DEF Disconnected
<1> QED BY <1>1, <1>2

LEMMA OffersAll ==
  ASSUME Typed, NEW s \in Sequence, conn' = [c \in Client |-> Offer(conn[c], s)]
  PROVE  /\ conn' \in [Client -> Socket]
         /\ \A c \in Client :
              /\ Distinct(conn[c]) => Distinct(conn'[c])
              /\ conn'[c].pc = conn[c].pc
              /\ \A D :
                   /\ SocketInv(conn[c], View(client[c]), Committed, StoredSet, LeftBehind)
                   /\ s \in Committed /\ \A m \in Committed : m < s => m \in LeftBehind
                   /\ D \subseteq {m \in Committed : m <= s}
                   => SocketInv(conn'[c], View(client[c]), Committed, StoredSet, D)
<1>1. ASSUME NEW c \in Client, NEW D
      PROVE  /\ conn'[c] \in Socket
             /\ Distinct(conn[c]) => Distinct(conn'[c])
             /\ conn'[c].pc = conn[c].pc
             /\ /\ SocketInv(conn[c], View(client[c]), Committed, StoredSet, LeftBehind)
                /\ s \in Committed /\ \A m \in Committed : m < s => m \in LeftBehind
                /\ D \subseteq {m \in Committed : m <= s}
                => SocketInv(conn'[c], View(client[c]), Committed, StoredSet, D)
  <2>1. /\ conn[c] \in Socket /\ View(client[c]) \in Browser /\ Committed \in SUBSET Sequence
        /\ conn'[c] = Offer(conn[c], s)
    BY SocketsAre
  <2> DEFINE k == conn[c]
             b == View(client[c])
             l == conn'[c]
  <2>2. k \in Socket /\ b \in Browser /\ l = Offer(k, s)
    BY <2>1
  <2> HIDE DEF k, b, l
  <2>3. /\ l \in Socket
        /\ Distinct(k) => Distinct(l)
        /\ l.pc = k.pc
        /\ /\ SocketInv(k, b, Committed, StoredSet, LeftBehind) /\ s \in Committed
           /\ \A m \in Committed : m < s => m \in LeftBehind
           /\ D \subseteq {m \in Committed : m <= s}
           => SocketInv(l, b, Committed, StoredSet, D)
    BY <2>1, <2>2, IsOffered
  <2> QED BY <2>3 DEF k, b, l
<1>2. DOMAIN conn' = Client /\ conn' = [c \in Client |-> conn'[c]]
  OBVIOUS
<1> QED BY <1>1, <1>2

LEMMA EntryIsDone ==
  ASSUME Typed, listener.pc = "batch", NEW s \in 0..MaxSequence, listener' = AfterEntry(s)
  PROVE  /\ listener' \in Listener
         /\ listener'.pc = "batch" <=> listener'.batch # <<>>
         /\ listener'.batch = Tail(listener.batch) /\ listener'.last = s
         /\ listener'.pos = listener.pos /\ ~listener'.checked /\ listener'.from = listener.from
         /\ listener'.degraded = listener.degraded
<1>1. listener \in Listener /\ listener.batch \in Seq(Sequence) /\ listener.batch # <<>>
  BY DEF Typed, Listener
<1>2. /\ Len(listener.batch) \in Nat \ {0} /\ Tail(listener.batch) \in Seq(Sequence)
      /\ Len(Tail(listener.batch)) = Len(listener.batch) - 1
  BY <1>1, FirstOf
<1> DEFINE q == Tail(listener.batch)
           p == IF Len(listener.batch) = 1 THEN "idle" ELSE "batch"
<1>3. q \in Seq(Sequence) /\ p \in {"idle", "batch"} /\ (p = "batch" <=> q # <<>>)
  <2>1. q \in Seq(Sequence) /\ (Len(q) = 0 <=> Len(listener.batch) = 1)
    BY <1>2
  <2> HIDE DEF q
  <2>2. q = <<>> <=> Len(q) = 0
    BY <2>1
  <2> QED BY <2>1, <2>2
<1>4. listener' = [listener EXCEPT !.batch = q, !.checked = FALSE, !.last = s, !.pc = p]
  BY DEF AfterEntry
<1> HIDE DEF q, p
<1>5. /\ listener' \in Listener /\ listener'.pc = p /\ listener'.batch = q
      /\ listener'.last = s /\ listener'.pos = listener.pos /\ ~listener'.checked
      /\ listener'.from = listener.from /\ listener'.degraded = listener.degraded
  <2>1. /\ listener.pos \in Nat \cup {Dollar} /\ listener.from \in Nat
        /\ listener.degraded \in BOOLEAN /\ s \in 0..MaxSequence \cup {None}
    BY <1>1 DEF Listener
  <2>2. listener' = [pc |-> p, pos |-> listener.pos, from |-> listener.from, batch |-> q,
                     last |-> s, checked |-> FALSE, degraded |-> listener.degraded]
    BY <1>1, <1>4 DEF Listener
  <2> QED BY <1>3, <2>1, <2>2 DEF Listener
<1> QED BY <1>3, <1>5 DEF q

LEMMA ReadIsDone ==
  ASSUME Typed, ReadReturn
  PROVE  /\ listener' \in Listener
         /\ listener'.pc = "batch" <=> listener'.batch # <<>>
         /\ listener'.last = listener.last /\ listener'.checked = listener.checked
         /\ listener'.from = Len(stream) /\ ~listener'.degraded
         /\ \E first \in Nat :
              /\ first = (IF listener.from >= trimmed THEN listener.from ELSE trimmed) + 1
              /\ listener'.batch = SubSeq(stream, first, Len(stream))
              /\ listener'.pos =
                   IF listener'.batch = <<>> THEN listener.pos ELSE Len(stream)
<1> DEFINE first == Max({listener.from, trimmed}) + 1
           q == SubSeq(stream, first, Len(stream))
           p == IF q = <<>> THEN "idle" ELSE "batch"
           n == IF q = <<>> THEN listener.pos ELSE Len(stream)
<1>1. /\ listener \in Listener /\ listener.from \in Nat /\ trimmed \in Nat
      /\ stream \in Seq(Sequence) /\ Len(stream) \in Nat
  BY DEF Typed, Listener
<1>2. Max({listener.from, trimmed}) =
        IF listener.from >= trimmed THEN listener.from ELSE trimmed
  BY <1>1, LargerOf
<1>3. first \in Nat \ {0}
  BY <1>1, <1>2
<1>4. /\ q \in Seq(Sequence) /\ p \in {"idle", "batch"} /\ (p = "batch" <=> q # <<>>)
      /\ n \in Nat \cup {Dollar}
  <2>1. q \in Seq(Sequence)
    <3> HIDE DEF first
    <3>1. /\ stream \in Seq(Sequence) /\ first \in Nat \ {0}
          /\ q = SubSeq(stream, first, Len(stream))
      BY <1>1, <1>3
    <3> QED BY <3>1
  <2>2. listener.pos \in Nat \cup {Dollar}
    BY <1>1 DEF Listener
  <2> QED BY <1>1, <2>1, <2>2
<1>5. listener' = [listener EXCEPT !.pc = p, !.batch = q, !.from = Len(stream), !.pos = n,
                                   !.degraded = FALSE]
  BY DEF ReadReturn
<1> HIDE DEF p, q, n, first
<1>6. /\ listener' \in Listener /\ listener'.pc = p /\ listener'.batch = q
      /\ listener'.last = listener.last /\ listener'.checked = listener.checked
      /\ listener'.pos = n /\ listener'.from = Len(stream) /\ ~listener'.degraded
  BY <1>1, <1>4, <1>5 DEF Listener
<1> QED BY <1>2, <1>3, <1>4, <1>6 DEF q, n, first

LEMMA OthersOfListener ==
  ASSUME Typed
  PROVE  /\ ReadStart =>
              /\ listener' \in Listener /\ listener'.pc = "blocked"
              /\ listener'.batch = listener.batch /\ listener'.last = listener.last
              /\ listener'.pos = listener.pos /\ listener'.checked = listener.checked
              /\ listener'.from =
                   IF listener.pos = Dollar THEN Len(stream) ELSE listener.pos
              /\ listener'.degraded = listener.degraded
         /\ ListenerFails =>
              /\ listener' \in Listener /\ listener'.pc = "idle"
              /\ listener'.batch = <<>> /\ listener'.last = None
              /\ listener'.pos = listener.pos /\ ~listener'.checked
              /\ listener'.from = listener.from /\ listener'.degraded
         /\ CheckGap =>
              /\ listener' \in Listener /\ listener'.pc = listener.pc
              /\ listener'.batch = listener.batch /\ listener'.last = listener.last
              /\ listener'.pos = listener.pos /\ listener'.checked
              /\ listener'.from = listener.from /\ listener'.degraded = listener.degraded
<1>1. listener \in Listener /\ Len(stream) \in Nat /\ <<>> \in Seq(Sequence)
  BY DEF Typed
<1>2. ASSUME ReadStart
      PROVE  /\ listener' \in Listener /\ listener'.pc = "blocked"
             /\ listener'.batch = listener.batch /\ listener'.last = listener.last
             /\ listener'.pos = listener.pos /\ listener'.checked = listener.checked
             /\ listener'.from =
                  IF listener.pos = Dollar THEN Len(stream) ELSE listener.pos
             /\ listener'.degraded = listener.degraded
  <2> DEFINE f == IF listener.pos = Dollar THEN Len(stream) ELSE listener.pos
  <2>1. f \in Nat /\ listener' = [listener EXCEPT !.pc = "blocked", !.from = f]
    BY <1>1, <1>2 DEF ReadStart, Listener
  <2> HIDE DEF f
  <2>2. /\ listener' \in Listener /\ listener'.pc = "blocked" /\ listener'.from = f
        /\ listener'.batch = listener.batch /\ listener'.last = listener.last
        /\ listener'.pos = listener.pos /\ listener'.checked = listener.checked
        /\ listener'.degraded = listener.degraded
    BY <1>1, <2>1 DEF Listener
  <2> QED BY <2>2 DEF f
<1>3. ASSUME ListenerFails
      PROVE  /\ listener' \in Listener /\ listener'.pc = "idle"
             /\ listener'.batch = <<>> /\ listener'.last = None
             /\ listener'.pos = listener.pos /\ ~listener'.checked
             /\ listener'.from = listener.from /\ listener'.degraded
  BY <1>1, <1>3 DEF ListenerFails, Listener
<1>4. ASSUME CheckGap
      PROVE  /\ listener' \in Listener /\ listener'.pc = listener.pc
             /\ listener'.batch = listener.batch /\ listener'.last = listener.last
             /\ listener'.pos = listener.pos /\ listener'.checked
             /\ listener'.from = listener.from /\ listener'.degraded = listener.degraded
  BY <1>1, <1>4 DEF CheckGap, Listener
<1> QED BY <1>2, <1>3, <1>4

\* The views of the browsers when the listener goes past entries.
LEMMA OverlookIs ==
  ASSUME Typed, NEW q, q \in Seq(Sequence), Overlook(q)
  PROVE  /\ client' \in [Client -> ClientRecord]
         /\ \A c \in Client :
              /\ View(client'[c]) \in Browser
              /\ View(client'[c]).cursor = View(client[c]).cursor
              /\ View(client[c]).known \subseteq View(client'[c]).known
              /\ conn[c].registered => Range(q) \subseteq View(client'[c]).known
<1> DEFINE X == Range(q)
<1>1. X \in SUBSET Sequence
  BY DEF Range
<1>2. ASSUME NEW c \in Client
      PROVE  /\ client'[c] \in ClientRecord
             /\ View(client'[c]) \in Browser
             /\ View(client'[c]).cursor = View(client[c]).cursor
             /\ View(client[c]).known \subseteq View(client'[c]).known
             /\ conn[c].registered => X \subseteq View(client'[c]).known
  <2> DEFINE b == client[c]
             n == b.overlooked \cup X
             d == [b EXCEPT !.overlooked = n]
  <2>1. b \in ClientRecord /\ client'[c] = IF conn[c].registered THEN d ELSE b
    BY SocketsAre DEF Overlook
  <2> HIDE DEF b, X
  <2>2. n \in SUBSET Sequence
    BY <1>1, <2>1 DEF ClientRecord
  <2> HIDE DEF n
  <2>3. /\ d \in ClientRecord /\ d.cursor = b.cursor
        /\ d.known = b.known /\ d.overlooked = n
    BY <2>1, <2>2 DEF ClientRecord
  <2> HIDE DEF d
  <2>4. CASE conn[c].registered
    BY <2>1, <2>3, <2>4, ViewIs DEF n, b
  <2>5. CASE ~conn[c].registered
    BY <2>1, <2>5, ViewIs DEF b
  <2> QED BY <2>4, <2>5
<1> HIDE DEF X
<1>3. client' = [c \in Client |-> client'[c]]
  BY DEF Overlook
<1> QED BY <1>2, <1>3 DEF X

-----------------------------------------------------------------------------
(* Typed and Distinct are inductive. *)

\* Which steps move the relay and its stream.
LEMMA StreamMoves ==
  ASSUME [Next]_vars
  PROVE  \/ UNCHANGED <<stream, trimmed, cycle>>
         \/ UNCHANGED <<stream, trimmed, outbox, listener>> /\ cycle'.marked = {}
         \/ Publish
         \/ /\ EndCycle /\ UNCHANGED listener
            /\ \/ Add(Min(Unpublished)) /\ Unpublished # {}
               \/ UNCHANGED <<stream, trimmed>>
<1>1. \A w \in Writer : Record(w) \/ Commit(w) \/ Rollback(w)
                          => UNCHANGED <<stream, trimmed, cycle>>
  BY DEF Record, Commit, Rollback, redis
<1>2. NoCycle.marked = {} /\ [NoCycle EXCEPT !.open = TRUE].marked = {}
  BY DEF NoCycle
<1>3. Lead \/ RelayDies => UNCHANGED <<stream, trimmed, outbox, listener>> /\ cycle'.marked = {}
  BY <1>2 DEF Lead, RelayDies, redis, database
<1>4. RelayCommit \/ PublishFails =>
         /\ EndCycle /\ UNCHANGED listener
         /\ \/ Add(Min(Unpublished)) /\ Unpublished # {}
            \/ UNCHANGED <<stream, trimmed>>
  BY DEF RelayCommit, PublishFails, redis
<1>5. Cleanup \/ Listen \/ ListenerFails => UNCHANGED <<stream, trimmed, cycle>>
  BY DEF Cleanup, Listen, ReadStart, ReadReturn, SkipEntry, CheckGap, Broadcast,
         ListenerFails, redis
<1>6. \A c \in Client : \A l : Step(c, l) => UNCHANGED <<stream, trimmed, cycle>>
  BY DEF Step, redis
<1>7. \A c \in Client : Resync(c) => UNCHANGED <<stream, trimmed, cycle>>
  BY <1>6 DEF Resync
<1>8. \A c \in Client : HandlerStep(c) => UNCHANGED <<stream, trimmed, cycle>>
  BY <1>6, <1>7 DEF HandlerStep, Handle, Register, Hello, CheckFloors, ReadRows, SendRow,
       TakeBuffered, SendBuffered, Complete, SendLive, Close, Drop, redis
<1>9. UNCHANGED vars => UNCHANGED <<stream, trimmed, cycle>>
  BY DEF vars, redis
<1> QED BY <1>1, <1>3, <1>4, <1>5, <1>8, <1>9 DEF Next, Relay, HandlerStep

\* The listener has no place beyond the end of the stream, nor has MAXLEN.
LEMMA InStreamStep ==
  ASSUME Typed, [Next]_vars
  PROVE  InStream'
<1>1. /\ Len(stream) \in Nat /\ listener \in Listener /\ trimmed \in Nat
      /\ stream \in Seq(Sequence) /\ InStream
  BY DEF Typed
<1>2. trimmed' <= Len(stream') /\ Len(stream) <= Len(stream') /\ Len(stream') \in Nat
  <2>1. CASE UNCHANGED <<stream, trimmed>>
    BY <1>1, <2>1 DEF InStream
  <2>2. ASSUME Add(Min(Unpublished)), Unpublished # {}
        PROVE  trimmed' <= Len(stream') /\ Len(stream) <= Len(stream') /\ Len(stream') \in Nat
    <3>1. stream' = Append(stream, Min(Unpublished)) /\ trimmed' \in trimmed..Len(stream)
      BY <2>2 DEF Add
    <3>2. Min(Unpublished) \in Sequence
      BY <2>2, HeadOfLine
    <3>3. Len(stream') = Len(stream) + 1
      BY <1>1, <3>1, <3>2, LastOf
    <3> QED BY <1>1, <3>1, <3>3
  <2>3. Publish => Add(Min(Unpublished)) /\ Unpublished # {}
    BY DEF Publish
  <2> QED BY <2>1, <2>2, <2>3, StreamMoves
<1>3. /\ listener'.pos = listener.pos \/ listener'.pos = Len(stream)
      /\ \/ listener'.from = listener.from \/ listener'.from = Len(stream)
         \/ listener'.from = listener.pos
  <2>1. CASE ReadReturn
    BY <2>1, ReadIsDone
  <2>2. CASE ReadStart \/ ListenerFails \/ CheckGap
    BY <2>2, OthersOfListener
  <2>3. CASE SkipEntry \/ Broadcast
    <3>1. \A s : AfterEntry(s).pos = listener.pos /\ AfterEntry(s).from = listener.from
      BY <1>1 DEF AfterEntry, Listener
    <3> QED BY <2>3, <3>1 DEF SkipEntry, Broadcast
  <2>4. CASE UNCHANGED listener
    BY <2>4
  <2>5. Listen \/ ListenerFails \/ UNCHANGED listener
    <3>1. \A c \in Client : HandlerStep(c) => UNCHANGED listener
      BY HandlersAdvance
    <3>2. Relay \/ PublishFails \/ RelayDies \/ Cleanup => UNCHANGED listener
      BY DEF Relay, Lead, Publish, RelayCommit, PublishFails, RelayDies, Cleanup
    <3>3. \A w \in Writer : Record(w) \/ Commit(w) \/ Rollback(w) => UNCHANGED listener
      BY DEF Record, Commit, Rollback
    <3> QED BY <3>1, <3>2, <3>3 DEF Next, HandlerStep, vars
  <2> QED BY <2>1, <2>2, <2>3, <2>4, <2>5 DEF Listen
<1>4. listener.pos \in Int /\ listener.from \in Int
  BY <1>1 DEF Listener, Dollar
<1> QED BY <1>1, <1>2, <1>3, <1>4 DEF InStream

\* What the listener overlooks are entries of the stream.
LEMMA PartOfStream ==
  ASSUME Typed, NEW m \in Nat \ {0}, NEW n \in Nat, n <= Len(stream)
  PROVE  /\ SubSeq(stream, m, n) \in Seq(Sequence)
         /\ \A j \in m..n : stream[j] \in Range(SubSeq(stream, m, n))
<1> DEFINE q == SubSeq(stream, m, n)
           k == IF m <= n THEN n - m + 1 ELSE 0
<1>1. stream \in Seq(Sequence) /\ Len(stream) \in Nat
  BY DEF Typed
<1>2. k \in Nat
  OBVIOUS
<1>3. /\ q \in Seq(Sequence) /\ Len(q) = k
      /\ \A i \in 1..k : q[i] = stream[m + i - 1]
  BY <1>1
<1>4. ASSUME NEW j \in m..n
      PROVE  stream[j] \in Range(q)
  <2>1. k = n - m + 1 /\ j - m + 1 \in 1..k /\ m + (j - m + 1) - 1 = j
    BY <1>1
  <2> HIDE DEF q, k
  <2>2. q[j - m + 1] = stream[j] /\ DOMAIN q = 1..k
    BY <1>2, <1>3, <2>1
  <2> QED BY <2>1, <2>2 DEF Range
<1> QED BY <1>3, <1>4

\* The part of the stream up to the first entry that is still there.
LEMMA BeforeFirst ==
  ASSUME Typed
  PROVE  /\ Max({listener.from, trimmed}) \in Nat
         /\ listener.from <= Max({listener.from, trimmed})
         /\ Max({listener.from, trimmed}) <= Len(stream)
<1> DEFINE F == {listener.from, trimmed}
<1>1. /\ listener.from \in Nat /\ trimmed \in Nat /\ Len(stream) \in Nat
      /\ listener.from <= Len(stream) /\ trimmed <= Len(stream)
  BY DEF Typed, InStream, Listener
<1>2. F \subseteq 0..Len(stream) /\ F # {}
  BY <1>1
<1>3. Max(F) \in F /\ \A y \in F : y <= Max(F)
  BY <1>1, <1>2, MaxOf
<1>4. Max(F) \in 0..Len(stream) /\ listener.from <= Max(F)
  BY <1>2, <1>3
<1> HIDE DEF F
<1>5. Max(F) \in Nat /\ Max(F) <= Len(stream)
  BY <1>1, <1>4
<1> QED BY <1>4, <1>5 DEF F

\* Each step of the listener overlooks a part of the stream, if anything.
LEMMA ListenerOverlooks ==
  ASSUME Typed, Listen \/ ListenerFails
  PROVE  UNCHANGED client \/ \E q \in Seq(Sequence) : Overlook(q)
<1>1. <<>> \in Seq(Sequence)
  OBVIOUS
<1>2. ASSUME ReadStart
      PROVE  \E q \in Seq(Sequence) : Overlook(q)
  <2> DEFINE q == IF listener.pos = Dollar /\ ~listener.degraded
                    THEN SubSeq(stream, listener.from + 1, Len(stream)) ELSE <<>>
  <2>1. listener.from + 1 \in Nat \ {0} /\ Len(stream) \in Nat
    BY DEF Typed, Listener
  <2>2. SubSeq(stream, listener.from + 1, Len(stream)) \in Seq(Sequence)
    BY <2>1, PartOfStream
  <2>3. q \in Seq(Sequence) /\ Overlook(q)
    BY <1>1, <1>2, <2>2 DEF ReadStart
  <2> QED BY <2>3
<1>3. ASSUME ReadReturn
      PROVE  \E q \in Seq(Sequence) : Overlook(q)
  <2> DEFINE n == Max({listener.from, trimmed})
             q == IF listener.last = None /\ ~listener.degraded
                    THEN SubSeq(stream, listener.from + 1, (n + 1) - 1) ELSE <<>>
  <2>1. Overlook(q)
    BY <1>3 DEF ReadReturn
  <2>2. listener.from + 1 \in Nat \ {0} /\ n \in Nat /\ n <= Len(stream)
    BY BeforeFirst DEF Typed, Listener
  <2> HIDE DEF n
  <2>3. (n + 1) - 1 = n
    BY <2>2
  <2>4. SubSeq(stream, listener.from + 1, (n + 1) - 1) \in Seq(Sequence)
    BY <2>2, <2>3, PartOfStream
  <2>5. q \in Seq(Sequence)
    BY <1>1, <2>4
  <2> QED BY <2>1, <2>5
<1> QED BY <1>2, <1>3 DEF Listen, SkipEntry, CheckGap, Broadcast, ListenerFails

\* What every step keeps of a socket.
SocketsMoveOn ==
  \A c \in Client :
    /\ Distinct(conn[c]) => Distinct(conn'[c])
    /\ conn'[c].pc = "read" => conn[c].pc = "read" \/ ~TopicsTaken

LEMMA TypedStep ==
  ASSUME Typed, [Next]_vars
  PROVE  Typed' /\ SocketsMoveOn
<1>0. InStream'
  BY InStreamStep
<1>1. ASSUME NEW w \in Writer, Record(w) \/ Commit(w) \/ Rollback(w)
      PROVE  Typed' /\ SocketsMoveOn
  <2>1. /\ nextSeq' \in 1 .. MaxSequence + 1 /\ faults' \in Nat
        /\ UNCHANGED <<stream, trimmed, cycle, listener, conn, client>>
    BY <1>1, RealtimeAssumption DEF Typed, Record, Commit, Rollback, Fault, redis
  <2>2. txn' \in [Writer -> {None} \cup TxnRecord]
    <3>1. CASE Record(w)
      <4>1. nextSeq \in Sequence
        BY <3>1, RealtimeAssumption DEF Record, Typed, Sequence
      <4>2. PICK t \in Topic : txn' = [txn EXCEPT ![w] = [topic |-> t, seq |-> nextSeq]]
        BY <3>1 DEF Record
      <4>3. [topic |-> t, seq |-> nextSeq] \in TxnRecord
        BY <4>1 DEF TxnRecord
      <4> QED BY <4>2, <4>3 DEF Typed
    <3>2. CASE Commit(w) \/ Rollback(w)
      BY <3>2 DEF Typed, Commit, Rollback
    <3> QED BY <1>1, <3>1, <3>2
  <2>3. outbox' \in [Sequence -> Row] /\ topic' \in [Topic -> TopicRecord]
    <3>1. CASE ~Commit(w)
      BY <1>1, <3>1 DEF Typed, Record, Rollback
    <3>2. CASE Commit(w)
      <4> DEFINE r == [topic |-> txn[w].topic, status |-> "pending"]
      <4>1. txn[w] \in TxnRecord
        BY <3>2 DEF Typed, Commit, Idle
      <4>2. txn[w].seq \in Sequence /\ txn[w].topic \in Topic
        BY <4>1 DEF TxnRecord
      <4>3. r \in Row /\ txn[w].seq \in 0..MaxSequence
        BY <4>2, RealtimeAssumption DEF Row, Sequence
      <4>4. outbox' = [outbox EXCEPT ![txn[w].seq] = r]
        BY <3>2 DEF Commit
      <4> HIDE DEF r
      <4>5. outbox' \in [Sequence -> Row]
        BY <4>2, <4>3, <4>4 DEF Typed
      <4>6. topic' = [topic EXCEPT ![txn[w].topic].latest = txn[w].seq]
        BY <3>2 DEF Commit
      <4>7. topic' \in [Topic -> TopicRecord]
        BY <4>2, <4>3, <4>6 DEF Typed, TopicRecord
      <4> QED BY <4>5, <4>7
    <3> QED BY <3>1, <3>2
  <2> QED BY <1>0, <2>1, <2>2, <2>3 DEF Typed, SocketsMoveOn
<1>2. ASSUME Lead \/ Publish \/ RelayCommit \/ PublishFails \/ RelayDies
      PROVE  Typed' /\ SocketsMoveOn
  <2>1. /\ UNCHANGED <<txn, nextSeq, topic, listener, conn, client>> /\ faults' \in Nat
    BY <1>2 DEF Typed, Lead, Publish, RelayCommit, PublishFails, RelayDies, Fault, database
  <2>2. NoCycle \in Cycle /\ [NoCycle EXCEPT !.open = TRUE] \in Cycle
    BY DEF NoCycle, Cycle
  <2>3. Publish \/ PublishFails => Min(Unpublished) \in Sequence
    BY HeadOfLine DEF Publish, PublishFails
  <2>4. cycle' \in Cycle
    <3>1. CASE Publish
      <4> DEFINE e == cycle.marked \cup {Min(Unpublished)}
      <4>1. e \in SUBSET Sequence /\ cycle.claims + 1 \in Nat
        BY <2>3, <3>1 DEF Typed, Cycle
      <4>2. cycle' = [cycle EXCEPT !.marked = e, !.claims = cycle.claims + 1]
        BY <3>1 DEF Publish, Typed, Cycle
      <4> HIDE DEF e
      <4> QED BY <4>1, <4>2 DEF Typed, Cycle
    <3> QED BY <1>2, <2>2, <3>1 DEF Lead, RelayCommit, PublishFails, RelayDies, EndCycle
  <2>5. outbox' \in [Sequence -> Row]
    <3>1. CASE EndCycle
      <4>1. ASSUME NEW s \in Sequence
            PROVE  [outbox[s] EXCEPT !.status = "published"] \in Row
        BY DEF Typed, Row
      <4> QED BY <3>1, <4>1 DEF EndCycle, Typed
    <3> QED BY <1>2, <3>1 DEF Lead, Publish, RelayCommit, PublishFails, RelayDies, database, Typed
  <2>6. stream' \in Seq(Sequence) /\ trimmed' \in Nat
    <3>1. ASSUME Add(Min(Unpublished)), Min(Unpublished) \in Sequence
          PROVE  stream' \in Seq(Sequence) /\ trimmed' \in Nat
      <4>1. stream' = Append(stream, Min(Unpublished)) /\ trimmed' \in trimmed..Len(stream)
        BY <3>1 DEF Add
      <4> QED BY <3>1, <4>1 DEF Typed
    <3> QED BY <1>2, <2>3, <3>1
            DEF Lead, Publish, RelayCommit, PublishFails, RelayDies, redis, Typed
  <2> QED BY <1>0, <2>1, <2>4, <2>5, <2>6 DEF Typed, SocketsMoveOn
<1>3. ASSUME Cleanup
      PROVE  Typed' /\ SocketsMoveOn
  <2>1. PICK cutoff \in Sequence :
          /\ outbox' = [s \in Sequence |->
                          IF s \in Expired(cutoff) THEN [outbox[s] EXCEPT !.status = "deleted"]
                                                   ELSE outbox[s]]
          /\ topic' = [t \in Topic |-> [topic[t] EXCEPT !.floor = Floor(t, Expired(cutoff))]]
    BY <1>3 DEF Cleanup
  <2>2. ASSUME NEW s \in Sequence
        PROVE  [outbox[s] EXCEPT !.status = "deleted"] \in Row
    BY DEF Typed, Row
  <2>3. outbox' \in [Sequence -> Row]
    BY <2>1, <2>2 DEF Typed
  <2>4. ASSUME NEW t \in Topic
        PROVE  [topic[t] EXCEPT !.floor = Floor(t, Expired(cutoff))] \in TopicRecord
    <3> DEFINE n == Floor(t, Expired(cutoff))
    <3>1. n \in 0..MaxSequence
      BY FloorIs DEF Expired
    <3> HIDE DEF n
    <3>2. [topic[t] EXCEPT !.floor = n] \in TopicRecord
      BY <3>1 DEF Typed, TopicRecord
    <3> QED BY <3>2 DEF n
  <2>5. topic' \in [Topic -> TopicRecord]
    BY <2>1, <2>4
  <2> QED BY <1>0, <1>3, <2>3, <2>5 DEF Cleanup, Typed, SocketsMoveOn, redis
<1>4. ASSUME Listen \/ ListenerFails
      PROVE  Typed' /\ SocketsMoveOn
  <2>1. UNCHANGED <<txn, nextSeq, outbox, topic, stream, trimmed, cycle>>
    BY <1>4 DEF Listen, ReadStart, ReadReturn, SkipEntry, CheckGap, Broadcast, ListenerFails,
                database, redis
  <2>6. client' \in [Client -> ClientRecord]
    BY <1>4, ListenerOverlooks, OverlookIs DEF Typed
  <2>2. faults' \in Nat
    BY <1>4 DEF Listen, ReadStart, ReadReturn, SkipEntry, CheckGap, Broadcast, ListenerFails,
                Fault, Typed
  <2>3. ASSUME listener.pc = "batch"
        PROVE  listener.batch # <<>> /\ Head(listener.batch) \in Sequence
    <3>1. listener.batch \in Seq(Sequence) /\ listener.batch # <<>>
      BY <2>3 DEF Typed, Listener
    <3> QED BY <3>1, FirstOf
  <2>4. listener' \in Listener /\ (listener'.pc = "batch" => listener'.batch # <<>>)
    <3>1. CASE SkipEntry
      <4>1. listener.last \in 0..MaxSequence
        BY <3>1 DEF SkipEntry, Repeated, Typed, Listener
      <4> QED BY <3>1, <4>1, EntryIsDone DEF SkipEntry
    <3>2. CASE Broadcast
      <4> DEFINE s == Head(listener.batch)
      <4>1. s \in 0..MaxSequence /\ listener' = AfterEntry(s) /\ listener.pc = "batch"
        BY <2>3, <3>2 DEF Broadcast, Sequence
      <4> HIDE DEF s
      <4> QED BY <4>1, EntryIsDone
    <3>3. CASE ReadReturn
      BY <3>3, ReadIsDone
    <3>4. CASE ReadStart \/ ListenerFails \/ CheckGap
      BY <2>3, <3>4, OthersOfListener DEF CheckGap
    <3> QED BY <1>4, <3>1, <3>2, <3>3, <3>4 DEF Listen
  <2>5. conn' \in [Client -> Socket] /\ SocketsMoveOn
    <3>1. CASE conn' = conn
      BY <3>1 DEF Typed, SocketsMoveOn
    <3>2. CASE conn' = Disconnected(conn)
      BY <3>2, ClosesAll DEF SocketsMoveOn
    <3>3. CASE Broadcast
      <4> DEFINE s == Head(listener.batch)
      <4>1. s \in Sequence /\ conn' = [c \in Client |-> Offer(conn[c], s)]
        BY <2>3, <3>3 DEF Broadcast
      <4> HIDE DEF s
      <4> QED BY <4>1, OffersAll DEF SocketsMoveOn
    <3> QED BY <1>4, <3>1, <3>2, <3>3
            DEF Listen, ReadStart, ReadReturn, SkipEntry, CheckGap, ListenerFails
  <2> QED BY <1>0, <2>1, <2>2, <2>4, <2>5, <2>6 DEF Typed
<1>5. ASSUME NEW c \in Client, HandlerStep(c)
      PROVE  Typed' /\ SocketsMoveOn
  <2>1. /\ Advances(c)
        /\ UNCHANGED <<txn, nextSeq, outbox, topic, stream, trimmed, cycle, listener>>
    BY <1>5, HandlersAdvance
  <2>2. faults' \in Nat
    <3>1. \A l : Step(c, l) => faults' = faults
      BY DEF Step
    <3>2. Resync(c) => faults' = faults
      BY <3>1 DEF Resync
    <3>3. Drop(c) => faults' = faults + 1
      BY DEF Drop, Fault
    <3>4. Handle(c) \/ Register(c) \/ Close(c) => faults' = faults
      BY <3>1, <3>2 DEF Handle, Register, Hello, CheckFloors, ReadRows, SendRow, TakeBuffered,
                        SendBuffered, Complete, SendLive, Close
    <3> QED BY <1>5, <3>3, <3>4 DEF HandlerStep, Typed
  <2> QED BY <1>0, <2>1, <2>2 DEF Typed, SocketsMoveOn, Advances
<1>6. CASE UNCHANGED vars
  BY <1>0, <1>6 DEF vars, database, redis, Typed, SocketsMoveOn
<1> QED BY <1>1, <1>2, <1>3, <1>4, <1>5, <1>6 DEF Next, Relay, HandlerStep

\* A socket is sent no event twice: the listener, the replay and the queue of a
\* socket share what it has seen.
THEOREM SentOnce == Spec => []OncePerSocket
<1> DEFINE I == Typed /\ \A c \in Client : Distinct(conn[c])
<1>1. Init => I
  BY InitTyped
<1>2. I /\ [Next]_vars => I'
  BY TypedStep DEF SocketsMoveOn
<1>3. I => OncePerSocket
  BY DEF OncePerSocket, Distinct
<1> QED BY <1>1, <1>2, <1>3, PTL DEF Spec

-----------------------------------------------------------------------------
(* Events become visible in the order of their sequences. *)

LEMMA InitOrder == Init => Order
<1> SUFFICES ASSUME Init
             PROVE  Order
  OBVIOUS
<1>1. Committed = {}
  BY DEF Init, Committed
<1>2. cycle.marked = {} /\ \A w \in Writer : Idle(w)
  BY DEF Init, NoCycle, Idle
<1> QED BY <1>1, <1>2 DEF Order

\* What a step makes of the committed events.
LEMMA CommittedIs ==
  ASSUME Typed, Order
  PROVE  /\ \A w \in Writer : Commit(w) => /\ txn[w] \in TxnRecord
                                          /\ Committed' = Committed \cup {txn[w].seq}
         /\ UNCHANGED outbox \/ EndCycle \/ Cleanup => Committed' = Committed
<1>1. ASSUME NEW w \in Writer, Commit(w)
      PROVE  txn[w] \in TxnRecord /\ Committed' = Committed \cup {txn[w].seq}
  <2>1. txn[w] \in TxnRecord
    BY <1>1 DEF Typed, Commit, Idle
  <2>2. txn[w].seq \in Sequence
    BY <2>1 DEF TxnRecord
  <2>3. \A s \in Sequence :
          outbox'[s] = IF s = txn[w].seq THEN [topic |-> txn[w].topic, status |-> "pending"]
                                         ELSE outbox[s]
    BY <1>1 DEF Commit, Typed
  <2> QED BY <2>1, <2>2, <2>3 DEF Committed
<1>2. EndCycle => Committed' = Committed
  <2> SUFFICES ASSUME EndCycle
               PROVE  Committed' = Committed
    OBVIOUS
  <2>1. ASSUME NEW s \in Sequence
        PROVE  outbox'[s].status # "none" <=> outbox[s].status # "none"
    <3>1. outbox[s] \in Row /\ (s \in cycle.marked => outbox[s].status # "none")
      BY DEF Typed, Order, Committed
    <3>2. outbox'[s] = IF s \in cycle.marked THEN [outbox[s] EXCEPT !.status = "published"]
                                            ELSE outbox[s]
      BY DEF EndCycle
    <3> QED BY <3>1, <3>2 DEF Row
  <2> QED BY <2>1 DEF Committed
<1>3. Cleanup => Committed' = Committed
  <2> SUFFICES ASSUME Cleanup
               PROVE  Committed' = Committed
    OBVIOUS
  <2>1. PICK cutoff \in Sequence :
          outbox' = [s \in Sequence |->
                       IF s \in Expired(cutoff) THEN [outbox[s] EXCEPT !.status = "deleted"]
                                                ELSE outbox[s]]
    BY DEF Cleanup
  <2>2. ASSUME NEW s \in Sequence
        PROVE  outbox'[s].status # "none" <=> outbox[s].status # "none"
    <3>1. outbox[s] \in Row /\ (s \in Expired(cutoff) => outbox[s].status = "published")
      BY DEF Typed, Expired
    <3> QED BY <2>1, <3>1 DEF Row
  <2> QED BY <2>2 DEF Committed
<1>4. UNCHANGED outbox => Committed' = Committed
  BY DEF Committed
<1> QED BY <1>1, <1>2, <1>3, <1>4

LEMMA OrderStep ==
  ASSUME Typed, Order, [Next]_vars
  PROVE  /\ Order' /\ Committed \subseteq Committed'
         /\ \A s \in Committed' \ Committed : \A m \in Committed : m < s
<1> DEFINE Grows == /\ Committed \subseteq Committed'
                    /\ \A s \in Committed' \ Committed : \A m \in Committed : m < s
<1>1. ASSUME NEW w \in Writer, Record(w)
      PROVE  Order' /\ Grows
  <2>1. /\ \A v \in Writer : txn[v] = None
        /\ nextSeq' = nextSeq + 1 /\ nextSeq \in Nat /\ UNCHANGED <<outbox, cycle>>
    BY <1>1 DEF Record, TopicsTaken, Idle, Typed
  <2>2. PICK t \in Topic : txn' = [txn EXCEPT ![w] = [topic |-> t, seq |-> nextSeq]]
    BY <1>1 DEF Record
  <2>3. Committed' = Committed /\ \A s \in Committed : s \in Nat /\ s < nextSeq
    BY <2>1, CommittedIs DEF Order, Committed, Sequence
  <2>4. \A v \in Writer : txn'[v] # None => v = w /\ txn'[v].seq = nextSeq
    BY <2>1, <2>2 DEF Typed
  <2> QED BY <2>1, <2>3, <2>4 DEF Order, Idle
<1>2. ASSUME NEW w \in Writer, Commit(w)
      PROVE  Order' /\ Grows
  <2>1. /\ txn[w] \in TxnRecord /\ Committed' = Committed \cup {txn[w].seq}
        /\ ~Idle(w) /\ txn' = [txn EXCEPT ![w] = None] /\ UNCHANGED <<nextSeq, cycle>>
    BY <1>2, CommittedIs DEF Commit
  <2>2. \A v \in Writer : txn'[v] = None
    BY <2>1 DEF Order, Idle, Typed
  <2> QED BY <2>1, <2>2 DEF Order, Idle
<1>3. ASSUME NEW w \in Writer, Rollback(w)
      PROVE  Order' /\ Grows
  <2>1. txn' = [txn EXCEPT ![w] = None] /\ UNCHANGED <<outbox, nextSeq, cycle>>
    BY <1>3 DEF Rollback
  <2>2. Committed' = Committed
    BY <2>1, CommittedIs
  <2>3. \A v \in Writer : txn'[v] # None => txn'[v] = txn[v] /\ txn[v] # None
    BY <2>1 DEF Typed
  <2> QED BY <2>1, <2>2, <2>3 DEF Order, Idle
<1>4. ASSUME UNCHANGED <<txn, nextSeq>>, Committed' = Committed,
             cycle'.marked \subseteq Committed
      PROVE  Order' /\ Grows
  BY <1>4 DEF Order, Idle
<1>5. ASSUME Lead \/ Publish \/ RelayCommit \/ PublishFails \/ RelayDies \/ Cleanup
      PROVE  Order' /\ Grows
  <2>1. UNCHANGED <<txn, nextSeq>> /\ (UNCHANGED outbox \/ EndCycle \/ Cleanup)
    BY <1>5 DEF Lead, Publish, RelayCommit, PublishFails, RelayDies, Cleanup, database
  <2>2. cycle'.marked \subseteq Committed
    <3>1. Publish => Min(Unpublished) \in Committed
      BY HeadOfLine DEF Publish, Committed
    <3>2. Publish => cycle'.marked = cycle.marked \cup {Min(Unpublished)}
      BY DEF Publish, Typed, Cycle
    <3>3. NoCycle.marked = {} /\ [NoCycle EXCEPT !.open = TRUE].marked = {}
      BY DEF NoCycle
    <3> QED BY <1>5, <3>1, <3>2, <3>3
            DEF Lead, RelayCommit, PublishFails, RelayDies, Cleanup, EndCycle, Order
  <2> QED BY <1>4, <2>1, <2>2, CommittedIs
<1>6. ASSUME UNCHANGED <<txn, nextSeq, outbox, cycle>>
      PROVE  Order' /\ Grows
  BY <1>4, <1>6, CommittedIs DEF Order
<1>7. Listen \/ ListenerFails => UNCHANGED <<txn, nextSeq, outbox, cycle>>
  BY DEF Listen, ReadStart, ReadReturn, SkipEntry, CheckGap, Broadcast, ListenerFails,
         database
<1>8. \A c \in Client : HandlerStep(c) => UNCHANGED <<txn, nextSeq, outbox, cycle>>
  BY HandlersAdvance
<1>9. UNCHANGED vars => UNCHANGED <<txn, nextSeq, outbox, cycle>>
  BY DEF vars, database
<1> QED BY <1>1, <1>2, <1>3, <1>5, <1>6, <1>7, <1>8, <1>9 DEF Next, Relay, HandlerStep

\* Sequences follow the order of commits: the sequence is taken under the
\* order lock and the topic locks, and no rollback gives one back.
THEOREM SequencesFollowCommits == Spec => CommitsInOrder
<1>1. Init => Typed /\ Order
  BY InitTyped, InitOrder
<1>2. Typed /\ Order /\ [Next]_vars => (Typed /\ Order)'
  BY TypedStep, OrderStep
<1>3. Typed /\ Order /\ [Next]_vars =>
        [\A s \in Committed' \ Committed : \A m \in Committed : m < s]_vars
  BY OrderStep
<1> QED BY <1>1, <1>2, <1>3, PTL DEF Spec, CommitsInOrder

-----------------------------------------------------------------------------
(* The topic rows, what is stored, and the stream. *)

\* Steps that leave the outbox and the topic rows alone.
LEMMA OutboxIsAlone ==
  ASSUME [Next]_vars
  PROVE  \/ \E w \in Writer : Commit(w)
         \/ EndCycle /\ UNCHANGED <<txn, topic, listener, conn, client>>
         \/ Cleanup
         \/ UNCHANGED <<outbox, topic>>
<1>1. \A c \in Client : \A l : Step(c, l) => UNCHANGED <<outbox, topic>>
  BY DEF Step, database
<1>2. \A c \in Client : Resync(c) => UNCHANGED <<outbox, topic>>
  BY <1>1 DEF Resync
<1>3. \A c \in Client : HandlerStep(c) => UNCHANGED <<outbox, topic>>
  BY <1>1, <1>2 DEF HandlerStep, Handle, Register, Hello, CheckFloors, ReadRows, SendRow,
       TakeBuffered, SendBuffered, Complete, SendLive, Close, Drop, database
<1>4. Listen \/ ListenerFails => UNCHANGED <<outbox, topic>>
  BY DEF Listen, ReadStart, ReadReturn, SkipEntry, CheckGap, Broadcast, ListenerFails,
         database
<1>5. Lead \/ Publish \/ RelayDies => UNCHANGED <<outbox, topic>>
  BY DEF Lead, Publish, RelayDies, database
<1>6. RelayCommit \/ PublishFails =>
        EndCycle /\ UNCHANGED <<txn, topic, listener, conn, client>>
  BY DEF RelayCommit, PublishFails
<1>7. \A w \in Writer : Record(w) \/ Rollback(w) => UNCHANGED <<outbox, topic>>
  BY DEF Record, Rollback
<1>8. UNCHANGED vars => UNCHANGED <<outbox, topic>>
  BY DEF vars, database
<1> QED BY <1>3, <1>4, <1>5, <1>6, <1>7, <1>8 DEF Next, Relay, HandlerStep

LEMMA CommitIs ==
  ASSUME Typed, Order, NEW w \in Writer, Commit(w)
  PROVE  \E n \in Sequence, t \in Topic :
           /\ n = txn[w].seq /\ t = txn[w].topic
           /\ Committed' = Committed \cup {n} /\ n \notin Committed
           /\ \A m \in Committed : m < n
           /\ \A s \in Sequence \ {n} : outbox'[s] = outbox[s]
           /\ outbox'[n].topic = t /\ outbox'[n].status = "pending"
           /\ \A u \in Topic : /\ topic'[u].floor = topic[u].floor
                               /\ topic'[u].latest = IF u = t THEN n ELSE topic[u].latest
           /\ ~Idle(w)
           /\ UNCHANGED <<nextSeq, stream, trimmed, cycle, listener, conn, client>>
<1> DEFINE n == txn[w].seq
           t == txn[w].topic
<1>1. txn[w] \in TxnRecord /\ Committed' = Committed \cup {n} /\ ~Idle(w)
  BY CommittedIs DEF Commit
<1>2. n \in Sequence /\ t \in Topic
  BY <1>1 DEF TxnRecord
<1>3. \A m \in Committed : m < n
  BY <1>1 DEF Order
<1>4. n \notin Committed
  BY <1>2, <1>3 DEF Sequence
<1>5. /\ \A s \in Sequence \ {n} : outbox'[s] = outbox[s]
      /\ outbox'[n].topic = t /\ outbox'[n].status = "pending"
  BY <1>2 DEF Commit, Typed
<1>6. topic' = [topic EXCEPT ![t].latest = n]
  BY DEF Commit
<1>7. \A u \in Topic : /\ topic'[u].floor = topic[u].floor
                       /\ topic'[u].latest = IF u = t THEN n ELSE topic[u].latest
  BY <1>2, <1>6 DEF Typed, TopicRecord
<1>8. UNCHANGED <<nextSeq, stream, trimmed, cycle, listener, conn, client>>
  BY DEF Commit, redis
<1> QED BY <1>1, <1>2, <1>3, <1>4, <1>5, <1>7, <1>8

LEMMA EndCycleIs ==
  ASSUME Typed, Order, EndCycle
  PROVE  /\ Committed' = Committed /\ cycle'.marked = {}
         /\ \A s \in Sequence : outbox'[s].topic = outbox[s].topic
         /\ \A s \in Committed : outbox'[s].status =
                IF s \in cycle.marked THEN "published" ELSE outbox[s].status
         /\ \A s \in Sequence \ Committed : outbox'[s] = outbox[s]
<1>1. ASSUME NEW s \in Sequence
      PROVE  /\ outbox'[s].topic = outbox[s].topic
             /\ outbox'[s].status =
                  IF s \in cycle.marked THEN "published" ELSE outbox[s].status
             /\ s \notin Committed => outbox'[s] = outbox[s]
  <2>1. outbox[s] \in Row /\ (s \notin Committed => s \notin cycle.marked)
    BY DEF Typed, Order
  <2>2. outbox'[s] = IF s \in cycle.marked THEN [outbox[s] EXCEPT !.status = "published"]
                                          ELSE outbox[s]
    BY DEF EndCycle
  <2> QED BY <2>1, <2>2 DEF Row
<1> QED BY <1>1, CommittedIs DEF EndCycle, NoCycle, Committed

LEMMA CleanupIs ==
  ASSUME Typed, Order, Cleanup
  PROVE  /\ Committed' = Committed /\ ~TopicsTaken /\ ~TopicsShared
         /\ UNCHANGED <<txn, stream, trimmed, cycle, listener, conn, client>>
         /\ \A u \in Topic : /\ topic[u].floor <= topic'[u].floor
                             /\ topic'[u].latest = topic[u].latest
         /\ \A s \in Sequence :
              /\ outbox'[s].topic = outbox[s].topic
              /\ \/ outbox'[s].status = outbox[s].status
                 \/ /\ outbox[s].status = "published"
                    /\ \A u \in Topic : outbox[s].topic = u => s <= topic'[u].floor
<1>1. PICK cutoff \in Sequence :
        /\ outbox' = [s \in Sequence |->
                        IF s \in Expired(cutoff) THEN [outbox[s] EXCEPT !.status = "deleted"]
                                                 ELSE outbox[s]]
        /\ topic' = [t \in Topic |-> [topic[t] EXCEPT !.floor = Floor(t, Expired(cutoff))]]
  BY DEF Cleanup
<1>2. ASSUME NEW u \in Topic
      PROVE  /\ topic[u].floor <= topic'[u].floor /\ topic'[u].latest = topic[u].latest
             /\ topic'[u].floor = Floor(u, Expired(cutoff))
  <2> DEFINE n == Floor(u, Expired(cutoff))
  <2>1. topic[u].floor <= n
    BY FloorIs DEF Expired
  <2>2. topic[u] \in TopicRecord /\ topic'[u] = [topic[u] EXCEPT !.floor = n]
    BY <1>1 DEF Typed
  <2> HIDE DEF n
  <2>3. topic'[u].floor = n /\ topic'[u].latest = topic[u].latest
    BY <2>2 DEF TopicRecord
  <2> QED BY <2>1, <2>3 DEF n
<1>3. ASSUME NEW s \in Sequence
      PROVE  /\ outbox'[s].topic = outbox[s].topic
             /\ \/ outbox'[s].status = outbox[s].status
                \/ /\ outbox[s].status = "published"
                   /\ \A u \in Topic : outbox[s].topic = u => s <= topic'[u].floor
  <2>1. outbox[s] \in Row
    BY DEF Typed
  <2>2. CASE s \notin Expired(cutoff)
    BY <1>1, <2>2
  <2>3. CASE s \in Expired(cutoff)
    <3>1. outbox'[s].topic = outbox[s].topic
      BY <1>1, <2>1, <2>3 DEF Row
    <3>2. outbox[s].status = "published" /\ Expired(cutoff) \subseteq Sequence
      BY <2>3 DEF Expired
    <3>3. \A u \in Topic : outbox[s].topic = u => s <= Floor(u, Expired(cutoff))
      BY <2>3, <3>2, FloorIs
    <3> QED BY <1>2, <3>1, <3>2, <3>3
  <2> QED BY <2>2, <2>3
<1>4. Committed' = Committed
  BY CommittedIs
<1> QED BY <1>2, <1>3, <1>4 DEF Cleanup, redis

LEMMA TopicsStep ==
  ASSUME Typed, Order, Topics, [Next]_vars, Typed'
  PROVE  Topics'
<1>1. CASE \E w \in Writer : Commit(w)
  <2>1. PICK n \in Sequence, t \in Topic :
           /\ Committed' = Committed \cup {n} /\ n \notin Committed
           /\ \A m \in Committed : m < n
           /\ \A s \in Sequence \ {n} : outbox'[s] = outbox[s]
           /\ outbox'[n].topic = t /\ outbox'[n].status = "pending"
           /\ \A u \in Topic : /\ topic'[u].floor = topic[u].floor
                               /\ topic'[u].latest = IF u = t THEN n ELSE topic[u].latest
    BY <1>1, CommitIs
  <2>2. ASSUME NEW s \in Committed'
        PROVE  /\ outbox'[s].topic \in Topic
               /\ s <= topic'[outbox'[s].topic].latest
               /\ outbox'[s].status = "deleted" => s <= topic'[outbox'[s].topic].floor
    <3>1. CASE s = n
      BY <2>1, <3>1 DEF Sequence
    <3>2. CASE s \in Committed
      <4>1. s \in Sequence /\ outbox'[s] = outbox[s] /\ s < n
        BY <2>1, <3>2 DEF Committed
      <4>2. /\ outbox[s].topic \in Topic /\ s <= topic[outbox[s].topic].latest
            /\ outbox[s].status = "deleted" => s <= topic[outbox[s].topic].floor
        BY <3>2 DEF Topics
      <4>3. s <= n
        BY <4>1 DEF Sequence
      <4> QED BY <2>1, <4>1, <4>2, <4>3
    <3> QED BY <2>1, <3>1, <3>2
  <2>3. \A u \in Topic : topic'[u].latest \in Committed' \cup {0}
    BY <2>1 DEF Topics
  <2> QED BY <2>2, <2>3 DEF Topics
<1>2. CASE EndCycle /\ UNCHANGED topic
  BY <1>2, EndCycleIs DEF Topics, Committed
<1>3. CASE Cleanup
  <2>1. /\ Committed' = Committed
        /\ \A u \in Topic : /\ topic[u].floor <= topic'[u].floor
                            /\ topic'[u].latest = topic[u].latest
        /\ \A s \in Sequence :
              /\ outbox'[s].topic = outbox[s].topic
              /\ \/ outbox'[s].status = outbox[s].status
                 \/ \A u \in Topic : outbox[s].topic = u => s <= topic'[u].floor
    BY <1>3, CleanupIs
  <2>2. \A u \in Topic : topic[u].floor \in Int /\ topic'[u].floor \in Int
    BY DEF Typed, TopicRecord
  <2>3. ASSUME NEW s \in Committed
        PROVE  /\ outbox'[s].topic \in Topic
               /\ s <= topic'[outbox'[s].topic].latest
               /\ outbox'[s].status = "deleted" => s <= topic'[outbox'[s].topic].floor
    <3> DEFINE u == outbox[s].topic
    <3>1. /\ u \in Topic /\ s <= topic[u].latest /\ s \in Sequence
          /\ outbox[s].status = "deleted" => s <= topic[u].floor
      BY DEF Topics, Committed
    <3>2. s \in Int
      BY <3>1 DEF Sequence
    <3> QED BY <2>1, <2>2, <3>1, <3>2
  <2> QED BY <2>1, <2>3 DEF Topics
<1>4. CASE UNCHANGED <<outbox, topic>>
  BY <1>4 DEF Topics, Committed
<1> QED BY <1>1, <1>2, <1>3, <1>4, OutboxIsAlone

\* While a replay reads, nothing is committed and nothing deleted.
LEMMA ReplayReadsOn ==
  ASSUME Typed, Order, [Next]_vars, NEW c \in Client, conn[c].pc = "read",
         \A w \in Writer : Idle(w)
  PROVE  Committed' = Committed /\ StoredSet \subseteq StoredSet'
<1>1. ~ \E w \in Writer : Commit(w)
  BY DEF Commit
<1>2. ~Cleanup
  BY DEF Cleanup, TopicsShared
<1>3. CASE EndCycle
  BY <1>3, EndCycleIs DEF StoredSet, Stored, Committed
<1>4. CASE UNCHANGED outbox
  BY <1>4 DEF StoredSet, Stored, Committed
<1> QED BY <1>1, <1>2, <1>3, <1>4, OutboxIsAlone

\* XADD puts the head of the line after every event below it.
LEMMA Added ==
  ASSUME Typed, StreamFollows, Unpublished # {}, Add(Min(Unpublished))
  PROVE  /\ Min(Unpublished) \in Committed
         /\ Len(stream') = Len(stream) + 1 /\ stream'[Len(stream) + 1] = Min(Unpublished)
         /\ \A i \in 1..Len(stream) : stream'[i] = stream[i]
         /\ \A m \in Committed : m < Min(Unpublished) => Among(stream, m, Len(stream))
         /\ trimmed' \in trimmed..Len(stream)
<1> DEFINE s == Min(Unpublished)
<1>1. /\ s \in Sequence /\ outbox[s].status = "pending" /\ \A m \in Unpublished : s <= m
  BY HeadOfLine
<1>2. s \in Committed
  BY <1>1 DEF Committed
<1>3. stream' = Append(stream, s) /\ stream \in Seq(Sequence)
  BY DEF Add, Typed
<1> HIDE DEF s
<1>4. /\ Len(stream') = Len(stream) + 1 /\ stream'[Len(stream) + 1] = s
      /\ \A i \in 1..Len(stream) : stream'[i] = stream[i]
  BY <1>1, <1>3, LastOf
<1>5. ASSUME NEW m \in Committed, m < s
      PROVE  Among(stream, m, Len(stream))
  <2>1. m \notin Unpublished
    <3>1. ASSUME m \in Unpublished
          PROVE  FALSE
      <4>1. s <= m /\ m \in Sequence
        BY <1>1, <3>1 DEF Committed
      <4> QED BY <1>1, <1>5, <4>1 DEF Sequence
    <3> QED BY <3>1
  <2>2. m \in cycle.marked \/ outbox[m].status # "pending"
    BY <2>1 DEF Unpublished, Committed
  <2> QED BY <2>2 DEF StreamFollows
<1>6. trimmed' \in trimmed..Len(stream)
  BY DEF Add
<1> QED BY <1>2, <1>4, <1>5, <1>6 DEF s

\* The stream, as far as it was.
LEMMA Prefix ==
  ASSUME Typed, StreamFollows,
         \/ UNCHANGED stream
         \/ Unpublished # {} /\ Add(Min(Unpublished))
  PROVE  /\ Len(stream) \in Nat /\ Len(stream) <= Len(stream')
         /\ \A m : \A n \in 0..Len(stream) : Among(stream', m, n) <=> Among(stream, m, n)
         /\ \A m : Among(stream, m, Len(stream)) => Among(stream', m, Len(stream'))
<1>1. Len(stream) \in Nat
  BY DEF Typed
<1>2. CASE UNCHANGED stream
  BY <1>1, <1>2 DEF Among
<1>3. CASE Unpublished # {} /\ Add(Min(Unpublished))
  <2>1. /\ Len(stream') = Len(stream) + 1
        /\ \A i \in 1..Len(stream) : stream'[i] = stream[i]
    BY <1>3, Added
  <2>2. \A n \in 0..Len(stream) : \A i \in 1..n : stream'[i] = stream[i]
    BY <1>1, <2>1
  <2>3. \A i \in 1..Len(stream) : i \in 1..Len(stream')
    BY <1>1, <2>1
  <2> QED BY <1>1, <2>1, <2>2, <2>3 DEF Among
<1> QED BY <1>2, <1>3

LEMMA StreamIs ==
  ASSUME Typed, StreamFollows
  PROVE  /\ stream \in Seq(Sequence) /\ Len(stream) \in Nat /\ DOMAIN stream = 1..Len(stream)
         /\ \A i \in 1..Len(stream) : /\ stream[i] \in Committed
                                      /\ \A m \in Committed :
                                           m < stream[i] => Among(stream, m, i - 1)
BY DEF Typed, StreamFollows, Range

LEMMA StreamStep ==
  ASSUME Typed, Order, StreamFollows, [Next]_vars, Typed', Order'
  PROVE  StreamFollows'
<1>1. /\ Len(stream) \in Nat /\ DOMAIN stream = 1..Len(stream)
      /\ \A i \in 1..Len(stream) : /\ stream[i] \in Committed
                                   /\ \A m \in Committed :
                                        m < stream[i] => Among(stream, m, i - 1)
  BY StreamIs
<1>2. /\ Committed \subseteq Committed' /\ Committed' \subseteq Sequence
      /\ \A s \in Committed' \ Committed : \A m \in Committed : m < s
  BY OrderStep DEF Committed
<1>3. \A i \in 1..Len(stream) : \A m \in Committed' : m < stream[i] => m \in Committed
  <2> SUFFICES ASSUME NEW i \in 1..Len(stream), NEW m \in Committed', m < stream[i],
                      m \notin Committed
               PROVE  FALSE
    OBVIOUS
  <2>1. stream[i] < m /\ stream[i] \in Sequence /\ m \in Sequence
    BY <1>1, <1>2
  <2> QED BY <2>1 DEF Sequence
<1>4. CASE UNCHANGED stream
  <2>1. /\ Range(stream) \subseteq Committed'
        /\ \A i \in DOMAIN stream : \A m \in Committed' :
             m < stream[i] => Among(stream, m, i - 1)
    BY <1>1, <1>2, <1>3 DEF Range
  <2>2. ASSUME NEW m \in Committed', m \in cycle'.marked \/ outbox'[m].status # "pending"
        PROVE  Among(stream, m, Len(stream))
    <3>1. CASE \E w \in Writer : Commit(w)
      <4>1. PICK n \in Sequence :
              /\ Committed' = Committed \cup {n} /\ n \notin Committed
              /\ \A s \in Sequence \ {n} : outbox'[s] = outbox[s]
              /\ outbox'[n].status = "pending"
              /\ cycle' = cycle
        BY <3>1, CommitIs
      <4>2. m # n
        BY <2>2, <4>1 DEF Order
      <4> QED BY <1>2, <2>2, <4>1, <4>2 DEF StreamFollows
    <3>2. CASE EndCycle
      BY <2>2, <3>2, EndCycleIs DEF StreamFollows
    <3>3. CASE Cleanup
      <4>1. /\ Committed' = Committed /\ cycle' = cycle
            /\ \A s \in Sequence : \/ outbox'[s].status = outbox[s].status
                                   \/ outbox[s].status = "published"
        BY <3>3, CleanupIs
      <4> QED BY <1>2, <2>2, <4>1 DEF StreamFollows
    <3>4. CASE UNCHANGED outbox
      <4>1. Committed' = Committed
        BY <3>4 DEF Committed
      <4>2. UNCHANGED cycle \/ cycle'.marked = {} \/ EndCycle
        <5>1. ASSUME Publish
              PROVE  FALSE
          <6>1. stream' = Append(stream, Min(Unpublished)) /\ stream \in Seq(Sequence)
            BY <5>1 DEF Publish, Add, Typed
          <6>2. Min(Unpublished) \in Sequence
            BY <5>1, HeadOfLine DEF Publish
          <6>3. Len(stream') = Len(stream) + 1
            BY <6>1, <6>2, LastOf
          <6> QED BY <1>1, <1>4, <6>3
        <5> QED BY <5>1, StreamMoves
      <4>3. CASE EndCycle
        BY <2>2, <4>3, EndCycleIs DEF StreamFollows
      <4> QED BY <2>2, <3>4, <4>1, <4>2, <4>3 DEF StreamFollows
    <3> QED BY <3>1, <3>2, <3>3, <3>4, OutboxIsAlone
  <2> QED BY <1>4, <2>1, <2>2 DEF StreamFollows
<1>5. CASE /\ Unpublished # {} /\ Add(Min(Unpublished))
           /\ Publish \/ EndCycle
  <2> DEFINE s == Min(Unpublished)
             n == Len(stream)
  <2>1. /\ s \in Committed
        /\ Len(stream') = n + 1 /\ stream'[n + 1] = s
        /\ \A i \in 1..n : stream'[i] = stream[i]
        /\ \A m \in Committed : m < s => Among(stream, m, n)
    BY <1>5, Added
  <2>2. /\ \A m : \A i \in 0..n : Among(stream', m, i) <=> Among(stream, m, i)
        /\ \A m : Among(stream, m, n) => Among(stream', m, n + 1)
    BY <1>5, <2>1, Prefix
  <2>3. Committed' = Committed
    BY <1>5, CommittedIs DEF Publish, database
  <2>4. DOMAIN stream' = 1 .. n + 1 /\ Among(stream', s, n + 1)
    <3>1. DOMAIN stream' = 1 .. n + 1 /\ n + 1 \in 1 .. n + 1
      BY <1>1, <2>1 DEF Typed
    <3> QED BY <2>1, <3>1 DEF Among
  <2> HIDE DEF s
  <2>5. ASSUME NEW i \in DOMAIN stream'
        PROVE  /\ stream'[i] \in Committed
               /\ \A m \in Committed : m < stream'[i] => Among(stream', m, i - 1)
    <3>1. CASE i \in 1..n
      <4>1. i - 1 \in 0..n
        BY <1>1, <3>1
      <4> QED BY <1>1, <2>1, <2>2, <3>1, <4>1
    <3>2. CASE i = n + 1
      <4>1. i - 1 = n /\ n \in 0..n
        BY <1>1, <3>2
      <4> QED BY <2>1, <2>2, <3>2, <4>1
    <3> QED BY <1>1, <2>4, <3>1, <3>2
  <2>6. ASSUME NEW m \in Committed, m \in cycle'.marked \/ outbox'[m].status # "pending"
        PROVE  Among(stream', m, n + 1)
    <3>1. m = s \/ m \in cycle.marked \/ outbox[m].status # "pending"
      <4>1. Publish => outbox' = outbox /\ cycle'.marked = cycle.marked \cup {s}
        BY DEF Publish, Typed, Cycle, database, s
      <4> QED BY <1>5, <2>6, <4>1, EndCycleIs
    <3> QED BY <2>2, <2>4, <3>1 DEF StreamFollows
  <2> QED BY <2>1, <2>3, <2>5, <2>6 DEF StreamFollows, Range
<1> QED BY <1>4, <1>5, StreamMoves DEF Publish

-----------------------------------------------------------------------------
(* Batches and queues stay within their limits. *)

Limits ==
    /\ cycle.claims <= BatchSize
    /\ faults <= MaxFaults
    /\ \A c \in Client : Len(conn[c].queue) <= QueueSize

\* What is kept of a queue is no longer than the queue.
LEMMA KeptIsShorter ==
  ASSUME NEW q \in Seq(Sequence), NEW S, NEW p \in Kept(q, S)
  PROVE  Len(p) <= Len(q)
<1> DEFINE P == Places(q, S)
           n == Cardinality(P)
<1>1. PICK f \in Ascending(P) : p = [i \in DOMAIN f |-> q[f[i]]]
  BY DEF Kept
<1>2. P \subseteq 1..Len(q) /\ Len(q) \in Nat
  BY DEF Places
<1>3. IsFiniteSet(1..Len(q)) /\ Cardinality(1..Len(q)) = Len(q)
  <2> DEFINE m == Len(q)
  <2>1. m \in Nat
    BY <1>2
  <2> HIDE DEF m
  <2>2. IsFiniteSet(1..m) /\ Cardinality(1..m) = IF 1 > m THEN 0 ELSE m - 1 + 1
    BY <2>1, FS_Interval
  <2>3. IsFiniteSet(1..m) /\ Cardinality(1..m) = m
    BY <2>1, <2>2
  <2> QED BY <2>3 DEF m
<1>4. n \in Nat /\ n <= Len(q)
  BY <1>2, <1>3, FS_Subset, FS_CardinalityType
<1>5. DOMAIN f = 1..n
  <2>1. P \subseteq Int
    BY <1>2
  <2> HIDE DEF P
  <2> QED BY <1>1, <2>1, Arranged
<1>6. p \in Seq(Sequence) /\ DOMAIN p = 1..n
  BY <1>1, <1>5, KeptOf
<1> HIDE DEF n
<1>7. Len(p) = n
  BY <1>4, <1>6
<1> QED BY <1>4, <1>7

\* A handler fills no queue, and an offer respects its size.
LEMMA QueuesFit ==
  ASSUME Typed, Limits, [Next]_vars
  PROVE  \A c \in Client : Len(conn'[c].queue) <= QueueSize
<1> DEFINE Fits(k) == Len(k.queue) <= QueueSize
<1>1. QueueSize \in Nat \ {0} /\ \A c \in Client : conn[c] \in Socket /\ Fits(conn[c])
  BY RealtimeAssumption DEF Limits, Typed
<1>2. ASSUME NEW c \in Client, NEW l, Step(c, l), Fits(l)
      PROVE  \A e \in Client : Fits(conn'[e])
  <2>1. conn' = [conn EXCEPT ![c] = l] /\ DOMAIN conn = Client
    BY <1>2 DEF Step, Typed
  <2>2. \A e \in Client : conn'[e] = IF e = c THEN l ELSE conn[e]
    BY <2>1
  <2> HIDE DEF Fits
  <2> QED BY <1>1, <1>2, <2>2
<1>3. Fits(NoSocket)
  BY <1>1, NothingThere
<1>4. ASSUME NEW c \in Client, HandlerStep(c)
      PROVE  \A e \in Client : Fits(conn'[e])
  <2> DEFINE k == conn[c]
  <2>1. k \in Socket /\ Fits(k) /\ k.queue \in Seq(Sequence)
    BY <1>1 DEF Socket
  <2>2. CASE Register(c)
    <3> DEFINE l == [NoSocket EXCEPT !.pc = "status", !.registered = TRUE,
                                     !.after = client[c].cursor]
    <3>1. Fits(l)
      BY <1>3 DEF NoSocket
    <3>2. Step(c, l)
      BY <2>2 DEF Register
    <3> HIDE DEF l, Fits
    <3> QED BY <1>2, <3>1, <3>2
  <2>3. CASE Hello(c)
    <3> DEFINE l == [k EXCEPT !.pc = "floors", !.mark = Watermark]
    <3>1. Fits(l)
      BY <2>1 DEF Socket
    <3>2. Step(c, l)
      BY <2>3 DEF Hello
    <3> HIDE DEF l, Fits
    <3> QED BY <1>2, <3>1, <3>2
  <2>4. CASE Step(c, NoSocket)
    <3> HIDE DEF Fits
    <3> QED BY <1>2, <1>3, <2>4
  <2>5. CASE CheckFloors(c)
    <3> DEFINE l == [k EXCEPT !.pc = "read"]
    <3>1. Fits(l)
      BY <2>1 DEF Socket
    <3>2. Step(c, NoSocket) \/ Step(c, l)
      BY <2>5 DEF CheckFloors, Resync
    <3> HIDE DEF l, Fits
    <3> QED BY <1>2, <2>4, <3>1, <3>2
  <2>6. CASE ReadRows(c)
    <3>1. ASSUME NEW rows
          PROVE  Fits([k EXCEPT !.pc = "replay", !.rows = rows])
      BY <2>1 DEF Socket
    <3>2. \/ Step(c, NoSocket)
          \/ \E rows : Step(c, [k EXCEPT !.pc = "replay", !.rows = rows])
      BY <2>6 DEF ReadRows, Resync
    <3> HIDE DEF Fits
    <3> QED BY <1>2, <2>4, <3>1, <3>2
  <2>7. CASE SendRow(c)
    <3> DEFINE s == Head(k.rows)
               l == [k EXCEPT !.rows = Tail(@), !.seen = @ \cup {s}]
               m == Sends(l, s)
    <3>1. Fits(l) /\ Fits(m)
      <4>1. l.queue = k.queue
        BY <2>1 DEF Socket
      <4>2. m.queue = l.queue
        BY <2>1 DEF Socket, Sends
      <4> HIDE DEF k, l, m
      <4> QED BY <2>1, <4>1, <4>2
    <3>2. Step(c, l) \/ Step(c, m)
      BY <2>7 DEF SendRow
    <3> HIDE DEF l, m, Fits
    <3> QED BY <1>2, <3>1, <3>2
  <2>8. CASE TakeBuffered(c)
    <3>1. PICK rows \in Sorted(k.queue, k.after + 1 .. k.mark) :
            \E rest \in Kept(k.queue, k.mark + 1 .. MaxSequence) :
              Step(c, Buffered(k, rows, rest))
      BY <2>8 DEF TakeBuffered
    <3>0. PICK rest \in Kept(k.queue, k.mark + 1 .. MaxSequence) :
            Step(c, Buffered(k, rows, rest))
      BY <3>1
    <3>2. Buffered(k, rows, rest).queue = rest
      BY <2>1 DEF Buffered, Socket
    <3>3. Len(rest) <= Len(k.queue) /\ Len(rest) \in Nat /\ Len(k.queue) \in Nat
      BY <2>1, KeptIsShorter, KeptOf
    <3>4. Fits(Buffered(k, rows, rest))
      BY <1>1, <2>1, <3>2, <3>3
    <3> HIDE DEF Fits
    <3> QED BY <1>2, <3>0, <3>4
  <2>9. CASE SendBuffered(c)
    <3> DEFINE l == Sends([k EXCEPT !.rows = Tail(@)], Head(k.rows))
    <3>1. Fits(l)
      BY <2>1 DEF Socket, Sends
    <3>2. Step(c, l)
      BY <2>9 DEF SendBuffered
    <3> HIDE DEF l, Fits
    <3> QED BY <1>2, <3>1, <3>2
  <2>10. CASE Complete(c)
    <3> DEFINE l == [k EXCEPT !.pc = "live", !.after = 0, !.mark = 0]
    <3>1. Fits(l)
      BY <2>1 DEF Socket
    <3>2. Step(c, l)
      BY <2>10 DEF Complete
    <3> HIDE DEF l, Fits
    <3> QED BY <1>2, <3>1, <3>2
  <2>11. CASE SendLive(c)
    <3> DEFINE q == Tail(k.queue)
               l == Sends([k EXCEPT !.queue = q], Head(k.queue))
    <3>1. k.queue # <<>> /\ Step(c, l)
      BY <2>11 DEF SendLive
    <3>2. Len(k.queue) \in Nat /\ Len(q) = Len(k.queue) - 1
      BY <2>1, <3>1, FirstOf
    <3>3. l.queue = q
      <4> HIDE DEF q
      <4> QED BY <2>1 DEF Socket, Sends
    <3>4. Fits(l)
      <4> HIDE DEF l, q
      <4> QED BY <1>1, <2>1, <3>2, <3>3
    <3> HIDE DEF l, q, Fits
    <3> QED BY <1>2, <3>1, <3>4
  <2>12. CASE Drop(c)
    <3>1. \A e \in Client : conn'[e] = IF e = c THEN NoSocket ELSE conn[e]
      BY <2>12 DEF Drop, Typed
    <3> HIDE DEF Fits
    <3> QED BY <1>1, <1>3, <3>1
  <2> QED BY <1>4, <2>2, <2>3, <2>4, <2>5, <2>6, <2>7, <2>8, <2>9, <2>10, <2>11, <2>12
          DEF HandlerStep, Handle, Close
<1>5. ASSUME conn' = Disconnected(conn)
      PROVE  \A c \in Client : Fits(conn'[c])
  <2> SUFFICES ASSUME NEW c \in Client
               PROVE  Fits(conn'[c])
    OBVIOUS
  <2>1. conn'[c] = Closed(conn[c])
    BY <1>5 DEF Disconnected, Closed
  <2>2. Closed(conn[c]).queue = conn[c].queue
    BY <1>1 DEF Closed, Socket
  <2> QED BY <1>1, <2>1, <2>2
<1>6. ASSUME NEW s, conn' = [c \in Client |-> Offer(conn[c], s)]
      PROVE  \A c \in Client : Fits(conn'[c])
  <2> SUFFICES ASSUME NEW c \in Client
               PROVE  Fits(conn'[c])
    OBVIOUS
  <2> DEFINE k == conn[c]
             q == Append(k.queue, s)
             n == k.seen \cup {s}
  <2>1. k \in Socket /\ Fits(k) /\ k.queue \in Seq(Sequence)
    BY <1>1 DEF Socket
  <2>2. Len(q) = Len(k.queue) + 1 /\ Len(k.queue) \in Nat
    BY <2>1
  <2>3. conn'[c] = IF ~k.registered \/ s \in k.seen THEN k
                   ELSE IF Len(k.queue) < QueueSize
                          THEN [k EXCEPT !.queue = q, !.seen = n]
                          ELSE [k EXCEPT !.seen = n, !.registered = FALSE, !.closing = TRUE]
    BY <1>6, <2>1 DEF Offer, Socket
  <2> HIDE DEF q, n
  <2>4. /\ [k EXCEPT !.queue = q, !.seen = n].queue = q
        /\ [k EXCEPT !.seen = n, !.registered = FALSE, !.closing = TRUE].queue = k.queue
    BY <2>1 DEF Socket
  <2>5. conn'[c].queue = k.queue \/ (conn'[c].queue = q /\ Len(k.queue) < QueueSize)
    BY <2>3, <2>4
  <2> QED BY <1>1, <2>1, <2>2, <2>5
<1>7. CASE conn' = conn
  BY <1>1, <1>7
<1>8. Listen \/ ListenerFails =>
        \/ conn' = conn \/ conn' = Disconnected(conn)
        \/ \E s : conn' = [c \in Client |-> Offer(conn[c], s)]
  BY DEF Listen, ReadStart, ReadReturn, SkipEntry, CheckGap, Broadcast, ListenerFails
<1>9. ASSUME ~(\E c \in Client : HandlerStep(c)), ~Listen, ~ListenerFails
      PROVE  conn' = conn
  BY <1>9 DEF Next, Relay, HandlerStep, vars, Record, Commit, Rollback, Lead, Publish,
              RelayCommit, PublishFails, RelayDies, Cleanup
<1>10. \A c \in Client : Fits(conn'[c])
  <2>1. CASE \E c \in Client : HandlerStep(c)
    <3>1. PICK c \in Client : HandlerStep(c)
      BY <2>1
    <3> QED BY <1>4, <3>1
  <2>2. CASE Listen \/ ListenerFails
    <3>1. CASE \E s : conn' = [c \in Client |-> Offer(conn[c], s)]
      BY <1>6, <3>1
    <3> QED BY <1>5, <1>7, <1>8, <2>2, <3>1
  <2>3. CASE ~(\E c \in Client : HandlerStep(c)) /\ ~Listen /\ ~ListenerFails
    BY <1>7, <1>9, <2>3
  <2> QED BY <2>1, <2>2, <2>3
<1> QED BY <1>10

LEMMA FaultsAreCounted ==
  ASSUME [Next]_vars
  PROVE  faults' = faults \/ Fault
<1>1. \A c \in Client : \A l : Step(c, l) => faults' = faults
  BY DEF Step
<1>2. \A c \in Client : Resync(c) => faults' = faults
  BY <1>1 DEF Resync
<1>3. \A c \in Client : HandlerStep(c) => faults' = faults \/ Fault
  BY <1>1, <1>2 DEF HandlerStep, Handle, Register, Hello, CheckFloors, ReadRows, SendRow,
       TakeBuffered, SendBuffered, Complete, SendLive, Close, Drop
<1>4. Listen \/ ListenerFails => faults' = faults \/ Fault
  BY DEF Listen, ReadStart, ReadReturn, SkipEntry, CheckGap, Broadcast, ListenerFails
<1>5. Relay \/ PublishFails \/ RelayDies \/ Cleanup => faults' = faults \/ Fault
  BY DEF Relay, Lead, Publish, RelayCommit, PublishFails, RelayDies, Cleanup
<1>6. \A w \in Writer : Record(w) \/ Commit(w) \/ Rollback(w) => faults' = faults \/ Fault
  BY DEF Record, Commit, Rollback
<1> QED BY <1>3, <1>4, <1>5, <1>6 DEF Next, HandlerStep, vars

LEMMA LimitsStep ==
  ASSUME Typed, Limits, [Next]_vars
  PROVE  Limits'
<1>1. /\ MaxFaults \in Nat /\ BatchSize \in Nat \ {0} /\ Len(stream) \in Nat
      /\ listener \in Listener /\ cycle \in Cycle /\ faults \in Nat /\ trimmed \in Nat
      /\ stream \in Seq(Sequence)
  BY RealtimeAssumption DEF Typed
<1>2. Typed'
  BY TypedStep
<1>3. faults' <= MaxFaults
  BY <1>1, FaultsAreCounted DEF Limits, Fault
<1>4. cycle'.claims <= BatchSize
  <2>1. NoCycle.claims = 0 /\ [NoCycle EXCEPT !.open = TRUE].claims = 0
    BY DEF NoCycle
  <2>2. CASE UNCHANGED cycle
    BY <2>2 DEF Limits
  <2>3. CASE Publish
    <3>1. cycle'.claims = cycle.claims + 1 /\ cycle.claims < BatchSize /\ cycle.claims \in Nat
      BY <1>1, <2>3 DEF Publish, Cycle
    <3> QED BY <1>1, <3>1
  <2>4. CASE Lead \/ RelayCommit \/ PublishFails \/ RelayDies
    <3>1. cycle' = NoCycle \/ cycle' = [NoCycle EXCEPT !.open = TRUE]
      BY <2>4 DEF Lead, RelayCommit, PublishFails, RelayDies, EndCycle
    <3>2. cycle'.claims = 0
      BY <2>1, <3>1, Zenon
    <3> QED BY <1>1, <3>2
  <2>5. Lead \/ Publish \/ RelayCommit \/ PublishFails \/ RelayDies \/ UNCHANGED cycle
    <3>1. \A c \in Client : HandlerStep(c) => UNCHANGED cycle
      BY HandlersAdvance
    <3>2. Listen \/ ListenerFails \/ Cleanup => UNCHANGED cycle
      BY DEF Listen, ReadStart, ReadReturn, SkipEntry, CheckGap, Broadcast, ListenerFails, Cleanup
    <3>3. \A w \in Writer : Record(w) \/ Commit(w) \/ Rollback(w) => UNCHANGED cycle
      BY DEF Record, Commit, Rollback
    <3> QED BY <3>1, <3>2, <3>3 DEF Next, Relay, HandlerStep, vars
  <2> QED BY <2>2, <2>3, <2>4, <2>5
<1>7. \A c \in Client : Len(conn'[c].queue) <= QueueSize
  BY QueuesFit
<1> QED BY <1>3, <1>4, <1>7 DEF Limits

\* Every variable keeps its kind; batches, queues, the trimmed part of the stream
\* and the place of the listener keep within their limits.
THEOREM TypeCorrect == Spec => []TypeOK
<1>1. Init => Typed /\ Limits
  <2> SUFFICES ASSUME Init
               PROVE  Limits
    BY InitTyped
  <2>2. cycle.claims <= BatchSize /\ faults <= MaxFaults
    BY RealtimeAssumption DEF Init, NoCycle
  <2>3. \A c \in Client : Len(conn[c].queue) <= QueueSize
    BY NothingThere, RealtimeAssumption DEF Init
  <2> QED BY <2>2, <2>3 DEF Limits
<1>2. (Typed /\ Limits) /\ [Next]_vars => (Typed /\ Limits)'
  BY TypedStep, LimitsStep
<1>3. Typed /\ Limits => TypeOK
  <2> SUFFICES ASSUME Typed, Limits
               PROVE  TypeOK
    OBVIOUS
  <2>1. txn \in [Writer -> {None} \cup [topic : Topic, seq : Sequence]]
    BY DEF Typed, TxnRecord
  <2>2. /\ outbox \in [Sequence -> [topic : Topic \cup {None},
                                    status : {"none", "pending", "published", "deleted"}]]
        /\ topic \in [Topic -> [latest : 0..MaxSequence, floor : 0..MaxSequence]]
    BY DEF Typed, Row, TopicRecord
  <2>3. /\ trimmed \in 0..Len(stream) /\ cycle.marked \subseteq Sequence
        /\ cycle.claims \in 0..BatchSize /\ faults \in 0..MaxFaults
    BY RealtimeAssumption DEF Typed, InStream, Limits, Cycle
  <2>4. listener.batch \in Seq(Sequence) /\ listener.pos \in Dollar..Len(stream)
    BY DEF Typed, InStream, Listener, Dollar
  <2>5. \A c \in Client :
          /\ conn[c].rows \in Seq(Sequence) /\ conn[c].queue \in Seq(Sequence)
          /\ client[c].cursor \in 0..MaxSequence
          /\ client[c].known \subseteq Sequence /\ client[c].overlooked \subseteq Sequence
    BY DEF Typed, Socket, ClientRecord
  <2>6. nextSeq \in 1..MaxSequence + 1 /\ stream \in Seq(Sequence)
    BY DEF Typed
  <2> QED BY <2>1, <2>2, <2>3, <2>4, <2>5, <2>6 DEF TypeOK, Limits
<1> QED BY <1>1, <1>2, <1>3, PTL DEF Spec

-----------------------------------------------------------------------------
(* The listener and the stream. *)

\* The entry a batch begins with.
LEMMA HeadIs ==
  ASSUME Typed, StreamFollows, Reading, listener.batch # <<>>
  PROVE  /\ Head(listener.batch) \in Committed /\ Head(listener.batch) \in Sequence
         /\ Done \in 0 .. Len(stream) - 1 /\ Head(listener.batch) = stream[Done + 1]
         /\ \A m \in Committed : m < Head(listener.batch) => Among(stream, m, Done)
<1>1. listener.batch \in Seq(Sequence) /\ Len(stream) \in Nat
  BY DEF Typed, Listener
<1>2. /\ Len(listener.batch) \in Nat \ {0} /\ Head(listener.batch) = listener.batch[1]
      /\ 1 \in DOMAIN listener.batch /\ Head(listener.batch) \in Sequence
  BY <1>1, FirstOf
<1>3. /\ listener.pos \in Dollar..Len(stream) /\ Len(listener.batch) <= listener.pos
      /\ Head(listener.batch) = stream[listener.pos - Len(listener.batch) + 1]
      /\ Done = listener.pos - Len(listener.batch)
  <2>1. listener.from \in 0..Len(stream) /\ listener.pos \in Dollar..listener.from
    BY DEF Reading
  <2>2. listener.pos \in Dollar..Len(stream)
    BY <1>1, <2>1 DEF Dollar
  <2> QED BY <1>2, <2>2 DEF Reading, Done
<1>4. Done \in 0 .. Len(stream) - 1 /\ Done + 1 \in 1..Len(stream) /\ (Done + 1) - 1 = Done
  BY <1>1, <1>2, <1>3 DEF Dollar
<1> QED BY <1>2, <1>3, <1>4, StreamIs

LEMMA ReadingAlone ==
  ASSUME Typed, StreamFollows, Reading, UNCHANGED listener, Committed \subseteq Committed',
         \/ UNCHANGED <<stream, trimmed>>
         \/ Unpublished # {} /\ Add(Min(Unpublished))
  PROVE  Reading'
<1>1. CASE UNCHANGED <<stream, trimmed>>
  BY <1>1 DEF Reading
<1>2. CASE Unpublished # {} /\ Add(Min(Unpublished))
  <2>1. /\ Len(stream') = Len(stream) + 1 /\ Len(stream) \in Nat
        /\ \A i \in 1..Len(stream) : stream'[i] = stream[i]
        /\ trimmed' \in trimmed..Len(stream)
    BY <1>2, Added DEF Typed
  <2>2. /\ listener.from \in 0..Len(stream) /\ listener.pos \in Dollar..listener.from
        /\ listener.batch # <<>> => Len(listener.batch) <= listener.pos
        /\ DOMAIN listener.batch = 1..Len(listener.batch) /\ Len(listener.batch) \in Nat
    BY DEF Reading, Typed, Listener
  <2>3. \A i \in DOMAIN listener.batch :
          listener.pos - Len(listener.batch) + i \in 1..Len(stream)
    BY <2>1, <2>2 DEF Dollar
  <2>4. listener.from \in 0..Len(stream')
    BY <2>1, <2>2
  <2> QED BY <2>1, <2>3, <2>4 DEF Reading
<1> QED BY <1>1, <1>2

\* Whatever the listener leaves alone, Done and what is behind it stay.
LEMMA BehindAlone ==
  ASSUME Typed, Order, Typed', StreamFollows, Reading, UNCHANGED listener,
         Committed \subseteq Committed',
         \A s \in Committed' \ Committed : \A m \in Committed : m < s,
         \/ UNCHANGED <<stream, trimmed>>
         \/ Unpublished # {} /\ Add(Min(Unpublished))
  PROVE  LeftBehind' \subseteq LeftBehind
<1>1. /\ listener.from \in 0..Len(stream) /\ listener.pos \in Dollar..listener.from
      /\ Len(stream) \in Nat /\ Len(listener.batch) \in Nat
      /\ listener.batch # <<>> => Len(listener.batch) <= listener.pos
      /\ Committed \subseteq Sequence
  BY DEF Reading, Typed, Listener, Committed
<1>2. Done \in 0..Len(stream)
  BY <1>1 DEF Done, Dollar
<1>3. Done' = Done
  BY DEF Done
<1>4. \A m : \A n \in 0..Len(stream) : Among(stream', m, n) <=> Among(stream, m, n)
  BY Prefix
<1>5. ASSUME NEW m \in Committed', Behind(m)', m \notin Committed
      PROVE  FALSE
  <2>1. /\ \A p \in Committed : p < m /\ p # m
        /\ m \in Sequence
    BY <1>1, <1>5 DEF Committed, Sequence
  <2>2. CASE listener.last = None
    <3>1. Among(stream, m, Done)
      BY <1>2, <1>3, <1>4, <1>5, <2>2 DEF Behind
    <3>2. PICK j \in 1..Done : stream[j] = m
      BY <3>1 DEF Among
    <3>3. stream[j] \in Committed
      BY <1>1, <1>2, <3>2, StreamIs
    <3> QED BY <2>1, <3>2, <3>3
  <2>3. CASE listener.last # None
    <3>1. m <= listener.last \/ (listener.checked /\ m < Head(listener.batch))
      BY <1>5, <2>3 DEF Behind
    <3>2. listener.last \in Committed \cup {0} /\ (listener.checked => listener.batch # <<>>)
      BY <2>3 DEF Reading
    <3>3. listener.last < m /\ listener.last \in Int /\ m \in Int
      <4>1. m \in Nat \ {0} /\ \A p \in Committed : p \in Int
        BY <1>1, <2>1, RealtimeAssumption DEF Sequence
      <4>2. CASE listener.last = 0
        BY <4>1, <4>2
      <4>3. CASE listener.last \in Committed
        <5>1. PICK p \in Committed : p = listener.last
          BY <4>3
        <5>2. p < m /\ p \in Int /\ m \in Int
          BY <2>1, <4>1
        <5> QED BY <5>1, <5>2
      <4> QED BY <2>3, <3>2, <4>2, <4>3
    <3>4. listener.checked => Head(listener.batch) < m /\ Head(listener.batch) \in Int
      BY <2>1, <3>2, HeadIs DEF Sequence
    <3> QED BY <3>1, <3>3, <3>4
  <2> QED BY <2>2, <2>3
<1>6. ASSUME NEW m \in Committed, Behind(m)'
      PROVE  Behind(m)
  BY <1>2, <1>3, <1>4, <1>6 DEF Behind
<1> QED BY <1>5, <1>6 DEF LeftBehind

\* The listener reads: what it goes past it has left behind before, or overlooks.
LEMMA ReadStartKeeps ==
  ASSUME Typed, StreamFollows, Reading, ReadStart
  PROVE  \E q \in Seq(Sequence) : Overlook(q) /\ LeftBehind' \subseteq LeftBehind \cup Range(q)
<1> DEFINE q == IF listener.pos = Dollar /\ ~listener.degraded
                  THEN SubSeq(stream, listener.from + 1, Len(stream)) ELSE <<>>
<1>1. Overlook(q) /\ UNCHANGED <<stream, outbox>> /\ listener.pc = "idle"
  BY DEF ReadStart, redis, database
<1>2. /\ listener.batch = <<>> /\ listener.pos \in Dollar..listener.from
      /\ listener.from \in 0..Len(stream) /\ Len(stream) \in Nat
  BY <1>1 DEF Reading, Typed
<1>3. /\ listener'.batch = <<>> /\ listener'.last = listener.last
      /\ listener'.checked = listener.checked /\ listener'.degraded = listener.degraded
      /\ listener'.from = IF listener.pos = Dollar THEN Len(stream) ELSE listener.pos
  BY <1>2, OthersOfListener
<1>4. /\ SubSeq(stream, listener.from + 1, Len(stream)) \in Seq(Sequence)
      /\ \A j \in listener.from + 1 .. Len(stream) :
           stream[j] \in Range(SubSeq(stream, listener.from + 1, Len(stream)))
  <2>1. listener.from + 1 \in Nat \ {0}
    BY <1>2
  <2> QED BY <1>2, <2>1, PartOfStream
<1>5. q \in Seq(Sequence)
  BY <1>4
<1>6. ASSUME NEW m, Behind(m)'
      PROVE  Behind(m) \/ m \in Range(q)
  <2>1. ~listener.degraded
    BY <1>3, <1>6 DEF Behind
  <2>2. CASE listener.last # None
    BY <1>2, <1>3, <1>6, <2>1, <2>2 DEF Behind
  <2>3. CASE listener.last = None
    <3>1. Among(stream, m, listener'.from)
      BY <1>1, <1>3, <1>6, <2>3 DEF Behind, Done, Among
    <3>2. PICK j \in 1..listener'.from : stream[j] = m
      BY <3>1 DEF Among
    <3>3. CASE j <= listener.from
      <4>1. j \in 1..listener.from
        BY <1>2, <1>3, <3>2, <3>3 DEF Dollar
      <4>2. Among(stream, m, listener.from)
        BY <3>2, <4>1 DEF Among
      <4> QED BY <1>2, <2>1, <2>3, <4>2 DEF Behind, Done
    <3>4. CASE ~(j <= listener.from)
      <4>1. listener.pos = Dollar /\ j \in listener.from + 1 .. Len(stream)
        BY <1>2, <1>3, <3>2, <3>4 DEF Dollar
      <4> QED BY <1>4, <2>1, <3>2, <4>1
    <3> QED BY <3>3, <3>4
  <2> QED BY <2>2, <2>3
<1>7. Committed' = Committed
  BY <1>1 DEF Committed
<1> HIDE DEF q
<1>8. LeftBehind' \subseteq LeftBehind \cup Range(q)
  BY <1>6, <1>7 DEF LeftBehind
<1> QED BY <1>1, <1>5, <1>8

LEMMA ReadReturnKeeps ==
  ASSUME Typed, Typed', StreamFollows, Reading, ReadReturn
  PROVE  /\ Reading'
         /\ \E q \in Seq(Sequence) :
              /\ Overlook(q) /\ (listener.degraded => q = <<>>)
              /\ ~listener.degraded => LeftBehind' \subseteq LeftBehind \cup Range(q)
<1>1. UNCHANGED <<stream, trimmed, outbox>>
  BY DEF ReadReturn, redis, database
<1>2. PICK first \in Nat :
        /\ first = (IF listener.from >= trimmed THEN listener.from ELSE trimmed) + 1
        /\ listener'.batch = SubSeq(stream, first, Len(stream))
        /\ listener'.pos = IF listener'.batch = <<>> THEN listener.pos ELSE Len(stream)
  BY ReadIsDone
<1>3. /\ listener'.last = listener.last /\ listener'.checked = listener.checked
      /\ listener'.pc = "batch" <=> listener'.batch # <<>>
      /\ listener'.from = Len(stream) /\ ~listener'.degraded
  BY ReadIsDone
<1>4. /\ listener.pc = "blocked" /\ listener.batch = <<>> /\ ~listener.checked
      /\ listener.from \in 0..Len(stream) /\ listener.pos \in Dollar..Len(stream)
      /\ trimmed \in 0..Len(stream) /\ listener.last \in Committed \cup {0, None}
      /\ stream \in Seq(Sequence) /\ Len(stream) \in Nat
  BY DEF ReadReturn, Reading, Typed, InStream, Listener, Dollar
<1>5. first \in 1 .. Len(stream) + 1 /\ listener.from <= first - 1
  BY <1>2, <1>4
<1>6. /\ listener'.batch \in Seq(Sequence)
      /\ Len(listener'.batch) = Len(stream) - first + 1
      /\ \A i \in 1 .. Len(stream) - first + 1 : listener'.batch[i] = stream[first - 1 + i]
  <2> DEFINE q == SubSeq(stream, first, Len(stream))
  <2>1. /\ q \in Seq(Sequence) /\ Len(q) = Len(stream) - first + 1
        /\ \A i \in 1 .. Len(stream) - first + 1 : q[i] = stream[first - 1 + i]
    BY <1>4, <1>5
  <2> QED BY <1>2, <2>1
<1> DEFINE q == listener'.batch
<1>7. /\ DOMAIN q = 1..Len(q) /\ Len(q) \in Nat /\ (q = <<>> <=> Len(q) = 0)
  BY <1>6
<1> HIDE DEF q
<1>8. /\ listener'.pos \in Dollar..Len(stream) /\ (q # <<>> => Len(q) <= listener'.pos)
      /\ (q # <<>> => listener'.pos = Len(stream))
  <2>1. listener'.pos = IF q = <<>> THEN listener.pos ELSE Len(stream)
    BY <1>2 DEF q
  <2>2. Len(q) = Len(stream) - first + 1
    BY <1>6 DEF q
  <2>3. CASE q = <<>>
    BY <1>4, <2>1, <2>3
  <2>4. CASE q # <<>>
    BY <1>4, <1>5, <2>1, <2>2, <2>4 DEF Dollar
  <2> QED BY <2>3, <2>4
<1>9. \A i \in DOMAIN q : q[i] = stream[listener'.pos - Len(q) + i]
  <2> TAKE i \in DOMAIN q
  <2>1. q # <<>> /\ i \in 1..Len(q)
    BY <1>7
  <2>2. listener'.pos - Len(q) + i = first - 1 + i
    BY <1>4, <1>5, <1>6, <1>8, <2>1 DEF q
  <2> QED BY <1>6, <2>1, <2>2 DEF q
<1>10. Committed' = Committed
  BY <1>1 DEF Committed
<1>11. Reading'
  <2>1. Len(stream) \in 0..Len(stream)
    BY <1>4
  <2> QED BY <1>1, <1>3, <1>4, <1>8, <1>9, <1>10, <2>1 DEF Reading, q
<1>12. Done' = first - 1
  <2>1. CASE q = <<>>
    <3>1. Len(stream) = first - 1
      BY <1>4, <1>5, <1>6, <1>7, <2>1 DEF q
    <3> QED BY <1>3, <2>1, <3>1 DEF Done, q
  <2>2. CASE q # <<>>
    <3>1. Len(stream) - Len(q) = first - 1
      BY <1>4, <1>5, <1>6 DEF q
    <3> QED BY <1>8, <2>2, <3>1 DEF Done, q
  <2> QED BY <2>1, <2>2
<1> DEFINE n == Max({listener.from, trimmed})
           r == IF listener.last = None /\ ~listener.degraded
                  THEN SubSeq(stream, listener.from + 1, (n + 1) - 1) ELSE <<>>
<1>13. Overlook(r)
  BY DEF ReadReturn
<1>14. n + 1 = first /\ n \in Nat
  <2>1. n \in Nat /\ listener.from <= n /\ n <= Len(stream)
    BY BeforeFirst
  <2>2. n = IF listener.from >= trimmed THEN listener.from ELSE trimmed
    BY <1>4, LargerOf
  <2> HIDE DEF n
  <2> QED BY <1>2, <2>1, <2>2
<1> HIDE DEF n
<1>15. /\ SubSeq(stream, listener.from + 1, (n + 1) - 1) \in Seq(Sequence)
       /\ \A j \in listener.from + 1 .. first - 1 :
            stream[j] \in Range(SubSeq(stream, listener.from + 1, (n + 1) - 1))
  <2>1. listener.from + 1 \in Nat \ {0} /\ first - 1 \in Nat /\ first - 1 <= Len(stream)
    BY <1>4, <1>5
  <2>2. (n + 1) - 1 = first - 1
    BY <1>14
  <2> QED BY <2>1, <2>2, PartOfStream
<1>16. r \in Seq(Sequence) /\ (listener.degraded => r = <<>>)
  BY <1>15
<1>17. ASSUME ~listener.degraded, NEW m, Behind(m)'
       PROVE  Behind(m) \/ m \in Range(r)
  <2>1. CASE listener.last # None
    BY <1>3, <1>4, <1>17, <2>1 DEF Behind
  <2>2. CASE listener.last = None
    <3>1. Among(stream, m, first - 1)
      BY <1>1, <1>3, <1>12, <1>17, <2>2 DEF Behind, Among
    <3>2. PICK j \in 1 .. first - 1 : stream[j] = m
      BY <3>1 DEF Among
    <3>3. CASE j <= listener.from
      <4>1. j \in 1..listener.from
        BY <1>4, <3>2, <3>3
      <4>2. Among(stream, m, listener.from)
        BY <3>2, <4>1 DEF Among
      <4> QED BY <1>4, <1>17, <2>2, <4>2 DEF Behind, Done
    <3>4. CASE ~(j <= listener.from)
      <4>1. j \in listener.from + 1 .. first - 1
        BY <1>4, <1>5, <3>2, <3>4
      <4> QED BY <1>15, <1>17, <2>2, <3>2, <4>1
    <3> QED BY <3>3, <3>4
  <2> QED BY <2>1, <2>2
<1> HIDE DEF r
<1>18. ~listener.degraded => LeftBehind' \subseteq LeftBehind \cup Range(r)
  BY <1>10, <1>17 DEF LeftBehind
<1> QED BY <1>11, <1>13, <1>16, <1>18

\* It leaves an entry.
LEMMA EntryKeeps ==
  ASSUME Typed, Typed', StreamFollows, Reading, listener.pc = "batch",
         NEW s \in Committed \cup {0}, listener' = AfterEntry(s),
         UNCHANGED <<stream, trimmed, outbox>>
  PROVE  /\ Reading'
         /\ LeftBehind' = {m \in Committed : m <= s}
<1>1. Committed' = Committed /\ Committed \subseteq Sequence
  BY DEF Committed
<1>2. s \in 0..MaxSequence /\ s # None
  BY <1>1, RealtimeAssumption DEF Sequence
<1>3. /\ listener'.pc = "batch" <=> listener'.batch # <<>>
      /\ listener'.batch = Tail(listener.batch) /\ listener'.last = s
      /\ listener'.pos = listener.pos /\ ~listener'.checked
      /\ listener'.from = listener.from /\ ~listener'.degraded
  BY <1>2, EntryIsDone DEF Reading
<1>4. listener.batch \in Seq(Sequence) /\ listener.batch # <<>>
  BY DEF Typed, Listener
<1> DEFINE q == listener.batch
           n == Len(q)
<1>5. /\ n \in Nat \ {0} /\ Len(Tail(q)) = n - 1 /\ Tail(q) \in Seq(Sequence)
      /\ \A i \in 1 .. n - 1 : Tail(q)[i] = q[i + 1]
  BY <1>4, FirstOf
<1>6. /\ listener.pos \in Int /\ n <= listener.pos
      /\ \A i \in 1..n : q[i] = stream[listener.pos - n + i]
  BY <1>4 DEF Reading, Dollar
<1>7. \A i \in 1 .. n - 1 :
        /\ i + 1 \in 1..n /\ listener.pos - n + (i + 1) = listener.pos - (n - 1) + i
  <2>1. listener.pos \in Int /\ n \in Nat
    BY <1>5, <1>6
  <2>2. \A a, b, i \in Int : i \in 1 .. b - 1 =>
          i + 1 \in 1..b /\ a - b + (i + 1) = a - (b - 1) + i
    OBVIOUS
  <2> HIDE DEF n
  <2>3. \A i \in 1 .. n - 1 : i \in Int
    BY <2>1
  <2> QED BY <2>1, <2>2, <2>3
<1>8. \A i \in DOMAIN Tail(q) : Tail(q)[i] = stream[listener.pos - Len(Tail(q)) + i]
  <2> TAKE i \in DOMAIN Tail(q)
  <2>1. i \in 1 .. n - 1
    BY <1>5
  <2>2. Tail(q)[i] = q[i + 1] /\ i + 1 \in 1..n
    BY <1>5, <1>7, <2>1
  <2>3. q[i + 1] = stream[listener.pos - n + (i + 1)]
    BY <1>6, <2>2
  <2>4. listener.pos - n + (i + 1) = listener.pos - Len(Tail(q)) + i
    BY <1>5, <1>7, <2>1
  <2> QED BY <2>2, <2>3, <2>4
<1>9. Len(Tail(q)) <= listener.pos
  BY <1>5, <1>6
<1>10. Reading'
  BY <1>1, <1>3, <1>6, <1>8, <1>9 DEF Reading
<1>11. \A m : Behind(m)' <=> m <= s
  BY <1>2, <1>3 DEF Behind
<1> QED BY <1>1, <1>10, <1>11 DEF LeftBehind

\* What is below the entry the listener broadcasts, it has left behind.
LEMMA NothingIsSkipped ==
  ASSUME Typed, StreamFollows, Reading, listener.pc = "batch",
         ~Repeated(Head(listener.batch)), ~GapOpen(Head(listener.batch))
  PROVE  \A m \in Committed : m < Head(listener.batch) => m \in LeftBehind
<1> SUFFICES ASSUME NEW m \in Committed, m < Head(listener.batch)
             PROVE  Behind(m)
  BY DEF LeftBehind
<1>1. /\ Head(listener.batch) \in Sequence /\ m \in Sequence
      /\ Among(stream, m, Done) /\ ~listener.degraded
  BY HeadIs DEF Reading, Committed
<1>2. CASE listener.last = None
  BY <1>1, <1>2 DEF Behind
<1>3. CASE listener.last # None /\ listener.checked
  BY <1>1, <1>3 DEF Behind
<1>4. CASE listener.last # None /\ ~listener.checked
  <2>1. listener.last \in 0..MaxSequence
    BY <1>4 DEF Typed, Listener
  <2>2. Head(listener.batch) <= listener.last + 1
    BY <1>1, <1>4, <2>1 DEF GapOpen, Sequence
  <2> QED BY <1>1, <1>4, <2>1, <2>2 DEF Behind, Sequence
<1> QED BY <1>2, <1>3, <1>4

\* A check that finds nothing lost.
LEMMA NothingIsLost ==
  ASSUME Typed, Typed', Topics, StreamFollows, Reading, CheckGap,
         ~Lost(Head(listener.batch))
  PROVE  LeftBehind' \subseteq LeftBehind
<1> DEFINE s == Head(listener.batch)
<1>1. /\ listener'.batch = listener.batch /\ listener'.last = listener.last
      /\ listener'.degraded = listener.degraded
      /\ listener.last # None /\ listener.last \in 0..MaxSequence
      /\ UNCHANGED <<outbox, stream, trimmed>>
  BY OthersOfListener DEF CheckGap, GapOpen, Typed, Listener, database, redis
<1>2. Committed' = Committed
  BY <1>1 DEF Committed
<1>3. ASSUME NEW m \in Committed, listener.last < m, m < s
      PROVE  FALSE
  <2>1. /\ m \in Sequence /\ outbox[m] \in Row /\ outbox[m].status # "none"
        /\ outbox[m].topic \in Topic
        /\ outbox[m].status = "deleted" => m <= topic[outbox[m].topic].floor
    BY DEF Committed, Typed, Topics
  <2>2. ~Stored(m)
    BY <1>3, <2>1 DEF Lost
  <2>3. outbox[m].status = "deleted"
    BY <2>1, <2>2 DEF Stored, Row
  <2>4. topic[outbox[m].topic].floor > listener.last
    <3>1. topic[outbox[m].topic].floor \in Int /\ listener.last \in Int /\ m \in Int
      BY <1>1, <2>1 DEF Typed, TopicRecord, Sequence
    <3> QED BY <1>3, <2>1, <2>3, <3>1
  <2> QED BY <2>1, <2>4 DEF Lost
<1>4. ASSUME NEW m \in Committed, Behind(m)'
      PROVE  Behind(m)
  <2>1. ~listener.degraded /\ (m <= listener.last \/ m < s)
    BY <1>1, <1>4 DEF Behind
  <2>2. m \in Int /\ listener.last \in Int
    BY <1>1 DEF Committed, Sequence
  <2>3. m <= listener.last
    BY <1>3, <2>1, <2>2
  <2> QED BY <1>1, <2>1, <2>3 DEF Behind
<1> QED BY <1>2, <1>4 DEF LeftBehind

LEMMA ReadingStep ==
  ASSUME Typed, Order, StreamFollows, Reading, [Next]_vars, Typed', Order'
  PROVE  Reading'
<1>1. Committed \subseteq Committed'
  BY OrderStep
<1>2. CASE UNCHANGED listener
  <2>1. \/ UNCHANGED <<stream, trimmed>>
        \/ Unpublished # {} /\ Add(Min(Unpublished))
    BY StreamMoves DEF Publish
  <2> QED BY <1>1, <1>2, <2>1, ReadingAlone
<1>3. CASE Listen \/ ListenerFails
  <2>1. UNCHANGED <<stream, trimmed, outbox>>
    BY <1>3 DEF Listen, ReadStart, ReadReturn, SkipEntry, CheckGap, Broadcast, ListenerFails,
                redis, database
  <2>2. Committed' = Committed
    BY <2>1 DEF Committed
  <2>3. CASE ReadReturn
    BY <2>3, ReadReturnKeeps
  <2>4. CASE SkipEntry
    <3>1. listener.last \in Committed \cup {0}
      BY <2>4 DEF SkipEntry, Repeated, Reading
    <3> QED BY <2>1, <2>4, <3>1, EntryKeeps DEF SkipEntry
  <2>5. CASE Broadcast
    <3> DEFINE s == Head(listener.batch)
    <3>1. s \in Committed /\ listener.pc = "batch" /\ listener' = AfterEntry(s)
      BY <2>5, HeadIs DEF Broadcast, Reading
    <3> HIDE DEF s
    <3> QED BY <2>1, <3>1, EntryKeeps
  <2>6. CASE ReadStart
    <3>1. listener.pc = "idle" /\ listener.batch = <<>> /\ ~listener.checked
      BY <2>6 DEF ReadStart, Reading
    <3>2. /\ listener.from \in 0..Len(stream) /\ listener.pos \in Dollar..listener.from
          /\ Len(stream) \in Nat /\ DOMAIN <<>> = {}
      BY StreamIs DEF Reading
    <3>3. /\ listener'.pc = "blocked" /\ listener'.batch = <<>>
          /\ listener'.last = listener.last /\ listener'.pos = listener.pos /\ ~listener'.checked
          /\ listener'.from = IF listener.pos = Dollar THEN Len(stream) ELSE listener.pos
      BY <2>6, <3>1, OthersOfListener
    <3>4. listener'.from \in 0..Len(stream) /\ listener'.pos \in Dollar..listener'.from
      BY <3>2, <3>3 DEF Dollar
    <3> QED BY <2>1, <2>2, <3>2, <3>3, <3>4 DEF Reading
  <2>7. CASE ListenerFails
    <3>1. DOMAIN <<>> = {}
      OBVIOUS
    <3> QED BY <2>1, <2>2, <2>7, <3>1, OthersOfListener DEF Reading
  <2>8. CASE CheckGap
    <3>1. listener.pc = "batch" /\ listener.last # None
      BY <2>8 DEF CheckGap, GapOpen
    <3> QED BY <2>1, <2>2, <2>8, <3>1, OthersOfListener DEF Reading
  <2> QED BY <1>3, <2>3, <2>4, <2>5, <2>6, <2>7, <2>8 DEF Listen
<1>4. \A w \in Writer : Record(w) \/ Commit(w) \/ Rollback(w) => UNCHANGED listener
  BY DEF Record, Commit, Rollback
<1>5. Relay \/ PublishFails \/ RelayDies \/ Cleanup \/ UNCHANGED vars => UNCHANGED listener
  BY DEF Relay, Lead, Publish, RelayCommit, PublishFails, RelayDies, Cleanup, vars
<1>6. \A c \in Client : HandlerStep(c) => UNCHANGED listener
  BY HandlersAdvance
<1> QED BY <1>2, <1>3, <1>4, <1>5, <1>6 DEF Next, HandlerStep

-----------------------------------------------------------------------------
(* The sockets. *)

LEMMA ReplaysExclude ==
  ASSUME Typed, Sockets, [Next]_vars, NEW c \in Client, conn'[c].pc = "read",
         NEW w \in Writer
  PROVE  txn'[w] = None
<1>1. conn[c].pc = "read" => \A v \in Writer : Idle(v)
  BY DEF Sockets
<1>2. conn[c].pc = "read" \/ ~TopicsTaken
  BY TypedStep DEF SocketsMoveOn
<1>3. \A v \in Writer : txn[v] = None
  BY <1>1, <1>2 DEF TopicsTaken, Idle
<1>4. \A v \in Writer : ~Commit(v) /\ ~Rollback(v)
  BY <1>3 DEF Commit, Rollback, Idle
<1>5. \A v \in Writer : ~Record(v)
  BY DEF Record, TopicsShared
<1>6. Relay \/ PublishFails \/ RelayDies \/ Cleanup \/ UNCHANGED vars => UNCHANGED txn
  BY DEF Relay, Lead, Publish, RelayCommit, PublishFails, RelayDies, Cleanup, vars, database
<1>7. Listen \/ ListenerFails => UNCHANGED txn
  BY DEF Listen, ReadStart, ReadReturn, SkipEntry, CheckGap, Broadcast, ListenerFails,
         database
<1>8. \A e \in Client : HandlerStep(e) => UNCHANGED txn
  BY HandlersAdvance
<1> QED BY <1>3, <1>4, <1>5, <1>6, <1>7, <1>8 DEF Next, HandlerStep

LEMMA SocketsAlone ==
  ASSUME Typed, Order, Sockets, [Next]_vars, NEW c \in Client,
         conn'[c] = conn[c], client'[c] = client[c], LeftBehind' \subseteq LeftBehind
  PROVE  SocketInv(conn'[c], View(client'[c]), Committed', StoredSet', LeftBehind')
<1> DEFINE k == conn[c]
           b == View(client[c])
           C == Committed
           S == StoredSet
           B == LeftBehind
           E == Committed'
           T == StoredSet'
           D == LeftBehind'
<1>1. k \in Socket /\ b \in Browser /\ C \in SUBSET Sequence
  BY SocketsAre
<1>2. E \in SUBSET Sequence
  BY DEF Committed
<1>3. C \subseteq E /\ \A s \in E \ C : \A m \in C : m < s
  BY OrderStep
<1>4. SocketInv(k, b, C, S, B) /\ (k.pc = "read" => \A w \in Writer : Idle(w))
  BY DEF Sockets
<1>5. k.pc = "read" => E = C /\ S \subseteq T
  BY <1>4, ReplayReadsOn
<1>6. D \subseteq B
  OBVIOUS
<1> HIDE DEF k, b, C, S, B, E, T, D
<1>7. SocketInv(k, b, E, T, D)
  BY <1>1, <1>2, <1>3, <1>4, <1>5, <1>6, IsLeftAlone
<1> QED BY <1>7 DEF k, b, E, T, D

LEMMA SocketsOverlooked ==
  ASSUME Typed, Sockets, NEW c \in Client, NEW q \in Seq(Sequence), Overlook(q),
         conn'[c] = conn[c], LeftBehind' \subseteq LeftBehind \cup Range(q),
         Committed' = Committed, StoredSet' = StoredSet
  PROVE  SocketInv(conn'[c], View(client'[c]), Committed', StoredSet', LeftBehind')
<1> DEFINE k == conn[c]
           b == View(client[c])
           d == View(client'[c])
           D == LeftBehind'
<1>1. k \in Socket /\ b \in Browser /\ Committed \in SUBSET Sequence
  BY SocketsAre
<1>2. /\ d \in Browser /\ d.cursor = b.cursor /\ b.known \subseteq d.known
      /\ k.registered => Range(q) \subseteq d.known
  BY OverlookIs
<1>3. SocketInv(k, b, Committed, StoredSet, LeftBehind)
  BY DEF Sockets
<1>4. k.registered => D \subseteq LeftBehind \cup Range(q)
  OBVIOUS
<1> HIDE DEF k, b, d, D
<1>5. SocketInv(k, d, Committed, StoredSet, D)
  BY <1>1, <1>2, <1>3, <1>4, IsOverlooked
<1> QED BY <1>5 DEF k, d, D

\* An answer that overlooks nothing leaves the browsers alone.
LEMMA NothingOverlooked ==
  ASSUME Typed, Overlook(<<>>)
  PROVE  client' = client
<1>1. Range(<<>>) = {}
  BY DEF Range
<1>2. ASSUME NEW c \in Client
      PROVE  client'[c] = client[c]
  <2> DEFINE b == client[c]
  <2>1. b \in ClientRecord
    BY SocketsAre
  <2>2. client'[c] = b \/ client'[c] = [b EXCEPT !.overlooked = b.overlooked \cup {}]
    BY <1>1, <2>1 DEF Overlook, ClientRecord
  <2>3. b.overlooked \cup {} = b.overlooked
    OBVIOUS
  <2> HIDE DEF b
  <2>4. [b EXCEPT !.overlooked = b.overlooked] = b
    BY <2>1 DEF ClientRecord
  <2> QED BY <2>2, <2>3, <2>4 DEF b
<1>3. client' = [c \in Client |-> client'[c]] /\ client = [c \in Client |-> client[c]]
  BY DEF Overlook, Typed
<1> QED BY <1>2, <1>3

LEMMA SocketsStep ==
  ASSUME Typed, Order, Topics, StreamFollows, Reading, Sockets,
         [Next]_vars, Typed', Order'
  PROVE  Sockets'
<1> DEFINE Holds(c) ==
             SocketInv(conn'[c], View(client'[c]), Committed', StoredSet', LeftBehind')
<1>1. /\ Committed \subseteq Committed'
      /\ \A s \in Committed' \ Committed : \A m \in Committed : m < s
  BY OrderStep
<1>2. ASSUME UNCHANGED <<listener, conn, client>>, NEW c \in Client
      PROVE  Holds(c)
  <2>1. \/ UNCHANGED <<stream, trimmed>>
        \/ Unpublished # {} /\ Add(Min(Unpublished))
    BY StreamMoves DEF Publish
  <2>2. LeftBehind' \subseteq LeftBehind
    BY <1>1, <1>2, <2>1, BehindAlone
  <2> QED BY <1>2, <2>2, SocketsAlone
<1>3. ASSUME Listen \/ ListenerFails, NEW c \in Client
      PROVE  Holds(c)
  <2>1. UNCHANGED <<stream, trimmed, outbox>>
    BY <1>3 DEF Listen, ReadStart, ReadReturn, SkipEntry, CheckGap, Broadcast, ListenerFails,
                redis, database
  <2>2. Committed' = Committed /\ StoredSet' = StoredSet
    BY <2>1 DEF Committed, StoredSet, Stored
  <2>3. SocketInv(conn[c], View(client[c]), Committed, StoredSet, LeftBehind)
    BY DEF Sockets
  <2>4. CASE conn' = Disconnected(conn) /\ client' = client
    BY <2>2, <2>3, <2>4, ClosesAll
  <2>5. CASE conn' = conn /\ client' = client /\ LeftBehind' \subseteq LeftBehind
    BY <2>5, SocketsAlone
  <2>6. CASE ReadReturn
    <3>1. PICK q \in Seq(Sequence) :
            /\ Overlook(q) /\ (listener.degraded => q = <<>>)
            /\ ~listener.degraded => LeftBehind' \subseteq LeftBehind \cup Range(q)
      BY <2>6, ReadReturnKeeps
    <3>2. CASE listener.degraded
      BY <2>4, <2>6, <3>1, <3>2, NothingOverlooked DEF ReadReturn
    <3>3. CASE ~listener.degraded
      <4>1. conn'[c] = conn[c]
        BY <2>6, <3>3 DEF ReadReturn
      <4> QED BY <2>2, <3>1, <3>3, <4>1, SocketsOverlooked
    <3> QED BY <3>2, <3>3
  <2>7. CASE ReadStart
    <3>1. PICK q \in Seq(Sequence) :
            Overlook(q) /\ LeftBehind' \subseteq LeftBehind \cup Range(q)
      BY <2>7, ReadStartKeeps
    <3>2. conn'[c] = conn[c]
      BY <2>7 DEF ReadStart
    <3> QED BY <2>2, <3>1, <3>2, SocketsOverlooked
  <2>8. CASE ListenerFails
    BY <2>4, <2>8 DEF ListenerFails
  <2>9. CASE SkipEntry
    <3>1. /\ listener.pc = "batch" /\ listener.last \in Committed \cup {0}
          /\ listener.last # None /\ listener' = AfterEntry(listener.last)
      BY <2>9 DEF SkipEntry, Repeated, Reading
    <3>2. LeftBehind' = {m \in Committed : m <= listener.last}
      BY <2>1, <3>1, EntryKeeps
    <3>3. LeftBehind' \subseteq LeftBehind
      BY <3>1, <3>2 DEF LeftBehind, Behind, Reading
    <3> QED BY <2>5, <2>9, <3>3 DEF SkipEntry
  <2>10. CASE CheckGap
    <3>1. CASE Lost(Head(listener.batch))
      BY <2>4, <2>10, <3>1 DEF CheckGap
    <3>2. CASE ~Lost(Head(listener.batch))
      BY <2>5, <2>10, <3>2, NothingIsLost DEF CheckGap
    <3> QED BY <3>1, <3>2
  <2>11. CASE Broadcast
    <3> DEFINE s == Head(listener.batch)
    <3>1. /\ listener.pc = "batch" /\ ~Repeated(s) /\ ~GapOpen(s)
          /\ listener' = AfterEntry(s) /\ conn' = [e \in Client |-> Offer(conn[e], s)]
      BY <2>11 DEF Broadcast
    <3>2. s \in Committed /\ s \in Sequence
      BY <3>1, HeadIs DEF Reading
    <3>3. \A m \in Committed : m < s => m \in LeftBehind
      BY <3>1, NothingIsSkipped
    <3> HIDE DEF s
    <3>4. LeftBehind' = {m \in Committed : m <= s}
      BY <2>1, <3>1, <3>2, EntryKeeps
    <3>5. LeftBehind' \subseteq {m \in Committed : m <= s}
      BY <3>4
    <3>6. SocketInv(conn'[c], View(client[c]), Committed, StoredSet, LeftBehind')
      BY <2>3, <3>1, <3>2, <3>3, <3>5, OffersAll
    <3> QED BY <2>2, <2>11, <3>6 DEF Broadcast
  <2> QED BY <1>3, <2>6, <2>7, <2>8, <2>9, <2>10, <2>11 DEF Listen
<1>4. ASSUME NEW e \in Client, HandlerStep(e), NEW c \in Client
      PROVE  Holds(c)
  <2>1. /\ Advances(e)
        /\ UNCHANGED <<txn, nextSeq, outbox, topic, stream, trimmed, cycle, listener>>
    BY <1>4, HandlersAdvance
  <2>2. /\ Committed' = Committed /\ StoredSet' = StoredSet /\ LeftBehind' = LeftBehind
    BY <2>1 DEF Committed, StoredSet, Stored, LeftBehind, Behind, Done
  <2>3. CASE c = e
    BY <2>1, <2>2, <2>3 DEF Advances, Sockets
  <2>4. CASE c # e
    BY <2>1, <2>2, <2>4, SocketsAlone DEF Advances
  <2> QED BY <2>3, <2>4
<1>5. \A w \in Writer : Record(w) \/ Commit(w) \/ Rollback(w)
                          => UNCHANGED <<listener, conn, client>>
  BY DEF Record, Commit, Rollback
<1>6. Relay \/ PublishFails \/ RelayDies \/ Cleanup \/ UNCHANGED vars
        => UNCHANGED <<listener, conn, client>>
  BY DEF Relay, Lead, Publish, RelayCommit, PublishFails, RelayDies, Cleanup, vars
<1>7. \A c \in Client : Holds(c)
  BY <1>2, <1>3, <1>4, <1>5, <1>6 DEF Next, HandlerStep
<1>8. \A c \in Client : conn'[c].pc = "read" => \A w \in Writer : txn'[w] = None
  BY ReplaysExclude
<1> QED BY <1>7, <1>8 DEF Sockets, Idle

RealtimeInv == Typed /\ Order /\ Topics /\ StreamFollows /\ Reading /\ Sockets

LEMMA InitRealtime ==
  ASSUME Init
  PROVE  RealtimeInv
<1>1. Typed /\ Order
  BY InitTyped, InitOrder
<1>2. Committed = {} /\ Len(stream) = 0 /\ DOMAIN stream = {} /\ Range(stream) = {}
  BY DEF Init, Committed, Range
<1>3. Topics
  BY <1>2 DEF Init, Topics
<1>4. StreamFollows
  BY <1>2 DEF StreamFollows
<1>5. Reading
  <2>1. /\ listener.pc = "idle" /\ listener.pos \in {-1, 0} /\ listener.batch = <<>>
        /\ listener.from = 0 /\ listener.last \in {0, None}
        /\ ~listener.checked /\ ~listener.degraded
    <3>1. CASE listener = Fresh
      BY <3>1 DEF Fresh, Dollar
    <3>2. CASE listener = Settled
      BY <3>2 DEF Fresh, Settled
    <3> QED BY <3>1, <3>2 DEF Init
  <2>2. DOMAIN <<>> = {} /\ listener.pos \in Dollar..0 /\ 0 \in 0..0
    BY <2>1 DEF Dollar
  <2> QED BY <1>2, <2>1, <2>2 DEF Reading
<1>6. Sockets
  <2>1. ASSUME NEW c \in Client
        PROVE  SocketInv(conn[c], View(client[c]), Committed, StoredSet, LeftBehind)
    <3> DEFINE b == View(client[c])
    <3>1. b \in Browser /\ conn[c] = NoSocket /\ b.cursor = 0
      <4>1. client[c] \in ClientRecord /\ b \in Browser /\ client[c].cursor = 0
        BY SocketsAre, <1>1 DEF Init
      <4> QED BY <4>1, ViewIs DEF Init
    <3>2. NoGap(b, Committed)
      BY <1>2 DEF NoGap
    <3> HIDE DEF b
    <3>3. SocketInv(NoSocket, b, Committed, StoredSet, LeftBehind)
      BY <3>1, <3>2, Leaves
    <3> QED BY <3>1, <3>3 DEF b
  <2>2. \A c \in Client : conn[c].pc # "read"
    BY NothingThere DEF Init
  <2> QED BY <2>1, <2>2 DEF Sockets
<1> QED BY <1>1, <1>3, <1>4, <1>5, <1>6 DEF RealtimeInv

\* The relay, the stream, the listener and each socket hang together, from the
\* first read of a listener on and through every failure.
THEOREM RealtimeInvHolds == Spec => []RealtimeInv
<1>1. Init => RealtimeInv
  BY InitRealtime
<1>2. RealtimeInv /\ [Next]_vars => RealtimeInv'
  <2> SUFFICES ASSUME RealtimeInv, [Next]_vars
               PROVE  RealtimeInv'
    OBVIOUS
  <2>1. Typed' /\ Order'
    BY TypedStep, OrderStep DEF RealtimeInv
  <2>2. Topics' /\ StreamFollows' /\ Reading'
    BY <2>1, TopicsStep, StreamStep, ReadingStep DEF RealtimeInv
  <2>3. Sockets'
    BY <2>1, SocketsStep DEF RealtimeInv
  <2> QED BY <2>1, <2>2, <2>3 DEF RealtimeInv
<1> QED BY <1>1, <1>2, PTL DEF Spec

\* A browser misses, below the cursor it consolidated, only what was overlooked:
\* added between two reads from "$", trimmed before the first entry after a
\* failure, or offered to a full queue while its replay went on.
THEOREM NoEventIsMissed == Spec => []OnlyOverlookedIsMissed
<1>1. Spec => []RealtimeInv
  BY RealtimeInvHolds
<1>2. RealtimeInv => OnlyOverlookedIsMissed
  <2> SUFFICES ASSUME RealtimeInv, NEW c \in Client, NEW s \in Committed,
                      s <= client[c].cursor
               PROVE  s \in client[c].known \cup client[c].overlooked
    BY DEF OnlyOverlookedIsMissed
  <2>1. /\ client[c] \in ClientRecord
        /\ SocketInv(conn[c], View(client[c]), Committed, StoredSet, LeftBehind)
    BY SocketsAre DEF RealtimeInv, Sockets
  <2>2. NoGap(View(client[c]), Committed)
    BY <2>1 DEF SocketInv
  <2> QED BY <2>1, <2>2, ViewIs DEF NoGap
<1> QED BY <1>1, <1>2, PTL
=============================================================================
