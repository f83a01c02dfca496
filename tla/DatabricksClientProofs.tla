----------------------- MODULE DatabricksClientProofs -----------------------
(***************************************************************************)
(* Proofs about DatabricksClient for every value of its constants: any size *)
(* of the result, width of a page, budget and number of wrong answers.      *)
(*                                                                          *)
(* What the client makes of an answer is a chain of operators on the call   *)
(* (Paged, Rows, Onward, NextPage, Scheduled, Counted, Stop).  Each has a   *)
(* lemma that says what it makes of a call in which, unless the client was  *)
(* misled, the rows and the links in hand are the next ones of the result   *)
(* (Right) or one of the links gives a wrong answer away (Doomed); the      *)
(* steps of the specification follow from these.                            *)
(***************************************************************************)
EXTENDS DatabricksClient, FiniteSetTheorems, SequenceTheorems, TLAPS

Modes == {"INLINE", "EXTERNAL_LINKS"}

Failures ==
    TimedOut \cup {"protocol", "limit", "statement", "rate limit", "transport", "ambiguous"}

Outcomes == {"none", "rows"} \cup Failures

\* Requests, for a result of sz chunks.
Asked(sz) == {<<"submit", 0>>, <<"poll", 0>>} \cup ({"page", "data"} \X (1..sz))

Lists(sz) == Seq(1..sz)

Chunks(sz) == SUBSET (1..sz)

Links(sz) == Seq([chunk : 1..sz, next : 0..sz])

Calls(sz) ==
    [pc : {"request", "sleep", "cancel", "done"}, how : Modes, id : Nat,
     request : Asked(sz), attempt : 1..MaxAttempts, polls : 0..MaxPolls,
     chunks : 0..MaxChunks, bytes : 0..MaxBytes,
     rows : Lists(sz), links : Links(sz), next : 0..sz, scheduled : Lists(sz),
     seen : Chunks(sz),
     outcome : Outcomes]

Statements == [how : Modes, state : States, truncated : BOOLEAN]

\* len chunks in a row.
Run(from, len) == [i \in 1..len |-> from + i - 1]

\* The rows in hand are the first of the result, the links in hand lead to those that
\* come next, and one link leads to the page after them: that of the page, that of the
\* last chunk, or one that is scheduled already.
Right(c, sz) ==
    LET n == Len(c.rows)
        m == Len(c.links)
        then == IF n + m < sz THEN n + m + 1 ELSE 0
    IN  /\ n + m <= sz /\ c.rows = Run(1, n)
        /\ \A i \in 1..m : c.links[i].chunk = n + i
        /\ \A i \in 1..m : i # m => c.links[i].next = 0
        /\ \/ /\ c.next = then /\ c.scheduled = <<>>
              /\ m > 0 => c.links[m].next = 0
           \/ /\ m > 0 /\ c.links[m].next = then
              /\ c.next = 0 /\ c.scheduled = <<>>
           \/ /\ m = 0 /\ then # 0 /\ c.scheduled = <<then>> /\ c.next = 0

\* A link in hand leads to a page that was followed: the call will fail.
Doomed(c) == LinksOf(c) \cap c.seen # {}

\* A call at each place of the protocol; led astray, its rows may be anything.
CallOK(c, sz, astray) ==
    /\ c \in Calls(sz)
    /\ c.pc \in {"request", "sleep"} => c.outcome = "none"
    /\ c.pc = "cancel" => c.outcome \in TimedOut /\ c.id # 0
    /\ c.outcome = "rows" /\ ~astray => c.rows = Run(1, sz)
    /\ c.pc = "sleep" => c.request[1] \in {"submit", "poll"} /\ c.polls < MaxPolls
    /\ c.pc \in {"request", "sleep"} /\ c.request[1] \in {"submit", "poll"} =>
         c.rows = <<>> /\ c.links = <<>> /\ c.next = 0 /\ c.scheduled = <<>>
    /\ c.pc = "request" /\ c.request[1] = "page" =>
         /\ c.links = <<>> /\ c.next = 0
         /\ ~astray => c.rows = Run(1, c.request[2] - 1) /\ c.scheduled = <<>>
    /\ c.pc = "request" /\ c.request[1] = "data" =>
         /\ c.links # <<>> /\ c.request[2] = Head(c.links).chunk
         /\ c.how = "EXTERNAL_LINKS"
         /\ ~astray => Right(c, sz) \/ Doomed(c)

\* The statement the call is about.
StatementOK ==
    /\ server \in Seq(Statements)
    /\ call.id \in 0..Len(server)
    /\ call.pc = "request" /\ Kind = "submit" => call.id = 0
    /\ call.pc = "sleep" \/ (call.pc = "request" /\ Kind # "submit") => call.id # 0
    /\ call.pc \in {"request", "sleep"} /\ call.id # 0 => server[call.id].how = call.how
    /\ call.pc = "request" /\ Kind \in {"page", "data"} =>
         server[call.id].state = "ok" /\ ~server[call.id].truncated

Running(n) == server[n].state = "running"

\* While the client works, only its statement may run; when it has stopped, one
\* statement at most is left.
OneRuns ==
    /\ \A n \in DOMAIN server :
         Running(n) /\ call.pc \in {"request", "sleep"} => n = call.id
    /\ \A m, n \in DOMAIN server : Running(m) /\ Running(n) => m = n

ClientInv ==
    /\ size \in Sizes /\ oddities \in 0..MaxOddities
    /\ misled \in BOOLEAN /\ late \in BOOLEAN
    /\ CallOK(call, size, misled)
    /\ StatementOK
    /\ OneRuns

-----------------------------------------------------------------------------
(* Sequences of chunks. *)

LEMMA RunTyped ==
    ASSUME NEW sz \in Nat, NEW from \in Nat \ {0}, NEW len \in Nat, from + len - 1 <= sz
    PROVE  /\ Run(from, len) \in Seq(1..sz)
           /\ Len(Run(from, len)) = len
           /\ \A i \in 1..len : Run(from, len)[i] = from + i - 1
           /\ Run(from, 0) = <<>>
<1>1. \A i \in 1..len : from + i - 1 \in 1..sz
  OBVIOUS
<1>2. Run(from, len) \in Seq(1..sz) /\ Len(Run(from, len)) = len
  BY <1>1 DEF Run
<1>3. Run(from, 0) = <<>>
  BY DEF Run
<1> QED BY <1>2, <1>3 DEF Run

\* Rows in hand, and the rows of the chunks that come next.
LEMMA RunsJoin ==
    ASSUME NEW sz \in Nat, NEW n \in Nat, NEW m \in Nat, n + m <= sz
    PROVE  Run(1, n) \o Run(n + 1, m) = Run(1, n + m)
<1> DEFINE s == Run(1, n)
           t == Run(n + 1, m)
           u == Run(1, n + m)
<1>0. ASSUME NEW from \in Nat \ {0}, NEW len \in Nat, from + len - 1 <= sz
      PROVE  /\ Run(from, len) \in Seq(1..sz) /\ Len(Run(from, len)) = len
             /\ \A i \in 1..len : Run(from, len)[i] = from + i - 1
  BY <1>0, RunTyped, Zenon
<1>1. /\ s \in Seq(1..sz) /\ Len(s) = n /\ \A i \in 1..n : s[i] = 1 + i - 1
      /\ t \in Seq(1..sz) /\ Len(t) = m /\ \A i \in 1..m : t[i] = n + 1 + i - 1
      /\ u \in Seq(1..sz) /\ Len(u) = n + m /\ \A i \in 1..(n + m) : u[i] = 1 + i - 1
  <2>1. s \in Seq(1..sz) /\ Len(s) = n /\ \A i \in 1..n : s[i] = 1 + i - 1
    <3>1. 1 \in Nat \ {0} /\ 1 + n - 1 <= sz
      OBVIOUS
    <3> QED BY <3>1, RunTyped
  <2>2. t \in Seq(1..sz) /\ Len(t) = m /\ \A i \in 1..m : t[i] = n + 1 + i - 1
    <3>1. n + 1 \in Nat \ {0} /\ n + 1 + m - 1 <= sz
      OBVIOUS
    <3> QED BY <3>1, <1>0, Zenon
  <2>3. u \in Seq(1..sz) /\ Len(u) = n + m /\ \A i \in 1..(n + m) : u[i] = 1 + i - 1
    <3>1. 1 \in Nat \ {0} /\ n + m \in Nat /\ 1 + (n + m) - 1 <= sz
      OBVIOUS
    <3> QED BY <3>1, <1>0, Zenon
  <2> QED BY <2>1, <2>2, <2>3
<1> HIDE DEF s, t, u
<1>2. /\ s \o t \in Seq(1..sz)
      /\ Len(s \o t) = n + m
      /\ \A i \in 1..(n + m) : (s \o t)[i] = IF i <= n THEN s[i] ELSE t[i - n]
  BY <1>1, ConcatProperties
<1>3. ASSUME NEW i \in 1..(n + m) PROVE (s \o t)[i] = u[i]
  <2>1. CASE i <= n
    BY <1>1, <1>2, <2>1
  <2>2. CASE i > n
    <3>1. i - n \in 1..m /\ t[i - n] = n + 1 + (i - n) - 1
      BY <1>1, <2>2
    <3>0. ~(i <= n)
      BY <2>2
    <3>2. (s \o t)[i] = t[i - n]
      BY <1>2, <3>0, Zenon
    <3>3. u[i] = 1 + i - 1
      BY <1>1
    <3>4. n + 1 + (i - n) - 1 = 1 + i - 1
      OBVIOUS
    <3> QED BY <3>1, <3>2, <3>3, <3>4, Zenon
  <2>3. i <= n \/ i > n
    OBVIOUS
  <2> QED BY <2>1, <2>2, <2>3, Zenon
<1>4. s \o t = u
  <2> DEFINE v == s \o t
  <2>1. v \in Seq(1..sz) /\ Len(v) = n + m
    BY <1>2
  <2>2. \A i \in 1..(n + m) : v[i] = u[i]
    BY <1>3
  <2> HIDE DEF v
  <2>3. v = u
    <3>1. Len(v) = Len(u) /\ \A i \in 1..Len(v) : v[i] = u[i]
      BY <1>1, <2>1, <2>2
    <3> QED BY <1>1, <2>1, <3>1, SeqEqual
  <2> QED BY <2>3 DEF v
<1> QED BY <1>4 DEF s, t, u

\* The first of the links in hand, and the others.
LEMMA FirstLink ==
    ASSUME NEW sz \in Nat, NEW links \in Links(sz), links # <<>>
    PROVE  /\ Head(links) \in [chunk : 1..sz, next : 0..sz] /\ Head(links) = links[1]
           /\ Tail(links) \in Links(sz)
           /\ Len(links) \in Nat \ {0} /\ Len(Tail(links)) = Len(links) - 1
           /\ \A i \in 1..(Len(links) - 1) : Tail(links)[i] = links[i + 1]
<1> DEFINE Link == [chunk : 1..sz, next : 0..sz]
<1>1. links \in Seq(Link) /\ Links(sz) = Seq(Link)
  BY DEF Links
<1> HIDE DEF Link
<1>2. /\ Head(links) \in Link /\ Head(links) = links[1] /\ Tail(links) \in Seq(Link)
      /\ Len(links) \in Nat \ {0} /\ Len(Tail(links)) = Len(links) - 1
      /\ \A i \in 1..(Len(links) - 1) : Tail(links)[i] = links[i + 1]
  BY <1>1
<1> QED BY <1>1, <1>2 DEF Link

LEMMA LinkTyped ==
    ASSUME NEW sz \in Nat, NEW links \in Links(sz)
    PROVE  /\ Len(links) \in Nat /\ DOMAIN links = 1..Len(links)
           /\ \A i \in DOMAIN links :
                /\ links[i] \in [chunk : 1..sz, next : 0..sz]
                /\ links[i].chunk \in 1..sz /\ links[i].next \in 0..sz
<1> DEFINE Link == [chunk : 1..sz, next : 0..sz]
<1>1. links \in Seq(Link)
  BY DEF Links
<1>2. /\ Len(links) \in Nat /\ DOMAIN links = 1..Len(links)
      /\ \A i \in DOMAIN links : links[i] \in Link
  <2> HIDE DEF Link
  <2> QED BY <1>1
<1> QED BY <1>2

\* The links without one of them.
LEMMA OneRemoved ==
    ASSUME NEW sz \in Nat, NEW links \in Links(sz), NEW i \in DOMAIN links
    PROVE  RemoveAt(links, i) \in Links(sz) /\ Len(RemoveAt(links, i)) = Len(links) - 1
<1> DEFINE Link == [chunk : 1..sz, next : 0..sz]
           one == SubSeq(links, 1, i - 1)
           two == SubSeq(links, i + 1, Len(links))
<1>1. links \in Seq(Link) /\ Links(sz) = Seq(Link)
  BY DEF Links
<1> HIDE DEF Link
<1>2. /\ one \in Seq(Link) /\ Len(one) = i - 1
      /\ two \in Seq(Link) /\ Len(two) = Len(links) - i
  BY <1>1
<1>3. RemoveAt(links, i) = one \o two
  BY Zenon DEF RemoveAt
<1> HIDE DEF one, two
<1>4. one \o two \in Seq(Link) /\ Len(one \o two) = (i - 1) + (Len(links) - i)
  BY <1>2, ConcatProperties
<1>5. (i - 1) + (Len(links) - i) = Len(links) - 1
  BY <1>1
<1> QED BY <1>1, <1>3, <1>4, <1>5

-----------------------------------------------------------------------------
(* What the provider may answer. *)

\* A page as the provider should give it.
LEMMA PageIsRight ==
    ASSUME size \in Nat, NEW from \in 1..size, NEW how \in Modes,
           NEW page \in Pages(from, how)
    PROVE  LET len  == Len(page.links)
               then == IF from + len - 1 < size THEN from + len ELSE 0
           IN  /\ page.links \in Links(size) /\ page.next \in 0..size
               /\ len \in Nat \ {0} /\ from + len - 1 <= size
               /\ \A i \in 1..len : page.links[i].chunk = from + i - 1
               /\ \A i \in 1..len : i # len => page.links[i].next = 0
               /\ \/ page.next = then /\ page.links[len].next = 0
                  \/ page.links[len].next = then /\ page.next = 0
               /\ how = "INLINE" => len = 1 /\ page.links[1].next = 0
<1>1. PICK width \in Widths, onLink \in BOOLEAN :
        page = Page(from, how, width, onLink) /\ (how = "INLINE" => ~onLink)
  BY DEF Pages
<1> DEFINE to   == IF how = "INLINE" THEN from
                   ELSE IF from + width - 1 > size THEN size ELSE from + width - 1
           then == IF to < size THEN to + 1 ELSE 0
           len  == to - from + 1
           link == [i \in 1..len |->
                      [chunk |-> from + i - 1,
                       next  |-> IF onLink /\ from + i - 1 = to THEN then ELSE 0]]
<1>2. to \in from..size /\ (how = "INLINE" => to = from)
  <2>1. width \in Nat \ {0}
    BY ClientAssumption
  <2> QED BY <2>1
<1>3. page = [links |-> link, next |-> IF onLink THEN 0 ELSE then]
  BY <1>1, Zenon DEF Page
<1> HIDE DEF to
<1>4. /\ then \in 0..size /\ len \in Nat \ {0} /\ from + len - 1 <= size
      /\ then = IF from + len - 1 < size THEN from + len ELSE 0
      /\ how = "INLINE" => len = 1
      /\ \A i \in 1..len : from + i - 1 \in 1..size /\ (from + i - 1 = to <=> i = len)
  BY <1>2
<1> HIDE DEF then, len
<1>5. /\ \A i \in 1..len : link[i].chunk = from + i - 1
      /\ \A i \in 1..len : link[i].next = IF onLink /\ i = len THEN then ELSE 0
  BY <1>4
<1>6. link \in Links(size) /\ Len(link) = len
  BY <1>4 DEF Links
<1> HIDE DEF link
<1>7. page.links = link /\ page.next = IF onLink THEN 0 ELSE then
  BY <1>3
<1>8. len \in 1..len /\ 0 \in 0..size
  BY <1>4
<1> QED BY <1>1, <1>4, <1>5, <1>6, <1>7, <1>8

\* A wrong page leads somewhere in the result all the same.
LEMMA OddIsTyped ==
    ASSUME size \in Nat, NEW from \in 1..size, NEW how \in Modes,
           NEW page \in OddPages(from, how)
    PROVE  /\ page.links \in Links(size) /\ page.next \in 0..size
           /\ how = "INLINE" => \A i \in 1..Len(page.links) : page.links[i].next = 0
<1>1. PICK p \in Pages(from, how) : page \in Odd(p, how)
  BY DEF OddPages
<1> DEFINE link == p.links
           len == Len(link)
<1>2. /\ link \in Links(size) /\ p.next \in 0..size
      /\ len \in Nat \ {0}
      /\ how = "INLINE" => len = 1 /\ link[1].next = 0
      /\ DOMAIN link = 1..len
  <2>1. /\ link \in Links(size) /\ p.next \in 0..size
        /\ len \in Nat \ {0}
        /\ how = "INLINE" => len = 1 /\ link[1].next = 0
    BY <1>1, PageIsRight
  <2> QED BY <2>1 DEF Links
<1>3. p = [links |-> link, next |-> p.next]
  <2>1. PICK width \in Widths, onLink \in BOOLEAN : p = Page(from, how, width, onLink)
    BY DEF Pages
  <2> QED BY <2>1 DEF Page
<1> HIDE DEF link, len
<1>4. CASE \E n \in 0..size : page = [p EXCEPT !.next = n]
  <2>1. PICK n \in 0..size : page = [p EXCEPT !.next = n]
    BY <1>4
  <2>2. page.links = link /\ page.next = n
    BY <1>3, <2>1
  <2> QED BY <1>2, <2>2 DEF len
<1>5. CASE /\ how # "INLINE"
           /\ \E i \in DOMAIN link, n \in 0..size : page = [p EXCEPT !.links[i].next = n]
  <2>1. PICK i \in DOMAIN link, n \in 0..size : page = [p EXCEPT !.links[i].next = n]
    BY <1>5
  <2>2. page.links = [link EXCEPT ![i].next = n] /\ page.next = p.next
    BY <1>3, <2>1
  <2>3. [link EXCEPT ![i].next = n] \in Links(size)
    <3>1. link[i] \in [chunk : 1..size, next : 0..size]
      BY <1>2, <2>1, LinkTyped
    <3>2. [link[i] EXCEPT !.next = n] \in [chunk : 1..size, next : 0..size]
      BY <3>1
    <3>3. [link EXCEPT ![i].next = n] = [link EXCEPT ![i] = [link[i] EXCEPT !.next = n]]
      BY Zenon
    <3> DEFINE one == [link[i] EXCEPT !.next = n]
    <3>4. [link EXCEPT ![i] = one] \in Links(size)
      <4> HIDE DEF one
      <4>1. one \in [chunk : 1..size, next : 0..size]
        BY <3>2 DEF one
      <4> QED BY <1>2, <2>1, <4>1 DEF Links
    <3> QED BY <3>3, <3>4
  <2> QED BY <1>2, <1>5, <2>2, <2>3
<1>6. CASE \E i \in DOMAIN link :
             page = [links |-> RemoveAt(link, i),
                     next  |-> IF p.next = 0 THEN link[i].next ELSE p.next]
  <2>1. PICK i \in DOMAIN link :
          page = [links |-> RemoveAt(link, i),
                  next  |-> IF p.next = 0 THEN link[i].next ELSE p.next]
    BY <1>6
  <2>2. link[i].next \in 0..size /\ page.links = RemoveAt(link, i)
    BY <1>2, <2>1, LinkTyped
  <2>3. page.next \in 0..size
    BY <1>2, <2>1, <2>2
  <2>4. RemoveAt(link, i) \in Links(size) /\ Len(RemoveAt(link, i)) = len - 1
    BY <1>2, <2>1, OneRemoved DEF len
  <2>5. how = "INLINE" => Len(page.links) = 0
    BY <1>2, <2>2, <2>4
  <2> QED BY <2>2, <2>3, <2>4, <2>5
<1>7. CASE page = [p EXCEPT !.links = <<>>]
  <2>1. page.links = <<>> /\ page.next = p.next
    BY <1>3, <1>7
  <2> QED BY <1>2, <2>1 DEF Links
<1> QED BY <1>1, <1>4, <1>5, <1>6, <1>7 DEF Odd, link

\* What an answer with a page may be.
LEMMA GivenPage ==
    ASSUME size \in Nat, NEW from \in 1..size, NEW how \in Modes, NEW page,
           oddities \in 0..MaxOddities, misled \in BOOLEAN, Gives(page, from, how)
    PROVE  /\ oddities' \in 0..MaxOddities /\ misled' \in BOOLEAN
           /\ misled => misled'
           /\ page.links \in Links(size) /\ page.next \in 0..size
           /\ how = "INLINE" => \A i \in 1..Len(page.links) : page.links[i].next = 0
           /\ ~misled' => page \in Pages(from, how) \/ LinksOf(page) \cap call.seen # {}
<1>1. CASE page \in Pages(from, how) /\ UNCHANGED <<oddities, misled>>
  <2>1. /\ page.links \in Links(size) /\ page.next \in 0..size
        /\ how = "INLINE" => Len(page.links) = 1 /\ page.links[1].next = 0
    BY <1>1, PageIsRight
  <2>2. how = "INLINE" => \A i \in 1..Len(page.links) : page.links[i].next = 0
    <3>1. \A i \in 1..1 : i = 1
      OBVIOUS
    <3> QED BY <2>1, <3>1
  <2>3. oddities' = oddities /\ misled' = misled
    BY <1>1
  <2> QED BY <1>1, <2>1, <2>2, <2>3
<1>2. CASE /\ page \in OddPages(from, how)
           /\ oddities < MaxOddities /\ oddities' = oddities + 1
           /\ misled' = (misled \/ LinksOf(page) \cap call.seen = {})
  <2>1. /\ page.links \in Links(size) /\ page.next \in 0..size
        /\ how = "INLINE" => \A i \in 1..Len(page.links) : page.links[i].next = 0
    BY <1>2, OddIsTyped
  <2>2. oddities' \in 0..MaxOddities
    BY <1>2, ClientAssumption
  <2>3. /\ misled' \in BOOLEAN
        /\ misled => misled'
        /\ ~misled' => LinksOf(page) \cap call.seen # {}
    <3> DEFINE unknown == LinksOf(page) \cap call.seen = {}
    <3>1. misled' = (misled \/ unknown)
      BY <1>2
    <3> HIDE DEF unknown
    <3>2. CASE misled
      BY <3>1, <3>2
    <3>3. CASE ~misled /\ unknown
      BY <3>1, <3>3
    <3>4. CASE ~misled /\ ~unknown
      BY <3>1, <3>4 DEF unknown
    <3> QED BY <3>2, <3>3, <3>4
  <2> QED BY <2>1, <2>2, <2>3
<1> QED BY <1>1, <1>2 DEF Gives

-----------------------------------------------------------------------------
(* What the operators make of a call. *)

LEMMA RequestsShown ==
    ASSUME NEW sz \in Nat
    PROVE  /\ <<"submit", 0>> \in Asked(sz) /\ <<"poll", 0>> \in Asked(sz)
           /\ \A n \in 1..sz : <<"page", n>> \in Asked(sz) /\ <<"data", n>> \in Asked(sz)
           /\ \A r \in Asked(sz) :
                /\ r[1] \in {"submit", "poll", "page", "data"}
                /\ r[1] \in {"page", "data"} => r[2] \in 1..sz
  BY DEF Asked

LEMMA FirstAttempt == 1 \in 1..MaxAttempts
  BY ClientAssumption

LEMMA ListsShown ==
    ASSUME NEW sz \in Nat
    PROVE  <<>> \in Lists(sz) /\ <<>> \in Links(sz) /\ 0 \in 0..sz /\ {} \in Chunks(sz)
  BY DEF Lists, Links, Chunks

LEMMA OutcomesShown ==
    /\ TimedOut \subseteq Failures /\ Failures \subseteq Outcomes
    /\ "none" \in Outcomes /\ "rows" \in Outcomes
    /\ "none" \notin Failures /\ "rows" \notin Failures
    /\ "limit" \notin TimedOut /\ "limit" \in Failures
  BY DEF Outcomes, Failures, TimedOut

\* A call that stops returns nothing.
LEMMA Stopped ==
    ASSUME NEW sz \in Nat, NEW c \in Calls(sz), NEW outcome \in Failures, NEW astray
    PROVE  LET d == Stop(c, outcome)
           IN  /\ CallOK(d, sz, astray)
               /\ d.pc \in {"cancel", "done"} /\ d.id = c.id /\ d.how = c.how
               /\ outcome \notin TimedOut => d.pc = "done"
<1> DEFINE d == Stop(c, outcome)
<1>1. d \in Calls(sz)
  BY OutcomesShown, ListsShown DEF Stop, Calls
<1>2. /\ d.pc = IF outcome \in TimedOut /\ c.id # 0 THEN "cancel" ELSE "done"
      /\ d.id = c.id /\ d.how = c.how /\ d.outcome = outcome
  BY DEF Stop, Calls
<1> HIDE DEF d
<1>3. CallOK(d, sz, astray)
  BY <1>1, <1>2, OutcomesShown DEF CallOK
<1> QED BY <1>2, <1>3, OutcomesShown DEF d

\* A submission: of the first statement, or of the fallback to external links.
LEMMA Submitted ==
    ASSUME NEW sz \in Nat, NEW c \in Calls(sz), NEW how \in Modes, NEW astray,
           c.rows = <<>>, c.links = <<>>, c.next = 0, c.scheduled = <<>>, c.outcome = "none"
    PROVE  LET d == Submit(c, how)
           IN  /\ CallOK(d, sz, astray)
               /\ d.pc = "request" /\ d.request = <<"submit", 0>> /\ d.id = 0 /\ d.how = how
<1> DEFINE d == Submit(c, how)
<1>1. d \in Calls(sz)
  <2>1. 0 \in Nat /\ 1 \in 1..MaxAttempts
    BY ClientAssumption
  <2> QED BY <2>1, RequestsShown DEF Submit, Request, Calls
<1>2. /\ d.pc = "request" /\ d.request = <<"submit", 0>> /\ d.id = 0 /\ d.how = how
      /\ d.rows = <<>> /\ d.links = <<>> /\ d.next = 0 /\ d.scheduled = <<>>
      /\ d.outcome = "none"
  BY DEF Submit, Request, Calls
<1> HIDE DEF d
<1> QED BY <1>1, <1>2 DEF CallOK, d

\* register_chunk
LEMMA CountedCall ==
    ASSUME NEW sz \in Nat, NEW c \in Calls(sz), c.pc # "done"
    PROVE  LET d == Counted(c)
           IN  \/ d.pc = "done" /\ d = Stop(c, "limit")
               \/ d \in Calls(sz) /\ d = [c EXCEPT !.chunks = c.chunks + 1]
<1>1. CASE c.chunks >= MaxChunks
  BY <1>1, OutcomesShown DEF Counted, Stop, Calls
<1>2. CASE ~(c.chunks >= MaxChunks)
  BY <1>2, ClientAssumption DEF Counted, Calls
<1> QED BY <1>1, <1>2

\* More rows are in hand.
HasRead(c, d, chunks, sz) ==
    /\ d \in Calls(sz) /\ d.pc = c.pc /\ d.outcome = c.outcome
    /\ d.id = c.id /\ d.how = c.how /\ d.rows = c.rows \o chunks
    /\ d.links = c.links /\ d.next = c.next /\ d.scheduled = c.scheduled /\ d.seen = c.seen

\* consume_bytes and consume_rows.
LEMMA RowsTaken ==
    ASSUME NEW sz \in Nat, NEW c \in Calls(sz), c.pc = "request", NEW chunks \in Lists(sz)
    PROVE  LET d == Rows(c, chunks)
           IN  \/ d.pc = "done" /\ d = Stop(c, "limit")
               \/ HasRead(c, d, chunks, sz)
<1>1. Len(chunks) \in Nat /\ c.rows \o chunks \in Lists(sz)
  BY DEF Calls, Lists
<1>2. CASE c.bytes + Len(chunks) > MaxBytes \/ Len(c.rows) + Len(chunks) > MaxRows
  BY <1>2, Stopped, OutcomesShown DEF Rows
<1>3. CASE ~(c.bytes + Len(chunks) > MaxBytes \/ Len(c.rows) + Len(chunks) > MaxRows)
  <2> DEFINE bytes == c.bytes + Len(chunks)
             rows == c.rows \o chunks
             d == [c EXCEPT !.bytes = bytes, !.rows = rows]
  <2>1. Rows(c, chunks) = d
    BY <1>3 DEF Rows
  <2>2. bytes \in 0..MaxBytes
    <3>1. c.bytes \in Nat /\ MaxBytes \in Nat
      BY ClientAssumption DEF Calls
    <3> QED BY <1>1, <1>3, <3>1
  <2>3. rows \in Lists(sz)
    BY <1>1
  <2> HIDE DEF bytes, rows
  <2>4. d \in Calls(sz)
    BY <2>2, <2>3 DEF Calls
  <2>5. /\ d.pc = c.pc /\ d.outcome = c.outcome
        /\ d.id = c.id /\ d.how = c.how /\ d.rows = rows
        /\ d.links = c.links /\ d.next = c.next
        /\ d.scheduled = c.scheduled /\ d.seen = c.seen
    BY DEF Calls
  <2> HIDE DEF d
  <2> QED BY <2>1, <2>4, <2>5 DEF HasRead, rows
<1> QED BY <1>2, <1>3

\* After an answer of a page or of a link: the call asks for a page or a link of the
\* same statement, or has ended.
Went(c, d, sz, astray) ==
    /\ CallOK(d, sz, astray)
    /\ d.id = c.id /\ d.how = c.how
    /\ d.pc \in {"request", "done"}
    /\ d.pc = "request" => d.request[1] \in {"page", "data"}

LEMMA StoppedHere ==
    ASSUME NEW sz \in Nat, NEW c \in Calls(sz), NEW outcome \in {"limit", "protocol"},
           NEW astray
    PROVE  Went(c, Stop(c, outcome), sz, astray) /\ Stop(c, outcome).pc = "done"
<1>1. outcome \in Failures /\ outcome \notin TimedOut
  BY DEF Failures, TimedOut
<1> QED BY <1>1, Stopped DEF Went

\* register_next_link
Registers(c, d, link, sz) ==
    /\ link # 0 /\ link \notin c.seen
    /\ d \in Calls(sz) /\ d.pc = c.pc /\ d.outcome = c.outcome /\ d.id = c.id
    /\ d.how = c.how /\ d.rows = c.rows /\ d.links = c.links /\ d.next = c.next
    /\ d.scheduled = Append(c.scheduled, link) /\ d.seen = c.seen \cup {link}

LEMMA ScheduledCall ==
    ASSUME NEW sz \in Nat, NEW c \in Calls(sz), c.pc = "request", NEW link \in 0..sz
    PROVE  LET d == Scheduled(c, link)
           IN  \/ d = Stop(c, "protocol") \/ d = Stop(c, "limit")
               \/ link = 0 /\ d = c
               \/ Registers(c, d, link, sz)
<1>1. CASE link = 0
  BY <1>1 DEF Scheduled
<1>2. CASE link # 0 /\ link \in c.seen
  BY <1>2 DEF Scheduled
<1>3. CASE link # 0 /\ link \notin c.seen /\ Cardinality(c.seen) >= MaxChunks
  BY <1>3 DEF Scheduled
<1>4. CASE link # 0 /\ link \notin c.seen /\ ~(Cardinality(c.seen) >= MaxChunks)
  <2> DEFINE scheduled == Append(c.scheduled, link)
             seen == c.seen \cup {link}
             d == [c EXCEPT !.scheduled = scheduled, !.seen = seen]
  <2>1. Scheduled(c, link) = d
    BY <1>4 DEF Scheduled
  <2>2. scheduled \in Lists(sz) /\ seen \in Chunks(sz)
    <3>1. link \in 1..sz
      BY <1>4
    <3> QED BY <3>1 DEF Calls, Lists, Chunks
  <2> HIDE DEF scheduled, seen
  <2>3. d \in Calls(sz)
    BY <2>2 DEF Calls
  <2>4. /\ d.pc = c.pc /\ d.outcome = c.outcome /\ d.id = c.id
        /\ d.how = c.how /\ d.rows = c.rows /\ d.links = c.links /\ d.next = c.next
        /\ d.scheduled = scheduled /\ d.seen = seen
    BY DEF Calls
  <2> HIDE DEF d
  <2> QED BY <1>4, <2>1, <2>3, <2>4 DEF Registers, scheduled, seen
<1> QED BY <1>1, <1>2, <1>3, <1>4

\* A request for a chunk or a page.
LEMMA Asks ==
    ASSUME NEW sz \in Nat, NEW c \in Calls(sz), c.outcome = "none",
           NEW what \in {"page", "data"}, NEW chunk \in 1..sz,
           NEW d, d = Request(c, <<what, chunk>>)
    PROVE  /\ d \in Calls(sz) /\ d.pc = "request" /\ d.outcome = "none"
           /\ d.id = c.id /\ d.how = c.how
           /\ d.request[1] = what /\ d.request[2] = chunk
           /\ d.rows = c.rows /\ d.links = c.links /\ d.next = c.next
           /\ d.scheduled = c.scheduled /\ d.seen = c.seen
<1> DEFINE request == <<what, chunk>>
<1>1. request \in Asked(sz) /\ request[1] = what /\ request[2] = chunk
  BY RequestsShown
<1> HIDE DEF request
<1>2. d = [c EXCEPT !.pc = "request", !.request = request, !.attempt = 1]
  BY DEF Request, request
<1>3. d \in Calls(sz)
  BY <1>1, <1>2, FirstAttempt DEF Calls
<1>4. /\ d.pc = "request" /\ d.outcome = "none" /\ d.id = c.id /\ d.how = c.how
      /\ d.request = request
      /\ d.rows = c.rows /\ d.links = c.links /\ d.next = c.next
      /\ d.scheduled = c.scheduled /\ d.seen = c.seen
  BY <1>2 DEF Calls
<1> QED BY <1>1, <1>3, <1>4

\* With no link in hand the scheduled page is asked for, or the rows are all.
LEMMA WentNext ==
    ASSUME NEW sz \in Nat, NEW c \in Calls(sz), c.pc = "request", c.outcome = "none",
           c.links = <<>>, c.next = 0, NEW astray, NEW n \in Nat,
           ~astray => /\ c.rows = Run(1, n)
                      /\ \/ c.scheduled = <<>> /\ n = sz
                         \/ c.scheduled = <<n + 1>>
    PROVE  Went(c, NextPage(c), sz, astray)
<1> DEFINE counted == IF c.scheduled # <<>> /\ c.how = "INLINE" THEN Counted(c) ELSE c
<1>1. NextPage(c) =
        IF counted.pc = "done" THEN counted
        ELSE IF counted.scheduled = <<>>
          THEN [counted EXCEPT !.pc = "done", !.outcome = "rows"]
        ELSE Request([counted EXCEPT !.scheduled = Tail(@)],
                     <<"page", Head(counted.scheduled)>>)
  BY DEF NextPage
<1>2. \/ counted.pc = "done" /\ counted = Stop(c, "limit")
      \/ /\ counted \in Calls(sz) /\ counted.pc = "request" /\ counted.outcome = "none"
         /\ counted.id = c.id /\ counted.how = c.how /\ counted.rows = c.rows
         /\ counted.links = <<>> /\ counted.next = 0 /\ counted.scheduled = c.scheduled
  <2>1. CASE Counted(c).pc = "done" /\ Counted(c) = Stop(c, "limit")
    BY <2>1
  <2>2. CASE Counted(c) \in Calls(sz) /\ Counted(c) = [c EXCEPT !.chunks = c.chunks + 1]
    BY <2>2 DEF Calls
  <2> QED BY <2>1, <2>2, CountedCall
<1> HIDE DEF counted
<1>3. CASE counted.pc = "done" /\ counted = Stop(c, "limit")
  BY <1>1, <1>3, StoppedHere
<1>4. CASE /\ counted \in Calls(sz) /\ counted.pc = "request" /\ counted.outcome = "none"
           /\ counted.id = c.id /\ counted.how = c.how /\ counted.rows = c.rows
           /\ counted.links = <<>> /\ counted.next = 0 /\ counted.scheduled = c.scheduled
  <2>1. CASE c.scheduled = <<>>
    <3> DEFINE d == [counted EXCEPT !.pc = "done", !.outcome = "rows"]
    <3>1. NextPage(c) = d
      BY <1>1, <1>4, <2>1
    <3>2. /\ d \in Calls(sz) /\ d.id = c.id /\ d.how = c.how
          /\ d.pc = "done" /\ d.outcome = "rows" /\ d.rows = c.rows
      BY <1>4, OutcomesShown DEF Calls
    <3> HIDE DEF d
    <3>3. ~astray => d.rows = Run(1, sz)
      BY <2>1, <3>2
    <3>4. CallOK(d, sz, astray)
      BY <3>2, <3>3 DEF CallOK
    <3> QED BY <3>1, <3>2, <3>4 DEF Went
  <2>2. CASE c.scheduled # <<>>
    <3> DEFINE link == Head(c.scheduled)
               rest == Tail(c.scheduled)
               e == [counted EXCEPT !.scheduled = rest]
               d == Request(e, <<"page", link>>)
    <3>1. NextPage(c) = d
      BY <1>1, <1>4, <2>2
    <3>2. link \in 1..sz /\ rest \in Lists(sz)
      <4> DEFINE chunk == 1..sz
      <4>1. c.scheduled \in Seq(chunk) /\ Lists(sz) = Seq(chunk)
        BY DEF Calls, Lists
      <4> HIDE DEF chunk
      <4>2. link \in chunk /\ rest \in Seq(chunk)
        BY <2>2, <4>1
      <4> QED BY <4>1, <4>2 DEF chunk
    <3>3. ~astray => link = n + 1 /\ rest = <<>>
      <4>1. ASSUME NEW x PROVE Head(<<x>>) = x /\ Tail(<<x>>) = <<>>
        OBVIOUS
      <4>2. ~astray => c.scheduled = <<n + 1>>
        BY <2>2
      <4> QED BY <4>1, <4>2
    <3> HIDE DEF link, rest
    <3>4. /\ e \in Calls(sz) /\ e.outcome = "none" /\ e.id = c.id /\ e.how = c.how
          /\ e.rows = c.rows /\ e.links = <<>> /\ e.next = 0 /\ e.scheduled = rest
      BY <1>4, <3>2 DEF Calls
    <3> HIDE DEF e
    <3>5. /\ d \in Calls(sz) /\ d.pc = "request" /\ d.outcome = "none"
          /\ d.id = e.id /\ d.how = e.how
          /\ d.request[1] = "page" /\ d.request[2] = link
          /\ d.rows = e.rows /\ d.links = e.links /\ d.next = e.next
          /\ d.scheduled = e.scheduled
      BY <3>2, <3>4, Asks
    <3> HIDE DEF d
    <3>6. ~astray => d.rows = Run(1, d.request[2] - 1) /\ d.scheduled = <<>>
      <4>1. n + 1 - 1 = n
        OBVIOUS
      <4>2. ~astray => d.request[2] - 1 = n
        BY <3>3, <3>5, <4>1
      <4>3. ~astray => c.rows = Run(1, n)
        OBVIOUS
      <4>4. d.rows = c.rows /\ d.scheduled = rest
        BY <3>4, <3>5
      <4> QED BY <3>3, <4>2, <4>3, <4>4
    <3>7. CallOK(d, sz, astray)
      BY <3>4, <3>5, <3>6 DEF CallOK
    <3> QED BY <3>1, <3>4, <3>5, <3>7 DEF Went
  <2> QED BY <2>1, <2>2
<1> QED BY <1>2, <1>3, <1>4

LEMMA WentOnward ==
    ASSUME NEW sz \in Nat, NEW c \in Calls(sz), c.pc = "request", c.outcome = "none",
           NEW astray, ~astray => Right(c, sz) \/ Doomed(c),
           c.links # <<>> => c.how = "EXTERNAL_LINKS"
    PROVE  Went(c, Onward(c), sz, astray)
<1>1. CASE c.links # <<>>
  <2> DEFINE more == Counted(c)
             link == Head(c.links)
             d == Request(more, <<"data", link.chunk>>)
  <2>1. link.chunk \in 1..sz
    <3>1. c.links \in Links(sz)
      BY DEF Calls
    <3>2. link \in [chunk : 1..sz, next : 0..sz]
      BY <1>1, <3>1, FirstLink
    <3> QED BY <3>2
  <2>2. \/ more.pc = "done" /\ more = Stop(c, "limit")
        \/ more \in Calls(sz) /\ more = [c EXCEPT !.chunks = c.chunks + 1]
    BY CountedCall
  <2>3. CASE more.pc = "done" /\ more = Stop(c, "limit")
    <3>1. Onward(c) = Stop(c, "limit")
      BY <1>1, <2>3 DEF Onward
    <3> QED BY <3>1, StoppedHere
  <2>4. CASE more \in Calls(sz) /\ more = [c EXCEPT !.chunks = c.chunks + 1]
    <3>1. /\ more.pc = "request" /\ more.outcome = "none"
          /\ more.id = c.id /\ more.how = c.how /\ more.rows = c.rows
          /\ more.links = c.links /\ more.next = c.next
          /\ more.scheduled = c.scheduled /\ more.seen = c.seen
      BY <2>4 DEF Calls
    <3>2. Onward(c) = d
      BY <1>1, <3>1 DEF Onward
    <3> HIDE DEF more, link
    <3>3. /\ d \in Calls(sz) /\ d.pc = "request" /\ d.outcome = "none"
          /\ d.id = c.id /\ d.how = c.how
          /\ d.request[1] = "data" /\ d.request[2] = link.chunk
          /\ d.rows = c.rows /\ d.links = c.links /\ d.next = c.next
          /\ d.scheduled = c.scheduled /\ d.seen = c.seen
      <4>1. "data" \in {"page", "data"} /\ more \in Calls(sz)
        BY <2>4
      <4> QED BY <2>1, <3>1, <4>1, Asks
    <3> HIDE DEF d
    <3>4. ~astray => Right(d, sz) \/ Doomed(d)
      <4>1. Right(c, sz) => Right(d, sz)
        BY <3>3 DEF Right
      <4>2. Doomed(c) => Doomed(d)
        BY <3>3 DEF Doomed, LinksOf
      <4> QED BY <4>1, <4>2
    <3>5. CallOK(d, sz, astray)
      BY <1>1, <3>3, <3>4 DEF CallOK, link
    <3> QED BY <3>2, <3>3, <3>5 DEF Went
  <2> QED BY <2>2, <2>3, <2>4
<1>2. CASE c.links = <<>>
  <2> DEFINE link == c.next
             e == [c EXCEPT !.next = 0]
             d == Scheduled(e, link)
             n == Len(c.rows)
  <2>1. Onward(c) = NextPage(d)
    BY <1>2 DEF Onward
  <2>2. /\ e \in Calls(sz) /\ e.pc = "request" /\ e.outcome = "none" /\ e.id = c.id
        /\ e.how = c.how /\ e.rows = c.rows /\ e.links = <<>> /\ e.next = 0
        /\ e.scheduled = c.scheduled /\ e.seen = c.seen
    <3>1. 0 \in 0..sz
      OBVIOUS
    <3> QED BY <1>2, <3>1 DEF Calls
  <2>3. link \in 0..sz /\ n \in Nat /\ Len(c.links) = 0 /\ 0 \notin c.seen
    BY <1>2 DEF Calls, Lists, Chunks
  <2>4. LinksOf(c) = {link}
    <3>1. DOMAIN c.links = {}
      BY <1>2
    <3> QED BY <3>1 DEF LinksOf
  <2>5. Right(c, sz) =>
          /\ n <= sz /\ c.rows = Run(1, n)
          /\ \/ link = (IF n < sz THEN n + 1 ELSE 0) /\ c.scheduled = <<>>
             \/ link = 0 /\ c.scheduled = <<n + 1>>
    BY <1>2, <2>3 DEF Right
  <2> HIDE DEF e, d, n, link
  <2>6. \/ d = Stop(e, "protocol") \/ d = Stop(e, "limit")
        \/ link = 0 /\ d = e
        \/ Registers(e, d, link, sz)
    BY <2>2, <2>3, ScheduledCall DEF d
  <2>7. CASE d = Stop(e, "protocol") \/ d = Stop(e, "limit")
    <3>1. Went(e, d, sz, astray) /\ d.pc = "done"
      BY <2>2, <2>7, StoppedHere
    <3>2. NextPage(d) = d
      BY <3>1 DEF NextPage
    <3> QED BY <2>1, <2>2, <3>1, <3>2 DEF Went
  <2>8. CASE link = 0 /\ d = e
    <3>1. ~astray => Right(c, sz)
      BY <2>3, <2>4, <2>8 DEF Doomed
    <3>2. ~astray => /\ d.rows = Run(1, n)
                     /\ \/ d.scheduled = <<>> /\ n = sz
                        \/ d.scheduled = <<n + 1>>
      <4>1. ~astray => \/ 0 = (IF n < sz THEN n + 1 ELSE 0) /\ c.scheduled = <<>>
                       \/ c.scheduled = <<n + 1>>
        BY <2>5, <2>8, <3>1
      <4>2. n <= sz /\ 0 = (IF n < sz THEN n + 1 ELSE 0) => n = sz
        BY <2>3
      <4> QED BY <2>2, <2>5, <2>8, <3>1, <4>1, <4>2
    <3>3. Went(d, NextPage(d), sz, astray)
      BY <2>2, <2>3, <2>8, <3>2, WentNext
    <3> QED BY <2>1, <2>2, <2>8, <3>3 DEF Went
  <2>9. CASE Registers(e, d, link, sz)
    <3>1. /\ link # 0 /\ link \notin c.seen
          /\ d \in Calls(sz) /\ d.pc = "request" /\ d.outcome = "none" /\ d.id = c.id
          /\ d.how = c.how /\ d.rows = c.rows /\ d.links = <<>> /\ d.next = 0
          /\ d.scheduled = Append(c.scheduled, link)
      BY <2>2, <2>9 DEF Registers
    <3>2. ~astray => Right(c, sz)
      BY <2>4, <3>1 DEF Doomed
    <3>3. ~astray => d.rows = Run(1, n) /\ d.scheduled = <<n + 1>>
      <4>1. ~astray => /\ c.rows = Run(1, n)
                       /\ link = (IF n < sz THEN n + 1 ELSE 0) /\ c.scheduled = <<>>
        BY <2>5, <3>1, <3>2
      <4>2. ~astray => link = n + 1
        BY <3>1, <4>1
      <4>3. Append(<<>>, n + 1) = <<n + 1>>
        OBVIOUS
      <4> QED BY <3>1, <4>1, <4>2, <4>3
    <3>4. Went(d, NextPage(d), sz, astray)
      BY <2>3, <3>1, <3>3, WentNext
    <3> QED BY <2>1, <3>1, <3>4 DEF Went
  <2> QED BY <2>6, <2>7, <2>8, <2>9
<1> QED BY <1>1, <1>2

\* The rows of an inline page follow those in hand.
LEMMA RightInline ==
    ASSUME size \in Nat, NEW from \in 1..size, NEW c \in Calls(size),
           NEW page \in Pages(from, "INLINE"),
           c.links = <<>>, c.next = page.next, c.scheduled = <<>>,
           c.rows = Run(1, from - 1) \o [i \in DOMAIN page.links |-> page.links[i].chunk]
    PROVE  Right(c, size)
<1> DEFINE chunks == [i \in DOMAIN page.links |-> page.links[i].chunk]
<1>1. /\ page.links \in Links(size) /\ Len(page.links) = 1 /\ page.links[1].chunk = from
      /\ page.links[1].next = 0
      /\ page.next = (IF from < size THEN from + 1 ELSE 0)
  <2>1. "INLINE" \in Modes
    BY DEF Modes
  <2>2. /\ page.links \in Links(size) /\ Len(page.links) = 1
        /\ \A i \in 1..1 : page.links[i].chunk = from + i - 1
        /\ page.links[1].next = 0
        /\ \/ page.next = IF from + 1 - 1 < size THEN from + 1 ELSE 0
           \/ page.links[1].next = (IF from + 1 - 1 < size THEN from + 1 ELSE 0)
              /\ page.next = 0
    BY <2>1, PageIsRight
  <2>3. from + 1 - 1 = from
    OBVIOUS
  <2>4. page.links[1].chunk = from
    BY <2>2
  <2> QED BY <2>2, <2>3, <2>4
<1>2. chunks = Run((from - 1) + 1, 1)
  <2>1. DOMAIN page.links = 1..1
    BY <1>1 DEF Links
  <2>2. \A i \in 1..1 : page.links[i].chunk = (from - 1) + 1 + i - 1
    BY <1>1
  <2> QED BY <2>1, <2>2 DEF Run
<1> HIDE DEF chunks
<1> DEFINE n == from - 1
<1>3. n \in Nat /\ n + 1 <= size /\ n + 1 = from
  OBVIOUS
<1>4. c.rows = Run(1, n + 1)
  <2>1. Run(1, n) \o Run(n + 1, 1) = Run(1, n + 1)
    <3> HIDE DEF n
    <3> QED BY <1>3, RunsJoin
  <2> QED BY <1>2, <2>1 DEF chunks
<1> HIDE DEF n
<1>5. Len(c.rows) = from
  <2>1. 1 \in Nat \ {0} /\ n + 1 \in Nat /\ 1 + (n + 1) - 1 <= size
    BY <1>3
  <2>2. Len(Run(1, n + 1)) = n + 1
    BY <2>1, RunTyped
  <2> QED BY <1>3, <1>4, <2>2
<1>6. c.rows = Run(1, from) /\ Len(c.links) = 0
  BY <1>3, <1>4
<1>7. /\ from + 0 = from /\ from <= size /\ 1..0 = {} /\ ~(0 > 0)
      /\ c.next = (IF from < size THEN from + 1 ELSE 0)
  BY <1>1
<1> QED BY <1>5, <1>6, <1>7 DEF Right

\* The links of an external page lead to the chunks after the rows in hand.
LEMMA RightExternal ==
    ASSUME size \in Nat, NEW from \in 1..size, NEW c \in Calls(size), NEW how \in Modes,
           NEW page \in Pages(from, how),
           c.links = page.links, c.next = page.next, c.scheduled = <<>>,
           c.rows = Run(1, from - 1)
    PROVE  Right(c, size)
<1> DEFINE len == Len(page.links)
           then == IF from + len - 1 < size THEN from + len ELSE 0
<1>1. /\ len \in Nat \ {0} /\ from + len - 1 <= size
      /\ \A i \in 1..len : page.links[i].chunk = from + i - 1
      /\ \A i \in 1..len : i # len => page.links[i].next = 0
      /\ \/ page.next = then /\ page.links[len].next = 0
         \/ page.links[len].next = then /\ page.next = 0
  BY PageIsRight
<1>2. Len(c.rows) = from - 1
  <2> DEFINE n == from - 1
  <2>1. 1 \in Nat \ {0} /\ n \in Nat /\ 1 + n - 1 <= size
    OBVIOUS
  <2> HIDE DEF n
  <2>2. Len(Run(1, n)) = n
    BY <2>1, RunTyped
  <2> QED BY <2>2 DEF n
<1>3. /\ Len(c.rows) + len <= size
      /\ then = IF Len(c.rows) + len < size THEN Len(c.rows) + len + 1 ELSE 0
      /\ \A i \in 1..len : from + i - 1 = Len(c.rows) + i
  <2> DEFINE n == Len(c.rows)
  <2>1. n = from - 1 /\ n \in Nat
    BY <1>2
  <2>2. len \in Nat
    BY <1>1
  <2>3. \A i \in 1..len : i \in Nat
    BY <2>2
  <2> HIDE DEF n, len
  <2>4. /\ from + len - 1 = n + len /\ from + len = n + len + 1
        /\ \A i \in 1..len : from + i - 1 = n + i
    BY <2>1, <2>2, <2>3
  <2> QED BY <1>1, <2>4 DEF n
<1>4. c.rows = Run(1, Len(c.rows))
  BY <1>2
<1> HIDE DEF then
<1>5. Len(c.links) = len /\ c.links = page.links /\ len > 0
  BY <1>1
<1> HIDE DEF len
<1>6. /\ Len(c.rows) + len <= size
      /\ \A i \in 1..len : c.links[i].chunk = Len(c.rows) + i
      /\ \A i \in 1..len : i # len => c.links[i].next = 0
      /\ \/ c.next = then /\ c.links[len].next = 0
         \/ c.links[len].next = then /\ c.next = 0
  BY <1>1, <1>3, <1>5
<1> QED BY <1>3, <1>4, <1>5, <1>6 DEF Right

\* A page: the first of the result, or the one that was asked for.
LEMMA WentPage ==
    ASSUME size \in Nat, NEW c \in Calls(size), c.pc = "request", c.outcome = "none",
           NEW from \in 1..size, c.links = <<>>, c.next = 0, NEW astray \in BOOLEAN,
           NEW page, page.links \in Links(size), page.next \in 0..size,
           c.how = "INLINE" => \A i \in 1..Len(page.links) : page.links[i].next = 0,
           ~astray => /\ c.rows = Run(1, from - 1) /\ c.scheduled = <<>>
                      /\ page \in Pages(from, c.how) \/ LinksOf(page) \cap c.seen # {},
           NEW initial \in BOOLEAN
    PROVE  Went(c, Paged(c, page, initial), size, astray)
<1> DEFINE chunks  == [i \in DOMAIN page.links |-> page.links[i].chunk]
           counted == IF c.how = "INLINE" /\ ~initial THEN c ELSE Counted(c)
           filled  == IF counted.pc = "done" THEN counted
                      ELSE IF c.how = "INLINE" THEN Rows(counted, chunks)
                      ELSE IF Len(page.links) > MaxChunks THEN Stop(counted, "limit")
                      ELSE [counted EXCEPT !.links = page.links]
           next == [filled EXCEPT !.next = page.next]
<1>1. Paged(c, page, initial) = IF filled.pc = "done" THEN filled ELSE Onward(next)
  BY DEF Paged
<1>2. \/ counted.pc = "done" /\ counted = Stop(c, "limit")
      \/ /\ counted \in Calls(size) /\ counted.pc = "request" /\ counted.outcome = "none"
         /\ counted.id = c.id /\ counted.how = c.how
         /\ counted.rows = c.rows /\ counted.links = <<>> /\ counted.next = 0
         /\ counted.scheduled = c.scheduled /\ counted.seen = c.seen
  <2>1. CASE c.how = "INLINE" /\ ~initial
    BY <2>1
  <2>2. CASE ~(c.how = "INLINE" /\ ~initial)
    <3>1. counted = Counted(c)
      BY <2>2
    <3>2. CASE Counted(c).pc = "done" /\ Counted(c) = Stop(c, "limit")
      BY <3>1, <3>2
    <3>3. CASE Counted(c) \in Calls(size) /\ Counted(c) = [c EXCEPT !.chunks = c.chunks + 1]
      BY <3>1, <3>3 DEF Calls
    <3> QED BY <3>2, <3>3, CountedCall
  <2> QED BY <2>1, <2>2
<1> HIDE DEF counted
<1>3. CASE counted.pc = "done"
  <2>1. filled = counted /\ counted = Stop(c, "limit")
    BY <1>2, <1>3
  <2> HIDE DEF filled, next
  <2> QED BY <1>1, <1>3, <2>1, StoppedHere
<1>4. CASE counted.pc # "done"
  <2>1. /\ counted \in Calls(size) /\ counted.pc = "request" /\ counted.outcome = "none"
        /\ counted.id = c.id /\ counted.how = c.how
        /\ counted.rows = c.rows /\ counted.links = <<>> /\ counted.next = 0
        /\ counted.scheduled = c.scheduled /\ counted.seen = c.seen
    BY <1>2, <1>4
  <2>2. CASE c.how = "INLINE"
    <3>1. filled = Rows(counted, chunks)
      BY <1>4, <2>2
    <3>2. chunks \in Lists(size)
      <4>1. /\ Len(page.links) \in Nat /\ DOMAIN page.links = 1..Len(page.links)
            /\ \A i \in DOMAIN page.links : page.links[i].chunk \in 1..size
        BY LinkTyped
      <4> QED BY <4>1 DEF Lists
    <3> HIDE DEF chunks, filled, next
    <3>3. \/ filled.pc = "done" /\ filled = Stop(counted, "limit")
          \/ HasRead(counted, filled, chunks, size)
      BY <2>1, <3>1, <3>2, RowsTaken
    <3>4. CASE filled.pc = "done" /\ filled = Stop(counted, "limit")
      <4>1. Went(counted, filled, size, astray)
        BY <2>1, <3>4, StoppedHere
      <4> QED BY <1>1, <2>1, <3>4, <4>1 DEF Went
    <3>5. CASE HasRead(counted, filled, chunks, size)
      <4>1. /\ filled \in Calls(size) /\ filled.pc = "request" /\ filled.outcome = "none"
            /\ filled.id = c.id /\ filled.how = c.how /\ filled.rows = c.rows \o chunks
            /\ filled.links = <<>> /\ filled.scheduled = c.scheduled /\ filled.seen = c.seen
        BY <2>1, <3>5 DEF HasRead
      <4>2. /\ next \in Calls(size) /\ next.pc = "request" /\ next.outcome = "none"
            /\ next.id = c.id /\ next.how = c.how /\ next.rows = c.rows \o chunks
            /\ next.links = <<>> /\ next.next = page.next
            /\ next.scheduled = c.scheduled /\ next.seen = c.seen
        BY <4>1 DEF next, Calls
      <4>3. ~astray => Right(next, size) \/ Doomed(next)
        <5>1. CASE ~astray /\ page \in Pages(from, c.how)
          <6>1. /\ page \in Pages(from, "INLINE") /\ next.scheduled = <<>>
                /\ next.rows = Run(1, from - 1) \o [i \in DOMAIN page.links |->
                                                       page.links[i].chunk]
            BY <2>2, <4>2, <5>1 DEF chunks
          <6> QED BY <4>2, <6>1, RightInline
        <5>2. CASE LinksOf(page) \cap c.seen # {}
          <6>1. PICK link \in LinksOf(page) : link \in c.seen
            BY <5>2
          <6>2. link # 0
            BY <6>1 DEF Calls, Chunks
          <6>3. link = page.next
            <7>1. DOMAIN page.links = 1..Len(page.links)
              BY DEF Links
            <7> QED BY <2>2, <6>1, <6>2, <7>1 DEF LinksOf
          <6>4. link \in LinksOf(next)
            BY <4>2, <6>3 DEF LinksOf
          <6> QED BY <4>2, <6>1, <6>4 DEF Doomed
        <5> QED BY <5>1, <5>2
      <4>4. Went(next, Onward(next), size, astray)
        BY <4>2, <4>3, WentOnward
      <4>5. Paged(c, page, initial) = Onward(next)
        BY <1>1, <4>1
      <4> QED BY <4>2, <4>4, <4>5 DEF Went
    <3> QED BY <3>3, <3>4, <3>5
  <2>3. CASE c.how # "INLINE" /\ Len(page.links) > MaxChunks
    <3>1. filled = Stop(counted, "limit")
      BY <1>4, <2>3
    <3> HIDE DEF filled, next
    <3>2. Went(counted, filled, size, astray) /\ filled.pc = "done"
      BY <2>1, <3>1, StoppedHere
    <3> QED BY <1>1, <2>1, <3>2 DEF Went
  <2>4. CASE c.how # "INLINE" /\ ~(Len(page.links) > MaxChunks)
    <3>1. filled = [counted EXCEPT !.links = page.links]
      BY <1>4, <2>4
    <3>2. /\ next \in Calls(size) /\ next.pc = "request" /\ next.outcome = "none"
          /\ next.id = c.id /\ next.how = c.how /\ next.rows = c.rows
          /\ next.links = page.links /\ next.next = page.next
          /\ next.scheduled = c.scheduled /\ next.seen = c.seen
          /\ filled.pc = "request"
      BY <2>1, <3>1 DEF Calls
    <3> HIDE DEF filled, next, chunks
    <3>3. c.how \in Modes /\ c.how = "EXTERNAL_LINKS"
      BY <2>4 DEF Calls, Modes
    <3>4. ~astray => Right(next, size) \/ Doomed(next)
      <4>1. CASE ~astray /\ page \in Pages(from, c.how)
        <5>1. next.scheduled = <<>> /\ next.rows = Run(1, from - 1)
          BY <3>2, <4>1
        <5> QED BY <3>2, <3>3, <4>1, <5>1, RightExternal
      <4>2. CASE LinksOf(page) \cap c.seen # {}
        <5>1. LinksOf(next) = LinksOf(page)
          BY <3>2 DEF LinksOf
        <5> QED BY <3>2, <4>2, <5>1 DEF Doomed
      <4> QED BY <4>1, <4>2
    <3>5. Went(next, Onward(next), size, astray)
      BY <3>2, <3>3, <3>4, WentOnward
    <3> QED BY <1>1, <3>2, <3>5 DEF Went
  <2> QED BY <2>2, <2>3, <2>4
<1> QED BY <1>3, <1>4

\* The end of a statement, or not yet: the four ways on.
LEMMA Evaluated ==
    ASSUME NEW c \in Calls(size), size \in Nat \ {0}, c.pc = "request", c.outcome = "none",
           c.id # 0, c.request[1] \in {"submit", "poll"},
           c.rows = <<>>, c.links = <<>>, c.next = 0, c.scheduled = <<>>,
           NEW st \in Statements, st.how = c.how, NEW page, NEW astray \in BOOLEAN,
           page.links \in Links(size), page.next \in 0..size,
           c.how = "INLINE" => \A i \in 1..Len(page.links) : page.links[i].next = 0,
           ~astray => page \in Pages(1, c.how) \/ LinksOf(page) \cap c.seen # {}
    PROVE  LET d == Evaluate(c, st, page)
           IN  /\ CallOK(d, size, astray)
               /\ \/ d.pc \in {"cancel", "done"} /\ d.id = c.id
                  \/ d.pc = "sleep" /\ d.id = c.id /\ d.how = c.how
                  \/ /\ d.pc = "request" /\ d.request[1] = "submit" /\ d.id = 0
                     /\ st.state # "running"
                  \/ /\ d.pc = "request" /\ d.request[1] \in {"page", "data"}
                     /\ d.id = c.id /\ d.how = c.how
                     /\ st.state = "ok" /\ ~st.truncated
<1> DEFINE d == Evaluate(c, st, page)
<1> SUFFICES
      /\ CallOK(d, size, astray)
      /\ \/ d.pc \in {"cancel", "done"} /\ d.id = c.id
         \/ d.pc = "sleep" /\ d.id = c.id /\ d.how = c.how
         \/ /\ d.pc = "request" /\ d.request[1] = "submit" /\ d.id = 0
            /\ st.state # "running"
         \/ /\ d.pc = "request" /\ d.request[1] \in {"page", "data"}
            /\ d.id = c.id /\ d.how = c.how
            /\ st.state = "ok" /\ ~st.truncated
  OBVIOUS
<1>1. ASSUME NEW outcome \in Failures, d = Stop(c, outcome)
      PROVE  CallOK(d, size, astray) /\ d.pc \in {"cancel", "done"} /\ d.id = c.id
  BY <1>1, Stopped
<1>2. {"deadline", "statement", "limit"} \subseteq Failures
  BY DEF Failures, TimedOut
<1>3. st.state \in States /\ st.truncated \in BOOLEAN
  BY DEF Statements
<1>4. CASE st.state = "running" /\ c.polls >= MaxPolls
  <2>1. d = Stop(c, "deadline")
    <3>1. ~(c.polls < MaxPolls)
      BY <1>4, ClientAssumption DEF Calls
    <3> QED BY <1>4, <3>1 DEF Evaluate
  <2> HIDE DEF d
  <2> QED BY <1>1, <1>2, <2>1
<1>5. CASE st.state = "running" /\ ~(c.polls >= MaxPolls)
  <2>1. d = [c EXCEPT !.pc = "sleep"]
    <3>1. c.polls < MaxPolls
      BY <1>5, ClientAssumption DEF Calls
    <3> QED BY <1>5, <3>1 DEF Evaluate
  <2> HIDE DEF d
  <2>2. /\ d \in Calls(size) /\ d.pc = "sleep" /\ d.id = c.id /\ d.how = c.how
        /\ d.rows = <<>> /\ d.links = <<>> /\ d.next = 0 /\ d.scheduled = <<>>
        /\ d.outcome = "none" /\ d.request = c.request /\ d.polls = c.polls
    BY <2>1 DEF Calls
  <2>3. CallOK(d, size, astray)
    <3>1. c.polls < MaxPolls
      BY <1>5, ClientAssumption DEF Calls
    <3> QED BY <2>2, <3>1 DEF CallOK
  <2> QED BY <2>2, <2>3
<1>6. CASE st.state = "limit"
  <2>1. d = Submit(c, "EXTERNAL_LINKS")
    BY <1>6 DEF Evaluate
  <2>2. "EXTERNAL_LINKS" \in Modes
    BY DEF Modes
  <2>3. /\ CallOK(Submit(c, "EXTERNAL_LINKS"), size, astray)
        /\ Submit(c, "EXTERNAL_LINKS").pc = "request"
        /\ Submit(c, "EXTERNAL_LINKS").request = <<"submit", 0>>
        /\ Submit(c, "EXTERNAL_LINKS").id = 0
    BY <2>2, Submitted
  <2> HIDE DEF d
  <2>4. d.request[1] = "submit"
    BY <2>1, <2>3
  <2> QED BY <1>6, <2>1, <2>3, <2>4
<1>7. CASE st.state \in {"failed", "canceled"}
  BY <1>1, <1>2, <1>7 DEF Evaluate
<1>8. CASE st.state = "ok" /\ st.truncated /\ c.how = "INLINE"
  <2> DEFINE bytes == IF c.bytes < MaxBytes THEN c.bytes + 1 ELSE c.bytes
             e == [c EXCEPT !.bytes = bytes]
  <2>1. d = Submit(e, "EXTERNAL_LINKS")
    BY <1>8 DEF Evaluate
  <2>2. "EXTERNAL_LINKS" \in Modes
    BY DEF Modes
  <2>3. /\ e \in Calls(size) /\ e.rows = <<>> /\ e.links = <<>> /\ e.next = 0
        /\ e.scheduled = <<>> /\ e.outcome = "none"
    <3>1. bytes \in 0..MaxBytes
      BY ClientAssumption DEF Calls
    <3> HIDE DEF bytes
    <3> QED BY <3>1 DEF Calls
  <2> HIDE DEF d, e
  <2>4. /\ CallOK(d, size, astray) /\ d.pc = "request" /\ d.request = <<"submit", 0>> /\ d.id = 0
    BY <2>1, <2>2, <2>3, Submitted
  <2>5. d.request[1] = "submit"
    BY <2>4
  <2> QED BY <1>8, <2>4, <2>5
<1>9. CASE st.state = "ok" /\ st.truncated /\ c.how # "INLINE"
  BY <1>1, <1>2, <1>9 DEF Evaluate
<1>10. CASE st.state = "ok" /\ ~st.truncated /\ ~Announced(c)
  BY <1>1, <1>2, <1>10 DEF Evaluate
<1>11. CASE st.state = "ok" /\ ~st.truncated /\ Announced(c)
  <2>1. d = Paged(c, page, TRUE)
    BY <1>11 DEF Evaluate
  <2>2. 1 \in 1..size /\ c.rows = Run(1, 1 - 1) /\ TRUE \in BOOLEAN /\ size \in Nat
    BY DEF Run
  <2> HIDE DEF d
  <2> DEFINE from == 1
  <2>3. /\ from \in 1..size /\ c.rows = Run(1, from - 1)
        /\ ~astray => page \in Pages(from, c.how) \/ LinksOf(page) \cap c.seen # {}
    BY <2>2
  <2> HIDE DEF from
  <2>4. Went(c, Paged(c, page, TRUE), size, astray)
    BY <2>2, <2>3, WentPage
  <2>5. Went(c, d, size, astray)
    BY <2>1, <2>4
  <2> QED BY <1>11, <2>5 DEF Went
<1> QED BY <1>3, <1>4, <1>5, <1>6, <1>7, <1>8, <1>9, <1>10, <1>11 DEF States

-----------------------------------------------------------------------------
(* The warehouse. *)

LEMMA EndsOfAStatement ==
    ASSUME NEW st \in Statements, NEW s \in Ends(st)
    PROVE  s \in Statements /\ s.how = st.how /\ s.state # "running"
  BY DEF Ends, Statements, States

\* A submission that the warehouse has accepted.
LEMMA OneMore ==
    ASSUME server \in Seq(Statements), NEW how \in Modes, NEW later \in Accepted(how)
    PROVE  \E s \in Statements :
             /\ s.how = how /\ later = Append(server, s)
             /\ later \in Seq(Statements) /\ Len(later) = Len(server) + 1
             /\ later[Len(later)] = s /\ Last(later) = s
             /\ \A n \in 1..Len(server) : later[n] = server[n]
<1> DEFINE st == [how |-> how, state |-> "running", truncated |-> FALSE]
<1>1. st \in Statements /\ st.how = how
  BY DEF Statements, States
<1>2. PICK s \in {st} \cup Ends(st) : later = Append(server, s)
  BY DEF Accepted
<1> HIDE DEF st
<1>3. s \in Statements /\ s.how = how
  BY <1>1, <1>2, EndsOfAStatement
<1>4. /\ later \in Seq(Statements) /\ Len(later) = Len(server) + 1
      /\ later[Len(later)] = s
      /\ \A n \in 1..Len(server) : later[n] = server[n]
  BY <1>2, <1>3
<1>5. Last(later) = s
  BY <1>4 DEF Last
<1> QED BY <1>2, <1>3, <1>4, <1>5


-----------------------------------------------------------------------------
(* The steps. *)

\* Before a statement has its id, none is running.
LEMMA NoneRuns ==
    ASSUME ClientInv, call.pc \in {"request", "sleep"}, call.id = 0
    PROVE  \A n \in DOMAIN server : ~Running(n)
  BY DEF ClientInv, OneRuns, StatementOK

\* Every way an execution stops, whatever became of the request.
LEMMA StopsRight ==
    ASSUME ClientInv, call.pc \in {"request", "sleep"}, NEW outcome \in Failures,
           NEW c \in Calls(size), c.id = call.id, call' = Stop(c, outcome),
           \/ server' = server
           \/ call.pc = "request" /\ Kind = "submit" /\ server' \in Accepted(call.how),
           UNCHANGED <<size, oddities, misled, late>>
    PROVE  ClientInv'
<1>1. size \in Nat /\ call \in Calls(size)
  BY ClientAssumption DEF ClientInv, CallOK
<1>2. CallOK(call', size, misled') /\ call'.pc \in {"cancel", "done"} /\ call'.id = call.id
  BY <1>1, Stopped
<1>3. server \in Seq(Statements) /\ call.id \in 0..Len(server) /\ call.how \in Modes
  BY <1>1 DEF ClientInv, StatementOK, Calls
<1>4. StatementOK' /\ OneRuns'
  <2>1. CASE server' = server
    BY <1>2, <1>3, <2>1 DEF ClientInv, StatementOK, OneRuns, Running
  <2>2. CASE call.pc = "request" /\ Kind = "submit" /\ server' \in Accepted(call.how)
    <3>1. PICK s \in Statements :
            /\ server' \in Seq(Statements) /\ Len(server') = Len(server) + 1
            /\ \A n \in 1..Len(server) : server'[n] = server[n]
      BY <1>3, <2>2, OneMore
    <3>2. call.id = 0
      BY <2>2 DEF ClientInv, StatementOK
    <3>3. \A n \in 1..Len(server) : ~Running(n)
      BY <1>3, <3>2, NoneRuns
    <3>4. \A n \in DOMAIN server' : server'[n].state = "running" => n = Len(server) + 1
      BY <1>3, <3>1, <3>3 DEF Running
    <3>5. StatementOK'
      BY <1>2, <1>3, <3>1 DEF StatementOK
    <3>6. OneRuns'
      BY <1>2, <3>4 DEF OneRuns, Running
    <3> QED BY <3>5, <3>6
  <2> QED BY <2>1, <2>2
<1> QED BY <1>2, <1>4 DEF ClientInv

\* Every way an execution goes on with the same statement.
LEMMA GoesOn ==
    ASSUME ClientInv, call.pc \in {"request", "sleep"}, CallOK(call', size, misled'),
           call'.id = call.id, call'.how = call.how,
           call'.pc = "request" => (call'.request[1] = "submit" <=> call.id = 0),
           call'.pc = "sleep" => call.id # 0,
           call'.pc = "request" /\ call'.request[1] \in {"page", "data"} =>
             server[call.id].state = "ok" /\ ~server[call.id].truncated,
           UNCHANGED <<size, server, late>>, oddities' \in 0..MaxOddities, misled' \in BOOLEAN
    PROVE  ClientInv'
<1>1. StatementOK'
  BY DEF ClientInv, StatementOK, Kind
<1>2. OneRuns'
  BY DEF ClientInv, OneRuns, Running
<1> QED BY <1>1, <1>2 DEF ClientInv

\* Another attempt, or none.
LEMMA TriesAgain ==
    ASSUME ClientInv, call.pc = "request", NEW bytes \in 0..MaxBytes, NEW outcome \in Failures,
           Again([call EXCEPT !.bytes = bytes], outcome),
           UNCHANGED <<provider, late>>
    PROVE  ClientInv'
<1> DEFINE c == [call EXCEPT !.bytes = bytes]
           d == [c EXCEPT !.attempt = c.attempt + 1]
<1>1. call \in Calls(size) /\ CallOK(call, size, misled)
  BY DEF ClientInv, CallOK
<1>2. /\ c \in Calls(size) /\ c.id = call.id /\ c.how = call.how /\ c.pc = "request"
      /\ c.request = call.request /\ c.outcome = call.outcome /\ c.attempt = call.attempt
      /\ c.rows = call.rows /\ c.links = call.links /\ c.next = call.next
      /\ c.scheduled = call.scheduled /\ c.seen = call.seen
  BY <1>1 DEF Calls
<1> HIDE DEF c
<1>3. CASE c.attempt < MaxAttempts /\ call' = d
  <2>1. c.attempt + 1 \in 1..MaxAttempts
    BY <1>2, <1>3, ClientAssumption DEF Calls
  <2>2. /\ d \in Calls(size) /\ d.id = call.id /\ d.how = call.how /\ d.pc = "request"
        /\ d.request = call.request /\ d.outcome = call.outcome
        /\ d.rows = call.rows /\ d.links = call.links /\ d.next = call.next
        /\ d.scheduled = call.scheduled /\ d.seen = call.seen
    BY <1>2, <2>1 DEF Calls
  <2> HIDE DEF d
  <2>3. CallOK(d, size, misled)
    <3>1. Right(call, size) => Right(d, size)
      BY <2>2 DEF Right
    <3>2. Doomed(call) => Doomed(d)
      BY <2>2 DEF Doomed, LinksOf
    <3> QED BY <1>1, <2>2, <3>1, <3>2 DEF CallOK
  <2>4. oddities' \in 0..MaxOddities /\ misled' \in BOOLEAN /\ misled' = misled
    BY DEF ClientInv, provider
  <2>5. /\ call.request[1] = "submit" <=> call.id = 0
        /\ call.request[1] \in {"page", "data"} =>
             server[call.id].state = "ok" /\ ~server[call.id].truncated
    BY DEF ClientInv, StatementOK, Kind
  <2>6. UNCHANGED <<size, server, late>>
    BY DEF provider
  <2> QED BY <1>3, <2>2, <2>3, <2>4, <2>5, <2>6, GoesOn
<1>4. CASE call' = Stop(c, "deadline") \/ call' = Stop(c, outcome)
  <2>1. "deadline" \in Failures
    BY DEF Failures, TimedOut
  <2>2. server' = server /\ UNCHANGED <<size, oddities, misled, late>>
    BY DEF provider
  <2> QED BY <1>2, <1>4, <2>1, <2>2, StopsRight
<1> QED BY <1>3, <1>4 DEF Again, c

LEMMA SubmitAnswers ==
    ASSUME ClientInv, SubmitAnswered
    PROVE  ClientInv'
<1>1. /\ call \in Calls(size) /\ CallOK(call, size, misled) /\ size \in Nat \ {0}
      /\ server \in Seq(Statements) /\ call.id = 0
      /\ call.rows = <<>> /\ call.links = <<>> /\ call.next = 0 /\ call.scheduled = <<>>
      /\ call.outcome = "none"
  BY ClientAssumption DEF ClientInv, CallOK, StatementOK, SubmitAnswered, Kind
<1>2. call.how \in Modes /\ call.request[1] = "submit" /\ call.pc = "request"
  BY <1>1 DEF Calls, SubmitAnswered, Kind
<1>3. PICK st \in Statements :
        /\ st.how = call.how
        /\ server' \in Seq(Statements) /\ Len(server') = Len(server) + 1
        /\ server'[Len(server')] = st /\ Last(server') = st
        /\ \A n \in 1..Len(server) : server'[n] = server[n]
  BY <1>1, <1>2, OneMore DEF SubmitAnswered
<1> DEFINE id == Len(server')
           b == [call EXCEPT !.id = id, !.polls = 0]
<1>4. PICK page : Gives(page, 1, call.how) /\ call' = Evaluate(b, st, page)
  BY <1>3 DEF SubmitAnswered
<1>5. /\ b \in Calls(size) /\ b.pc = "request" /\ b.outcome = "none"
      /\ b.id = Len(server) + 1 /\ b.request = call.request /\ b.how = call.how
      /\ b.rows = <<>> /\ b.links = <<>> /\ b.next = 0 /\ b.scheduled = <<>>
      /\ b.seen = call.seen
  <2>1. id \in Nat /\ id = Len(server) + 1 /\ 0 \in 0..MaxPolls
    BY <1>1, <1>3, ClientAssumption
  <2> HIDE DEF id
  <2> QED BY <1>1, <1>2, <2>1 DEF Calls
<1> HIDE DEF b
<1>6. b.id \in Nat \ {0} /\ Len(server) \in Nat
  BY <1>1, <1>5
<1>7. /\ oddities' \in 0..MaxOddities /\ misled' \in BOOLEAN
      /\ page.links \in Links(size) /\ page.next \in 0..size
      /\ call.how = "INLINE" => \A i \in 1..Len(page.links) : page.links[i].next = 0
      /\ ~misled' => page \in Pages(1, call.how) \/ LinksOf(page) \cap call.seen # {}
  <2>1. 1 \in 1..size /\ size \in Nat
    BY <1>1
  <2>2. oddities \in 0..MaxOddities /\ misled \in BOOLEAN
    BY DEF ClientInv
  <2> DEFINE from == 1
  <2>3. from \in 1..size /\ Gives(page, from, call.how)
    BY <1>4, <2>1
  <2> HIDE DEF from
  <2>4. /\ oddities' \in 0..MaxOddities /\ misled' \in BOOLEAN
        /\ page.links \in Links(size) /\ page.next \in 0..size
        /\ call.how = "INLINE" => \A i \in 1..Len(page.links) : page.links[i].next = 0
        /\ ~misled' => page \in Pages(from, call.how) \/ LinksOf(page) \cap call.seen # {}
    BY <1>2, <2>1, <2>2, <2>3, GivenPage
  <2> QED BY <2>4 DEF from
<1>8. /\ CallOK(call', size, misled')
      /\ \/ call'.pc \in {"cancel", "done"} /\ call'.id = b.id
         \/ call'.pc = "sleep" /\ call'.id = b.id /\ call'.how = b.how
         \/ /\ call'.pc = "request" /\ call'.request[1] = "submit" /\ call'.id = 0
            /\ st.state # "running"
         \/ /\ call'.pc = "request" /\ call'.request[1] \in {"page", "data"}
            /\ call'.id = b.id /\ call'.how = b.how
            /\ st.state = "ok" /\ ~st.truncated
  <2>1. /\ b.request[1] \in {"submit", "poll"} /\ b.id # 0 /\ st.how = b.how
        /\ b.how = "INLINE" => \A i \in 1..Len(page.links) : page.links[i].next = 0
        /\ ~misled' => page \in Pages(1, b.how) \/ LinksOf(page) \cap b.seen # {}
    BY <1>2, <1>3, <1>5, <1>6, <1>7
  <2> DEFINE astray == misled'
  <2>2. /\ astray \in BOOLEAN
        /\ ~astray => page \in Pages(1, b.how) \/ LinksOf(page) \cap b.seen # {}
    BY <1>7, <2>1
  <2> HIDE DEF astray
  <2>3. /\ CallOK(call', size, astray)
        /\ \/ call'.pc \in {"cancel", "done"} /\ call'.id = b.id
           \/ call'.pc = "sleep" /\ call'.id = b.id /\ call'.how = b.how
           \/ /\ call'.pc = "request" /\ call'.request[1] = "submit" /\ call'.id = 0
              /\ st.state # "running"
           \/ /\ call'.pc = "request" /\ call'.request[1] \in {"page", "data"}
              /\ call'.id = b.id /\ call'.how = b.how
              /\ st.state = "ok" /\ ~st.truncated
    <3>1. size \in Nat \ {0} /\ call' = Evaluate(b, st, page)
      BY <1>1, <1>4
    <3>2. /\ b \in Calls(size) /\ b.pc = "request" /\ b.outcome = "none"
          /\ b.rows = <<>> /\ b.links = <<>> /\ b.next = 0 /\ b.scheduled = <<>>
      BY <1>5
    <3>3. page.links \in Links(size) /\ page.next \in 0..size
      BY <1>7
    <3> QED BY <2>1, <2>2, <3>1, <3>2, <3>3, Evaluated
  <2> QED BY <2>3 DEF astray
<1>9. size' = size /\ late' = late
  BY DEF SubmitAnswered
<1>10. \A n \in DOMAIN server' : server'[n].state = "running" => n = b.id
  <2>1. \A n \in 1..Len(server) : ~Running(n)
    BY <1>1, <1>2, NoneRuns
  <2> QED BY <1>3, <1>5, <1>6, <2>1 DEF Running
<1>11. server'[b.id] = st /\ b.id = Len(server')
  BY <1>3, <1>5
<1>12. StatementOK'
  BY <1>3, <1>5, <1>6, <1>8, <1>11 DEF StatementOK, Kind
<1>13. OneRuns'
  BY <1>8, <1>10, <1>11 DEF OneRuns, Running
<1> QED BY <1>7, <1>8, <1>9, <1>12, <1>13 DEF ClientInv

LEMMA PollAnswers ==
    ASSUME ClientInv, PollAnswered
    PROVE  ClientInv'
<1>1. /\ call \in Calls(size) /\ CallOK(call, size, misled) /\ size \in Nat \ {0}
      /\ server \in Seq(Statements) /\ call.id \in 1..Len(server)
      /\ call.rows = <<>> /\ call.links = <<>> /\ call.next = 0 /\ call.scheduled = <<>>
      /\ call.outcome = "none" /\ call.request[1] = "poll" /\ call.pc = "request"
  BY ClientAssumption DEF ClientInv, CallOK, StatementOK, PollAnswered, Kind
<1> DEFINE st == server[call.id]
<1>2. st \in Statements /\ st.how = call.how /\ call.how \in Modes
  BY <1>1 DEF ClientInv, StatementOK, Calls
<1> HIDE DEF st
<1>3. PICK page : Gives(page, 1, call.how) /\ call' = Evaluate(call, st, page)
  BY DEF PollAnswered, st
<1>4. /\ oddities' \in 0..MaxOddities /\ misled' \in BOOLEAN
      /\ page.links \in Links(size) /\ page.next \in 0..size
      /\ call.how = "INLINE" => \A i \in 1..Len(page.links) : page.links[i].next = 0
      /\ ~misled' => page \in Pages(1, call.how) \/ LinksOf(page) \cap call.seen # {}
  <2>1. 1 \in 1..size /\ size \in Nat
    BY <1>1
  <2>2. oddities \in 0..MaxOddities /\ misled \in BOOLEAN
    BY DEF ClientInv
  <2> DEFINE from == 1
  <2>3. from \in 1..size /\ Gives(page, from, call.how)
    BY <1>3, <2>1
  <2> HIDE DEF from
  <2>4. /\ oddities' \in 0..MaxOddities /\ misled' \in BOOLEAN
        /\ page.links \in Links(size) /\ page.next \in 0..size
        /\ call.how = "INLINE" => \A i \in 1..Len(page.links) : page.links[i].next = 0
        /\ ~misled' => page \in Pages(from, call.how) \/ LinksOf(page) \cap call.seen # {}
    BY <1>2, <2>1, <2>2, <2>3, GivenPage
  <2> QED BY <2>4 DEF from
<1>5. /\ CallOK(call', size, misled')
      /\ \/ call'.pc \in {"cancel", "done"} /\ call'.id = call.id
         \/ call'.pc = "sleep" /\ call'.id = call.id /\ call'.how = call.how
         \/ /\ call'.pc = "request" /\ call'.request[1] = "submit" /\ call'.id = 0
            /\ st.state # "running"
         \/ /\ call'.pc = "request" /\ call'.request[1] \in {"page", "data"}
            /\ call'.id = call.id /\ call'.how = call.how
            /\ st.state = "ok" /\ ~st.truncated
  <2> DEFINE astray == misled'
  <2>1. /\ astray \in BOOLEAN /\ call.id # 0 /\ call.request[1] \in {"submit", "poll"}
        /\ ~astray => page \in Pages(1, call.how) \/ LinksOf(page) \cap call.seen # {}
    BY <1>1, <1>4
  <2> HIDE DEF astray
  <2>2. /\ CallOK(call', size, astray)
        /\ \/ call'.pc \in {"cancel", "done"} /\ call'.id = call.id
           \/ call'.pc = "sleep" /\ call'.id = call.id /\ call'.how = call.how
           \/ /\ call'.pc = "request" /\ call'.request[1] = "submit" /\ call'.id = 0
              /\ st.state # "running"
           \/ /\ call'.pc = "request" /\ call'.request[1] \in {"page", "data"}
              /\ call'.id = call.id /\ call'.how = call.how
              /\ st.state = "ok" /\ ~st.truncated
    BY <1>1, <1>2, <1>3, <1>4, <2>1, Evaluated
  <2> QED BY <2>2 DEF astray
<1>6. UNCHANGED <<size, server, late>>
  BY DEF PollAnswered
<1>7. StatementOK'
  BY <1>1, <1>2, <1>5, <1>6 DEF StatementOK, Kind, st
<1>8. OneRuns'
  BY <1>1, <1>5, <1>6 DEF ClientInv, OneRuns, Running, st
<1> QED BY <1>4, <1>5, <1>6, <1>7, <1>8 DEF ClientInv

LEMMA PageAnswers ==
    ASSUME ClientInv, PageAnswered
    PROVE  ClientInv'
<1> DEFINE from == call.request[2]
<1>1. /\ call \in Calls(size) /\ CallOK(call, size, misled) /\ size \in Nat \ {0}
      /\ call.pc = "request" /\ call.request[1] = "page" /\ call.outcome = "none"
      /\ call.links = <<>> /\ call.next = 0
      /\ ~misled => call.rows = Run(1, from - 1) /\ call.scheduled = <<>>
      /\ call.how \in Modes /\ size \in Nat
  BY ClientAssumption DEF ClientInv, CallOK, PageAnswered, Kind, Calls
<1>2. from \in 1..size
  <2>1. call.request \in Asked(size)
    BY <1>1 DEF Calls
  <2> QED BY <1>1, <2>1, RequestsShown
<1>3. /\ server[call.id].state = "ok" /\ ~server[call.id].truncated
      /\ call.id # 0
  BY <1>1 DEF ClientInv, StatementOK, Kind
<1>4. PICK page : Gives(page, from, call.how) /\ call' = Paged(call, page, FALSE)
  BY DEF PageAnswered
<1> HIDE DEF from
<1>5. /\ oddities' \in 0..MaxOddities /\ misled' \in BOOLEAN
      /\ misled => misled'
      /\ page.links \in Links(size) /\ page.next \in 0..size
      /\ call.how = "INLINE" => \A i \in 1..Len(page.links) : page.links[i].next = 0
      /\ ~misled' => page \in Pages(from, call.how) \/ LinksOf(page) \cap call.seen # {}
  <2>1. oddities \in 0..MaxOddities /\ misled \in BOOLEAN
    BY DEF ClientInv
  <2> QED BY <1>1, <1>2, <1>4, <2>1, GivenPage
<1>6. Went(call, call', size, misled')
  <2> DEFINE astray == misled'
  <2>1. /\ astray \in BOOLEAN /\ FALSE \in BOOLEAN
        /\ ~astray => /\ call.rows = Run(1, from - 1) /\ call.scheduled = <<>>
                      /\ page \in Pages(from, call.how) \/ LinksOf(page) \cap call.seen # {}
    BY <1>1, <1>5
  <2> HIDE DEF astray
  <2>2. Went(call, Paged(call, page, FALSE), size, astray)
    BY <1>1, <1>2, <1>5, <2>1, WentPage
  <2> QED BY <1>4, <2>2 DEF astray
<1>7. UNCHANGED <<size, server, late>>
  BY DEF PageAnswered
<1> QED BY <1>1, <1>3, <1>5, <1>6, <1>7, GoesOn DEF Went

\* A chunk is in: its link is registered, and the client goes on.
LEMMA LinkDone ==
    ASSUME NEW sz \in Nat, NEW b \in Calls(sz), b.links # <<>>,
           NEW e \in Calls(sz), e.pc = "request", e.outcome = "none",
           e.how = "EXTERNAL_LINKS", e.links = Tail(b.links), e.next = b.next,
           e.scheduled = b.scheduled, e.seen = b.seen, NEW astray,
           ~astray => /\ e.rows = b.rows \o <<Head(b.links).chunk>>
                      /\ Right(b, sz) \/ Doomed(b)
    PROVE  LET d == Scheduled(e, Head(b.links).next)
           IN  Went(e, IF d.pc = "done" THEN d ELSE Onward(d), sz, astray)
<1> DEFINE links == b.links
           rest == Tail(links)
           n == Len(b.rows)
           m == Len(links)
           link == Head(links).next
           then == IF n + m < sz THEN n + m + 1 ELSE 0
           d == Scheduled(e, link)
<1>1. /\ links \in Links(sz) /\ links # <<>> /\ n \in Nat
      /\ b.rows \in Lists(sz) /\ 0 \notin b.seen
  BY DEF Calls, Lists, Chunks
<1>2. /\ Head(links) = links[1] /\ m \in Nat \ {0} /\ Len(rest) = m - 1
      /\ rest \in Links(sz)
      /\ \A i \in 1..(m - 1) : rest[i] = links[i + 1]
  BY <1>1, FirstLink
<1>3. /\ link \in 0..sz /\ link = links[1].next
      /\ DOMAIN links = 1..m /\ DOMAIN rest = 1..(m - 1)
  BY <1>1, <1>2, LinkTyped
<1>4. \/ d = Stop(e, "protocol") \/ d = Stop(e, "limit")
      \/ link = 0 /\ d = e
      \/ Registers(e, d, link, sz)
  <2> HIDE DEF d, link
  <2>1. \/ Scheduled(e, link) = Stop(e, "protocol") \/ Scheduled(e, link) = Stop(e, "limit")
        \/ link = 0 /\ Scheduled(e, link) = e
        \/ Registers(e, Scheduled(e, link), link, sz)
    BY <1>3, ScheduledCall
  <2> QED BY <2>1 DEF d
<1>5. Right(b, sz) =>
        /\ n + m <= sz /\ b.rows = Run(1, n) /\ Head(links).chunk = n + 1
        /\ \A i \in 1..(m - 1) : rest[i].chunk = (n + 1) + i
        /\ \A i \in 1..(m - 1) : i # m - 1 => rest[i].next = 0
        /\ m > 1 => link = 0
        /\ \/ /\ b.next = then /\ b.scheduled = <<>> /\ links[m].next = 0
           \/ /\ links[m].next = then /\ b.next = 0 /\ b.scheduled = <<>>
  <2> SUFFICES ASSUME Right(b, sz)
               PROVE  /\ n + m <= sz /\ b.rows = Run(1, n) /\ Head(links).chunk = n + 1
                      /\ \A i \in 1..(m - 1) : rest[i].chunk = (n + 1) + i
                      /\ \A i \in 1..(m - 1) : i # m - 1 => rest[i].next = 0
                      /\ m > 1 => link = 0
                      /\ \/ /\ b.next = then /\ b.scheduled = <<>> /\ links[m].next = 0
                         \/ /\ links[m].next = then /\ b.next = 0 /\ b.scheduled = <<>>
    OBVIOUS
  <2>1. /\ n + m <= sz /\ b.rows = Run(1, n)
        /\ \A i \in 1..m : links[i].chunk = n + i
        /\ \A i \in 1..m : i # m => links[i].next = 0
        /\ \/ /\ b.next = then /\ b.scheduled = <<>>
              /\ m > 0 => links[m].next = 0
           \/ /\ m > 0 /\ links[m].next = then
              /\ b.next = 0 /\ b.scheduled = <<>>
           \/ /\ m = 0 /\ then # 0 /\ b.scheduled = <<then>> /\ b.next = 0
    BY DEF Right
  <2> HIDE DEF links, rest, n, m, then, link
  <2>2. 1 \in 1..m /\ (m > 1 => 1 # m) /\ m > 0
    BY <1>2
  <2>3. ASSUME NEW i \in 1..(m - 1)
        PROVE  rest[i].chunk = (n + 1) + i /\ (i # m - 1 => rest[i].next = 0)
    <3>1. i + 1 \in 1..m /\ (i # m - 1 => i + 1 # m) /\ n + (i + 1) = (n + 1) + i
      <4>1. n \in Nat /\ m \in Nat \ {0}
        BY <1>1, <1>2
      <4> QED BY <4>1
    <3> QED BY <1>2, <2>1, <3>1
  <2> QED BY <1>2, <1>3, <2>1, <2>2, <2>3
<1>6. Doomed(b) => link \in b.seen \/ b.next \in b.seen \/
                   \E i \in 1..(m - 1) : rest[i].next \in b.seen
  <2> HIDE DEF links, rest, n, m, link
  <2> SUFFICES ASSUME NEW i \in 1..m, links[i].next \in b.seen
               PROVE  link \in b.seen \/ \E j \in 1..(m - 1) : rest[j].next \in b.seen
    BY <1>3 DEF Doomed, LinksOf, links
  <2>1. CASE i = 1
    BY <1>3, <2>1
  <2>2. CASE i # 1
    <3>1. i - 1 \in 1..(m - 1) /\ (i - 1) + 1 = i
      BY <1>2, <2>2
    <3> QED BY <1>2, <3>1
  <2> QED BY <2>1, <2>2
<1>7. CASE d = Stop(e, "protocol") \/ d = Stop(e, "limit")
  <2> HIDE DEF d
  <2>1. Went(e, d, sz, astray) /\ d.pc = "done"
    BY <1>7, StoppedHere
  <2> QED BY <2>1 DEF d
<1>8. CASE (link = 0 /\ d = e) \/ Registers(e, d, link, sz)
  <2> HIDE DEF d, link, rest, links, n, m, then
  <2>1. /\ d \in Calls(sz) /\ d.pc = "request" /\ d.outcome = "none" /\ d.id = e.id
        /\ d.how = e.how /\ d.rows = e.rows /\ d.links = rest /\ d.next = b.next
        /\ b.seen \subseteq d.seen /\ link \notin b.seen
        /\ \/ link = 0 /\ d.scheduled = b.scheduled
           \/ link # 0 /\ d.scheduled = Append(b.scheduled, link)
    <3>1. e.links = rest /\ e.next = b.next
      BY DEF rest, links
    <3>2. CASE link = 0 /\ d = e
      BY <1>1, <3>1, <3>2
    <3>3. CASE Registers(e, d, link, sz)
      BY <3>1, <3>3 DEF Registers
    <3> QED BY <1>8, <3>2, <3>3
  <2>2. Doomed(b) => Doomed(d)
    <3>1. DOMAIN d.links = 1..(m - 1)
      BY <1>3, <2>1
    <3> QED BY <1>6, <2>1, <3>1 DEF Doomed, LinksOf
  <2>3. ~astray /\ Right(b, sz) => Right(d, sz)
    <3> SUFFICES ASSUME ~astray, Right(b, sz) PROVE Right(d, sz)
      OBVIOUS
    <3>0. /\ n + m <= sz /\ b.rows = Run(1, n) /\ Head(links).chunk = n + 1
          /\ \A i \in 1..(m - 1) : rest[i].chunk = (n + 1) + i
          /\ \A i \in 1..(m - 1) : i # m - 1 => rest[i].next = 0
          /\ m > 1 => link = 0
          /\ \/ /\ b.next = then /\ b.scheduled = <<>> /\ links[m].next = 0
             \/ /\ links[m].next = then /\ b.next = 0 /\ b.scheduled = <<>>
      BY <1>5
    <3>1. d.rows = Run(1, n + 1) /\ Len(d.rows) = n + 1
      <4>1. d.rows = Run(1, n) \o <<n + 1>>
        BY <2>1, <3>0 DEF links
      <4>2. <<n + 1>> = Run(n + 1, 1)
        BY <1>1 DEF Run
      <4> DEFINE one == 1
                 len == n + 1
      <4>0. n \in Nat /\ m \in Nat \ {0} /\ n + m <= sz
        BY <1>1, <1>2, <3>0
      <4>3. one \in Nat /\ n + one <= sz
        BY <4>0
      <4>4. len \in Nat /\ one \in Nat \ {0} /\ one + len - 1 <= sz
        BY <4>0
      <4>5. <<n + 1>> = Run(n + 1, one) /\ n + one = len
        BY <4>2
      <4>6. Len(Run(1, len)) = len
        <5>1. Len(Run(one, len)) = len
          <6> HIDE DEF one, len
          <6> QED BY <4>4, RunTyped
        <5> QED BY <5>1
      <4> HIDE DEF one
      <4>7. Run(1, n) \o Run(n + 1, one) = Run(1, n + one)
        BY <1>1, <4>3, RunsJoin
      <4> QED BY <4>1, <4>5, <4>6, <4>7
    <3>2. /\ Len(d.links) = m - 1 /\ (n + 1) + (m - 1) = n + m
          /\ then = IF (n + 1) + (m - 1) < sz THEN (n + 1) + (m - 1) + 1 ELSE 0
      BY <1>1, <1>2, <2>1 DEF then
    <3>3. \A i \in 1..(m - 1) : d.links[i].chunk = (n + 1) + i
      BY <2>1, <3>0
    <3>4. \A i \in 1..(m - 1) : i # m - 1 => d.links[i].next = 0
      BY <2>1, <3>0
    <3>5. \/ /\ d.next = then /\ d.scheduled = <<>>
             /\ m - 1 > 0 => d.links[m - 1].next = 0
          \/ /\ m - 1 > 0 /\ d.links[m - 1].next = then
             /\ d.next = 0 /\ d.scheduled = <<>>
          \/ /\ m - 1 = 0 /\ then # 0 /\ d.scheduled = <<then>> /\ d.next = 0
      <4>1. CASE m > 1
        <5>1. m - 1 \in 1..(m - 1) /\ (m - 1) + 1 = m /\ m - 1 > 0
          BY <1>2, <4>1
        <5>2. d.links[m - 1] = links[m] /\ link = 0 /\ d.scheduled = b.scheduled
          BY <1>2, <2>1, <3>0, <4>1, <5>1
        <5> QED BY <2>1, <3>0, <5>1, <5>2
      <4>2. CASE m = 1
        <5>1. m - 1 = 0 /\ ~(m - 1 > 0) /\ link = links[m].next
          BY <1>3, <4>2
        <5>2. Append(<<>>, link) = <<link>>
          OBVIOUS
        <5>3. CASE b.next = then /\ b.scheduled = <<>> /\ links[m].next = 0
          BY <2>1, <5>1, <5>3
        <5>4. CASE links[m].next = then /\ b.next = 0 /\ b.scheduled = <<>>
          <6>1. CASE link = 0
            BY <2>1, <5>1, <5>4, <6>1
          <6>2. CASE link # 0
            BY <2>1, <5>1, <5>2, <5>4, <6>2
          <6> QED BY <6>1, <6>2
        <5> QED BY <3>0, <5>3, <5>4
      <4> QED BY <1>2, <4>1, <4>2
    <3>6. (n + 1) + (m - 1) <= sz
      BY <3>0, <3>2
    <3> HIDE DEF then
    <3> QED BY <3>1, <3>2, <3>3, <3>4, <3>5, <3>6 DEF Right
  <2>4. ~astray => Right(d, sz) \/ Doomed(d)
    BY <2>2, <2>3
  <2>5. Went(d, Onward(d), sz, astray)
    BY <2>1, <2>4, WentOnward
  <2> QED BY <2>1, <2>5 DEF Went, d, link, links
<1> QED BY <1>4, <1>7, <1>8

LEMMA DataAnswers ==
    ASSUME ClientInv, DataAnswered
    PROVE  ClientInv'
<1> DEFINE chunk == call.request[2]
           rest == Tail(call.links)
<1>1. /\ call \in Calls(size) /\ CallOK(call, size, misled) /\ size \in Nat
      /\ call.pc = "request" /\ call.request[1] = "data" /\ call.outcome = "none"
      /\ call.links # <<>> /\ chunk = Head(call.links).chunk
      /\ call.how = "EXTERNAL_LINKS"
      /\ ~misled => Right(call, size) \/ Doomed(call)
      /\ misled \in BOOLEAN /\ oddities \in 0..MaxOddities /\ call.links \in Links(size)
  BY ClientAssumption DEF ClientInv, CallOK, DataAnswered, Kind, Calls
<1>2. chunk \in 1..size /\ rest \in Links(size)
  <2>1. call.request \in Asked(size)
    BY <1>1 DEF Calls
  <2> QED BY <1>1, <2>1, FirstLink, RequestsShown
<1>3. PICK chunks \in {<<chunk>>, <<>>} :
        LET c == Rows(call, chunks)
            d == Scheduled([c EXCEPT !.links = Tail(@)], Head(call.links).next)
        IN  /\ IF chunks # <<>> THEN UNCHANGED <<oddities, misled>>
                 ELSE oddities < MaxOddities /\ oddities' = oddities + 1 /\ misled' = TRUE
            /\ call' = IF c.pc = "done" THEN c ELSE IF d.pc = "done" THEN d ELSE Onward(d)
  BY Zenon DEF DataAnswered
<1> DEFINE c == Rows(call, chunks)
           e == [c EXCEPT !.links = Tail(c.links)]
           d == Scheduled(e, Head(call.links).next)
<1>4. call' = IF c.pc = "done" THEN c ELSE IF d.pc = "done" THEN d ELSE Onward(d)
  BY <1>3
<1>5. /\ misled' \in BOOLEAN /\ oddities' \in 0..MaxOddities
      /\ ~misled' => ~misled /\ chunks = <<chunk>>
  <2>1. CASE chunks # <<>>
    BY <1>1, <1>3, <2>1
  <2>2. CASE chunks = <<>>
    <3>1. oddities < MaxOddities /\ oddities' = oddities + 1 /\ misled' = TRUE
      BY <1>3, <2>2
    <3>2. oddities' \in 0..MaxOddities
      BY <1>1, <3>1, ClientAssumption
    <3> QED BY <3>1, <3>2
  <2> QED BY <2>1, <2>2
<1>6. chunks \in Lists(size)
  <2>1. <<chunk>> \in Lists(size) /\ <<>> \in Lists(size)
    BY <1>2 DEF Lists
  <2> HIDE DEF chunk, c, d, e
  <2>2. chunks = <<chunk>> \/ chunks = <<>>
    BY <1>3
  <2> QED BY <2>1, <2>2
<1>7. \/ c.pc = "done" /\ c = Stop(call, "limit")
      \/ HasRead(call, c, chunks, size)
  <2> HIDE DEF chunk
  <2> QED BY <1>1, <1>6, RowsTaken
<1> HIDE DEF c
<1>8. Went(call, call', size, misled')
  <2>1. CASE c.pc = "done" /\ c = Stop(call, "limit")
    <3> HIDE DEF d
    <3> QED BY <1>1, <1>4, <2>1, StoppedHere
  <2>2. CASE HasRead(call, c, chunks, size)
    <3>1. c \in Calls(size) /\ c.pc = "request" /\ c.links = call.links
      BY <1>1, <2>2 DEF HasRead
    <3>2. e = [c EXCEPT !.links = rest]
      BY <3>1
    <3> HIDE DEF rest, e
    <3>3. /\ e \in Calls(size) /\ e.pc = "request" /\ e.outcome = "none"
          /\ e.id = call.id /\ e.how = "EXTERNAL_LINKS" /\ e.rows = call.rows \o chunks
          /\ e.links = rest /\ e.next = call.next /\ e.scheduled = call.scheduled
          /\ e.seen = call.seen
      BY <1>1, <1>2, <2>2, <3>1, <3>2 DEF HasRead, Calls
    <3> DEFINE astray == misled'
    <3>4. ~astray => /\ e.rows = call.rows \o <<Head(call.links).chunk>>
                     /\ Right(call, size) \/ Doomed(call)
      BY <1>1, <1>5, <3>3
    <3> HIDE DEF astray, chunk
    <3>5. Went(e, IF d.pc = "done" THEN d ELSE Onward(d), size, astray)
      BY <1>1, <3>3, <3>4, LinkDone DEF rest
    <3>6. call' = IF d.pc = "done" THEN d ELSE Onward(d)
      BY <1>4, <3>1
    <3> HIDE DEF d
    <3> QED BY <1>1, <3>3, <3>5, <3>6 DEF Went, astray
  <2> QED BY <1>7, <2>1, <2>2
<1>9. /\ call.id # 0 /\ server[call.id].state = "ok" /\ ~server[call.id].truncated
  BY <1>1 DEF ClientInv, StatementOK, Kind
<1>10. UNCHANGED <<size, server, late>>
  BY DEF DataAnswered
<1> QED BY <1>1, <1>5, <1>8, <1>9, <1>10, GoesOn DEF Went

\* An answer that is refused, or none.
LEMMA Interruptions ==
    ASSUME ClientInv,
           \/ Rejected \/ Malformed \/ LinkRefused \/ RateLimited
           \/ \E outcome \in {"timeout", "transport"} : Fails(outcome)
           \/ Expires \/ CallerCancels
    PROVE  ClientInv'
<1>1. call \in Calls(size)
  BY DEF ClientInv, CallOK
<1>2. /\ "protocol" \in Failures /\ "ambiguous" \in Failures /\ "rate limit" \in Failures
      /\ "deadline" \in Failures /\ "cancelled" \in Failures
      /\ {"timeout", "transport"} \subseteq Failures
  BY DEF Failures, TimedOut
<1>3. CASE Rejected \/ Malformed
  <2>1. /\ call' = Stop(call, "protocol") /\ call.pc = "request"
        /\ UNCHANGED <<size, oddities, misled, late>>
        /\ \/ server' = server
           \/ Kind = "submit" /\ server' \in Accepted(call.how)
    BY <1>3 DEF Rejected, Malformed, MayBeAccepted
  <2> QED BY <1>1, <1>2, <2>1, StopsRight
<1>4. CASE LinkRefused
  <2>1. /\ call' = Stop(call, "protocol") /\ call.pc = "request"
        /\ server' = server /\ UNCHANGED <<size, oddities, misled, late>>
    BY <1>4 DEF LinkRefused, provider
  <2> QED BY <1>1, <1>2, <2>1, StopsRight
<1>5. ASSUME NEW bytes \in 0..MaxBytes, NEW outcome \in Failures, call.pc = "request",
             Again([call EXCEPT !.bytes = bytes], outcome),
             UNCHANGED <<provider, late>>
      PROVE  ClientInv'
  BY <1>5, TriesAgain
<1>6. CASE RateLimited
  <2>1. call = [call EXCEPT !.bytes = call.bytes] /\ call.bytes \in 0..MaxBytes
    BY <1>1 DEF Calls
  <2> DEFINE bytes == call.bytes
  <2>2. /\ Again([call EXCEPT !.bytes = bytes], "rate limit") /\ call.pc = "request"
        /\ UNCHANGED <<provider, late>>
    BY <1>6, <2>1 DEF RateLimited
  <2> QED BY <1>2, <1>5, <2>1, <2>2
<1>7. ASSUME NEW outcome \in {"timeout", "transport"}, Fails(outcome)
      PROVE  ClientInv'
  <2>1. CASE Kind = "submit"
    <3>1. /\ call' = Stop(call, "ambiguous") /\ call.pc = "request"
          /\ UNCHANGED <<size, oddities, misled, late>>
          /\ \/ server' = server
             \/ Kind = "submit" /\ server' \in Accepted(call.how)
      BY <1>7, <2>1 DEF Fails, MayBeAccepted
    <3> QED BY <1>1, <1>2, <3>1, StopsRight
  <2>2. CASE Kind # "submit"
    <3>1. PICK read \in {0, 1} :
            /\ call.bytes + read <= MaxBytes
            /\ Again([call EXCEPT !.bytes = call.bytes + read], outcome)
      BY <1>7, <2>2 DEF Fails
    <3>2. call.bytes + read \in 0..MaxBytes
      BY <1>1, <3>1, ClientAssumption DEF Calls
    <3>3. /\ outcome \in Failures /\ call.pc = "request"
          /\ UNCHANGED <<provider, late>>
      BY <1>2, <1>7, <2>2 DEF Fails, provider
    <3> QED BY <1>5, <3>1, <3>2, <3>3
  <2> QED BY <2>1, <2>2
<1>8. CASE Expires \/ CallerCancels
  <2>1. /\ call' = Stop(call, "deadline") \/ call' = Stop(call, "cancelled")
        /\ call.pc \in {"request", "sleep"}
        /\ UNCHANGED <<size, oddities, misled, late>>
        /\ \/ server' = server
           \/ call.pc = "request" /\ Kind = "submit" /\ server' \in Accepted(call.how)
    BY <1>8 DEF Expires, CallerCancels
  <2> QED BY <1>1, <1>2, <2>1, StopsRight
<1> QED BY <1>3, <1>4, <1>6, <1>7, <1>8

LEMMA Polls ==
    ASSUME ClientInv, Poll
    PROVE  ClientInv'
<1>1. /\ call \in Calls(size) /\ CallOK(call, size, misled) /\ call.pc = "sleep" /\ call.id # 0
      /\ call.rows = <<>> /\ call.links = <<>> /\ call.next = 0 /\ call.scheduled = <<>>
      /\ call.outcome = "none" /\ size \in Nat
  BY ClientAssumption DEF ClientInv, CallOK, StatementOK, Poll
<1>2. /\ UNCHANGED <<size, server, oddities, misled, late>>
      /\ oddities' \in 0..MaxOddities /\ misled' \in BOOLEAN
  BY DEF Poll, ClientInv, provider
<1>3. CASE call' = Stop(call, "deadline")
  <2>1. "deadline" \in Failures
    BY DEF Failures, TimedOut
  <2> QED BY <1>1, <1>2, <1>3, <2>1, StopsRight
<1>4. CASE call' = Request([call EXCEPT !.polls = call.polls + 1], <<"poll", 0>>)
  <2> DEFINE c == [call EXCEPT !.polls = call.polls + 1]
             d == Request(c, <<"poll", 0>>)
  <2>1. call.polls + 1 \in 0..MaxPolls
    BY <1>1, ClientAssumption DEF CallOK, Calls
  <2>2. /\ c \in Calls(size) /\ c.id = call.id /\ c.how = call.how /\ c.rows = <<>>
        /\ c.links = <<>> /\ c.next = 0 /\ c.scheduled = <<>> /\ c.outcome = "none"
    BY <1>1, <2>1 DEF Calls
  <2>3. <<"poll", 0>> \in Asked(size)
    BY <1>1, RequestsShown
  <2>4. call' = d
    BY <1>4
  <2> HIDE DEF c
  <2>5. /\ d \in Calls(size) /\ d.id = call.id /\ d.how = call.how /\ d.rows = <<>>
        /\ d.links = <<>> /\ d.next = 0 /\ d.scheduled = <<>> /\ d.outcome = "none"
        /\ d.pc = "request" /\ d.request = <<"poll", 0>>
    BY <2>2, <2>3, FirstAttempt DEF Request, Calls
  <2> HIDE DEF d
  <2>6. d.request[1] = "poll"
    BY <2>5
  <2>7. CallOK(d, size, misled)
    BY <2>5, <2>6 DEF CallOK
  <2> QED BY <1>1, <1>2, <2>4, <2>5, <2>6, <2>7, GoesOn
<1> QED BY <1>3, <1>4 DEF Poll

\* A statement that was running ends, by itself or because the client cancels it.
LEMMA StatementEnds ==
    ASSUME ClientInv, NEW n \in DOMAIN server, Running(n),
           NEW st \in Statements, st.state # "running", st.how = server[n].how,
           server' = [server EXCEPT ![n] = st], call' = call,
           UNCHANGED <<size, oddities, misled, late>>
    PROVE  ClientInv'
<1>1. server \in Seq(Statements)
  BY DEF ClientInv, StatementOK
<1>2. /\ server' \in Seq(Statements) /\ Len(server') = Len(server)
      /\ DOMAIN server' = DOMAIN server
      /\ \A k \in DOMAIN server : server'[k] = IF k = n THEN st ELSE server[k]
  BY <1>1
<1>3. StatementOK'
  BY <1>1, <1>2 DEF ClientInv, StatementOK, Running, Kind
<1>4. OneRuns'
  BY <1>2 DEF ClientInv, OneRuns, Running
<1> QED BY <1>3, <1>4 DEF ClientInv

LEMMA Finishes ==
    ASSUME ClientInv, NEW n \in DOMAIN server, Finish(n)
    PROVE  ClientInv'
<1>1. server[n] \in Statements
  BY DEF ClientInv, StatementOK
<1>2. PICK st \in Ends(server[n]) : server' = [server EXCEPT ![n] = st]
  BY DEF Finish
<1>3. st \in Statements /\ st.how = server[n].how /\ st.state # "running"
  BY <1>1, <1>2, EndsOfAStatement
<1>4. Running(n) /\ call' = call /\ UNCHANGED <<size, oddities, misled, late>>
  BY DEF Finish, Running
<1> QED BY <1>2, <1>3, <1>4, StatementEnds

\* The call is over, and what it is about is nobody's any more.
LEMMA Over ==
    ASSUME ClientInv, call.pc = "cancel", call' = [call EXCEPT !.pc = "done"],
           server' \in Seq(Statements), Len(server') = Len(server),
           \A n \in DOMAIN server' : server'[n].state = "running" => server[n].state = "running",
           UNCHANGED <<size, oddities, misled, late>>
    PROVE  ClientInv'
<1>1. call \in Calls(size) /\ CallOK(call, size, misled)
  BY DEF ClientInv, CallOK
<1>2. call' \in Calls(size) /\ call'.pc = "done" /\ call'.id = call.id
      /\ call'.outcome = call.outcome
  BY <1>1 DEF Calls
<1>3. call.outcome # "rows"
  BY <1>1 DEF CallOK, TimedOut
<1>4. CallOK(call', size, misled')
  BY <1>2, <1>3 DEF CallOK
<1>5. StatementOK'
  BY <1>2 DEF ClientInv, StatementOK
<1>6. OneRuns'
  <2>1. DOMAIN server' = DOMAIN server
    BY DEF ClientInv, StatementOK
  <2> QED BY <1>2, <2>1 DEF ClientInv, OneRuns, Running
<1> QED BY <1>4, <1>5, <1>6 DEF ClientInv

LEMMA Cancels ==
    ASSUME ClientInv, CancelArrives \/ CancelGivenUp
    PROVE  ClientInv'
<1>1. server \in Seq(Statements) /\ call.pc = "cancel" /\ call.id \in 1..Len(server)
  BY DEF ClientInv, StatementOK, CallOK, CancelArrives, CancelGivenUp
<1>2. call' = [call EXCEPT !.pc = "done"] /\ UNCHANGED <<size, oddities, misled, late>>
  BY DEF CancelArrives, CancelGivenUp, provider
<1>3. CASE CancelArrives
  <2> DEFINE id == call.id
             state == IF server[id].state = "running" THEN "canceled" ELSE server[id].state
             st == [server[id] EXCEPT !.state = state]
  <2>1. server' = [server EXCEPT ![id] = st]
    BY <1>3 DEF CancelArrives
  <2>2. /\ st \in Statements
        /\ st.state = "running" => server[id].state = "running"
    <3> DEFINE s == server[id]
    <3>1. s \in Statements
      BY <1>1
    <3>2. state \in States /\ (state = "running" => s.state = "running")
      BY <3>1 DEF Statements, States
    <3> HIDE DEF s, state
    <3>3. st \in Statements /\ st.state = state
      BY <3>1, <3>2 DEF Statements, s
    <3> QED BY <3>2, <3>3 DEF s
  <2> HIDE DEF st
  <2>3. id \in 1..Len(server)
    BY <1>1
  <2> HIDE DEF id
  <2>4. /\ server' \in Seq(Statements) /\ Len(server') = Len(server)
        /\ \A n \in DOMAIN server' : server'[n] = IF n = id THEN st ELSE server[n]
    BY <1>1, <2>1, <2>2, <2>3
  <2> QED BY <1>1, <1>2, <2>2, <2>4, Over
<1>4. CASE CancelGivenUp
  <2>1. server' = server
    BY <1>4 DEF CancelGivenUp, provider
  <2> QED BY <1>1, <1>2, <2>1, Over
<1> QED BY <1>3, <1>4

LEMMA InitialCall ==
    ASSUME Init
    PROVE  ClientInv
<1>1. /\ size \in Sizes /\ server = <<>> /\ oddities \in 0..MaxOddities
      /\ misled = FALSE /\ late = FALSE /\ size \in Nat
  <2>1. 0 \in 0..MaxOddities
    BY ClientAssumption
  <2> QED BY <2>1, ClientAssumption DEF Init
<1>2. PICK how \in Modes :
        call = [pc |-> "request", how |-> how, id |-> 0, request |-> <<"submit", 0>>,
                attempt |-> 1, polls |-> 0, chunks |-> 0, bytes |-> 0, rows |-> <<>>,
                links |-> <<>>, next |-> 0, scheduled |-> <<>>, seen |-> {},
                outcome |-> "none"]
  BY DEF Init, Modes
<1>3. /\ call.pc = "request" /\ call.request = <<"submit", 0>> /\ call.id = 0
      /\ call.rows = <<>> /\ call.links = <<>> /\ call.next = 0 /\ call.scheduled = <<>>
      /\ call.outcome = "none"
  BY <1>2
<1>4. call \in Calls(size)
  <2>1. 0 \in 0..MaxPolls /\ 0 \in 0..MaxChunks /\ 0 \in 0..MaxBytes
    BY ClientAssumption
  <2>2. <<"submit", 0>> \in Asked(size)
    BY <1>1, RequestsShown
  <2> QED BY <1>1, <1>2, <2>1, <2>2, FirstAttempt, ListsShown, OutcomesShown DEF Calls
<1>5. call.request[1] = "submit"
  BY <1>3
<1>6. CallOK(call, size, misled)
  BY <1>3, <1>4, <1>5 DEF CallOK
<1>7. StatementOK /\ OneRuns
  <2>1. server \in Seq(Statements) /\ Len(server) = 0 /\ DOMAIN server = {}
    BY <1>1
  <2> QED BY <1>3, <1>5, <2>1 DEF StatementOK, OneRuns, Kind
<1> QED BY <1>1, <1>6, <1>7 DEF ClientInv

LEMMA StepRight ==
    ASSUME ClientInv, [Next]_vars
    PROVE  ClientInv'
<1>1. CASE \E n \in DOMAIN server : Finish(n)
  BY <1>1, Finishes
<1>2. CASE SubmitAnswered \/ PollAnswered \/ PageAnswered \/ DataAnswered
  BY <1>2, SubmitAnswers, PollAnswers, PageAnswers, DataAnswers
<1>3. CASE \/ Rejected \/ Malformed \/ LinkRefused \/ RateLimited
           \/ \E outcome \in {"timeout", "transport"} : Fails(outcome)
           \/ Expires \/ CallerCancels
  BY <1>3, Interruptions
<1>4. CASE Poll
  BY <1>4, Polls
<1>5. CASE TimePasses \/ UNCHANGED vars
  <2>1. UNCHANGED <<provider, call>> /\ late' \in BOOLEAN
    BY <1>5 DEF TimePasses, vars, ClientInv
  <2>2. UNCHANGED <<size, server, oddities, misled, call>>
    BY <2>1 DEF provider
  <2>3. (StatementOK /\ OneRuns)'
    BY <2>2 DEF ClientInv, StatementOK, OneRuns, Running, Kind
  <2> QED BY <2>1, <2>2, <2>3 DEF ClientInv
<1>6. CASE CancelArrives \/ CancelGivenUp
  BY <1>6, Cancels
<1> QED BY <1>1, <1>2, <1>3, <1>4, <1>5, <1>6 DEF Next

-----------------------------------------------------------------------------
(* The theorems. *)

\* Every answer, right or wrong, refusal, timeout and cancellation leaves the call and
\* its statement as the next step of the client expects them; and unless the client was
\* misled, the rows and the links it has in hand are the next ones of the result, or
\* one of the links leads where it has been and stops it.
THEOREM ClientInvHolds == Spec => []ClientInv
<1>1. Init => ClientInv
  BY InitialCall
<1>2. ClientInv /\ [Next]_vars => ClientInv'
  BY StepRight
<1> QED BY <1>1, <1>2, PTL DEF Spec

\* The attempts, the polls, the chunks and the bytes of an execution stay within
\* DatabricksClientConfig, whatever it meets.
THEOREM TypeCorrect == Spec => []TypeOK
<1>1. ClientInv => TypeOK
  <2> SUFFICES ASSUME ClientInv PROVE TypeOK
    OBVIOUS
  <2>1. call \in Calls(size)
    BY DEF ClientInv, CallOK
  <2>2. call.request \in Requests
    BY <2>1 DEF Calls, Asked, Requests
  <2>3. \A n \in DOMAIN server :
          server[n].state \in States /\ server[n].how \in {"INLINE", "EXTERNAL_LINKS"}
    <3>1. server \in Seq(Statements)
      BY DEF ClientInv, StatementOK
    <3>2. \A n \in DOMAIN server : server[n] \in Statements
      BY <3>1
    <3> QED BY <3>2 DEF Statements, Modes
  <2>4. /\ call.pc \in {"request", "sleep", "cancel", "done"} /\ call.how \in Modes
        /\ call.attempt \in 1..MaxAttempts /\ call.polls \in 0..MaxPolls
        /\ call.chunks \in 0..MaxChunks /\ call.bytes \in 0..MaxBytes
        /\ call.rows \in Lists(size) /\ call.links \in Links(size)
        /\ call.next \in 0..size /\ call.scheduled \in Lists(size)
        /\ call.seen \in Chunks(size)
    BY <2>1 DEF Calls
  <2> QED BY <2>2, <2>3, <2>4 DEF TypeOK, ClientInv, StatementOK, Lists, Links, Chunks, Modes
<1> QED BY <1>1, ClientInvHolds, PTL

\* Rows are returned only if they are all the rows of the result, each once and in order,
\* whatever was retried, truncated or linked to where the client had followed a link
\* before.  A provider that misleads it otherwise, from the first page on or
\* by a page, a link or rows left out, is believed: the theorem says nothing of it.
THEOREM ReturnsAllOrNothing == Spec => []CompleteUnlessMisled
<1>1. ClientInv => CompleteUnlessMisled
  <2> SUFFICES ASSUME ClientInv, call.outcome = "rows", ~misled
               PROVE  call.rows = [i \in 1..size |-> i]
    BY DEF CompleteUnlessMisled
  <2>1. call.rows = [i \in 1..size |-> 1 + i - 1]
    BY DEF ClientInv, CallOK, Run
  <2>2. \A i \in 1..size : 1 + i - 1 = i
    BY ClientAssumption DEF ClientInv
  <2> QED BY <2>1, <2>2
<1> QED BY <1>1, ClientInvHolds, PTL

\* Never two statements of one execution run on the warehouse, whichever answers,
\* timeouts and cancellations interleave with their submission and their end.
THEOREM RunsOneStatement == Spec => []OneStatementAtATime
<1>1. ClientInv => OneStatementAtATime
  <2> SUFFICES ASSUME ClientInv PROVE OneStatementAtATime
    OBVIOUS
  <2> DEFINE running == {n \in DOMAIN server : server[n].state = "running"}
  <2>1. \A m, n \in running : m = n
    BY DEF ClientInv, OneRuns, Running
  <2> HIDE DEF running
  <2>2. Cardinality(running) <= 1
    <3>1. CASE running = {}
      BY <3>1, FS_EmptySet
    <3>2. CASE running # {}
      <4>1. PICK n : n \in running
        BY <3>2
      <4>2. running = {n}
        BY <2>1, <4>1
      <4>3. Cardinality(running) = 1
        BY <4>2, FS_Singleton
      <4> QED BY <4>3
    <3> QED BY <3>1, <3>2
  <2> QED BY <2>2 DEF OneStatementAtATime, running
<1> QED BY <1>1, ClientInvHolds, PTL
=============================================================================
