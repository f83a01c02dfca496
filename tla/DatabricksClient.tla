-------------------------- MODULE DatabricksClient --------------------------
(***************************************************************************)
(* One execution of a query by the Databricks client                        *)
(* (src/app/shared/infrastructure/databricks_client.py): the statement is    *)
(* submitted, polled until it ends, and its result collected chunk by chunk, *)
(* inline or by external links, with retries, a budget and a total deadline. *)
(*                                                                          *)
(* The result has `size' chunks of one row and one byte each.  A request and *)
(* its answer are one step, in which either may be lost: the client waits    *)
(* for one answer at a time and closes the connection of one it gave up on.  *)
(* A statement is known by its place in `server'.                            *)
(***************************************************************************)
EXTENDS Integers, Sequences, FiniteSets, SequencesExt

CONSTANTS
    Sizes,          \* sizes the result may have
    Widths,         \* chunks a page of external links may describe
    Ceiling,        \* _INLINE_BYTE_LIMIT_CEILING
    MaxAttempts, MaxPolls, MaxChunks, MaxRows, MaxBytes,    \* DatabricksClientConfig
    MaxOddities     \* bound on wrong answers

ASSUME ClientAssumption ==
    /\ Sizes \subseteq Nat \ {0} /\ Widths \subseteq Nat \ {0} /\ Widths # {}
    /\ {Ceiling, MaxAttempts, MaxPolls, MaxChunks, MaxRows, MaxBytes} \subseteq Nat \ {0}
    /\ MaxOddities \in Nat

VARIABLES
    size,       \* rows of the result
    server,     \* the statements the warehouse has accepted
    oddities,   \* wrong pages and chunks so far
    misled,     \* history: was one of them without a link that gives it away
    late,       \* has the total deadline passed
    call        \* the execution

provider == <<size, server, oddities, misled>>
vars == <<provider, late, call>>

States == {"running", "ok", "limit", "failed", "canceled"}

\* What may be requested: <<"submit", 0>>, <<"poll", 0>>, <<"page", chunk>> for the
\* page that starts there, <<"data", chunk>> behind an external link.
Requests == {<<"submit", 0>>, <<"poll", 0>>} \cup ({"page", "data"} \X (1..size))

TypeOK ==
    /\ size \in Sizes
    /\ \A n \in DOMAIN server :
         server[n].state \in States /\ server[n].how \in {"INLINE", "EXTERNAL_LINKS"}
    /\ oddities \in 0..MaxOddities
    /\ misled \in BOOLEAN /\ late \in BOOLEAN
    /\ call.pc \in {"request", "sleep", "cancel", "done"}
    /\ call.how \in {"INLINE", "EXTERNAL_LINKS"}
    /\ call.id \in 0..Len(server)
    /\ call.request \in Requests
    /\ call.attempt \in 1..MaxAttempts /\ call.polls \in 0..MaxPolls
    /\ call.chunks \in 0..MaxChunks /\ call.bytes \in 0..MaxBytes
    /\ call.rows \in Seq(1..size)
    /\ call.links \in Seq([chunk : 1..size, next : 0..size]) /\ call.next \in 0..size
    /\ call.scheduled \in Seq(1..size) /\ call.seen \subseteq 1..size

Init ==
    /\ size \in Sizes
    /\ server = <<>>
    /\ oddities = 0 /\ misled = FALSE
    /\ late = FALSE
    /\ \E how \in {"INLINE", "EXTERNAL_LINKS"} :
         call = [pc |-> "request", how |-> how, id |-> 0, request |-> <<"submit", 0>>,
                 attempt |-> 1, polls |-> 0, chunks |-> 0, bytes |-> 0, rows |-> <<>>,
                 links |-> <<>>, next |-> 0, scheduled |-> <<>>, seen |-> {},
                 outcome |-> "none"]

-----------------------------------------------------------------------------
(* The provider. *)

TooLarge(how) == size > IF how = "INLINE" /\ Ceiling < MaxBytes THEN Ceiling ELSE MaxBytes

\* Too large a result fails the statement or is cut, with a flag in the manifest.
Ends(st) ==
    {[st EXCEPT !.state = "failed"], [st EXCEPT !.state = "canceled"]} \cup
    (IF TooLarge(st.how)
       THEN {[st EXCEPT !.state = "ok", !.truncated = TRUE]} \cup
            (IF st.how = "INLINE" THEN {[st EXCEPT !.state = "limit"]} ELSE {})
       ELSE {[st EXCEPT !.state = "ok"]})

Finish(n) ==
    /\ server[n].state = "running"
    /\ \E st \in Ends(server[n]) : server' = [server EXCEPT ![n] = st]
    /\ UNCHANGED <<size, oddities, misled, late, call>>

\* The first answer may already carry the end of the statement.
Accepted(how) ==
    LET st == [how |-> how, state |-> "running", truncated |-> FALSE]
    IN  {Append(server, s) : s \in {st} \cup Ends(st)}

\* The page of a result that starts at a chunk: its links, an inline chunk counting
\* as one, and the next page, 0 for none.  Pages of external links give the next page
\* on the last link or on the page.
Page(from, how, width, onLink) ==
    LET to   == IF how = "INLINE" THEN from
                ELSE IF from + width - 1 > size THEN size ELSE from + width - 1
        then == IF to < size THEN to + 1 ELSE 0
    IN  [links |-> [i \in 1..(to - from + 1) |->
                      [chunk |-> from + i - 1,
                       next  |-> IF onLink /\ from + i - 1 = to THEN then ELSE 0]],
         next  |-> IF onLink THEN 0 ELSE then]

Pages(from, how) ==
    {Page(from, how, w, onLink) :
       w \in Widths, onLink \in {o \in BOOLEAN : how = "INLINE" => ~o}}

\* The same with something wrong: a link that leads elsewhere or nowhere; a chunk
\* without its URL, its link to the next page kept; no external_links or data_array.
Odd(page, how) ==
    {[page EXCEPT !.next = n] : n \in 0..size} \cup
    (IF how = "INLINE" THEN {}
       ELSE {[page EXCEPT !.links[i].next = n] : i \in DOMAIN page.links, n \in 0..size}) \cup
    {[links |-> RemoveAt(page.links, i),
      next  |-> IF page.next = 0 THEN page.links[i].next ELSE page.next] :
        i \in DOMAIN page.links} \cup
    {[page EXCEPT !.links = <<>>]}

OddPages(from, how) == UNION {Odd(page, how) : page \in Pages(from, how)} \ Pages(from, how)

\* Where a page leads.
LinksOf(page) == {page.next} \cup {page.links[i].next : i \in DOMAIN page.links}

\* The provider answers with a page.  A wrong one gives itself away if it leads to
\* a page the client has followed a link to.
Gives(page, from, how) ==
    \/ /\ page \in Pages(from, how)
       /\ UNCHANGED <<oddities, misled>>
    \/ /\ page \in OddPages(from, how)
       /\ oddities < MaxOddities
       /\ oddities' = oddities + 1
       /\ misled' = (misled \/ LinksOf(page) \cap call.seen = {})

-----------------------------------------------------------------------------
(* How an execution stops. *)

TimedOut == {"deadline", "timeout", "cancelled"}

\* Only a deadline, a timeout or a cancellation by the caller has the statement
\* cancelled, when there is one whose id is known.
Stop(c, outcome) ==
    [c EXCEPT !.outcome = outcome, !.rows = <<>>, !.links = <<>>, !.next = 0,
              !.scheduled = <<>>, !.seen = {},
              !.pc = IF outcome \in TimedOut /\ c.id # 0 THEN "cancel" ELSE "done"]

Request(c, request) == [c EXCEPT !.pc = "request", !.request = request, !.attempt = 1]

\* State.statement_id is forgotten until the new statement has one.
Submit(c, how) == Request([c EXCEPT !.how = how, !.id = 0], <<"submit", 0>>)

-----------------------------------------------------------------------------
(* Collecting the result: what the client makes of an answer. *)

\* register_next_link, before the link is scheduled.  Fault: a link is followed again.
ScheduledBlindly(c, link) ==
    IF c.pc = "done" \/ link = 0 THEN c
    ELSE IF Cardinality(c.seen) >= MaxChunks THEN Stop(c, "limit")
    ELSE [c EXCEPT !.scheduled = Append(@, link), !.seen = @ \cup {link}]

Scheduled(c, link) ==
    IF c.pc = "done" \/ link = 0 THEN c
    ELSE IF link \in c.seen THEN Stop(c, "protocol")
    ELSE IF Cardinality(c.seen) >= MaxChunks THEN Stop(c, "limit")
    ELSE [c EXCEPT !.scheduled = Append(@, link), !.seen = @ \cup {link}]

\* register_chunk.  A page is asked for once, and a URL is signed anew each time it
\* is given: the keys differ.
Counted(c) ==
    IF c.chunks >= MaxChunks THEN Stop(c, "limit") ELSE [c EXCEPT !.chunks = @ + 1]

\* The first of the scheduled pages, or the end.  An inline page is counted before it
\* is asked for.
NextPage(c) ==
    LET d == IF c.pc # "done" /\ c.scheduled # <<>> /\ c.how = "INLINE"
               THEN Counted(c) ELSE c
    IN  IF d.pc = "done" THEN d
        ELSE IF d.scheduled = <<>> THEN [d EXCEPT !.pc = "done", !.outcome = "rows"]
        ELSE Request([d EXCEPT !.scheduled = Tail(@)], <<"page", Head(d.scheduled)>>)

\* The next request once the chunk or the page before it is in: the external links
\* of the page, then the next page.
Onward(c) ==
    IF c.links = <<>> THEN NextPage(Scheduled([c EXCEPT !.next = 0], c.next))
    ELSE LET d == Counted(c)
         IN  IF d.pc = "done" THEN d ELSE Request(d, <<"data", Head(d.links).chunk>>)

\* consume_bytes and consume_rows, then the rows of a chunk.
Rows(c, chunks) ==
    IF c.bytes + Len(chunks) > MaxBytes \/ Len(c.rows) + Len(chunks) > MaxRows
      THEN Stop(c, "limit")
      ELSE [c EXCEPT !.bytes = @ + Len(chunks), !.rows = @ \o chunks]

\* A page of external links counts as a chunk too, and so does the first inline
\* page; a following inline page was counted when it was asked for.
Paged(c, page, initial) ==
    LET counted == IF c.how = "INLINE" /\ ~initial THEN c ELSE Counted(c)
        filled  ==
          IF counted.pc = "done" THEN counted
          ELSE IF c.how = "INLINE"
            THEN Rows(counted, [i \in DOMAIN page.links |-> page.links[i].chunk])
          ELSE IF Len(page.links) > MaxChunks THEN Stop(counted, "limit")
          ELSE [counted EXCEPT !.links = page.links]
    IN  IF filled.pc = "done" THEN filled ELSE Onward([filled EXCEPT !.next = page.next])

\* _validate_manifest_budget: total_row_count, once the result is not truncated.
Announced(c) == Len(c.rows) + size <= MaxRows

\* The end of a statement, or not yet.
Evaluate(c, st, page) ==
    CASE st.state = "running" /\ c.polls >= MaxPolls -> Stop(c, "deadline")
      [] st.state = "running" /\ c.polls < MaxPolls -> [c EXCEPT !.pc = "sleep"]
      [] st.state = "limit" -> Submit(c, "EXTERNAL_LINKS")    \* _is_inline_limit
      [] st.state \in {"failed", "canceled"} -> Stop(c, "statement")
      [] st.state = "ok" /\ st.truncated /\ c.how = "INLINE" ->
           Submit([c EXCEPT !.bytes = IF @ < MaxBytes THEN @ + 1 ELSE @], "EXTERNAL_LINKS")
      [] st.state = "ok" /\ st.truncated /\ c.how # "INLINE" -> Stop(c, "limit")
      [] st.state = "ok" /\ ~st.truncated ->
           IF Announced(c) THEN Paged(c, page, TRUE) ELSE Stop(c, "limit")

-----------------------------------------------------------------------------
(* Answers and their absence. *)

Kind == call.request[1]

\* The first page comes with the answer that says the statement is done.
FirstPages(st) ==
    Pages(1, st.how) \cup
    (IF st.state = "ok" /\ ~st.truncated THEN OddPages(1, st.how) ELSE {})

SubmitAnswered ==
    /\ call.pc = "request" /\ Kind = "submit"
    /\ server' \in Accepted(call.how)
    /\ \E page \in FirstPages(Last(server')) :
         /\ Gives(page, 1, call.how)
         /\ call' = Evaluate([call EXCEPT !.id = Len(server'), !.polls = 0],
                             Last(server'), page)
    /\ UNCHANGED <<size, late>>

PollAnswered ==
    /\ call.pc = "request" /\ Kind = "poll"
    /\ \E page \in FirstPages(server[call.id]) :
         Gives(page, 1, call.how) /\ call' = Evaluate(call, server[call.id], page)
    /\ UNCHANGED <<size, server, late>>

PageAnswered ==
    /\ call.pc = "request" /\ Kind = "page"
    /\ \E page \in Pages(call.request[2], call.how) \cup OddPages(call.request[2], call.how) :
         Gives(page, call.request[2], call.how) /\ call' = Paged(call, page, FALSE)
    /\ UNCHANGED <<size, server, late>>

\* A chunk behind its URL, or an answer that carries no rows.
DataAnswered ==
    /\ call.pc = "request" /\ Kind = "data"
    /\ \E chunks \in {<<call.request[2]>>, <<>>} :
         LET c == Rows(call, chunks)
             d == Scheduled([c EXCEPT !.links = Tail(@)], Head(call.links).next)
         IN  /\ IF chunks # <<>> THEN UNCHANGED <<oddities, misled>>
               ELSE oddities < MaxOddities /\ oddities' = oddities + 1 /\ misled' = TRUE
             /\ call' = IF c.pc = "done" THEN c ELSE IF d.pc = "done" THEN d ELSE Onward(d)
    /\ UNCHANGED <<size, server, late>>

\* A request that may have been carried out, whatever became of its answer.
MayBeAccepted == server' \in {server} \cup (IF Kind = "submit" THEN Accepted(call.how) ELSE {})

\* 4xx, a bad encoding or a body that is no JSON: not retried.
Rejected ==
    /\ call.pc = "request"
    /\ call' = Stop(call, "protocol")
    /\ MayBeAccepted
    /\ UNCHANGED <<size, oddities, misled, late>>

\* An answer of a statement without a valid id, state, manifest or list of columns.
Malformed ==
    /\ call.pc = "request" /\ Kind \in {"submit", "poll"}
    /\ call' = Stop(call, "protocol")
    /\ MayBeAccepted
    /\ UNCHANGED <<size, oddities, misled, late>>

\* The link to a page or to a chunk does not validate: it is not followed.
LinkRefused ==
    /\ call.pc = "request" /\ Kind \in {"page", "data"}
    /\ call' = Stop(call, "protocol")
    /\ UNCHANGED <<provider, late>>

\* _request_json: another attempt after a delay, unless none is left or the
\* deadline comes before the end of the delay.
Again(c, outcome) ==
    \/ c.attempt < MaxAttempts /\ call' = [c EXCEPT !.attempt = @ + 1]
    \/ c.attempt < MaxAttempts /\ call' = Stop(c, "deadline")
    \/ c.attempt = MaxAttempts /\ call' = Stop(c, outcome)

RateLimited ==
    /\ call.pc = "request"
    /\ Again(call, "rate limit")
    /\ UNCHANGED <<provider, late>>

\* A timeout, a reset or a 5xx.  The request may have been carried out, and part of
\* the body may have been read.  Fault: a submission is repeated like a read.
FailsAndRepeats(outcome) ==
    /\ call.pc = "request"
    /\ MayBeAccepted
    /\ Again(call, outcome)
    /\ UNCHANGED <<size, oddities, misled, late>>

Fails(outcome) ==
    /\ call.pc = "request"
    /\ \/ /\ Kind = "submit"
          /\ call' = Stop(call, "ambiguous")
          /\ MayBeAccepted
       \/ /\ Kind # "submit"
          /\ \E read \in {0, 1} :
               /\ call.bytes + read <= MaxBytes
               /\ Again([call EXCEPT !.bytes = @ + read], outcome)
          /\ UNCHANGED server
    /\ UNCHANGED <<size, oddities, misled, late>>

\* _sleep_before_next_poll
Poll ==
    /\ call.pc = "sleep"
    /\ \/ call' = Request([call EXCEPT !.polls = @ + 1], <<"poll", 0>>)
       \/ call' = Stop(call, "deadline")
    /\ UNCHANGED <<provider, late>>

-----------------------------------------------------------------------------
(* Deadline, cancellation, compensation. *)

TimePasses ==
    /\ ~late
    /\ late' = TRUE
    /\ UNCHANGED <<provider, call>>

\* asyncio.timeout over the whole execution.  Fault: the deadline is looked at
\* between requests only.
ExpiresBetweenRequests ==
    /\ late
    /\ call.pc = "sleep"
    /\ call' = Stop(call, "deadline")
    /\ UNCHANGED <<provider, late>>

Expires ==
    /\ late
    /\ call.pc \in {"request", "sleep"}
    /\ call' = Stop(call, "deadline")
    /\ \/ UNCHANGED server
       \/ call.pc = "request" /\ Kind = "submit" /\ server' \in Accepted(call.how)
    /\ UNCHANGED <<size, oddities, misled, late>>

CallerCancels ==
    /\ call.pc \in {"request", "sleep"}
    /\ call' = Stop(call, "cancelled")
    /\ \/ UNCHANGED server
       \/ call.pc = "request" /\ Kind = "submit" /\ server' \in Accepted(call.how)
    /\ UNCHANGED <<size, oddities, misled, late>>

\* _cancel_shielded: the provider may get the request ...
CancelArrives ==
    /\ call.pc = "cancel"
    /\ server' = [server EXCEPT ![call.id].state =
                    IF @ = "running" THEN "canceled" ELSE @]
    /\ call' = [call EXCEPT !.pc = "done"]
    /\ UNCHANGED <<size, oddities, misled, late>>

\* ... or not: it has a timeout of its own, and a second cancellation ends it.
CancelGivenUp ==
    /\ call.pc = "cancel"
    /\ call' = [call EXCEPT !.pc = "done"]
    /\ UNCHANGED <<provider, late>>

Next ==
    \/ \E n \in DOMAIN server : Finish(n)
    \/ SubmitAnswered \/ PollAnswered \/ PageAnswered \/ DataAnswered
    \/ Rejected \/ Malformed \/ LinkRefused \/ RateLimited
    \/ \E outcome \in {"timeout", "transport"} : Fails(outcome)
    \/ Poll \/ TimePasses \/ Expires \/ CallerCancels
    \/ CancelArrives \/ CancelGivenUp

Spec == Init /\ [][Next]_vars

\* The clock runs and the two timeouts are served; the provider owes nothing.
FairSpec ==
    /\ Spec
    /\ WF_vars(TimePasses) /\ WF_vars(Expires) /\ WF_vars(CancelGivenUp)

-----------------------------------------------------------------------------
(* What is checked. *)

\* "a ingestao nunca publica um snapshot parcial" (_submit): rows are returned only if
\* they are all the rows of the result, each once and in order, whatever was
\* retried, truncated or linked to where the client has followed a link before.  Of
\* the provider it takes no more than this: a page that is wrong in another way, which
\* may be the first, is accepted as it is, since nothing is compared with the manifest.
CompleteUnlessMisled ==
    call.outcome = "rows" /\ ~misled => call.rows = [i \in 1..size |-> i]

\* An execution never has two statements running on the warehouse: a submission
\* whose answer is lost is not repeated, and the fallback to external links comes after
\* the end of the inline statement.
OneStatementAtATime ==
    Cardinality({n \in DOMAIN server : server[n].state = "running"}) <= 1

\* Although the provider may never answer and never finish, the execution ends.
EveryExecutionEnds == <>(call.pc = "done")
=============================================================================
