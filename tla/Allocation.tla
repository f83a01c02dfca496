------------------------------ MODULE Allocation ------------------------------
(***************************************************************************)
(* Reservation orders over time (src/app/modules/pedidos): a processing job *)
(* plans with AdequationEngine and applies the frozen plan; people edit the *)
(* grades and approve them; a day passes, a new photo of the stock arrives. *)
(* OrdersProcessing models leases and chunks: here a job plans order by     *)
(* order, stores the plan and applies it in one piece.                      *)
(***************************************************************************)
EXTENDS AdequationEngine

CONSTANTS
    Order,          \* numbers (nr_pedido)
    None,
    Pending,        \* snapshots of the pending pairs to start from
    Stocks,         \* photos of the stock, per product and size
    Worth(_, _, _), \* vl_liquido in cents of a product, size and quantity
    Clients,        \* standing of the client of each order
    Positions,      \* per product, the sizes with a position in Linx
    Sheets,         \* grades an editor may ask for
    MaxDay,         \* bound: days that pass
    MaxJobs,        \* bound: processing jobs
    MaxEdits,       \* bound: saved edits
    EditsMeanwhile  \* an edit may come between a stored plan and its writes

Pair == Order \X Product

Items == UNION {[T -> [qty : Nat, asked : Nat, value : Int, diff : Int]] :
                  T \in SUBSET Size}

Reservation == [kind : {"com", "sem"}, items : Items, day : Nat,
                state : {"open", "approved", "expired"}, edited : BOOLEAN]

Reason == {"sem_estoque", "furo_grade", "blacklist", "sem_credito"}

\* A request for a grade names some sizes, with the pieces of each.
ASSUME AllocationAssumption ==
    /\ Order \subseteq Nat /\ IsFiniteSet(Order)
    /\ None \notin Reservation \cup Reason \cup [qty : Nat, day : Nat]
    /\ \A asked \in Pending :
         /\ DOMAIN asked = Pair
         /\ \A x \in Pair : asked[x] # None =>
              /\ \E T \in SUBSET Size : asked[x] \in [T -> Nat]
              /\ \A s \in DOMAIN asked[x] : Worth(x[2], s, asked[x][s]) \in Int
    /\ Stocks \subseteq [Product -> [Size -> Int]]
    /\ Clients \subseteq [Order -> {"plain", "blacklist", "no_credit"}]
    /\ Positions \in [Product -> SUBSET Size]
    /\ \A sheet \in Sheets : \E T \in SUBSET Size : T # {} /\ sheet \in [T -> Nat \ {0}]
    /\ {MaxDay, MaxJobs, MaxEdits} \subseteq Nat
    /\ EditsMeanwhile \in BOOLEAN

VARIABLES
    pending,        \* pedidos: what each pair asks for, None if nothing
    client,         \* status_credito and indica_blacklist of its rows
    photo,          \* estoque, with its date
    today,
    reservation,    \* ordens_reserva; None: no row
    standby,        \* pedido_standby_motivo: reason, or None
    linx,           \* ordens_reserva_linx: pieces and value, or None
    virtual,        \* estoque_virtual: its rows, or None
    job,            \* the processing job and its plan
    edits

\* The rows of new in place of the rows of old, as an upsert does.
Merged(new, old) ==
    [x \in DOMAIN new \cup DOMAIN old |-> IF x \in DOMAIN new THEN new[x] ELSE old[x]]

vars == <<pending, client, photo, today, reservation, standby, linx, virtual, job,
          edits>>

given == <<pending, client>>

Keys == Product \X Size

NoJob == [state |-> "idle", count |-> 0, locked |-> FALSE]

HasCredit(o)   == client[o] # "no_credit"
Blacklisted(o) == client[o] = "blacklist"

Reserved(o, p) == reservation[<<o, p>>] # None

ProductsOf(o) == {p \in Product : pending[<<o, p>>] # None /\ ~Reserved(o, p)}

\* The rows of pedidos as items: what is asked for, at its original value.
Grade(o, p) ==
    [s \in DOMAIN pending[<<o, p>>] |->
       [qty |-> pending[<<o, p>>][s], asked |-> pending[<<o, p>>][s],
        value |-> Worth(p, s, pending[<<o, p>>][s]), diff |-> 0]]

\* agrupar_por_produto, for one order.
GradesOf(o) == [p \in ProductsOf(o) |-> Grade(o, p)]

Init ==
    /\ pending \in Pending /\ client \in Clients
    /\ \E stock \in Stocks : photo = [stock |-> stock, day |-> 0]
    /\ today = 0
    /\ reservation = [x \in Pair |-> None]
    /\ standby = [x \in Pair |-> None]
    /\ linx = [x \in Pair |-> None]
    /\ virtual = [k \in Keys |-> None]
    /\ job = NoJob
    /\ edits = 0

-----------------------------------------------------------------------------
(* Derived numbers. *)

\* Pieces of reservations that the photo does not show yet.
Taken(r, day, p, s) ==
    LET fresh == {o \in Order : /\ r[<<o, p>>] # None
                                /\ r[<<o, p>>].day >= day
                                /\ s \in DOMAIN r[<<o, p>>].items}
    IN  SumFunction([o \in fresh |-> r[<<o, p>>].items[s].qty])

\* The projection of repositorio_estoque_virtual.
Left(r, p, s) == Positive(photo.stock[p][s] - Taken(r, photo.day, p, s))
Available == [p \in Product |-> [s \in Size |-> Left(reservation, p, s)]]

\* PEDIDO_BUDGET_SQL: pairs with adequation count per size, others in total.
Excess(x, y) == Positive(x - y)

Spent(r, o, Amount(_, _)) ==
    SumFunction([p \in {q \in Product : r[<<o, q>>] # None} |->
                   Amount(r[<<o, p>>].kind, r[<<o, p>>].items)])

Additions(kind, items) ==
    IF kind = "com"
    THEN SumFunction([s \in DOMAIN items |-> Excess(items[s].qty, items[s].asked)])
    ELSE Excess(Quantity(items), Asked(items))

Cuts(kind, items) ==
    IF kind = "com"
    THEN SumFunction([s \in DOMAIN items |-> Excess(items[s].asked, items[s].qty)])
    ELSE Excess(Asked(items), Quantity(items))

SpentAdditions(o) == Spent(reservation, o, Additions)
SpentCuts(o)      == Spent(reservation, o, Cuts)

Total(o) ==
    SumFunction([p \in {q \in Product : pending[<<o, q>>] # None} |->
                   SumFunction(pending[<<o, p>>])])

\* montar_linha_linx: sizes without a position are left out; a product
\* without any has no row.
LinxRow(p, items) ==
    LET placed == Restrict(items, DOMAIN items \cap Positions[p])
    IN  IF Positions[p] = {} THEN None
        ELSE [quantity |-> Quantity(placed), value |-> Value(placed)]

\* Fault: the projection is read before the reservations are written.
RecalculatedEarly(r, keys) ==
    [k \in Keys |-> IF k \in keys
                    THEN [qty |-> Left(reservation, k[1], k[2]), day |-> photo.day]
                    ELSE virtual[k]]

\* recalcular_estoque_virtual_alvos: only the keys that were touched.
Recalculated(r, keys) ==
    [k \in Keys |-> IF k \in keys THEN [qty |-> Left(r, k[1], k[2]), day |-> photo.day]
                    ELSE virtual[k]]

-----------------------------------------------------------------------------
(* The processing job, which has the order-state lock while it runs. *)

\* _prioridade: what the products with some stock are worth, then how many
\* they are, then the lower number.
Priority ==
    LET Offers(o)  == {p \in ProductsOf(o) : \E s \in Size : Available[p][s] > 0}
        Score(o)   == SumFunction([p \in Offers(o) |-> Value(Grade(o, p))])
        Before(a, b) ==
            \/ Score(a) > Score(b)
            \/ /\ Score(a) = Score(b)
               /\ \/ Cardinality(Offers(a)) > Cardinality(Offers(b))
                  \/ Cardinality(Offers(a)) = Cardinality(Offers(b)) /\ a < b
    IN  Sorted({o \in Order : HasCredit(o) /\ ProductsOf(o) # {}}, Before)

\* _resolver_orcamento_pedido
BudgetsOf(o) == [additions |-> Rest(Total(o), SpentAdditions(o)),
                 cuts      |-> Rest(Total(o), SpentCuts(o))]

\* _plan_once reads stock, totals and budgets before the engine runs.
StartPlan ==
    /\ job.state = "idle" /\ job.count < MaxJobs
    /\ \E kind \in {"com", "sem"} :
         job' = [state |-> "planning", count |-> job.count + 1, locked |-> TRUE,
                 kind |-> kind, queue |-> Priority, stock |-> Available,
                 rest |-> [o \in Order |-> BudgetsOf(o)],
                 rows |-> [x \in {} |-> None], deferred |-> [x \in {} |-> None]]
    /\ UNCHANGED <<given, photo, today, reservation, standby, linx, virtual, edits>>

\* What the loop over the orders decides for one of them.
Decided(o) ==
    IF job.kind = "sem" \/ Blacklisted(o)
    THEN AllOrNothing(GradesOf(o), job.stock, Blacklisted(o))
    ELSE Adequate(GradesOf(o), job.stock, job.rest[o].additions, job.rest[o].cuts)

\* The prices of the policy ADEQUAR.
Final(o, items) == IF job.kind = "sem" \/ Blacklisted(o) THEN items ELSE Repriced(items)

\* The rest of the loop: the stock is committed, the next order starts.
PlanOrder ==
    /\ job.state = "planning" /\ job.queue # <<>>
    /\ LET o       == Head(job.queue)
           decided == Decided(o)
           chosen  == DOMAIN decided.grades
       IN  /\ \A p \in chosen : Quantity(decided.grades[p]) > 0
           /\ job' = [job EXCEPT
                !.queue = Tail(@),
                !.stock = Committed(decided.grades, @),
                !.rows = Merged([x \in {o} \X chosen |-> Final(o, decided.grades[x[2]])], @),
                !.deferred = Merged([x \in {o} \X DOMAIN decided.reason |->
                                       decided.reason[x[2]]], @)]
    /\ UNCHANGED <<given, photo, today, reservation, standby, linx, virtual, edits>>

\* A product granted without a single piece has no average to share by: the
\* whole plan fails, and the job with it.
PlanFails ==
    /\ job.state = "planning" /\ job.queue # <<>>
    /\ LET grades == Decided(Head(job.queue)).grades
       IN  \E p \in DOMAIN grades : Quantity(grades[p]) = 0
    /\ job' = [NoJob EXCEPT !.state = "failed", !.count = job.count, !.locked = FALSE]
    /\ UNCHANGED <<given, photo, today, reservation, standby, linx, virtual, edits>>

\* store_plan and record_standby_reasons, in one transaction.
StorePlan ==
    /\ job.state = "planning" /\ job.queue = <<>>
    /\ job' = [job EXCEPT !.state = "planned"]
    /\ standby' = [x \in Pair |->
         IF x \in DOMAIN job.deferred THEN job.deferred[x]
         ELSE IF ~HasCredit(x[1]) /\ x[2] \in ProductsOf(x[1]) THEN "sem_credito"
         ELSE standby[x]]
    /\ UNCHANGED <<given, photo, today, reservation, linx, virtual, edits>>

\* The execution stops: its session and lock are gone, a stored plan stays.
Stop ==
    /\ job.state = "planned" /\ job.locked
    /\ job' = [job EXCEPT !.locked = FALSE]
    /\ UNCHANGED <<given, photo, today, reservation, standby, linx, virtual, edits>>

Resume ==
    /\ job.state = "planned" /\ ~job.locked
    /\ job' = [job EXCEPT !.locked = TRUE]
    /\ UNCHANGED <<given, photo, today, reservation, standby, linx, virtual, edits>>

\* _assert_stock_capacity, over all the rows of the chunk.
PlanFits ==
    \A p \in Product, s \in Size :
      LET rows == {x \in DOMAIN job.rows : x[2] = p /\ s \in DOMAIN job.rows[x]}
      IN  SumFunction([x \in rows |-> job.rows[x][s].qty]) <= Left(reservation, p, s)

\* The payload of a planned row: the reservation, and its stock targets.
Payload(x) == [kind |-> job.kind, items |-> job.rows[x], day |-> today,
               state |-> "open", edited |-> FALSE]

TargetsOf(x) == {x[2]} \X {s \in DOMAIN job.rows[x] : job.rows[x][s].qty > 0}

\* salvar_linhas_linx: an upsert of the rows of the pairs in r.
LinxSaved(r) == linx' = Merged([x \in DOMAIN r |-> LinxRow(x[2], r[x].items)], linx)

\* apply_pairs and the completion of the job.
Apply ==
    /\ job.state = "planned" /\ job.locked /\ PlanFits
    /\ LET new == [x \in DOMAIN job.rows |-> Payload(x)]
       IN  /\ reservation' = Merged(new, reservation)
           /\ LinxSaved(new)
           /\ standby' = [x \in Pair |-> IF x \in DOMAIN new THEN None ELSE standby[x]]
           /\ virtual' = Recalculated(reservation', UNION {TargetsOf(x) : x \in DOMAIN new})
    /\ job' = [NoJob EXCEPT !.count = job.count]
    /\ UNCHANGED <<given, photo, today, edits>>

\* ProcessingPlanConflict: the plan is given up, its reasons stay.
PlanIsStale ==
    /\ job.state = "planned" /\ job.locked /\ ~PlanFits
    /\ job' = [NoJob EXCEPT !.count = job.count]
    /\ UNCHANGED <<given, photo, today, reservation, standby, linx, virtual, edits>>

\* The next request follows a failed job.
Forget ==
    /\ job.state = "failed"
    /\ job' = [NoJob EXCEPT !.count = job.count]
    /\ UNCHANGED <<given, photo, today, reservation, standby, linx, virtual, edits>>

-----------------------------------------------------------------------------
(* Writes of people: each takes the lock for one transaction. *)

Open(x) == reservation[x] # None /\ reservation[x].state = "open"

QtyAt(items, s) == IF s \in DOMAIN items THEN items[s].qty ELSE 0

\* Fault: each order of a batch is checked on its own.
OneByOneFits(p, sheet) ==
    \A o \in DOMAIN sheet : \A s \in DOMAIN sheet[o] :
      sheet[o][s] <= Left(reservation, p, s) + QtyAt(reservation[<<o, p>>].items, s)

\* Enough stock for each size of the batch, whose own pieces come back.
BatchFits(p, sheet) ==
    \A s \in Size :
      LET O    == DOMAIN sheet
          asks == {o \in O : s \in DOMAIN sheet[o]}
      IN  SumFunction([o \in asks |-> sheet[o][s]]) <=
            Left(reservation, p, s)
              + SumFunction([o \in O |-> QtyAt(reservation[<<o, p>>].items, s)])

\* The budget of a pair without adequation, by its total.
WithinBudget(o, p, sheet) ==
    LET now   == reservation[<<o, p>>].items
        asked == Asked(now)
        qty   == SumFunction(sheet)
    IN  /\ Affords(Total(o), SpentAdditions(o), Excess(Quantity(now), asked),
                   Excess(qty, asked))
        /\ Affords(Total(o), SpentCuts(o), Excess(asked, Quantity(now)),
                   Excess(asked, qty))

\* What montar_grade_atualizada and the Linx row refuse.
Representable(o, p, sheet) ==
    /\ reservation[<<o, p>>].kind = "com" =>
         SumFunction(sheet) = Quantity(reservation[<<o, p>>].items)
    /\ DOMAIN sheet \subseteq Positions[p]

\* executar_alteracao_grades_produto: one product, some orders, all or none.
\* When only pairs without adequation change, the save approves them.
EditGrades(p) ==
    /\ ~job.locked /\ edits < MaxEdits
    /\ job.state = "planned" => EditsMeanwhile
    /\ \E O \in (SUBSET {o \in Order : Open(<<o, p>>)}) \ {{}} :
       \E sheet \in [O -> Sheets] :
         LET old(o)  == reservation[<<o, p>>]
             new(o)  == Regraded(old(o).items, old(o).kind, sheet[o])
             changed == {o \in O : ~old(o).edited \/ new(o) # old(o).items}
             fused   == \A o \in changed : old(o).kind = "sem"
             saved   == [x \in changed \X {p} |->
                           [reservation[x] EXCEPT !.items = new(x[1]), !.edited = TRUE,
                              !.state = IF fused THEN "approved" ELSE "open"]]
             keys    == {p} \X UNION {DOMAIN sheet[o] \cup DOMAIN old(o).items : o \in O}
         IN  /\ changed # {}
             /\ BatchFits(p, sheet)
             /\ \A o \in O : old(o).kind = "sem" => WithinBudget(o, p, sheet[o])
             /\ \A o \in O : Representable(o, p, sheet[o])
             /\ reservation' = Merged(saved, reservation)
             /\ LinxSaved(saved)
             /\ virtual' = Recalculated(reservation', keys)
    /\ edits' = edits + 1
    /\ UNCHANGED <<given, photo, today, standby, job>>

\* The UPDATE of aprovar_ordem_reserva: what is open among the pairs, no other.
Approved(pairs) ==
    /\ ~job.locked
    /\ \E x \in pairs : Open(x)
    /\ reservation' = [x \in Pair |-> IF x \in pairs /\ Open(x)
                                     THEN [reservation[x] EXCEPT !.state = "approved"]
                                     ELSE reservation[x]]
    /\ UNCHANGED <<given, photo, today, standby, linx, virtual, job, edits>>

\* executar_aprovacao: one pair, or all the products of the order.
ApproveOrder(o) == Approved({o} \X Product) \/ \E p \in Product : Approved({<<o, p>>})

\* executar_aprovacao_produto
ApproveProduct(p) == Approved(Order \X {p})

-----------------------------------------------------------------------------
(* Time: the window of 24 hours, and the daily photo. *)

\* The 24 hours of a reservation end in the course of the next day.
Expire(x) ==
    /\ Open(x) /\ reservation[x].day < today
    /\ reservation' = [reservation EXCEPT ![x].state = "expired"]
    /\ UNCHANGED <<given, photo, today, standby, linx, virtual, job, edits>>

NextDay ==
    /\ today < MaxDay
    /\ \A x \in Pair : Open(x) => reservation[x].day = today
    /\ today' = today + 1
    /\ UNCHANGED <<given, photo, reservation, standby, linx, virtual, job, edits>>

\* The ingestion takes the same lock.
NewPhoto ==
    /\ ~job.locked /\ photo.day < today
    /\ \E stock \in Stocks : photo' = [stock |-> stock, day |-> today]
    /\ UNCHANGED <<given, today, reservation, standby, linx, virtual, job, edits>>

-----------------------------------------------------------------------------
Next ==
    \/ StartPlan \/ PlanOrder \/ PlanFails \/ StorePlan \/ Stop \/ Resume
    \/ Apply \/ PlanIsStale \/ Forget
    \/ \E p \in Product : EditGrades(p) \/ ApproveProduct(p)
    \/ \E o \in Order : ApproveOrder(o)
    \/ \E x \in Pair : Expire(x)
    \/ NextDay \/ NewPhoto

Spec == Init /\ [][Next]_vars

-----------------------------------------------------------------------------
(* Properties. *)

\* The reservations of a product that a step changes are all as recent as the photo.  Of
\* an older one the stock counts no piece, but a batch that edits it has its pieces to
\* hand on all the same (casos_uso.py:340).
ChangesOnlyRecent(p) ==
    \A o \in Order : (Reserved(o, p) /\ reservation'[<<o, p>>] # reservation[<<o, p>>])
                        => reservation[<<o, p>>].day >= photo.day

\* No job, and no batch of edits whose reservations are all as recent as the photo of
\* the stock, raises what the reservations of a day take of a size above that photo.  A
\* batch that edits an older one may: the property says nothing of it.
TakesOnlyWhatIsLeft ==
    [][\A p \in Product, s \in Size :
         LET taken == Taken(reservation', photo'.day, p, s)
         IN  taken > Taken(reservation, photo'.day, p, s) /\ ChangesOnlyRecent(p)
             => taken <= photo.stock[p][s]]_vars

\* Over all its jobs and edits an order is cut, and grown, by no more than
\* the tolerance of its total.
BudgetRespected ==
    \A o \in Order : /\ SpentAdditions(o) <= Limit(Total(o))
                     /\ SpentCuts(o) <= Limit(Total(o))

\* A stored plan leaves no pair without an answer: it reserves it or there is
\* a reason for the user to read; a pair that is reserved has none.
EveryPairIsExplained ==
    /\ \A x \in Pair : reservation[x] # None => standby[x] = None
    /\ job.state = "planned" =>
         \A o \in Order : \A p \in ProductsOf(o) :
           <<o, p>> \in DOMAIN job.rows \/ standby[<<o, p>>] # None

\* The value a client ordered can be told from a reservation to the cent,
\* whatever the engine and the editors did to its grade.
OriginalValueIsKept ==
    \A o \in Order, p \in Product :
      Reserved(o, p) =>
        LET items == reservation[<<o, p>>].items
        IN  Value(items) - Diff(items) = Value(Grade(o, p))

\* The engine reserves as many products of an order as its budget of cuts
\* allows: no other choice of products would serve more.
ServesMostProducts ==
    [][(job.state = "planning" /\ job'.state = "planning" /\ job' # job) =>
         LET o     == Head(job.queue)
             whole == {p \in ProductsOf(o) : ~HasHole(Grade(o, p), job.stock[p])}
             cost(S) == SumFunction([p \in S |-> Shortage(Grade(o, p), job.stock[p])])
             best  == Max({Cardinality(S) : S \in
                             {T \in SUBSET whole : cost(T) <= job.rest[o].cuts}})
         IN  (job.kind = "com" /\ ~Blacklisted(o)) =>
               Cardinality({p \in Product : <<o, p>> \in DOMAIN job'.rows}) = best]_vars

\* The Linx row of a reservation and the current rows of the virtual stock
\* say what the reservations say, after any job, batch edit or photo.
DerivedRowsAgree ==
    /\ \A o \in Order, p \in Product :
         Reserved(o, p) => linx[<<o, p>>] = LinxRow(p, reservation[<<o, p>>].items)
    /\ \A k \in Keys :
         (virtual[k] # None /\ virtual[k].day = photo.day) =>
           virtual[k].qty = Left(reservation, k[1], k[2])

\* A plan can always be computed.
PlanNeverFails == job.state # "failed"
=============================================================================
