--------------------------- MODULE AdequationEngine ---------------------------
(***************************************************************************)
(* The adequation engine (src/app/modules/pedidos/domain): pure rules that  *)
(* decide, for the orders of one channel, which products are reserved, how  *)
(* far a grade is cut or grown, and how its value is shared.  Channels       *)
(* share nothing, so one stands for all.                                    *)
(*                                                                          *)
(* A grade is a function from sizes to items, money is in cents.            *)
(***************************************************************************)
EXTENDS Integers, Sequences, SequencesExt, FiniteSets, FiniteSetsExt, Functions

CONSTANTS
    Product,            \* codes (cd_prod_cor): numbers, in their order
    Sizes,              \* the names of the sizes, in alphabetical order
    Rank,               \* get_tamanho_idx of each size
    Unknown,            \* the rank of a size in no ranking, 999
    TolerancePercent    \* parameter tolerancia_adequacao

Size == ToSet(Sizes)

Position(s) == CHOOSE i \in DOMAIN Sizes : Sizes[i] = s

ASSUME EngineAssumption ==
    /\ Product \subseteq Nat /\ IsFiniteSet(Product)
    /\ Sizes \in Seq(Size) /\ IsInjective(Sizes)
    /\ Rank \in [Size -> Nat] /\ Unknown \in Nat
    /\ TolerancePercent \in 0..100

Positive(n) == IF n > 0 THEN n ELSE 0
Least(a, b) == IF a < b THEN a ELSE b

Quantity(items) == SumFunction([s \in DOMAIN items |-> items[s].qty])
Asked(items)    == SumFunction([s \in DOMAIN items |-> items[s].asked])
Value(items)    == SumFunction([s \in DOMAIN items |-> items[s].value])
Diff(items)     == SumFunction([s \in DOMAIN items |-> items[s].diff])

\* A set in the order of a strict total order.
Sorted(S, Before(_, _)) ==
    CHOOSE q \in SetToSeqs(S) : \A i, j \in DOMAIN q : i < j => Before(q[i], q[j])

-----------------------------------------------------------------------------
(* Shares of a total: ratear_hamilton (cents) and ratear_inteiro (pieces). *)

\* Each share rounded down.  As shares: the cents left by the floors are lost.
Floors(total, weight) ==
    [s \in DOMAIN weight |-> (total * weight[s]) \div SumFunction(weight)]

Magnitude(n) == IF n < 0 THEN -n ELSE n

\* The largest remainders get what the floors leave, names break the ties.
\* With weights that add up to 0 the division is undefined: no result.
Shares(total, weight) ==
    LET size  == Magnitude(total)
        floor == Floors(size, weight)
        rest  == [s \in DOMAIN weight |-> (size * weight[s]) % SumFunction(weight)]
        Ahead(s, t) == \/ rest[s] > rest[t]
                       \/ rest[s] = rest[t] /\ Position(s) < Position(t)
        winners == {s \in DOMAIN weight :
                      Cardinality({t \in DOMAIN weight : Ahead(t, s)})
                        < size - SumFunction(floor)}
    IN  [s \in DOMAIN weight |->
           (IF total < 0 THEN -1 ELSE 1) * (floor[s] + IF s \in winners THEN 1 ELSE 0)]

Divides(weight) == \E s \in DOMAIN weight : weight[s] > 0

-----------------------------------------------------------------------------
(* OrcamentoPedido: both budgets of an order have the same ceiling. *)

Limit(total) == (total * TolerancePercent) \div 100

\* Fault: every job starts with a full budget.
RestAlwaysFull(total, consumed) == Limit(total)

\* What is left of a budget after earlier reservations.
Rest(total, consumed) == Positive(Limit(total) - consumed)

-----------------------------------------------------------------------------
(* One product of one order. *)

\* tem_furo_de_grade: a size strictly inside the grade asked for is sold out.
HasHole(items, stock) ==
    LET known == {s \in DOMAIN items : items[s].qty > 0 /\ Rank[s] # Unknown}
    IN  \E s, low, high \in known :
           Rank[low] < Rank[s] /\ Rank[s] < Rank[high] /\ stock[s] <= 0

\* _falta_necessaria
Shortage(items, stock) ==
    SumFunction([s \in DOMAIN items |-> Positive(items[s].qty - stock[s])])

\* adequar_grade_produto, once its cut is granted.
Fitted(items, stock) ==
    [s \in DOMAIN items |->
       [items[s] EXCEPT !.asked = items[s].qty, !.qty = Least(items[s].qty, stock[s])]]

\* conceder_adicao_pedido: only the smallest and the largest known size grow.
Boundary(items) ==
    LET known == {s \in DOMAIN items : Rank[s] # Unknown}
    IN  {s \in known : \/ \A t \in known : Rank[s] <= Rank[t]
                       \/ \A t \in known : Rank[s] >= Rank[t]}

Grown(items, stock, budget) ==
    FoldLeft(LAMBDA acc, s :
               LET extra == Least(Positive(stock[s] - acc.items[s].qty), acc.left)
               IN  IF s \notin Boundary(items) THEN acc
                   ELSE [items |-> [acc.items EXCEPT ![s].qty = @ + extra],
                         left |-> acc.left - extra],
             [items |-> items, left |-> budget], Sizes)

\* _recalcular_financeiro_produto: the average price of what was asked for,
\* rounded half up to a cent.
Repriced(items) ==
    LET asked  == Asked(items)
        total  == IF asked = 0 THEN 0
                  ELSE (2 * Value(items) * Quantity(items) + asked) \div (2 * asked)
        shares == Shares(total, [s \in DOMAIN items |-> items[s].qty])
    IN  [s \in DOMAIN items |->
           [items[s] EXCEPT !.value = shares[s], !.diff = shares[s] - items[s].value]]

-----------------------------------------------------------------------------
(* All the products of one order, with the policy ADEQUAR. *)

\* Fault: products take their cuts in the order of their codes.
FirstPassByCode(shortage, budget) ==
    FoldLeft(LAMBDA acc, p :
               IF shortage[p] > acc.left THEN acc
               ELSE [left |-> acc.left - shortage[p], granted |-> acc.granted \cup {p}],
             [left |-> budget, granted |-> {}], Sorted(DOMAIN shortage, <))

\* Pass 1: the smallest cuts first, each in full or not at all.
FirstPass(shortage, budget) ==
    LET inOrder == Sorted(DOMAIN shortage, LAMBDA p, q :
                     \/ shortage[p] < shortage[q]
                     \/ shortage[p] = shortage[q] /\ p < q)
    IN  FoldLeft(LAMBDA acc, p :
                   IF shortage[p] > acc.left THEN acc
                   ELSE [left |-> acc.left - shortage[p], granted |-> acc.granted \cup {p}],
                 [left |-> budget, granted |-> {}], inOrder)

\* _preco_unitario_medio, compared without its division; 0 if nothing was asked.
Dearer(one, other) ==
    LET total(items) == IF Asked(items) > 0 THEN Value(items) ELSE 0
        per(items)   == IF Asked(items) > 0 THEN Asked(items) ELSE 1
    IN  total(one) * per(other) > total(other) * per(one)

\* Pass 2: the highest average price first, products that needed no cut only.
SecondPass(grades, stock, ready, budget) ==
    LET inOrder == Sorted(ready, LAMBDA p, q :
                     \/ Dearer(grades[p], grades[q])
                     \/ ~Dearer(grades[q], grades[p]) /\ p < q)
    IN  FoldLeft(LAMBDA acc, p :
                   LET grown == Grown(acc.grades[p], stock[p], acc.left)
                   IN  [grades |-> [acc.grades EXCEPT ![p] = grown.items],
                        left |-> grown.left],
                 [grades |-> grades, left |-> budget], inOrder).grades

\* Fault: a product with a hole is skipped without a reason.
AdequateSilently(grades, stock, additions, cuts) ==
    LET whole    == {p \in DOMAIN grades : ~HasHole(grades[p], stock[p])}
        shortage == [p \in whole |-> Shortage(grades[p], stock[p])]
        granted  == FirstPass(shortage, cuts).granted
        fitted   == [p \in granted |-> Fitted(grades[p], stock[p])]
    IN  [grades |-> SecondPass(fitted, stock, {p \in granted : shortage[p] = 0}, additions),
         reason |-> [p \in whole \ granted |-> "sem_estoque"]]

\* grades: what the order asks for, per product.  The result names the products
\* it reserves with their final items, before prices, and the reason of others.
Adequate(grades, stock, additions, cuts) ==
    LET whole    == {p \in DOMAIN grades : ~HasHole(grades[p], stock[p])}
        shortage == [p \in whole |-> Shortage(grades[p], stock[p])]
        granted  == FirstPass(shortage, cuts).granted
        fitted   == [p \in granted |-> Fitted(grades[p], stock[p])]
    IN  [grades |-> SecondPass(fitted, stock, {p \in granted : shortage[p] = 0}, additions),
         reason |-> [p \in DOMAIN grades \ granted |->
                       IF p \in whole THEN "sem_estoque" ELSE "furo_grade"]]

\* aplicar_tudo_ou_nada
IsComplete(items, stock) == Shortage(items, stock) = 0

\* The policy SEM_ADEQUAR, and every order of a client in the blacklist.
AllOrNothing(grades, stock, blacklisted) ==
    LET whole == {p \in DOMAIN grades : ~HasHole(grades[p], stock[p])}
        full  == {p \in whole : IsComplete(grades[p], stock[p])}
    IN  [grades |-> Restrict(grades, full),
         reason |-> [p \in DOMAIN grades \ full |->
                       IF blacklisted THEN "blacklist"
                       ELSE IF p \in whole THEN "sem_estoque" ELSE "furo_grade"]]

\* _commitar_par: what is reserved leaves the stock of the plan.
Committed(grades, stock) ==
    [p \in Product |->
       IF p \notin DOMAIN grades THEN stock[p]
       ELSE [s \in Size |-> IF s \in DOMAIN grades[p]
                            THEN Positive(stock[p][s] - grades[p][s].qty)
                            ELSE stock[p][s]]]

-----------------------------------------------------------------------------
(* Manual edits: montar_grade_atualizada and validar_edicao_orcamento. *)

\* The new sizes keep both totals in cents.  A reservation without adequation
\* shares what was asked for among the new sizes; one with adequation takes
\* the new quantities for what was asked.
Regraded(items, kind, sizes) ==
    LET value    == Shares(Value(items), sizes)
        original == Shares(Value(items) - Diff(items), sizes)
        asked    == IF kind = "sem" THEN Shares(Asked(items), sizes) ELSE sizes
    IN  [s \in DOMAIN sizes |->
           [qty |-> sizes[s], asked |-> asked[s],
            value |-> value[s], diff |-> value[s] - original[s]]]

\* Only what exceeds the pair's present share needs room in the budget.
Affords(total, consumed, now, new) ==
    LET others == Positive(consumed - now)
    IN  new > now => new - now <= Positive(Rest(total, others) - now)
=============================================================================
