----------------------------- MODULE SourceRows -----------------------------
(***************************************************************************)
(* Aggregation of the raw lines of the five Databricks views               *)
(* (src/app/modules/ingestao/domain): what a refresh writes to each table,  *)
(* which lines it drops and which it refuses.                               *)
(*                                                                          *)
(* A view is a sequence of lines.  A pair is <<nr_pedido, cd_prod_cor>>, a  *)
(* size is a number in the alphabetical order of the names, money is in     *)
(* cents, and a table is a function from its key.                           *)
(***************************************************************************)
EXTENDS Integers, Sequences, FiniteSets, FiniteSetsExt, Functions

CONSTANTS
    NoChannel,      \* a text that is neither Franquia nor Multimarca
    Positions       \* positions of a Linx grade, 1..48

Positive(n) == IF n > 0 THEN n ELSE 0
Size(n)     == IF n < 0 THEN -n ELSE n

-----------------------------------------------------------------------------
(* Orders, open (pending) or already processed in the ERP. *)

\* Lines that are not dropped at once: identity and, for an open order, items.
UsablePending(lines) == {i \in DOMAIN lines : lines[i].named /\ lines[i].qty > 0}
UsableErp(lines)     == {i \in DOMAIN lines : lines[i].named}

\* CanalOrigemInvalidoError: one line of an unknown channel, or two channels in
\* a pair, refuse the whole view.
ChannelsRefused(lines, usable) ==
    \E i, k \in usable :
        \/ lines[i].channel = NoChannel
        \/ lines[i].pair = lines[k].pair /\ lines[i].channel # lines[k].channel

\* _valor_monetario: only the ERP knows returns, whose value is negative.
Money(value, signed) == IF signed THEN value ELSE Positive(value)

OfPair(lines, usable, p) == {i \in usable : lines[i].pair = p}

\* The source repeats the total of a pair on each of its lines.
Totals(lines, usable, p, signed) ==
    {Money(lines[i].value, signed) : i \in OfPair(lines, usable, p)} \ {0}

PairsOf(lines, usable) == {lines[i].pair : i \in usable}

Quantities(lines, usable, p) ==
    LET mine == OfPair(lines, usable, p)
    IN  [s \in {lines[i].size : i \in mine} |->
           SumFunction([i \in {k \in mine : lines[k].size = s} |-> Positive(lines[i].qty)])]

\* Each share of a total in proportion to the items, rounded down.
Floors(total, qty) == [s \in DOMAIN qty |-> (total * qty[s]) \div SumFunction(qty)]

\* _ratear_valor_repetido_por_tamanho: shares in proportion to the items, the
\* cents that are left go to the largest remainders, then by name.
Apportioned(total, qty) ==
    LET cents == Size(total)
        floor == Floors(cents, qty)
        rest  == [s \in DOMAIN qty |-> (cents * qty[s]) % SumFunction(qty)]
        Ahead(s, t) == rest[s] > rest[t] \/ (rest[s] = rest[t] /\ s < t)
        winners == {s \in DOMAIN qty :
                      Cardinality({t \in DOMAIN qty : Ahead(t, s)})
                        < cents - SumFunction(floor)}
    IN  [s \in DOMAIN qty |->
           IF SumFunction(qty) = 0 THEN 0
           ELSE (IF total < 0 THEN -1 ELSE 1) * (floor[s] + IF s \in winners THEN 1 ELSE 0)]

Grade(lines, usable, p, signed) ==
    LET qty   == Quantities(lines, usable, p)
        total == Totals(lines, usable, p, signed)
        value == IF total = {} THEN [s \in DOMAIN qty |-> 0]
                 ELSE Apportioned(CHOOSE v \in total : TRUE, qty)
    IN  [s \in DOMAIN qty |-> [qty |-> qty[s], value |-> value[s]]]

\* agregar_itens_pedidos: a pair needs exactly one total.
PendingTable(lines) ==
    LET usable == UsablePending(lines)
    IN  [p \in {p \in PairsOf(lines, usable) :
                  Cardinality(Totals(lines, usable, p, FALSE)) = 1} |->
           Grade(lines, usable, p, FALSE)]

\* agregar_itens_processados_erp: no total at all is a position of value 0.
ErpTable(lines) ==
    LET usable == UsableErp(lines)
    IN  [p \in {p \in PairsOf(lines, usable) :
                  Cardinality(Totals(lines, usable, p, TRUE)) <= 1} |->
           Grade(lines, usable, p, TRUE)]

-----------------------------------------------------------------------------
(* Stock, billing and the reference of sizes. *)

\* agregar_estoque: the items that can be reserved, per product and channel.
StockTable(lines) ==
    LET usable == {i \in DOMAIN lines : /\ lines[i].named /\ lines[i].qty > 0
                                        /\ lines[i].channel # NoChannel}
    IN  [key \in {<<lines[i].product, lines[i].channel>> : i \in usable} |->
           SumFunction([i \in {k \in usable : <<lines[k].product, lines[k].channel>> = key}
                          |-> lines[i].qty])]

\* processar_faturamento_colecao fails closed: one bad line, or two lines that
\* disagree, refuse the photo.
BillingRefused(lines) ==
    \E i, k \in DOMAIN lines :
        \/ ~lines[i].valid
        \/ lines[i].key = lines[k].key /\ lines[i] # lines[k]

BillingTable(lines) ==
    [key \in {lines[i].key : i \in DOMAIN lines} |->
       lines[CHOOSE i \in DOMAIN lines : lines[i].key = key].value]

\* agregar_referencia_tamanhos: the last line of a size wins, and two sizes at
\* one position are only reported.
ReferenceTable(lines) ==
    LET usable == {i \in DOMAIN lines : lines[i].position \in Positions}
    IN  [key \in {lines[i].key : i \in usable} |->
           lines[Max({i \in usable : lines[i].key = key})].position]

-----------------------------------------------------------------------------
(* What the rest of the backend reads. *)

\* reconstruir_pedido_produto_read: the ERP wins when both photos have a pair.
ReadModel(pending, erp, Pair) ==
    [p \in Pair |-> IF p \in DOMAIN erp THEN "erp"
                    ELSE IF p \in DOMAIN pending THEN "pending" ELSE "absent"]

Demand(grade) == SumFunction([s \in DOMAIN grade |-> grade[s].qty])

\* _ALERTS_CTE: an order with a pair not in the ERP asks for more than there is,
\* or lacks credit, which comes first.
Alerts(pending, erp, stock, channel, Blocked) ==
    LET open == DOMAIN pending \ DOMAIN erp
        short == {p \in open : LET key == <<p[2], channel[p]>>
                               IN  Demand(pending[p]) >
                                     IF key \in DOMAIN stock THEN stock[key] ELSE 0}
    IN  {<<p[1], "error">> : p \in open \cap Blocked} \cup
        {<<p[1], "warning">> :
           p \in {q \in short : \A b \in open \cap Blocked : b[1] # q[1]}}
=============================================================================
