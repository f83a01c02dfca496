----------------------------- MODULE MCIngestion -----------------------------
(* Instances of Ingestion for TLC. *)
EXTENDS Ingestion, TLC

MCPair == {<<1, 1>>, <<2, 1>>}

Row(p, size, qty, value) ==
    [pair |-> p, size |-> size, qty |-> qty, value |-> value,
     channel |-> "Franquia", named |-> TRUE]

\* Order 1 has three lines in two sizes, one without items; 100 cents cannot be shared
\* evenly.  Order 2 is a return once it is in the ERP.
MCPendingRows ==
    <<1, 1>> :> <<Row(<<1, 1>>, 1, 1, 100), Row(<<1, 1>>, 2, 2, 100),
                  Row(<<1, 1>>, 2, 0, 7)>> @@
    <<2, 1>> :> <<Row(<<2, 1>>, 1, 1, 55), Row(<<2, 1>>, 1, 1, -3)>>

MCErpRows ==
    <<1, 1>> :> <<Row(<<1, 1>>, 1, 1, 100), Row(<<1, 1>>, 2, 0, 100)>> @@
    <<2, 1>> :> <<Row(<<2, 1>>, 1, 1, -55), Row(<<2, 1>>, 2, 1, -55)>>

MCPendingDefects == {<<"total", <<1, 1>>>>}
MCErpDefects == {<<"channel", <<2, 1>>>>}

Stock(qty) == [product |-> 1, channel |-> "Franquia", qty |-> qty, named |-> TRUE]

MCStockViews == {<<Stock(1), Stock(-1)>>}

Bill(value) == [key |-> 117, value |-> value, valid |-> TRUE]

MCBillingViews == {<<Bill(1), Bill(2)>>, <<Bill(1), Bill(1)>>}

MCReferenceViews == {<<[key |-> <<1, 1>>, position |-> 3],
                       [key |-> <<1, 1>>, position |-> 4],
                       [key |-> <<1, 2>>, position |-> 99]>>}
MCStart == {<<1, 1>> :> "open" @@ <<2, 1>> :> "both"}

ASSUME MCErpViewIsWhole == ErpViewIsWhole
=============================================================================
