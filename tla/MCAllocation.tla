----------------------------- MODULE MCAllocation -----------------------------
(* Instances of Allocation for TLC. *)
EXTENDS Allocation, TLC

MCSizes == <<"G", "M", "P">>
MCRank == [s \in {"G", "M", "P"} |-> CASE s = "P" -> 2 [] s = "M" -> 3 [] s = "G" -> 4]

\* A cent of the source's rounding sits on the large size.
MCWorth(p, s, q) == q * (10 * p + 5) + (IF s = "G" THEN 1 ELSE 0)

Grade1(q) == "M" :> q
Grade3(a, b, c) == "P" :> a @@ "M" :> b @@ "G" :> c

\* Two orders compete for product 1, which both ask for in three sizes.  Order 1
\* also asks for product 2, and product 3 in one of the snapshots.
MCPending ==
    {<<1, 1>> :> Grade3(1, 1, 1) @@ <<1, 2>> :> Grade3(1, 1, 2) @@ <<1, 3>> :> None @@
     <<2, 1>> :> Grade3(1, 2, 1) @@ <<2, 2>> :> second @@ <<2, 3>> :> None :
       second \in {None, "M" :> 2}} \cup
    {<<1, 1>> :> Grade3(1, 1, 4) @@ <<1, 2>> :> ("M" :> 1 @@ "G" :> 2) @@
     <<1, 3>> :> Grade1(2) @@
     <<2, 1>> :> Grade3(1, 2, 1) @@ <<2, 2>> :> None @@ <<2, 3>> :> None}

Row(p, m, g) == [s \in {"G", "M", "P"} |-> CASE s = "P" -> p [] s = "M" -> m [] s = "G" -> g]

MCStocks ==
    {1 :> Row(2, 2, 2) @@ 2 :> Row(0, 1, 2) @@ 3 :> Row(0, 2, 0),
     1 :> Row(1, 3, 3) @@ 2 :> Row(2, 3, 4) @@ 3 :> Row(0, 1, 0),
     1 :> Row(2, 1, 1) @@ 2 :> Row(1, 0, 3) @@ 3 :> Row(0, 1, 0)}

MCClients == {[o \in {1, 2} |-> IF o = 1 THEN "plain" ELSE c] :
                c \in {"plain", "blacklist", "no_credit"}}

MCPositions == 1 :> {"P", "M", "G"} @@ 2 :> {"M", "G"} @@ 3 :> {}

MCSheets == {Grade3(1, 1, 1), "M" :> 2, "M" :> 3 @@ "G" :> 1, "P" :> 1 @@ "G" :> 2}
=============================================================================
