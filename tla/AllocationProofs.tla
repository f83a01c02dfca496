--------------------------- MODULE AllocationProofs ---------------------------
(***************************************************************************)
(* Proofs about AdequationEngine and Allocation for every value of their    *)
(* constants: any number of orders, products and sizes, any stock, any      *)
(* sequence of jobs, edits, approvals and photos.                           *)
(*                                                                          *)
(* The engine adds up, folds over sorted products and shares totals.  The   *)
(* first sections unfold those sums, folds and sorted sequences, once, by   *)
(* induction over finite sets; then what each function of the engine        *)
(* promises is proved, and the steps of the system are restated as facts    *)
(* about what they change (Stepped).  Every invariant is proved from those. *)
(***************************************************************************)
EXTENDS Allocation, FiniteSetTheorems, WellFoundedInduction, TLAPS

-----------------------------------------------------------------------------
(* Sets, and functions defined over their parts.                            *)

\* A set of numbers that is not empty has a least one.
LEMMA HasLeast ==
  ASSUME NEW S, S \subseteq Nat, S # {}
  PROVE  \E x \in S : \A y \in S : x <= y
<1>1. PICK x \in S : \A y \in S : ~ (<<y, x>> \in OpToRel(<, Nat))
  BY NatLessThanWellFounded, WFMin
<1>2. \A y \in S : ~ (y < x)
  <2> TAKE y \in S
  <2>1. x \in Nat /\ y \in Nat /\ <<y, x>> \in Nat \X Nat
    OBVIOUS
  <2> QED BY <1>1, <2>1 DEF OpToRel
<1> QED BY <1>2

\* Induction over the numbers, on a set: no operator is passed.
LEMMA Upwards ==
  ASSUME NEW G, 0 \in G, \A n \in Nat : n \in G => n + 1 \in G
  PROVE  Nat \subseteq G
<1> SUFFICES ASSUME Nat \ G # {} PROVE FALSE
  OBVIOUS
<1>1. PICK n \in Nat \ G : \A m \in Nat \ G : n <= m
  BY HasLeast
<1>2. n # 0
  BY <1>1
<1>3. n - 1 \in Nat /\ (n - 1) + 1 = n
  BY <1>2
<1>4. n - 1 \in G
  BY <1>1, <1>3
<1> QED BY <1>1, <1>3, <1>4

\* Induction over a finite set: what holds of {} and survives one more element
\* holds of the set.
LEMMA FiniteInduction ==
  ASSUME NEW S, IsFiniteSet(S), NEW G, {} \in G,
         \A T \in SUBSET S : \A x \in S : T \in G /\ x \notin T => T \cup {x} \in G
  PROVE  S \in G
<1> DEFINE N == {n \in Nat : \A T \in SUBSET S : Cardinality(T) = n => T \in G}
<1>1. \A T \in SUBSET S : IsFiniteSet(T) /\ Cardinality(T) \in Nat
  BY FS_Subset, FS_CardinalityType
<1>2. 0 \in N
  BY <1>1, FS_EmptySet
<1>3. ASSUME NEW n \in Nat, n \in N PROVE n + 1 \in N
  <2> SUFFICES ASSUME NEW T \in SUBSET S, Cardinality(T) = n + 1 PROVE T \in G
    OBVIOUS
  <2>1. T # {}
    BY <1>1, FS_EmptySet
  <2>2. PICK x \in T : TRUE
    BY <2>1
  <2>3. Cardinality(T \ {x}) = Cardinality(T) - 1 /\ T \ {x} \in SUBSET S
    BY <1>1, FS_RemoveElement
  <2>4. T \ {x} \in G
    BY <1>1, <1>3, <2>3
  <2>5. T = (T \ {x}) \cup {x}
    OBVIOUS
  <2> QED BY <2>2, <2>3, <2>4, <2>5
<1>4. Nat \subseteq N
  <2> HIDE DEF N
  <2> QED BY <1>2, <1>3, Upwards
<1> QED BY <1>1, <1>4

\* g is the function that takes a set apart element by element, as pick says.
Rec(g, D, b, h, pick) ==
  \A s \in D : g[s] = IF s = {} THEN b ELSE h[<<pick[s], g[s \ {pick[s]}]>>]

\* There is such a function, for every choice function and every step h.
LEMMA SetRecursion ==
  ASSUME NEW S, IsFiniteSet(S), NEW A, NEW b \in A, NEW h \in [S \X A -> A],
         NEW pick, \A s \in (SUBSET S) \ {{}} : pick[s] \in s
  PROVE  \E g \in [SUBSET S -> A] : Rec(g, SUBSET S, b, h, pick)
<1> DEFINE Upto(n) == {s \in SUBSET S : Cardinality(s) <= n}
           N == {n \in Nat : \E g \in [Upto(n) -> A] : Rec(g, Upto(n), b, h, pick)}
<1>1. \A T \in SUBSET S : IsFiniteSet(T) /\ Cardinality(T) \in Nat
  BY FS_Subset, FS_CardinalityType
<1>2. 0 \in N
  <2>1. Upto(0) = {{}}
    BY <1>1, FS_EmptySet
  <2>2. [s \in Upto(0) |-> b] \in [Upto(0) -> A]
    OBVIOUS
  <2> QED BY <2>1, <2>2 DEF Rec
<1>3. ASSUME NEW n \in Nat, n \in N PROVE n + 1 \in N
  <2>1. PICK g \in [Upto(n) -> A] : Rec(g, Upto(n), b, h, pick)
    BY <1>3
  <2> DEFINE k == [s \in Upto(n + 1) |-> IF s = {} THEN b ELSE h[<<pick[s], g[s \ {pick[s]}]>>]]
  <2>2. ASSUME NEW s \in Upto(n + 1), s # {}
        PROVE  s \ {pick[s]} \in Upto(n) /\ pick[s] \in S
    <3>1. pick[s] \in s /\ s \in SUBSET S
      BY <2>2
    <3>2. Cardinality(s \ {pick[s]}) = Cardinality(s) - 1
      BY <1>1, <3>1, FS_RemoveElement
    <3> QED BY <1>1, <2>2, <3>1, <3>2
  <2>3. k \in [Upto(n + 1) -> A]
    BY <2>2
  <2>4. ASSUME NEW s \in Upto(n) PROVE k[s] = g[s]
    <3>1. s \in Upto(n + 1)
      BY <1>1
    <3> QED BY <2>1, <3>1 DEF Rec
  <2>5. ASSUME NEW s \in Upto(n + 1)
        PROVE  k[s] = IF s = {} THEN b ELSE h[<<pick[s], k[s \ {pick[s]}]>>]
    <3>1. CASE s = {}
      BY <3>1
    <3>2. CASE s # {}
      <4>1. k[s \ {pick[s]}] = g[s \ {pick[s]}]
        BY <2>2, <2>4, <3>2
      <4> QED BY <3>2, <4>1
    <3> QED BY <3>1, <3>2
  <2>6. Rec(k, Upto(n + 1), b, h, pick)
    BY <2>5 DEF Rec
  <2> QED
    <3> HIDE DEF k, Upto
    <3> QED BY <2>3, <2>6
<1>4. Nat \subseteq N
  <2> HIDE DEF N
  <2> QED BY <1>2, <1>3, Upwards
<1>5. Cardinality(S) \in N
  BY <1>1, <1>4
<1>6. SUBSET S = Upto(Cardinality(S))
  <2> SUFFICES ASSUME NEW s \in SUBSET S PROVE Cardinality(s) <= Cardinality(S)
    OBVIOUS
  <2> QED BY FS_Subset
<1> QED BY <1>5, <1>6

-----------------------------------------------------------------------------

\* The element that the folds of the community modules take first.
Choice(s) == CHOOSE x \in s : TRUE

\* The function behind MapThenFoldSet, when it adds the values of f.
Partial(f, S) ==
  CHOOSE g : g = [s \in SUBSET S |-> IF s = {} THEN 0 ELSE f[Choice(s)] + g[s \ {Choice(s)}]]

\* g adds the values of f over each part of S.
Unfolds(g, f, S) ==
  /\ g \in [SUBSET S -> Int]
  /\ \A s \in SUBSET S : g[s] = IF s = {} THEN 0 ELSE f[Choice(s)] + g[s \ {Choice(s)}]

\* A sum over a set is that function at the set.
LEMMA SumIsPartial ==
  ASSUME NEW f, NEW S
  PROVE  SumFunctionOnSet(f, S) = Partial(f, S)[S]
BY Zenon DEF SumFunctionOnSet, FoldFunctionOnSet, MapThenFoldSet, Partial, Choice

\* What is chosen from a set is in it.
LEMMA ChoiceIsIn ==
  ASSUME NEW s, s # {}
  PROVE  Choice(s) \in s
BY DEF Choice

\* Over a finite set it does add: a sum is one value plus the sum of the others.
LEMMA PartialUnfolds ==
  ASSUME NEW S, IsFiniteSet(S), NEW f, \A x \in S : f[x] \in Int
  PROVE  Unfolds(Partial(f, S), f, S)
<1> DEFINE h == [y \in S \X Int |-> f[y[1]] + y[2]]
           pick == [s \in (SUBSET S) \ {{}} |-> Choice(s)]
           Body(g) == [s \in SUBSET S |-> IF s = {} THEN 0 ELSE f[Choice(s)] + g[s \ {Choice(s)}]]
<1>1. h \in [S \X Int -> Int]
  OBVIOUS
<1>2. \A s \in (SUBSET S) \ {{}} : pick[s] \in s
  BY ChoiceIsIn
<1>3. PICK g \in [SUBSET S -> Int] : Rec(g, SUBSET S, 0, h, pick)
  <2> HIDE DEF h, pick
  <2>1. 0 \in Int
    OBVIOUS
  <2> QED BY <1>1, <1>2, <2>1, SetRecursion, Zenon
<1>4. ASSUME NEW s \in SUBSET S
      PROVE  g[s] = IF s = {} THEN 0 ELSE f[Choice(s)] + g[s \ {Choice(s)}]
  <2>1. CASE s = {}
    BY <1>3, <2>1 DEF Rec
  <2>2. CASE s # {}
    <3>1. Choice(s) \in S /\ pick[s] = Choice(s)
      BY <2>2, ChoiceIsIn
    <3>2. g[s] = h[<<pick[s], g[s \ {pick[s]}]>>]
      <4> HIDE DEF h, pick
      <4> QED BY <1>3, <2>2, Zenon DEF Rec
    <3>3. g[s \ {pick[s]}] \in Int /\ <<pick[s], g[s \ {pick[s]}]>> \in S \X Int
      <4> HIDE DEF h, pick
      <4>1. s \ {pick[s]} \in SUBSET S
        OBVIOUS
      <4> QED BY <1>3, <3>1, <4>1
    <3> QED BY <2>2, <3>1, <3>2, <3>3
  <2> QED BY <2>1, <2>2
<1>5. g = Body(g)
  BY <1>4
<1>6. Partial(f, S) = Body(Partial(f, S))
  <2> HIDE DEF Body
  <2>1. Partial(f, S) = CHOOSE k : k = Body(k)
    BY DEF Partial, Body
  <2> QED BY <1>5, <2>1, Zenon
<1> DEFINE P == Partial(f, S)
<1>7. \A s \in SUBSET S : P[s] = IF s = {} THEN 0 ELSE f[Choice(s)] + P[s \ {Choice(s)}]
  <2> HIDE DEF P
  <2>1. P = Body(P)
    BY <1>6 DEF P
  <2> QED BY <2>1
<1>8. DOMAIN P = SUBSET S
  <2> HIDE DEF P
  <2>1. P = Body(P)
    BY <1>6 DEF P
  <2> QED BY <2>1
<1>9. ASSUME NEW n \in Nat, \A s \in SUBSET S : Cardinality(s) = n => P[s] \in Int
      PROVE  \A s \in SUBSET S : Cardinality(s) = n + 1 => P[s] \in Int
  <2> HIDE DEF P
  <2> SUFFICES ASSUME NEW s \in SUBSET S, Cardinality(s) = n + 1 PROVE P[s] \in Int
    OBVIOUS
  <2>1. IsFiniteSet(s) /\ s # {}
    BY FS_Subset, FS_EmptySet
  <2>2. Choice(s) \in s
    BY <2>1, ChoiceIsIn
  <2>3. Cardinality(s \ {Choice(s)}) = Cardinality(s) - 1
    BY <2>1, <2>2, FS_RemoveElement
  <2>4. P[s \ {Choice(s)}] \in Int
    BY <1>9, <2>2, <2>3
  <2> QED BY <1>7, <2>1, <2>2, <2>4
<1>10. \A s \in SUBSET S : P[s] \in Int
  <2> DEFINE N == {n \in Nat : \A s \in SUBSET S : Cardinality(s) = n => P[s] \in Int}
  <2> HIDE DEF P
  <2>1. 0 \in N
    <3>1. \A s \in SUBSET S : Cardinality(s) = 0 => s = {}
      BY FS_Subset, FS_EmptySet
    <3>2. P[{}] = 0
      BY <1>7
    <3>3. \A s \in SUBSET S : Cardinality(s) = 0 => P[s] \in Int
      BY <3>1, <3>2
    <3> QED BY <3>3
  <2>2. \A n \in Nat : n \in N => n + 1 \in N
    BY <1>9
  <2>3. Nat \subseteq N
    <3> HIDE DEF N
    <3> QED BY <2>1, <2>2, Upwards
  <2> QED BY <2>3, FS_Subset, FS_CardinalityType
<1>11. P = [s \in SUBSET S |-> P[s]]
  <2> HIDE DEF P
  <2>1. P = Body(P)
    BY <1>6 DEF P
  <2> QED BY <2>1
<1> QED
  <2> HIDE DEF P
  <2>1. P \in [SUBSET S -> Int]
    BY <1>10, <1>11
  <2>2. Unfolds(P, f, S)
    BY <1>7, <2>1 DEF Unfolds
  <2> QED BY <2>2 DEF P

\* Induction downwards: what holds of a set whenever it holds of the set without one
\* element holds of every part of a finite set.
LEMMA Shrinking ==
  ASSUME NEW S, IsFiniteSet(S), NEW G,
         \A T \in SUBSET S : (\A x \in T : T \ {x} \in G) => T \in G
  PROVE  \A T \in SUBSET S : T \in G
<1> DEFINE N == {n \in Nat : \A T \in SUBSET S : Cardinality(T) = n => T \in G}
<1>1. \A T \in SUBSET S : IsFiniteSet(T) /\ Cardinality(T) \in Nat
  BY FS_Subset, FS_CardinalityType
<1>2. 0 \in N
  <2> SUFFICES ASSUME NEW T \in SUBSET S, Cardinality(T) = 0 PROVE T \in G
    OBVIOUS
  <2>1. T = {}
    BY <1>1, FS_EmptySet
  <2> QED BY <2>1
<1>3. ASSUME NEW n \in Nat, n \in N PROVE n + 1 \in N
  <2> SUFFICES ASSUME NEW T \in SUBSET S, Cardinality(T) = n + 1 PROVE T \in G
    OBVIOUS
  <2>1. ASSUME NEW x \in T PROVE T \ {x} \in G
    <3>1. Cardinality(T \ {x}) = Cardinality(T) - 1 /\ T \ {x} \in SUBSET S
      BY <1>1, FS_RemoveElement
    <3> QED BY <1>1, <1>3, <3>1
  <2> QED BY <2>1
<1>4. Nat \subseteq N
  <2> HIDE DEF N
  <2> QED BY <1>2, <1>3, Upwards
<1> QED BY <1>1, <1>4

\* Sums of the same values agree, whatever larger set each was taken over.
LEMMA UnfoldsAlike ==
  ASSUME NEW S, NEW T \in SUBSET S, IsFiniteSet(S), NEW f, NEW e, NEW g, NEW k,
         Unfolds(g, f, S), Unfolds(k, e, T), \A x \in T : f[x] = e[x]
  PROVE  \A U \in SUBSET T : g[U] = k[U]
<1> DEFINE G == {U \in SUBSET T : g[U] = k[U]}
<1>1. IsFiniteSet(T)
  BY FS_Subset
<1>2. ASSUME NEW U \in SUBSET T, \A x \in U : U \ {x} \in G PROVE U \in G
  <2>1. CASE U = {}
    BY <2>1 DEF Unfolds
  <2>2. CASE U # {}
    <3>1. Choice(U) \in U
      BY <2>2, ChoiceIsIn
    <3>2. g[U \ {Choice(U)}] = k[U \ {Choice(U)}]
      BY <1>2, <3>1
    <3> QED BY <2>2, <3>1, <3>2 DEF Unfolds
  <2> QED BY <2>1, <2>2
<1>3. \A U \in SUBSET T : U \in G
  <2> HIDE DEF G
  <2> QED BY <1>1, <1>2, Shrinking
<1> QED BY <1>3

\* The element taken out first does not matter.
LEMMA AnyOrder ==
  ASSUME NEW S, IsFiniteSet(S), NEW f, \A x \in S : f[x] \in Int, NEW g, Unfolds(g, f, S)
  PROVE  \A T \in SUBSET S : \A x \in T : g[T] = f[x] + g[T \ {x}]
<1> DEFINE G == {T \in SUBSET S : \A x \in T : g[T] = f[x] + g[T \ {x}]}
<1>1. ASSUME NEW T \in SUBSET S, \A x \in T : T \ {x} \in G PROVE T \in G
  <2> SUFFICES ASSUME NEW x \in T PROVE g[T] = f[x] + g[T \ {x}]
    OBVIOUS
  <2> DEFINE y == Choice(T)
  <2>1. y \in T
    BY ChoiceIsIn
  <2>2. g[T] = f[y] + g[T \ {y}]
    BY DEF Unfolds
  <2> HIDE DEF y
  <2>3. CASE y = x
    BY <2>2, <2>3
  <2>4. CASE y # x
    <3>1. g[T \ {y}] = f[x] + g[(T \ {y}) \ {x}]
      BY <1>1, <2>1, <2>4
    <3>2. g[T \ {x}] = f[y] + g[(T \ {x}) \ {y}]
      BY <1>1, <2>1, <2>4
    <3>3. (T \ {y}) \ {x} = (T \ {x}) \ {y}
      OBVIOUS
    <3>4. f[x] \in Int /\ f[y] \in Int /\ g[(T \ {x}) \ {y}] \in Int
      BY <2>1 DEF Unfolds
    <3>5. g[T] = f[y] + (f[x] + g[(T \ {x}) \ {y}])
      BY <2>2, <3>1, <3>3
    <3>6. f[x] + g[T \ {x}] = f[x] + (f[y] + g[(T \ {x}) \ {y}])
      BY <3>2
    <3>7. \A a, b, c \in Int : a + (b + c) = b + (a + c)
      OBVIOUS
    <3> QED BY <3>4, <3>5, <3>6, <3>7
  <2> QED BY <2>3, <2>4
<1>2. \A T \in SUBSET S : T \in G
  <2> HIDE DEF G
  <2> QED BY <1>1, Shrinking
<1> QED BY <1>2

\* The three facts that the lemmas about sums need: the empty sum, its type, and one
\* value taken out.
LEMMA SumFacts ==
  ASSUME NEW S, IsFiniteSet(S), NEW f, \A x \in S : f[x] \in Int
  PROVE  /\ SumFunctionOnSet(f, {}) = 0
         /\ SumFunctionOnSet(f, S) \in Int
         /\ \A x \in S : SumFunctionOnSet(f, S) = f[x] + SumFunctionOnSet(f, S \ {x})
<1>1. \A T \in SUBSET S : IsFiniteSet(T) /\ Unfolds(Partial(f, T), f, T)
  BY FS_Subset, PartialUnfolds
<1>2. \A T \in SUBSET S : SumFunctionOnSet(f, T) = Partial(f, S)[T]
  <2> TAKE T \in SUBSET S
  <2>1. \A U \in SUBSET T : Partial(f, S)[U] = Partial(f, T)[U]
    BY <1>1, UnfoldsAlike
  <2> QED BY <2>1, SumIsPartial
<1>3. Partial(f, S)[{}] = 0 /\ Partial(f, S)[S] \in Int
  BY <1>1 DEF Unfolds
<1>4. \A x \in S : Partial(f, S)[S] = f[x] + Partial(f, S)[S \ {x}]
  BY <1>1, AnyOrder
<1> QED BY <1>2, <1>3, <1>4

\* Over no element at all a sum is 0.
LEMMA SumEmpty ==
  ASSUME NEW f
  PROVE  SumFunctionOnSet(f, {}) = 0
BY SumFacts, FS_EmptySet

\* One more element adds its value.
LEMMA SumAddOne ==
  ASSUME NEW S, IsFiniteSet(S), NEW x, x \notin S, NEW f, \A y \in S \cup {x} : f[y] \in Int
  PROVE  SumFunctionOnSet(f, S \cup {x}) = f[x] + SumFunctionOnSet(f, S)
<1>1. IsFiniteSet(S \cup {x}) /\ (S \cup {x}) \ {x} = S
  BY FS_AddElement
<1> QED BY <1>1, SumFacts

\* The sum over a part of a finite set is an integer.
LEMMA SumType ==
  ASSUME NEW S, IsFiniteSet(S), NEW f, \A y \in S : f[y] \in Int
  PROVE  \A T \in SUBSET S : IsFiniteSet(T) /\ SumFunctionOnSet(f, T) \in Int
BY FS_Subset, SumFacts

\* h is a times f, and e.
Combines(h, a, f, e, S) ==
  \A x \in S : f[x] \in Int /\ e[x] \in Int /\ h[x] = a * f[x] + e[x]

\* A sum distributes over a multiple and an addition.
LEMMA SumLinear ==
  ASSUME NEW S, IsFiniteSet(S), NEW a \in Int, NEW f, NEW e, NEW h, Combines(h, a, f, e, S)
  PROVE  SumFunctionOnSet(h, S) = a * SumFunctionOnSet(f, S) + SumFunctionOnSet(e, S)
<1> USE DEF Combines
<1> DEFINE Law(T) == SumFunctionOnSet(h, T)
                       = a * SumFunctionOnSet(f, T) + SumFunctionOnSet(e, T)
           G == {T \in SUBSET S : Law(T)}
<1>1. \A x \in S : h[x] \in Int
  OBVIOUS
<1>2. {} \in G
  BY SumEmpty
<1>3. ASSUME NEW T \in SUBSET S, NEW x \in S, T \in G, x \notin T PROVE T \cup {x} \in G
  <2>1. IsFiniteSet(T) /\ T \cup {x} \in SUBSET S
    BY FS_Subset
  <2>2. /\ SumFunctionOnSet(h, T \cup {x}) = h[x] + SumFunctionOnSet(h, T)
        /\ SumFunctionOnSet(f, T \cup {x}) = f[x] + SumFunctionOnSet(f, T)
        /\ SumFunctionOnSet(e, T \cup {x}) = e[x] + SumFunctionOnSet(e, T)
    BY <1>1, <1>3, <2>1, SumAddOne
  <2>3. /\ SumFunctionOnSet(f, T) \in Int /\ SumFunctionOnSet(e, T) \in Int
        /\ f[x] \in Int /\ e[x] \in Int
    BY <2>1, SumType
  <2>4. \A u, v, p, q \in Int : (a * u + v) + (a * p + q) = a * (u + p) + (v + q)
    OBVIOUS
  <2>5. (a * f[x] + e[x]) + (a * SumFunctionOnSet(f, T) + SumFunctionOnSet(e, T))
          = a * (f[x] + SumFunctionOnSet(f, T)) + (e[x] + SumFunctionOnSet(e, T))
    BY <2>3, <2>4
  <2>6. Law(T \cup {x})
    BY <1>3, <2>2, <2>5
  <2> QED BY <2>1, <2>6
<1>4. S \in G
  <2> HIDE DEF G
  <2> QED BY <1>2, <1>3, FiniteInduction
<1> QED BY <1>4

\* A sum of smaller values is smaller.
LEMMA SumLeq ==
  ASSUME NEW S, IsFiniteSet(S), NEW f, NEW e,
         \A x \in S : f[x] \in Int /\ e[x] \in Int /\ f[x] <= e[x]
  PROVE  SumFunctionOnSet(f, S) <= SumFunctionOnSet(e, S)
<1> DEFINE Law(T) == SumFunctionOnSet(f, T) <= SumFunctionOnSet(e, T)
           G == {T \in SUBSET S : Law(T)}
<1>1. {} \in G
  BY SumEmpty
<1>2. ASSUME NEW T \in SUBSET S, NEW x \in S, T \in G, x \notin T PROVE T \cup {x} \in G
  <2>1. IsFiniteSet(T) /\ T \cup {x} \in SUBSET S
    BY FS_Subset
  <2>2. /\ SumFunctionOnSet(f, T \cup {x}) = f[x] + SumFunctionOnSet(f, T)
        /\ SumFunctionOnSet(e, T \cup {x}) = e[x] + SumFunctionOnSet(e, T)
    BY <1>2, <2>1, SumAddOne
  <2>3. /\ SumFunctionOnSet(f, T) \in Int /\ SumFunctionOnSet(e, T) \in Int
        /\ f[x] \in Int /\ e[x] \in Int /\ f[x] <= e[x]
    BY <2>1, SumType
  <2>4. Law(T \cup {x})
    BY <1>2, <2>2, <2>3
  <2> QED BY <2>1, <2>4
<1>3. S \in G
  <2> HIDE DEF G
  <2> QED BY <1>1, <1>2, FiniteInduction
<1> QED BY <1>3

\* A sum depends on the values over its set, and on nothing else.
LEMMA SumAlike ==
  ASSUME NEW S, IsFiniteSet(S), NEW f, NEW e, \A x \in S : f[x] \in Int /\ f[x] = e[x]
  PROVE  SumFunctionOnSet(f, S) = SumFunctionOnSet(e, S)
<1>1. /\ SumFunctionOnSet(f, S) <= SumFunctionOnSet(e, S)
      /\ SumFunctionOnSet(e, S) <= SumFunctionOnSet(f, S)
  BY SumLeq
<1> QED BY <1>1, SumType

\* A sum of zeros is 0.
LEMMA SumZeros ==
  ASSUME NEW S, IsFiniteSet(S), NEW f, \A x \in S : f[x] = 0
  PROVE  SumFunctionOnSet(f, S) = 0
<1> DEFINE G == {T \in SUBSET S : SumFunctionOnSet(f, T) = 0}
<1>3. {} \in G
  BY SumEmpty
<1>4. ASSUME NEW T \in SUBSET S, NEW x \in S, T \in G, x \notin T PROVE T \cup {x} \in G
  <2>1. IsFiniteSet(T) /\ T \cup {x} \in SUBSET S
    BY FS_Subset
  <2>a. \A y \in T \cup {x} : f[y] \in Int
    OBVIOUS
  <2>2. SumFunctionOnSet(f, T \cup {x}) = f[x] + SumFunctionOnSet(f, T)
    BY <1>4, <2>1, <2>a, SumAddOne
  <2>3. SumFunctionOnSet(f, T \cup {x}) = 0
    BY <1>4, <2>2
  <2> QED BY <2>1, <2>3
<1>5. S \in G
  <2> HIDE DEF G
  <2> QED BY <1>3, <1>4, FiniteInduction
<1> QED BY <1>5

\* A sum of naturals is one, and bounds each of its values.
LEMMA SumPositive ==
  ASSUME NEW S, IsFiniteSet(S), NEW f, \A x \in S : f[x] \in Nat
  PROVE  /\ SumFunctionOnSet(f, S) \in Nat
         /\ \A x \in S : f[x] <= SumFunctionOnSet(f, S)
<1> DEFINE z == [x \in S |-> 0]
<1>0. \A T \in SUBSET S : IsFiniteSet(T)
  BY FS_Subset
<1>1. ASSUME NEW T \in SUBSET S PROVE SumFunctionOnSet(f, T) \in Nat
  <2>1. SumFunctionOnSet(z, T) = 0
    BY <1>0, SumZeros
  <2>2. SumFunctionOnSet(z, T) <= SumFunctionOnSet(f, T)
    BY <1>0, SumLeq
  <2>3. SumFunctionOnSet(f, T) \in Int
    BY <1>0, SumType
  <2> QED BY <2>1, <2>2, <2>3
<1>2. ASSUME NEW x \in S PROVE f[x] <= SumFunctionOnSet(f, S)
  <2>1. SumFunctionOnSet(f, S) = f[x] + SumFunctionOnSet(f, S \ {x})
    BY SumFacts
  <2>2. SumFunctionOnSet(f, S \ {x}) \in Nat
    BY <1>1
  <2> QED BY <2>1, <2>2
<1> QED BY <1>1, <1>2

\* The sum over two disjoint sets is the sum of the two sums.
LEMMA SumUnion ==
  ASSUME NEW S, IsFiniteSet(S), NEW R, IsFiniteSet(R), S \cap R = {},
         NEW f, \A x \in S \cup R : f[x] \in Int
  PROVE  SumFunctionOnSet(f, S \cup R) = SumFunctionOnSet(f, S) + SumFunctionOnSet(f, R)
<1> DEFINE Law(T) == SumFunctionOnSet(f, S \cup T) = SumFunctionOnSet(f, S) + SumFunctionOnSet(f, T)
           G == {T \in SUBSET R : Law(T)}
<1>0. \A T \in SUBSET R : IsFiniteSet(T) /\ IsFiniteSet(S \cup T)
  BY FS_Subset, FS_Union
<1>1. {} \in G
  <2>1. S \cup {} = S
    OBVIOUS
  <2>2. SumFunctionOnSet(f, S) \in Int
    BY SumType
  <2> QED BY <2>1, <2>2, SumEmpty
<1>2. ASSUME NEW T \in SUBSET R, NEW x \in R, T \in G, x \notin T PROVE T \cup {x} \in G
  <2>1. T \cup {x} \in SUBSET R /\ x \notin S \cup T /\ S \cup (T \cup {x}) = (S \cup T) \cup {x}
    BY <1>2
  <2>2. SumFunctionOnSet(f, T \cup {x}) = f[x] + SumFunctionOnSet(f, T)
    BY <1>0, <1>2, SumAddOne
  <2>3. SumFunctionOnSet(f, (S \cup T) \cup {x}) = f[x] + SumFunctionOnSet(f, S \cup T)
    BY <1>0, <2>1, SumAddOne
  <2>4. SumFunctionOnSet(f, S) \in Int /\ SumFunctionOnSet(f, T) \in Int /\ f[x] \in Int
    BY <1>0, SumType
  <2>5. SumFunctionOnSet(f, S \cup T) = SumFunctionOnSet(f, S) + SumFunctionOnSet(f, T)
    BY <1>2
  <2>6. \A u, v, w \in Int : u + (v + w) = v + (u + w)
    OBVIOUS
  <2>7. SumFunctionOnSet(f, S \cup (T \cup {x})) = f[x] + (SumFunctionOnSet(f, S) + SumFunctionOnSet(f, T))
    BY <2>1, <2>3, <2>5
  <2>8. Law(T \cup {x})
    BY <2>2, <2>4, <2>6, <2>7
  <2> QED BY <2>1, <2>8
<1>3. R \in G
  <2> HIDE DEF G
  <2> QED BY <1>1, <1>2, FiniteInduction
<1> QED BY <1>3

\* Zeros outside of a part do not change its sum.
LEMMA SumExtend ==
  ASSUME NEW S, IsFiniteSet(S), NEW T \in SUBSET S, NEW f, NEW e,
         \A x \in S : f[x] = IF x \in T THEN e[x] ELSE 0, \A x \in T : e[x] \in Int
  PROVE  SumFunctionOnSet(e, T) = SumFunctionOnSet(f, S)
<1>1. IsFiniteSet(T) /\ IsFiniteSet(S \ T) /\ T \cap (S \ T) = {} /\ T \cup (S \ T) = S
  BY FS_Subset
<1>2. \A x \in T \cup (S \ T) : f[x] \in Int
  OBVIOUS
<1>3. SumFunctionOnSet(f, T \cup (S \ T)) = SumFunctionOnSet(f, T) + SumFunctionOnSet(f, S \ T)
  BY <1>1, <1>2, SumUnion
<1>4. SumFunctionOnSet(f, S \ T) = 0
  BY <1>1, SumZeros
<1>5. SumFunctionOnSet(f, T) = SumFunctionOnSet(e, T)
  BY <1>1, <1>2, SumAlike
<1>6. SumFunctionOnSet(e, T) \in Int
  BY <1>1, SumType
<1>7. SumFunctionOnSet(f, S) = SumFunctionOnSet(e, T) + 0
  BY <1>1, <1>3, <1>4, <1>5
<1> QED BY <1>6, <1>7

\* A sum of equal values counts the elements.
LEMMA SumOnes ==
  ASSUME NEW S, IsFiniteSet(S), NEW c \in Int, NEW f, \A x \in S : f[x] = c
  PROVE  SumFunctionOnSet(f, S) = c * Cardinality(S)
<1> DEFINE Law(T) == SumFunctionOnSet(f, T) = c * Cardinality(T)
           G == {T \in SUBSET S : Law(T)}
<1>0. \A T \in SUBSET S : IsFiniteSet(T) /\ Cardinality(T) \in Nat
  BY FS_Subset, FS_CardinalityType
<1>1. {} \in G
  BY SumEmpty, FS_EmptySet
<1>2. ASSUME NEW T \in SUBSET S, NEW x \in S, T \in G, x \notin T PROVE T \cup {x} \in G
  <2>a. \A y \in T \cup {x} : f[y] \in Int
    OBVIOUS
  <2>1. SumFunctionOnSet(f, T \cup {x}) = f[x] + SumFunctionOnSet(f, T)
    BY <1>0, <1>2, <2>a, SumAddOne
  <2>2. Cardinality(T \cup {x}) = Cardinality(T) + 1
    BY <1>0, <1>2, FS_AddElement
  <2>3. \A n \in Nat : c + c * n = c * (n + 1)
    OBVIOUS
  <2>4. Law(T \cup {x})
    BY <1>0, <1>2, <2>1, <2>2, <2>3
  <2> QED BY <2>4
<1>3. S \in G
  <2> HIDE DEF G
  <2> QED BY <1>1, <1>2, FiniteInduction
<1> QED BY <1>3

-----------------------------------------------------------------------------
(* Lists of a set in an order.                                              *)

\* R orders the elements of S, strictly and totally.
StrictOrder(R, S) ==
  /\ \A a \in S : <<a, a>> \notin R
  /\ \A a, b \in S : a # b => <<a, b>> \in R \/ <<b, a>> \in R
  /\ \A a, b, c \in S : <<a, b>> \in R /\ <<b, c>> \in R => <<a, c>> \in R

\* q lists S in the order of R.
Enumerates(q, S, R) ==
  /\ q \in [1..Cardinality(S) -> S]
  /\ \A i, j \in 1..Cardinality(S) : i < j => <<q[i], q[j]>> \in R

\* A finite set that is not empty has a last element.
LEMMA LastOne ==
  ASSUME NEW S, IsFiniteSet(S), NEW R, StrictOrder(R, S), S # {}
  PROVE  \E m \in S : \A x \in S \ {m} : <<x, m>> \in R
<1> DEFINE G == {T \in SUBSET S : T # {} => \E m \in T : \A x \in T \ {m} : <<x, m>> \in R}
<1>1. {} \in G
  OBVIOUS
<1>2. ASSUME NEW T \in SUBSET S, NEW x \in S, T \in G, x \notin T PROVE T \cup {x} \in G
  <2>1. CASE T = {}
    BY <2>1
  <2>2. CASE T # {}
    <3>1. PICK m \in T : \A y \in T \ {m} : <<y, m>> \in R
      BY <1>2, <2>2
    <3>2. CASE <<x, m>> \in R
      BY <3>1, <3>2
    <3>3. CASE <<m, x>> \in R
      <4>1. ASSUME NEW y \in T PROVE <<y, x>> \in R
        BY <3>1, <3>3 DEF StrictOrder
      <4> QED BY <4>1
    <3> QED BY <1>2, <3>1, <3>2, <3>3 DEF StrictOrder
  <2> QED BY <2>1, <2>2
<1>3. S \in G
  <2> HIDE DEF G
  <2> QED BY <1>1, <1>2, FiniteInduction
<1> QED BY <1>3

\* A finite set has a list in its order: by induction, the last element last.
LEMMA CanEnumerate ==
  ASSUME NEW S, IsFiniteSet(S), NEW R, StrictOrder(R, S)
  PROVE  \E q : Enumerates(q, S, R)
<1> DEFINE G == {T \in SUBSET S : \E q : Enumerates(q, T, R)}
<1>1. ASSUME NEW T \in SUBSET S, \A x \in T : T \ {x} \in G PROVE T \in G
  <2>0. IsFiniteSet(T) /\ Cardinality(T) \in Nat /\ StrictOrder(R, T)
    BY FS_Subset, FS_CardinalityType DEF StrictOrder
  <2>1. CASE T = {}
    <3>1. Cardinality(T) = 0
      BY <2>1, FS_EmptySet
    <3>2. Enumerates([i \in {} |-> i], T, R)
      BY <3>1 DEF Enumerates
    <3> QED BY <3>2
  <2>2. CASE T # {}
    <3>1. PICK m \in T : \A x \in T \ {m} : <<x, m>> \in R
      BY <2>0, <2>2, LastOne
    <3>2. PICK q : Enumerates(q, T \ {m}, R)
      BY <1>1, <3>1
    <3>3. PICK n \in Nat : Cardinality(T \ {m}) = n /\ Cardinality(T) = n + 1
      <4>1. Cardinality(T \ {m}) = Cardinality(T) - 1 /\ IsFiniteSet(T \ {m})
        BY <2>0, FS_RemoveElement
      <4> QED BY <2>0, <4>1, FS_CardinalityType
    <3> DEFINE k == [i \in 1..(n + 1) |-> IF i = n + 1 THEN m ELSE q[i]]
    <3>4. \A i \in 1..n : q[i] \in T \ {m}
      BY <3>2, <3>3 DEF Enumerates
    <3>5. k \in [1..(n + 1) -> T]
      BY <3>4
    <3>6. ASSUME NEW i \in 1..(n + 1), NEW j \in 1..(n + 1), i < j
          PROVE  <<k[i], k[j]>> \in R
      <4>1. i \in 1..n /\ k[i] = q[i]
        BY <3>6
      <4>2. CASE j = n + 1
        <5>1. <<q[i], m>> \in R
          BY <3>1, <3>4, <4>1
        <5> QED BY <4>1, <4>2, <5>1
      <4>3. CASE j # n + 1
        <5>1. j \in 1..n /\ k[j] = q[j]
          BY <4>3
        <5> QED BY <3>2, <3>3, <3>6, <4>1, <5>1 DEF Enumerates
      <4> QED BY <4>2, <4>3
    <3>7. Enumerates(k, T, R)
      <4> HIDE DEF k
      <4> QED BY <3>3, <3>5, <3>6 DEF Enumerates
    <3> QED BY <3>7
  <2> QED BY <2>1, <2>2
<1>2. \A T \in SUBSET S : T \in G
  <2> HIDE DEF G
  <2> QED BY <1>1, Shrinking
<1> QED BY <1>2

\* Such a list is one of the sequences that Sorted chooses from: each element is in
\* it, once.
LEMMA Enumeration ==
  ASSUME NEW S, IsFiniteSet(S), NEW R, StrictOrder(R, S), NEW q, Enumerates(q, S, R)
  PROVE  /\ q \in SetToSeqs(S)
         /\ \A i, j \in DOMAIN q : q[i] = q[j] => i = j
         /\ \A x \in S : \E i \in DOMAIN q : q[i] = x
<1>1. Cardinality(S) \in Nat
  BY FS_CardinalityType
<1>2. ASSUME NEW i \in 1..Cardinality(S), NEW j \in 1..Cardinality(S), i # j
      PROVE  q[i] # q[j]
  <2>1. q[i] \in S /\ q[j] \in S
    BY DEF Enumerates
  <2>2. i < j \/ j < i
    BY <1>1, <1>2
  <2> QED BY <2>1, <2>2 DEF Enumerates, StrictOrder
<1>3. q \in SetToSeqs(S)
  BY <1>2 DEF SetToSeqs, Enumerates
<1>4. DOMAIN q = 1..Cardinality(S)
  BY DEF Enumerates
<1> QED
  <2>1. \A i, j \in DOMAIN q : q[i] = q[j] => i = j
    BY <1>2, <1>4
  <2>2. \A x \in S : \E i \in DOMAIN q : q[i] = x
    <3>0. q \in [1..Cardinality(S) -> S]
      BY DEF Enumerates
    <3>1. q \in Injection(1..Cardinality(S), S)
      BY <1>4, <2>1, <3>0 DEF Injection, IsInjective
    <3>2. IsFiniteSet(1..Cardinality(S)) /\ Cardinality(1..Cardinality(S)) = Cardinality(S)
      BY <1>1, FS_Interval
    <3>3. q \in Surjection(1..Cardinality(S), S)
      BY <3>1, <3>2, FS_Injection
    <3> QED BY <1>4, <3>3 DEF Surjection
  <2> QED BY <1>3, <2>1, <2>2

-----------------------------------------------------------------------------
(* Pass 1 of the engine: the products whose cuts fit.                       *)

\* The largest of a bounded set of numbers that is not empty is in it.
LEMMA MaxOf ==
  ASSUME NEW n \in Nat, NEW S, S \subseteq 0..n, S # {}
  PROVE  Max(S) \in S /\ \A y \in S : y <= Max(S)
<1> DEFINE T == {n - x : x \in S}
<1>1. T \subseteq Nat /\ T # {}
  OBVIOUS
<1>2. PICK t \in T : \A y \in T : t <= y
  BY <1>1, HasLeast
<1>3. PICK x \in S : t = n - x
  BY <1>2
<1>4. \A y \in S : x >= y
  BY <1>2, <1>3
<1>5. \E z \in S : \A y \in S : z >= y
  BY <1>4
<1> QED BY <1>5 DEF Max

\* The choice that takes a sequence apart from its end, as FoldLeft does.
Backwards(n) == [s \in (SUBSET (1..n)) \ {{}} |-> Max(s)]

\* It is a choice, and takes the positions from the last to the first.
LEMMA BackwardsPicks ==
  ASSUME NEW n \in Nat
  PROVE  /\ IsFiniteSet(1..n)
         /\ \A s \in (SUBSET (1..n)) \ {{}} : Backwards(n)[s] = Max(s) /\ Max(s) \in s
         /\ \A s \in (SUBSET (1..n)) \ {{}} : Backwards(n)[s] \in s
         /\ \A i \in 1..n : /\ 1..i \in SUBSET (1..n) /\ 1..i # {}
                            /\ Max(1..i) = i /\ (1..i) \ {i} = 1..(i - 1)
<1>1. IsFiniteSet(1..n)
  BY FS_Interval
<1>2. ASSUME NEW s \in (SUBSET (1..n)) \ {{}} PROVE Max(s) \in s
  <2>1. s \subseteq 0..n /\ s # {}
    OBVIOUS
  <2> QED BY <2>1, MaxOf
<1>3. ASSUME NEW i \in 1..n
      PROVE  /\ 1..i \in SUBSET (1..n) /\ 1..i # {}
             /\ Max(1..i) = i /\ (1..i) \ {i} = 1..(i - 1)
  <2>1. 1..i \subseteq 0..i /\ i \in 1..i /\ i \in Nat
    OBVIOUS
  <2>2. Max(1..i) \in 1..i /\ \A y \in 1..i : y <= Max(1..i)
    BY <2>1, MaxOf
  <2>3. Max(1..i) = i
    BY <2>1, <2>2
  <2> QED BY <2>3
<1>4. ASSUME NEW s \in (SUBSET (1..n)) \ {{}} PROVE Backwards(n)[s] = Max(s) /\ Backwards(n)[s] \in s
  <2>1. Backwards(n)[s] = Max(s)
    BY DEF Backwards
  <2> QED BY <1>2, <2>1
<1> QED BY <1>1, <1>2, <1>3, <1>4

\* One step of pass 1: the cut of a product is granted in full or not at all.
TakeCut(shortage, acc, p) ==
  IF shortage[p] > acc.left THEN acc
  ELSE [left |-> acc.left - shortage[p], granted |-> acc.granted \cup {p}]

\* The order of pass 1: the smallest cut first.
CutOrder(shortage) ==
  Sorted(DOMAIN shortage, LAMBDA p, q : \/ shortage[p] < shortage[q]
                                        \/ shortage[p] = shortage[q] /\ p < q)

\* Pass 1 is a run over that order, one TakeCut after the other.
LEMMA FirstPassRuns ==
  ASSUME NEW shortage, NEW budget \in Int, NEW n \in Nat,
         \A p \in DOMAIN shortage : shortage[p] \in Int,
         CutOrder(shortage) \in [1..n -> DOMAIN shortage]
  PROVE  \E a : /\ a[0] = [left |-> budget, granted |-> {}]
                /\ \A i \in 1..n : a[i] = TakeCut(shortage, a[i - 1], CutOrder(shortage)[i])
                /\ FirstPass(shortage, budget) = a[n]
<1> DEFINE q == CutOrder(shortage)
           b == [left |-> budget, granted |-> {}]
           A == [left : Int, granted : SUBSET DOMAIN shortage]
           h == [y \in (1..n) \X A |-> TakeCut(shortage, y[2], q[y[1]])]
           Body(g) == [s \in SUBSET (1..n) |->
                         IF s = {} THEN b ELSE TakeCut(shortage, g[s \ {Max(s)}], q[Max(s)])]
           it == CHOOSE g : g = Body(g)
<1>1. \A i \in 1..n, v \in A : TakeCut(shortage, v, q[i]) \in A
  BY DEF TakeCut
<1>2. h \in [(1..n) \X A -> A]
  <2> HIDE DEF A, q
  <2> QED BY <1>1
<1>3. b \in A
  OBVIOUS
<1>4. PICK g \in [SUBSET (1..n) -> A] : Rec(g, SUBSET (1..n), b, h, Backwards(n))
  <2> HIDE DEF A, q, h, b
  <2>1. IsFiniteSet(1..n) /\ \A s \in (SUBSET (1..n)) \ {{}} : Backwards(n)[s] \in s
    BY BackwardsPicks
  <2> QED BY <1>2, <1>3, <2>1, SetRecursion, Zenon
<1>5. ASSUME NEW s \in SUBSET (1..n), s # {}
      PROVE  g[s] = TakeCut(shortage, g[s \ {Max(s)}], q[Max(s)])
  <2> DEFINE m == Max(s)
  <2>1. m \in 1..n /\ m = Backwards(n)[s] /\ s \ {m} \in SUBSET (1..n)
    BY <1>5, BackwardsPicks
  <2> HIDE DEF m, A, q, b
  <2>2. g[s] = h[<<m, g[s \ {m}]>>]
    <3> HIDE DEF h
    <3> QED BY <1>4, <1>5, <2>1 DEF Rec
  <2>3. g[s \ {m}] \in A
    BY <2>1
  <2>4. <<m, g[s \ {m}]>> \in (1..n) \X A
    BY <2>1, <2>3
  <2>5. g[s] = TakeCut(shortage, g[s \ {m}], q[m])
    BY <2>2, <2>4
  <2> QED BY <2>5 DEF m
<1>6. g[{}] = b
  BY <1>4, Zenon DEF Rec
<1>7. g = Body(g)
  <2> HIDE DEF A, q, b
  <2> QED BY <1>5, <1>6
<1>8. it = Body(it)
  <2> HIDE DEF Body
  <2> QED BY <1>7, Zenon
<1>9. FirstPass(shortage, budget) = it[DOMAIN q]
  BY Zenon DEF FirstPass, FoldLeft, MapThenFoldSet, TakeCut, CutOrder
<1>10. DOMAIN q = 1..n
  <2> HIDE DEF q
  <2> QED BY DEF q
<1>11. ASSUME NEW i \in 1..n
       PROVE  it[1..i] = TakeCut(shortage, it[1..(i - 1)], q[i])
  <2>1. 1..i \in SUBSET (1..n) /\ 1..i # {}
    BY BackwardsPicks
  <2> DEFINE Onward(k, s) == TakeCut(shortage, k[s \ {Max(s)}], q[Max(s)])
  <2>2. \A s \in SUBSET (1..n) : it[s] = IF s = {} THEN b ELSE Onward(it, s)
    <3> HIDE DEF it, q, b, Onward
    <3>1. Body(it) = [s \in SUBSET (1..n) |-> IF s = {} THEN b ELSE Onward(it, s)]
      BY DEF Onward
    <3> QED BY <1>8, <3>1
  <2>3. it[1..i] = Onward(it, 1..i)
    <3> HIDE DEF it, q, b, Onward
    <3> QED BY <2>1, <2>2
  <2> QED BY <2>3, BackwardsPicks
<1>12. it[{}] = b
  <2> HIDE DEF it, b
  <2> QED BY <1>8
<1> DEFINE a == [i \in 0..n |-> it[1..i]]
<1>13. a[0] = b
  <2>1. 1..0 = {}
    OBVIOUS
  <2> HIDE DEF it, b
  <2> QED BY <1>12, <2>1
<1>14. \A i \in 1..n : a[i] = TakeCut(shortage, a[i - 1], q[i])
  <2> HIDE DEF it
  <2> QED BY <1>11
<1>15. FirstPass(shortage, budget) = a[n]
  <2> HIDE DEF it
  <2> QED BY <1>9, <1>10
<1> QED
  <2> HIDE DEF a
  <2> QED BY <1>13, <1>14, <1>15

\* p comes before q in pass 1.
CheaperCut(shortage, p, q) ==
  \/ shortage[p] < shortage[q]
  \/ shortage[p] = shortage[q] /\ p < q

\* The same as a relation.
CutsBefore(shortage) ==
  {y \in (DOMAIN shortage) \X (DOMAIN shortage) : CheaperCut(shortage, y[1], y[2])}

\* The order of pass 1 is a strict total order, and the pass follows it.
LEMMA CutOrderSorts ==
  ASSUME NEW shortage, IsFiniteSet(DOMAIN shortage), DOMAIN shortage \subseteq Nat,
         \A p \in DOMAIN shortage : shortage[p] \in Int
  PROVE  /\ StrictOrder(CutsBefore(shortage), DOMAIN shortage)
         /\ Enumerates(CutOrder(shortage), DOMAIN shortage, CutsBefore(shortage))
<1> DEFINE S == DOMAIN shortage
           R == CutsBefore(shortage)
           c == CutOrder(shortage)
           Ordered(k) == \A i, j \in DOMAIN k : i < j => CheaperCut(shortage, k[i], k[j])
<1>1. \A a, b \in S : <<a, b>> \in R <=> CheaperCut(shortage, a, b)
  BY DEF CutsBefore
<1>2. StrictOrder(R, S)
  <2>1. \A a \in S : a \in Nat /\ shortage[a] \in Int
    OBVIOUS
  <2> HIDE DEF R, S
  <2> QED BY <1>1, <2>1 DEF StrictOrder, CheaperCut
<1>3. PICK q : Enumerates(q, S, R)
  BY <1>2, CanEnumerate
<1>4. q \in SetToSeqs(S)
  BY <1>2, <1>3, Enumeration
<1>5. DOMAIN q = 1..Cardinality(S) /\ \A i \in DOMAIN q : q[i] \in S
  BY <1>3 DEF Enumerates
<1>6. Ordered(q)
  <2> HIDE DEF R, S
  <2> QED BY <1>1, <1>3, <1>5 DEF Enumerates
<1>7. c \in SetToSeqs(S) /\ Ordered(c)
  <2> DEFINE Good(k) == k \in SetToSeqs(S) /\ Ordered(k)
  <2>1. c = CHOOSE k : Good(k)
    BY Zenon DEF CutOrder, Sorted, CheaperCut
  <2> HIDE DEF Good, c
  <2>2. Good(q)
    BY <1>4, <1>6 DEF Good
  <2>3. Good(c)
    BY <2>1, <2>2, Zenon
  <2> QED BY <2>3 DEF Good
<1>8. c \in [1..Cardinality(S) -> S]
  <2> HIDE DEF c, S
  <2> QED BY <1>7 DEF SetToSeqs
<1>9. Enumerates(c, S, R)
  <2> HIDE DEF c, S, R
  <2> QED BY <1>1, <1>7, <1>8 DEF Enumerates
<1> QED BY <1>2, <1>9

\* The first k elements of q.
Prefix(q, k) == {q[j] : j \in 1..k}

\* q repeats nothing.
OneToOne(q, n) == \A i, j \in 1..n : q[i] = q[j] => i = j

\* q has all of S.
Covers(q, n, S) == \A x \in S : \E i \in 1..n : q[i] = x

\* The costs rise along q.
Rising(cost, q, n) == \A i, j \in 1..n : i < j => cost[q[i]] <= cost[q[j]]

\* Costs over a finite set.
Costs(cost, S) == IsFiniteSet(S) /\ \A x \in S : cost[x] \in Nat

\* a is the run of pass 1 over q.
IsRun(a, cost, budget, q, n) ==
  /\ a[0] = [left |-> budget, granted |-> {}]
  /\ \A i \in 1..n : a[i] = TakeCut(cost, a[i - 1], q[i])

\* Each position adds one element to the prefix.
LEMMA PrefixFacts ==
  ASSUME NEW n \in Nat, NEW q, OneToOne(q, n)
  PROVE  /\ Prefix(q, 0) = {}
         /\ \A k \in 0..(n - 1) : /\ Prefix(q, k + 1) = Prefix(q, k) \cup {q[k + 1]}
                                  /\ q[k + 1] \notin Prefix(q, k)
         /\ \A k \in 0..n : IsFiniteSet(Prefix(q, k)) /\ Cardinality(Prefix(q, k)) = k
<1> USE DEF OneToOne
<1>1. Prefix(q, 0) = {}
  BY DEF Prefix
<1>2. ASSUME NEW k \in 0..(n - 1)
      PROVE  /\ Prefix(q, k + 1) = Prefix(q, k) \cup {q[k + 1]}
             /\ q[k + 1] \notin Prefix(q, k)
  <2>1. 1..(k + 1) = 1..k \cup {k + 1} /\ k + 1 \in 1..n /\ 1..k \subseteq 1..n
    OBVIOUS
  <2>2. Prefix(q, k + 1) = Prefix(q, k) \cup {q[k + 1]}
    BY <2>1 DEF Prefix
  <2>3. \A j \in 1..k : q[j] # q[k + 1]
    BY <2>1
  <2> QED BY <2>2, <2>3 DEF Prefix
<1> DEFINE N == {k \in Nat : k <= n => IsFiniteSet(Prefix(q, k)) /\ Cardinality(Prefix(q, k)) = k}
<1>3. 0 \in N
  BY <1>1, FS_EmptySet
<1>4. ASSUME NEW k \in Nat, k \in N PROVE k + 1 \in N
  <2> SUFFICES ASSUME k + 1 <= n
               PROVE  IsFiniteSet(Prefix(q, k + 1)) /\ Cardinality(Prefix(q, k + 1)) = k + 1
    OBVIOUS
  <2>1. k \in 0..(n - 1) /\ IsFiniteSet(Prefix(q, k)) /\ Cardinality(Prefix(q, k)) = k
    BY <1>4
  <2>2. /\ Prefix(q, k + 1) = Prefix(q, k) \cup {q[k + 1]} /\ q[k + 1] \notin Prefix(q, k)
    BY <1>2, <2>1
  <2>3. /\ IsFiniteSet(Prefix(q, k) \cup {q[k + 1]})
        /\ Cardinality(Prefix(q, k) \cup {q[k + 1]}) = Cardinality(Prefix(q, k)) + 1
    BY <2>1, <2>2, FS_AddElement
  <2> QED BY <2>1, <2>2, <2>3
<1>5. Nat \subseteq N
  <2> HIDE DEF N
  <2> QED BY <1>3, <1>4, Upwards
<1> QED BY <1>1, <1>2, <1>5

\* The m cheapest elements cost no more than any other m.
LEMMA CheapestOf ==
  ASSUME NEW cost, NEW S, Costs(cost, S), NEW n \in Nat, NEW q \in [1..n -> S],
         OneToOne(q, n), Covers(q, n, S), Rising(cost, q, n)
  PROVE  \A m \in 0..n : \A T \in SUBSET S :
           Cardinality(T) >= m =>
             SumFunctionOnSet(cost, Prefix(q, m)) <= SumFunctionOnSet(cost, T)
<1> USE DEF OneToOne, Covers, Rising, Costs
<1> DEFINE Law(m) == \A T \in SUBSET S : Cardinality(T) >= m =>
                       SumFunctionOnSet(cost, Prefix(q, m)) <= SumFunctionOnSet(cost, T)
           N == {m \in Nat : m <= n => Law(m)}
<1>1. \A T \in SUBSET S : /\ IsFiniteSet(T) /\ Cardinality(T) \in Nat
                          /\ SumFunctionOnSet(cost, T) \in Nat
  <2> TAKE T \in SUBSET S
  <2>1. IsFiniteSet(T)
    BY FS_Subset
  <2>2. \A x \in T : cost[x] \in Nat
    OBVIOUS
  <2> QED BY <2>1, <2>2, FS_CardinalityType, SumPositive
<1>2. \A k \in 0..n : Prefix(q, k) \in SUBSET S
  BY DEF Prefix
<1>3. 0 \in N
  <2>1. Prefix(q, 0) = {}
    BY PrefixFacts
  <2>2. SumFunctionOnSet(cost, Prefix(q, 0)) = 0
    BY <2>1, SumEmpty
  <2>3. Law(0)
    BY <1>1, <2>2
  <2> QED BY <2>3
<1>4. ASSUME NEW m \in Nat, m \in N PROVE m + 1 \in N
  <2> SUFFICES ASSUME m + 1 <= n, NEW T \in SUBSET S, Cardinality(T) >= m + 1
               PROVE  SumFunctionOnSet(cost, Prefix(q, m + 1)) <= SumFunctionOnSet(cost, T)
    OBVIOUS
  <2>1. m \in 0..(n - 1) /\ m \in 0..n /\ m + 1 \in 1..n
    OBVIOUS
  <2>2. \E t \in T : t \notin Prefix(q, m)
    <3> SUFFICES ASSUME T \subseteq Prefix(q, m) PROVE FALSE
      OBVIOUS
    <3>1. Cardinality(T) <= Cardinality(Prefix(q, m)) /\ Cardinality(Prefix(q, m)) = m
      BY <2>1, PrefixFacts, FS_Subset
    <3> QED BY <1>1, <3>1
  <2>3. PICK t \in T : t \notin Prefix(q, m)
    BY <2>2
  <2>4. PICK j \in 1..n : q[j] = t
    OBVIOUS
  <2>5. j >= m + 1
    BY <2>3, <2>4 DEF Prefix
  <2>6. cost[q[m + 1]] <= cost[t]
    BY <2>1, <2>4, <2>5
  <2>7. Cardinality(T \ {t}) >= m
    <3> HIDE DEF OneToOne, Covers, Rising, Costs
    <3>1. IsFiniteSet(T) /\ Cardinality(T) \in Nat
      BY <1>1
    <3>2. Cardinality(T \ {t}) = Cardinality(T) - 1
      BY <2>3, <3>1, FS_RemoveElement
    <3> QED BY <3>1, <3>2
  <2>8. SumFunctionOnSet(cost, Prefix(q, m)) <= SumFunctionOnSet(cost, T \ {t})
    BY <1>4, <2>7
  <2>9. SumFunctionOnSet(cost, T) = cost[t] + SumFunctionOnSet(cost, T \ {t})
    <3>1. IsFiniteSet(T) /\ \A x \in T : cost[x] \in Int
      BY <1>1
    <3> QED BY <2>3, <3>1, SumFacts
  <2>10. SumFunctionOnSet(cost, Prefix(q, m + 1)) = cost[q[m + 1]] + SumFunctionOnSet(cost, Prefix(q, m))
    <3>1. /\ Prefix(q, m + 1) = Prefix(q, m) \cup {q[m + 1]} /\ q[m + 1] \notin Prefix(q, m)
          /\ IsFiniteSet(Prefix(q, m))
      BY ZenonT(30), <2>1, PrefixFacts
    <3>2. \A y \in Prefix(q, m) \cup {q[m + 1]} : cost[y] \in Int
      BY <1>2, <2>1
    <3> QED BY <3>1, <3>2, SumAddOne
  <2>11. /\ cost[t] \in Int /\ cost[q[m + 1]] \in Int
         /\ SumFunctionOnSet(cost, T \ {t}) \in Nat
         /\ SumFunctionOnSet(cost, Prefix(q, m)) \in Nat
    BY <1>1, <1>2, <2>1, <2>3
  <2> QED BY <2>6, <2>8, <2>9, <2>10, <2>11
<1>5. Nat \subseteq N
  <2> HIDE DEF N
  <2> QED BY <1>3, <1>4, Upwards
<1> QED BY <1>5

\* The greedy run is optimal: it stays in the budget, and no set that does has more
\* elements.  Once a cut does not fit, the ones after it, which are larger, do not either.
LEMMA CheapestTaken ==
  ASSUME NEW cost, NEW S, Costs(cost, S), NEW budget \in Nat, NEW n \in Nat,
         NEW q \in [1..n -> S], OneToOne(q, n), Covers(q, n, S), Rising(cost, q, n),
         NEW a, IsRun(a, cost, budget, q, n)
  PROVE  /\ a[n].granted \in SUBSET S
         /\ SumFunctionOnSet(cost, a[n].granted) <= budget
         /\ \A T \in SUBSET S : SumFunctionOnSet(cost, T) <= budget =>
              Cardinality(T) <= Cardinality(a[n].granted)
<1> DEFINE Sum(T) == SumFunctionOnSet(cost, T)
<1>1. Cardinality(S) = n
  <2>1. Prefix(q, n) = S
    BY DEF Prefix, Covers
  <2>2. n \in 0..n
    OBVIOUS
  <2>3. Cardinality(Prefix(q, n)) = n
    BY <2>2, PrefixFacts
  <2> QED BY <2>1, <2>3
<1>6. \A k \in 0..n : Prefix(q, k) \in SUBSET S
  BY DEF Prefix
<1>7. \A T \in SUBSET S : /\ IsFiniteSet(T) /\ Cardinality(T) \in Nat
                          /\ Sum(T) \in Nat
  <2> TAKE T \in SUBSET S
  <2>1. IsFiniteSet(T)
    BY FS_Subset DEF Costs
  <2>2. \A x \in T : cost[x] \in Nat
    BY DEF Costs
  <2> QED BY <2>1, <2>2, FS_CardinalityType, SumPositive
<1>2. \A k \in 0..(n - 1) : /\ Prefix(q, k + 1) = Prefix(q, k) \cup {q[k + 1]}
                            /\ q[k + 1] \notin Prefix(q, k)
  BY PrefixFacts
<1>3. \A k \in 0..n : Cardinality(Prefix(q, k)) = k
  BY PrefixFacts
<1>4. \A m \in 0..n : \A T \in SUBSET S : Cardinality(T) >= m => Sum(Prefix(q, m)) <= Sum(T)
  BY CheapestOf
<1>8. \A k \in 0..(n - 1) : Sum(Prefix(q, k + 1)) = cost[q[k + 1]] + Sum(Prefix(q, k))
  <2> TAKE k \in 0..(n - 1)
  <2>1. k \in 0..n /\ k + 1 \in 1..n
    OBVIOUS
  <2>2. IsFiniteSet(Prefix(q, k)) /\ Prefix(q, k) \in SUBSET S /\ q[k + 1] \in S
    BY <1>6, <1>7, <2>1
  <2>3. \A y \in Prefix(q, k) \cup {q[k + 1]} : cost[y] \in Int
    BY <2>2 DEF Costs
  <2>4. Sum(Prefix(q, k) \cup {q[k + 1]}) = cost[q[k + 1]] + Sum(Prefix(q, k))
    BY <1>2, <2>2, <2>3, SumAddOne
  <2> QED BY <1>2, <2>4
<1> DEFINE Inv(i) ==
      /\ a[i].left \in Nat
      /\ \E k \in 0..i : /\ a[i].granted = Prefix(q, k)
                         /\ a[i].left = budget - Sum(Prefix(q, k))
                         /\ k < i => cost[q[k + 1]] > a[i].left
           N == {i \in Nat : i <= n => Inv(i)}
<1>9. 0 \in N
  <2>1. Prefix(q, 0) = {} /\ Sum(Prefix(q, 0)) = 0
    BY PrefixFacts, SumEmpty
  <2>2. a[0].left = budget /\ a[0].granted = {}
    BY DEF IsRun
  <2>3. 0 \in 0..0 /\ ~(0 < 0)
    OBVIOUS
  <2>4. Inv(0)
    <3> HIDE DEF Sum
    <3> QED BY <2>1, <2>2, <2>3
  <2> QED BY <2>4
<1>10. ASSUME NEW i \in Nat, i \in N PROVE i + 1 \in N
  <2> SUFFICES ASSUME i + 1 <= n PROVE Inv(i + 1)
    OBVIOUS
  <2>1. PICK k \in 0..i : /\ a[i].granted = Prefix(q, k)
                          /\ a[i].left = budget - Sum(Prefix(q, k))
                          /\ k < i => cost[q[k + 1]] > a[i].left
    BY <1>10
  <2>2. a[i].left \in Nat /\ i + 1 \in 1..n /\ k + 1 \in 1..n /\ k \in 0..(n - 1) /\ i \in 0..n
    BY <1>10
  <2>3. a[i + 1] = TakeCut(cost, a[i], q[i + 1])
    BY <2>2 DEF IsRun
  <2>4. cost[q[i + 1]] \in Nat /\ cost[q[k + 1]] \in Nat
    BY <2>2 DEF Costs
  <2>5. CASE cost[q[i + 1]] > a[i].left
    <3>1. a[i + 1] = a[i]
      BY <2>3, <2>5 DEF TakeCut
    <3>2. k \in 0..(i + 1)
      OBVIOUS
    <3>3. cost[q[k + 1]] > a[i + 1].left
      <4>1. CASE k < i
        BY <2>1, <3>1, <4>1
      <4>2. CASE k = i
        BY <2>5, <3>1, <4>2
      <4> QED BY <4>1, <4>2
    <3> QED BY <2>1, <2>2, <3>1, <3>2, <3>3
  <2>6. CASE cost[q[i + 1]] <= a[i].left
    <3>1. a[i + 1] = [left |-> a[i].left - cost[q[i + 1]],
                      granted |-> a[i].granted \cup {q[i + 1]}]
      BY <2>2, <2>3, <2>4, <2>6 DEF TakeCut
    <3>2. k = i
      <4> SUFFICES ASSUME k < i PROVE FALSE
        OBVIOUS
      <4>1. cost[q[k + 1]] <= cost[q[i + 1]]
        BY <2>2 DEF Rising
      <4> QED BY <2>1, <2>2, <2>4, <2>6, <4>1
    <3>3. a[i + 1].granted = Prefix(q, i + 1)
      BY <1>2, <2>1, <2>2, <3>1, <3>2
    <3>4. a[i + 1].left = budget - Sum(Prefix(q, i + 1))
      <4>1. Sum(Prefix(q, i + 1)) = cost[q[i + 1]] + Sum(Prefix(q, i))
        BY <1>8, <2>2, <3>2
      <4>2. Sum(Prefix(q, i)) \in Nat
        <5>1. Prefix(q, i) \in SUBSET S
          BY <1>6, <2>2
        <5> QED BY <1>7, <5>1
      <4>3. a[i].left = budget - Sum(Prefix(q, i)) /\ a[i + 1].left = a[i].left - cost[q[i + 1]]
        BY <2>1, <3>1, <3>2
      <4> HIDE DEF Sum
      <4> QED BY <2>4, <4>1, <4>2, <4>3
    <3>5. a[i + 1].left \in Nat
      BY <2>2, <2>4, <2>6, <3>1
    <3>6. i + 1 \in 0..(i + 1) /\ ~(i + 1 < i + 1)
      OBVIOUS
    <3> QED BY <3>3, <3>4, <3>5, <3>6
  <2> QED BY <2>2, <2>4, <2>5, <2>6
<1>11. Inv(n)
  <2>1. Nat \subseteq N
    <3>1. \A i \in Nat : i \in N => i + 1 \in N
      BY <1>10
    <3> HIDE DEF N
    <3> QED BY <1>9, <3>1, Upwards
  <2> HIDE DEF Inv
  <2>2. n \in N
    <3> HIDE DEF N
    <3> QED BY <2>1
  <2> QED BY <2>2 DEF N
<1>12. PICK k \in 0..n : /\ a[n].granted = Prefix(q, k)
                         /\ a[n].left = budget - Sum(Prefix(q, k))
                         /\ k < n => cost[q[k + 1]] > a[n].left
  BY <1>11
<1>13. Prefix(q, k) \in SUBSET S /\ Sum(Prefix(q, k)) \in Nat /\ Cardinality(Prefix(q, k)) = k
  <2>1. Prefix(q, k) \in SUBSET S
    BY <1>6
  <2> QED BY <1>3, <1>7, <2>1
<1>14. Sum(Prefix(q, k)) <= budget
  BY <1>11, <1>12, <1>13
<1>15. ASSUME NEW T \in SUBSET S, Sum(T) <= budget PROVE Cardinality(T) <= k
  <2> SUFFICES ASSUME Cardinality(T) > k PROVE FALSE
    <3>1. Cardinality(T) \in Nat
      BY <1>7
    <3> QED BY <3>1
  <2>0. Cardinality(T) \in Nat /\ Sum(T) \in Nat
    BY <1>7
  <2>1. CASE k = n
    BY <1>1, <2>0, <2>1, FS_Subset DEF Costs
  <2>2. CASE k < n
    <3>1. k \in 0..(n - 1) /\ k + 1 \in 0..n /\ k + 1 \in 1..n
      BY <2>2
    <3>2. Sum(Prefix(q, k + 1)) <= Sum(T)
      <4>1. Cardinality(T) >= k + 1
        BY <2>0
      <4> HIDE DEF Sum
      <4> QED BY <1>4, <3>1, <4>1
    <3>3. Sum(Prefix(q, k + 1)) = cost[q[k + 1]] + Sum(Prefix(q, k))
      BY <1>8, <3>1
    <3>4. cost[q[k + 1]] \in Nat
      BY <3>1 DEF Costs
    <3>5. cost[q[k + 1]] > budget - Sum(Prefix(q, k))
      BY <1>12, <2>2
    <3> HIDE DEF Sum
    <3> QED BY <1>13, <1>15, <2>0, <3>2, <3>3, <3>4, <3>5
  <2> QED BY <2>1, <2>2
<1> QED BY <1>12, <1>13, <1>14, <1>15

\* Pass 1 of _processar_pedidos_canal, for every budget of cuts and all shortages: what
\* it grants fits in the budget, and no other choice of products that fits serves more of
\* them.
THEOREM FirstPassServesMost ==
  ASSUME NEW shortage, IsFiniteSet(DOMAIN shortage), DOMAIN shortage \subseteq Nat,
         \A p \in DOMAIN shortage : shortage[p] \in Nat, NEW budget \in Nat
  PROVE  /\ FirstPass(shortage, budget).granted \in SUBSET DOMAIN shortage
         /\ SumFunctionOnSet(shortage, FirstPass(shortage, budget).granted) <= budget
         /\ \A T \in SUBSET DOMAIN shortage :
              SumFunctionOnSet(shortage, T) <= budget =>
                Cardinality(T) <= Cardinality(FirstPass(shortage, budget).granted)
<1> DEFINE S == DOMAIN shortage
           q == CutOrder(shortage)
           n == Cardinality(S)
<1>1. n \in Nat /\ budget \in Int /\ \A p \in S : shortage[p] \in Int
  BY FS_CardinalityType
<1>2. StrictOrder(CutsBefore(shortage), S) /\ Enumerates(q, S, CutsBefore(shortage))
  BY <1>1, CutOrderSorts
<1>3. /\ q \in [1..n -> S]
      /\ \A i, j \in 1..n : q[i] = q[j] => i = j
      /\ \A x \in S : \E i \in 1..n : q[i] = x
  <2> HIDE DEF q, S
  <2>1. q \in [1..n -> S]
    BY <1>2 DEF Enumerates
  <2>2. DOMAIN q = 1..n
    BY <2>1
  <2>3. /\ \A i, j \in DOMAIN q : q[i] = q[j] => i = j
        /\ \A x \in S : \E i \in DOMAIN q : q[i] = x
    BY <1>2, Enumeration DEF S
  <2> QED BY <2>1, <2>2, <2>3
<1>4. \A i, j \in 1..n : i < j => shortage[q[i]] <= shortage[q[j]]
  <2> SUFFICES ASSUME NEW i \in 1..n, NEW j \in 1..n, i < j
               PROVE  shortage[q[i]] <= shortage[q[j]]
    OBVIOUS
  <2>1. q[i] \in S /\ q[j] \in S
    <3> HIDE DEF q, S, n
    <3> QED BY <1>3
  <2>2. <<q[i], q[j]>> \in CutsBefore(shortage)
    <3> HIDE DEF q, S, n
    <3> QED BY <1>2, <1>3 DEF Enumerates, n
  <2>3. CheaperCut(shortage, q[i], q[j])
    <3> HIDE DEF q
    <3> QED BY <2>2 DEF CutsBefore
  <2>4. shortage[q[i]] \in Nat /\ shortage[q[j]] \in Nat
    BY <2>1
  <2> HIDE DEF q
  <2> QED BY <2>3, <2>4 DEF CheaperCut
<1>5. PICK a : /\ a[0] = [left |-> budget, granted |-> {}]
               /\ \A i \in 1..n : a[i] = TakeCut(shortage, a[i - 1], q[i])
               /\ FirstPass(shortage, budget) = a[n]
  <2>1. /\ n \in Nat /\ CutOrder(shortage) \in [1..n -> DOMAIN shortage] /\ budget \in Int
        /\ \A p \in DOMAIN shortage : shortage[p] \in Int
    BY <1>1, <1>3
  <2> HIDE DEF n
  <2>2. \E a : /\ a[0] = [left |-> budget, granted |-> {}]
               /\ \A i \in 1..n : a[i] = TakeCut(shortage, a[i - 1], CutOrder(shortage)[i])
               /\ FirstPass(shortage, budget) = a[n]
    BY <2>1, FirstPassRuns
  <2> QED BY <2>2
<1> HIDE DEF q, n
<1>6. /\ a[n].granted \in SUBSET S
      /\ SumFunctionOnSet(shortage, a[n].granted) <= budget
      /\ \A T \in SUBSET S : SumFunctionOnSet(shortage, T) <= budget =>
              Cardinality(T) <= Cardinality(a[n].granted)
  <2> HIDE DEF S
  <2>1. Costs(shortage, S)
    BY DEF S, Costs
  <2>2. OneToOne(q, n) /\ Covers(q, n, S) /\ Rising(shortage, q, n)
    BY <1>3, <1>4 DEF OneToOne, Covers, Rising
  <2>3. IsRun(a, shortage, budget, q, n)
    BY <1>5 DEF IsRun
  <2>4. q \in [1..n -> S]
    BY <1>3
  <2> QED BY <1>1, <2>1, <2>2, <2>3, <2>4, CheapestTaken
<1> QED BY <1>5, <1>6

-----------------------------------------------------------------------------
(* Shares of a total.                                                       *)

\* The order in which ratear_hamilton hands out what the floors leave: the largest
\* remainder first, then the name of the size.
SizeOrder(weight, rest) ==
  {y \in (DOMAIN weight) \X (DOMAIN weight) :
     \/ rest[y[1]] > rest[y[2]]
     \/ rest[y[1]] = rest[y[2]] /\ Position(y[1]) < Position(y[2])}

\* The remainders of the exact shares.
Remainders(size, weight) == [s \in DOMAIN weight |-> (size * weight[s]) % SumFunction(weight)]

\* The sizes that get one more than their floor.
Winners(size, weight) ==
  {s \in DOMAIN weight :
     Cardinality({t \in DOMAIN weight : <<t, s>> \in SizeOrder(weight, Remainders(size, weight))})
       < size - SumFunction(Floors(size, weight))}

\* Sizes have names, and names an order.
LEMMA PositionIsOne ==
  /\ IsFiniteSet(Size)
  /\ \A s \in Size : Position(s) \in Nat
  /\ \A s, t \in Size : Position(s) = Position(t) => s = t
<1>1. Sizes \in Seq(Size)
  BY EngineAssumption
<1>2. \A s \in Size : \E i \in DOMAIN Sizes : Sizes[i] = s
  BY <1>1 DEF Size, ToSet
<1>3. \A s \in Size : Position(s) \in DOMAIN Sizes /\ Sizes[Position(s)] = s
  BY <1>2 DEF Position
<1>4. DOMAIN Sizes = 1..Len(Sizes) /\ Len(Sizes) \in Nat
  BY <1>1
<1>5. IsFiniteSet(Size)
  <2>1. IsFiniteSet(DOMAIN Sizes)
    BY <1>4, FS_Interval
  <2>2. Size = {Sizes[i] : i \in DOMAIN Sizes}
    BY DEF Size, ToSet
  <2> DEFINE D == DOMAIN Sizes
             f == [i \in D |-> Sizes[i]]
  <2>3. IsFiniteSet(D)
    BY <2>1
  <2>4. f \in Surjection(D, Size)
    BY <2>2 DEF Surjection
  <2> HIDE DEF f, D
  <2> QED BY <2>3, <2>4, FS_Surjection
<1> QED BY <1>3, <1>4, <1>5

\* Ties are broken by name, so the order is strict.
LEMMA SizeOrderIsStrict ==
  ASSUME NEW weight, DOMAIN weight \subseteq Size, NEW rest,
         \A s \in DOMAIN weight : rest[s] \in Int
  PROVE  StrictOrder(SizeOrder(weight, rest), DOMAIN weight)
<1> DEFINE D == DOMAIN weight
<1>1. \A s \in D : Position(s) \in Nat /\ rest[s] \in Int
  BY PositionIsOne
<1>2. \A s, t \in D : Position(s) = Position(t) => s = t
  BY PositionIsOne
<1>3. \A s, t \in D : <<s, t>> \in SizeOrder(weight, rest) <=>
                        (rest[s] > rest[t] \/ (rest[s] = rest[t] /\ Position(s) < Position(t)))
  BY DEF SizeOrder
<1> HIDE DEF D
<1> QED BY <1>1, <1>2, <1>3 DEF StrictOrder, D

\* In a strict order exactly m elements have fewer than m before them.
LEMMA Ranking ==
  ASSUME NEW S, IsFiniteSet(S), NEW R, StrictOrder(R, S), NEW m \in Nat, m <= Cardinality(S)
  PROVE  Cardinality({s \in S : Cardinality({t \in S : <<t, s>> \in R}) < m}) = m
<1> DEFINE n == Cardinality(S)
<1>1. n \in Nat
  BY FS_CardinalityType
<1>2. PICK q : Enumerates(q, S, R)
  BY CanEnumerate
<1>3. /\ q \in [1..n -> S]
      /\ \A i, j \in 1..n : i < j => <<q[i], q[j]>> \in R
  BY <1>2 DEF Enumerates
<1>4. /\ OneToOne(q, n)
      /\ \A x \in S : \E i \in 1..n : q[i] = x
  <2> HIDE DEF n
  <2>1. DOMAIN q = 1..n
    BY <1>3
  <2> QED BY <1>2, <2>1, Enumeration DEF OneToOne
<1> HIDE DEF n
<1>5. \A i, j \in 1..n : <<q[j], q[i]>> \in R => j < i
  <2> SUFFICES ASSUME NEW i \in 1..n, NEW j \in 1..n, <<q[j], q[i]>> \in R, ~(j < i)
               PROVE  FALSE
    OBVIOUS
  <2>1. q[i] \in S /\ q[j] \in S
    BY <1>3
  <2>2. <<q[i], q[i]>> \notin R
    BY <2>1 DEF StrictOrder
  <2>3. i < j
    BY <1>1, <2>2
  <2>4. <<q[i], q[j]>> \in R
    BY <1>3, <2>3
  <2>5. <<q[i], q[i]>> \in R
    BY <2>1, <2>4 DEF StrictOrder
  <2> QED BY <2>2, <2>5
<1>6. \A i \in 1..n : Cardinality({t \in S : <<t, q[i]>> \in R}) = i - 1
  <2> TAKE i \in 1..n
  <2>1. {t \in S : <<t, q[i]>> \in R} = Prefix(q, i - 1)
    <3>1. ASSUME NEW t \in S, <<t, q[i]>> \in R PROVE t \in Prefix(q, i - 1)
      <4>1. PICK j \in 1..n : q[j] = t
        BY <1>4
      <4>2. j \in 1..(i - 1)
        BY <1>1, <1>5, <3>1, <4>1
      <4> QED BY <4>1, <4>2 DEF Prefix
    <3>2. ASSUME NEW j \in 1..(i - 1) PROVE q[j] \in S /\ <<q[j], q[i]>> \in R
      BY <1>1, <1>3
    <3> QED BY <3>1, <3>2 DEF Prefix
  <2>2. i - 1 \in 0..n
    BY <1>1
  <2> QED BY <1>1, <1>4, <2>1, <2>2, PrefixFacts
<1>7. {s \in S : Cardinality({t \in S : <<t, s>> \in R}) < m} = Prefix(q, m)
  <2>1. ASSUME NEW s \in S, Cardinality({t \in S : <<t, s>> \in R}) < m PROVE s \in Prefix(q, m)
    <3>1. PICK i \in 1..n : q[i] = s
      BY <1>4
    <3>2. i - 1 < m
      BY <1>6, <2>1, <3>1
    <3>3. i \in 1..m
      BY <1>1, <3>2
    <3> QED BY <3>1, <3>3 DEF Prefix
  <2>2. ASSUME NEW i \in 1..m
        PROVE  q[i] \in S /\ Cardinality({t \in S : <<t, q[i]>> \in R}) < m
    <3>1. i \in 1..n
      BY <1>1 DEF n
    <3> QED BY <1>1, <1>3, <1>6, <3>1
  <2> QED BY <2>1, <2>2 DEF Prefix
<1>8. m \in 0..n
  BY <1>1 DEF n
<1> QED BY <1>1, <1>4, <1>7, <1>8, PrefixFacts

\* Shares, in these terms.
LEMMA SharesUnfold ==
  ASSUME NEW total, NEW weight
  PROVE  Shares(total, weight) =
           [s \in DOMAIN weight |->
              (IF total < 0 THEN -1 ELSE 1)
                * (Floors(Magnitude(total), weight)[s]
                     + IF s \in Winners(Magnitude(total), weight) THEN 1 ELSE 0)]
<1>1. \A s, t \in DOMAIN weight :
        <<t, s>> \in SizeOrder(weight, Remainders(Magnitude(total), weight)) <=>
          \/ Remainders(Magnitude(total), weight)[t] > Remainders(Magnitude(total), weight)[s]
          \/ /\ Remainders(Magnitude(total), weight)[t] = Remainders(Magnitude(total), weight)[s]
             /\ Position(t) < Position(s)
  BY DEF SizeOrder
<1> DEFINE Rest1 == Remainders(Magnitude(total), weight)
           Ahead(s, t) == \/ Rest1[s] > Rest1[t]
                          \/ Rest1[s] = Rest1[t] /\ Position(s) < Position(t)
           Won == {s \in DOMAIN weight :
                      Cardinality({t \in DOMAIN weight : Ahead(t, s)})
                        < Magnitude(total) - SumFunction(Floors(Magnitude(total), weight))}
<1>2. \A s \in DOMAIN weight :
        {t \in DOMAIN weight : Ahead(t, s)} =
          {t \in DOMAIN weight : <<t, s>> \in SizeOrder(weight, Rest1)}
  BY <1>1
<1>3. Won = Winners(Magnitude(total), weight)
  <2> HIDE DEF Ahead
  <2> QED BY <1>2 DEF Winners
<1>4. Shares(total, weight) =
        [s \in DOMAIN weight |->
           (IF total < 0 THEN -1 ELSE 1)
             * (Floors(Magnitude(total), weight)[s] + IF s \in Won THEN 1 ELSE 0)]
  BY Zenon DEF Shares, Remainders
<1> HIDE DEF Won
<1> QED BY Zenon, <1>3, <1>4

\* Division with remainder.
LEMMA DivisionOf ==
  ASSUME NEW a \in Int, NEW w \in Nat \ {0}
  PROVE  /\ a \div w \in Int /\ a % w \in 0..(w - 1)
         /\ a = w * (a \div w) + (a % w)
         /\ a >= 0 => a \div w >= 0
OBVIOUS

\* What the floors leave is a number of pieces, no more than there are sizes.
LEMMA RoomForWinners ==
  ASSUME NEW w \in Nat \ {0}, NEW l \in Int, NEW n \in Nat, NEW r \in Nat,
         r = w * l, r <= (w - 1) * n
  PROVE  l \in Nat /\ l <= n
<1>1. l >= 0
  BY SMT
<1>2. l <= n
  <2> SUFFICES ASSUME l >= n + 1 PROVE FALSE
    OBVIOUS
  <2>1. w * l >= w * (n + 1)
    BY SMT
  <2>2. w * (n + 1) = w * n + w /\ (w - 1) * n = w * n - n
    BY SMT
  <2> QED BY <2>1, <2>2
<1> QED BY <1>1, <1>2

\* Weights that add up to something.
Weighs(weight) ==
  /\ DOMAIN weight \subseteq Size
  /\ \A s \in DOMAIN weight : weight[s] \in Nat
  /\ SumFunction(weight) > 0

\* ratear_hamilton and ratear_inteiro lose nothing and invent nothing: the shares of a
\* total by weights that add up to something add up to the total, to the cent, also when it
\* is negative; and no share of a positive total is negative.
THEOREM SharesSumToTotal ==
  ASSUME NEW total, total \in Int, NEW weight, Weighs(weight)
  PROVE  /\ DOMAIN Shares(total, weight) = DOMAIN weight
         /\ \A s \in DOMAIN weight : /\ Shares(total, weight)[s] \in Int
                                     /\ total \in Nat => Shares(total, weight)[s] \in Nat
         /\ SumFunction(Shares(total, weight)) = total
<1> DEFINE D == DOMAIN weight
           w == SumFunction(weight)
           m == Magnitude(total)
           n == Cardinality(D)
           Sum(f) == SumFunctionOnSet(f, D)
           floor == Floors(m, weight)
           rest == Remainders(m, weight)
           won == Winners(m, weight)
           bonus == [s \in D |-> IF s \in won THEN 1 ELSE 0]
           plain == [s \in D |-> floor[s] + bonus[s]]
           shares == Shares(total, weight)
           scaled == [s \in D |-> m * weight[s]]
           sign == IF total < 0 THEN -1 ELSE 1
           l == m - SumFunction(floor)
<1>0. D \subseteq Size /\ (\A s \in D : weight[s] \in Nat) /\ SumFunction(weight) > 0
  BY DEF Weighs
<1>1. IsFiniteSet(D) /\ n \in Nat
  BY <1>0, PositionIsOne, FS_Subset, FS_CardinalityType
<1>2. w \in Nat \ {0} /\ Sum(weight) = w
  BY <1>0, <1>1, SumPositive DEF SumFunction
<1>3. m \in Nat /\ sign \in Int /\ sign * m = total
  BY DEF Magnitude
<1>4. shares = [s \in D |-> sign * plain[s]]
  <2>1. \A s \in D : plain[s] = floor[s] + IF s \in won THEN 1 ELSE 0
    BY DEF plain
  <2> HIDE DEF plain
  <2> QED BY <2>1, SharesUnfold
<1>5. \A s \in D : /\ floor[s] = (m * weight[s]) \div w /\ rest[s] = (m * weight[s]) % w
                   /\ DOMAIN floor = D
  BY DEF Floors, Remainders
<1>6. \A s \in D : /\ floor[s] \in Nat /\ rest[s] \in 0..(w - 1)
                   /\ m * weight[s] = w * floor[s] + rest[s]
  <2> TAKE s \in D
  <2> HIDE DEF w, m
  <2>1. m * weight[s] \in Nat
    BY <1>0, <1>3
  <2>2. \A k \in Nat : /\ k \div w \in Nat /\ k % w \in 0..(w - 1)
                       /\ k = w * (k \div w) + (k % w)
    <3> TAKE k \in Nat
    <3>1. k \div w \in Int /\ k \div w >= 0
      BY <1>2
    <3>2. k % w \in 0..(w - 1) /\ k = w * (k \div w) + (k % w)
      BY <1>2
    <3> QED BY <3>1, <3>2
  <2> HIDE DEF floor, rest
  <2> QED BY <1>5, <2>1, <2>2
<1> HIDE DEF w, m, floor, rest, won, sign, shares
<1>7. Sum(scaled) = m * w
  <2> DEFINE zero == [s \in D |-> 0]
  <2>1. Sum(zero) = 0
    BY <1>1, SumZeros
  <2>2. \A s \in D : weight[s] \in Int /\ zero[s] \in Int /\ scaled[s] = m * weight[s] + zero[s]
    BY <1>0, <1>3
  <2> HIDE DEF zero, scaled
  <2>3. Combines(scaled, m, weight, zero, D)
    BY <2>2 DEF Combines
  <2>4. Sum(scaled) = m * Sum(weight) + Sum(zero)
    BY <1>1, <1>3, <2>3, SumLinear
  <2> QED BY <1>2, <1>3, <2>1, <2>4
<1>8. Sum(scaled) = w * Sum(floor) + Sum(rest)
  <2>1. \A s \in D : /\ floor[s] \in Int /\ rest[s] \in Int
                     /\ scaled[s] = w * floor[s] + rest[s]
    BY <1>6
  <2> HIDE DEF scaled
  <2>2. Combines(scaled, w, floor, rest, D)
    BY <2>1 DEF Combines
  <2> QED BY <1>1, <1>2, <2>2, SumLinear
<1>9. Sum(floor) \in Nat /\ Sum(rest) \in Nat /\ Sum(floor) = SumFunction(floor)
  <2>1. \A s \in D : floor[s] \in Nat /\ rest[s] \in Nat
    BY <1>6
  <2>2. DOMAIN floor = D
    BY DEF floor, Floors
  <2>3. Sum(floor) = SumFunction(floor)
    BY <2>2 DEF SumFunction
  <2> QED BY <1>1, <2>1, <2>3, SumPositive
<1>10. Sum(rest) <= (w - 1) * n
  <2> DEFINE top == [s \in D |-> w - 1]
  <2>1. Sum(top) = (w - 1) * n
    BY <1>1, <1>2, SumOnes
  <2>2. \A s \in D : rest[s] \in Int /\ top[s] \in Int /\ rest[s] <= top[s]
    BY <1>2, <1>6
  <2> HIDE DEF top, n
  <2>3. Sum(rest) <= Sum(top)
    BY <1>1, <2>2, SumLeq
  <2> QED BY <2>1, <2>3
<1>11. l \in Nat /\ l <= n
  <2>1. l \in Int /\ Sum(rest) = w * l
    <3> DEFINE sf == SumFunction(floor)
    <3>1. /\ m * w = w * sf + Sum(rest) /\ sf \in Nat /\ l = m - sf /\ Sum(rest) \in Nat
      BY <1>7, <1>8, <1>9
    <3> HIDE DEF sf, l, Sum
    <3>2. \A u, v, y, z \in Nat : u * v = v * y + z => z = v * (u - y)
      BY SMT
    <3> QED BY <1>2, <1>3, <3>1, <3>2
  <2> HIDE DEF l, n, Sum
  <2> QED BY <1>1, <1>2, <1>9, <1>10, <2>1, RoomForWinners
<1>12. Cardinality(won) = l /\ won \in SUBSET D
  <2>1. \A s \in D : rest[s] \in Int
    BY <1>6
  <2>2. StrictOrder(SizeOrder(weight, rest), D)
    BY <1>0, <2>1, SizeOrderIsStrict
  <2>3. won = {s \in D : Cardinality({t \in D : <<t, s>> \in SizeOrder(weight, rest)}) < l}
    BY DEF won, Winners, rest, floor
  <2> HIDE DEF l, D
  <2> QED BY <1>1, <1>11, <2>2, <2>3, Ranking DEF n
<1>13. Sum(bonus) = l
  <2> DEFINE one == [s \in won |-> 1]
  <2>1. IsFiniteSet(won)
    BY <1>1, <1>12, FS_Subset
  <2>2. SumFunctionOnSet(one, won) = 1 * Cardinality(won)
    BY <2>1, SumOnes
  <2>3. \A s \in D : bonus[s] = IF s \in won THEN one[s] ELSE 0
    OBVIOUS
  <2>4. \A s \in won : one[s] \in Int
    OBVIOUS
  <2> HIDE DEF one, bonus, l
  <2>5. SumFunctionOnSet(one, won) = Sum(bonus)
    BY <1>1, <1>12, <2>3, <2>4, SumExtend
  <2> QED BY <1>11, <1>12, <2>2, <2>5
<1>14. \A s \in D : floor[s] \in Nat /\ bonus[s] \in Nat /\ plain[s] = 1 * floor[s] + bonus[s]
                    /\ plain[s] \in Nat
  BY <1>6
<1>15. Sum(plain) = m
  <2>1. \A s \in D : floor[s] \in Int /\ bonus[s] \in Int /\ plain[s] = 1 * floor[s] + bonus[s]
    BY <1>14
  <2> HIDE DEF plain, bonus
  <2>2. Sum(plain) = 1 * Sum(floor) + Sum(bonus)
    <3>1. Combines(plain, 1, floor, bonus, D) /\ 1 \in Int
      BY <2>1 DEF Combines
    <3> QED BY <1>1, <3>1, SumLinear
  <2> QED BY <1>3, <1>9, <1>11, <1>13, <2>2
<1> HIDE DEF plain, bonus, l, D
<1>16. DOMAIN shares = D /\ \A s \in D : shares[s] = sign * plain[s]
  BY <1>4
<1>17. Sum(shares) = total
  <2> DEFINE zero == [s \in D |-> 0]
  <2>1. Sum(zero) = 0
    BY <1>1, SumZeros
  <2>2. \A s \in D : plain[s] \in Int /\ zero[s] \in Int /\ shares[s] = sign * plain[s] + zero[s]
    BY <1>3, <1>14, <1>16
  <2> HIDE DEF zero
  <2>3. Sum(shares) = sign * Sum(plain) + Sum(zero)
    <3>1. Combines(shares, sign, plain, zero, D)
      BY <2>2 DEF Combines
    <3> QED BY <1>1, <1>3, <3>1, SumLinear
  <2> QED BY <1>3, <1>15, <2>1, <2>3
<1>18. \A s \in D : shares[s] \in Int /\ (total \in Nat => shares[s] \in Nat)
  BY <1>14, <1>16 DEF sign
<1> QED BY <1>16, <1>17, <1>18 DEF shares, D, SumFunction

-----------------------------------------------------------------------------
(* Growing the grade of one product.                                        *)

\* One size of a grade.
Item == [qty : Nat, asked : Nat, value : Int, diff : Int]

\* Items, size by size.
IsGrade(items) == /\ DOMAIN items \subseteq Size
                  /\ items \in [DOMAIN items -> Item]

\* Membership in Items, without its union.
LEMMA ItemsAreGrades ==
  \A items : items \in Items <=> IsGrade(items)
BY DEF Items, IsGrade, Item

\* One value changes, and the sum by as much.
LEMMA SumChange ==
  ASSUME NEW S, IsFiniteSet(S), NEW x \in S, NEW f, NEW e,
         \A y \in S : f[y] \in Int /\ e[y] \in Int, \A y \in S \ {x} : f[y] = e[y]
  PROVE  SumFunctionOnSet(f, S) = SumFunctionOnSet(e, S) + (f[x] - e[x])
<1>1. /\ SumFunctionOnSet(f, S) = f[x] + SumFunctionOnSet(f, S \ {x})
      /\ SumFunctionOnSet(e, S) = e[x] + SumFunctionOnSet(e, S \ {x})
  <2>1. (\A y \in S : f[y] \in Int) /\ (\A y \in S : e[y] \in Int)
    OBVIOUS
  <2> QED BY <2>1, SumFacts
<1>2. IsFiniteSet(S \ {x})
  BY FS_Subset
<1>3. SumFunctionOnSet(f, S \ {x}) = SumFunctionOnSet(e, S \ {x})
  BY <1>2, SumAlike
<1>4. SumFunctionOnSet(e, S \ {x}) \in Int
  <2>1. \A y \in S \ {x} : e[y] \in Int
    OBVIOUS
  <2> QED BY <1>2, <2>1, SumFacts
<1>5. f[x] \in Int /\ e[x] \in Int
  OBVIOUS
<1> QED BY <1>1, <1>3, <1>4, <1>5

\* g is the run of h over the positions 1..n.
Chain(g, n, A, b, h) ==
  /\ g \in [SUBSET (1..n) -> A]
  /\ g[{}] = b
  /\ \A s \in (SUBSET (1..n)) \ {{}} : g[s] = h[<<Max(s), g[s \ {Max(s)}]>>]

\* Every step has a run: what FoldLeft computes.
LEMMA RunExists ==
  ASSUME NEW n \in Nat, NEW A, NEW b \in A, NEW h \in [(1..n) \X A -> A]
  PROVE  \E g : Chain(g, n, A, b, h)
<1>1. IsFiniteSet(1..n) /\ \A s \in (SUBSET (1..n)) \ {{}} : Backwards(n)[s] \in s
  BY BackwardsPicks
<1>2. PICK g \in [SUBSET (1..n) -> A] : Rec(g, SUBSET (1..n), b, h, Backwards(n))
  BY <1>1, SetRecursion, Zenon
<1>3. g[{}] = b
  BY <1>2, Zenon DEF Rec
<1>4. ASSUME NEW s \in (SUBSET (1..n)) \ {{}} PROVE g[s] = h[<<Max(s), g[s \ {Max(s)}]>>]
  <2>1. g[s] = h[<<Backwards(n)[s], g[s \ {Backwards(n)[s]}]>>]
    BY <1>2 DEF Rec
  <2> QED BY <2>1, BackwardsPicks
<1> QED BY <1>3, <1>4 DEF Chain

\* One step of conceder_adicao_pedido: a size at the boundary takes what stock and
\* budget allow.
GrowStep(items, stock, acc, s) ==
  LET extra == Least(Positive(stock[s] - acc.items[s].qty), acc.left)
  IN  IF s \notin Boundary(items) THEN acc
      ELSE [items |-> [acc.items EXCEPT ![s].qty = @ + extra],
            left |-> acc.left - extra]

\* A state of its loop.
GrowState(items, acc) ==
  /\ IsGrade(acc.items) /\ DOMAIN acc.items = DOMAIN items /\ acc.left \in Nat
  /\ acc = [items |-> acc.items, left |-> acc.left]

\* Size s takes some pieces at most.
SizeGrows(items, acc, new, s) ==
  new = acc \/ \E extra \in 0..acc.left :
    /\ s \in DOMAIN items /\ new.left = acc.left - extra
    /\ new.items[s] = [acc.items[s] EXCEPT !.qty = @ + extra]
    /\ \A t \in DOMAIN items : t # s => new.items[t] = acc.items[t]

\* A step adds pieces to one size at most, and pays for them from the budget.
LEMMA GrowStepFacts ==
  ASSUME NEW items, IsGrade(items), NEW stock \in [Size -> Int], NEW acc, NEW s \in Size,
         GrowState(items, acc)
  PROVE  /\ SizeGrows(items, acc, GrowStep(items, stock, acc, s), s)
         /\ GrowState(items, GrowStep(items, stock, acc, s))
<1> USE DEF GrowState, SizeGrows
<1> DEFINE extra == Least(Positive(stock[s] - acc.items[s].qty), acc.left)
           new == GrowStep(items, stock, acc, s)
<1>1. CASE s \notin Boundary(items)
  <2>1. new = acc
    BY <1>1 DEF GrowStep
  <2> HIDE DEF new
  <2>2. \/ new = acc \/ \E e \in 0..acc.left :
                  /\ s \in DOMAIN items /\ new.left = acc.left - e
                  /\ new.items[s] = [acc.items[s] EXCEPT !.qty = @ + e]
                  /\ \A t \in DOMAIN items : t # s => new.items[t] = acc.items[t]
        /\ IsGrade(new.items) /\ DOMAIN new.items = DOMAIN items /\ new.left \in Nat
        /\ new = [items |-> new.items, left |-> new.left]
    BY <2>1
  <2> QED BY <2>2, <2>1 DEF new
<1>2. CASE s \in Boundary(items)
  <2>1. s \in DOMAIN items
    BY <1>2 DEF Boundary
  <2>2. /\ acc.items[s] \in Item /\ acc.items[s].qty \in Nat /\ stock[s] \in Int
    BY <2>1 DEF IsGrade, Item
  <2>3. extra \in 0..acc.left
    BY <2>2 DEF Least, Positive
  <2> HIDE DEF extra
  <2>4. new = [items |-> [acc.items EXCEPT ![s].qty = @ + extra], left |-> acc.left - extra]
    BY <1>2 DEF GrowStep, extra
  <2> HIDE DEF new
  <2>5. /\ new.left = acc.left - extra /\ new.items = [acc.items EXCEPT ![s].qty = @ + extra]
        /\ new = [items |-> new.items, left |-> new.left]
    BY <2>4
  <2>6. /\ new.items[s] = [acc.items[s] EXCEPT !.qty = @ + extra]
        /\ \A t \in DOMAIN items : t # s => new.items[t] = acc.items[t]
        /\ DOMAIN new.items = DOMAIN items
    BY <2>1, <2>5
  <2>7. new.items[s] \in Item
    BY <2>2, <2>3, <2>6 DEF Item
  <2>8. IsGrade(new.items)
    <3>1. \A t \in DOMAIN items : new.items[t] \in Item
      BY <2>6, <2>7 DEF IsGrade
    <3>2. new.items = [t \in DOMAIN items |-> new.items[t]]
      BY <2>5
    <3> QED BY <2>6, <3>1, <3>2 DEF IsGrade
  <2> QED BY <2>1, <2>3, <2>5, <2>6, <2>8 DEF new
<1> QED BY <1>1, <1>2

\* The states of that loop.
GrowStates(items) ==
  [items : {m \in Items : DOMAIN m = DOMAIN items}, left : Nat]

\* Grown is a run of GrowStep over the sizes.
LEMMA GrowRuns ==
  ASSUME NEW items, IsGrade(items), NEW stock \in [Size -> Int], NEW budget \in Nat
  PROVE  \E a : /\ a[0] = [items |-> items, left |-> budget]
                /\ \A i \in 1..Len(Sizes) : a[i] = GrowStep(items, stock, a[i - 1], Sizes[i])
                /\ Grown(items, stock, budget) = a[Len(Sizes)]
<1> DEFINE q == Sizes
           n == Len(Sizes)
           b == [items |-> items, left |-> budget]
           A == GrowStates(items)
           h == [y \in (1..n) \X A |-> GrowStep(items, stock, y[2], q[y[1]])]
           Body(g) == [s \in SUBSET (1..n) |->
                         IF s = {} THEN b ELSE GrowStep(items, stock, g[s \ {Max(s)}], q[Max(s)])]
           it == CHOOSE g : g = Body(g)
<1>0. n \in Nat /\ DOMAIN q = 1..n /\ \A i \in 1..n : q[i] \in Size
  BY EngineAssumption
<1>1. ASSUME NEW i \in 1..n, NEW v \in A PROVE GrowStep(items, stock, v, q[i]) \in A
  <2>1. /\ IsGrade(v.items) /\ DOMAIN v.items = DOMAIN items /\ v.left \in Nat
        /\ v = [items |-> v.items, left |-> v.left]
    BY ItemsAreGrades DEF GrowStates
  <2>2. q[i] \in Size
    BY <1>0
  <2> DEFINE new == GrowStep(items, stock, v, q[i])
  <2> HIDE DEF q, A
  <2>3. GrowState(items, v)
    BY <2>1 DEF GrowState
  <2>4. GrowState(items, new)
    BY <2>2, <2>3, GrowStepFacts
  <2> HIDE DEF new
  <2>5. new \in A
    BY <2>4, ItemsAreGrades DEF A, GrowStates, GrowState
  <2> QED BY <2>5 DEF new
<1>2. h \in [(1..n) \X A -> A]
  <2> HIDE DEF A, q
  <2> QED BY <1>1
<1>3. b \in A
  BY ItemsAreGrades DEF GrowStates
<1>4. PICK g : Chain(g, n, A, b, h)
  <2> HIDE DEF A, q, h, b, n
  <2>1. n \in Nat
    BY <1>0
  <2> QED BY <1>2, <1>3, <2>1, RunExists
<1>5. ASSUME NEW s \in SUBSET (1..n), s # {}
      PROVE  g[s] = GrowStep(items, stock, g[s \ {Max(s)}], q[Max(s)])
  <2> DEFINE m == Max(s)
  <2>1. m \in 1..n /\ s \ {m} \in SUBSET (1..n)
    BY <1>0, <1>5, BackwardsPicks
  <2> HIDE DEF m, A, q, b, n
  <2>2. g[s] = h[<<m, g[s \ {m}]>>]
    <3> HIDE DEF h
    <3> QED BY <1>4, <1>5 DEF m, Chain
  <2>4. <<m, g[s \ {m}]>> \in (1..n) \X A
    <3> HIDE DEF h
    <3> QED BY <1>4, <2>1 DEF Chain
  <2>5. g[s] = GrowStep(items, stock, g[s \ {m}], q[m])
    BY <2>2, <2>4
  <2> QED BY <2>5 DEF m
<1>7. g = Body(g)
  <2> HIDE DEF A, q, b, n, h
  <2> QED BY <1>4, <1>5 DEF Chain
<1>8. it = Body(it)
  <2> HIDE DEF Body
  <2> QED BY <1>7, Zenon
<1>9. Grown(items, stock, budget) = it[DOMAIN q]
  <2>1. DOMAIN Sizes = 1..n
    BY <1>0
  <2>2. Grown(items, stock, budget) =
          (CHOOSE iter : iter = [s \in SUBSET DOMAIN Sizes |->
             IF s = {} THEN b
             ELSE GrowStep(items, stock, iter[s \ {Max(s)}], q[Max(s)])])[DOMAIN q]
    BY Zenon DEF Grown, FoldLeft, MapThenFoldSet, GrowStep
  <2> HIDE DEF b, n
  <2> QED BY <2>1, <2>2, Zenon
<1> HIDE DEF it, b, q, n
<1>11. ASSUME NEW i \in 1..n
       PROVE  it[1..i] = GrowStep(items, stock, it[1..(i - 1)], q[i])
  <2>1. /\ 1..i \in SUBSET (1..n) /\ 1..i # {}
        /\ Max(1..i) = i /\ (1..i) \ {i} = 1..(i - 1)
    BY <1>0, BackwardsPicks
  <2> DEFINE Next1(k, s) == GrowStep(items, stock, k[s \ {Max(s)}], q[Max(s)])
  <2>2. \A s \in SUBSET (1..n) : it[s] = IF s = {} THEN b ELSE Next1(it, s)
    <3> HIDE DEF Next1
    <3>1. Body(it) = [s \in SUBSET (1..n) |-> IF s = {} THEN b ELSE Next1(it, s)]
      BY DEF Next1
    <3> QED BY <1>8, <3>1
  <2>3. it[1..i] = Next1(it, 1..i)
    <3> HIDE DEF Next1
    <3> QED BY <2>1, <2>2
  <2> QED BY <2>1, <2>3
<1>12. it[{}] = b
  BY <1>8
<1> DEFINE a == [i \in 0..n |-> it[1..i]]
<1>13. a[0] = b
  <2>1. 1..0 = {} /\ 0 \in 0..n
    BY <1>0
  <2> QED BY <1>12, <2>1
<1>14. \A i \in 1..n : a[i] = GrowStep(items, stock, a[i - 1], q[i])
  BY <1>0, <1>11
<1>15. Grown(items, stock, budget) = a[n]
  BY <1>0, <1>9
<1> HIDE DEF a
<1> QED BY <1>13, <1>14, <1>15 DEF b, q, n

\* The totals of a grade are numbers.
LEMMA GradeSums ==
  ASSUME NEW items, IsGrade(items)
  PROVE  /\ IsFiniteSet(DOMAIN items)
         /\ Quantity(items) \in Nat /\ Asked(items) \in Nat
         /\ Value(items) \in Int /\ Diff(items) \in Int
         /\ \A s \in DOMAIN items : items[s].qty <= Quantity(items)
<1> DEFINE D == DOMAIN items
           qty == [s \in D |-> items[s].qty]
           asked == [s \in D |-> items[s].asked]
           value == [s \in D |-> items[s].value]
           diff == [s \in D |-> items[s].diff]
<1>1. IsFiniteSet(D)
  BY PositionIsOne, FS_Subset DEF IsGrade
<1>2. \A s \in D : /\ qty[s] \in Nat /\ asked[s] \in Nat
                   /\ value[s] \in Int /\ diff[s] \in Int /\ qty[s] = items[s].qty
  BY DEF IsGrade, Item
<1>3. /\ Quantity(items) = SumFunctionOnSet(qty, D) /\ Asked(items) = SumFunctionOnSet(asked, D)
      /\ Value(items) = SumFunctionOnSet(value, D) /\ Diff(items) = SumFunctionOnSet(diff, D)
  BY DEF Quantity, Asked, Value, Diff, SumFunction
<1> HIDE DEF D, qty, asked, value, diff
<1>4. SumFunctionOnSet(qty, D) \in Nat /\ \A s \in D : qty[s] <= SumFunctionOnSet(qty, D)
  BY <1>1, <1>2, SumPositive
<1>5. SumFunctionOnSet(asked, D) \in Nat
  BY <1>1, <1>2, SumPositive
<1>6. SumFunctionOnSet(value, D) \in Int
  BY <1>1, <1>2, SumFacts
<1>7. SumFunctionOnSet(diff, D) \in Int
  BY <1>1, <1>2, SumFacts
<1> QED BY <1>1, <1>2, <1>3, <1>4, <1>5, <1>6, <1>7 DEF D

\* new has at least the pieces of old, and all else the same.
Grows(old, new) ==
  /\ IsGrade(new) /\ DOMAIN new = DOMAIN old
  /\ \A s \in DOMAIN old : /\ new[s].qty >= old[s].qty /\ new[s].asked = old[s].asked
                           /\ new[s].value = old[s].value /\ new[s].diff = old[s].diff

\* One size that grows makes the grade grow by as much.
LEMMA QuantityGrows ==
  ASSUME NEW items, IsGrade(items), NEW new, IsGrade(new), DOMAIN new = DOMAIN items,
         NEW s \in DOMAIN items, NEW extra \in Nat,
         new[s] = [items[s] EXCEPT !.qty = @ + extra],
         \A t \in DOMAIN items : t # s => new[t] = items[t]
  PROVE  Quantity(new) = Quantity(items) + extra /\ Grows(items, new)
<1> DEFINE D == DOMAIN items
           old == [t \in D |-> items[t].qty]
           cur == [t \in D |-> new[t].qty]
<1>1. IsFiniteSet(D) /\ Quantity(items) \in Nat
  BY GradeSums
<1>2. \A t \in D : items[t] \in Item /\ new[t] \in Item
  BY DEF IsGrade
<1>3. new[s].qty = items[s].qty + extra /\ new[s].asked = items[s].asked
        /\ new[s].value = items[s].value /\ new[s].diff = items[s].diff
  BY <1>2 DEF Item
<1>4. /\ \A t \in D : cur[t] \in Int /\ old[t] \in Int
      /\ \A t \in D \ {s} : cur[t] = old[t]
      /\ cur[s] - old[s] = extra
  BY <1>2, <1>3 DEF Item
<1>5. Quantity(items) = SumFunctionOnSet(old, D) /\ Quantity(new) = SumFunctionOnSet(cur, D)
  BY DEF Quantity, SumFunction
<1>6. SumFunctionOnSet(cur, D) = SumFunctionOnSet(old, D) + (cur[s] - old[s])
  <2> HIDE DEF old, cur
  <2> QED BY <1>1, <1>4, SumChange
<1>7. Grows(items, new)
  <2>1. \A t \in D : /\ new[t].qty >= items[t].qty /\ new[t].asked = items[t].asked
                     /\ new[t].value = items[t].value /\ new[t].diff = items[t].diff
    <3> TAKE t \in D
    <3>1. CASE t = s
      BY <1>2, <1>3, <3>1 DEF Item
    <3>2. CASE t # s
      BY <1>2, <3>2 DEF Item
    <3> QED BY <3>1, <3>2
  <2> QED BY <2>1 DEF Grows
<1> HIDE DEF old, cur
<1> QED BY <1>1, <1>4, <1>5, <1>6, <1>7

\* Growth adds up.
LEMMA GrowsFurther ==
  ASSUME NEW a, NEW b, NEW c, IsGrade(a), Grows(a, b), Grows(b, c)
  PROVE  Grows(a, c)
<1>1. \A s \in DOMAIN a : a[s].qty \in Int /\ b[s].qty \in Int /\ c[s].qty \in Int
  BY DEF IsGrade, Grows, Item
<1> QED BY <1>1 DEF Grows

\* conceder_adicao_pedido only adds pieces, and each one it adds leaves the budget.
LEMMA GrownFacts ==
  ASSUME NEW items, IsGrade(items), NEW stock \in [Size -> Int], NEW budget \in Nat
  PROVE  LET grown == Grown(items, stock, budget)
         IN  /\ Grows(items, grown.items) /\ grown.left \in Nat
             /\ grown = [items |-> grown.items, left |-> grown.left]
             /\ Quantity(grown.items) + grown.left = Quantity(items) + budget
<1>1. PICK a : /\ a[0] = [items |-> items, left |-> budget]
               /\ \A i \in 1..Len(Sizes) : a[i] = GrowStep(items, stock, a[i - 1], Sizes[i])
               /\ Grown(items, stock, budget) = a[Len(Sizes)]
  BY GrowRuns
<1> DEFINE n == Len(Sizes)
           Inv(v) == /\ Grows(items, v.items) /\ v.left \in Nat
                     /\ v = [items |-> v.items, left |-> v.left]
                     /\ Quantity(v.items) + v.left = Quantity(items) + budget
           N == {i \in Nat : i <= n => Inv(a[i])}
<1>2. n \in Nat /\ \A i \in 1..n : Sizes[i] \in Size
  BY EngineAssumption
<1>3. Grows(items, items)
  BY DEF Grows, IsGrade, Item
<1>4. 0 \in N
  BY <1>1, <1>3
<1>5. ASSUME NEW i \in Nat, i \in N PROVE i + 1 \in N
  <2> SUFFICES ASSUME i + 1 <= n PROVE Inv(a[i + 1])
    OBVIOUS
  <2>1. Inv(a[i]) /\ i + 1 \in 1..n
    BY <1>2, <1>5
  <2> DEFINE v == a[i]
             new == GrowStep(items, stock, v, Sizes[i + 1])
  <2>2. a[i + 1] = new
    BY <1>1, <2>1
  <2>3. Inv(v) /\ Sizes[i + 1] \in Size
    BY <1>2, <2>1
  <2> HIDE DEF v
  <2>4. SizeGrows(items, v, new, Sizes[i + 1]) /\ GrowState(items, new)
    <3>1. GrowState(items, v)
      BY <2>3 DEF Grows, GrowState
    <3> DEFINE s == Sizes[i + 1]
    <3>2. s \in Size
      BY <2>3
    <3> HIDE DEF Inv, s
    <3>3. SizeGrows(items, v, GrowStep(items, stock, v, s), s)
          /\ GrowState(items, GrowStep(items, stock, v, s))
      BY <3>1, <3>2, GrowStepFacts
    <3> QED BY <3>3 DEF s
  <2> HIDE DEF new
  <2> USE DEF GrowState
  <2>5. CASE new = v
    BY <2>2, <2>3, <2>5
  <2>6. ASSUME NEW extra \in 0..v.left,
               /\ Sizes[i + 1] \in DOMAIN items /\ new.left = v.left - extra
               /\ new.items[Sizes[i + 1]] = [v.items[Sizes[i + 1]] EXCEPT !.qty = @ + extra]
               /\ \A t \in DOMAIN items : t # Sizes[i + 1] => new.items[t] = v.items[t]
        PROVE  Inv(a[i + 1])
    <3>1. IsGrade(v.items) /\ DOMAIN v.items = DOMAIN items /\ v.left \in Nat
      BY <2>3 DEF Grows
    <3>2. Quantity(new.items) = Quantity(v.items) + extra /\ Grows(v.items, new.items)
      <4> DEFINE s == Sizes[i + 1]
      <4>1. /\ s \in DOMAIN v.items /\ extra \in Nat /\ DOMAIN new.items = DOMAIN v.items
            /\ new.items[s] = [v.items[s] EXCEPT !.qty = @ + extra]
            /\ \A t \in DOMAIN v.items : t # s => new.items[t] = v.items[t]
        BY <2>4, <2>6, <3>1
      <4> HIDE DEF s
      <4> QED BY <2>4, <3>1, <4>1, QuantityGrows
    <3>3. Grows(items, new.items)
      BY <2>3, <3>2, GrowsFurther
    <3>4. Quantity(new.items) \in Nat /\ Quantity(v.items) \in Nat /\ Quantity(items) \in Nat
      BY <2>4, <3>1, GradeSums
    <3>5. Quantity(new.items) + new.left = Quantity(items) + budget
      BY <2>3, <2>6, <3>1, <3>2, <3>4
    <3> QED BY <2>2, <2>4, <3>3, <3>5
  <2> QED BY <2>4, <2>5, <2>6 DEF SizeGrows
<1>6. Inv(a[n])
  <2>1. \A i \in Nat : i \in N => i + 1 \in N
    BY <1>5
  <2> HIDE DEF Inv
  <2>2. n \in N
    <3>1. Nat \subseteq N
      <4> HIDE DEF N
      <4> QED BY <1>4, <2>1, Upwards
    <3> HIDE DEF N
    <3> QED BY <1>2, <3>1
  <2> QED BY <2>2 DEF N
<1> QED BY <1>1, <1>6

-----------------------------------------------------------------------------
(* Pass 2 of the engine: the products that grow.                            *)

\* Fractions compared by their cross products are ordered transitively.
LEMMA CrossTransitive ==
  ASSUME NEW t1 \in Int, NEW t2 \in Int, NEW t3 \in Int,
         NEW p1 \in Nat \ {0}, NEW p2 \in Nat \ {0}, NEW p3 \in Nat \ {0},
         t1 * p2 >= t2 * p1, t2 * p3 >= t3 * p2
  PROVE  /\ t1 * p3 >= t3 * p1
         /\ (t1 * p2 > t2 * p1 \/ t2 * p3 > t3 * p2) => t1 * p3 > t3 * p1
<1>1. /\ (t1 * p2) * p3 >= (t2 * p1) * p3
      /\ (t2 * p3) * p1 >= (t3 * p2) * p1
      /\ t1 * p2 > t2 * p1 => (t1 * p2) * p3 > (t2 * p1) * p3
      /\ t2 * p3 > t3 * p2 => (t2 * p3) * p1 > (t3 * p2) * p1
  <2>1. \A x, y \in Int : \A z \in Nat \ {0} : (x >= y => x * z >= y * z) /\ (x > y => x * z > y * z)
    BY SMT
  <2>2. t1 * p2 \in Int /\ t2 * p1 \in Int /\ t2 * p3 \in Int /\ t3 * p2 \in Int
    OBVIOUS
  <2> QED BY <2>1, <2>2
<1>2. /\ (t1 * p2) * p3 = (t1 * p3) * p2 /\ (t2 * p1) * p3 = (t2 * p3) * p1
      /\ (t3 * p2) * p1 = (t3 * p1) * p2
  BY SMT
<1>3. \A x, y \in Int : \A z \in Nat \ {0} : (x * z >= y * z => x >= y) /\ (x * z > y * z => x > y)
  BY SMT
<1>4. t1 * p3 \in Int /\ t3 * p1 \in Int
  OBVIOUS
<1>5. (t1 * p3) * p2 >= (t3 * p1) * p2
  BY <1>1, <1>2
<1>6. (t1 * p2 > t2 * p1 \/ t2 * p3 > t3 * p2) => (t1 * p3) * p2 > (t3 * p1) * p2
  BY <1>1, <1>2
<1> QED BY <1>3, <1>4, <1>5, <1>6

PriceOf(items)  == IF Asked(items) > 0 THEN Value(items) ELSE 0
\* The divisor of an average price.
PiecesOf(items) == IF Asked(items) > 0 THEN Asked(items) ELSE 1

\* p comes before q in pass 2.
DearerFirst(grades, p, q) ==
  \/ Dearer(grades[p], grades[q])
  \/ ~Dearer(grades[q], grades[p]) /\ p < q

\* The same as a relation.
PricesBefore(grades, ready) ==
  {y \in ready \X ready : DearerFirst(grades, y[1], y[2])}

\* Average prices, with the codes to break the ties, order the products strictly.
LEMMA PriceOrderIsStrict ==
  ASSUME NEW grades, NEW ready, ready \subseteq Nat, \A p \in ready : IsGrade(grades[p])
  PROVE  StrictOrder(PricesBefore(grades, ready), ready)
<1> DEFINE t(p) == PriceOf(grades[p])
           k(p) == PiecesOf(grades[p])
<1>1. \A p \in ready : t(p) \in Int /\ k(p) \in Nat \ {0} /\ p \in Nat
  <2> TAKE p \in ready
  <2>1. Asked(grades[p]) \in Nat /\ Value(grades[p]) \in Int
    BY GradeSums
  <2> QED BY <2>1 DEF PriceOf, PiecesOf
<1>2. \A p, q \in ready : Dearer(grades[p], grades[q]) <=> t(p) * k(q) > t(q) * k(p)
  BY DEF Dearer, PriceOf, PiecesOf
<1> HIDE DEF t, k
<1> DEFINE R == PricesBefore(grades, ready)
<1>3. \A p, q \in ready : <<p, q>> \in R <=>
        \/ t(p) * k(q) > t(q) * k(p)
        \/ ~(t(q) * k(p) > t(p) * k(q)) /\ p < q
  BY <1>2 DEF PricesBefore, DearerFirst
<1>4. \A p, q \in ready : t(p) * k(q) \in Int
  BY <1>1
<1> HIDE DEF R
<1>5. \A a \in ready : <<a, a>> \notin R
  BY <1>1, <1>3, <1>4
<1>6. \A a, b \in ready : a # b => <<a, b>> \in R \/ <<b, a>> \in R
  BY <1>1, <1>3, <1>4
<1>7. ASSUME NEW a \in ready, NEW b \in ready, NEW c \in ready, <<a, b>> \in R, <<b, c>> \in R
      PROVE  <<a, c>> \in R
  <2>1. t(a) * k(b) >= t(b) * k(a) /\ t(b) * k(c) >= t(c) * k(b)
    BY <1>3, <1>4, <1>7
  <2>2. /\ t(a) \in Int /\ t(b) \in Int /\ t(c) \in Int
        /\ k(a) \in Nat \ {0} /\ k(b) \in Nat \ {0} /\ k(c) \in Nat \ {0}
    BY <1>1
  <2>3. /\ t(a) * k(c) >= t(c) * k(a)
        /\ (t(a) * k(b) > t(b) * k(a) \/ t(b) * k(c) > t(c) * k(b)) => t(a) * k(c) > t(c) * k(a)
    BY <2>1, <2>2, CrossTransitive
  <2>4. CASE t(a) * k(b) > t(b) * k(a) \/ t(b) * k(c) > t(c) * k(b)
    BY <1>3, <2>3, <2>4
  <2>5. CASE ~(t(a) * k(b) > t(b) * k(a) \/ t(b) * k(c) > t(c) * k(b))
    <3>1. a < b /\ b < c
      BY <1>3, <1>7, <2>5
    <3>2. a < c
      BY <1>1, <3>1
    <3>3. ~(t(c) * k(a) > t(a) * k(c))
      BY <1>4, <2>3
    <3> QED BY <1>3, <3>2, <3>3
  <2> QED BY <2>4, <2>5
<1> HIDE DEF t, k
<1>8. StrictOrder(R, ready)
  BY <1>5, <1>6, <1>7 DEF StrictOrder
<1> QED BY <1>8 DEF R

\* The order of pass 2.
PriceOrder(grades, ready) ==
  Sorted(ready, LAMBDA p, q : \/ Dearer(grades[p], grades[q])
                              \/ ~Dearer(grades[q], grades[p]) /\ p < q)

\* Pass 2 follows it.
LEMMA PriceOrderSorts ==
  ASSUME NEW grades, NEW ready, ready \subseteq Nat, IsFiniteSet(ready),
         \A p \in ready : IsGrade(grades[p])
  PROVE  Enumerates(PriceOrder(grades, ready), ready, PricesBefore(grades, ready))
<1> DEFINE S == ready
           R == PricesBefore(grades, ready)
           c == PriceOrder(grades, ready)
           Ordered(k) == \A i, j \in DOMAIN k : i < j => DearerFirst(grades, k[i], k[j])
<1>1. \A a, b \in S : <<a, b>> \in R <=> DearerFirst(grades, a, b)
  BY DEF PricesBefore
<1>2. StrictOrder(R, S)
  BY PriceOrderIsStrict
<1>3. PICK q : Enumerates(q, S, R)
  BY <1>2, CanEnumerate
<1>4. q \in SetToSeqs(S)
  BY <1>2, <1>3, Enumeration
<1>5. DOMAIN q = 1..Cardinality(S) /\ \A i \in DOMAIN q : q[i] \in S
  BY <1>3 DEF Enumerates
<1>6. Ordered(q)
  <2> HIDE DEF R, S
  <2> QED BY <1>1, <1>3, <1>5 DEF Enumerates
<1>7. c \in SetToSeqs(S) /\ Ordered(c)
  <2> DEFINE Good(k) == k \in SetToSeqs(S) /\ Ordered(k)
  <2>1. c = CHOOSE k : Good(k)
    BY Zenon DEF PriceOrder, Sorted, DearerFirst
  <2> HIDE DEF Good, c
  <2>2. Good(q)
    BY <1>4, <1>6 DEF Good
  <2>3. Good(c)
    BY <2>1, <2>2, Zenon
  <2> QED BY <2>3 DEF Good
<1>8. c \in [1..Cardinality(S) -> S]
  <2> HIDE DEF c, S
  <2> QED BY <1>7 DEF SetToSeqs
<1>9. Enumerates(c, S, R)
  <2> HIDE DEF c, S, R
  <2> QED BY <1>1, <1>7, <1>8 DEF Enumerates
<1> QED BY <1>9

\* Grades of several products.
IsPlan(grades) == \A p \in DOMAIN grades : IsGrade(grades[p])

\* One step of pass 2.
SecondStep(stock, acc, p) ==
  LET grown == Grown(acc.grades[p], stock[p], acc.left)
  IN  [grades |-> [acc.grades EXCEPT ![p] = grown.items], left |-> grown.left]

\* What pass 2 starts from.
SecondInput(G, stock) == G \subseteq Product /\ stock \in [Product -> [Size -> Int]]

\* The states of its loop.
SecondStates(G) == [grades : [G -> Items], left : Nat]

\* A step of pass 2 grows one grade, and pays for it.
SecondStepped(G, acc, new, p) ==
  /\ new \in SecondStates(G)
  /\ Grows(acc.grades[p], new.grades[p])
  /\ \A r \in G : r # p => new.grades[r] = acc.grades[r]
  /\ Quantity(new.grades[p]) + new.left = Quantity(acc.grades[p]) + acc.left

\* Every step does.
LEMMA SecondStepFacts ==
  ASSUME NEW G, NEW stock, SecondInput(G, stock), NEW acc \in SecondStates(G), NEW p \in G
  PROVE  SecondStepped(G, acc, SecondStep(stock, acc, p), p)
<1> DEFINE grown == Grown(acc.grades[p], stock[p], acc.left)
           new == SecondStep(stock, acc, p)
<1>1. IsGrade(acc.grades[p]) /\ stock[p] \in [Size -> Int] /\ acc.left \in Nat
  BY ItemsAreGrades DEF SecondInput, SecondStates
<1>2. /\ Grows(acc.grades[p], grown.items) /\ grown.left \in Nat
      /\ Quantity(grown.items) + grown.left = Quantity(acc.grades[p]) + acc.left
  BY <1>1, GrownFacts
<1>3. grown.items \in Items
  BY <1>2, ItemsAreGrades DEF Grows
<1> HIDE DEF grown
<1>4. new = [grades |-> [acc.grades EXCEPT ![p] = grown.items], left |-> grown.left]
  BY DEF SecondStep, grown
<1> HIDE DEF new
<1>5. new \in SecondStates(G)
  BY <1>2, <1>3, <1>4 DEF SecondStates
<1>6. /\ new.grades[p] = grown.items /\ new.left = grown.left
      /\ \A r \in G : r # p => new.grades[r] = acc.grades[r]
  BY <1>4 DEF SecondStates
<1>7. SecondStepped(G, acc, new, p)
  BY <1>2, <1>5, <1>6 DEF SecondStepped
<1> QED BY <1>7 DEF new

\* a is the run of pass 2 over its order.
SecondRun(a, grades, stock, ready, budget, n) ==
  /\ a[0] = [grades |-> grades, left |-> budget]
  /\ \A i \in 1..n : a[i] = SecondStep(stock, a[i - 1], PriceOrder(grades, ready)[i])
  /\ SecondPass(grades, stock, ready, budget) = a[n].grades

\* Pass 2 is such a run.
LEMMA SecondRuns ==
  ASSUME NEW G, NEW stock, SecondInput(G, stock), NEW grades \in [G -> Items],
         NEW ready \in SUBSET G, NEW budget \in Nat, NEW n \in Nat,
         PriceOrder(grades, ready) \in [1..n -> ready]
  PROVE  \E a : SecondRun(a, grades, stock, ready, budget, n)
<1> DEFINE q == PriceOrder(grades, ready)
           b == [grades |-> grades, left |-> budget]
           A == SecondStates(G)
           h == [y \in (1..n) \X A |-> SecondStep(stock, y[2], q[y[1]])]
           Body(g) == [s \in SUBSET (1..n) |->
                         IF s = {} THEN b ELSE SecondStep(stock, g[s \ {Max(s)}], q[Max(s)])]
           it == CHOOSE g : g = Body(g)
<1>0. DOMAIN q = 1..n /\ \A i \in 1..n : q[i] \in G
  <2> HIDE DEF q
  <2> QED BY DEF q
<1>1. ASSUME NEW i \in 1..n, NEW v \in A PROVE SecondStep(stock, v, q[i]) \in A
  <2>1. q[i] \in G /\ v \in A
    BY <1>0
  <2> HIDE DEF q
  <2> QED BY <2>1, SecondStepFacts DEF SecondStepped
<1>2. h \in [(1..n) \X A -> A]
  <2> HIDE DEF A, q
  <2> QED BY <1>1
<1>3. b \in A
  BY DEF SecondStates
<1>4. PICK g : Chain(g, n, A, b, h)
  <2> HIDE DEF A, q, h, b
  <2> QED BY <1>2, <1>3, RunExists
<1>5. ASSUME NEW s \in SUBSET (1..n), s # {}
      PROVE  g[s] = SecondStep(stock, g[s \ {Max(s)}], q[Max(s)])
  <2> DEFINE m == Max(s)
  <2>1. m \in 1..n /\ s \ {m} \in SUBSET (1..n)
    BY <1>5, BackwardsPicks
  <2> HIDE DEF m, A, q, b
  <2>2. g[s] = h[<<m, g[s \ {m}]>>]
    <3> HIDE DEF h
    <3> QED BY <1>4, <1>5 DEF m, Chain
  <2>4. <<m, g[s \ {m}]>> \in (1..n) \X A
    <3> HIDE DEF h
    <3> QED BY <1>4, <2>1 DEF Chain
  <2>5. g[s] = SecondStep(stock, g[s \ {m}], q[m])
    BY <2>2, <2>4
  <2> QED BY <2>5 DEF m
<1>7. g = Body(g)
  <2> HIDE DEF A, q, b, h
  <2> QED BY <1>4, <1>5 DEF Chain
<1>8. it = Body(it)
  <2> HIDE DEF Body
  <2> QED BY <1>7, Zenon
<1>9. SecondPass(grades, stock, ready, budget) = it[DOMAIN q].grades
  <2>1. SecondPass(grades, stock, ready, budget) =
          (CHOOSE iter : iter = [s \in SUBSET DOMAIN q |->
              IF s = {} THEN b ELSE SecondStep(stock, iter[s \ {Max(s)}], q[Max(s)])])[DOMAIN q].grades
    BY Zenon DEF SecondPass, FoldLeft, MapThenFoldSet, SecondStep, PriceOrder
  <2>2. DOMAIN q = 1..n
    BY <1>0
  <2> HIDE DEF b, q
  <2> QED BY <2>1, <2>2, Zenon
<1> HIDE DEF it, b, q
<1>11. ASSUME NEW i \in 1..n
       PROVE  it[1..i] = SecondStep(stock, it[1..(i - 1)], q[i])
  <2>1. /\ 1..i \in SUBSET (1..n) /\ 1..i # {}
        /\ Max(1..i) = i /\ (1..i) \ {i} = 1..(i - 1)
    BY BackwardsPicks
  <2> DEFINE Next1(k, s) == SecondStep(stock, k[s \ {Max(s)}], q[Max(s)])
  <2>2. \A s \in SUBSET (1..n) : it[s] = IF s = {} THEN b ELSE Next1(it, s)
    <3> HIDE DEF Next1
    <3>1. Body(it) = [s \in SUBSET (1..n) |-> IF s = {} THEN b ELSE Next1(it, s)]
      BY DEF Next1
    <3> QED BY <1>8, <3>1
  <2>3. it[1..i] = Next1(it, 1..i)
    <3> HIDE DEF Next1
    <3> QED BY <2>1, <2>2
  <2> QED BY <2>1, <2>3
<1>12. it[{}] = b
  BY <1>8
<1> DEFINE a == [i \in 0..n |-> it[1..i]]
<1>13. a[0] = b
  <2>1. 1..0 = {} /\ 0 \in 0..n
    OBVIOUS
  <2> QED BY <1>12, <2>1
<1>14. \A i \in 1..n : a[i] = SecondStep(stock, a[i - 1], q[i])
  BY <1>11
<1>15. SecondPass(grades, stock, ready, budget) = a[n].grades
  BY <1>0, <1>9
<1> HIDE DEF a
<1> QED BY <1>13, <1>14, <1>15 DEF b, q, SecondRun

\* The pieces of the grades of S.
Pieces(grades, S) == SumFunctionOnSet([p \in S |-> Quantity(grades[p])], S)

\* One grade changes, and the pieces by as much.
LEMMA PiecesChange ==
  ASSUME NEW G, IsFiniteSet(G), NEW old \in [G -> Items], NEW new \in [G -> Items],
         NEW p \in G, \A r \in G : r # p => new[r] = old[r]
  PROVE  /\ Pieces(new, G) = Pieces(old, G) + (Quantity(new[p]) - Quantity(old[p]))
         /\ Pieces(new, G) \in Nat /\ Pieces(old, G) \in Nat
         /\ Quantity(new[p]) \in Nat /\ Quantity(old[p]) \in Nat
<1> DEFINE f == [r \in G |-> Quantity(new[r])]
           e == [r \in G |-> Quantity(old[r])]
<1>1. \A r \in G : f[r] = Quantity(new[r]) /\ e[r] = Quantity(old[r])
  OBVIOUS
<1>2. \A r \in G : f[r] \in Nat /\ e[r] \in Nat
  <2> TAKE r \in G
  <2>1. IsGrade(new[r]) /\ IsGrade(old[r])
    BY ItemsAreGrades
  <2> QED BY <1>1, <2>1, GradeSums
<1>3. \A r \in G \ {p} : f[r] = e[r]
  BY <1>1
<1>4. Pieces(new, G) = SumFunctionOnSet(f, G) /\ Pieces(old, G) = SumFunctionOnSet(e, G)
  BY DEF Pieces
<1> HIDE DEF f, e
<1>5. SumFunctionOnSet(f, G) = SumFunctionOnSet(e, G) + (f[p] - e[p])
  <2>1. \A r \in G : f[r] \in Int /\ e[r] \in Int
    BY <1>2
  <2> QED BY <1>3, <2>1, SumChange
<1>6. SumFunctionOnSet(f, G) \in Nat /\ SumFunctionOnSet(e, G) \in Nat
  <2>1. (\A r \in G : f[r] \in Nat) /\ (\A r \in G : e[r] \in Nat)
    BY <1>2
  <2> QED BY <2>1, SumPositive
<1> QED BY <1>1, <1>2, <1>4, <1>5, <1>6

\* Pass 2 only adds pieces, to the products that needed no cut, and adds no more than
\* the budget over all of them.
LEMMA SecondPassFacts ==
  ASSUME NEW G, G \subseteq Product, NEW grades \in [G -> Items],
         NEW stock \in [Product -> [Size -> Int]], NEW ready, ready \subseteq G,
         NEW budget \in Nat
  PROVE  LET new == SecondPass(grades, stock, ready, budget)
         IN  /\ new \in [G -> Items]
             /\ \A p \in G : Grows(grades[p], new[p])
             /\ \A p \in G \ ready : new[p] = grades[p]
             /\ Pieces(new, G) <= Pieces(grades, G) + budget
<1> DEFINE n == Cardinality(ready)
           q == PriceOrder(grades, ready)
<1>1. /\ Product \subseteq Nat /\ IsFiniteSet(G) /\ IsFiniteSet(ready) /\ n \in Nat
      /\ ready \subseteq Nat /\ \A p \in G : IsGrade(grades[p])
  BY EngineAssumption, ItemsAreGrades, FS_Subset, FS_CardinalityType
<1>2. Enumerates(q, ready, PricesBefore(grades, ready))
  BY <1>1, PriceOrderSorts
<1>3. q \in [1..n -> ready]
  BY <1>2 DEF Enumerates
<1>4. PICK a : /\ a[0] = [grades |-> grades, left |-> budget]
               /\ \A i \in 1..n : a[i] = SecondStep(stock, a[i - 1], q[i])
               /\ SecondPass(grades, stock, ready, budget) = a[n].grades
  <2>1. n \in Nat /\ PriceOrder(grades, ready) \in [1..n -> ready]
    BY <1>1, <1>3
  <2> HIDE DEF n
  <2>2. ready \in SUBSET G /\ SecondInput(G, stock)
    BY DEF SecondInput
  <2>3. PICK a : SecondRun(a, grades, stock, ready, budget, n)
    BY <2>1, <2>2, SecondRuns
  <2> QED BY <2>3 DEF SecondRun
<1> DEFINE Inv(v) == /\ v \in SecondStates(G)
                     /\ \A p \in G : Grows(grades[p], v.grades[p])
                     /\ \A p \in G \ ready : v.grades[p] = grades[p]
                     /\ Pieces(v.grades, G) + v.left = Pieces(grades, G) + budget
           N == {i \in Nat : i <= n => Inv(a[i])}
<1> HIDE DEF n, q
<1>5. 0 \in N
  <2>1. \A p \in G : Grows(grades[p], grades[p])
    <3> TAKE p \in G
    <3>1. IsGrade(grades[p])
      BY <1>1
    <3> QED BY <3>1 DEF Grows, IsGrade, Item
  <2> QED BY <1>4, <2>1 DEF SecondStates
<1>6. ASSUME NEW i \in Nat, i \in N PROVE i + 1 \in N
  <2> SUFFICES ASSUME i + 1 <= n PROVE Inv(a[i + 1])
    OBVIOUS
  <2>1. Inv(a[i]) /\ i + 1 \in 1..n
    BY <1>1, <1>6
  <2> DEFINE v == a[i]
             p == q[i + 1]
             new == SecondStep(stock, v, p)
  <2>2. a[i + 1] = new
    BY <1>4, <2>1
  <2>3. p \in ready /\ p \in G
    BY <1>3, <2>1
  <2>4. Inv(v)
    BY <2>1
  <2> HIDE DEF v, p
  <2>5. /\ new \in SecondStates(G)
        /\ Grows(v.grades[p], new.grades[p])
        /\ \A r \in G : r # p => new.grades[r] = v.grades[r]
        /\ Quantity(new.grades[p]) + new.left = Quantity(v.grades[p]) + v.left
    <3>1. v \in SecondStates(G) /\ SecondInput(G, stock)
      BY <2>4 DEF SecondInput
    <3>2. p \in G
      BY <2>3
    <3>3. SecondStepped(G, v, new, p)
      BY <3>1, <3>2, SecondStepFacts
    <3> QED BY <3>3 DEF SecondStepped
  <2> HIDE DEF new
  <2>6. \A r \in G : Grows(grades[r], new.grades[r])
    <3> TAKE r \in G
    <3>1. Grows(grades[r], v.grades[r]) /\ IsGrade(grades[r])
      BY <1>1, <2>4
    <3>2. CASE r = p
      <4>1. Grows(v.grades[r], new.grades[r])
        BY <2>5, <3>2
      <4> QED BY <3>1, <4>1, GrowsFurther
    <3>3. CASE r # p
      BY <2>5, <3>1, <3>3
    <3> QED BY <3>2, <3>3
  <2>7. \A r \in G \ ready : new.grades[r] = grades[r]
    BY <2>3, <2>4, <2>5
  <2>8. Pieces(new.grades, G) + new.left = Pieces(grades, G) + budget
    <3>1. new.grades \in [G -> Items] /\ v.grades \in [G -> Items] /\ new.left \in Nat /\ v.left \in Nat
      BY <2>4, <2>5 DEF SecondStates
    <3>2. /\ Pieces(new.grades, G) = Pieces(v.grades, G) + (Quantity(new.grades[p]) - Quantity(v.grades[p]))
          /\ Pieces(new.grades, G) \in Nat /\ Pieces(v.grades, G) \in Nat
          /\ Quantity(new.grades[p]) \in Nat /\ Quantity(v.grades[p]) \in Nat
      <4> DEFINE u == new.grades
                 w == v.grades
      <4>1. /\ u \in [G -> Items] /\ w \in [G -> Items] /\ p \in G /\ IsFiniteSet(G)
            /\ \A r \in G : r # p => u[r] = w[r]
        BY <1>1, <2>3, <2>5, <3>1
      <4> HIDE DEF u, w
      <4>2. /\ Pieces(u, G) = Pieces(w, G) + (Quantity(u[p]) - Quantity(w[p]))
            /\ Pieces(u, G) \in Nat /\ Pieces(w, G) \in Nat
            /\ Quantity(u[p]) \in Nat /\ Quantity(w[p]) \in Nat
        BY <4>1, PiecesChange
      <4> QED BY <4>2 DEF u, w
    <3>3. Pieces(v.grades, G) + v.left = Pieces(grades, G) + budget
      BY <2>4
    <3>4. Quantity(new.grades[p]) + new.left = Quantity(v.grades[p]) + v.left
      BY <2>5
    <3>6. Pieces(new.grades, G) + new.left = Pieces(v.grades, G) + v.left
      <4> DEFINE x == Pieces(new.grades, G)
                 y == Pieces(v.grades, G)
                 u == Quantity(new.grades[p])
                 w == Quantity(v.grades[p])
                 l == new.left
                 k == v.left
      <4>1. x \in Nat /\ y \in Nat /\ u \in Nat /\ w \in Nat /\ l \in Nat /\ k \in Nat
        BY <3>1, <3>2
      <4>2. x = y + (u - w) /\ u + l = w + k
        BY <3>2, <3>4
      <4> HIDE DEF x, y, u, w, l, k
      <4>3. x + l = y + k
        BY <4>1, <4>2
      <4> QED BY <4>3 DEF x, y, l, k
    <3> QED BY <3>3, <3>6
  <2> QED BY <2>2, <2>5, <2>6, <2>7, <2>8
<1>7. Inv(a[n])
  <2>1. \A i \in Nat : i \in N => i + 1 \in N
    BY <1>6
  <2> HIDE DEF Inv
  <2>2. n \in N
    <3>1. Nat \subseteq N
      <4> HIDE DEF N
      <4> QED BY <1>5, <2>1, Upwards
    <3> HIDE DEF N
    <3> QED BY <1>1, <3>1
  <2> QED BY <1>1, <2>2 DEF N
<1>8. Pieces(a[n].grades, G) <= Pieces(grades, G) + budget
  <2> DEFINE e == [r \in G |-> Quantity(a[n].grades[r])]
             f == [r \in G |-> Quantity(grades[r])]
  <2>1. (\A r \in G : e[r] \in Nat) /\ (\A r \in G : f[r] \in Nat)
    <3>1. \A r \in G : IsGrade(a[n].grades[r]) /\ IsGrade(grades[r])
      BY <1>1, <1>7, ItemsAreGrades DEF SecondStates
    <3> QED BY <3>1, GradeSums
  <2> HIDE DEF e, f
  <2>2. SumFunctionOnSet(e, G) \in Nat /\ SumFunctionOnSet(f, G) \in Nat
    BY <1>1, <2>1, SumPositive
  <2>3. Pieces(a[n].grades, G) \in Nat /\ Pieces(grades, G) \in Nat
    BY <2>2 DEF Pieces, e, f
  <2> QED BY <1>7, <2>3 DEF SecondStates
<1> QED BY <1>4, <1>7, <1>8 DEF SecondStates

-----------------------------------------------------------------------------
(* Prices and amounts.                                                      *)

\* A grade as it was ordered.
IsRaw(items) == /\ IsGrade(items)
                /\ \A s \in DOMAIN items : items[s].qty = items[s].asked /\ items[s].diff = 0

\* What a grade adds and cuts are numbers.
LEMMA AmountTypes ==
  ASSUME NEW kind, NEW items, IsGrade(items)
  PROVE  Additions(kind, items) \in Nat /\ Cuts(kind, items) \in Nat
<1> DEFINE D == DOMAIN items
           f == [s \in D |-> Excess(items[s].qty, items[s].asked)]
           e == [s \in D |-> Excess(items[s].asked, items[s].qty)]
<1>1. IsFiniteSet(D) /\ Quantity(items) \in Nat /\ Asked(items) \in Nat
  BY GradeSums
<1>2. (\A s \in D : f[s] \in Nat) /\ (\A s \in D : e[s] \in Nat)
  BY DEF IsGrade, Item, Excess, Positive
<1>3. SumFunction(f) = SumFunctionOnSet(f, D) /\ SumFunction(e) = SumFunctionOnSet(e, D)
  BY DEF SumFunction
<1>4. SumFunction(f) \in Nat /\ SumFunction(e) \in Nat
  <2> HIDE DEF f, e, D
  <2> QED BY <1>1, <1>2, <1>3, SumPositive
<1>5. Excess(Quantity(items), Asked(items)) \in Nat /\ Excess(Asked(items), Quantity(items)) \in Nat
  BY <1>1 DEF Excess, Positive
<1> QED BY <1>4, <1>5 DEF Additions, Cuts

\* The same pieces, asked for and reserved.
SameCounts(a, b) ==
  /\ DOMAIN b = DOMAIN a
  /\ \A s \in DOMAIN a : b[s].qty = a[s].qty /\ b[s].asked = a[s].asked

\* Additions and cuts depend on the pieces only, so prices do not touch the budgets.
LEMMA SameAmounts ==
  ASSUME NEW a, NEW b, SameCounts(a, b), NEW kind
  PROVE  /\ Additions(kind, b) = Additions(kind, a)
         /\ Cuts(kind, b) = Cuts(kind, a)
         /\ Quantity(b) = Quantity(a)
<1>1. /\ [s \in DOMAIN b |-> b[s].qty] = [s \in DOMAIN a |-> a[s].qty]
      /\ [s \in DOMAIN b |-> b[s].asked] = [s \in DOMAIN a |-> a[s].asked]
  BY DEF SameCounts
<1>2. /\ [s \in DOMAIN b |-> Excess(b[s].qty, b[s].asked)] =
           [s \in DOMAIN a |-> Excess(a[s].qty, a[s].asked)]
      /\ [s \in DOMAIN b |-> Excess(b[s].asked, b[s].qty)] =
           [s \in DOMAIN a |-> Excess(a[s].asked, a[s].qty)]
  BY DEF SameCounts
<1>3. Quantity(b) = Quantity(a) /\ Asked(b) = Asked(a)
  BY <1>1 DEF Quantity, Asked
<1> QED BY <1>2, <1>3 DEF Additions, Cuts

\* A grade as it was asked for neither adds nor cuts.
LEMMA EvenAmounts ==
  ASSUME NEW kind, NEW items, IsGrade(items),
         \A s \in DOMAIN items : items[s].qty = items[s].asked
  PROVE  Additions(kind, items) = 0 /\ Cuts(kind, items) = 0
<1> DEFINE D == DOMAIN items
           f == [s \in D |-> Excess(items[s].qty, items[s].asked)]
           e == [s \in D |-> Excess(items[s].asked, items[s].qty)]
<1>1. IsFiniteSet(D) /\ Quantity(items) \in Nat
  BY GradeSums
<1>2. (\A s \in D : f[s] = 0) /\ (\A s \in D : e[s] = 0)
  BY DEF IsGrade, Item, Excess, Positive
<1>3. SumFunction(f) = SumFunctionOnSet(f, D) /\ SumFunction(e) = SumFunctionOnSet(e, D)
  BY DEF SumFunction
<1>4. SumFunction(f) = 0 /\ SumFunction(e) = 0
  <2> HIDE DEF f, e, D
  <2> QED BY <1>1, <1>2, <1>3, SumZeros
<1>5. Asked(items) = Quantity(items)
  <2>1. [s \in D |-> items[s].qty] = [s \in D |-> items[s].asked]
    OBVIOUS
  <2> QED BY <2>1 DEF Asked, Quantity
<1>6. Excess(Quantity(items), Asked(items)) = 0 /\ Excess(Asked(items), Quantity(items)) = 0
  BY <1>1, <1>5 DEF Excess, Positive
<1> QED BY <1>4, <1>6 DEF Additions, Cuts

\* Size by size or in total, value less difference is what was ordered.
LEMMA NetValue ==
  ASSUME NEW items, IsGrade(items), NEW grade, IsGrade(grade), DOMAIN items = DOMAIN grade,
         \A s \in DOMAIN grade : items[s].value - items[s].diff = grade[s].value
  PROVE  Value(items) - Diff(items) = Value(grade)
<1> DEFINE D == DOMAIN grade
           f == [s \in D |-> items[s].value]
           e == [s \in D |-> items[s].diff]
           h == [s \in D |-> grade[s].value]
<1>1. IsFiniteSet(D) /\ Value(items) \in Int /\ Diff(items) \in Int /\ Value(grade) \in Int
  BY GradeSums
<1>2. \A s \in D : e[s] \in Int /\ h[s] \in Int /\ f[s] = 1 * e[s] + h[s]
  <2> TAKE s \in D
  <2>1. items[s] \in Item /\ grade[s] \in Item
    BY DEF IsGrade
  <2> QED BY <2>1 DEF Item
<1>3. /\ Value(items) = SumFunctionOnSet(f, D) /\ Diff(items) = SumFunctionOnSet(e, D)
      /\ Value(grade) = SumFunctionOnSet(h, D)
  BY DEF Value, Diff, SumFunction
<1> HIDE DEF D, f, e, h
<1>4. SumFunctionOnSet(f, D) = 1 * SumFunctionOnSet(e, D) + SumFunctionOnSet(h, D)
  <2>1. IsFiniteSet(D) /\ 1 \in Int /\ Combines(f, 1, e, h, D)
    BY <1>1, <1>2 DEF Combines
  <2> QED BY <2>1, SumLinear
<1> QED BY <1>1, <1>3, <1>4

\* _recalcular_financeiro_produto moves the value and its difference together: the
\* original value of each size can still be told.
LEMMA RepricedFacts ==
  ASSUME NEW items, IsGrade(items), Quantity(items) > 0
  PROVE  /\ IsGrade(Repriced(items)) /\ SameCounts(items, Repriced(items))
         /\ \A s \in DOMAIN items :
              Repriced(items)[s].value - Repriced(items)[s].diff = items[s].value
<1> DEFINE asked == Asked(items)
           total == IF asked = 0 THEN 0
                    ELSE (2 * Value(items) * Quantity(items) + asked) \div (2 * asked)
           weight == [s \in DOMAIN items |-> items[s].qty]
           shares == Shares(total, weight)
           new == Repriced(items)
<1>1. asked \in Nat /\ Value(items) \in Int /\ Quantity(items) \in Nat
  BY GradeSums
<1>2. total \in Int
  <2> HIDE DEF asked
  <2>1. 2 * Value(items) * Quantity(items) + asked \in Int
    BY <1>1
  <2>2. \A x \in Int : \A y \in Nat \ {0} : x \div (2 * y) \in Int
    BY SMT
  <2> QED BY <1>1, <2>1, <2>2
<1> HIDE DEF total
<1>3. Weighs(weight) /\ DOMAIN weight = DOMAIN items
  BY DEF IsGrade, Item, Quantity, Weighs
<1>4. \A s \in DOMAIN items : shares[s] \in Int
  <2>1. Weighs(weight)
    BY <1>3
  <2> HIDE DEF weight
  <2>2. \A s \in DOMAIN weight : Shares(total, weight)[s] \in Int
    BY <1>2, <2>1, SharesSumToTotal
  <2> QED BY <1>3, <2>2
<1>5. new = [s \in DOMAIN items |->
               [items[s] EXCEPT !.value = shares[s], !.diff = shares[s] - items[s].value]]
  BY Zenon DEF Repriced, total
<1> HIDE DEF shares, new
<1>6. \A s \in DOMAIN items :
        /\ new[s] \in Item /\ new[s].qty = items[s].qty /\ new[s].asked = items[s].asked
        /\ new[s].value - new[s].diff = items[s].value
  <2> TAKE s \in DOMAIN items
  <2>1. items[s] \in Item /\ shares[s] \in Int
    BY <1>4 DEF IsGrade
  <2>2. new[s] = [items[s] EXCEPT !.value = shares[s], !.diff = shares[s] - items[s].value]
    BY <1>5
  <2> DEFINE i == items[s]
             v == shares[s]
             w == v - i.value
             k == new[s]
  <2>3. i \in Item /\ v \in Int /\ k = [i EXCEPT !.value = v, !.diff = w]
    BY <2>1, <2>2
  <2>4. i.value \in Int /\ w \in Int
    BY <2>3 DEF Item
  <2>5. v - w = i.value
    <3> HIDE DEF i, v
    <3> QED BY <2>3, <2>4
  <2> HIDE DEF i, v, k, w
  <2>6. /\ k \in Item /\ k.qty = i.qty /\ k.asked = i.asked
        /\ k.value = v /\ k.diff = w
    BY <2>3, <2>4 DEF Item
  <2>7. k.value - k.diff = i.value
    BY <2>5, <2>6
  <2> QED BY <2>6, <2>7 DEF i, k
<1>7. DOMAIN new = DOMAIN items /\ new = [s \in DOMAIN items |-> new[s]]
  BY <1>5
<1>8. IsGrade(new)
  BY <1>6, <1>7 DEF IsGrade
<1>9. SameCounts(items, new)
  BY <1>6, <1>7 DEF SameCounts
<1> QED BY <1>6, <1>8, <1>9 DEF new

-----------------------------------------------------------------------------
(* The decision for one order.                                              *)

\* The same order, whatever is reserved of it.
SameOrder(a, b) ==
  /\ DOMAIN b = DOMAIN a
  /\ \A s \in DOMAIN a : /\ b[s].asked = a[s].asked
                         /\ b[s].value = a[s].value /\ b[s].diff = a[s].diff

\* What adequar_grade_produto cuts is the shortage, and it adds nothing.
LEMMA FittedFacts ==
  ASSUME NEW items, IsRaw(items), NEW stock, stock \in [Size -> Nat]
  PROVE  /\ IsGrade(Fitted(items, stock)) /\ SameOrder(items, Fitted(items, stock))
         /\ Cuts("com", Fitted(items, stock)) = Shortage(items, stock)
         /\ Additions("com", Fitted(items, stock)) = 0
         /\ Shortage(items, stock) \in Nat
         /\ Shortage(items, stock) = 0 =>
              \A s \in DOMAIN items : Fitted(items, stock)[s].qty = Fitted(items, stock)[s].asked
<1> DEFINE D == DOMAIN items
           new == Fitted(items, stock)
           lack == [s \in D |-> Positive(items[s].qty - stock[s])]
           over == [s \in D |-> Excess(new[s].qty, new[s].asked)]
<1>1. IsGrade(items) /\ D \subseteq Size /\ IsFiniteSet(D)
  BY GradeSums DEF IsRaw, IsGrade
<1>2. DOMAIN new = D /\ new = [s \in D |-> new[s]]
  BY DEF Fitted
<1>3. \A s \in D :
        /\ new[s] \in Item /\ new[s].asked = items[s].asked
        /\ new[s].value = items[s].value /\ new[s].diff = items[s].diff
        /\ Excess(new[s].asked, new[s].qty) = lack[s] /\ lack[s] \in Nat
        /\ over[s] = 0
        /\ lack[s] <= 0 => new[s].qty = new[s].asked
  <2> TAKE s \in D
  <2> DEFINE i == items[s]
             k == stock[s]
             v == new[s]
             w == Least(i.qty, k)
  <2>1. /\ v = [i EXCEPT !.asked = i.qty, !.qty = w]
        /\ i \in Item /\ i.qty = i.asked /\ k \in Nat
        /\ lack[s] = Positive(i.qty - k) /\ over[s] = Excess(v.qty, v.asked)
    BY <1>1 DEF Fitted, IsRaw, IsGrade
  <2>2. i.qty \in Nat
    BY <2>1 DEF Item
  <2>3. w \in Nat /\ w <= i.qty /\ w <= k /\ (w = i.qty \/ w = k)
    <3> HIDE DEF i, k
    <3> QED BY <2>1, <2>2 DEF Least
  <2> HIDE DEF i, k, v, w, lack, over
  <2>4. /\ v \in Item /\ v.asked = i.asked /\ v.qty = w
        /\ v.value = i.value /\ v.diff = i.diff
    BY <2>1, <2>2, <2>3 DEF Item
  <2>5. /\ Excess(v.asked, v.qty) = lack[s] /\ lack[s] \in Nat /\ over[s] = 0
        /\ lack[s] <= 0 => v.qty = v.asked
    BY <2>1, <2>2, <2>3, <2>4 DEF Excess, Positive
  <2> QED BY <2>4, <2>5 DEF v, i
<1>4. IsGrade(new)
  BY <1>1, <1>2, <1>3 DEF IsGrade
<1>5. SameOrder(items, new)
  BY <1>2, <1>3 DEF SameOrder
<1>6. Shortage(items, stock) = SumFunctionOnSet(lack, D)
  BY DEF Shortage, SumFunction
<1>7. Cuts("com", new) = SumFunctionOnSet(lack, D)
  <2>1. [s \in DOMAIN new |-> Excess(new[s].asked, new[s].qty)] = lack
    <3> HIDE DEF new
    <3> QED BY <1>2, <1>3
  <2>2. Cuts("com", new) = SumFunction(lack)
    <3> HIDE DEF new, lack
    <3> QED BY <2>1 DEF Cuts
  <2> QED BY <2>2 DEF SumFunction
<1>8. Additions("com", new) = SumFunctionOnSet(over, D)
  <2>1. [s \in DOMAIN new |-> Excess(new[s].qty, new[s].asked)] = over
    <3> HIDE DEF new
    <3> QED BY <1>2
  <2>2. Additions("com", new) = SumFunction(over)
    <3> HIDE DEF new, over
    <3> QED BY <2>1 DEF Additions
  <2> QED BY <2>2 DEF SumFunction
<1> HIDE DEF lack, over, new
<1>9. SumFunctionOnSet(over, D) = 0
  <2>1. \A s \in D : over[s] = 0
    BY <1>3
  <2> QED BY <1>1, <2>1, SumZeros
<1>10. SumFunctionOnSet(lack, D) \in Nat /\ \A s \in D : lack[s] <= SumFunctionOnSet(lack, D)
  <2>1. \A s \in D : lack[s] \in Nat
    BY <1>3
  <2> QED BY <1>1, <2>1, SumPositive
<1>11. Shortage(items, stock) = 0 => \A s \in D : new[s].qty = new[s].asked
  <2> SUFFICES ASSUME Shortage(items, stock) = 0, NEW s \in D PROVE new[s].qty = new[s].asked
    OBVIOUS
  <2>1. lack[s] <= 0
    BY <1>6, <1>10
  <2> QED BY <1>3, <2>1
<1> QED BY <1>4, <1>5, <1>6, <1>7, <1>8, <1>9, <1>10, <1>11 DEF new

\* A grade that grows from what was asked adds what it grew by, and cuts nothing.
LEMMA GrownAmounts ==
  ASSUME NEW old, IsGrade(old), \A s \in DOMAIN old : old[s].qty = old[s].asked,
         NEW new, Grows(old, new)
  PROVE  /\ Additions("com", new) = Quantity(new) - Quantity(old)
         /\ Cuts("com", new) = 0
<1> DEFINE D == DOMAIN old
           f == [s \in D |-> Excess(new[s].qty, new[s].asked)]
           e == [s \in D |-> Excess(new[s].asked, new[s].qty)]
           h == [s \in D |-> new[s].qty]
           k == [s \in D |-> old[s].qty]
<1>1. IsFiniteSet(D) /\ Quantity(old) \in Nat
  BY GradeSums
<1>2. \A s \in D : /\ f[s] \in Int /\ k[s] \in Int /\ h[s] = 1 * f[s] + k[s]
                   /\ e[s] = 0
  <2> TAKE s \in D
  <2>1. /\ old[s] \in Item /\ new[s] \in Item /\ old[s].qty = old[s].asked
        /\ new[s].qty >= old[s].qty /\ new[s].asked = old[s].asked
    BY DEF IsGrade, Grows
  <2> QED BY <2>1 DEF Item, Excess, Positive
<1>3. DOMAIN new = D
  BY DEF Grows
<1>4. /\ Additions("com", new) = SumFunctionOnSet(f, D) /\ Cuts("com", new) = SumFunctionOnSet(e, D)
      /\ Quantity(new) = SumFunctionOnSet(h, D) /\ Quantity(old) = SumFunctionOnSet(k, D)
  BY <1>3 DEF Additions, Cuts, Quantity, SumFunction
<1> HIDE DEF f, e, h, k
<1>5. SumFunctionOnSet(h, D) = 1 * SumFunctionOnSet(f, D) + SumFunctionOnSet(k, D)
  <2>1. 1 \in Int /\ Combines(h, 1, f, k, D)
    BY <1>2 DEF Combines
  <2> QED BY <1>1, <2>1, SumLinear
<1>6. SumFunctionOnSet(e, D) = 0
  BY <1>1, <1>2, SumZeros
<1>7. SumFunctionOnSet(f, D) \in Int /\ SumFunctionOnSet(k, D) \in Int
  <2>1. (\A s \in D : f[s] \in Int) /\ (\A s \in D : k[s] \in Int)
    BY <1>2
  <2> QED BY <1>1, <2>1, SumFacts
<1> QED BY <1>4, <1>5, <1>6, <1>7

\* What the engine may answer for an order: a reason for each product that it leaves out,
\* the same order for the ones it reserves, and both budgets respected.
Decides(grades, d, kind, additions, cuts) ==
  /\ DOMAIN d.grades \subseteq DOMAIN grades
  /\ d.grades \in [DOMAIN d.grades -> Items]
  /\ DOMAIN d.reason = (DOMAIN grades) \ DOMAIN d.grades
  /\ \A p \in DOMAIN d.reason : d.reason[p] \in Reason
  /\ \A p \in DOMAIN d.grades : SameOrder(grades[p], d.grades[p])
  /\ SumFunction([p \in DOMAIN d.grades |-> Additions(kind, d.grades[p])]) <= additions
  /\ SumFunction([p \in DOMAIN d.grades |-> Cuts(kind, d.grades[p])]) <= cuts

\* What the engine is called with.
EngineInput(grades, stock) ==
  /\ DOMAIN grades \subseteq Product
  /\ \A p \in DOMAIN grades : IsRaw(grades[p])
  /\ stock \in [Product -> [Size -> Nat]]

\* aplicar_tudo_ou_nada neither adds nor cuts, so it keeps any budget.
LEMMA NothingDecides ==
  ASSUME NEW grades, NEW stock, EngineInput(grades, stock), NEW blacklisted, NEW kind,
         NEW additions, additions \in Nat, NEW cuts, cuts \in Nat
  PROVE  Decides(grades, AllOrNothing(grades, stock, blacklisted), kind, additions, cuts)
<1> DEFINE d == AllOrNothing(grades, stock, blacklisted)
           whole == {p \in DOMAIN grades : ~HasHole(grades[p], stock[p])}
           full == {p \in whole : IsComplete(grades[p], stock[p])}
           f == [p \in full |-> Additions(kind, d.grades[p])]
           e == [p \in full |-> Cuts(kind, d.grades[p])]
<1>1. full \subseteq DOMAIN grades
  OBVIOUS
<1>2. IsFiniteSet(full)
  BY <1>1, EngineAssumption, FS_Subset DEF EngineInput
<1>3. /\ DOMAIN d.grades = full /\ \A p \in full : d.grades[p] = grades[p]
      /\ d.grades = [p \in full |-> grades[p]]
  BY DEF AllOrNothing, Restrict
<1>4. DOMAIN d.reason = (DOMAIN grades) \ full /\ \A p \in DOMAIN d.reason : d.reason[p] \in Reason
  BY DEF AllOrNothing, Reason
<1> HIDE DEF d, full
<1>5. \A p \in full :
        /\ IsGrade(grades[p])
        /\ \A s \in DOMAIN grades[p] : grades[p][s].qty = grades[p][s].asked
  BY <1>1 DEF EngineInput, IsRaw
<1>6. d.grades \in [full -> Items]
  BY <1>3, <1>5, ItemsAreGrades
<1>7. (\A p \in full : f[p] = 0) /\ (\A p \in full : e[p] = 0)
  BY <1>3, <1>5, EvenAmounts
<1>8. SumFunction(f) = SumFunctionOnSet(f, full) /\ SumFunction(e) = SumFunctionOnSet(e, full)
  BY DEF SumFunction
<1> HIDE DEF f, e
<1>9. SumFunction(f) = 0 /\ SumFunction(e) = 0
  BY <1>2, <1>7, <1>8, SumZeros
<1>10. \A p \in full : SameOrder(grades[p], d.grades[p])
  BY <1>3 DEF SameOrder
<1> QED BY <1>1, <1>3, <1>4, <1>6, <1>9, <1>10 DEF Decides, f, e, d

\* The products without a hole in their grade.
WholeOf(grades, stock) == {p \in DOMAIN grades : ~HasHole(grades[p], stock[p])}

\* What they miss.
ShortagesOf(grades, stock) == [p \in WholeOf(grades, stock) |-> Shortage(grades[p], stock[p])]

\* S serves as many products as a budget of cuts allows.
Served(grades, stock, cuts, S) ==
  /\ S \in SUBSET WholeOf(grades, stock)
  /\ SumFunctionOnSet(ShortagesOf(grades, stock), S) <= cuts
  /\ \A T \in SUBSET WholeOf(grades, stock) :
       SumFunctionOnSet(ShortagesOf(grades, stock), T) <= cuts => Cardinality(T) <= Cardinality(S)

\* Pass 1 serves them.
LEMMA GrantedServe ==
  ASSUME NEW grades, NEW stock, EngineInput(grades, stock), NEW cuts, cuts \in Nat
  PROVE  Served(grades, stock, cuts, FirstPass(ShortagesOf(grades, stock), cuts).granted)
<1> DEFINE S == WholeOf(grades, stock)
           f == ShortagesOf(grades, stock)
<1>1. S \subseteq DOMAIN grades /\ DOMAIN f = S /\ \A p \in S : f[p] = Shortage(grades[p], stock[p])
  BY DEF WholeOf, ShortagesOf
<1>2. S \subseteq Product /\ S \subseteq Nat /\ IsFiniteSet(S)
  BY <1>1, EngineAssumption, FS_Subset DEF EngineInput
<1>3. \A p \in S : f[p] \in Nat
  <2> TAKE p \in S
  <2>1. IsRaw(grades[p]) /\ stock[p] \in [Size -> Nat]
    BY <1>1, <1>2 DEF EngineInput
  <2> QED BY <1>1, <2>1, FittedFacts
<1> HIDE DEF S, f
<1>4. /\ FirstPass(f, cuts).granted \in SUBSET S
      /\ SumFunctionOnSet(f, FirstPass(f, cuts).granted) <= cuts
      /\ \A T \in SUBSET S : SumFunctionOnSet(f, T) <= cuts =>
            Cardinality(T) <= Cardinality(FirstPass(f, cuts).granted)
  <2>1. /\ IsFiniteSet(DOMAIN f) /\ DOMAIN f \subseteq Nat
        /\ \A p \in DOMAIN f : f[p] \in Nat
    BY <1>1, <1>2, <1>3
  <2> QED BY <1>1, <2>1, FirstPassServesMost
<1> QED BY <1>4 DEF Served, S, f

\* The policy ADEQUAR, for every order, stock and pair of budgets: the two passes together
\* add and cut no more pieces than the budgets have, answer for every product, and reserve as
\* many products as the budget of cuts allows.
THEOREM AdequateKeepsBudgets ==
  ASSUME NEW grades, NEW stock, EngineInput(grades, stock),
         NEW additions, additions \in Nat, NEW cuts, cuts \in Nat
  PROVE  /\ Decides(grades, Adequate(grades, stock, additions, cuts), "com", additions, cuts)
         /\ Served(grades, stock, cuts, DOMAIN Adequate(grades, stock, additions, cuts).grades)
<1> DEFINE d == Adequate(grades, stock, additions, cuts)
           whole == WholeOf(grades, stock)
           shortage == ShortagesOf(grades, stock)
           G == FirstPass(shortage, cuts).granted
           fitted == [p \in G |-> Fitted(grades[p], stock[p])]
           ready == {p \in G : shortage[p] = 0}
           new == SecondPass(fitted, stock, ready, additions)
           f == [p \in G |-> Additions("com", new[p])]
           e == [p \in G |-> Cuts("com", new[p])]
<1>1. Served(grades, stock, cuts, G)
  BY GrantedServe
<1>2. /\ d.grades = new
      /\ DOMAIN d.reason = (DOMAIN grades) \ G
      /\ \A p \in DOMAIN d.reason : d.reason[p] \in Reason
  <2>1. d = [grades |-> new,
             reason |-> [p \in DOMAIN grades \ G |->
                           IF p \in whole THEN "sem_estoque" ELSE "furo_grade"]]
    BY Zenon DEF Adequate, WholeOf, ShortagesOf
  <2> HIDE DEF d, new, G, whole
  <2> QED BY <2>1 DEF Reason
<1> HIDE DEF d, G
<1>3. G \subseteq whole /\ G \subseteq DOMAIN grades /\ IsFiniteSet(G) /\ G \subseteq Product
  <2>1. G \subseteq whole
    BY <1>1 DEF Served
  <2> QED BY <2>1, EngineAssumption, FS_Subset DEF EngineInput, WholeOf
<1>4. \A p \in G : /\ shortage[p] = Shortage(grades[p], stock[p])
                   /\ IsRaw(grades[p]) /\ stock[p] \in [Size -> Nat] /\ stock[p] \in [Size -> Int]
  BY <1>3 DEF ShortagesOf, EngineInput
<1>5. \A p \in G :
        /\ fitted[p] = Fitted(grades[p], stock[p])
        /\ IsGrade(fitted[p]) /\ SameOrder(grades[p], fitted[p])
        /\ Cuts("com", fitted[p]) = shortage[p] /\ shortage[p] \in Nat
        /\ Additions("com", fitted[p]) = 0
        /\ p \in ready => \A s \in DOMAIN grades[p] : fitted[p][s].qty = fitted[p][s].asked
  <2> TAKE p \in G
  <2>1. IsRaw(grades[p]) /\ stock[p] \in [Size -> Nat] /\ shortage[p] = Shortage(grades[p], stock[p])
    BY <1>4
  <2>2. fitted[p] = Fitted(grades[p], stock[p])
    OBVIOUS
  <2> HIDE DEF fitted, shortage
  <2> QED BY <2>1, <2>2, FittedFacts
<1>6. fitted \in [G -> Items] /\ ready \subseteq G
  <2>1. \A p \in G : fitted[p] \in Items
    BY <1>5, ItemsAreGrades
  <2> QED BY <2>1
<1> HIDE DEF fitted, ready, shortage, new
<1>7. /\ new \in [G -> Items]
      /\ \A p \in G : Grows(fitted[p], new[p])
      /\ \A p \in G \ ready : new[p] = fitted[p]
      /\ Pieces(new, G) <= Pieces(fitted, G) + additions
  <2>1. stock \in [Product -> [Size -> Int]]
    BY DEF EngineInput
  <2> QED BY <1>3, <1>6, <2>1, SecondPassFacts DEF new
<1>8. \A p \in G : SameOrder(grades[p], new[p])
  BY <1>5, <1>7 DEF SameOrder, Grows
<1>9. \A p \in G : /\ IsGrade(new[p]) /\ IsGrade(fitted[p])
                   /\ Additions("com", new[p]) = Quantity(new[p]) - Quantity(fitted[p])
                   /\ Cuts("com", new[p]) = shortage[p]
  <2> TAKE p \in G
  <2>0. IsGrade(new[p]) /\ IsGrade(fitted[p]) /\ Quantity(fitted[p]) \in Nat
    BY <1>5, <1>7, ItemsAreGrades, GradeSums
  <2>1. CASE p \in ready
    <3>1. \A s \in DOMAIN fitted[p] : fitted[p][s].qty = fitted[p][s].asked
      BY <1>5, <2>1 DEF SameOrder
    <3>2. Grows(fitted[p], new[p])
      BY <1>7
    <3>3. Additions("com", new[p]) = Quantity(new[p]) - Quantity(fitted[p]) /\ Cuts("com", new[p]) = 0
      BY <2>0, <3>1, <3>2, GrownAmounts
    <3> QED BY <2>0, <2>1, <3>3 DEF ready
  <2>2. CASE p \notin ready
    <3>1. new[p] = fitted[p]
      BY <1>7, <2>2
    <3> QED BY <1>5, <2>0, <3>1
  <2> QED BY <2>1, <2>2
<1>10. SumFunctionOnSet(e, G) = SumFunctionOnSet(shortage, G)
  <2>1. \A p \in G : e[p] \in Int /\ e[p] = shortage[p]
    BY <1>5, <1>9
  <2> HIDE DEF e
  <2> QED BY <1>3, <2>1, SumAlike
<1>11. SumFunctionOnSet(e, G) <= cuts
  BY <1>1, <1>10 DEF Served, shortage
<1>12. SumFunctionOnSet(f, G) <= additions
  <2> DEFINE h == [p \in G |-> Quantity(new[p])]
             k == [p \in G |-> Quantity(fitted[p])]
  <2>1. \A p \in G : f[p] \in Int /\ k[p] \in Int /\ h[p] = 1 * f[p] + k[p]
    <3> TAKE p \in G
    <3>1. Quantity(new[p]) \in Nat /\ Quantity(fitted[p]) \in Nat
      BY <1>9, GradeSums
    <3> QED BY <1>9, <3>1
  <2>2. Pieces(new, G) = SumFunctionOnSet(h, G) /\ Pieces(fitted, G) = SumFunctionOnSet(k, G)
    BY DEF Pieces
  <2> HIDE DEF h, k, f
  <2>3. SumFunctionOnSet(h, G) = 1 * SumFunctionOnSet(f, G) + SumFunctionOnSet(k, G)
    <3>1. IsFiniteSet(G) /\ 1 \in Int /\ Combines(h, 1, f, k, G)
      BY <1>3, <2>1 DEF Combines
    <3> QED BY <3>1, SumLinear
  <2>4. SumFunctionOnSet(f, G) \in Int /\ SumFunctionOnSet(k, G) \in Int
    <3>1. (\A p \in G : f[p] \in Int) /\ (\A p \in G : k[p] \in Int)
      BY <2>1
    <3> QED BY <1>3, <3>1, SumFacts
  <2>5. SumFunctionOnSet(h, G) <= SumFunctionOnSet(k, G) + additions
    BY <1>7, <2>2
  <2> QED BY <2>3, <2>4, <2>5
<1>13. SumFunction(f) = SumFunctionOnSet(f, G) /\ SumFunction(e) = SumFunctionOnSet(e, G)
  BY DEF SumFunction
<1>14. DOMAIN d.grades = G
  BY <1>2, <1>7
<1>15. Decides(grades, d, "com", additions, cuts)
  <2>1. /\ SumFunction([p \in DOMAIN d.grades |-> Additions("com", d.grades[p])]) <= additions
        /\ SumFunction([p \in DOMAIN d.grades |-> Cuts("com", d.grades[p])]) <= cuts
    BY <1>2, <1>11, <1>12, <1>13, <1>14
  <2> QED BY <1>2, <1>3, <1>7, <1>8, <1>14, <2>1 DEF Decides
<1> QED BY <1>1, <1>14, <1>15 DEF d

-----------------------------------------------------------------------------
(* The state.                                                               *)

\* The rows of a plan.
Rows == UNION {[X -> Items] : X \in SUBSET Pair}

\* Its reasons.
Reasons == UNION {[X -> Reason] : X \in SUBSET Pair}

\* What is left of both budgets.
Budget == [additions : Nat, cuts : Nat]

\* A job with a plan, and one without.
PlanJob == [state : {"planning", "planned"}, count : Nat, locked : BOOLEAN,
            kind : {"com", "sem"}, queue : Seq(Order),
            stock : [Product -> [Size -> Nat]], rest : [Order -> Budget],
            rows : Rows, deferred : Reasons]

OtherJob == [state : {"idle", "failed"}, count : Nat, locked : {FALSE}]

\* The type invariant.  No reservation is of a day to come, no row of the virtual stock
\* newer than the photo, and planning holds the lock.
TypeOK ==
  /\ pending \in Pending /\ client \in Clients
  /\ photo \in [stock : [Product -> [Size -> Int]], day : Nat]
  /\ today \in Nat /\ photo.day <= today
  /\ reservation \in [Pair -> Reservation \cup {None}]
  /\ \A x \in Pair : reservation[x] # None => reservation[x].day <= today
  /\ standby \in [Pair -> Reason \cup {None}]
  /\ DOMAIN linx = Pair
  /\ virtual \in [Keys -> [qty : Nat, day : Nat] \cup {None}]
  /\ \A k \in Keys : virtual[k] # None => virtual[k].day <= photo.day
  /\ job \in PlanJob \cup OtherJob
  /\ job.state = "planning" => job.locked
  /\ edits \in Nat

\* Reservations of all the pairs.
Book == [Pair -> Reservation \cup {None}]

\* Everything that is summed or counted is finite.
LEMMA Finite ==
  /\ IsFiniteSet(Order) /\ IsFiniteSet(Product) /\ IsFiniteSet(Size)
  /\ \A S : S \subseteq Order \/ S \subseteq Product => IsFiniteSet(S)
BY EngineAssumption, AllocationAssumption, PositionIsOne, FS_Subset

\* None is no reservation, no reason and no row.
LEMMA NoneIsNothing ==
  None \notin Reservation /\ None \notin Reason /\ None \notin [qty : Nat, day : Nat]
BY AllocationAssumption

\* A reservation in the book is typed.
LEMMA BookEntry ==
  ASSUME NEW r, r \in Book, NEW x \in Pair, r[x] # None
  PROVE  /\ r[x] \in Reservation /\ IsGrade(r[x].items) /\ r[x].items \in Items
         /\ r[x].day \in Nat /\ r[x].kind \in {"com", "sem"}
<1>1. r[x] \in Reservation
  BY DEF Book
<1> QED BY <1>1, ItemsAreGrades DEF Reservation

\* A grade that an editor asks for names pieces to share values by.
LEMMA SheetWeighs ==
  ASSUME NEW sheet \in Sheets
  PROVE  /\ Weighs(sheet) /\ SumFunction(sheet) \in Nat
         /\ \A s \in DOMAIN sheet : sheet[s] \in Nat /\ sheet[s] > 0
         /\ IsFiniteSet(DOMAIN sheet)
<1>1. PICK T \in SUBSET Size : T # {} /\ sheet \in [T -> Nat \ {0}]
  BY AllocationAssumption
<1>2. IsFiniteSet(T) /\ DOMAIN sheet = T /\ \A s \in T : sheet[s] \in Nat /\ sheet[s] > 0
  BY <1>1, Finite, FS_Subset
<1>3. SumFunctionOnSet(sheet, T) \in Nat /\ \A s \in T : sheet[s] <= SumFunctionOnSet(sheet, T)
  BY <1>2, SumPositive
<1>4. SumFunction(sheet) = SumFunctionOnSet(sheet, T)
  BY <1>2 DEF SumFunction
<1>5. SumFunctionOnSet(sheet, T) > 0
  <2>1. PICK s \in T : TRUE
    BY <1>1
  <2> QED BY <1>2, <1>3, <2>1
<1> QED BY <1>2, <1>3, <1>4, <1>5 DEF Weighs

\* montar_grade_atualizada: the new grade has the pieces of the sheet, and the value that
\* was ordered is kept in total, because both shares add up; without adequation so is what
\* was asked for.
LEMMA RegradedFacts ==
  ASSUME NEW items, IsGrade(items), NEW kind, NEW sheet \in Sheets
  PROVE  LET new == Regraded(items, kind, sheet)
         IN  /\ IsGrade(new) /\ DOMAIN new = DOMAIN sheet
             /\ \A s \in DOMAIN sheet : new[s].qty = sheet[s]
             /\ Quantity(new) = SumFunction(sheet)
             /\ Value(new) - Diff(new) = Value(items) - Diff(items)
             /\ kind = "sem" => Asked(new) = Asked(items)
             /\ kind # "sem" => \A s \in DOMAIN new : new[s].qty = new[s].asked
<1> DEFINE D == DOMAIN sheet
           value == Shares(Value(items), sheet)
           original == Shares(Value(items) - Diff(items), sheet)
           asked == IF kind = "sem" THEN Shares(Asked(items), sheet) ELSE sheet
           new == Regraded(items, kind, sheet)
           v == [s \in D |-> new[s].value]
           d == [s \in D |-> new[s].diff]
<1>1. /\ Value(items) \in Int /\ Diff(items) \in Int /\ Asked(items) \in Nat
      /\ Value(items) - Diff(items) \in Int /\ Asked(items) \in Int
  BY GradeSums
<1>2. /\ Weighs(sheet) /\ IsFiniteSet(D) /\ D \subseteq Size
      /\ \A s \in D : sheet[s] \in Nat
  BY SheetWeighs DEF Weighs
<1>3. \A s \in D : value[s] \in Int
  BY <1>1, <1>2, SharesSumToTotal
<1>4. DOMAIN value = D /\ SumFunction(value) = Value(items)
  BY <1>1, <1>2, SharesSumToTotal
<1>5. /\ \A s \in D : original[s] \in Int
      /\ DOMAIN original = D /\ SumFunction(original) = Value(items) - Diff(items)
  BY <1>1, <1>2, SharesSumToTotal
<1>6. /\ \A s \in D : asked[s] \in Nat
      /\ DOMAIN asked = D /\ (kind = "sem" => SumFunction(asked) = Asked(items))
      /\ kind # "sem" => asked = sheet
  <2>1. CASE kind = "sem"
    BY <1>1, <1>2, <2>1, SharesSumToTotal
  <2>2. CASE kind # "sem"
    BY <1>2, <2>2
  <2> QED BY <2>1, <2>2
<1>7. new = [s \in D |-> [qty |-> sheet[s], asked |-> asked[s],
                          value |-> value[s], diff |-> value[s] - original[s]]]
  BY Zenon DEF Regraded
<1> HIDE DEF value, original, asked, new
<1>8. \A s \in D : /\ new[s] \in Item /\ new[s].qty = sheet[s] /\ new[s].asked = asked[s]
                   /\ new[s].value = value[s] /\ new[s].diff = value[s] - original[s]
  BY <1>2, <1>3, <1>5, <1>6, <1>7 DEF Item
<1>9. DOMAIN new = D /\ IsGrade(new)
  BY <1>2, <1>7, <1>8 DEF IsGrade
<1>10. Quantity(new) = SumFunction(sheet)
  <2>1. [s \in DOMAIN new |-> new[s].qty] = [s \in D |-> sheet[s]]
    BY <1>8, <1>9
  <2>2. Quantity(new) = SumFunctionOnSet([s \in D |-> sheet[s]], D)
    BY <2>1 DEF Quantity, SumFunction
  <2> DEFINE f == [s \in D |-> sheet[s]]
  <2>3. \A s \in D : f[s] \in Int /\ f[s] = sheet[s]
    BY <1>2
  <2>4. SumFunctionOnSet(f, D) = SumFunctionOnSet(sheet, D)
    <3> HIDE DEF f
    <3> QED BY <1>2, <2>3, SumAlike
  <2> QED BY <2>2, <2>4 DEF SumFunction
<1>11. kind = "sem" => Asked(new) = Asked(items)
  <2> SUFFICES ASSUME kind = "sem" PROVE Asked(new) = Asked(items)
    OBVIOUS
  <2> DEFINE f == [s \in D |-> new[s].asked]
  <2>1. Asked(new) = SumFunctionOnSet(f, D)
    BY <1>9 DEF Asked, SumFunction
  <2>2. \A s \in D : f[s] \in Int /\ f[s] = asked[s]
    BY <1>6, <1>8
  <2> HIDE DEF f
  <2>3. SumFunctionOnSet(f, D) = SumFunctionOnSet(asked, D)
    BY <1>2, <2>2, SumAlike
  <2> QED BY <1>6, <2>1, <2>3 DEF SumFunction
<1>12. Value(new) - Diff(new) = Value(items) - Diff(items)
  <2>1. Value(new) = SumFunctionOnSet(v, D) /\ Diff(new) = SumFunctionOnSet(d, D)
    BY <1>9 DEF Value, Diff, SumFunction
  <2>2. \A s \in D : d[s] \in Int /\ original[s] \in Int /\ v[s] = 1 * d[s] + original[s]
    BY <1>3, <1>5, <1>8
  <2> HIDE DEF v, d
  <2>3. SumFunctionOnSet(v, D) = 1 * SumFunctionOnSet(d, D) + SumFunctionOnSet(original, D)
    <3>1. IsFiniteSet(D) /\ 1 \in Int /\ Combines(v, 1, d, original, D)
      BY <1>2, <2>2 DEF Combines
    <3> HIDE DEF D
    <3> QED BY <3>1, SumLinear
  <2>4. SumFunctionOnSet(original, D) = Value(items) - Diff(items)
    BY <1>5 DEF SumFunction
  <2>5. Value(new) \in Int /\ Diff(new) \in Int
    BY <1>9, GradeSums
  <2> QED BY <1>1, <2>1, <2>3, <2>4, <2>5
<1>13. kind # "sem" => \A s \in D : new[s].qty = new[s].asked
  BY <1>6, <1>8
<1> QED BY <1>8, <1>9, <1>10, <1>11, <1>12, <1>13 DEF new

\* _commitar_par leaves a stock.
LEMMA CommittedType ==
  ASSUME NEW G, G \subseteq Product, NEW grades, grades \in [G -> Items],
         NEW stock, stock \in [Product -> [Size -> Nat]]
  PROVE  Committed(grades, stock) \in [Product -> [Size -> Nat]]
<1>1. ASSUME NEW p \in Product
      PROVE  (IF p \notin DOMAIN grades THEN stock[p]
              ELSE [s \in Size |-> IF s \in DOMAIN grades[p]
                            THEN Positive(stock[p][s] - grades[p][s].qty)
                            ELSE stock[p][s]]) \in [Size -> Nat]
  <2>1. CASE p \notin DOMAIN grades
    BY <2>1
  <2>2. CASE p \in DOMAIN grades
    <3>1. IsGrade(grades[p])
      BY <2>2, ItemsAreGrades
    <3>2. \A s \in Size : s \in DOMAIN grades[p] => grades[p][s].qty \in Nat
      BY <3>1 DEF IsGrade, Item
    <3>3. \A s \in Size : stock[p][s] \in Nat
      OBVIOUS
    <3>4. \A s \in Size : s \in DOMAIN grades[p] => Positive(stock[p][s] - grades[p][s].qty) \in Nat
      BY <3>2, <3>3 DEF Positive
    <3> QED BY <2>2, <3>3, <3>4
  <2> QED BY <2>1, <2>2
<1> QED BY <1>1 DEF Committed

\* The orders whose reservation of p takes size s from the photo of this day.
Fresh(r, day, p, s) == {o \in Order : /\ r[<<o, p>>] # None
                                      /\ r[<<o, p>>].day >= day
                                      /\ s \in DOMAIN r[<<o, p>>].items}

\* What they take, as a sum over them.
LEMMA TakenFacts ==
  ASSUME NEW r, r \in Book, NEW day, NEW p \in Product, NEW s
  PROVE  /\ Taken(r, day, p, s) =
              SumFunctionOnSet([o \in Fresh(r, day, p, s) |-> r[<<o, p>>].items[s].qty],
                               Fresh(r, day, p, s))
         /\ Taken(r, day, p, s) \in Nat
         /\ IsFiniteSet(Fresh(r, day, p, s))
         /\ \A o \in Fresh(r, day, p, s) : r[<<o, p>>].items[s].qty \in Nat
<1> DEFINE F == Fresh(r, day, p, s)
           f == [o \in F |-> r[<<o, p>>].items[s].qty]
<1>1. IsFiniteSet(F)
  BY Finite DEF Fresh
<1>2. \A o \in F : r[<<o, p>>].items[s].qty \in Nat
  <2> TAKE o \in F
  <2>1. <<o, p>> \in Pair /\ r[<<o, p>>] # None /\ s \in DOMAIN r[<<o, p>>].items
    BY DEF Fresh, Pair
  <2>2. IsGrade(r[<<o, p>>].items)
    BY <2>1, BookEntry
  <2> QED BY <2>1, <2>2 DEF IsGrade, Item
<1>3. Taken(r, day, p, s) = SumFunctionOnSet(f, F)
  BY DEF Taken, Fresh, SumFunction
<1>4. SumFunctionOnSet(f, F) \in Nat
  <2>1. \A o \in F : f[o] \in Nat
    BY <1>2
  <2> HIDE DEF f
  <2> QED BY <1>1, <2>1, SumPositive
<1> QED BY <1>1, <1>2, <1>3, <1>4

\* The virtual stock is never negative.
LEMMA LeftIsNat ==
  ASSUME TypeOK, NEW r, r \in Book, NEW p \in Product, NEW s \in Size
  PROVE  Left(r, p, s) \in Nat
<1>1. Taken(r, photo.day, p, s) \in Nat
  BY TakenFacts
<1>2. photo.stock[p][s] \in Int
  BY DEF TypeOK
<1> QED BY <1>1, <1>2 DEF Left, Positive

\* The rows of pedidos are a grade as it was ordered.
LEMMA GradeIsRaw ==
  ASSUME pending \in Pending, NEW o \in Order, NEW p \in Product, pending[<<o, p>>] # None
  PROVE  IsRaw(Grade(o, p)) /\ IsGrade(Grade(o, p))
<1>1. <<o, p>> \in Pair
  BY DEF Pair
<1>2. /\ \E T \in SUBSET Size : pending[<<o, p>>] \in [T -> Nat]
      /\ \A s \in DOMAIN pending[<<o, p>>] : Worth(p, s, pending[<<o, p>>][s]) \in Int
  BY <1>1, AllocationAssumption
<1>3. PICK T \in SUBSET Size : pending[<<o, p>>] \in [T -> Nat]
  BY <1>2
<1> DEFINE g == Grade(o, p)
<1>4. /\ g = [s \in T |-> [qty |-> pending[<<o, p>>][s], asked |-> pending[<<o, p>>][s],
                           value |-> Worth(p, s, pending[<<o, p>>][s]), diff |-> 0]]
      /\ \A s \in T : pending[<<o, p>>][s] \in Nat /\ Worth(p, s, pending[<<o, p>>][s]) \in Int
  BY <1>2, <1>3 DEF Grade
<1> HIDE DEF g
<1>5. \A s \in T : g[s] \in Item /\ g[s].qty = g[s].asked /\ g[s].diff = 0
  BY <1>4 DEF Item
<1>6. DOMAIN g = T
  BY <1>4
<1>7. IsGrade(g)
  BY <1>4, <1>5, <1>6 DEF IsGrade
<1> QED BY <1>5, <1>6, <1>7 DEF IsRaw, g

-----------------------------------------------------------------------------
(* The queue of a plan.                                                     *)

\* The products of an order with some stock.
Offered(o) == {p \in ProductsOf(o) : \E s \in Size : Available[p][s] > 0}

\* What they are worth.
ScoreOf(o) == SumFunction([p \in Offered(o) |-> Value(Grade(o, p))])

\* _prioridade: order a comes before order b.
Sooner(a, b) ==
  \/ ScoreOf(a) > ScoreOf(b)
  \/ /\ ScoreOf(a) = ScoreOf(b)
     /\ \/ Cardinality(Offered(a)) > Cardinality(Offered(b))
        \/ Cardinality(Offered(a)) = Cardinality(Offered(b)) /\ a < b

\* The orders in the queue.
Waiting == {o \in Order : HasCredit(o) /\ ProductsOf(o) # {}}

\* The same order as a relation.
SoonerPairs == {x \in Waiting \X Waiting : Sooner(x[1], x[2])}

\* R compares by f, then by e, then by number.
ByKeys(R, S, f, e) ==
  /\ S \subseteq Nat
  /\ \A o \in S : f[o] \in Int /\ e[o] \in Nat
  /\ \A a, b \in S : <<a, b>> \in R <=> \/ f[a] > f[b]
                                        \/ f[a] = f[b] /\ e[a] > e[b]
                                        \/ f[a] = f[b] /\ e[a] = e[b] /\ a < b

\* Such a relation is a strict total order.
LEMMA KeysAreStrict ==
  ASSUME NEW S, NEW f, NEW e, NEW R, ByKeys(R, S, f, e)
  PROVE  StrictOrder(R, S)
<1>1. \A a \in S : f[a] \in Int /\ e[a] \in Int /\ a \in Int
  BY DEF ByKeys
<1>2. \A a \in S : <<a, a>> \notin R
  BY <1>1 DEF ByKeys
<1>3. ASSUME NEW a \in S, NEW b \in S, a # b PROVE <<a, b>> \in R \/ <<b, a>> \in R
  <2>1. f[a] > f[b] \/ f[a] < f[b] \/ f[a] = f[b]
    BY <1>1
  <2>2. e[a] > e[b] \/ e[a] < e[b] \/ e[a] = e[b]
    BY <1>1
  <2>3. a < b \/ b < a
    BY <1>1, <1>3
  <2> QED BY <2>1, <2>2, <2>3, <1>1 DEF ByKeys
<1>4. ASSUME NEW a \in S, NEW b \in S, NEW c \in S, <<a, b>> \in R, <<b, c>> \in R
      PROVE  <<a, c>> \in R
  <2>1. \/ f[a] > f[b]
        \/ f[a] = f[b] /\ e[a] > e[b]
        \/ f[a] = f[b] /\ e[a] = e[b] /\ a < b
    BY <1>4 DEF ByKeys
  <2>2. \/ f[b] > f[c]
        \/ f[b] = f[c] /\ e[b] > e[c]
        \/ f[b] = f[c] /\ e[b] = e[c] /\ b < c
    BY <1>4 DEF ByKeys
  <2>3. \/ f[a] > f[c]
        \/ f[a] = f[c] /\ e[a] > e[c]
        \/ f[a] = f[c] /\ e[a] = e[c] /\ a < c
    BY <1>1, <2>1, <2>2
  <2> QED BY <2>3 DEF ByKeys
<1> QED BY <1>2, <1>3, <1>4 DEF StrictOrder

\* The queue lists the waiting orders by priority: _prioridade always gives one.
LEMMA PriorityEnumerates ==
  ASSUME TypeOK
  PROVE  Enumerates(Priority, Waiting, SoonerPairs) /\ StrictOrder(SoonerPairs, Waiting)
         /\ IsFiniteSet(Waiting)
<1> DEFINE S == Waiting
           R == SoonerPairs
           c == Priority
           f == [o \in S |-> ScoreOf(o)]
           e == [o \in S |-> Cardinality(Offered(o))]
           Ordered(k) == \A i, j \in DOMAIN k : i < j => Sooner(k[i], k[j])
<1>0. S \subseteq Nat /\ IsFiniteSet(S) /\ S \subseteq Order
  BY Finite, AllocationAssumption DEF Waiting
<1>1. \A o \in S : f[o] \in Int /\ e[o] \in Nat /\ f[o] = ScoreOf(o) /\ e[o] = Cardinality(Offered(o))
  <2> TAKE o \in S
  <2> DEFINE P == Offered(o)
             g == [p \in P |-> Value(Grade(o, p))]
  <2>1. P \subseteq Product /\ IsFiniteSet(P) /\ Cardinality(P) \in Nat
    BY Finite, FS_CardinalityType DEF Offered, ProductsOf
  <2>2. \A p \in P : g[p] \in Int
    <3> TAKE p \in P
    <3>1. pending[<<o, p>>] # None /\ p \in Product /\ o \in Order /\ pending \in Pending
      BY <1>0 DEF Offered, ProductsOf, TypeOK
    <3>2. IsGrade(Grade(o, p))
      BY <3>1, GradeIsRaw
    <3>3. Value(Grade(o, p)) \in Int
      BY <3>2, GradeSums
    <3> QED BY <3>3
  <2>3. SumFunction(g) = SumFunctionOnSet(g, P)
    BY DEF SumFunction
  <2>4. SumFunction(g) \in Int
    <3> HIDE DEF g, P
    <3> QED BY <2>1, <2>2, <2>3, SumFacts
  <2> QED BY <2>1, <2>4 DEF ScoreOf
<1>2. \A a, b \in S : <<a, b>> \in R <=> Sooner(a, b)
  BY DEF SoonerPairs
<1>3. ByKeys(R, S, f, e)
  <2> HIDE DEF f, e, R, S
  <2> QED BY <1>0, <1>1, <1>2 DEF Sooner, ByKeys
<1>4. StrictOrder(R, S)
  BY <1>3, KeysAreStrict
<1>5. PICK q : Enumerates(q, S, R)
  BY <1>0, <1>4, CanEnumerate
<1>6. q \in SetToSeqs(S)
  BY <1>0, <1>4, <1>5, Enumeration
<1>7. DOMAIN q = 1..Cardinality(S) /\ \A i \in DOMAIN q : q[i] \in S
  BY <1>5 DEF Enumerates
<1>8. Ordered(q)
  <2> HIDE DEF R, S
  <2> QED BY <1>2, <1>5, <1>7 DEF Enumerates
<1>9. c \in SetToSeqs(S) /\ Ordered(c)
  <2> DEFINE Good(k) == k \in SetToSeqs(S) /\ Ordered(k)
  <2>1. c = CHOOSE k : Good(k)
    BY Zenon DEF Priority, Sorted, Sooner, ScoreOf, Offered, Waiting
  <2> HIDE DEF Good, c
  <2>2. Good(q)
    BY <1>6, <1>8 DEF Good
  <2>3. Good(c)
    BY <2>1, <2>2, Zenon
  <2> QED BY <2>3 DEF Good
<1>10. c \in [1..Cardinality(S) -> S]
  <2> HIDE DEF c, S
  <2> QED BY <1>9 DEF SetToSeqs
<1>11. Enumerates(c, S, R)
  <2> HIDE DEF c, S, R
  <2> QED BY <1>2, <1>9, <1>10 DEF Enumerates
<1> QED BY <1>0, <1>4, <1>11

\* The orders in a queue.
QueuedIn(q) == {q[i] : i \in DOMAIN q}

\* A queue in which no order is twice.
Distinct(q) == \A i, j \in DOMAIN q : q[i] = q[j] => i = j

\* The queue of a new plan has each waiting order once.
LEMMA PriorityFacts ==
  ASSUME TypeOK
  PROVE  /\ Priority \in Seq(Order) /\ Distinct(Priority)
         /\ QueuedIn(Priority) = Waiting
<1>1. /\ Enumerates(Priority, Waiting, SoonerPairs) /\ StrictOrder(SoonerPairs, Waiting)
      /\ IsFiniteSet(Waiting)
  BY PriorityEnumerates
<1>2. /\ Distinct(Priority)
      /\ \A x \in Waiting : \E i \in DOMAIN Priority : Priority[i] = x
  BY <1>1, Enumeration DEF Distinct
<1>3. Priority \in [1..Cardinality(Waiting) -> Waiting] /\ Cardinality(Waiting) \in Nat
  BY <1>1, FS_CardinalityType DEF Enumerates
<1>4. Waiting \subseteq Order
  BY DEF Waiting
<1> HIDE DEF Priority, Waiting
<1>5. Priority \in Seq(Waiting) /\ Priority \in Seq(Order)
  BY <1>3, <1>4
<1>6. QueuedIn(Priority) = Waiting
  BY <1>2, <1>3 DEF QueuedIn
<1> QED BY <1>2, <1>5, <1>6

\* Taking its head leaves the others.
LEMMA TailFacts ==
  ASSUME NEW q, q \in Seq(Order), q # <<>>, Distinct(q)
  PROVE  /\ Head(q) \in Order /\ Head(q) \in QueuedIn(q)
         /\ Tail(q) \in Seq(Order) /\ Distinct(Tail(q))
         /\ QueuedIn(Tail(q)) = QueuedIn(q) \ {Head(q)}
<1>1. /\ Len(q) \in Nat /\ Len(q) > 0 /\ DOMAIN q = 1..Len(q) /\ Head(q) = q[1]
      /\ Tail(q) \in Seq(Order) /\ Len(Tail(q)) = Len(q) - 1
      /\ \A i \in 1..Len(Tail(q)) : Tail(q)[i] = q[i + 1]
      /\ DOMAIN Tail(q) = 1..Len(Tail(q)) /\ q[1] \in Order
  OBVIOUS
<1> DEFINE t == Tail(q)
           n == Len(q)
<1>2. /\ n \in Nat /\ n > 0 /\ DOMAIN q = 1..n /\ DOMAIN t = 1..(n - 1)
      /\ \A i \in 1..(n - 1) : t[i] = q[i + 1]
  BY <1>1
<1> HIDE DEF t, n
<1>3. Distinct(t)
  BY <1>2 DEF Distinct
<1>4. QueuedIn(t) \subseteq QueuedIn(q) \ {q[1]}
  <2>1. ASSUME NEW i \in 1..(n - 1) PROVE q[i + 1] \in QueuedIn(q) /\ q[i + 1] # q[1]
    <3>1. i + 1 \in DOMAIN q /\ 1 \in DOMAIN q /\ i + 1 # 1
      BY <1>2
    <3> QED BY <3>1 DEF QueuedIn, Distinct
  <2> QED BY <1>2, <2>1 DEF QueuedIn
<1>5. QueuedIn(q) \ {q[1]} \subseteq QueuedIn(t)
  <2>1. ASSUME NEW i \in DOMAIN q, q[i] # q[1] PROVE q[i] \in QueuedIn(t)
    <3>1. i - 1 \in DOMAIN t /\ t[i - 1] = q[i]
      BY <1>2, <2>1
    <3> QED BY <3>1 DEF QueuedIn
  <2> QED BY <2>1 DEF QueuedIn
<1>6. q[1] \in QueuedIn(q)
  BY <1>2 DEF QueuedIn
<1> QED BY <1>1, <1>3, <1>4, <1>5, <1>6 DEF t

-----------------------------------------------------------------------------
(* What the engine decides, in the state of a job.                          *)

\* An upsert, row by row.
LEMMA MergedFacts ==
  ASSUME NEW new, NEW old
  PROVE  /\ DOMAIN Merged(new, old) = DOMAIN new \cup DOMAIN old
         /\ \A x \in DOMAIN new : Merged(new, old)[x] = new[x]
         /\ \A x \in (DOMAIN old) \ DOMAIN new : Merged(new, old)[x] = old[x]
         /\ Merged(new, old) = [x \in DOMAIN new \cup DOMAIN old |-> Merged(new, old)[x]]
BY DEF Merged

\* What agrupar_por_produto gives the engine for an order.
LEMMA GradesAreInput ==
  ASSUME TypeOK, NEW o \in Order, NEW stock, stock \in [Product -> [Size -> Nat]]
  PROVE  /\ EngineInput(GradesOf(o), stock) /\ DOMAIN GradesOf(o) = ProductsOf(o)
         /\ \A p \in ProductsOf(o) : GradesOf(o)[p] = Grade(o, p)
         /\ ProductsOf(o) \subseteq Product
         /\ \A p \in ProductsOf(o) : /\ IsGrade(Grade(o, p)) /\ <<o, p>> \in Pair
                                     /\ pending[<<o, p>>] # None /\ reservation[<<o, p>>] = None
<1>1. /\ DOMAIN GradesOf(o) = ProductsOf(o) /\ ProductsOf(o) \subseteq Product
      /\ \A p \in ProductsOf(o) : GradesOf(o)[p] = Grade(o, p)
  BY DEF GradesOf, ProductsOf
<1>2. \A p \in ProductsOf(o) : /\ p \in Product /\ <<o, p>> \in Pair
                               /\ pending[<<o, p>>] # None /\ reservation[<<o, p>>] = None
  BY DEF ProductsOf, Reserved, Pair
<1>3. \A p \in ProductsOf(o) : IsRaw(Grade(o, p)) /\ IsGrade(Grade(o, p))
  <2> TAKE p \in ProductsOf(o)
  <2>1. pending \in Pending
    BY DEF TypeOK
  <2>2. p \in Product /\ pending[<<o, p>>] # None
    BY <1>2
  <2> QED BY <2>1, <2>2, GradeIsRaw
<1> QED BY <1>1, <1>2, <1>3 DEF EngineInput

\* The fields of a job with a plan.
LEMMA PlanJobFields ==
  ASSUME TypeOK, job.state \in {"planning", "planned"}
  PROVE  /\ job \in PlanJob /\ job.kind \in {"com", "sem"} /\ job.queue \in Seq(Order)
         /\ job.stock \in [Product -> [Size -> Nat]]
         /\ \A o \in Order : /\ job.rest[o].additions \in Nat /\ job.rest[o].cuts \in Nat
         /\ job.rows \in Rows /\ job.deferred \in Reasons
         /\ DOMAIN job.rows \subseteq Pair
         /\ \A x \in DOMAIN job.rows : job.rows[x] \in Items /\ IsGrade(job.rows[x])
         /\ job.count \in Nat
<1>1. job \in PlanJob
  BY DEF TypeOK, OtherJob
<1>2. job.rest \in [Order -> Budget] /\ job.rows \in Rows
  BY <1>1 DEF PlanJob
<1>3. \A o \in Order : job.rest[o].additions \in Nat /\ job.rest[o].cuts \in Nat
  BY <1>2 DEF Budget
<1>4. DOMAIN job.rows \subseteq Pair /\ \A x \in DOMAIN job.rows : job.rows[x] \in Items
  BY <1>2 DEF Rows
<1> QED BY <1>1, <1>3, <1>4, ItemsAreGrades DEF PlanJob

\* Either policy decides within the budgets of the plan, and ADEQUAR serves the most
\* products.
LEMMA DecidedFacts ==
  ASSUME TypeOK, job.state \in {"planning", "planned"}, NEW o \in Order
  PROVE  /\ Decides(GradesOf(o), Decided(o), job.kind, job.rest[o].additions, job.rest[o].cuts)
         /\ job.kind = "com" /\ ~Blacklisted(o) =>
              Served(GradesOf(o), job.stock, job.rest[o].cuts, DOMAIN Decided(o).grades)
<1> DEFINE a == job.rest[o].additions
           c == job.rest[o].cuts
           grades == GradesOf(o)
           stock == job.stock
           kind == job.kind
           d == Decided(o)
<1>1. EngineInput(grades, stock) /\ a \in Nat /\ c \in Nat /\ kind \in {"com", "sem"}
  BY PlanJobFields, GradesAreInput
<1>2. CASE kind = "sem" \/ Blacklisted(o)
  <2>1. d = AllOrNothing(grades, stock, Blacklisted(o))
    BY <1>2, Zenon DEF Decided
  <2> HIDE DEF grades, stock, a, c, kind, d
  <2>2. Decides(grades, d, kind, a, c)
    BY <1>1, <2>1, NothingDecides
  <2> QED BY <1>2, <2>2 DEF kind, grades, stock, a, c, d
<1>3. CASE ~(kind = "sem" \/ Blacklisted(o))
  <2>1. d = Adequate(grades, stock, a, c)
    BY <1>3, Zenon DEF Decided
  <2>2. kind = "com"
    BY <1>1, <1>3
  <2> HIDE DEF grades, stock, a, c, kind, d
  <2>3. Decides(grades, d, kind, a, c) /\ Served(grades, stock, c, DOMAIN d.grades)
    BY <1>1, <2>1, <2>2, AdequateKeepsBudgets
  <2> QED BY <2>3 DEF kind, grades, stock, a, c, d
<1> QED BY <1>2, <1>3

\* Prices change neither pieces nor the value that was ordered.
LEMMA FinalFacts ==
  ASSUME NEW o, NEW grade, IsGrade(grade), NEW items, IsGrade(items), SameOrder(grade, items),
         \A s \in DOMAIN grade : grade[s].diff = 0,
         Quantity(items) > 0
  PROVE  /\ IsGrade(Final(o, items)) /\ Final(o, items) \in Items
         /\ SameCounts(items, Final(o, items))
         /\ Value(Final(o, items)) - Diff(Final(o, items)) = Value(grade)
<1> DEFINE new == Final(o, items)
<1>1. /\ DOMAIN items = DOMAIN grade
      /\ \A s \in DOMAIN grade : items[s].value - items[s].diff = grade[s].value
  <2>1. DOMAIN items = DOMAIN grade
    BY DEF SameOrder
  <2>2. ASSUME NEW s \in DOMAIN grade PROVE items[s].value - items[s].diff = grade[s].value
    <3>1. items[s].value = grade[s].value /\ items[s].diff = 0 /\ grade[s] \in Item
      BY DEF SameOrder, IsGrade
    <3>2. grade[s].value \in Int
      BY <3>1 DEF Item
    <3> QED BY <3>1, <3>2
  <2> QED BY <2>1, <2>2
<1>2. CASE job.kind = "sem" \/ Blacklisted(o)
  <2>1. new = items
    BY <1>2 DEF Final
  <2>2. Value(items) - Diff(items) = Value(grade)
    BY <1>1, NetValue
  <2> QED BY <2>1, <2>2, ItemsAreGrades DEF SameCounts
<1>3. CASE ~(job.kind = "sem" \/ Blacklisted(o))
  <2>1. new = Repriced(items)
    BY <1>3 DEF Final
  <2> HIDE DEF new
  <2>2. /\ IsGrade(new) /\ SameCounts(items, new)
        /\ \A s \in DOMAIN items : new[s].value - new[s].diff = items[s].value
    BY <2>1, RepricedFacts
  <2>3. /\ DOMAIN new = DOMAIN grade
        /\ \A s \in DOMAIN grade : new[s].value - new[s].diff = grade[s].value
    BY <1>1, <2>2 DEF SameOrder, SameCounts
  <2>4. Value(new) - Diff(new) = Value(grade)
    BY <2>2, <2>3, NetValue
  <2> QED BY <2>2, <2>4, ItemsAreGrades DEF new
<1> QED BY <1>2, <1>3

\* The products that the engine reserves for an order.
Planned(o) == DOMAIN Decided(o).grades

\* What PlanOrder does to the plan.
PlanStep(o) ==
  /\ o = Head(job.queue) /\ o \in Order
  /\ job'.state = "planning" /\ job'.count = job.count /\ job'.locked = job.locked
  /\ job'.kind = job.kind /\ job'.rest = job.rest /\ job'.queue = Tail(job.queue)
  /\ job'.stock = Committed(Decided(o).grades, job.stock)
  /\ Planned(o) \subseteq ProductsOf(o)
  /\ DOMAIN job'.rows = ({o} \X Planned(o)) \cup DOMAIN job.rows
  /\ \A p \in Planned(o) : /\ job'.rows[<<o, p>>] = Final(o, Decided(o).grades[p])
                           /\ job'.rows[<<o, p>>] \in Items
                           /\ SameCounts(Decided(o).grades[p], job'.rows[<<o, p>>])
                           /\ Value(job'.rows[<<o, p>>]) - Diff(job'.rows[<<o, p>>])
                                = Value(Grade(o, p))
  /\ \A x \in (DOMAIN job.rows) \ ({o} \X Planned(o)) : job'.rows[x] = job.rows[x]
  /\ DOMAIN job'.deferred = ({o} \X (ProductsOf(o) \ Planned(o))) \cup DOMAIN job.deferred
  /\ \A x \in DOMAIN job'.deferred : job'.deferred[x] \in Reason

\* PlanOrder is such a step.
LEMMA PlanOrderFacts ==
  ASSUME TypeOK, PlanOrder
  PROVE  \E o \in Order : PlanStep(o) /\ job' \in PlanJob
<1> DEFINE o == Head(job.queue)
           d == Decided(o)
           C == DOMAIN d.grades
           new == [x \in {o} \X C |-> Final(o, d.grades[x[2]])]
           why == [x \in {o} \X DOMAIN d.reason |-> d.reason[x[2]]]
           rows == Merged(new, job.rows)
           deferred == Merged(why, job.deferred)
<1>1. /\ job.state = "planning" /\ job.queue # <<>>
      /\ \A p \in C : Quantity(d.grades[p]) > 0
      /\ job' = [job EXCEPT !.queue = Tail(@), !.stock = Committed(d.grades, @),
                            !.rows = rows, !.deferred = deferred]
  BY Zenon DEF PlanOrder
<1>2. /\ job \in PlanJob /\ job.queue \in Seq(Order) /\ job.rows \in Rows /\ job.deferred \in Reasons
      /\ DOMAIN job.rows \subseteq Pair /\ \A x \in DOMAIN job.rows : job.rows[x] \in Items
      /\ job.stock \in [Product -> [Size -> Nat]]
  BY <1>1, PlanJobFields
<1>3. o \in Order /\ Tail(job.queue) \in Seq(Order)
  BY <1>1, <1>2
<1>4. Decides(GradesOf(o), d, job.kind, job.rest[o].additions, job.rest[o].cuts)
  BY <1>1, <1>3, DecidedFacts
<1>5. /\ DOMAIN GradesOf(o) = ProductsOf(o) /\ ProductsOf(o) \subseteq Product
      /\ \A p \in ProductsOf(o) : GradesOf(o)[p] = Grade(o, p) /\ IsRaw(Grade(o, p)) /\ <<o, p>> \in Pair
  BY <1>2, <1>3, GradesAreInput DEF EngineInput
<1>6. /\ C \subseteq ProductsOf(o) /\ d.grades \in [C -> Items]
      /\ DOMAIN d.reason = ProductsOf(o) \ C
      /\ \A p \in DOMAIN d.reason : d.reason[p] \in Reason
      /\ \A p \in C : SameOrder(Grade(o, p), d.grades[p])
  <2> HIDE DEF d, o
  <2> QED BY <1>4, <1>5 DEF Decides
<1>7. \A p \in C : /\ Final(o, d.grades[p]) \in Items
                   /\ SameCounts(d.grades[p], Final(o, d.grades[p]))
                   /\ Value(Final(o, d.grades[p])) - Diff(Final(o, d.grades[p])) = Value(Grade(o, p))
  <2> HIDE DEF d, o
  <2> TAKE p \in C
  <2>1. IsRaw(Grade(o, p)) /\ SameOrder(Grade(o, p), d.grades[p]) /\ d.grades[p] \in Items
    BY <1>5, <1>6
  <2>2. /\ IsGrade(Grade(o, p)) /\ IsGrade(d.grades[p])
        /\ \A s \in DOMAIN Grade(o, p) : Grade(o, p)[s].diff = 0
    BY <2>1, ItemsAreGrades DEF IsRaw
  <2> QED BY <1>1, <2>1, <2>2, FinalFacts
<1>8. /\ DOMAIN new = {o} \X C /\ \A p \in C : new[<<o, p>>] = Final(o, d.grades[p])
      /\ DOMAIN why = {o} \X (ProductsOf(o) \ C) /\ \A x \in DOMAIN why : why[x] \in Reason
  <2> HIDE DEF o, d
  <2> QED BY <1>6
<1> HIDE DEF new, why
<1>9. /\ DOMAIN rows = ({o} \X C) \cup DOMAIN job.rows
      /\ \A p \in C : rows[<<o, p>>] = Final(o, d.grades[p])
      /\ \A x \in (DOMAIN job.rows) \ ({o} \X C) : rows[x] = job.rows[x]
      /\ rows = [x \in DOMAIN rows |-> rows[x]]
  <2>1. /\ DOMAIN rows = DOMAIN new \cup DOMAIN job.rows
        /\ \A x \in DOMAIN new : rows[x] = new[x]
        /\ \A x \in (DOMAIN job.rows) \ DOMAIN new : rows[x] = job.rows[x]
        /\ rows = [x \in DOMAIN new \cup DOMAIN job.rows |-> rows[x]]
    BY MergedFacts
  <2> HIDE DEF rows, o, C
  <2>2. \A p \in C : <<o, p>> \in DOMAIN new
    BY <1>8
  <2> QED BY <1>8, <2>1, <2>2
<1>10. /\ DOMAIN deferred = ({o} \X (ProductsOf(o) \ C)) \cup DOMAIN job.deferred
       /\ \A x \in DOMAIN deferred : deferred[x] \in Reason
       /\ deferred = [x \in DOMAIN deferred |-> deferred[x]]
  <2>1. \A x \in DOMAIN job.deferred : job.deferred[x] \in Reason
    BY <1>2 DEF Reasons
  <2>2. /\ DOMAIN deferred = DOMAIN why \cup DOMAIN job.deferred
        /\ \A x \in DOMAIN why : deferred[x] = why[x]
        /\ \A x \in (DOMAIN job.deferred) \ DOMAIN why : deferred[x] = job.deferred[x]
        /\ deferred = [x \in DOMAIN why \cup DOMAIN job.deferred |-> deferred[x]]
    BY MergedFacts
  <2> HIDE DEF deferred, o, C
  <2> QED BY <1>8, <2>1, <2>2
<1> HIDE DEF rows, deferred
<1>11. rows \in Rows
  <2>1. ASSUME NEW x \in DOMAIN rows PROVE x \in Pair /\ rows[x] \in Items
    <3>1. CASE x \in {o} \X C
      <4>1. PICK p \in C : x = <<o, p>>
        BY <3>1
      <4> QED BY <1>5, <1>6, <1>7, <1>9, <4>1
    <3>2. CASE x \notin {o} \X C
      BY <1>2, <1>9, <2>1, <3>2
    <3> QED BY <3>1, <3>2
  <2>2. rows \in [DOMAIN rows -> Items] /\ DOMAIN rows \in SUBSET Pair
    BY <1>9, <2>1
  <2> QED BY <2>2 DEF Rows
<1>12. deferred \in Reasons
  <2>1. DOMAIN job.deferred \subseteq Pair
    BY <1>2 DEF Reasons
  <2>2. DOMAIN deferred \subseteq Pair
    BY <1>3, <1>5, <1>10, <2>1 DEF Pair
  <2>3. deferred \in [DOMAIN deferred -> Reason] /\ DOMAIN deferred \in SUBSET Pair
    BY <1>10, <2>2
  <2> QED BY <2>3 DEF Reasons
<1>13. Committed(d.grades, job.stock) \in [Product -> [Size -> Nat]]
  <2>1. C \subseteq Product
    BY <1>5, <1>6
  <2> HIDE DEF d, o
  <2> QED BY <1>2, <1>6, <2>1, CommittedType
<1>14. /\ job' \in PlanJob /\ job'.state = "planning"
       /\ job'.count = job.count /\ job'.locked = job.locked
       /\ job'.kind = job.kind /\ job'.rest = job.rest /\ job'.queue = Tail(job.queue)
       /\ job'.stock = Committed(d.grades, job.stock)
       /\ job'.rows = rows /\ job'.deferred = deferred
  <2> HIDE DEF d, o
  <2> QED BY <1>1, <1>2, <1>3, <1>11, <1>12, <1>13 DEF PlanJob
<1> HIDE DEF C, d, o
<1>15. PlanStep(o)
  <2>1. Planned(o) = C
    BY DEF C, d, Planned
  <2> QED BY <1>3, <1>5, <1>6, <1>7, <1>9, <1>10, <1>14, <2>1 DEF PlanStep, d, o
<1> QED BY <1>3, <1>14, <1>15

-----------------------------------------------------------------------------
(* Writes of the job and of people.                                         *)

\* salvar_linhas_linx writes the rows of r and no other.
LEMMA LinxSavedFacts ==
  ASSUME NEW r, DOMAIN r \subseteq Pair, DOMAIN linx = Pair, LinxSaved(r)
  PROVE  /\ DOMAIN linx' = Pair
         /\ \A x \in DOMAIN r : linx'[x] = LinxRow(x[2], r[x].items)
         /\ \A x \in Pair \ DOMAIN r : linx'[x] = linx[x]
<1> DEFINE new == [x \in DOMAIN r |-> LinxRow(x[2], r[x].items)]
<1>1. linx' = Merged(new, linx)
  BY DEF LinxSaved
<1>2. DOMAIN new = DOMAIN r /\ \A x \in DOMAIN r : new[x] = LinxRow(x[2], r[x].items)
  OBVIOUS
<1> HIDE DEF new
<1>3. /\ DOMAIN linx' = DOMAIN new \cup DOMAIN linx
      /\ \A x \in DOMAIN new : linx'[x] = new[x]
      /\ \A x \in (DOMAIN linx) \ DOMAIN new : linx'[x] = linx[x]
  BY <1>1, MergedFacts
<1> QED BY <1>2, <1>3

\* recalcular_estoque_virtual_alvos writes the keys it is given and no other.
LEMMA RecalculatedFacts ==
  ASSUME TypeOK, NEW r, r \in Book, NEW keys
  PROVE  /\ Recalculated(r, keys) \in [Keys -> [qty : Nat, day : Nat] \cup {None}]
         /\ \A k \in Keys : IF k \in keys
                            THEN /\ Recalculated(r, keys)[k].qty = Left(r, k[1], k[2])
                                 /\ Recalculated(r, keys)[k].day = photo.day
                            ELSE Recalculated(r, keys)[k] = virtual[k]
         /\ \A k \in Keys : Recalculated(r, keys)[k] # None =>
                              Recalculated(r, keys)[k].day <= photo.day
<1>1. ASSUME NEW k \in Keys PROVE Left(r, k[1], k[2]) \in Nat
  <2>1. k[1] \in Product /\ k[2] \in Size
    BY DEF Keys
  <2> QED BY <2>1, LeftIsNat
<1>2. photo.day \in Nat /\ virtual \in [Keys -> [qty : Nat, day : Nat] \cup {None}]
      /\ \A k \in Keys : virtual[k] # None => virtual[k].day <= photo.day
  BY DEF TypeOK
<1> DEFINE v == Recalculated(r, keys)
<1>3. v = [k \in Keys |-> IF k \in keys
                          THEN [qty |-> Left(r, k[1], k[2]), day |-> photo.day]
                          ELSE virtual[k]]
  BY DEF Recalculated
<1> HIDE DEF v
<1> QED BY <1>1, <1>2, <1>3 DEF v

\* What Apply does.
ApplyStep ==
  /\ job.state = "planned" /\ job.locked /\ PlanFits /\ job' = [NoJob EXCEPT !.count = job.count]
  /\ DOMAIN job.rows \subseteq Pair
  /\ reservation' \in Book
  /\ \A x \in DOMAIN job.rows : reservation'[x] = Payload(x) /\ Payload(x) \in Reservation
  /\ \A x \in Pair \ DOMAIN job.rows : reservation'[x] = reservation[x]
  /\ DOMAIN linx' = Pair
  /\ \A x \in DOMAIN job.rows : linx'[x] = LinxRow(x[2], job.rows[x])
  /\ \A x \in Pair \ DOMAIN job.rows : linx'[x] = linx[x]
  /\ standby' = [x \in Pair |-> IF x \in DOMAIN job.rows THEN None ELSE standby[x]]
  /\ virtual' = Recalculated(reservation', UNION {TargetsOf(x) : x \in DOMAIN job.rows})
  /\ UNCHANGED <<pending, client, photo, today, edits>>

\* Apply is such a step.
LEMMA ApplyFacts ==
  ASSUME TypeOK, Apply
  PROVE  ApplyStep
<1> DEFINE new == [x \in DOMAIN job.rows |-> Payload(x)]
<1>1. /\ job.state = "planned" /\ job.locked /\ PlanFits /\ job' = [NoJob EXCEPT !.count = job.count]
      /\ reservation' = Merged(new, reservation)
      /\ LinxSaved(new)
      /\ standby' = [x \in Pair |-> IF x \in DOMAIN new THEN None ELSE standby[x]]
      /\ virtual' = Recalculated(reservation', UNION {TargetsOf(x) : x \in DOMAIN new})
      /\ UNCHANGED <<pending, client, photo, today, edits>>
  BY Zenon DEF Apply, given
<1>2. /\ DOMAIN job.rows \subseteq Pair /\ job.kind \in {"com", "sem"}
      /\ \A x \in DOMAIN job.rows : job.rows[x] \in Items
  BY <1>1, PlanJobFields
<1>3. /\ today \in Nat /\ reservation \in Book /\ DOMAIN linx = Pair /\ DOMAIN reservation = Pair
  BY DEF TypeOK, Book
<1>4. DOMAIN new = DOMAIN job.rows /\ \A x \in DOMAIN job.rows : new[x] = Payload(x)
  OBVIOUS
<1>5. \A x \in DOMAIN job.rows : Payload(x) \in Reservation /\ Payload(x).items = job.rows[x]
  BY <1>2, <1>3 DEF Payload, Reservation
<1> HIDE DEF new
<1>6. /\ DOMAIN reservation' = DOMAIN new \cup DOMAIN reservation
      /\ \A x \in DOMAIN new : reservation'[x] = new[x]
      /\ \A x \in (DOMAIN reservation) \ DOMAIN new : reservation'[x] = reservation[x]
      /\ reservation' = [x \in DOMAIN new \cup DOMAIN reservation |-> reservation'[x]]
  <2>1. /\ DOMAIN Merged(new, reservation) = DOMAIN new \cup DOMAIN reservation
        /\ \A x \in DOMAIN new : Merged(new, reservation)[x] = new[x]
        /\ \A x \in (DOMAIN reservation) \ DOMAIN new : Merged(new, reservation)[x] = reservation[x]
        /\ Merged(new, reservation) = [x \in DOMAIN new \cup DOMAIN reservation |->
                                          Merged(new, reservation)[x]]
    BY MergedFacts
  <2> QED BY <1>1, <2>1
<1>7. /\ \A x \in DOMAIN job.rows : reservation'[x] = Payload(x)
      /\ \A x \in Pair \ DOMAIN job.rows : reservation'[x] = reservation[x]
      /\ reservation' = [x \in Pair |-> reservation'[x]]
  BY <1>2, <1>3, <1>4, <1>6
<1>8. reservation' \in Book
  <2>1. ASSUME NEW x \in Pair PROVE reservation'[x] \in Reservation \cup {None}
    <3>1. CASE x \in DOMAIN job.rows
      BY <1>5, <1>7, <3>1
    <3>2. CASE x \notin DOMAIN job.rows
      BY <1>3, <1>7, <3>2 DEF Book
    <3> QED BY <3>1, <3>2
  <2> QED BY <1>7, <2>1 DEF Book
<1>9. /\ DOMAIN linx' = Pair
      /\ \A x \in DOMAIN new : linx'[x] = LinxRow(x[2], new[x].items)
      /\ \A x \in Pair \ DOMAIN new : linx'[x] = linx[x]
  BY <1>1, <1>2, <1>3, <1>4, LinxSavedFacts
<1>10. \A x \in DOMAIN job.rows : linx'[x] = LinxRow(x[2], job.rows[x])
  <2> TAKE x \in DOMAIN job.rows
  <2>1. new[x].items = job.rows[x] /\ x \in DOMAIN new
    BY <1>4, <1>5
  <2> QED BY <1>9, <2>1
<1> QED BY <1>1, <1>2, <1>4, <1>5, <1>7, <1>8, <1>9, <1>10 DEF ApplyStep

\* What an edit of product p does: O the orders of the batch, C those it changes.
EditStep(p, O, sheet, C) ==
  /\ job.state = "planned" => EditsMeanwhile
  /\ ~job.locked
  /\ O \subseteq Order /\ sheet \in [O -> Sheets] /\ C \subseteq O
  /\ \A o \in O : reservation[<<o, p>>] # None /\ <<o, p>> \in Pair
  /\ reservation' \in Book
  /\ \A o \in O : /\ reservation'[<<o, p>>] \in Reservation
                  /\ reservation'[<<o, p>>].kind = reservation[<<o, p>>].kind
                  /\ reservation'[<<o, p>>].day = reservation[<<o, p>>].day
                  /\ reservation'[<<o, p>>].items =
                       Regraded(reservation[<<o, p>>].items, reservation[<<o, p>>].kind, sheet[o])
  /\ \A x \in Pair \ (C \X {p}) : reservation'[x] = reservation[x]
  /\ BatchFits(p, sheet)
  /\ \A o \in O : reservation[<<o, p>>].kind = "sem" => WithinBudget(o, p, sheet[o])
  /\ \A o \in O : Representable(o, p, sheet[o])
  /\ DOMAIN linx' = Pair
  /\ \A o \in C : linx'[<<o, p>>] = LinxRow(p, reservation'[<<o, p>>].items)
  /\ \A x \in Pair \ (C \X {p}) : linx'[x] = linx[x]
  /\ virtual' = Recalculated(reservation',
                  {p} \X UNION {DOMAIN sheet[o] \cup DOMAIN reservation[<<o, p>>].items : o \in O})
  /\ edits' = edits + 1
  /\ UNCHANGED <<pending, client, photo, today, standby, job>>

\* EditGrades is such a step.
LEMMA EditFacts ==
  ASSUME TypeOK, NEW p \in Product, EditGrades(p)
  PROVE  \E O, sheet, C : EditStep(p, O, sheet, C)
<1> DEFINE Was(o) == reservation[<<o, p>>]
           Will(k, o) == Regraded(Was(o).items, Was(o).kind, k[o])
           ChangedBy(O, k) == {o \in O : ~Was(o).edited \/ Will(k, o) # Was(o).items}
           Fused(O, k) == \A o \in ChangedBy(O, k) : Was(o).kind = "sem"
           Saved(O, k) == [x \in ChangedBy(O, k) \X {p} |->
                             [reservation[x] EXCEPT !.items = Will(k, x[1]), !.edited = TRUE,
                                !.state = IF Fused(O, k) THEN "approved" ELSE "open"]]
           KeysOf(O, k) == {p} \X UNION {DOMAIN k[o] \cup DOMAIN Was(o).items : o \in O}
<1> DEFINE Saves(O, k) ==
             /\ BatchFits(p, k)
             /\ \A o \in O : Was(o).kind = "sem" => WithinBudget(o, p, k[o])
             /\ \A o \in O : Representable(o, p, k[o])
             /\ reservation' = Merged(Saved(O, k), reservation)
             /\ LinxSaved(Saved(O, k))
             /\ virtual' = Recalculated(reservation', KeysOf(O, k))
<1>a. \E O \in (SUBSET {o \in Order : Open(<<o, p>>)}) \ {{}} : \E k \in [O -> Sheets] : Saves(O, k)
  BY Zenon DEF EditGrades
<1>b. PICK O \in (SUBSET {o \in Order : Open(<<o, p>>)}) \ {{}} : \E k \in [O -> Sheets] : Saves(O, k)
  <2> HIDE DEF Saves
  <2> QED BY <1>a
<1>c. PICK sheet \in [O -> Sheets] : Saves(O, sheet)
  <2> HIDE DEF Saves
  <2> QED BY <1>b
<1>1. /\ BatchFits(p, sheet)
      /\ \A o \in O : Was(o).kind = "sem" => WithinBudget(o, p, sheet[o])
      /\ \A o \in O : Representable(o, p, sheet[o])
      /\ reservation' = Merged(Saved(O, sheet), reservation)
      /\ LinxSaved(Saved(O, sheet))
      /\ virtual' = Recalculated(reservation', KeysOf(O, sheet))
  BY <1>c, Zenon
<1>2. /\ ~job.locked /\ (job.state = "planned" => EditsMeanwhile)
      /\ edits' = edits + 1 /\ UNCHANGED <<pending, client, photo, today, standby, job>>
  BY DEF EditGrades, given
<1> DEFINE C == ChangedBy(O, sheet)
           saved == Saved(O, sheet)
           grade == [o \in O |-> Will(sheet, o)]
           state == IF Fused(O, sheet) THEN "approved" ELSE "open"
<1>3. /\ O \subseteq Order /\ C \subseteq O
      /\ \A o \in O : reservation[<<o, p>>] # None /\ <<o, p>> \in Pair
      /\ \A o \in O \ C : grade[o] = Was(o).items
  BY DEF Open, Pair
<1>4. reservation \in Book /\ DOMAIN reservation = Pair /\ DOMAIN linx = Pair
  BY DEF TypeOK, Book
<1>5. \A o \in O : /\ Was(o) \in Reservation /\ sheet[o] \in Sheets
                   /\ grade[o] = Regraded(Was(o).items, Was(o).kind, sheet[o])
                   /\ grade[o] \in Items
  <2> TAKE o \in O
  <2>1. Was(o) \in Reservation /\ sheet[o] \in Sheets /\ IsGrade(Was(o).items)
    BY <1>3, <1>4, BookEntry
  <2>2. grade[o] = Regraded(Was(o).items, Was(o).kind, sheet[o])
    OBVIOUS
  <2>3. IsGrade(grade[o])
    <3> HIDE DEF grade
    <3> QED BY <2>1, <2>2, RegradedFacts
  <2> QED BY <2>1, <2>2, <2>3, ItemsAreGrades
<1>6. /\ DOMAIN saved = C \X {p}
      /\ \A o \in C : saved[<<o, p>>] = [reservation[<<o, p>>] EXCEPT !.items = grade[o],
                                           !.edited = TRUE, !.state = state]
  BY <1>3
<1>7. state \in {"open", "approved", "expired"}
  OBVIOUS
<1>8. reservation' = Merged(saved, reservation) /\ LinxSaved(saved)
  BY <1>1, Zenon
<1>9. /\ BatchFits(p, sheet)
      /\ \A o \in O : reservation[<<o, p>>].kind = "sem" => WithinBudget(o, p, sheet[o])
      /\ \A o \in O : Representable(o, p, sheet[o])
      /\ virtual' =
           Recalculated(reservation',
             {p} \X UNION {DOMAIN sheet[o] \cup DOMAIN reservation[<<o, p>>].items : o \in O})
  BY <1>1, Zenon
<1> HIDE DEF C, saved, grade, state
<1>10. /\ \A x \in C \X {p} : reservation'[x] = saved[x]
       /\ \A x \in Pair \ (C \X {p}) : reservation'[x] = reservation[x]
       /\ reservation' = [x \in Pair |-> reservation'[x]]
  <2>1. /\ DOMAIN Merged(saved, reservation) = DOMAIN saved \cup DOMAIN reservation
        /\ \A x \in DOMAIN saved : Merged(saved, reservation)[x] = saved[x]
        /\ \A x \in (DOMAIN reservation) \ DOMAIN saved : Merged(saved, reservation)[x] = reservation[x]
        /\ Merged(saved, reservation) = [x \in DOMAIN saved \cup DOMAIN reservation |->
                                            Merged(saved, reservation)[x]]
    BY MergedFacts
  <2>2. C \X {p} \subseteq Pair
    BY <1>3 DEF Pair
  <2> QED BY <1>4, <1>6, <1>8, <2>1, <2>2
<1>11. \A o \in C : /\ saved[<<o, p>>] \in Reservation
                    /\ saved[<<o, p>>].kind = Was(o).kind /\ saved[<<o, p>>].day = Was(o).day
                    /\ saved[<<o, p>>].items = grade[o]
  <2> TAKE o \in C
  <2>1. Was(o) \in Reservation /\ grade[o] \in Items
        /\ saved[<<o, p>>] = [Was(o) EXCEPT !.items = grade[o], !.edited = TRUE, !.state = state]
    BY <1>3, <1>5, <1>6
  <2> QED BY <1>7, <2>1 DEF Reservation
<1>12. \A o \in O : /\ reservation'[<<o, p>>] \in Reservation
                    /\ reservation'[<<o, p>>].kind = reservation[<<o, p>>].kind
                    /\ reservation'[<<o, p>>].day = reservation[<<o, p>>].day
                    /\ reservation'[<<o, p>>].items =
                         Regraded(reservation[<<o, p>>].items, reservation[<<o, p>>].kind, sheet[o])
  <2> TAKE o \in O
  <2>1. CASE o \in C
    <3>1. reservation'[<<o, p>>] = saved[<<o, p>>]
      BY <1>10, <2>1
    <3> QED BY <1>5, <1>11, <2>1, <3>1
  <2>2. CASE o \notin C
    <3>1. reservation'[<<o, p>>] = reservation[<<o, p>>]
      BY <1>3, <1>10, <2>2
    <3>2. grade[o] = Was(o).items
      BY <1>3, <2>2
    <3> QED BY <1>5, <3>1, <3>2
  <2> QED BY <2>1, <2>2
<1>13. reservation' \in Book
  <2>1. ASSUME NEW x \in Pair PROVE reservation'[x] \in Reservation \cup {None}
    <3>1. CASE x \in C \X {p}
      <4>1. PICK o \in C : x = <<o, p>>
        BY <3>1
      <4> QED BY <1>3, <1>12, <4>1
    <3>2. CASE x \notin C \X {p}
      BY <1>4, <1>10, <3>2 DEF Book
    <3> QED BY <3>1, <3>2
  <2> QED BY <1>10, <2>1 DEF Book
<1>14. /\ DOMAIN linx' = Pair
       /\ \A o \in C : linx'[<<o, p>>] = LinxRow(p, reservation'[<<o, p>>].items)
       /\ \A x \in Pair \ (C \X {p}) : linx'[x] = linx[x]
  <2>1. DOMAIN saved \subseteq Pair
    BY <1>3, <1>6 DEF Pair
  <2>2. /\ DOMAIN linx' = Pair
        /\ \A x \in DOMAIN saved : linx'[x] = LinxRow(x[2], saved[x].items)
        /\ \A x \in Pair \ DOMAIN saved : linx'[x] = linx[x]
    BY <1>4, <1>8, <2>1, LinxSavedFacts
  <2>3. ASSUME NEW o \in C PROVE linx'[<<o, p>>] = LinxRow(p, reservation'[<<o, p>>].items)
    <3>1. <<o, p>> \in DOMAIN saved /\ reservation'[<<o, p>>] = saved[<<o, p>>]
      BY <1>6, <1>10
    <3>2. linx'[<<o, p>>] = LinxRow(<<o, p>>[2], saved[<<o, p>>].items)
      BY <2>2, <3>1
    <3>3. <<o, p>>[2] = p
      OBVIOUS
    <3> QED BY <3>1, <3>2, <3>3
  <2> QED BY <1>6, <2>2, <2>3
<1>15. EditStep(p, O, sheet, C)
  BY <1>1, <1>2, <1>3, <1>9, <1>10, <1>12, <1>13, <1>14 DEF EditStep
<1> QED BY <1>15

\* The initial state is typed.
LEMMA InitType ==
  ASSUME Init
  PROVE  TypeOK
<1>1. photo \in [stock : [Product -> [Size -> Int]], day : Nat] /\ photo.day = 0 /\ today = 0
  BY AllocationAssumption DEF Init
<1>2. job \in OtherJob /\ job.state = "idle"
  BY DEF Init, NoJob, OtherJob
<1>3. /\ reservation = [x \in Pair |-> None] /\ standby = [x \in Pair |-> None]
      /\ linx = [x \in Pair |-> None] /\ virtual = [k \in Keys |-> None]
      /\ edits = 0 /\ pending \in Pending /\ client \in Clients
  BY DEF Init
<1> QED BY <1>1, <1>2, <1>3 DEF TypeOK

\* The ceiling of a budget and what is left of it are numbers.
LEMMA RestIsNat ==
  ASSUME NEW t, t \in Nat, NEW c, c \in Int
  PROVE  Rest(t, c) \in Nat /\ Limit(t) \in Nat
<1>1. TolerancePercent \in 0..100
  BY EngineAssumption
<1>2. t * TolerancePercent \in Nat
  BY <1>1
<1>3. \A n \in Nat : n \div 100 \in Nat
  OBVIOUS
<1>4. Limit(t) \in Nat
  BY <1>2, <1>3 DEF Limit
<1> QED BY <1>4 DEF Rest, Positive

\* The ceiling alone.
LEMMA LimitIsNat ==
  ASSUME NEW t, t \in Nat
  PROVE  Limit(t) \in Nat
BY RestIsNat, 0 \in Int

\* The reserved products of an order.
Pairs(r, o) == {p \in Product : r[<<o, p>>] # None}

\* What the reservations of an order add to it, and cut from it.
AddedTo(r, o) ==
  SumFunctionOnSet([p \in Pairs(r, o) |-> Additions(r[<<o, p>>].kind, r[<<o, p>>].items)], Pairs(r, o))

CutFrom(r, o) ==
  SumFunctionOnSet([p \in Pairs(r, o) |-> Cuts(r[<<o, p>>].kind, r[<<o, p>>].items)], Pairs(r, o))

\* PEDIDO_BUDGET_SQL, in these terms.
LEMMA SpentFacts ==
  ASSUME TypeOK, NEW o \in Order
  PROVE  /\ SpentAdditions(o) = AddedTo(reservation, o) /\ SpentCuts(o) = CutFrom(reservation, o)
BY Zenon DEF SpentAdditions, SpentCuts, Spent, AddedTo, CutFrom, Pairs, SumFunction

\* They are numbers, sums over finitely many numbers.
LEMMA AmountsOf ==
  ASSUME NEW r, r \in Book, NEW o \in Order
  PROVE  /\ IsFiniteSet(Pairs(r, o)) /\ Pairs(r, o) \subseteq Product
         /\ \A p \in Pairs(r, o) : /\ <<o, p>> \in Pair /\ r[<<o, p>>] \in Reservation
                                   /\ Additions(r[<<o, p>>].kind, r[<<o, p>>].items) \in Nat
                                   /\ Cuts(r[<<o, p>>].kind, r[<<o, p>>].items) \in Nat
         /\ AddedTo(r, o) \in Nat /\ CutFrom(r, o) \in Nat
<1> DEFINE P == Pairs(r, o)
           f == [p \in P |-> Additions(r[<<o, p>>].kind, r[<<o, p>>].items)]
           e == [p \in P |-> Cuts(r[<<o, p>>].kind, r[<<o, p>>].items)]
<1>1. IsFiniteSet(P) /\ P \subseteq Product
  BY Finite DEF Pairs
<1>2. \A p \in P : /\ <<o, p>> \in Pair /\ r[<<o, p>>] \in Reservation
                   /\ Additions(r[<<o, p>>].kind, r[<<o, p>>].items) \in Nat
                   /\ Cuts(r[<<o, p>>].kind, r[<<o, p>>].items) \in Nat
  <2> TAKE p \in P
  <2>1. <<o, p>> \in Pair /\ r[<<o, p>>] # None
    BY DEF Pairs, Pair
  <2>2. r[<<o, p>>] \in Reservation /\ IsGrade(r[<<o, p>>].items)
    BY <2>1, BookEntry
  <2> QED BY <2>1, <2>2, AmountTypes
<1>3. (\A p \in P : f[p] \in Nat) /\ (\A p \in P : e[p] \in Nat)
  BY <1>2
<1>4. AddedTo(r, o) = SumFunctionOnSet(f, P) /\ CutFrom(r, o) = SumFunctionOnSet(e, P)
  BY DEF AddedTo, CutFrom
<1> HIDE DEF P, f, e
<1>5. SumFunctionOnSet(f, P) \in Nat /\ SumFunctionOnSet(e, P) \in Nat
  BY <1>1, <1>3, SumPositive
<1> QED BY <1>1, <1>2, <1>4, <1>5 DEF P

\* The pieces an order asks for are a number.
LEMMA TotalIsNat ==
  ASSUME pending \in Pending, NEW o \in Order
  PROVE  Total(o) \in Nat
<1> DEFINE P == {q \in Product : pending[<<o, q>>] # None}
           f == [p \in P |-> SumFunction(pending[<<o, p>>])]
<1>1. IsFiniteSet(P)
  BY Finite
<1>2. \A p \in P : f[p] \in Nat
  <2> TAKE p \in P
  <2>1. p \in Product /\ pending[<<o, p>>] # None /\ <<o, p>> \in Pair
    BY DEF Pair
  <2>2. PICK T \in SUBSET Size : pending[<<o, p>>] \in [T -> Nat]
    BY <2>1, AllocationAssumption
  <2>3. IsFiniteSet(T) /\ DOMAIN pending[<<o, p>>] = T /\ \A s \in T : pending[<<o, p>>][s] \in Nat
    BY <2>2, Finite, FS_Subset
  <2>4. SumFunctionOnSet(pending[<<o, p>>], T) \in Nat
    BY <2>3, SumPositive
  <2>5. SumFunction(pending[<<o, p>>]) \in Nat
    BY <2>3, <2>4 DEF SumFunction
  <2> QED BY <2>5
<1>3. Total(o) = SumFunctionOnSet(f, P)
  BY DEF Total, SumFunction
<1> HIDE DEF f, P
<1> QED BY <1>1, <1>2, <1>3, SumPositive

\* What is left of both budgets is typed.
LEMMA BudgetFacts ==
  ASSUME TypeOK, NEW o \in Order
  PROVE  BudgetsOf(o) \in Budget
<1>1. reservation \in Book /\ pending \in Pending
  BY DEF TypeOK, Book
<1>2. AddedTo(reservation, o) \in Int /\ CutFrom(reservation, o) \in Int /\ Total(o) \in Nat
  BY <1>1, AmountsOf, TotalIsNat
<1>3. SpentAdditions(o) \in Int /\ SpentCuts(o) \in Int
  BY <1>2, SpentFacts
<1>4. Rest(Total(o), SpentAdditions(o)) \in Nat /\ Rest(Total(o), SpentCuts(o)) \in Nat
  BY <1>2, <1>3, RestIsNat
<1> QED BY <1>4 DEF BudgetsOf, Budget

\* So is the stock that a plan starts from.
LEMMA AvailableType ==
  ASSUME TypeOK
  PROVE  Available \in [Product -> [Size -> Nat]]
<1>1. reservation \in Book
  BY DEF TypeOK, Book
<1>2. \A p \in Product, s \in Size : Left(reservation, p, s) \in Nat
  BY <1>1, LeftIsNat
<1> QED BY <1>2 DEF Available

\* What StartPlan does.
StartStep ==
  /\ job.state = "idle" /\ job'.state = "planning" /\ job'.locked = TRUE
  /\ job'.queue = Priority /\ job'.stock = Available
  /\ job'.rest = [o \in Order |-> BudgetsOf(o)]
  /\ DOMAIN job'.rows = {} /\ DOMAIN job'.deferred = {}
  /\ UNCHANGED <<pending, client, photo, today, reservation, standby, linx, virtual, edits>>

\* StartPlan is such a step.
LEMMA StartPlanFacts ==
  ASSUME TypeOK, StartPlan
  PROVE  StartStep /\ job' \in PlanJob
<1>1. PICK kind \in {"com", "sem"} :
         job' = [state |-> "planning", count |-> job.count + 1, locked |-> TRUE,
                 kind |-> kind, queue |-> Priority, stock |-> Available,
                 rest |-> [o \in Order |-> BudgetsOf(o)],
                 rows |-> [x \in {} |-> None], deferred |-> [x \in {} |-> None]]
  BY Zenon DEF StartPlan
<1>2. Priority \in Seq(Order) /\ Available \in [Product -> [Size -> Nat]]
      /\ [o \in Order |-> BudgetsOf(o)] \in [Order -> Budget]
  BY PriorityFacts, AvailableType, BudgetFacts
<1>3. job.count \in Nat
  BY DEF TypeOK, PlanJob, OtherJob
<1>4. [x \in {} |-> None] \in Rows /\ [x \in {} |-> None] \in Reasons
  <2>1. [x \in {} |-> None] \in [{} -> Items] /\ [x \in {} |-> None] \in [{} -> Reason]
    OBVIOUS
  <2>2. {} \in SUBSET Pair
    OBVIOUS
  <2>3. [{} -> Items] \in {[X -> Items] : X \in SUBSET Pair}
    BY <2>2
  <2>4. [{} -> Reason] \in {[X -> Reason] : X \in SUBSET Pair}
    BY <2>2
  <2> QED BY <2>1, <2>3, <2>4 DEF Rows, Reasons
<1> DEFINE q == Priority
           a == Available
           b == [o \in Order |-> BudgetsOf(o)]
           z == [x \in {} |-> None]
<1>5. DOMAIN z = {}
  OBVIOUS
<1>6. /\ job' = [state |-> "planning", count |-> job.count + 1, locked |-> TRUE,
                 kind |-> kind, queue |-> q, stock |-> a, rest |-> b, rows |-> z, deferred |-> z]
      /\ q \in Seq(Order) /\ a \in [Product -> [Size -> Nat]] /\ b \in [Order -> Budget]
      /\ z \in Rows /\ z \in Reasons
  BY <1>1, <1>2, <1>4
<1> HIDE DEF q, a, b, z
<1>7. job' \in PlanJob
  BY <1>3, <1>6 DEF PlanJob
<1>8. /\ job'.state = "planning" /\ job'.locked = TRUE
      /\ job'.queue = q /\ job'.stock = a /\ job'.rest = b
      /\ DOMAIN job'.rows = {} /\ DOMAIN job'.deferred = {}
  BY <1>5, <1>6
<1>9. /\ job.state = "idle"
      /\ UNCHANGED <<pending, client, photo, today, reservation, standby, linx, virtual, edits>>
  BY DEF StartPlan, given
<1> QED BY <1>7, <1>8, <1>9 DEF StartStep, q, a, b

-----------------------------------------------------------------------------
(* The steps of the system.                                                 *)

\* Approvals and the end of the 24 hours touch the state of reservations only.
StateStep ==
  /\ reservation' \in Book
  /\ \A x \in Pair : /\ reservation'[x] = None <=> reservation[x] = None
                     /\ reservation[x] # None => /\ reservation'[x].items = reservation[x].items
                                                 /\ reservation'[x].kind = reservation[x].kind
                                                 /\ reservation'[x].day = reservation[x].day
  /\ UNCHANGED <<pending, client, photo, today, standby, linx, virtual, job, edits>>

\* An approval, of a pair, an order or a product, is such a step.
LEMMA ApprovedFacts ==
  ASSUME TypeOK, NEW pairs, Approved(pairs)
  PROVE  StateStep
<1>1. reservation \in Book
  BY DEF TypeOK, Book
<1>2. /\ reservation' = [x \in Pair |-> IF x \in pairs /\ Open(x)
                                     THEN [reservation[x] EXCEPT !.state = "approved"]
                                     ELSE reservation[x]]
      /\ UNCHANGED <<pending, client, photo, today, standby, linx, virtual, job, edits>>
  BY Zenon DEF Approved, given
<1>3. ASSUME NEW x \in Pair
      PROVE  /\ reservation'[x] \in Reservation \cup {None}
             /\ reservation'[x] = None <=> reservation[x] = None
             /\ reservation[x] # None => /\ reservation'[x].items = reservation[x].items
                                         /\ reservation'[x].kind = reservation[x].kind
                                         /\ reservation'[x].day = reservation[x].day
  <2>1. CASE x \in pairs /\ Open(x)
    <3>1. reservation'[x] = [reservation[x] EXCEPT !.state = "approved"]
      BY <1>2, <2>1
    <3>2. reservation[x] \in Reservation
      BY <1>1, <2>1 DEF Open, Book
    <3>3. /\ reservation'[x] \in Reservation
          /\ reservation'[x].items = reservation[x].items
          /\ reservation'[x].kind = reservation[x].kind
          /\ reservation'[x].day = reservation[x].day
      BY <3>1, <3>2 DEF Reservation
    <3> QED BY <2>1, <3>3, NoneIsNothing DEF Open
  <2>2. CASE ~(x \in pairs /\ Open(x))
    BY <1>1, <1>2, <2>2 DEF Book
  <2> QED BY <2>1, <2>2
<1>4. reservation' \in Book
  <2>1. reservation' = [x \in Pair |-> reservation'[x]]
    BY <1>2
  <2> QED BY <1>3, <2>1 DEF Book
<1> QED BY <1>2, <1>3, <1>4 DEF StateStep

\* So is an expiry.
LEMMA ExpireFacts ==
  ASSUME TypeOK, NEW x \in Pair, Expire(x)
  PROVE  StateStep
<1>1. reservation \in Book
  BY DEF TypeOK, Book
<1>2. /\ reservation[x] # None
      /\ reservation' = [reservation EXCEPT ![x].state = "expired"]
      /\ UNCHANGED <<pending, client, photo, today, standby, linx, virtual, job, edits>>
  BY DEF Expire, given, Open
<1>3. reservation[x] \in Reservation
  BY <1>1, <1>2 DEF Book
<1> DEFINE r == [reservation[x] EXCEPT !.state = "expired"]
<1>4. /\ r \in Reservation /\ r.items = reservation[x].items
      /\ r.kind = reservation[x].kind /\ r.day = reservation[x].day
  BY <1>3 DEF Reservation
<1>5. reservation' = [reservation EXCEPT ![x] = r]
  BY <1>2
<1> HIDE DEF r
<1>6. reservation' \in Book
  BY <1>1, <1>4, <1>5 DEF Book
<1>7. reservation'[x] = r /\ \A y \in Pair : y # x => reservation'[y] = reservation[y]
  BY <1>1, <1>5 DEF Book
<1>8. r # None
  BY <1>4, NoneIsNothing
<1> QED BY <1>2, <1>4, <1>6, <1>7, <1>8 DEF StateStep

\* The steps of the job that write nothing but the job, and what they leave of it.
JobStep ==
  /\ job' \in PlanJob \cup OtherJob
  /\ job'.state # "planning"
  /\ job'.state = "planned" => /\ job.state = "planned" /\ job'.queue = job.queue /\ job'.rows = job.rows
                               /\ job'.deferred = job.deferred /\ job'.rest = job.rest
                               /\ job'.kind = job.kind
  /\ UNCHANGED <<pending, client, photo, today, reservation, standby, linx, virtual, edits>>

\* A job that ends counts.
LEMMA CountIsNat ==
  ASSUME TypeOK
  PROVE  job.count \in Nat /\ [NoJob EXCEPT !.count = job.count] \in OtherJob
         /\ [NoJob EXCEPT !.count = job.count].state = "idle"
<1>1. job.count \in Nat
  BY DEF TypeOK, PlanJob, OtherJob
<1> QED BY <1>1 DEF NoJob, OtherJob

\* Five actions are such steps.
LEMMA JobStepFacts ==
  ASSUME TypeOK, PlanFails \/ Stop \/ Resume \/ PlanIsStale \/ Forget
  PROVE  JobStep
<1>1. CASE PlanFails
  <2>1. job' = [NoJob EXCEPT !.state = "failed", !.count = job.count, !.locked = FALSE]
    BY <1>1 DEF PlanFails
  <2>2. job' \in OtherJob /\ job'.state = "failed"
    BY <2>1, CountIsNat DEF NoJob, OtherJob
  <2> QED BY <1>1, <2>2 DEF PlanFails, JobStep, given
<1>2. CASE Stop \/ Resume
  <2>1. job \in PlanJob /\ job.state = "planned"
    BY <1>2, PlanJobFields DEF Stop, Resume
  <2>2. PICK b \in BOOLEAN : job' = [job EXCEPT !.locked = b]
    BY <1>2 DEF Stop, Resume
  <2>3. /\ job' \in PlanJob /\ job'.state = "planned" /\ job'.queue = job.queue
        /\ job'.rows = job.rows /\ job'.deferred = job.deferred /\ job'.rest = job.rest
        /\ job'.kind = job.kind
    BY <2>1, <2>2 DEF PlanJob
  <2>4. UNCHANGED <<pending, client, photo, today, reservation, standby, linx, virtual, edits>>
    BY <1>2 DEF Stop, Resume, given
  <2> QED BY <2>1, <2>3, <2>4 DEF JobStep
<1>3. CASE PlanIsStale \/ Forget
  <2>1. job' = [NoJob EXCEPT !.count = job.count]
    BY <1>3 DEF PlanIsStale, Forget
  <2>2. job' \in OtherJob /\ job'.state = "idle"
    BY <2>1, CountIsNat
  <2>3. UNCHANGED <<pending, client, photo, today, reservation, standby, linx, virtual, edits>>
    BY <1>3 DEF PlanIsStale, Forget, given
  <2> QED BY <2>2, <2>3 DEF JobStep
<1> QED BY <1>1, <1>2, <1>3

\* What StorePlan does.
StoreStep ==
  /\ job.state = "planning" /\ job.queue = <<>>
  /\ job' \in PlanJob /\ job'.state = "planned"
  /\ job'.queue = job.queue /\ job'.rows = job.rows /\ job'.deferred = job.deferred
  /\ job'.rest = job.rest /\ job'.kind = job.kind
  /\ standby' \in [Pair -> Reason \cup {None}]
  /\ \A x \in Pair : standby'[x] = IF x \in DOMAIN job.deferred THEN job.deferred[x]
                       ELSE IF ~HasCredit(x[1]) /\ x[2] \in ProductsOf(x[1]) THEN "sem_credito"
                       ELSE standby[x]
  /\ UNCHANGED <<pending, client, photo, today, reservation, linx, virtual, edits>>

\* StorePlan is such a step.
LEMMA StorePlanFacts ==
  ASSUME TypeOK, StorePlan
  PROVE  StoreStep
<1>1. /\ job.state = "planning" /\ job.queue = <<>> /\ job' = [job EXCEPT !.state = "planned"]
      /\ standby' = [x \in Pair |->
           IF x \in DOMAIN job.deferred THEN job.deferred[x]
           ELSE IF ~HasCredit(x[1]) /\ x[2] \in ProductsOf(x[1]) THEN "sem_credito"
           ELSE standby[x]]
      /\ UNCHANGED <<pending, client, photo, today, reservation, linx, virtual, edits>>
  BY DEF StorePlan, given
<1>2. job \in PlanJob /\ job.deferred \in Reasons
  BY <1>1, PlanJobFields
<1>3. /\ job' \in PlanJob /\ job'.state = "planned" /\ job'.queue = job.queue
      /\ job'.rows = job.rows /\ job'.deferred = job.deferred /\ job'.rest = job.rest
      /\ job'.kind = job.kind
  BY <1>1, <1>2 DEF PlanJob
<1>4. \A x \in DOMAIN job.deferred : job.deferred[x] \in Reason
  BY <1>2 DEF Reasons
<1>5. standby \in [Pair -> Reason \cup {None}] /\ "sem_credito" \in Reason
  BY DEF TypeOK, Reason
<1>6. standby' \in [Pair -> Reason \cup {None}]
  BY <1>1, <1>4, <1>5
<1> QED BY <1>1, <1>3, <1>6 DEF StoreStep

\* Time passes, or a new photo arrives: nothing of the orders changes.
TimeStep ==
  /\ photo' \in [stock : [Product -> [Size -> Int]], day : Nat]
  /\ photo.day <= photo'.day /\ photo'.day <= today'
  /\ today' \in Nat /\ today <= today'
  /\ photo' = photo \/ (photo'.day > photo.day)
  /\ UNCHANGED <<pending, client, reservation, standby, linx, virtual, job, edits>>

\* NextDay and NewPhoto are such steps.
LEMMA TimeStepFacts ==
  ASSUME TypeOK, NextDay \/ NewPhoto
  PROVE  TimeStep
<1>0. /\ photo \in [stock : [Product -> [Size -> Int]], day : Nat] /\ photo.day \in Nat
      /\ today \in Nat /\ photo.day <= today
  BY DEF TypeOK
<1>1. CASE NextDay
  <2>1. /\ today' = today + 1 /\ photo' = photo
        /\ UNCHANGED <<pending, client, reservation, standby, linx, virtual, job, edits>>
    BY <1>1 DEF NextDay, given
  <2> QED BY <1>0, <2>1 DEF TimeStep
<1>2. CASE NewPhoto
  <2>1. PICK stock \in Stocks : photo' = [stock |-> stock, day |-> today]
    BY <1>2 DEF NewPhoto
  <2>2. stock \in [Product -> [Size -> Int]]
    BY AllocationAssumption
  <2>3. photo.day < today /\ today' = today
        /\ UNCHANGED <<pending, client, reservation, standby, linx, virtual, job, edits>>
    BY <1>2 DEF NewPhoto, given
  <2> QED BY <1>0, <2>1, <2>2, <2>3 DEF TimeStep
<1> QED BY <1>1, <1>2

\* The steps of the system, as facts about what they change.
Stepped ==
  \/ StartStep /\ job' \in PlanJob
  \/ \E o \in Order : PlanStep(o) /\ job' \in PlanJob
       /\ job.state = "planning" /\ job.queue # <<>>
       /\ UNCHANGED <<pending, client, photo, today, reservation, standby, linx, virtual, edits>>
  \/ JobStep \/ StoreStep \/ ApplyStep
  \/ \E p \in Product : \E O, sheet, C : EditStep(p, O, sheet, C)
  \/ StateStep \/ TimeStep
  \/ UNCHANGED vars

\* Every step of the specification is one of these: each action is expanded once, here,
\* and the invariants below are proved from Stepped.
LEMMA NextSteps ==
  ASSUME TypeOK, [Next]_vars
  PROVE  Stepped
<1>1. CASE StartPlan
  BY <1>1, StartPlanFacts DEF Stepped
<1>2. CASE PlanOrder
  <2>1. /\ job.state = "planning" /\ job.queue # <<>>
        /\ UNCHANGED <<pending, client, photo, today, reservation, standby, linx, virtual, edits>>
    BY <1>2 DEF PlanOrder, given
  <2> QED BY <1>2, <2>1, PlanOrderFacts DEF Stepped
<1>3. CASE PlanFails \/ Stop \/ Resume \/ PlanIsStale \/ Forget
  BY <1>3, JobStepFacts DEF Stepped
<1>4. CASE StorePlan
  BY <1>4, StorePlanFacts DEF Stepped
<1>5. CASE Apply
  BY <1>5, ApplyFacts DEF Stepped
<1>6. CASE \E p \in Product : EditGrades(p)
  BY <1>6, EditFacts DEF Stepped
<1>7. CASE \/ \E p \in Product : ApproveProduct(p)
           \/ \E o \in Order : ApproveOrder(o)
  <2>1. \E pairs : Approved(pairs)
    BY <1>7 DEF ApproveProduct, ApproveOrder
  <2> QED BY <2>1, ApprovedFacts DEF Stepped
<1>8. CASE \E x \in Pair : Expire(x)
  BY <1>8, ExpireFacts DEF Stepped
<1>9. CASE NextDay \/ NewPhoto
  BY <1>9, TimeStepFacts DEF Stepped
<1>10. CASE UNCHANGED vars
  BY <1>10 DEF Stepped
<1> QED BY <1>1, <1>2, <1>3, <1>4, <1>5, <1>6, <1>7, <1>8, <1>9, <1>10 DEF Next

-----------------------------------------------------------------------------
(* Type correctness.                                                        *)

\* Steps keep the types.
LEMMA StepKeepsTypes ==
  ASSUME TypeOK, Stepped
  PROVE  TypeOK'
<1>0. /\ reservation \in Book /\ pending \in Pending /\ client \in Clients
      /\ photo \in [stock : [Product -> [Size -> Int]], day : Nat] /\ photo.day \in Nat
      /\ today \in Nat /\ photo.day <= today
      /\ edits \in Nat /\ DOMAIN linx = Pair
      /\ \A x \in Pair : reservation[x] # None => reservation[x].day <= today
  BY DEF TypeOK, Book
<1>1. CASE StartStep /\ job' \in PlanJob
  BY <1>1 DEF StartStep, TypeOK
<1>2. CASE \E o \in Order : PlanStep(o) /\ job' \in PlanJob
              /\ job.state = "planning" /\ job.queue # <<>>
              /\ UNCHANGED <<pending, client, photo, today, reservation, standby, linx, virtual, edits>>
  <2>1. job'.state = "planning" /\ job'.locked = job.locked
    BY <1>2 DEF PlanStep
  <2> QED BY <1>2, <2>1 DEF TypeOK
<1>3. CASE JobStep
  BY <1>3 DEF JobStep, TypeOK
<1>4. CASE StoreStep
  BY <1>4 DEF StoreStep, TypeOK
<1>5. CASE ApplyStep
  <2>1. virtual' \in [Keys -> [qty : Nat, day : Nat] \cup {None}]
        /\ \A k \in Keys : virtual'[k] # None => virtual'[k].day <= photo.day
    <3>1. reservation' \in Book
          /\ virtual' = Recalculated(reservation', UNION {TargetsOf(x) : x \in DOMAIN job.rows})
      BY <1>5 DEF ApplyStep
    <3> QED BY <3>1, RecalculatedFacts
  <2>2. ASSUME NEW x \in Pair, reservation'[x] # None PROVE reservation'[x].day <= today
    <3>1. CASE x \in DOMAIN job.rows
      <4>1. reservation'[x] = Payload(x)
        BY <1>5, <3>1 DEF ApplyStep
      <4>2. reservation'[x].day = today
        BY <4>1 DEF Payload
      <4> QED BY <1>0, <4>2
    <3>2. CASE x \notin DOMAIN job.rows
      <4>1. reservation'[x] = reservation[x]
        BY <1>5, <3>2 DEF ApplyStep
      <4> QED BY <1>0, <2>2, <4>1
    <3> QED BY <3>1, <3>2
  <2>3. standby' \in [Pair -> Reason \cup {None}]
    <3>1. standby \in [Pair -> Reason \cup {None}]
      BY DEF TypeOK
    <3> QED BY <1>5, <3>1 DEF ApplyStep
  <2>4. /\ job' \in OtherJob /\ job'.state = "idle"
        /\ reservation' \in [Pair -> Reservation \cup {None}] /\ DOMAIN linx' = Pair
        /\ UNCHANGED <<pending, client, photo, today, edits>>
    BY <1>5, CountIsNat DEF ApplyStep, Book
  <2> QED BY <1>0, <2>1, <2>2, <2>3, <2>4 DEF TypeOK
<1>6. CASE \E p \in Product : \E O, sheet, C : EditStep(p, O, sheet, C)
  <2>1. PICK p \in Product : \E O, sheet, C : EditStep(p, O, sheet, C)
    BY <1>6
  <2>2. PICK O, sheet, C : EditStep(p, O, sheet, C)
    BY <2>1
  <2>3. virtual' \in [Keys -> [qty : Nat, day : Nat] \cup {None}]
        /\ \A k \in Keys : virtual'[k] # None => virtual'[k].day <= photo.day
    <3>1. reservation' \in Book
          /\ virtual' = Recalculated(reservation',
               {p} \X UNION {DOMAIN sheet[o] \cup DOMAIN reservation[<<o, p>>].items : o \in O})
      BY <2>2 DEF EditStep
    <3> QED BY <3>1, RecalculatedFacts
  <2>4. ASSUME NEW x \in Pair, reservation'[x] # None PROVE reservation'[x].day <= today
    <3>1. CASE x \in C \X {p}
      <4>1. PICK o \in O : x = <<o, p>>
        BY <2>2, <3>1 DEF EditStep
      <4>2. reservation'[x].day = reservation[x].day /\ reservation[x] # None
        BY <2>2, <4>1 DEF EditStep
      <4> QED BY <1>0, <4>2
    <3>2. CASE x \notin C \X {p}
      <4>1. reservation'[x] = reservation[x]
        BY <2>2, <3>2 DEF EditStep
      <4> QED BY <1>0, <2>4, <4>1
    <3> QED BY <3>1, <3>2
  <2>5. /\ reservation' \in [Pair -> Reservation \cup {None}] /\ DOMAIN linx' = Pair
        /\ edits' = edits + 1
        /\ UNCHANGED <<pending, client, photo, today, standby, job>>
    BY <2>2 DEF EditStep, Book
  <2> QED BY <1>0, <2>3, <2>4, <2>5 DEF TypeOK
<1>7. CASE StateStep
  <2>1. \A x \in Pair : reservation'[x] # None => reservation'[x].day <= today
    BY <1>0, <1>7 DEF StateStep
  <2>2. /\ reservation' \in [Pair -> Reservation \cup {None}]
        /\ UNCHANGED <<pending, client, photo, today, standby, linx, virtual, job, edits>>
    BY <1>7 DEF StateStep, Book
  <2> QED BY <2>1, <2>2 DEF TypeOK
<1>8. CASE TimeStep
  <2>1. /\ photo' \in [stock : [Product -> [Size -> Int]], day : Nat]
        /\ photo'.day \in Nat /\ photo.day <= photo'.day /\ photo'.day <= today'
        /\ today' \in Nat /\ today <= today'
        /\ UNCHANGED <<pending, client, reservation, standby, linx, virtual, job, edits>>
    BY <1>8 DEF TimeStep
  <2>2. \A x \in Pair : reservation[x] # None => reservation[x].day \in Nat
    BY <1>0, BookEntry
  <2>3. \A x \in Pair : reservation'[x] # None => reservation'[x].day <= today'
    BY <1>0, <2>1, <2>2
  <2>4. \A k \in Keys : virtual'[k] # None => virtual'[k].day <= photo'.day
    <3>1. /\ virtual \in [Keys -> [qty : Nat, day : Nat] \cup {None}]
          /\ \A k \in Keys : virtual[k] # None => virtual[k].day <= photo.day
      BY DEF TypeOK
    <3>2. \A k \in Keys : virtual[k] # None => virtual[k].day \in Nat
      BY <3>1
    <3> QED BY <1>0, <2>1, <3>1, <3>2
  <2> QED BY <1>0, <2>1, <2>3, <2>4 DEF TypeOK
<1>9. CASE UNCHANGED vars
  BY <1>9 DEF TypeOK, vars
<1> QED BY <1>1, <1>2, <1>3, <1>4, <1>5, <1>6, <1>7, <1>8, <1>9 DEF Stepped

\* Type correctness: whatever is planned, applied, edited, approved or expired, grades,
\* plans and rows stay typed; in particular a processing job that plans holds the lock and no
\* row of estoque_virtual is newer than the photo of estoque.
THEOREM AllocationTypeOK == Spec => []TypeOK
<1>1. Init => TypeOK
  BY InitType
<1>2. TypeOK /\ [Next]_vars => TypeOK'
  BY NextSteps, StepKeepsTypes
<1> QED BY <1>1, <1>2, PTL DEF Spec

-----------------------------------------------------------------------------
(* The plan and the orders.                                                 *)

\* The job has a plan, complete or not.
InPlan == job.state \in {"planning", "planned"}

\* Every order is planned once, and only with credit.
QueueOK ==
  InPlan => /\ Distinct(job.queue)
            /\ \A o \in QueuedIn(job.queue) : o \in Order /\ HasCredit(o)

\* A plan has rows and reasons for pairs that are not reserved, of orders that it has done
\* with, and its rows keep the value that was ordered.
RowsOK ==
  InPlan =>
    /\ \A x \in DOMAIN job.rows :
         /\ pending[x] # None /\ reservation[x] = None /\ x[1] \notin QueuedIn(job.queue)
         /\ Value(job.rows[x]) - Diff(job.rows[x]) = Value(Grade(x[1], x[2]))
    /\ \A x \in DOMAIN job.deferred : x \in Pair /\ reservation[x] = None

\* Each product of an order that the plan has done with has a row or a reason.
AnswersOK ==
  job.state = "planning" =>
    \A o \in Order : HasCredit(o) /\ o \notin QueuedIn(job.queue) =>
      \A p \in ProductsOf(o) : <<o, p>> \in DOMAIN job.rows \cup DOMAIN job.deferred

\* The invariant of the plan.  It is what relates the frozen plan to the orders: without it
\* a step that applies the plan could overwrite a reservation.
PlanOK == TypeOK /\ QueueOK /\ RowsOK /\ AnswersOK

\* What a step leaves alone when it keeps which pairs are reserved.
SameReserved == \A x \in Pair : reservation'[x] = None <=> reservation[x] = None

\* Only Apply reserves: the other steps keep which pairs are reserved.
LEMMA SameReservedFacts ==
  ASSUME TypeOK, JobStep \/ StoreStep \/ (\E p \in Product : \E O, sheet, C : EditStep(p, O, sheet, C))
                   \/ StateStep \/ TimeStep \/ UNCHANGED vars
  PROVE  SameReserved /\ pending' = pending /\ client' = client
<1>1. CASE JobStep \/ StoreStep \/ TimeStep \/ UNCHANGED vars
  BY <1>1 DEF JobStep, StoreStep, TimeStep, vars, SameReserved
<1>2. CASE StateStep
  BY <1>2 DEF StateStep, SameReserved
<1>3. CASE \E p \in Product : \E O, sheet, C : EditStep(p, O, sheet, C)
  <2>1. PICK p \in Product : \E O, sheet, C : EditStep(p, O, sheet, C)
    BY <1>3
  <2>2. PICK O, sheet, C : EditStep(p, O, sheet, C)
    BY <2>1
  <2>3. ASSUME NEW x \in Pair PROVE reservation'[x] = None <=> reservation[x] = None
    <3>1. CASE x \in C \X {p}
      <4>1. PICK o \in O : x = <<o, p>>
        BY <2>2, <3>1 DEF EditStep
      <4>2. reservation'[x] \in Reservation /\ reservation[x] # None
        BY <2>2, <4>1 DEF EditStep
      <4> QED BY <4>2, NoneIsNothing
    <3>2. CASE x \notin C \X {p}
      BY <2>2, <3>2 DEF EditStep
    <3> QED BY <3>1, <3>2
  <2> QED BY <2>2, <2>3 DEF SameReserved, EditStep
<1> QED BY <1>1, <1>2, <1>3

\* So the products that an order still waits for stay the same.
LEMMA ProductsKept ==
  ASSUME SameReserved, pending' = pending
  PROVE  \A o \in Order : ProductsOf(o)' = ProductsOf(o)
<1>1. ASSUME NEW o \in Order, NEW p \in Product
      PROVE  reservation'[<<o, p>>] = None <=> reservation[<<o, p>>] = None
  BY DEF SameReserved, Pair
<1> QED BY <1>1 DEF ProductsOf, Reserved

\* A step that keeps plan and reserved pairs keeps the invariant of the plan.
LEMMA PlanKept ==
  ASSUME PlanOK, SameReserved, pending' = pending, client' = client,
         job'.state # "planning" \/ job' = job,
         InPlan' => /\ InPlan /\ job'.queue = job.queue /\ job'.rows = job.rows
                    /\ job'.deferred = job.deferred
  PROVE  QueueOK' /\ RowsOK' /\ AnswersOK'
<1>1. QueueOK'
  BY DEF QueueOK, PlanOK, HasCredit
<1>2. RowsOK'
  <2> SUFFICES ASSUME InPlan' PROVE
        /\ \A x \in DOMAIN job'.rows :
             /\ pending'[x] # None /\ reservation'[x] = None /\ x[1] \notin QueuedIn(job'.queue)
             /\ Value(job'.rows[x]) - Diff(job'.rows[x]) = Value(Grade(x[1], x[2])')
        /\ \A x \in DOMAIN job'.deferred : x \in Pair /\ reservation'[x] = None
    BY DEF RowsOK
  <2>1. \A o, p : Grade(o, p)' = Grade(o, p)
    BY DEF Grade
  <2>2. DOMAIN job.rows \subseteq Pair
    BY PlanJobFields DEF PlanOK, InPlan
  <2>3. /\ \A x \in DOMAIN job.rows :
             /\ pending[x] # None /\ reservation[x] = None /\ x[1] \notin QueuedIn(job.queue)
             /\ Value(job.rows[x]) - Diff(job.rows[x]) = Value(Grade(x[1], x[2]))
        /\ \A x \in DOMAIN job.deferred : x \in Pair /\ reservation[x] = None
    BY DEF PlanOK, RowsOK
  <2>4. job'.queue = job.queue /\ job'.rows = job.rows /\ job'.deferred = job.deferred
    OBVIOUS
  <2>5. \A x \in DOMAIN job.rows : reservation'[x] = None
    BY <2>2, <2>3 DEF SameReserved
  <2>6. \A x \in DOMAIN job.deferred : x \in Pair /\ reservation'[x] = None
    BY <2>3 DEF SameReserved
  <2> QED BY <2>1, <2>3, <2>4, <2>5, <2>6
<1>3. AnswersOK'
  BY ProductsKept DEF AnswersOK, PlanOK, HasCredit
<1> QED BY <1>1, <1>2, <1>3

\* Planning an order keeps it.
LEMMA PlanStepKeepsPlan ==
  ASSUME PlanOK, NEW o, PlanStep(o), job' \in PlanJob,
         job.state = "planning", job.queue # <<>>,
         UNCHANGED <<pending, client, photo, today, reservation, standby, linx, virtual, edits>>
  PROVE  QueueOK' /\ RowsOK' /\ AnswersOK'
<1>1. /\ InPlan /\ job.queue \in Seq(Order) /\ Distinct(job.queue)
      /\ \A a \in QueuedIn(job.queue) : a \in Order /\ HasCredit(a)
  BY PlanJobFields DEF PlanOK, QueueOK, InPlan
<1>2. /\ o = Head(job.queue) /\ o \in Order /\ job'.queue = Tail(job.queue)
      /\ job'.state = "planning"
  BY DEF PlanStep
<1>3. /\ o \in QueuedIn(job.queue) /\ Distinct(job'.queue)
      /\ QueuedIn(job'.queue) = QueuedIn(job.queue) \ {o}
  BY <1>1, <1>2, TailFacts
<1>4. \A a : HasCredit(a)' = HasCredit(a)
  BY DEF HasCredit
<1>5. QueueOK'
  BY <1>1, <1>3, <1>4 DEF QueueOK
<1>6. \A a, p : Grade(a, p)' = Grade(a, p)
  BY DEF Grade
<1>7. \A a \in Order : ProductsOf(a)' = ProductsOf(a)
  BY DEF ProductsOf, Reserved
<1>8. \A p \in ProductsOf(o) : pending[<<o, p>>] # None /\ reservation[<<o, p>>] = None /\ <<o, p>> \in Pair
  BY <1>2 DEF ProductsOf, Reserved, Pair
<1>9. /\ \A x \in DOMAIN job.rows :
           /\ pending[x] # None /\ reservation[x] = None /\ x[1] \notin QueuedIn(job.queue)
           /\ Value(job.rows[x]) - Diff(job.rows[x]) = Value(Grade(x[1], x[2]))
      /\ \A x \in DOMAIN job.deferred : x \in Pair /\ reservation[x] = None
  BY <1>1 DEF PlanOK, RowsOK
<1>10. ASSUME NEW x \in DOMAIN job'.rows
       PROVE  /\ pending[x] # None /\ reservation[x] = None /\ x[1] \notin QueuedIn(job'.queue)
              /\ Value(job'.rows[x]) - Diff(job'.rows[x]) = Value(Grade(x[1], x[2]))
  <2>1. CASE x \in {o} \X Planned(o)
    <3>1. PICK p \in Planned(o) : x = <<o, p>>
      BY <2>1
    <3>2. p \in ProductsOf(o) /\ Value(job'.rows[<<o, p>>]) - Diff(job'.rows[<<o, p>>]) = Value(Grade(o, p))
      BY DEF PlanStep
    <3>3. x[1] = o /\ x[2] = p
      BY <3>1
    <3> QED BY <1>3, <1>8, <3>1, <3>2, <3>3
  <2>2. CASE x \notin {o} \X Planned(o)
    <3>1. x \in DOMAIN job.rows /\ job'.rows[x] = job.rows[x]
      BY <2>2 DEF PlanStep
    <3> QED BY <1>3, <1>9, <3>1
  <2> QED BY <2>1, <2>2
<1>11. ASSUME NEW x \in DOMAIN job'.deferred PROVE x \in Pair /\ reservation[x] = None
  <2>1. x \in {o} \X (ProductsOf(o) \ Planned(o)) \/ x \in DOMAIN job.deferred
    BY DEF PlanStep
  <2> QED BY <1>8, <1>9, <2>1
<1>12. RowsOK'
  BY <1>6, <1>10, <1>11 DEF RowsOK
<1>13. AnswersOK'
  <2> SUFFICES ASSUME NEW a \in Order, HasCredit(a), a \notin QueuedIn(job'.queue), NEW p \in ProductsOf(a)
               PROVE  <<a, p>> \in DOMAIN job'.rows \cup DOMAIN job'.deferred
    BY <1>4, <1>7 DEF AnswersOK
  <2>1. CASE a = o
    BY <2>1 DEF PlanStep
  <2>2. CASE a # o
    <3>1. <<a, p>> \in DOMAIN job.rows \cup DOMAIN job.deferred
      BY <1>3, <2>2 DEF PlanOK, AnswersOK
    <3> QED BY <3>1 DEF PlanStep
  <2> QED BY <2>1, <2>2
<1> QED BY <1>5, <1>12, <1>13

\* Every step keeps it.
LEMMA StepKeepsPlan ==
  ASSUME PlanOK, Stepped
  PROVE  PlanOK'
<1>0. TypeOK' /\ TypeOK
  BY StepKeepsTypes DEF PlanOK
<1>1. CASE StartStep /\ job' \in PlanJob
  <2>1. /\ job'.queue = Priority /\ DOMAIN job'.rows = {} /\ DOMAIN job'.deferred = {}
        /\ UNCHANGED <<pending, client, photo, today, reservation, standby, linx, virtual, edits>>
    BY <1>1 DEF StartStep
  <2>2. Distinct(Priority) /\ QueuedIn(Priority) = Waiting
    BY <1>0, PriorityFacts
  <2>3. \A a : HasCredit(a)' = HasCredit(a)
    BY <2>1 DEF HasCredit
  <2>4. \A a \in Order : ProductsOf(a)' = ProductsOf(a)
    BY <2>1 DEF ProductsOf, Reserved
  <2>5. QueueOK'
    BY <2>1, <2>2, <2>3 DEF QueueOK, Waiting
  <2>6. RowsOK'
    BY <2>1 DEF RowsOK
  <2>7. AnswersOK'
    BY <2>1, <2>2, <2>3, <2>4 DEF AnswersOK, Waiting
  <2> QED BY <1>0, <2>5, <2>6, <2>7 DEF PlanOK
<1>2. CASE \E o \in Order : PlanStep(o) /\ job' \in PlanJob
              /\ job.state = "planning" /\ job.queue # <<>>
              /\ UNCHANGED <<pending, client, photo, today, reservation, standby, linx, virtual, edits>>
  BY <1>0, <1>2, PlanStepKeepsPlan DEF PlanOK
<1>3. CASE JobStep
  <2>1. /\ InPlan' => /\ InPlan /\ job'.queue = job.queue /\ job'.rows = job.rows
                      /\ job'.deferred = job.deferred
        /\ job'.state # "planning"
    BY <1>3 DEF JobStep, InPlan
  <2> QED BY <1>0, <1>3, <2>1, SameReservedFacts, PlanKept DEF PlanOK
<1>4. CASE StoreStep
  <2>1. /\ InPlan' => /\ InPlan /\ job'.queue = job.queue /\ job'.rows = job.rows
                      /\ job'.deferred = job.deferred
        /\ job'.state # "planning"
    BY <1>4 DEF StoreStep, InPlan
  <2> QED BY <1>0, <1>4, <2>1, SameReservedFacts, PlanKept DEF PlanOK
<1>5. CASE ApplyStep
  <2>1. job'.state = "idle"
    BY <1>0, <1>5, CountIsNat DEF ApplyStep
  <2> QED BY <1>0, <2>1 DEF PlanOK, QueueOK, RowsOK, AnswersOK, InPlan
<1>6. CASE \E p \in Product : \E O, sheet, C : EditStep(p, O, sheet, C)
  <2>1. job' = job
    BY <1>6 DEF EditStep
  <2>2. InPlan' => InPlan /\ job'.queue = job.queue /\ job'.rows = job.rows /\ job'.deferred = job.deferred
    BY <2>1 DEF InPlan
  <2> QED BY <1>0, <1>6, <2>1, <2>2, SameReservedFacts, PlanKept DEF PlanOK
<1>7. CASE StateStep \/ TimeStep \/ UNCHANGED vars
  <2>1. job' = job
    BY <1>7 DEF StateStep, TimeStep, vars
  <2>2. InPlan' => InPlan /\ job'.queue = job.queue /\ job'.rows = job.rows /\ job'.deferred = job.deferred
    BY <2>1 DEF InPlan
  <2> QED BY <1>0, <1>7, <2>1, <2>2, SameReservedFacts, PlanKept DEF PlanOK
<1> QED BY <1>1, <1>2, <1>3, <1>4, <1>5, <1>6, <1>7 DEF Stepped

\* A plan, from its first order to its writes, and across a stop between the two, only
\* names pairs that have no reservation: edits and approvals in between reserve nothing.  So
\* apply_pairs never overwrites a row, each order is planned once, and none without credit.
THEOREM AllocationPlanOK == Spec => []PlanOK
<1>1. Init => PlanOK
  BY InitType DEF Init, NoJob, PlanOK, QueueOK, RowsOK, AnswersOK, InPlan
<1>2. PlanOK /\ [Next]_vars => PlanOK'
  BY NextSteps, StepKeepsPlan DEF PlanOK
<1> QED BY <1>1, <1>2, PTL DEF Spec

-----------------------------------------------------------------------------
(* Derived rows.                                                            *)

\* The pieces of size s that the reservation r[<<o, p>>] takes from a photo of this day.
At(r, day, o, p, s) == IF o \in Fresh(r, day, p, s) THEN r[<<o, p>>].items[s].qty ELSE 0

\* What is taken is a sum over all the orders.
LEMMA TakenIsTotal ==
  ASSUME NEW r, r \in Book, NEW day, NEW p \in Product, NEW s
  PROVE  /\ Taken(r, day, p, s) = SumFunctionOnSet([o \in Order |-> At(r, day, o, p, s)], Order)
         /\ \A o \in Order : At(r, day, o, p, s) \in Nat
<1> DEFINE T == Fresh(r, day, p, s)
           e == [o \in T |-> r[<<o, p>>].items[s].qty]
           f == [o \in Order |-> At(r, day, o, p, s)]
<1>1. /\ Taken(r, day, p, s) = SumFunctionOnSet(e, T)
      /\ \A o \in T : r[<<o, p>>].items[s].qty \in Nat
  BY TakenFacts
<1>2. T \in SUBSET Order /\ IsFiniteSet(Order)
  BY Finite DEF Fresh
<1>3. /\ \A o \in T : e[o] \in Int
      /\ \A o \in Order : f[o] = IF o \in T THEN e[o] ELSE 0
      /\ \A o \in Order : At(r, day, o, p, s) \in Nat
  BY <1>1 DEF At
<1> HIDE DEF T, e, f
<1>4. SumFunctionOnSet(e, T) = SumFunctionOnSet(f, Order)
  BY <1>2, <1>3, SumExtend
<1> QED BY <1>1, <1>3, <1>4 DEF f

\* It depends on what each order takes.
LEMMA TakenAlike ==
  ASSUME NEW r, r \in Book, NEW q, q \in Book, NEW day, NEW p \in Product, NEW s,
         \A o \in Order : At(r, day, o, p, s) = At(q, day, o, p, s)
  PROVE  Taken(r, day, p, s) = Taken(q, day, p, s)
<1>1. [o \in Order |-> At(r, day, o, p, s)] = [o \in Order |-> At(q, day, o, p, s)]
  OBVIOUS
<1>2. /\ Taken(r, day, p, s) = SumFunctionOnSet([o \in Order |-> At(r, day, o, p, s)], Order)
      /\ Taken(q, day, p, s) = SumFunctionOnSet([o \in Order |-> At(q, day, o, p, s)], Order)
  BY TakenIsTotal
<1> QED BY <1>1, <1>2

\* Two entries that count the same.
SameEntry(a, b) ==
  /\ a = None <=> b = None
  /\ a # None => a.items = b.items /\ a.day = b.day

\* They take the same.
LEMMA EntryCounts ==
  ASSUME NEW r, NEW q, NEW o \in Order, NEW p \in Product, SameEntry(r[<<o, p>>], q[<<o, p>>]),
         NEW day, NEW s
  PROVE  At(r, day, o, p, s) = At(q, day, o, p, s)
<1>1. o \in Fresh(r, day, p, s) <=> o \in Fresh(q, day, p, s)
  BY DEF SameEntry, Fresh
<1>2. o \in Fresh(r, day, p, s) => r[<<o, p>>].items = q[<<o, p>>].items
  BY DEF SameEntry, Fresh
<1> QED BY <1>1, <1>2 DEF At

\* The second half of DerivedRowsAgree, and the first.
StockRowsAgree ==
  \A k \in Keys :
    (virtual[k] # None /\ virtual[k].day = photo.day) =>
      virtual[k].qty = Left(reservation, k[1], k[2])

LinxRowsAgree ==
  \A o \in Order, p \in Product :
    Reserved(o, p) => linx[<<o, p>>] = LinxRow(p, reservation[<<o, p>>].items)

\* Together they are the property.
LEMMA RowsAgreeParts ==
  DerivedRowsAgree <=> LinxRowsAgree /\ StockRowsAgree
BY DEF DerivedRowsAgree, LinxRowsAgree, StockRowsAgree

\* A key that is not recalculated need not be: nobody takes more or less of it.
LEMMA OtherKeysAgree ==
  ASSUME TypeOK, StockRowsAgree, reservation' \in Book, photo' = photo, NEW keys,
         \/ virtual' = Recalculated(reservation', keys)
         \/ virtual' = virtual /\ keys = {},
         \A k \in Keys \ keys : \A o \in Order :
           At(reservation', photo.day, o, k[1], k[2]) = At(reservation, photo.day, o, k[1], k[2])
  PROVE  StockRowsAgree'
<1> SUFFICES ASSUME NEW k \in Keys, virtual'[k] # None, virtual'[k].day = photo.day
             PROVE  virtual'[k].qty = Left(reservation', k[1], k[2])
  BY DEF StockRowsAgree, Keys, Left
<1>1. k[1] \in Product /\ k[2] \in Size /\ reservation \in Book
  BY DEF Keys, TypeOK, Book
<1>3. CASE k \in keys
  <2>1. virtual' = Recalculated(reservation', keys)
    BY <1>3
  <2>2. Recalculated(reservation', keys)[k].qty = Left(reservation', k[1], k[2])
    BY <1>3, RecalculatedFacts
  <2> QED BY <2>1, <2>2
<1>4. CASE k \notin keys
  <2>1. virtual'[k] = virtual[k]
    <3>1. Recalculated(reservation', keys)[k] = virtual[k]
      BY <1>4, RecalculatedFacts
    <3> QED BY <3>1
  <2>2. virtual[k].qty = Left(reservation, k[1], k[2])
    BY <2>1 DEF StockRowsAgree
  <2>3. Taken(reservation', photo.day, k[1], k[2]) = Taken(reservation, photo.day, k[1], k[2])
    BY <1>1, <1>4, TakenAlike
  <2>4. Left(reservation', k[1], k[2]) = Left(reservation, k[1], k[2])
    BY <2>3 DEF Left
  <2> QED BY <2>1, <2>2, <2>4
<1> QED BY <1>3, <1>4

\* The stock targets of the rows that are written are all the keys they touch, sizes
\* without a piece aside, which take nothing.
LEMMA ApplyKeepsRows ==
  ASSUME PlanOK, DerivedRowsAgree, ApplyStep
  PROVE  LinxRowsAgree' /\ StockRowsAgree'
<1> DEFINE keys == UNION {TargetsOf(x) : x \in DOMAIN job.rows}
<1>0. /\ TypeOK /\ LinxRowsAgree /\ StockRowsAgree /\ job.state = "planned" /\ InPlan
      /\ reservation \in Book /\ photo.day \in Nat /\ photo.day <= today /\ today \in Nat
  BY RowsAgreeParts DEF PlanOK, ApplyStep, InPlan, TypeOK, Book
<1>1. /\ DOMAIN job.rows \subseteq Pair /\ \A x \in DOMAIN job.rows : IsGrade(job.rows[x])
      /\ \A x \in DOMAIN job.rows : reservation[x] = None
  BY <1>0, PlanJobFields DEF PlanOK, RowsOK
<1>2. LinxRowsAgree'
  <2> SUFFICES ASSUME NEW o \in Order, NEW p \in Product, reservation'[<<o, p>>] # None
               PROVE  linx'[<<o, p>>] = LinxRow(p, reservation'[<<o, p>>].items)
    BY DEF LinxRowsAgree, Reserved, LinxRow
  <2>0. <<o, p>> \in Pair
    BY DEF Pair
  <2>1. CASE <<o, p>> \in DOMAIN job.rows
    <3>1. /\ linx'[<<o, p>>] = LinxRow(<<o, p>>[2], job.rows[<<o, p>>])
          /\ reservation'[<<o, p>>] = Payload(<<o, p>>)
      BY <2>1 DEF ApplyStep
    <3>2. reservation'[<<o, p>>].items = job.rows[<<o, p>>] /\ <<o, p>>[2] = p
      BY <3>1 DEF Payload
    <3> QED BY <3>1, <3>2
  <2>2. CASE <<o, p>> \notin DOMAIN job.rows
    <3>1. linx'[<<o, p>>] = linx[<<o, p>>] /\ reservation'[<<o, p>>] = reservation[<<o, p>>]
      BY <2>0, <2>2 DEF ApplyStep
    <3> QED BY <1>0, <3>1 DEF LinxRowsAgree, Reserved
  <2> QED BY <2>1, <2>2
<1>3. ASSUME NEW k \in Keys \ keys, NEW o \in Order
      PROVE  At(reservation', photo.day, o, k[1], k[2]) = At(reservation, photo.day, o, k[1], k[2])
  <2> DEFINE p == k[1]
             s == k[2]
             x == <<o, p>>
  <2>0. p \in Product /\ s \in Size /\ k = <<p, s>> /\ x \in Pair
    BY DEF Keys, Pair
  <2>1. CASE x \in DOMAIN job.rows
    <3>1. At(reservation, photo.day, o, p, s) = 0
      BY <1>1, <2>1 DEF At, Fresh
    <3>2. reservation'[x].items = job.rows[x]
      <4>1. reservation'[x] = Payload(x)
        BY <2>1 DEF ApplyStep
      <4> QED BY <4>1 DEF Payload
    <3>3. s \in DOMAIN job.rows[x] => job.rows[x][s].qty = 0
      <4> SUFFICES ASSUME s \in DOMAIN job.rows[x], job.rows[x][s].qty # 0 PROVE FALSE
        OBVIOUS
      <4>1. job.rows[x][s].qty > 0
        BY <1>1, <2>1 DEF IsGrade, Item
      <4>2. k \in TargetsOf(x)
        BY <2>0, <4>1 DEF TargetsOf
      <4> QED BY <2>1, <4>2
    <3>4. At(reservation', photo.day, o, p, s) = 0
      BY <3>2, <3>3 DEF At, Fresh
    <3> QED BY <3>1, <3>4
  <2>2. CASE x \notin DOMAIN job.rows
    <3>1. reservation'[x] = reservation[x]
      BY <2>0, <2>2 DEF ApplyStep
    <3>2. SameEntry(reservation'[x], reservation[x])
      BY <3>1 DEF SameEntry
    <3> QED BY <2>0, <3>2, EntryCounts
  <2> QED BY <2>1, <2>2
<1>4. reservation' \in Book /\ photo' = photo /\ virtual' = Recalculated(reservation', keys)
  BY DEF ApplyStep
<1> HIDE DEF keys
<1>5. StockRowsAgree'
  BY <1>0, <1>3, <1>4, OtherKeysAgree
<1> QED BY <1>2, <1>5

\* The sizes of the old grades and of the new ones are all the keys that an edit touches.
LEMMA EditKeepsRows ==
  ASSUME TypeOK, DerivedRowsAgree, NEW p \in Product, NEW O, NEW sheet, NEW C, EditStep(p, O, sheet, C)
  PROVE  LinxRowsAgree' /\ StockRowsAgree'
<1> DEFINE keys == {p} \X UNION {DOMAIN sheet[o] \cup DOMAIN reservation[<<o, p>>].items : o \in O}
<1>0. LinxRowsAgree /\ StockRowsAgree /\ reservation \in Book
  BY RowsAgreeParts DEF TypeOK, Book
<1>2. LinxRowsAgree'
  <2> SUFFICES ASSUME NEW o \in Order, NEW q \in Product, reservation'[<<o, q>>] # None
               PROVE  linx'[<<o, q>>] = LinxRow(q, reservation'[<<o, q>>].items)
    BY DEF LinxRowsAgree, Reserved, LinxRow
  <2>0. <<o, q>> \in Pair
    BY DEF Pair
  <2>1. CASE <<o, q>> \in C \X {p}
    BY <2>1 DEF EditStep
  <2>2. CASE <<o, q>> \notin C \X {p}
    <3>1. linx'[<<o, q>>] = linx[<<o, q>>] /\ reservation'[<<o, q>>] = reservation[<<o, q>>]
      BY <2>0, <2>2 DEF EditStep
    <3> QED BY <1>0, <3>1 DEF LinxRowsAgree, Reserved
  <2> QED BY <2>1, <2>2
<1>3. ASSUME NEW k \in Keys \ keys, NEW o \in Order
      PROVE  At(reservation', photo.day, o, k[1], k[2]) = At(reservation, photo.day, o, k[1], k[2])
  <2> DEFINE q == k[1]
             s == k[2]
             x == <<o, q>>
  <2>0. q \in Product /\ s \in Size /\ k = <<q, s>> /\ x \in Pair
    BY DEF Keys, Pair
  <2>1. CASE o \in O /\ q = p
    <3>1. s \notin DOMAIN sheet[o] /\ s \notin DOMAIN reservation[x].items
      BY <2>0, <2>1
    <3>2. /\ reservation[x] # None /\ sheet[o] \in Sheets
          /\ reservation'[x].items = Regraded(reservation[x].items, reservation[x].kind, sheet[o])
      BY <2>1 DEF EditStep
    <3>3. IsGrade(reservation[x].items)
      BY <1>0, <2>0, <3>2, BookEntry
    <3>4. DOMAIN reservation'[x].items = DOMAIN sheet[o]
      BY <3>2, <3>3, RegradedFacts
    <3> QED BY <3>1, <3>4 DEF At, Fresh
  <2>2. CASE ~(o \in O /\ q = p)
    <3>1. reservation'[x] = reservation[x]
      BY <2>0, <2>2 DEF EditStep
    <3>2. SameEntry(reservation'[x], reservation[x])
      BY <3>1 DEF SameEntry
    <3> QED BY <2>0, <3>2, EntryCounts
  <2> QED BY <2>1, <2>2
<1>4. reservation' \in Book /\ photo' = photo /\ virtual' = Recalculated(reservation', keys)
  BY DEF EditStep
<1> HIDE DEF keys
<1>5. StockRowsAgree'
  BY <1>0, <1>3, <1>4, OtherKeysAgree
<1> QED BY <1>2, <1>5

\* Approvals and expiries touch no key.
LEMMA StateKeepsRows ==
  ASSUME TypeOK, DerivedRowsAgree, StateStep
  PROVE  LinxRowsAgree' /\ StockRowsAgree'
<1>0. LinxRowsAgree /\ StockRowsAgree /\ reservation \in Book
  BY RowsAgreeParts DEF TypeOK, Book
<1>1. ASSUME NEW o \in Order, NEW p \in Product
      PROVE  SameEntry(reservation'[<<o, p>>], reservation[<<o, p>>])
  BY DEF StateStep, SameEntry, Pair
<1>2. LinxRowsAgree'
  <2> SUFFICES ASSUME NEW o \in Order, NEW q \in Product, reservation'[<<o, q>>] # None
               PROVE  linx'[<<o, q>>] = LinxRow(q, reservation'[<<o, q>>].items)
    BY DEF LinxRowsAgree, Reserved, LinxRow
  <2>1. reservation[<<o, q>>] # None /\ reservation'[<<o, q>>].items = reservation[<<o, q>>].items
    BY <1>1 DEF SameEntry
  <2>2. linx' = linx
    BY DEF StateStep
  <2> QED BY <1>0, <2>1, <2>2 DEF LinxRowsAgree, Reserved
<1>3. ASSUME NEW k \in Keys \ {}, NEW o \in Order
      PROVE  At(reservation', photo.day, o, k[1], k[2]) = At(reservation, photo.day, o, k[1], k[2])
  <2>1. k[1] \in Product
    BY DEF Keys
  <2>2. SameEntry(reservation'[<<o, k[1]>>], reservation[<<o, k[1]>>])
    BY <1>1, <2>1
  <2> QED BY <2>1, <2>2, EntryCounts
<1>4. reservation' \in Book /\ photo' = photo /\ virtual' = virtual
  BY DEF StateStep
<1>5. StockRowsAgree'
  BY <1>0, <1>3, <1>4, OtherKeysAgree
<1> QED BY <1>2, <1>5

\* Every step keeps the derived rows in agreement.
LEMMA StepKeepsRows ==
  ASSUME PlanOK, DerivedRowsAgree, Stepped
  PROVE  DerivedRowsAgree'
<1>0. TypeOK /\ LinxRowsAgree /\ StockRowsAgree
  BY RowsAgreeParts DEF PlanOK
<1>1. SUFFICES LinxRowsAgree' /\ StockRowsAgree'
  BY DEF DerivedRowsAgree, LinxRowsAgree, StockRowsAgree
<1>2. CASE UNCHANGED <<photo, reservation, linx, virtual>>
  BY <1>0, <1>2 DEF LinxRowsAgree, StockRowsAgree, Reserved, LinxRow, Left, Taken
<1>3. CASE ApplyStep
  BY <1>3, ApplyKeepsRows
<1>4. CASE \E p \in Product : \E O, sheet, C : EditStep(p, O, sheet, C)
  BY <1>0, <1>4, EditKeepsRows
<1>5. CASE StateStep
  BY <1>0, <1>5, StateKeepsRows
<1>6. CASE TimeStep
  <2>1. reservation' = reservation /\ linx' = linx /\ virtual' = virtual
    BY <1>6 DEF TimeStep
  <2>2. LinxRowsAgree'
    BY <1>0, <2>1 DEF LinxRowsAgree, Reserved, LinxRow
  <2>3. CASE photo' = photo
    BY <1>2, <2>1, <2>3
  <2>4. CASE photo'.day > photo.day
    <3>1. ASSUME NEW k \in Keys, virtual[k] # None PROVE virtual[k].day # photo'.day
      <4>1. /\ virtual[k].day <= photo.day /\ virtual \in [Keys -> [qty : Nat, day : Nat] \cup {None}]
            /\ photo.day \in Nat
        BY <1>0, <3>1 DEF TypeOK
      <4>2. virtual[k].day \in Nat
        BY <3>1, <4>1
      <4>3. photo'.day \in Nat
        BY <1>6 DEF TimeStep
      <4> QED BY <2>4, <4>1, <4>2, <4>3
    <3>2. StockRowsAgree'
      BY <2>1, <3>1 DEF StockRowsAgree, Keys
    <3> QED BY <2>2, <3>2
  <2> QED BY <1>6, <2>3, <2>4 DEF TimeStep
<1> QED BY <1>2, <1>3, <1>4, <1>5, <1>6 DEF Stepped, StartStep, PlanStep, JobStep, StoreStep, vars

\* The rows that are derived from the reservations, those for Linx and the current ones of
\* the virtual stock, are updated key by key and always say what the reservations say: no
\* writer forgets a key, reads before it writes, or leaves a row of another grade behind.
THEOREM AllocationDerivedRowsAgree == Spec => []DerivedRowsAgree
<1>1. Init => DerivedRowsAgree
  <2>1. ASSUME Init, NEW o \in Order, NEW p \in Product PROVE ~Reserved(o, p)
    BY <2>1 DEF Init, Reserved, Pair
  <2> QED BY <2>1 DEF Init, DerivedRowsAgree
<1>2. PlanOK /\ DerivedRowsAgree /\ [Next]_vars => DerivedRowsAgree'
  BY NextSteps, StepKeepsRows DEF PlanOK
<1> QED BY <1>1, <1>2, AllocationPlanOK, PTL DEF Spec

-----------------------------------------------------------------------------
(* Answers and values.                                                      *)

\* The two halves of EveryPairIsExplained.
ReservedIsSilent == \A x \in Pair : reservation[x] # None => standby[x] = None

PlannedIsAnswered ==
  job.state = "planned" =>
    \A o \in Order : \A p \in ProductsOf(o) :
      <<o, p>> \in DOMAIN job.rows \/ standby[<<o, p>>] # None

\* A step that writes no reason and reserves nothing keeps them.
LEMMA ReasonsKept ==
  ASSUME EveryPairIsExplained, SameReserved, pending' = pending, standby' = standby,
         job'.state = "planned" => job.state = "planned" /\ job'.rows = job.rows
  PROVE  EveryPairIsExplained'
<1>1. ReservedIsSilent'
  BY DEF EveryPairIsExplained, SameReserved, ReservedIsSilent
<1>2. PlannedIsAnswered'
  BY ProductsKept DEF EveryPairIsExplained, PlannedIsAnswered
<1> QED BY <1>1, <1>2 DEF EveryPairIsExplained, ReservedIsSilent, PlannedIsAnswered

\* record_standby_reasons answers for what the plan leaves out, those without credit too.
LEMMA StoreExplains ==
  ASSUME PlanOK, EveryPairIsExplained, StoreStep
  PROVE  EveryPairIsExplained'
<1>1. /\ job.state = "planning" /\ InPlan /\ job.queue = <<>> /\ TypeOK
      /\ pending' = pending /\ reservation' = reservation /\ job'.rows = job.rows
  BY DEF StoreStep, InPlan, PlanOK
<1>2. QueuedIn(job.queue) = {}
  BY <1>1 DEF QueuedIn
<1>3. job.deferred \in Reasons /\ None \notin Reason
  BY <1>1, PlanJobFields, NoneIsNothing
<1>4. \A x \in DOMAIN job.deferred : job.deferred[x] # None
  BY <1>3 DEF Reasons
<1>5. \A x \in DOMAIN job.deferred : reservation[x] = None
  BY <1>1 DEF PlanOK, RowsOK
<1>6. ReservedIsSilent'
  <2> SUFFICES ASSUME NEW x \in Pair, reservation[x] # None PROVE standby'[x] = None
    BY <1>1 DEF ReservedIsSilent
  <2>1. x \notin DOMAIN job.deferred
    BY <1>5
  <2>2. x[2] \notin ProductsOf(x[1])
    <3>1. x = <<x[1], x[2]>>
      BY DEF Pair
    <3> QED BY <3>1 DEF ProductsOf, Reserved
  <2>3. standby[x] = None
    BY DEF EveryPairIsExplained
  <2> QED BY <2>1, <2>2, <2>3 DEF StoreStep
<1>7. ASSUME NEW o \in Order, NEW p \in ProductsOf(o), <<o, p>> \notin DOMAIN job.rows
      PROVE  standby'[<<o, p>>] # None
  <2>0. <<o, p>> \in Pair
    BY DEF Pair, ProductsOf
  <2>1. CASE <<o, p>> \in DOMAIN job.deferred
    BY <1>4, <2>0, <2>1 DEF StoreStep
  <2>2. CASE <<o, p>> \notin DOMAIN job.deferred
    <3>1. ~HasCredit(o)
      BY <1>1, <1>2, <1>7, <2>2 DEF PlanOK, AnswersOK
    <3>2. standby'[<<o, p>>] = "sem_credito"
      BY <2>0, <2>2, <3>1 DEF StoreStep
    <3>3. "sem_credito" \in Reason
      BY DEF Reason
    <3> QED BY <1>3, <3>2, <3>3
  <2> QED BY <2>1, <2>2
<1>8. \A o \in Order : ProductsOf(o)' = ProductsOf(o)
  BY <1>1, ProductsKept DEF SameReserved
<1>9. PlannedIsAnswered'
  BY <1>1, <1>7, <1>8 DEF PlannedIsAnswered
<1> QED BY <1>6, <1>9 DEF EveryPairIsExplained, ReservedIsSilent, PlannedIsAnswered

\* Every step keeps each pair explained.
LEMMA StepExplains ==
  ASSUME PlanOK, EveryPairIsExplained, Stepped
  PROVE  EveryPairIsExplained'
<1>0. TypeOK
  BY DEF PlanOK
<1>1. CASE \/ StartStep
           \/ \E o \in Order : PlanStep(o) /\ UNCHANGED <<pending, reservation, standby>>
  <2>1. job'.state = "planning" /\ pending' = pending /\ reservation' = reservation /\ standby' = standby
    BY <1>1 DEF StartStep, PlanStep
  <2> QED BY <2>1, ReasonsKept DEF SameReserved
<1>2. CASE StoreStep
  BY <1>2, StoreExplains
<1>3. CASE ApplyStep
  <2>1. job'.state = "idle"
    BY <1>0, <1>3, CountIsNat DEF ApplyStep
  <2>2. ReservedIsSilent'
    BY <1>3 DEF ApplyStep, EveryPairIsExplained, ReservedIsSilent
  <2> QED BY <2>1, <2>2 DEF EveryPairIsExplained, ReservedIsSilent
<1>4. CASE JobStep \/ (\E p \in Product : \E O, sheet, C : EditStep(p, O, sheet, C))
           \/ StateStep \/ TimeStep \/ UNCHANGED vars
  <2>1. SameReserved /\ pending' = pending
    BY <1>0, <1>4, SameReservedFacts
  <2>2. standby' = standby /\ (job'.state = "planned" => job.state = "planned" /\ job'.rows = job.rows)
    <3>1. CASE JobStep
      BY <3>1 DEF JobStep
    <3>2. CASE \E p \in Product : \E O, sheet, C : EditStep(p, O, sheet, C)
      BY <3>2 DEF EditStep
    <3>3. CASE StateStep \/ TimeStep \/ UNCHANGED vars
      BY <3>3 DEF StateStep, TimeStep, vars
    <3> QED BY <1>4, <3>1, <3>2, <3>3
  <2> QED BY <2>1, <2>2, ReasonsKept
<1> QED BY <1>1, <1>2, <1>3, <1>4 DEF Stepped

\* Once a plan is stored every pending pair has a planned row or a reason in
\* pedido_standby_motivo, until the plan is applied or given up, and no reserved pair has a
\* reason: whatever the engine decided, and whoever edits in between.
THEOREM AllocationEveryPairIsExplained == Spec => []EveryPairIsExplained
<1>1. Init => EveryPairIsExplained
  BY DEF Init, NoJob, EveryPairIsExplained
<1>2. PlanOK /\ EveryPairIsExplained /\ [Next]_vars => EveryPairIsExplained'
  BY NextSteps, StepExplains DEF PlanOK
<1> QED BY <1>1, <1>2, AllocationPlanOK, PTL DEF Spec

\* The engine, the prices and the editors keep the value that was ordered.
LEMMA StepKeepsValue ==
  ASSUME PlanOK, OriginalValueIsKept, Stepped
  PROVE  OriginalValueIsKept'
<1>0. TypeOK /\ reservation \in Book
  BY DEF PlanOK, TypeOK, Book
<1>1. pending' = pending
  <2>1. CASE \/ StartStep \/ JobStep \/ StoreStep \/ ApplyStep \/ StateStep \/ TimeStep \/ UNCHANGED vars
             \/ UNCHANGED <<pending, client, photo, today, reservation, standby, linx, virtual, edits>>
    BY <2>1 DEF StartStep, JobStep, StoreStep, ApplyStep, StateStep, TimeStep, vars
  <2>2. CASE \E p \in Product : \E O, sheet, C : EditStep(p, O, sheet, C)
    BY <2>2 DEF EditStep
  <2> QED BY <2>1, <2>2 DEF Stepped
<1>2. \A o, p : Grade(o, p)' = Grade(o, p)
  BY <1>1 DEF Grade
<1>3. SUFFICES ASSUME NEW o \in Order, NEW p \in Product, reservation'[<<o, p>>] # None
               PROVE  Value(reservation'[<<o, p>>].items) - Diff(reservation'[<<o, p>>].items)
                        = Value(Grade(o, p))
  BY <1>2 DEF OriginalValueIsKept, Reserved, Value, Diff
<1> DEFINE x == <<o, p>>
<1>4. x \in Pair /\ x[1] = o /\ x[2] = p
  BY DEF Pair
<1>5. reservation[x] # None => Value(reservation[x].items) - Diff(reservation[x].items) = Value(Grade(o, p))
  BY DEF OriginalValueIsKept, Reserved
<1>6. CASE /\ reservation[x] # None => reservation'[x].items = reservation[x].items
           /\ reservation[x] = None => reservation'[x] = None
  BY <1>3, <1>5, <1>6
<1>7. CASE ApplyStep
  <2>1. CASE x \in DOMAIN job.rows
    <3>1. reservation'[x] = Payload(x)
      BY <1>7, <2>1 DEF ApplyStep
    <3>2. reservation'[x].items = job.rows[x]
      BY <3>1 DEF Payload
    <3>3. InPlan
      BY <1>7 DEF ApplyStep, InPlan
    <3>4. Value(job.rows[x]) - Diff(job.rows[x]) = Value(Grade(x[1], x[2]))
      BY <2>1, <3>3 DEF PlanOK, RowsOK
    <3> QED BY <1>4, <3>2, <3>4
  <2>2. CASE x \notin DOMAIN job.rows
    <3>1. reservation'[x] = reservation[x]
      BY <1>4, <1>7, <2>2 DEF ApplyStep
    <3> QED BY <1>3, <1>5, <3>1
  <2> QED BY <2>1, <2>2
<1>8. CASE \E q \in Product : \E O, sheet, C : EditStep(q, O, sheet, C)
  <2>1. PICK q \in Product : \E O, sheet, C : EditStep(q, O, sheet, C)
    BY <1>8
  <2>2. PICK O, sheet, C : EditStep(q, O, sheet, C)
    BY <2>1
  <2>3. CASE o \in O /\ p = q
    <3>1. /\ reservation[x] # None /\ sheet[o] \in Sheets
          /\ reservation'[x].items = Regraded(reservation[x].items, reservation[x].kind, sheet[o])
      BY <2>2, <2>3 DEF EditStep
    <3>2. IsGrade(reservation[x].items)
      BY <1>0, <1>4, <3>1, BookEntry
    <3>3. Value(reservation'[x].items) - Diff(reservation'[x].items)
            = Value(reservation[x].items) - Diff(reservation[x].items)
      BY <3>1, <3>2, RegradedFacts
    <3> QED BY <1>5, <3>1, <3>3
  <2>4. CASE ~(o \in O /\ p = q)
    <3>1. reservation'[x] = reservation[x]
      BY <1>4, <2>2, <2>4 DEF EditStep
    <3> QED BY <1>3, <1>5, <3>1
  <2> QED BY <2>3, <2>4
<1>9. CASE StateStep
  BY <1>4, <1>6, <1>9 DEF StateStep
<1> QED BY <1>6, <1>7, <1>8, <1>9
        DEF Stepped, StartStep, PlanStep, JobStep, StoreStep, TimeStep, vars

\* Through every adequation, price and sequence of manual edits, value less difference of a
\* reservation is the value the client ordered, to the cent.
THEOREM AllocationOriginalValueIsKept == Spec => []OriginalValueIsKept
<1>1. Init => OriginalValueIsKept
  <2>1. ASSUME Init, NEW o \in Order, NEW p \in Product PROVE ~Reserved(o, p)
    BY <2>1 DEF Init, Reserved, Pair
  <2> QED BY <2>1 DEF OriginalValueIsKept
<1>2. PlanOK /\ OriginalValueIsKept /\ [Next]_vars => OriginalValueIsKept'
  BY NextSteps, StepKeepsValue DEF PlanOK
<1> QED BY <1>1, <1>2, AllocationPlanOK, PTL DEF Spec

-----------------------------------------------------------------------------
(* Stock.                                                                   *)

\* f over the pairs of p is e over their orders.
ReadsPairs(S, p, f, e) == \A o \in S : f[<<o, p>>] \in Int /\ e[o] = f[<<o, p>>]

\* A sum over the orders of a product is the sum over its pairs.
LEMMA SumOverPairs ==
  ASSUME NEW S, IsFiniteSet(S), NEW p, NEW f, NEW e, ReadsPairs(S, p, f, e)
  PROVE  SumFunctionOnSet(f, S \X {p}) = SumFunctionOnSet(e, S) /\ IsFiniteSet(S \X {p})
<1> DEFINE Law(T) == /\ IsFiniteSet(T \X {p})
                     /\ SumFunctionOnSet(f, T \X {p}) = SumFunctionOnSet(e, T)
           G == {T \in SUBSET S : Law(T)}
<1>1. {} \in G
  <2>1. {} \X {p} = {} /\ IsFiniteSet({})
    BY FS_EmptySet
  <2>2. SumFunctionOnSet(f, {}) = 0 /\ SumFunctionOnSet(e, {}) = 0
    BY SumEmpty
  <2> QED BY <2>1, <2>2
<1>2. ASSUME NEW T \in SUBSET S, NEW o \in S, T \in G, o \notin T PROVE T \cup {o} \in G
  <2> DEFINE P == T \X {p}
             x == <<o, p>>
  <2>1. (T \cup {o}) \X {p} = P \cup {x} /\ x \notin P /\ IsFiniteSet(P)
    BY <1>2
  <2>2. IsFiniteSet(P \cup {x}) /\ IsFiniteSet(T)
    BY <2>1, FS_AddElement, FS_Subset
  <2>3. (\A y \in P \cup {x} : f[y] \in Int) /\ (\A y \in T \cup {o} : e[y] \in Int)
    <3>1. \A y \in P \cup {x} : \E a \in S : y = <<a, p>>
      OBVIOUS
    <3> QED BY <3>1 DEF ReadsPairs
  <2>4. SumFunctionOnSet(f, P \cup {x}) = f[x] + SumFunctionOnSet(f, P)
    <3> HIDE DEF P, x
    <3> QED BY <2>1, <2>3, SumAddOne
  <2>5. SumFunctionOnSet(e, T \cup {o}) = e[o] + SumFunctionOnSet(e, T)
    BY <1>2, <2>2, <2>3, SumAddOne
  <2>6. SumFunctionOnSet(f, P) = SumFunctionOnSet(e, T) /\ e[o] = f[x]
    BY <1>2 DEF ReadsPairs
  <2>7. SumFunctionOnSet(f, P \cup {x}) = SumFunctionOnSet(e, T \cup {o})
    BY <2>4, <2>5, <2>6
  <2> QED BY <2>1, <2>2, <2>7
<1>3. S \in G
  <2> HIDE DEF G
  <2> QED BY <1>1, <1>2, FiniteInduction
<1> QED BY <1>3

\* Among what is left: more is taken only if it fits.
LEMMA FitsInWhatIsLeft ==
  ASSUME TypeOK, NEW p \in Product, NEW s \in Size, NEW more, more \in Int,
         more <= Left(reservation, p, s), NEW taken, more > 0,
         taken = Taken(reservation, photo.day, p, s) + more
  PROVE  taken <= photo.stock[p][s]
<1>1. reservation \in Book /\ photo.stock[p][s] \in Int
  BY DEF TypeOK, Book
<1>2. Taken(reservation, photo.day, p, s) \in Nat
  BY <1>1, TakenFacts
<1> QED BY <1>1, <1>2 DEF Left, Positive

\* The check of the writer, over all the rows of the plan, covers what they take.
LEMMA ApplyTakesWhatIsLeft ==
  ASSUME PlanOK, ApplyStep, NEW p \in Product, NEW s \in Size,
         Taken(reservation', photo.day, p, s) > Taken(reservation, photo.day, p, s)
  PROVE  Taken(reservation', photo.day, p, s) <= photo.stock[p][s]
<1> DEFINE S == {o \in Order : <<o, p>> \in DOMAIN job.rows /\ s \in DOMAIN job.rows[<<o, p>>]}
           rows == {x \in DOMAIN job.rows : x[2] = p /\ s \in DOMAIN job.rows[x]}
           pieces == [x \in rows |-> job.rows[x][s].qty]
           e == [o \in S |-> job.rows[<<o, p>>][s].qty]
           f == [o \in Order |-> At(reservation, photo.day, o, p, s)]
           g == [o \in Order |-> At(reservation', photo.day, o, p, s)]
           d == [o \in Order |-> IF o \in S THEN e[o] ELSE 0]
<1>0. /\ TypeOK /\ InPlan /\ reservation \in Book /\ reservation' \in Book
      /\ photo.day \in Nat /\ photo.day <= today /\ today \in Nat /\ PlanFits
  BY DEF PlanOK, ApplyStep, InPlan, TypeOK, Book
<1>1. /\ DOMAIN job.rows \subseteq Pair /\ \A x \in DOMAIN job.rows : IsGrade(job.rows[x])
      /\ \A x \in DOMAIN job.rows : reservation[x] = None
  BY <1>0, PlanJobFields DEF PlanOK, RowsOK, InPlan
<1>2. /\ Taken(reservation', photo.day, p, s) = SumFunctionOnSet(g, Order)
      /\ Taken(reservation, photo.day, p, s) = SumFunctionOnSet(f, Order)
      /\ \A o \in Order : f[o] \in Nat /\ g[o] \in Nat
  BY <1>0, TakenIsTotal
<1>3. IsFiniteSet(S) /\ S \in SUBSET Order /\ IsFiniteSet(Order)
  BY Finite
<1>4. rows = S \X {p}
  <2>1. ASSUME NEW x \in rows PROVE x \in S \X {p}
    <3>1. x \in Order \X Product /\ x[2] = p
      BY <1>1 DEF Pair
    <3>2. x = <<x[1], p>> /\ x[1] \in Order
      BY <3>1
    <3> QED BY <2>1, <3>2
  <2>2. ASSUME NEW o \in S PROVE <<o, p>> \in rows
    OBVIOUS
  <2> QED BY <2>1, <2>2
<1>5. \A o \in S : /\ e[o] \in Nat /\ pieces[<<o, p>>] \in Int /\ e[o] = pieces[<<o, p>>]
  <2> TAKE o \in S
  <2>1. job.rows[<<o, p>>][s] \in Item /\ <<o, p>> \in rows
    BY <1>1 DEF IsGrade
  <2> QED BY <2>1 DEF Item
<1>6. \A o \in Order : g[o] = 1 * f[o] + d[o]
  <2> TAKE o \in Order
  <2> DEFINE x == <<o, p>>
  <2>0. x \in Pair
    BY DEF Pair
  <2>1. CASE x \in DOMAIN job.rows
    <3>1. f[o] = 0
      BY <1>1, <2>1 DEF At, Fresh
    <3>2. reservation'[x] = Payload(x) /\ Payload(x) \in Reservation
      BY <2>1 DEF ApplyStep
    <3>3. reservation'[x] # None /\ reservation'[x].items = job.rows[x] /\ reservation'[x].day = today
      <4>1. Payload(x).items = job.rows[x] /\ Payload(x).day = today
        BY DEF Payload
      <4>2. reservation'[x] # None
        BY <3>2, NoneIsNothing
      <4> QED BY <3>2, <4>1, <4>2
    <3>4. o \in Fresh(reservation', photo.day, p, s) <=> o \in S
      BY <1>0, <2>1, <3>3 DEF Fresh
    <3>5. o \in S => reservation'[x].items[s].qty = e[o]
      BY <3>3
    <3>6. g[o] = d[o]
      <4>1. g[o] = At(reservation', photo.day, o, p, s) /\ d[o] = IF o \in S THEN e[o] ELSE 0
        OBVIOUS
      <4> HIDE DEF g, d, S, e
      <4> QED BY <3>4, <3>5, <4>1 DEF At
    <3>7. d[o] \in Int
      <4>1. o \in S => e[o] \in Int
        BY <1>5
      <4>2. d[o] = IF o \in S THEN e[o] ELSE 0
        OBVIOUS
      <4> HIDE DEF d, S, e
      <4> QED BY <4>1, <4>2
    <3> QED BY <3>1, <3>6, <3>7
  <2>2. CASE x \notin DOMAIN job.rows
    <3>1. reservation'[x] = reservation[x]
      BY <2>0, <2>2 DEF ApplyStep
    <3>2. SameEntry(reservation'[x], reservation[x])
      BY <3>1 DEF SameEntry
    <3>3. g[o] = f[o]
      BY <3>2, EntryCounts
    <3>4. d[o] = 0 /\ f[o] \in Nat
      BY <1>2, <2>2
    <3> QED BY <3>3, <3>4
  <2> QED BY <2>1, <2>2
<1>7. SumFunctionOnSet(pieces, rows) <= Left(reservation, p, s)
  <2>1. SumFunction(pieces) <= Left(reservation, p, s)
    BY <1>0 DEF PlanFits
  <2> QED BY <2>1 DEF SumFunction
<1>8. \A o \in Order : d[o] = IF o \in S THEN e[o] ELSE 0
  OBVIOUS
<1>9. \A o \in Order : d[o] \in Int
  <2>1. \A o \in S : e[o] \in Int
    BY <1>5
  <2> HIDE DEF S, e, d
  <2> QED BY <1>8, <2>1
<1> HIDE DEF S, rows, pieces, e, f, g, d
<1>10. SumFunctionOnSet(pieces, rows) = SumFunctionOnSet(e, S)
  <2>1. \A o \in S : pieces[<<o, p>>] \in Int /\ e[o] = pieces[<<o, p>>]
    BY <1>5
  <2>2. SumFunctionOnSet(pieces, S \X {p}) = SumFunctionOnSet(e, S)
    <3>1. ReadsPairs(S, p, pieces, e)
      BY <2>1 DEF ReadsPairs
    <3> QED BY <1>3, <3>1, SumOverPairs
  <2> QED BY <1>4, <2>2
<1>11. SumFunctionOnSet(e, S) = SumFunctionOnSet(d, Order)
  <2>1. \A o \in S : e[o] \in Int
    BY <1>5
  <2> QED BY <1>3, <1>8, <2>1, SumExtend
<1>12. SumFunctionOnSet(g, Order) = 1 * SumFunctionOnSet(f, Order) + SumFunctionOnSet(d, Order)
  <2>1. 1 \in Int /\ Combines(g, 1, f, d, Order)
    BY <1>2, <1>6, <1>9 DEF Combines
  <2> QED BY <1>3, <2>1, SumLinear
<1> DEFINE more == SumFunctionOnSet(d, Order)
<1>13. more \in Int /\ more <= Left(reservation, p, s)
  BY <1>3, <1>7, <1>9, <1>10, <1>11, SumFacts
<1>14. SumFunctionOnSet(f, Order) \in Nat
  BY <1>0, <1>2, TakenFacts
<1> HIDE DEF more
<1>15. more > 0 /\ Taken(reservation', photo.day, p, s) = Taken(reservation, photo.day, p, s) + more
  BY <1>2, <1>12, <1>13, <1>14 DEF more
<1> QED BY <1>0, <1>13, <1>15, FitsInWhatIsLeft

\* The check of the editor, over all the orders of the batch, covers what they take when
\* all the reservations it changes are as recent as the photo.
LEMMA EditTakesWhatIsLeft ==
  ASSUME TypeOK, NEW p \in Product, NEW O, NEW sheet, NEW C, EditStep(p, O, sheet, C), NEW s \in Size,
         Taken(reservation', photo.day, p, s) > Taken(reservation, photo.day, p, s),
         \A o \in Order : (Reserved(o, p) /\ reservation'[<<o, p>>] # reservation[<<o, p>>])
                            => reservation[<<o, p>>].day >= photo.day
  PROVE  Taken(reservation', photo.day, p, s) <= photo.stock[p][s]
<1> DEFINE A == {o \in O : s \in DOMAIN sheet[o]}
           asked == [o \in A |-> sheet[o][s]]
           held == [o \in O |-> QtyAt(reservation[<<o, p>>].items, s)]
           d == [o \in Order |-> IF o \in A THEN asked[o] ELSE 0]
           q == [o \in Order |-> IF o \in O THEN held[o] ELSE 0]
           f == [o \in Order |-> At(reservation, photo.day, o, p, s)]
           g == [o \in Order |-> At(reservation', photo.day, o, p, s)]
           h == [o \in Order |-> g[o] + q[o]]
<1>0. /\ reservation \in Book /\ reservation' \in Book /\ O \subseteq Order /\ BatchFits(p, sheet)
      /\ sheet \in [O -> Sheets]
  BY DEF EditStep, TypeOK, Book
<1>1. /\ Taken(reservation', photo.day, p, s) = SumFunctionOnSet(g, Order)
      /\ Taken(reservation, photo.day, p, s) = SumFunctionOnSet(f, Order)
      /\ \A o \in Order : f[o] \in Nat /\ g[o] \in Nat
  BY <1>0, TakenIsTotal
<1>2. A \in SUBSET Order /\ O \in SUBSET Order /\ IsFiniteSet(Order)
  BY <1>0, Finite
<1>3. \A o \in O :
        /\ reservation[<<o, p>>] # None /\ reservation'[<<o, p>>] # None /\ <<o, p>> \in Pair
        /\ IsGrade(reservation[<<o, p>>].items) /\ sheet[o] \in Sheets
        /\ reservation'[<<o, p>>].day = reservation[<<o, p>>].day
        /\ DOMAIN reservation'[<<o, p>>].items = DOMAIN sheet[o]
        /\ \A t \in DOMAIN sheet[o] : reservation'[<<o, p>>].items[t].qty = sheet[o][t]
  <2> TAKE o \in O
  <2> DEFINE x == <<o, p>>
  <2>1. /\ reservation[x] # None /\ x \in Pair /\ reservation'[x] \in Reservation
        /\ reservation'[x].day = reservation[x].day
        /\ reservation'[x].items = Regraded(reservation[x].items, reservation[x].kind, sheet[o])
    BY DEF EditStep
  <2>2. IsGrade(reservation[x].items) /\ sheet[o] \in Sheets
    BY <1>0, <2>1, BookEntry
  <2>3. /\ DOMAIN reservation'[x].items = DOMAIN sheet[o]
        /\ \A t \in DOMAIN sheet[o] : reservation'[x].items[t].qty = sheet[o][t]
    BY <2>1, <2>2, RegradedFacts
  <2> QED BY <2>1, <2>2, <2>3, NoneIsNothing
<1>4. \A o \in O : held[o] \in Nat
  <2> TAKE o \in O
  <2>1. IsGrade(reservation[<<o, p>>].items)
    BY <1>3
  <2> QED BY <2>1 DEF QtyAt, IsGrade, Item
<1>5. \A o \in A : asked[o] \in Nat
  <2> TAKE o \in A
  <2>1. sheet[o] \in Sheets /\ s \in DOMAIN sheet[o]
    BY <1>3
  <2> QED BY <2>1, SheetWeighs
<1>6. \A o \in Order : g[o] + q[o] = f[o] + d[o]
  <2> TAKE o \in Order
  <2> DEFINE x == <<o, p>>
  <2>0. x \in Pair /\ f[o] \in Nat /\ g[o] \in Nat
    BY <1>1 DEF Pair
  <2>1. CASE o \notin O
    <3>1. reservation'[x] = reservation[x]
      BY <2>0, <2>1 DEF EditStep
    <3>2. SameEntry(reservation'[x], reservation[x])
      BY <3>1 DEF SameEntry
    <3>3. g[o] = f[o]
      BY <3>2, EntryCounts
    <3>4. q[o] = 0 /\ d[o] = 0
      BY <2>1
    <3> QED BY <2>0, <3>3, <3>4
  <2>2. CASE o \in O
    <3>1. /\ q[o] = IF s \in DOMAIN reservation[x].items THEN reservation[x].items[s].qty ELSE 0
          /\ d[o] = IF s \in DOMAIN sheet[o] THEN sheet[o][s] ELSE 0
      BY <2>2 DEF QtyAt
    <3>2. d[o] = IF s \in DOMAIN reservation'[x].items THEN reservation'[x].items[s].qty ELSE 0
      BY <1>3, <2>2, <3>1
    <3>3. CASE reservation'[x] = reservation[x]
      <4>1. SameEntry(reservation'[x], reservation[x])
        BY <3>3 DEF SameEntry
      <4>2. g[o] = f[o]
        BY <4>1, EntryCounts
      <4>3. q[o] = d[o]
        BY <3>1, <3>2, <3>3
      <4>4. q[o] \in Nat
        BY <1>4, <2>2
      <4> QED BY <2>0, <4>2, <4>3, <4>4
    <3>4. CASE reservation'[x] # reservation[x]
      <4>1. reservation[x].day >= photo.day /\ reservation'[x].day >= photo.day
        BY <1>3, <2>2, <3>4 DEF Reserved
      <4>2. g[o] = d[o]
        BY <1>3, <2>2, <3>2, <4>1 DEF At, Fresh
      <4>3. f[o] = q[o]
        BY <1>3, <2>2, <3>1, <4>1 DEF At, Fresh
      <4> QED BY <2>0, <4>2, <4>3
    <3> QED BY <3>3, <3>4
  <2> QED BY <2>1, <2>2
<1>7. SumFunctionOnSet(asked, A) <= Left(reservation, p, s) + SumFunctionOnSet(held, O)
  <2>1. DOMAIN sheet = O
    BY <1>0
  <2>2. SumFunction(asked) <= Left(reservation, p, s) + SumFunction(held)
    <3> HIDE DEF Left
    <3> QED BY <1>0, <2>1, Zenon DEF BatchFits
  <2> QED BY <2>2 DEF SumFunction
<1>8. /\ \A o \in Order : d[o] = IF o \in A THEN asked[o] ELSE 0
      /\ \A o \in Order : q[o] = IF o \in O THEN held[o] ELSE 0
      /\ \A o \in Order : h[o] = g[o] + q[o]
  OBVIOUS
<1> HIDE DEF A, asked, held, d, q, f, g, h
<1>9. SumFunctionOnSet(asked, A) = SumFunctionOnSet(d, Order)
  <2>1. \A o \in A : asked[o] \in Int
    BY <1>5
  <2> QED BY <1>2, <1>8, <2>1, SumExtend
<1>10. SumFunctionOnSet(held, O) = SumFunctionOnSet(q, Order)
  <2>1. \A o \in O : held[o] \in Int
    BY <1>4
  <2> QED BY <1>2, <1>8, <2>1, SumExtend
<1>11. \A o \in Order : q[o] \in Int /\ d[o] \in Int
  BY <1>4, <1>5, <1>8
<1>12. SumFunctionOnSet(h, Order) = 1 * SumFunctionOnSet(g, Order) + SumFunctionOnSet(q, Order)
  <2>1. 1 \in Int /\ Combines(h, 1, g, q, Order)
    BY <1>1, <1>8, <1>11 DEF Combines
  <2> QED BY <1>2, <2>1, SumLinear
<1>13. SumFunctionOnSet(h, Order) = 1 * SumFunctionOnSet(f, Order) + SumFunctionOnSet(d, Order)
  <2>1. 1 \in Int /\ Combines(h, 1, f, d, Order)
    BY <1>1, <1>6, <1>8, <1>11 DEF Combines
  <2> QED BY <1>2, <2>1, SumLinear
<1> DEFINE u == SumFunctionOnSet(d, Order)
           v == SumFunctionOnSet(q, Order)
           more == u - v
<1>14. u \in Int /\ v \in Int /\ Left(reservation, p, s) \in Nat
  BY <1>0, <1>2, <1>11, SumFacts, LeftIsNat
<1>15. Taken(reservation', photo.day, p, s) \in Nat /\ Taken(reservation, photo.day, p, s) \in Nat
  BY <1>0, TakenFacts
<1>16. /\ Taken(reservation', photo.day, p, s) + v = Taken(reservation, photo.day, p, s) + u
       /\ u <= Left(reservation, p, s) + v
  BY <1>1, <1>7, <1>9, <1>10, <1>12, <1>13, <1>14, <1>15
<1> HIDE DEF u, v
<1>17. /\ more \in Int /\ more > 0 /\ more <= Left(reservation, p, s)
       /\ Taken(reservation', photo.day, p, s) = Taken(reservation, photo.day, p, s) + more
  BY <1>14, <1>15, <1>16
<1> HIDE DEF more
<1> QED BY <1>17, FitsInWhatIsLeft

\* The action property, of one step.
TakesOnly ==
  \A p \in Product, s \in Size :
    LET taken == Taken(reservation', photo'.day, p, s)
    IN  taken > Taken(reservation, photo'.day, p, s) /\ ChangesOnlyRecent(p)
        => taken <= photo.stock[p][s]

\* Every step has it.
LEMMA StepTakesOnly ==
  ASSUME PlanOK, Stepped
  PROVE  TakesOnly
<1> SUFFICES ASSUME NEW p \in Product, NEW s \in Size,
                    Taken(reservation', photo'.day, p, s) > Taken(reservation, photo'.day, p, s),
                    \A o \in Order : (Reserved(o, p) /\ reservation'[<<o, p>>] # reservation[<<o, p>>])
                                       => reservation[<<o, p>>].day >= photo.day
             PROVE  Taken(reservation', photo'.day, p, s) <= photo.stock[p][s]
  BY DEF TakesOnly, ChangesOnlyRecent
<1>0. TypeOK /\ TypeOK' /\ reservation \in Book /\ reservation' \in Book
  <2>1. TypeOK /\ TypeOK'
    BY StepKeepsTypes DEF PlanOK
  <2> QED BY <2>1 DEF TypeOK, Book
<1>1. \A day : Taken(reservation, day, p, s) \in Nat /\ Taken(reservation', day, p, s) \in Nat
  BY <1>0, TakenFacts
<1>2. CASE \A o \in Order : SameEntry(reservation'[<<o, p>>], reservation[<<o, p>>])
  <2>1. \A o \in Order : At(reservation', photo'.day, o, p, s) = At(reservation, photo'.day, o, p, s)
    <3> TAKE o \in Order
    <3>1. SameEntry(reservation'[<<o, p>>], reservation[<<o, p>>])
      BY <1>2
    <3> QED BY <3>1, EntryCounts
  <2>2. Taken(reservation', photo'.day, p, s) = Taken(reservation, photo'.day, p, s)
    BY <1>0, <2>1, TakenAlike
  <2> QED BY <1>1, <2>2
<1>3. CASE ApplyStep
  <2>1. photo' = photo
    BY <1>3 DEF ApplyStep
  <2> QED BY <1>3, <2>1, ApplyTakesWhatIsLeft
<1>4. CASE \E q \in Product : \E O, sheet, C : EditStep(q, O, sheet, C)
  <2>1. PICK q \in Product : \E O, sheet, C : EditStep(q, O, sheet, C)
    BY <1>4
  <2>2. PICK O, sheet, C : EditStep(q, O, sheet, C)
    BY <2>1
  <2>3. photo' = photo
    BY <2>2 DEF EditStep
  <2>4. CASE q = p
    <3>1. EditStep(p, O, sheet, C)
      BY <2>2, <2>4
    <3> HIDE DEF Reserved
    <3> QED BY <1>0, <2>3, <3>1, EditTakesWhatIsLeft
  <2>5. CASE q # p
    <3>1. \A o \in Order : reservation'[<<o, p>>] = reservation[<<o, p>>]
      BY <2>2, <2>5 DEF EditStep, Pair
    <3> QED BY <1>2, <3>1 DEF SameEntry
  <2> QED BY <2>4, <2>5
<1>5. CASE StateStep
  BY <1>2, <1>5 DEF StateStep, SameEntry, Pair
<1>6. CASE reservation' = reservation
  BY <1>1, <1>6
<1> QED BY <1>3, <1>4, <1>5, <1>6 DEF Stepped, StartStep, JobStep, StoreStep, TimeStep, vars

\* No job raises what the reservations take of a size above the photo of the stock, nor does
\* a batch of edits whose reservations are all as recent as the photo
\* (ChangesOnlyRecent): the stock is checked against the current reservations in the
\* transaction that writes, not only when the plan is made.  A batch that edits an older
\* reservation is outside the theorem, and may take more than there is.
THEOREM AllocationTakesOnlyWhatIsLeft == Spec => TakesOnlyWhatIsLeft
<1>1. PlanOK /\ [Next]_vars => [TakesOnly]_vars
  BY NextSteps, StepTakesOnly DEF PlanOK
<1>2. TakesOnlyWhatIsLeft <=> [][TakesOnly]_vars
  BY Zenon DEF TakesOnlyWhatIsLeft, TakesOnly
<1> QED BY <1>1, <1>2, AllocationPlanOK, PTL DEF Spec

-----------------------------------------------------------------------------
(* Budgets.                                                                 *)

\* The products that a plan reserves for an order.
RowsOf(rows, o) == {p \in Product : <<o, p>> \in DOMAIN rows}

\* What its rows add to the order, and cut from it.
AddedBy(kind, rows, o) ==
  SumFunctionOnSet([p \in RowsOf(rows, o) |-> Additions(kind, rows[<<o, p>>])], RowsOf(rows, o))

CutBy(kind, rows, o) ==
  SumFunctionOnSet([p \in RowsOf(rows, o) |-> Cuts(kind, rows[<<o, p>>])], RowsOf(rows, o))

\* A plan that keeps to what is left of the budgets.
RowsFit(rest, kind, rows) ==
  \A o \in Order : /\ AddedBy(kind, rows, o) <= rest[o].additions
                   /\ CutBy(kind, rows, o) <= rest[o].cuts

\* The inductive invariant of BudgetRespected: while there is a plan, the budgets that it
\* started from are still what is left, and its rows fit in them.
BudgetOK ==
  /\ BudgetRespected
  /\ InPlan => /\ \A o \in Order : job.rest[o] = BudgetsOf(o)
               /\ RowsFit(job.rest, job.kind, job.rows)

\* g joins f over P and e over R.
Joins(P, R, f, e, g) ==
  /\ IsFiniteSet(P) /\ IsFiniteSet(R) /\ P \cap R = {}
  /\ \A x \in P : f[x] \in Int /\ g[x] = f[x]
  /\ \A x \in R : e[x] \in Int /\ g[x] = e[x]

\* So does its sum.
LEMMA SumJoins ==
  ASSUME NEW P, NEW R, NEW f, NEW e, NEW g, Joins(P, R, f, e, g)
  PROVE  SumFunctionOnSet(g, P \cup R) = SumFunctionOnSet(f, P) + SumFunctionOnSet(e, R)
<1>1. /\ IsFiniteSet(P) /\ IsFiniteSet(R) /\ P \cap R = {}
      /\ \A x \in P \cup R : g[x] \in Int
      /\ \A x \in P : g[x] \in Int /\ g[x] = f[x]
      /\ \A x \in R : g[x] \in Int /\ g[x] = e[x]
  BY DEF Joins
<1>2. SumFunctionOnSet(g, P \cup R) = SumFunctionOnSet(g, P) + SumFunctionOnSet(g, R)
  BY <1>1, SumUnion
<1>3. SumFunctionOnSet(g, P) = SumFunctionOnSet(f, P)
  BY <1>1, SumAlike
<1>4. SumFunctionOnSet(g, R) = SumFunctionOnSet(e, R)
  BY <1>1, SumAlike
<1> QED BY <1>2, <1>3, <1>4

\* What is planned for an order comes on top of what it has spent.
LEMMA SpentJoins ==
  ASSUME NEW r, r \in Book, NEW q, q \in Book, NEW o \in Order, NEW kind, NEW rows,
         \A x \in DOMAIN rows : x \in Pair /\ IsGrade(rows[x]) /\ r[x] = None,
         \A x \in DOMAIN rows : q[x] # None /\ q[x].kind = kind /\ q[x].items = rows[x],
         \A x \in Pair \ DOMAIN rows : q[x] = r[x]
  PROVE  /\ AddedTo(q, o) = AddedTo(r, o) + AddedBy(kind, rows, o)
         /\ CutFrom(q, o) = CutFrom(r, o) + CutBy(kind, rows, o)
         /\ AddedBy(kind, rows, o) \in Nat /\ CutBy(kind, rows, o) \in Nat
<1> DEFINE P == Pairs(r, o)
           R == RowsOf(rows, o)
           f == [p \in P |-> Additions(r[<<o, p>>].kind, r[<<o, p>>].items)]
           e == [p \in R |-> Additions(kind, rows[<<o, p>>])]
           g == [p \in P \cup R |-> Additions(q[<<o, p>>].kind, q[<<o, p>>].items)]
           fc == [p \in P |-> Cuts(r[<<o, p>>].kind, r[<<o, p>>].items)]
           ec == [p \in R |-> Cuts(kind, rows[<<o, p>>])]
           gc == [p \in P \cup R |-> Cuts(q[<<o, p>>].kind, q[<<o, p>>].items)]
<1>1. /\ P \cap R = {} /\ IsFiniteSet(P) /\ IsFiniteSet(R)
      /\ Pairs(q, o) = P \cup R
  <2>1. R \subseteq Product /\ P \subseteq Product
    BY DEF RowsOf, Pairs
  <2>2. \A p \in Product : <<o, p>> \in Pair
    BY DEF Pair
  <2>3. \A p \in R : r[<<o, p>>] = None /\ q[<<o, p>>] # None
    BY DEF RowsOf
  <2>4. \A p \in Product \ R : q[<<o, p>>] = r[<<o, p>>]
    BY <2>2 DEF RowsOf
  <2>5. IsFiniteSet(P) /\ IsFiniteSet(R)
    BY <2>1, Finite
  <2> QED BY <2>1, <2>3, <2>4, <2>5 DEF Pairs
<1>2. \A p \in P : q[<<o, p>>] = r[<<o, p>>]
  BY <1>1 DEF Pairs, RowsOf, Pair
<1>3. \A p \in R : q[<<o, p>>].kind = kind /\ q[<<o, p>>].items = rows[<<o, p>>] /\ IsGrade(rows[<<o, p>>])
  BY DEF RowsOf
<1>4. \A p \in R : Additions(kind, rows[<<o, p>>]) \in Nat /\ Cuts(kind, rows[<<o, p>>]) \in Nat
  BY <1>3, AmountTypes
<1>5. \A p \in P : /\ Additions(r[<<o, p>>].kind, r[<<o, p>>].items) \in Nat
                   /\ Cuts(r[<<o, p>>].kind, r[<<o, p>>].items) \in Nat
  BY AmountsOf
<1>6. Joins(P, R, f, e, g) /\ Joins(P, R, fc, ec, gc)
  BY <1>1, <1>2, <1>3, <1>4, <1>5 DEF Joins
<1>7. /\ AddedTo(q, o) = SumFunctionOnSet(g, P \cup R) /\ CutFrom(q, o) = SumFunctionOnSet(gc, P \cup R)
      /\ AddedTo(r, o) = SumFunctionOnSet(f, P) /\ CutFrom(r, o) = SumFunctionOnSet(fc, P)
      /\ AddedBy(kind, rows, o) = SumFunctionOnSet(e, R) /\ CutBy(kind, rows, o) = SumFunctionOnSet(ec, R)
  BY <1>1 DEF AddedTo, CutFrom, AddedBy, CutBy
<1>8. (\A p \in R : e[p] \in Nat) /\ (\A p \in R : ec[p] \in Nat)
  BY <1>4
<1> HIDE DEF P, R, f, e, g, fc, ec, gc
<1>9. /\ SumFunctionOnSet(g, P \cup R) = SumFunctionOnSet(f, P) + SumFunctionOnSet(e, R)
      /\ SumFunctionOnSet(gc, P \cup R) = SumFunctionOnSet(fc, P) + SumFunctionOnSet(ec, R)
  BY <1>6, SumJoins
<1>10. SumFunctionOnSet(e, R) \in Nat /\ SumFunctionOnSet(ec, R) \in Nat
  BY <1>1, <1>8, SumPositive
<1> QED BY <1>7, <1>9, <1>10

\* Joining what fits in the rest of a budget keeps to its limit.
LEMMA RestKeepsLimit ==
  ASSUME NEW t, t \in Nat, NEW c, c \in Nat, c <= Limit(t), NEW more, more \in Nat, more <= Rest(t, c)
  PROVE  c + more <= Limit(t)
<1>1. Limit(t) \in Nat
  BY RestIsNat
<1> HIDE DEF Limit
<1> QED BY <1>1 DEF Rest, Positive

\* So does an edit that the budget affords, whose present share was now.
LEMMA AffordedKeepsLimit ==
  ASSUME NEW t, t \in Nat, NEW c, c \in Nat, c <= Limit(t),
         NEW now, now \in Nat, now <= c, NEW new, new \in Nat, Affords(t, c, now, new)
  PROVE  c - now + new <= Limit(t)
<1>1. Limit(t) \in Nat
  BY RestIsNat
<1>2. Positive(c - now) = c - now
  BY DEF Positive
<1>3. new > now => new - now <= Positive(Rest(t, c - now) - now)
  BY <1>2 DEF Affords
<1> HIDE DEF Limit
<1> QED BY <1>1, <1>3 DEF Rest, Positive

\* One pair of the order changes, the others do not.
LEMMA SpentChanges ==
  ASSUME NEW r, r \in Book, NEW q, q \in Book, NEW o \in Order, NEW p \in Product,
         r[<<o, p>>] # None, q[<<o, p>>] # None,
         \A x \in Pair : x # <<o, p>> => (x[1] = o => q[x] = r[x])
  PROVE  LET a == r[<<o, p>>]
             b == q[<<o, p>>]
         IN  /\ AddedTo(q, o) = AddedTo(r, o) - Additions(a.kind, a.items) + Additions(b.kind, b.items)
             /\ CutFrom(q, o) = CutFrom(r, o) - Cuts(a.kind, a.items) + Cuts(b.kind, b.items)
             /\ Additions(a.kind, a.items) \in Nat /\ Additions(b.kind, b.items) \in Nat
             /\ Cuts(a.kind, a.items) \in Nat /\ Cuts(b.kind, b.items) \in Nat
             /\ Additions(a.kind, a.items) <= AddedTo(r, o) /\ Cuts(a.kind, a.items) <= CutFrom(r, o)
<1> DEFINE P == Pairs(r, o)
           f == [y \in P |-> Additions(r[<<o, y>>].kind, r[<<o, y>>].items)]
           g == [y \in P |-> Additions(q[<<o, y>>].kind, q[<<o, y>>].items)]
           fc == [y \in P |-> Cuts(r[<<o, y>>].kind, r[<<o, y>>].items)]
           gc == [y \in P |-> Cuts(q[<<o, y>>].kind, q[<<o, y>>].items)]
<1>1. \A y \in Product \ {p} : q[<<o, y>>] = r[<<o, y>>]
  <2> TAKE y \in Product \ {p}
  <2>1. <<o, y>> \in Pair /\ <<o, y>> # <<o, p>> /\ <<o, y>>[1] = o
    BY DEF Pair
  <2> QED BY <2>1
<1>2. Pairs(q, o) = P /\ p \in P /\ P \subseteq Product
  BY <1>1 DEF Pairs
<1>3. /\ IsFiniteSet(P)
      /\ \A y \in P : /\ Additions(r[<<o, y>>].kind, r[<<o, y>>].items) \in Nat
                      /\ Cuts(r[<<o, y>>].kind, r[<<o, y>>].items) \in Nat
      /\ AddedTo(r, o) \in Nat /\ CutFrom(r, o) \in Nat
  BY AmountsOf
<1>4. \A y \in P : /\ Additions(q[<<o, y>>].kind, q[<<o, y>>].items) \in Nat
                   /\ Cuts(q[<<o, y>>].kind, q[<<o, y>>].items) \in Nat
  BY <1>2, AmountsOf
<1>5. /\ \A y \in P : f[y] \in Int /\ g[y] \in Int /\ fc[y] \in Int /\ gc[y] \in Int
      /\ \A y \in P \ {p} : g[y] = f[y] /\ gc[y] = fc[y]
      /\ \A y \in P : f[y] \in Nat /\ g[y] \in Nat /\ fc[y] \in Nat /\ gc[y] \in Nat
  BY <1>1, <1>2, <1>3, <1>4
<1>6. /\ AddedTo(q, o) = SumFunctionOnSet(g, P) /\ CutFrom(q, o) = SumFunctionOnSet(gc, P)
      /\ AddedTo(r, o) = SumFunctionOnSet(f, P) /\ CutFrom(r, o) = SumFunctionOnSet(fc, P)
  BY <1>2 DEF AddedTo, CutFrom
<1>7. /\ f[p] = Additions(r[<<o, p>>].kind, r[<<o, p>>].items)
      /\ g[p] = Additions(q[<<o, p>>].kind, q[<<o, p>>].items)
      /\ fc[p] = Cuts(r[<<o, p>>].kind, r[<<o, p>>].items)
      /\ gc[p] = Cuts(q[<<o, p>>].kind, q[<<o, p>>].items)
  BY <1>2
<1> HIDE DEF P, f, g, fc, gc
<1>8. SumFunctionOnSet(g, P) = SumFunctionOnSet(f, P) + (g[p] - f[p])
  <2>1. (\A y \in P : g[y] \in Int /\ f[y] \in Int) /\ \A y \in P \ {p} : g[y] = f[y]
    BY <1>5
  <2> QED BY <1>2, <1>3, <2>1, SumChange
<1>9. SumFunctionOnSet(gc, P) = SumFunctionOnSet(fc, P) + (gc[p] - fc[p])
  <2>1. (\A y \in P : gc[y] \in Int /\ fc[y] \in Int) /\ \A y \in P \ {p} : gc[y] = fc[y]
    BY <1>5
  <2> QED BY <1>2, <1>3, <2>1, SumChange
<1>10. f[p] <= SumFunctionOnSet(f, P) /\ fc[p] <= SumFunctionOnSet(fc, P)
  <2>1. (\A y \in P : f[y] \in Nat) /\ (\A y \in P : fc[y] \in Nat)
    BY <1>5
  <2> QED BY <1>2, <1>3, <2>1, SumPositive
<1>11. f[p] \in Nat /\ g[p] \in Nat /\ fc[p] \in Nat /\ gc[p] \in Nat
  BY <1>2, <1>5
<1>12. /\ AddedTo(q, o) = AddedTo(r, o) - f[p] + g[p]
       /\ CutFrom(q, o) = CutFrom(r, o) - fc[p] + gc[p]
       /\ f[p] <= AddedTo(r, o) /\ fc[p] <= CutFrom(r, o)
  BY <1>3, <1>6, <1>8, <1>9, <1>10, <1>11
<1> QED BY <1>7, <1>11, <1>12

\* An order within its limit.
Within(r, o, limit) == AddedTo(r, o) <= limit /\ CutFrom(r, o) <= limit

\* BudgetRespected, order by order.
LEMMA WithinFacts ==
  ASSUME TypeOK
  PROVE  BudgetRespected <=> \A o \in Order : Within(reservation, o, Limit(Total(o)))
BY SpentFacts DEF BudgetRespected, Within

\* An edit keeps an order within its limit: with adequation the new pieces are also what was
\* asked, which neither adds nor cuts; without it validar_edicao_orcamento is asked.
LEMMA EditIsWithin ==
  ASSUME TypeOK, NEW p \in Product, NEW O, NEW sheet, NEW C, EditStep(p, O, sheet, C),
         NEW o \in Order, Within(reservation, o, Limit(Total(o)))
  PROVE  Within(reservation', o, Limit(Total(o)))
<1>0. /\ reservation \in Book /\ reservation' \in Book /\ O \subseteq Order
      /\ Total(o) \in Nat /\ Limit(Total(o)) \in Nat
  <2>1. reservation \in Book /\ reservation' \in Book /\ O \subseteq Order /\ pending \in Pending
    BY DEF EditStep, TypeOK, Book
  <2>2. Total(o) \in Nat
    BY <2>1, TotalIsNat
  <2>3. Limit(Total(o)) \in Nat
    BY <2>2, LimitIsNat
  <2> QED BY <2>1, <2>2, <2>3
<1> DEFINE x == <<o, p>>
           was == reservation[x]
           will == reservation'[x]
           t == Total(o)
<1>1. CASE o \notin O
  <2>1. \A y \in Product : reservation'[<<o, y>>] = reservation[<<o, y>>]
    BY <1>1 DEF EditStep, Pair
  <2>2. Pairs(reservation', o) = Pairs(reservation, o)
    BY <2>1 DEF Pairs
  <2>3. AddedTo(reservation', o) = AddedTo(reservation, o)
        /\ CutFrom(reservation', o) = CutFrom(reservation, o)
    <3>1. /\ [y \in Pairs(reservation, o) |->
                 Additions(reservation'[<<o, y>>].kind, reservation'[<<o, y>>].items)]
               = [y \in Pairs(reservation, o) |->
                   Additions(reservation[<<o, y>>].kind, reservation[<<o, y>>].items)]
          /\ [y \in Pairs(reservation, o) |->
                 Cuts(reservation'[<<o, y>>].kind, reservation'[<<o, y>>].items)]
               = [y \in Pairs(reservation, o) |->
                   Cuts(reservation[<<o, y>>].kind, reservation[<<o, y>>].items)]
      BY <2>1 DEF Pairs
    <3> QED BY <2>2, <3>1 DEF AddedTo, CutFrom
  <2> QED BY <2>3 DEF Within
<1>2. CASE o \in O
  <2>1. /\ was # None /\ x \in Pair /\ will \in Reservation /\ will # None
        /\ will.kind = was.kind /\ will.items = Regraded(was.items, was.kind, sheet[o])
        /\ sheet[o] \in Sheets /\ (was.kind = "sem" => WithinBudget(o, p, sheet[o]))
    BY <1>2, NoneIsNothing DEF EditStep
  <2>2. /\ was.kind \in {"com", "sem"} /\ IsGrade(was.items)
    BY <1>0, <2>1, BookEntry
  <2>3. /\ IsGrade(will.items) /\ Quantity(will.items) = SumFunction(sheet[o])
        /\ was.kind = "sem" => Asked(will.items) = Asked(was.items)
        /\ was.kind # "sem" => \A s \in DOMAIN will.items : will.items[s].qty = will.items[s].asked
    BY <2>1, <2>2, RegradedFacts
  <2> DEFINE a == Additions(was.kind, was.items)
             b == Additions(will.kind, will.items)
             ac == Cuts(was.kind, was.items)
             bc == Cuts(will.kind, will.items)
             A == AddedTo(reservation, o)
             K == CutFrom(reservation, o)
  <2>4. /\ AddedTo(reservation', o) = A - a + b /\ CutFrom(reservation', o) = K - ac + bc
        /\ a \in Nat /\ b \in Nat /\ ac \in Nat /\ bc \in Nat /\ a <= A /\ ac <= K
    <3>1. \A y \in Pair : y # x => (y[1] = o => reservation'[y] = reservation[y])
      <4> TAKE y \in Pair
      <4>1. y = <<y[1], y[2]>>
        BY DEF Pair
      <4>2. y # x /\ y[1] = o => y \notin C \X {p}
        BY <4>1
      <4> QED BY <4>2 DEF EditStep
    <3>2. was # None /\ will # None
      BY <2>1
    <3> QED BY <1>0, <3>1, <3>2, SpentChanges
  <2>5. A \in Nat /\ K \in Nat /\ A <= Limit(t) /\ K <= Limit(t)
    BY <1>0, AmountsOf DEF Within
  <2>6. CASE was.kind = "sem"
    <3>1. /\ a = Excess(Quantity(was.items), Asked(was.items))
          /\ b = Excess(SumFunction(sheet[o]), Asked(was.items))
          /\ ac = Excess(Asked(was.items), Quantity(was.items))
          /\ bc = Excess(Asked(was.items), SumFunction(sheet[o]))
      BY <2>1, <2>3, <2>6 DEF Additions, Cuts
    <3>2. Affords(t, SpentAdditions(o), a, b) /\ Affords(t, SpentCuts(o), ac, bc)
      <4>1. WithinBudget(o, p, sheet[o])
        BY <2>1, <2>6
      <4>2. /\ Affords(Total(o), SpentAdditions(o), Excess(Quantity(was.items), Asked(was.items)),
                       Excess(SumFunction(sheet[o]), Asked(was.items)))
            /\ Affords(Total(o), SpentCuts(o), Excess(Asked(was.items), Quantity(was.items)),
                       Excess(Asked(was.items), SumFunction(sheet[o])))
        BY <4>1, Zenon DEF WithinBudget
      <4> QED BY <3>1, <4>2
    <3>3. Affords(t, A, a, b) /\ Affords(t, K, ac, bc)
      BY <3>2, SpentFacts
    <3>4. t \in Nat
      BY <1>0
    <3> HIDE DEF a, b, ac, bc, A, K, t
    <3>5. A - a + b <= Limit(t) /\ K - ac + bc <= Limit(t)
      BY <2>4, <2>5, <3>3, <3>4, AffordedKeepsLimit
    <3> QED BY <2>4, <3>5 DEF Within, t
  <2>7. CASE was.kind # "sem"
    <3>1. b = 0 /\ bc = 0
      BY <2>3, <2>7, EvenAmounts
    <3>2. Limit(t) \in Nat
      BY <1>0
    <3> HIDE DEF a, b, ac, bc, A, K, t
    <3>3. A - a + b <= Limit(t) /\ K - ac + bc <= Limit(t)
      BY <2>4, <2>5, <3>1, <3>2
    <3> QED BY <2>4, <3>3 DEF Within, t
  <2> QED BY <2>6, <2>7
<1> QED BY <1>1, <1>2

\* A plan without rows spends nothing.
LEMMA NothingPlanned ==
  ASSUME NEW rows, DOMAIN rows = {}, NEW o \in Order, NEW kind
  PROVE  AddedBy(kind, rows, o) = 0 /\ CutBy(kind, rows, o) = 0
<1>1. RowsOf(rows, o) = {}
  BY DEF RowsOf
<1> QED BY <1>1, SumEmpty DEF AddedBy, CutBy

\* What is planned for an order depends on its rows.
LEMMA SamePlanned ==
  ASSUME NEW rows, NEW more, NEW o \in Order, NEW kind, RowsOf(more, o) = RowsOf(rows, o),
         \A p \in RowsOf(rows, o) : more[<<o, p>>] = rows[<<o, p>>]
  PROVE  AddedBy(kind, more, o) = AddedBy(kind, rows, o) /\ CutBy(kind, more, o) = CutBy(kind, rows, o)
<1>1. /\ [p \in RowsOf(rows, o) |-> Additions(kind, more[<<o, p>>])]
           = [p \in RowsOf(rows, o) |-> Additions(kind, rows[<<o, p>>])]
      /\ [p \in RowsOf(rows, o) |-> Cuts(kind, more[<<o, p>>])]
           = [p \in RowsOf(rows, o) |-> Cuts(kind, rows[<<o, p>>])]
  OBVIOUS
<1> QED BY <1>1 DEF AddedBy, CutBy

\* An order in the queue has no rows yet, and gets those of its products.
LEMMA PlannedRows ==
  ASSUME PlanOK, InPlan, NEW o, PlanStep(o), o \in QueuedIn(job.queue)
  PROVE  /\ RowsOf(job'.rows, o) = Planned(o)
         /\ \A a \in Order : a # o => /\ RowsOf(job'.rows, a) = RowsOf(job.rows, a)
                                      /\ \A p \in RowsOf(job.rows, a) :
                                           job'.rows[<<a, p>>] = job.rows[<<a, p>>]
<1>1. \A x \in DOMAIN job.rows : x[1] # o
  BY DEF PlanOK, RowsOK
<1>2. RowsOf(job.rows, o) = {}
  <2>1. \A p : <<o, p>>[1] = o
    OBVIOUS
  <2> QED BY <1>1, <2>1 DEF RowsOf
<1>3. /\ DOMAIN job'.rows = ({o} \X Planned(o)) \cup DOMAIN job.rows
      /\ \A x \in (DOMAIN job.rows) \ ({o} \X Planned(o)) : job'.rows[x] = job.rows[x]
      /\ Planned(o) \subseteq Product
  BY DEF PlanStep, ProductsOf
<1>4. RowsOf(job'.rows, o) = Planned(o)
  BY <1>2, <1>3 DEF RowsOf
<1>5. ASSUME NEW a \in Order, a # o
      PROVE  /\ RowsOf(job'.rows, a) = RowsOf(job.rows, a)
             /\ \A p \in RowsOf(job.rows, a) : job'.rows[<<a, p>>] = job.rows[<<a, p>>]
  <2>1. \A p : <<a, p>> \notin {o} \X Planned(o)
    BY <1>5
  <2> QED BY <1>3, <2>1 DEF RowsOf
<1> QED BY <1>4, <1>5

\* They fit in what is left of its budgets, because the engine decides within them.
LEMMA PlannedIsWithin ==
  ASSUME PlanOK, InPlan, NEW o, PlanStep(o), o \in QueuedIn(job.queue)
  PROVE  /\ AddedBy(job.kind, job'.rows, o) <= job.rest[o].additions
         /\ CutBy(job.kind, job'.rows, o) <= job.rest[o].cuts
<1> DEFINE P == Planned(o)
           d == Decided(o)
           kind == job.kind
           f == [p \in P |-> Additions(kind, d.grades[p])]
           e == [p \in P |-> Cuts(kind, d.grades[p])]
<1>1. RowsOf(job'.rows, o) = P
  BY PlannedRows
<1>2. \A p \in P : SameCounts(d.grades[p], job'.rows[<<o, p>>])
  BY DEF PlanStep
<1>3. \A p \in P : /\ Additions(kind, job'.rows[<<o, p>>]) = Additions(kind, d.grades[p])
                   /\ Cuts(kind, job'.rows[<<o, p>>]) = Cuts(kind, d.grades[p])
  BY <1>2, SameAmounts
<1>4. /\ AddedBy(kind, job'.rows, o) = SumFunctionOnSet(f, P)
      /\ CutBy(kind, job'.rows, o) = SumFunctionOnSet(e, P)
  <2>1. /\ [p \in P |-> Additions(kind, job'.rows[<<o, p>>])] = f
        /\ [p \in P |-> Cuts(kind, job'.rows[<<o, p>>])] = e
    BY <1>3
  <2> HIDE DEF f, e
  <2> QED BY <1>1, <2>1 DEF AddedBy, CutBy
<1>5. TypeOK /\ job.state \in {"planning", "planned"} /\ o \in Order
  BY DEF PlanOK, InPlan, PlanStep
<1>6. Decides(GradesOf(o), d, kind, job.rest[o].additions, job.rest[o].cuts)
  BY <1>5, DecidedFacts
<1>7. SumFunction(f) <= job.rest[o].additions /\ SumFunction(e) <= job.rest[o].cuts
  BY <1>6 DEF Decides, Planned
<1> QED BY <1>4, <1>7 DEF SumFunction

\* Without a change of reservations the budgets stay.
LEMMA BudgetsKept ==
  ASSUME TypeOK, reservation' = reservation, pending' = pending
  PROVE  \A o \in Order : BudgetsOf(o)' = BudgetsOf(o) /\ Total(o)' = Total(o)
BY Zenon DEF BudgetsOf, Total, SpentAdditions, SpentCuts, Spent

\* The pieces of an order stay while pedidos does.
LEMMA TotalKept ==
  ASSUME pending' = pending
  PROVE  \A o \in Order : Total(o)' = Total(o)
BY Zenon DEF Total

\* Approvals and expiries spend nothing.
LEMMA SpentKept ==
  ASSUME StateStep
  PROVE  \A o \in Order : /\ AddedTo(reservation', o) = AddedTo(reservation, o)
                          /\ CutFrom(reservation', o) = CutFrom(reservation, o)
<1> TAKE o \in Order
<1> DEFINE P == Pairs(reservation, o)
<1>1. \A p \in Product : <<o, p>> \in Pair
  BY DEF Pair
<1>2. Pairs(reservation', o) = P
  BY <1>1 DEF Pairs, StateStep
<1>3. \A p \in P : /\ reservation'[<<o, p>>].kind = reservation[<<o, p>>].kind
                   /\ reservation'[<<o, p>>].items = reservation[<<o, p>>].items
  BY <1>1 DEF Pairs, StateStep
<1>4. /\ [p \in P |-> Additions(reservation'[<<o, p>>].kind, reservation'[<<o, p>>].items)]
           = [p \in P |-> Additions(reservation[<<o, p>>].kind, reservation[<<o, p>>].items)]
      /\ [p \in P |-> Cuts(reservation'[<<o, p>>].kind, reservation'[<<o, p>>].items)]
           = [p \in P |-> Cuts(reservation[<<o, p>>].kind, reservation[<<o, p>>].items)]
  BY <1>3
<1> QED BY <1>2, <1>4 DEF AddedTo, CutFrom

\* The parts of BudgetOK about the plan.
RestIsCurrent == InPlan => \A o \in Order : job.rest[o] = BudgetsOf(o)

PlanWithin == InPlan => RowsFit(job.rest, job.kind, job.rows)

\* Restated on the values of the next state.
LEMMA BudgetParts ==
  ASSUME pending' = pending,
         \A o \in Order : Within(reservation', o, Limit(Total(o))),
         RestIsCurrent', PlanWithin'
  PROVE  BudgetOK'
<1>1. \A o \in Order : Total(o)' = Total(o)
  BY TotalKept
<1>2. \A o \in Order : /\ SpentAdditions(o)' = AddedTo(reservation', o)
                       /\ SpentCuts(o)' = CutFrom(reservation', o)
  BY Zenon DEF SpentAdditions, SpentCuts, Spent, AddedTo, CutFrom, Pairs, SumFunction
<1>3. BudgetRespected'
  BY <1>1, <1>2 DEF BudgetRespected, Within, Limit
<1> QED BY <1>3 DEF BudgetOK, RestIsCurrent, PlanWithin

\* Applying a plan keeps each order within its limit: the plan fits in what was left when
\* it was made, and that is still left.
LEMMA ApplyIsWithin ==
  ASSUME PlanOK, BudgetOK, ApplyStep, NEW o \in Order
  PROVE  Within(reservation', o, Limit(Total(o)))
<1> DEFINE t == Total(o)
           A == AddedTo(reservation, o)
           K == CutFrom(reservation, o)
           a == AddedBy(job.kind, job.rows, o)
           c == CutBy(job.kind, job.rows, o)
<1>0. TypeOK /\ InPlan /\ reservation \in Book /\ reservation' \in Book /\ pending \in Pending
  BY DEF PlanOK, ApplyStep, InPlan, TypeOK, Book
<1>1. \A x \in DOMAIN job.rows : x \in Pair /\ IsGrade(job.rows[x]) /\ reservation[x] = None
  BY <1>0, PlanJobFields DEF PlanOK, RowsOK, InPlan
<1>2. \A x \in DOMAIN job.rows : /\ reservation'[x] # None /\ reservation'[x].kind = job.kind
                                 /\ reservation'[x].items = job.rows[x]
  <2> TAKE x \in DOMAIN job.rows
  <2>1. reservation'[x] = Payload(x) /\ Payload(x) \in Reservation
    BY DEF ApplyStep
  <2>2. Payload(x).kind = job.kind /\ Payload(x).items = job.rows[x]
    BY DEF Payload
  <2>3. reservation'[x] # None
    BY <2>1, NoneIsNothing
  <2> QED BY <2>1, <2>2, <2>3
<1>3. \A x \in Pair \ DOMAIN job.rows : reservation'[x] = reservation[x]
  BY DEF ApplyStep
<1>4. /\ AddedTo(reservation', o) = A + a /\ CutFrom(reservation', o) = K + c
      /\ a \in Nat /\ c \in Nat
  BY <1>0, <1>1, <1>2, <1>3, SpentJoins
<1>5. A \in Nat /\ K \in Nat /\ t \in Nat
  BY <1>0, AmountsOf, TotalIsNat
<1>6. A <= Limit(t) /\ K <= Limit(t)
  BY <1>0, WithinFacts DEF BudgetOK, Within
<1>7. a <= Rest(t, A) /\ c <= Rest(t, K)
  <2>1. job.rest[o] = BudgetsOf(o) /\ a <= job.rest[o].additions /\ c <= job.rest[o].cuts
    BY <1>0 DEF BudgetOK, RowsFit
  <2>2. BudgetsOf(o).additions = Rest(t, A) /\ BudgetsOf(o).cuts = Rest(t, K)
    BY <1>0, SpentFacts DEF BudgetsOf
  <2> QED BY <2>1, <2>2
<1> HIDE DEF t, A, K, a, c
<1>8. A + a <= Limit(t) /\ K + c <= Limit(t)
  BY <1>4, <1>5, <1>6, <1>7, RestKeepsLimit
<1> QED BY <1>4, <1>8 DEF Within, t

\* Every step keeps the budgets, unless edits come between a plan and its writes.
LEMMA StepKeepsBudget ==
  ASSUME ~EditsMeanwhile, PlanOK, BudgetOK, Stepped
  PROVE  BudgetOK'
<1>0. /\ TypeOK /\ reservation \in Book
      /\ \A o \in Order : Within(reservation, o, Limit(Total(o)))
      /\ RestIsCurrent /\ PlanWithin
  BY WithinFacts DEF PlanOK, BudgetOK, TypeOK, Book, RestIsCurrent, PlanWithin
<1>1. CASE StartStep /\ job' \in PlanJob
  <2>1. /\ pending' = pending /\ reservation' = reservation
        /\ job'.rest = [o \in Order |-> BudgetsOf(o)] /\ DOMAIN job'.rows = {}
    BY <1>1 DEF StartStep
  <2>2. \A o \in Order : BudgetsOf(o)' = BudgetsOf(o)
    BY <1>0, <2>1, BudgetsKept
  <2>3. RestIsCurrent'
    BY <2>1, <2>2 DEF RestIsCurrent
  <2>4. RowsFit(job'.rest, job'.kind, job'.rows)
    <3> SUFFICES ASSUME NEW o \in Order
                 PROVE  /\ AddedBy(job'.kind, job'.rows, o) <= job'.rest[o].additions
                        /\ CutBy(job'.kind, job'.rows, o) <= job'.rest[o].cuts
      BY DEF RowsFit
    <3>1. AddedBy(job'.kind, job'.rows, o) = 0 /\ CutBy(job'.kind, job'.rows, o) = 0
      BY <2>1, NothingPlanned
    <3>2. job'.rest[o] \in Budget
      BY <1>0, <2>1, BudgetFacts
    <3> QED BY <3>1, <3>2 DEF Budget
  <2>5. PlanWithin'
    BY <2>4 DEF PlanWithin
  <2> QED BY <1>0, <2>1, <2>3, <2>5, BudgetParts
<1>2. CASE \E o \in Order : PlanStep(o) /\ job' \in PlanJob
              /\ job.state = "planning" /\ job.queue # <<>>
              /\ UNCHANGED <<pending, client, photo, today, reservation, standby, linx, virtual, edits>>
  <2>1. PICK o \in Order : PlanStep(o)
    BY <1>2
  <2>2. /\ InPlan /\ job.queue # <<>> /\ pending' = pending /\ reservation' = reservation
        /\ job'.rest = job.rest /\ job'.kind = job.kind /\ o = Head(job.queue)
    BY <1>2, <2>1 DEF InPlan, PlanStep
  <2>3. o \in QueuedIn(job.queue)
    BY <1>0, <2>2, PlanJobFields, TailFacts DEF PlanOK, QueueOK, InPlan
  <2>4. \A a \in Order : BudgetsOf(a)' = BudgetsOf(a)
    BY <1>0, <2>2, BudgetsKept
  <2>5. RestIsCurrent'
    BY <1>0, <2>2, <2>4 DEF RestIsCurrent
  <2>6. RowsFit(job.rest, job.kind, job.rows)
    BY <1>0, <2>2 DEF PlanWithin
  <2>7. RowsFit(job.rest, job.kind, job'.rows)
    <3> SUFFICES ASSUME NEW a \in Order
                 PROVE  /\ AddedBy(job.kind, job'.rows, a) <= job.rest[a].additions
                        /\ CutBy(job.kind, job'.rows, a) <= job.rest[a].cuts
      BY DEF RowsFit
    <3>1. CASE a = o
      BY <2>1, <2>2, <2>3, <3>1, PlannedIsWithin
    <3>2. CASE a # o
      <4>1. /\ RowsOf(job'.rows, a) = RowsOf(job.rows, a)
            /\ \A p \in RowsOf(job.rows, a) : job'.rows[<<a, p>>] = job.rows[<<a, p>>]
        BY <2>1, <2>2, <2>3, <3>2, PlannedRows
      <4>2. /\ AddedBy(job.kind, job'.rows, a) = AddedBy(job.kind, job.rows, a)
            /\ CutBy(job.kind, job'.rows, a) = CutBy(job.kind, job.rows, a)
        BY <4>1, SamePlanned
      <4> QED BY <2>6, <4>2 DEF RowsFit
    <3> QED BY <3>1, <3>2
  <2>8. PlanWithin'
    BY <2>2, <2>7 DEF PlanWithin
  <2> QED BY <1>0, <2>2, <2>5, <2>8, BudgetParts
<1>3. CASE JobStep \/ StoreStep \/ TimeStep \/ UNCHANGED vars
  <2>1. /\ pending' = pending /\ reservation' = reservation
        /\ InPlan' => InPlan /\ job'.rows = job.rows /\ job'.rest = job.rest /\ job'.kind = job.kind
    <3>1. CASE JobStep
      BY <3>1 DEF JobStep, InPlan
    <3>2. CASE StoreStep
      BY <3>2 DEF StoreStep, InPlan
    <3>3. CASE TimeStep \/ UNCHANGED vars
      BY <3>3 DEF TimeStep, vars, InPlan
    <3> QED BY <1>3, <3>1, <3>2, <3>3
  <2>2. \A o \in Order : BudgetsOf(o)' = BudgetsOf(o)
    BY <1>0, <2>1, BudgetsKept
  <2>3. RestIsCurrent' /\ PlanWithin'
    BY <1>0, <2>1, <2>2 DEF RestIsCurrent, PlanWithin
  <2> QED BY <1>0, <2>1, <2>3, BudgetParts
<1>4. CASE ApplyStep
  <2>1. job'.state = "idle" /\ pending' = pending
    BY <1>0, <1>4, CountIsNat DEF ApplyStep
  <2>2. RestIsCurrent' /\ PlanWithin'
    BY <2>1 DEF RestIsCurrent, PlanWithin, InPlan
  <2>3. \A o \in Order : Within(reservation', o, Limit(Total(o)))
    BY <1>4, ApplyIsWithin
  <2> QED BY <2>1, <2>2, <2>3, BudgetParts
<1>5. CASE \E p \in Product : \E O, sheet, C : EditStep(p, O, sheet, C)
  <2>1. PICK p \in Product : \E O, sheet, C : EditStep(p, O, sheet, C)
    BY <1>5
  <2>2. PICK O, sheet, C : EditStep(p, O, sheet, C)
    BY <2>1
  <2>3. /\ pending' = pending /\ job' = job /\ ~job.locked /\ job.state # "planned"
    BY <2>2 DEF EditStep
  <2>4. job.state # "planning"
    BY <1>0, <2>3 DEF TypeOK
  <2>5. RestIsCurrent' /\ PlanWithin'
    BY <2>3, <2>4 DEF RestIsCurrent, PlanWithin, InPlan
  <2>6. \A o \in Order : Within(reservation', o, Limit(Total(o)))
    BY <1>0, <2>2, EditIsWithin
  <2> QED BY <2>3, <2>5, <2>6, BudgetParts
<1>6. CASE StateStep
  <2>1. pending' = pending /\ job' = job /\ reservation' \in Book
    BY <1>6 DEF StateStep
  <2>2. \A o \in Order : /\ AddedTo(reservation', o) = AddedTo(reservation, o)
                         /\ CutFrom(reservation', o) = CutFrom(reservation, o)
    BY <1>6, SpentKept
  <2>3. \A o \in Order : BudgetsOf(o)' = BudgetsOf(o)
    <3> TAKE o \in Order
    <3>1. /\ SpentAdditions(o)' = AddedTo(reservation', o)
          /\ SpentCuts(o)' = CutFrom(reservation', o)
      BY Zenon DEF SpentAdditions, SpentCuts, Spent, AddedTo, CutFrom, Pairs, SumFunction
    <3>2. SpentAdditions(o) = AddedTo(reservation, o) /\ SpentCuts(o) = CutFrom(reservation, o)
      BY <1>0, SpentFacts
    <3>3. Total(o)' = Total(o)
      BY <2>1, TotalKept
    <3> QED BY <2>2, <3>1, <3>2, <3>3 DEF BudgetsOf, Rest, Limit
  <2>4. RestIsCurrent' /\ PlanWithin'
    BY <1>0, <2>1, <2>3 DEF RestIsCurrent, PlanWithin, InPlan
  <2>5. \A o \in Order : Within(reservation', o, Limit(Total(o)))
    BY <1>0, <2>2 DEF Within
  <2> QED BY <2>1, <2>4, <2>5, BudgetParts
<1> QED BY <1>1, <1>2, <1>3, <1>4, <1>5, <1>6 DEF Stepped

\* At first nothing is spent.
LEMMA InitBudget ==
  ASSUME Init
  PROVE  BudgetOK
<1>1. TypeOK /\ ~InPlan /\ pending \in Pending
  BY InitType DEF Init, NoJob, InPlan
<1>2. ASSUME NEW o \in Order PROVE Within(reservation, o, Limit(Total(o)))
  <2>1. Pairs(reservation, o) = {}
    BY DEF Init, Pairs, Pair
  <2>2. AddedTo(reservation, o) = 0 /\ CutFrom(reservation, o) = 0
    BY <2>1, SumEmpty DEF AddedTo, CutFrom
  <2>3. Total(o) \in Nat
    BY <1>1, TotalIsNat
  <2>4. Limit(Total(o)) \in Nat
    BY <2>3, LimitIsNat
  <2> QED BY <2>2, <2>4 DEF Within
<1> QED BY <1>1, <1>2, WithinFacts DEF BudgetOK

\* If no edit comes between a stored plan and its writes, an order is cut, and grown, by no
\* more than the tolerance of its total, over all jobs and edits.  The hypothesis is needed:
\* nothing in the code checks the budgets again when a stored plan is resumed, and
\* the run AllocationBudget shows an edit in between that exceeds them.
THEOREM AllocationBudgetRespected ==
  ASSUME ~EditsMeanwhile
  PROVE  Spec => []BudgetRespected
<1>1. Init => BudgetOK
  BY InitBudget
<1>2. PlanOK /\ BudgetOK /\ [Next]_vars => BudgetOK'
  BY NextSteps, StepKeepsBudget DEF PlanOK
<1>3. BudgetOK => BudgetRespected
  BY DEF BudgetOK
<1> QED BY <1>1, <1>2, <1>3, AllocationPlanOK, PTL DEF Spec

-----------------------------------------------------------------------------
(* The most products.                                                       *)

\* The choice of one step, and the condition under which it is one.
BestChosen ==
  LET o     == Head(job.queue)
      whole == {p \in ProductsOf(o) : ~HasHole(Grade(o, p), job.stock[p])}
      cost(S) == SumFunction([p \in S |-> Shortage(Grade(o, p), job.stock[p])])
      best  == Max({Cardinality(S) : S \in
                      {T \in SUBSET whole : cost(T) <= job.rest[o].cuts}})
  IN  (job.kind = "com" /\ ~Blacklisted(o)) =>
        Cardinality({p \in Product : <<o, p>> \in DOMAIN job'.rows}) = best

BestChoice == (job.state = "planning" /\ job'.state = "planning" /\ job' # job) => BestChosen

\* The largest member of a family is the maximum of the sizes.
LEMMA MaxIs ==
  ASSUME NEW W, IsFiniteSet(W), NEW F, F \subseteq SUBSET W, NEW S \in F,
         \A T \in F : Cardinality(T) <= Cardinality(S)
  PROVE  Cardinality(S) = Max({Cardinality(T) : T \in F})
<1> DEFINE n == Cardinality(W)
           C == {Cardinality(T) : T \in F}
<1>1. \A T \in F : IsFiniteSet(T) /\ Cardinality(T) \in Nat /\ Cardinality(T) <= n
  BY FS_Subset, FS_CardinalityType
<1>2. n \in Nat
  BY FS_CardinalityType
<1>3. C \subseteq 0..n /\ C # {} /\ Cardinality(S) \in C
  BY <1>1, <1>2
<1>4. Max(C) \in C /\ \A y \in C : y <= Max(C)
  <2> HIDE DEF C, n
  <2> QED BY <1>2, <1>3, MaxOf
<1>5. PICK T \in F : Max(C) = Cardinality(T)
  BY <1>4
<1>6. Max(C) <= Cardinality(S) /\ Cardinality(S) <= Max(C) /\ Max(C) \in Nat /\ Cardinality(S) \in Nat
  BY <1>1, <1>3, <1>4, <1>5
<1> HIDE DEF C
<1>7. Max(C) = Cardinality(S)
  BY <1>6
<1> QED BY <1>7 DEF C

\* Planning an order with the policy ADEQUAR serves the most products.
LEMMA PlanStepServes ==
  ASSUME PlanOK, job.state = "planning", job.queue # <<>>, NEW o \in Order, PlanStep(o)
  PROVE  BestChoice
<1> DEFINE stock == job.stock
           cuts == job.rest[o].cuts
           grades == GradesOf(o)
           whole == {p \in ProductsOf(o) : ~HasHole(Grade(o, p), stock[p])}
           cost(S) == SumFunction([p \in S |-> Shortage(Grade(o, p), stock[p])])
           F == {T \in SUBSET whole : cost(T) <= cuts}
           P == Planned(o)
<1> SUFFICES ASSUME job.kind = "com" /\ ~Blacklisted(o)
             PROVE  Cardinality({p \in Product : <<o, p>> \in DOMAIN job'.rows}) =
                      Max({Cardinality(S) : S \in F})
  <2>1. o = Head(job.queue)
    BY DEF PlanStep
  <2> QED BY <2>1, Zenon DEF BestChoice, BestChosen
<1>0. TypeOK /\ InPlan /\ stock \in [Product -> [Size -> Nat]] /\ job.queue \in Seq(Order)
      /\ o = Head(job.queue)
  BY PlanJobFields DEF PlanOK, InPlan, PlanStep
<1>1. o \in QueuedIn(job.queue)
  BY <1>0, TailFacts DEF PlanOK, QueueOK
<1>2. {p \in Product : <<o, p>> \in DOMAIN job'.rows} = P
  <2>1. RowsOf(job'.rows, o) = P
    BY <1>0, <1>1, PlannedRows
  <2> QED BY <2>1 DEF RowsOf
<1>3. /\ DOMAIN grades = ProductsOf(o) /\ ProductsOf(o) \subseteq Product
      /\ \A p \in ProductsOf(o) : grades[p] = Grade(o, p) /\ IsRaw(Grade(o, p))
  BY <1>0, GradesAreInput DEF EngineInput
<1>4. Served(grades, stock, cuts, P)
  BY <1>0, DecidedFacts DEF InPlan, Planned
<1>5. WholeOf(grades, stock) = whole
  BY <1>3 DEF WholeOf
<1>6. IsFiniteSet(whole) /\ whole \subseteq ProductsOf(o)
  BY <1>3, Finite, FS_Subset
<1>7. \A T \in SUBSET whole : cost(T) = SumFunctionOnSet(ShortagesOf(grades, stock), T)
  <2> TAKE T \in SUBSET whole
  <2> DEFINE f == [p \in T |-> Shortage(Grade(o, p), stock[p])]
             e == ShortagesOf(grades, stock)
  <2>1. \A p \in T : f[p] \in Int /\ f[p] = e[p]
    <3> TAKE p \in T
    <3>1. p \in ProductsOf(o) /\ IsRaw(Grade(o, p)) /\ stock[p] \in [Size -> Nat] /\ grades[p] = Grade(o, p)
      BY <1>0, <1>3, <1>6
    <3>2. Shortage(Grade(o, p), stock[p]) \in Nat
      BY <3>1, FittedFacts
    <3>3. e[p] = Shortage(grades[p], stock[p])
      BY <1>5 DEF ShortagesOf
    <3> QED BY <3>1, <3>2, <3>3
  <2>2. IsFiniteSet(T) /\ cost(T) = SumFunctionOnSet(f, T)
    BY <1>6, FS_Subset DEF SumFunction
  <2> HIDE DEF f, e
  <2>3. SumFunctionOnSet(f, T) = SumFunctionOnSet(e, T)
    BY <2>1, <2>2, SumAlike
  <2> QED BY <2>2, <2>3 DEF e
<1> HIDE DEF whole, cost
<1>8. P \in F /\ F \subseteq SUBSET whole /\ \A T \in F : Cardinality(T) <= Cardinality(P)
  BY <1>4, <1>5, <1>7 DEF Served
<1> HIDE DEF P, F
<1>9. Cardinality(P) = Max({Cardinality(T) : T \in F})
  BY <1>6, <1>8, MaxIs
<1> QED BY <1>2, <1>9

\* Whenever a job plans an order with the policy ADEQUAR and its client is not in the
\* blacklist, the plan gains as many rows for it as any choice of products without a hole
\* whose cuts fit in what is left of the budget.
THEOREM AllocationServesMostProducts == Spec => ServesMostProducts
<1>1. ASSUME PlanOK, Stepped PROVE BestChoice \/ UNCHANGED vars
  <2>1. CASE \E o \in Order : PlanStep(o) /\ job' \in PlanJob
              /\ job.state = "planning" /\ job.queue # <<>>
              /\ UNCHANGED <<pending, client, photo, today, reservation, standby, linx, virtual, edits>>
    BY <1>1, <2>1, PlanStepServes
  <2>2. CASE ~(job.state = "planning" /\ job'.state = "planning" /\ job' # job)
    BY <2>2 DEF BestChoice
  <2>3. CASE StartStep \/ JobStep
    BY <2>2, <2>3 DEF StartStep, JobStep
  <2>4. CASE StoreStep \/ ApplyStep
    BY <2>2, <2>4 DEF StoreStep, ApplyStep, NoJob
  <2>5. CASE \E p \in Product : \E O, sheet, C : EditStep(p, O, sheet, C)
    BY <2>2, <2>5 DEF EditStep
  <2>6. CASE StateStep \/ TimeStep
    BY <2>2, <2>6 DEF StateStep, TimeStep
  <2> QED BY <1>1, <2>1, <2>3, <2>4, <2>5, <2>6 DEF Stepped
<1>2. PlanOK /\ [Next]_vars => [BestChoice]_vars
  BY <1>1, NextSteps DEF PlanOK
<1>3. ServesMostProducts <=> [][BestChoice]_vars
  BY Zenon DEF ServesMostProducts, BestChoice, BestChosen
<1> QED BY <1>2, <1>3, AllocationPlanOK, PTL DEF Spec
=============================================================================
