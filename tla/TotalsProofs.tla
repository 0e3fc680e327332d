----------------------------- MODULE TotalsProofs -----------------------------
(***************************************************************************)
(* Facts about totals over finite sets of rows, for any quantity.  A total *)
(* is defined by a recursion that takes an arbitrary row first; that it    *)
(* does not depend on the order is an induction over the rows, done here   *)
(* with sets in place of predicates: a set of the sets for which the claim *)
(* holds, and the smallest one outside of it.                              *)
(***************************************************************************)
EXTENDS Integers, Totals, FiniteSetTheorems, WellFoundedInduction, TLAPS

\* A set of natural numbers has a least element.
LEMMA LeastNumber ==
  ASSUME NEW T \in SUBSET Nat, T # {}
  PROVE  \E n \in T : \A m \in T : n <= m
<1>1. PICK x \in T : \A y \in T : <<y, x>> \notin OpToRel(<, Nat)
  BY NatLessThanWellFounded, WFMin
<1>2. \A y \in T : x <= y
  <2> TAKE y \in T
  <2>1. ~(y < x)
    BY <1>1 DEF OpToRel
  <2>2. x \in Nat /\ y \in Nat
    OBVIOUS
  <2> QED BY <2>1, <2>2
<1> QED BY <1>1, <1>2

\* A set with 0 and, with each number, the next one has every number.
LEMMA NumbersByInduction ==
  ASSUME NEW G, 0 \in G, \A n \in Nat : n \in G => n + 1 \in G
  PROVE  \A n \in Nat : n \in G
<1> DEFINE B == Nat \ G
<1>1. SUFFICES ASSUME B # {} PROVE FALSE
  OBVIOUS
<1>2. PICK n \in B : \A m \in B : n <= m
  BY <1>1, LeastNumber
<1>3. n - 1 \in Nat
  OBVIOUS
<1>4. n - 1 \in G
  BY <1>2, <1>3
<1> QED BY <1>3, <1>4

\* A property that a finite set has whenever its proper subsets have it.
LEMMA SetsByInduction ==
  ASSUME NEW S, IsFiniteSet(S), NEW G,
         \A T \in SUBSET S : (\A U \in SUBSET T : U # T => U \in G) => T \in G
  PROVE  S \in G
<1> DEFINE B == {T \in SUBSET S : T \notin G}
           K == {Cardinality(T) : T \in B}
<1>1. SUFFICES ASSUME B # {} PROVE FALSE
  OBVIOUS
<1>2. \A T \in SUBSET S : IsFiniteSet(T) /\ Cardinality(T) \in Nat
  BY FS_Subset, FS_CardinalityType
<1>3. PICK n \in K : \A m \in K : n <= m
  <2>1. K \in SUBSET Nat /\ K # {}
    BY <1>1, <1>2
  <2> QED BY <2>1, LeastNumber
<1>4. PICK T \in B : n = Cardinality(T)
  BY <1>3
<1>5. ASSUME NEW U \in SUBSET T, U # T PROVE U \in G
  <2>1. Cardinality(U) < Cardinality(T)
    BY <1>2, <1>5, FS_Subset
  <2>2. Cardinality(U) \notin K
    BY <1>2, <1>3, <1>4, <2>1
  <2> QED BY <2>2
<1> QED BY <1>5

-------------------------------------------------------------------------------
(* The recursion behind a total has one solution.                          *)

Taken(S) == CHOOSE x \in S : TRUE
Adds(g, f, D) ==
  g = [s \in D |-> IF s = {} THEN 0 ELSE f[Taken(s)] + g[s \ {Taken(s)}]]

LEMMA TotalUnfolds ==
  ASSUME NEW f, NEW S
  PROVE  Total(f, S) = (CHOOSE g : Adds(g, f, SUBSET S))[S]
BY DEF Total, MapThenSumSet, MapThenFoldSet, Adds, Taken

\* ... which exists, up to one cardinality after the other, ...
LEMMA AddsExists ==
  ASSUME NEW f, NEW S, IsFiniteSet(S)
  PROVE  \E g : Adds(g, f, SUBSET S)
<1> DEFINE Small(n) == {s \in SUBSET S : Cardinality(s) <= n}
           G == {n \in Nat : \E g : Adds(g, f, Small(n))}
<1>1. \A s \in SUBSET S : IsFiniteSet(s) /\ Cardinality(s) \in Nat
  BY FS_Subset, FS_CardinalityType
<1>2. 0 \in G
  <2>1. \A s \in Small(0) : s = {}
    BY <1>1, FS_EmptySet
  <2>2. Adds([s \in Small(0) |-> 0], f, Small(0))
    BY <2>1 DEF Adds
  <2> QED BY <2>2
<1>3. ASSUME NEW n \in Nat, n \in G PROVE n + 1 \in G
  <2>1. PICK g : Adds(g, f, Small(n))
    BY <1>3
  <2> DEFINE h == [s \in Small(n + 1) |->
                     IF s = {} THEN 0 ELSE f[Taken(s)] + g[s \ {Taken(s)}]]
  <2>2. \A s \in Small(n) : s \in Small(n + 1)
    BY <1>1
  <2>3. \A s \in Small(n) : h[s] = g[s]
    BY <2>1, <2>2 DEF Adds
  <2>4. ASSUME NEW s \in Small(n + 1), s # {} PROVE s \ {Taken(s)} \in Small(n)
    <3>1. Taken(s) \in s
      BY <2>4 DEF Taken
    <3>2. Cardinality(s \ {Taken(s)}) = Cardinality(s) - 1
      BY <1>1, <3>1, FS_RemoveElement
    <3> QED BY <1>1, <3>2
  <2>5. \A s \in Small(n + 1) :
          h[s] = IF s = {} THEN 0 ELSE f[Taken(s)] + h[s \ {Taken(s)}]
    BY <2>3, <2>4
  <2>6. Adds(h, f, Small(n + 1))
    <3>1. h = [s \in Small(n + 1) |-> h[s]]
      OBVIOUS
    <3> HIDE DEF h
    <3> QED BY <2>5, <3>1 DEF Adds
  <2>7. \E k : Adds(k, f, Small(n + 1))
    BY Zenon, <2>6
  <2> HIDE DEF h, Small
  <2> QED BY <2>7
<1>4. \A n \in Nat : n \in G
  <2> HIDE DEF G
  <2> QED BY <1>2, <1>3, NumbersByInduction
<1>5. Cardinality(S) \in G
  BY <1>1, <1>4
<1>6. Small(Cardinality(S)) = SUBSET S
  BY <1>1, FS_Subset
<1> QED BY <1>5, <1>6

\* ... and is the same over every superset.
LEMMA AddsUnique ==
  ASSUME NEW f, NEW S, IsFiniteSet(S), NEW T \in SUBSET S
  PROVE  \A g, h : Adds(g, f, SUBSET S) /\ Adds(h, f, SUBSET T) => g[T] = h[T]
<1> TAKE g, h
<1> HAVE Adds(g, f, SUBSET S) /\ Adds(h, f, SUBSET T)
<1> DEFINE G == {s \in SUBSET T : g[s] = h[s]}
<1>1. IsFiniteSet(T)
  BY FS_Subset
<1>2. ASSUME NEW s \in SUBSET T, \A U \in SUBSET s : U # s => U \in G
      PROVE  s \in G
  <2>1. /\ g[s] = IF s = {} THEN 0 ELSE f[Taken(s)] + g[s \ {Taken(s)}]
        /\ h[s] = IF s = {} THEN 0 ELSE f[Taken(s)] + h[s \ {Taken(s)}]
    BY DEF Adds
  <2>2. s # {} => s \ {Taken(s)} \in G
    BY <1>2 DEF Taken
  <2> QED BY <2>1, <2>2
<1>3. T \in G
  <2> HIDE DEF G
  <2> QED BY <1>1, <1>2, SetsByInduction
<1> QED BY <1>3

\* A total is one row's quantity and the total of the others.
LEMMA TotalOfTaken ==
  ASSUME NEW f, NEW S, IsFiniteSet(S)
  PROVE  Total(f, S) = IF S = {} THEN 0 ELSE f[Taken(S)] + Total(f, S \ {Taken(S)})
<1> DEFINE g(T) == CHOOSE h : Adds(h, f, SUBSET T)
<1>1. \A T : Total(f, T) = g(T)[T]
  BY TotalUnfolds
<1>2. \A T \in SUBSET S : Adds(g(T), f, SUBSET T)
  BY AddsExists, FS_Subset
<1> HIDE DEF g
<1>3. g(S)[S] = IF S = {} THEN 0 ELSE f[Taken(S)] + g(S)[S \ {Taken(S)}]
  BY <1>2 DEF Adds
<1>4. g(S)[S \ {Taken(S)}] = g(S \ {Taken(S)})[S \ {Taken(S)}]
  <2> DEFINE T == S \ {Taken(S)}
  <2>1. T \in SUBSET S
    OBVIOUS
  <2>2. Adds(g(S), f, SUBSET S) /\ Adds(g(T), f, SUBSET T)
    BY <1>2, <2>1
  <2>3. \A a, b : Adds(a, f, SUBSET S) /\ Adds(b, f, SUBSET T) => a[T] = b[T]
    <3> HIDE DEF T
    <3> QED BY <2>1, AddsUnique
  <2> QED BY <2>2, <2>3
<1> QED BY <1>1, <1>3, <1>4

-------------------------------------------------------------------------------
(* What the other proofs use.                                              *)

LEMMA TotalOfNone ==
  ASSUME NEW f
  PROVE  Total(f, {}) = 0
BY TotalOfTaken, FS_EmptySet

LEMMA TotalType ==
  ASSUME NEW S, IsFiniteSet(S), NEW f, \A x \in S : f[x] \in Int
  PROVE  Total(f, S) \in Int
<1> DEFINE G == {T \in SUBSET S : Total(f, T) \in Int}
<1>1. ASSUME NEW T \in SUBSET S, \A U \in SUBSET T : U # T => U \in G
      PROVE  T \in G
  <2>1. IsFiniteSet(T)
    BY FS_Subset
  <2>2. T # {} => Taken(T) \in T
    BY DEF Taken
  <2>3. T # {} => Total(f, T \ {Taken(T)}) \in Int
    BY <1>1, <2>2
  <2>4. Total(f, T) \in Int
    BY <2>1, <2>2, <2>3, TotalOfTaken, TotalOfNone
  <2> QED BY <2>4
<1>2. S \in G
  <2> HIDE DEF G
  <2> QED BY <1>1, SetsByInduction
<1> QED BY <1>2

\* Any row of the set may be taken first: the order does not matter.
LEMMA TotalWithout ==
  ASSUME NEW S, IsFiniteSet(S), NEW f, \A x \in S : f[x] \in Int, NEW z \in S
  PROVE  Total(f, S) = f[z] + Total(f, S \ {z})
<1> DEFINE G == {T \in SUBSET S : \A x \in T : Total(f, T) = f[x] + Total(f, T \ {x})}
<1>1. ASSUME NEW T \in SUBSET S, \A U \in SUBSET T : U # T => U \in G, NEW x \in T
      PROVE  Total(f, T) = f[x] + Total(f, T \ {x})
  <2> DEFINE y == Taken(T)
  <2>1. y \in T
    BY DEF Taken
  <2> HIDE DEF y
  <2>2. \A U \in SUBSET S : IsFiniteSet(U)
    BY FS_Subset
  <2>3. Total(f, T) = f[y] + Total(f, T \ {y})
    BY <2>2, TotalOfTaken DEF y
  <2>4. CASE x = y
    BY <2>3, <2>4
  <2>5. CASE x # y
    <3>1. T \ {y} \in G /\ T \ {x} \in G
      BY <1>1, <2>1
    <3>2. Total(f, T \ {y}) = f[x] + Total(f, (T \ {y}) \ {x})
      BY <3>1, <2>5
    <3>3. Total(f, T \ {x}) = f[y] + Total(f, (T \ {x}) \ {y})
      BY <3>1, <2>1, <2>5
    <3>4. Total(f, (T \ {y}) \ {x}) = Total(f, (T \ {x}) \ {y})
      <4>1. (T \ {y}) \ {x} = (T \ {x}) \ {y}
        OBVIOUS
      <4> QED BY Zenon, <4>1
    <3>5. Total(f, (T \ {x}) \ {y}) \in Int
      BY <2>2, TotalType
    <3>6. f[x] \in Int /\ f[y] \in Int
      BY <2>1
    <3> QED BY <2>3, <3>2, <3>3, <3>4, <3>5, <3>6
  <2> QED BY <2>4, <2>5
<1>2. \A T \in SUBSET S : (\A U \in SUBSET T : U # T => U \in G) => T \in G
  BY <1>1
<1>3. S \in G
  <2> HIDE DEF G
  <2> QED BY <1>2, SetsByInduction
<1> QED BY <1>3

LEMMA TotalWith ==
  ASSUME NEW S, IsFiniteSet(S), NEW f, NEW z, z \notin S,
         f[z] \in Int, \A x \in S : f[x] \in Int
  PROVE  Total(f, S \cup {z}) = Total(f, S) + f[z]
<1>1. IsFiniteSet(S \cup {z})
  BY FS_AddElement
<1>2. Total(f, (S \cup {z}) \ {z}) = Total(f, S)
  <2>1. (S \cup {z}) \ {z} = S
    OBVIOUS
  <2> QED BY Zenon, <2>1
<1>3. Total(f, S) \in Int
  BY TotalType
<1>4. Total(f, S \cup {z}) = f[z] + Total(f, (S \cup {z}) \ {z})
  BY <1>1, TotalWithout
<1> QED BY <1>2, <1>3, <1>4

\* One more row adds its quantity to the totals it is counted in.
LEMMA TotalOfSelected ==
  ASSUME NEW S, IsFiniteSet(S), NEW f, \A x \in S : f[x] \in Int,
         NEW z, z \notin S, f[z] \in Int, NEW P
  PROVE  /\ Total(f, S \cap P) \in Int
         /\ Total(f, (S \cup {z}) \cap P) = Total(f, S \cap P) + (IF z \in P THEN f[z] ELSE 0)
<1>1. IsFiniteSet(S \cap P)
  BY FS_Subset
<1>2. Total(f, S \cap P) \in Int
  BY <1>1, TotalType
<1>3. CASE z \in P
  <2>1. (S \cup {z}) \cap P = (S \cap P) \cup {z}
    BY <1>3
  <2>2. Total(f, (S \cap P) \cup {z}) = Total(f, S \cap P) + f[z]
    BY <1>1, TotalWith
  <2>3. Total(f, (S \cup {z}) \cap P) = Total(f, (S \cap P) \cup {z})
    BY Zenon, <2>1
  <2> QED BY <1>2, <1>3, <2>2, <2>3
<1>4. CASE z \notin P
  <2>1. (S \cup {z}) \cap P = S \cap P
    BY <1>4
  <2>2. Total(f, (S \cup {z}) \cap P) = Total(f, S \cap P)
    BY Zenon, <2>1
  <2> QED BY <1>2, <1>4, <2>2
<1> QED BY <1>2, <1>3, <1>4

\* A part of rows that count for nothing less than 0 is worth no more than all.
LEMMA TotalOfPart ==
  ASSUME NEW S, IsFiniteSet(S), NEW f, \A x \in S : f[x] \in Nat, NEW T \in SUBSET S
  PROVE  Total(f, T) \in Nat /\ Total(f, T) <= Total(f, S)
<1> DEFINE G == {U \in SUBSET S : Total(f, U) \in Nat
                                  /\ \A V \in SUBSET U : Total(f, V) <= Total(f, U)}
<1>1. ASSUME NEW U \in SUBSET S, \A V \in SUBSET U : V # U => V \in G
      PROVE  U \in G
  <2>1. \A V \in SUBSET S : IsFiniteSet(V)
    BY FS_Subset
  <2>2. CASE U = {}
    <3>1. Total(f, U) = 0
      BY <2>2, TotalOfNone
    <3> QED BY <2>2, <3>1
  <2>3. CASE U # {}
    <3>1. \A x \in U : Total(f, U) = f[x] + Total(f, U \ {x})
      <4>1. \A x \in U : f[x] \in Int
        OBVIOUS
      <4> QED BY <2>1, <4>1, TotalWithout
    <3>2. \A x \in U : U \ {x} \in G
      BY <1>1
    <3>3. Total(f, U) \in Nat
      <4>1. PICK x : x \in U
        BY <2>3
      <4>2. Total(f, U) = f[x] + Total(f, U \ {x})
        BY <3>1, <4>1
      <4>3. Total(f, U \ {x}) \in Nat /\ f[x] \in Nat
        BY <3>2, <4>1
      <4> QED BY <4>2, <4>3
    <3>4. ASSUME NEW V \in SUBSET U, V # U PROVE Total(f, V) <= Total(f, U)
      <4>1. PICK x \in U : x \notin V
        BY <3>4
      <4>2. V \in SUBSET (U \ {x})
        BY <4>1
      <4>3. Total(f, V) <= Total(f, U \ {x})
        BY <3>2, <4>2
      <4>4. Total(f, U \ {x}) \in Nat /\ Total(f, V) \in Nat /\ f[x] \in Nat
        BY <1>1, <3>2, <3>4
      <4> QED BY <3>1, <3>3, <4>3, <4>4
    <3> QED BY <3>3, <3>4
  <2> QED BY <2>2, <2>3
<1>2. \A U \in SUBSET S : (\A V \in SUBSET U : V # U => V \in G) => U \in G
  BY <1>1
<1>3. IsFiniteSet(T)
  BY FS_Subset
<1>4. S \in G /\ T \in G
  <2>1. \A U \in SUBSET T : (\A V \in SUBSET U : V # U => V \in G) => U \in G
    BY <1>2
  <2> HIDE DEF G
  <2> QED BY <1>2, <1>3, <2>1, SetsByInduction
<1> QED BY <1>4

\* Only the quantities of the rows counted matter.
LEMMA TotalAgrees ==
  ASSUME NEW S, IsFiniteSet(S), NEW f, NEW g, \A x \in S : f[x] = g[x]
  PROVE  Total(f, S) = Total(g, S)
<1> DEFINE G == {T \in SUBSET S : Total(f, T) = Total(g, T)}
<1>1. ASSUME NEW T \in SUBSET S, \A U \in SUBSET T : U # T => U \in G
      PROVE  T \in G
  <2>1. IsFiniteSet(T)
    BY FS_Subset
  <2>2. T # {} => Taken(T) \in T
    BY DEF Taken
  <2>3. T # {} => Total(f, T \ {Taken(T)}) = Total(g, T \ {Taken(T)})
    BY <1>1, <2>2
  <2>4. Total(f, T) = Total(g, T)
    BY <2>1, <2>2, <2>3, TotalOfTaken, TotalOfNone
  <2> QED BY <2>4
<1>2. S \in G
  <2> HIDE DEF G
  <2> QED BY <1>1, SetsByInduction
<1> QED BY <1>2

\* Rows that are rewritten, but not merged, keep their total.
LEMMA TotalOfImage ==
  ASSUME NEW S, IsFiniteSet(S), NEW f, NEW g, NEW b,
         \A x \in S : f[x] \in Int /\ g[b[x]] = f[x],
         \A x, y \in S : b[x] = b[y] => x = y
  PROVE  IsFiniteSet({b[x] : x \in S}) /\ Total(g, {b[x] : x \in S}) = Total(f, S)
<1> DEFINE image(T) == {b[x] : x \in T}
           G == {T \in SUBSET S : IsFiniteSet(image(T)) /\ Total(g, image(T)) = Total(f, T)}
<1>1. ASSUME NEW T \in SUBSET S, \A U \in SUBSET T : U # T => U \in G
      PROVE  T \in G
  <2>1. IsFiniteSet(T) /\ \A x \in T : f[x] \in Int
    BY FS_Subset
  <2>2. CASE T = {}
    <3>1. image(T) = T
      BY <2>2
    <3>2. Total(g, image(T)) = 0 /\ Total(f, T) = 0
      BY Zenon, <2>2, <3>1, TotalOfNone
    <3>3. IsFiniteSet(image(T))
      BY Zenon, <2>2, <3>1, FS_EmptySet
    <3> QED BY <3>2, <3>3
  <2>3. ASSUME NEW y \in T PROVE T \in G
    <3> DEFINE R == T \ {y}
    <3>1. R \in G
      BY <1>1
    <3>2. Total(f, T) = f[y] + Total(f, R)
      BY <2>1, TotalWithout
    <3>3. image(T) = image(R) \cup {b[y]} /\ b[y] \notin image(R)
      BY <2>3
    <3>4. IsFiniteSet(image(R)) /\ \A z \in image(R) : g[z] \in Int
      BY <3>1
    <3>5. g[b[y]] = f[y] /\ f[y] \in Int
      OBVIOUS
    <3> HIDE DEF image, R
    <3>6. Total(g, image(R) \cup {b[y]}) = Total(g, image(R)) + g[b[y]]
      <4> DEFINE I == image(R)
                 z == b[y]
      <4>1. IsFiniteSet(I) /\ z \notin I /\ g[z] \in Int /\ \A x \in I : g[x] \in Int
        BY <3>3, <3>4, <3>5
      <4> HIDE DEF I, z
      <4>2. Total(g, I \cup {z}) = Total(g, I) + g[z]
        BY <4>1, TotalWith
      <4> QED BY Zenon, <4>2 DEF I, z
    <3>7. Total(g, image(T)) = Total(g, image(R)) + g[b[y]]
      BY Zenon, <3>3, <3>6
    <3>8. Total(f, R) \in Int
      <4>1. IsFiniteSet(R) /\ \A x \in R : f[x] \in Int
        BY <2>1, FS_Subset DEF R
      <4> QED BY <4>1, TotalType
    <3>9. Total(g, image(R)) = Total(f, R)
      BY <3>1
    <3>10. Total(g, image(T)) = Total(f, T)
      BY <3>2, <3>5, <3>7, <3>8, <3>9
    <3>11. IsFiniteSet(image(T))
      <4>1. IsFiniteSet(image(R) \cup {b[y]})
        BY <3>4, FS_AddElement
      <4> QED BY Zenon, <3>3, <4>1
    <3> QED BY <3>10, <3>11
  <2> QED BY <2>2, <2>3
<1> HIDE DEF G
<1>2. S \in G
  BY <1>1, SetsByInduction
<1> QED BY <1>2 DEF G
=============================================================================
