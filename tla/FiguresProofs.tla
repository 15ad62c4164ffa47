----------------------------- MODULE FiguresProofs -----------------------------
(***************************************************************************)
(* What every step of the services of SourcingFigures keeps, for every     *)
(* value of its constants: the direction of a price under automation, the  *)
(* sums of the books, and the verdicts of the research.  SourcingProofs    *)
(* concludes the theorems from it.  All three compute sums over finite     *)
(* sets, about which the module begins with a section of lemmas.           *)
(***************************************************************************)
EXTENDS SourcingFigures, FiniteSetTheorems, WellFoundedInduction, TLAPS

(* Sums over finite sets.  Total(f, S) adds f[x] for the x of S; the       *)
(* library's MapThenSumSet is one, for the function its operator stands    *)
(* for.  Induction takes the form of a smallest counterexample.            *)

\* A set of natural numbers that is not empty has a least one.
LEMMA Least == ASSUME NEW S, S \subseteq Nat, S # {} PROVE \E m \in S : \A n \in S : m <= n
<1> DEFINE R == {ss \in Nat \X Nat : ss[1] < ss[2]}
<1>1. IsWellFoundedOn(R, Nat)
  BY NatLessThanWellFounded DEF OpToRel
<1>2. \A x, y \in Nat : <<x, y>> \notin R => y <= x
  OBVIOUS
<1>3. PICK m \in S : \A y \in S : <<y, m>> \notin R
  <2> HIDE DEF R
  <2> QED BY <1>1, WFMin
<1> HIDE DEF R
<1> QED BY <1>2, <1>3

\* Of finite sets, one has fewest elements: what one element less makes of it is not
\* among them.
LEMMA SmallestSet ==
    ASSUME NEW S, IsFiniteSet(S), NEW Bad, Bad \subseteq SUBSET S, Bad # {}
    PROVE  \E T \in Bad : \A x \in T : T \ {x} \notin Bad
<1> DEFINE sizes == {Cardinality(T) : T \in Bad}
<1>1. \A T \in Bad : IsFiniteSet(T) /\ Cardinality(T) \in Nat
  BY FS_Subset, FS_CardinalityType
<1>2. PICK m \in sizes : \A n \in sizes : m <= n
  <2>1. sizes \subseteq Nat /\ sizes # {}
    BY <1>1
  <2> HIDE DEF sizes
  <2> QED BY <2>1, Least
<1>3. PICK T \in Bad : Cardinality(T) = m
  OBVIOUS
<1>4. ASSUME NEW x \in T, T \ {x} \in Bad PROVE FALSE
  <2>1. Cardinality(T \ {x}) = Cardinality(T) - 1
    BY <1>1, FS_RemoveElement
  <2>2. m <= Cardinality(T \ {x})
    BY <1>2, <1>4
  <2> QED BY <1>1, <1>3, <2>1, <2>2
<1> QED BY <1>4

First(s) == CHOOSE x \in s : TRUE

LEMMA FirstIn == ASSUME NEW s, s # {} PROVE First(s) \in s
BY DEF First

Sums(g, f, S) ==
    g = [s \in SUBSET S |-> IF s = {} THEN 0 ELSE f[First(s)] + g[s \ {First(s)}]]

LEMMA SumsAt ==
    ASSUME NEW g, NEW f, NEW S, Sums(g, f, S), NEW T \in SUBSET S
    PROVE  g[T] = IF T = {} THEN 0 ELSE f[First(T)] + g[T \ {First(T)}]
BY DEF Sums

LEMMA SumsFrom ==
    ASSUME NEW g, NEW f, NEW S, g = [s \in SUBSET S |-> g[s]],
           \A s \in SUBSET S : g[s] = IF s = {} THEN 0 ELSE f[First(s)] + g[s \ {First(s)}]
    PROVE  Sums(g, f, S)
<1> DEFINE body(s) == IF s = {} THEN 0 ELSE f[First(s)] + g[s \ {First(s)}]
<1>1. [s \in SUBSET S |-> g[s]] = [s \in SUBSET S |-> body(s)]
  OBVIOUS
<1> QED BY <1>1, Zenon DEF Sums

LEMMA SumsAgree ==
    ASSUME NEW f, NEW S, NEW T \in SUBSET S, IsFiniteSet(S), NEW g, NEW h,
           Sums(g, f, S), Sums(h, f, T), NEW U \in SUBSET T
    PROVE  g[U] = h[U]
<1> DEFINE Bad == {V \in SUBSET T : g[V] # h[V]}
<1> SUFFICES ASSUME Bad # {} PROVE FALSE
  OBVIOUS
<1>1. PICK V \in Bad : \A x \in V : V \ {x} \notin Bad
  <2>1. Bad \subseteq SUBSET S
    OBVIOUS
  <2> HIDE DEF Bad
  <2> QED BY <2>1, SmallestSet
<1>2. V \in SUBSET T /\ V \in SUBSET S /\ g[V] # h[V]
  OBVIOUS
<1>3. /\ g[V] = IF V = {} THEN 0 ELSE f[First(V)] + g[V \ {First(V)}]
      /\ h[V] = IF V = {} THEN 0 ELSE f[First(V)] + h[V \ {First(V)}]
  BY <1>2, SumsAt
<1>4. ASSUME V # {} PROVE g[V \ {First(V)}] = h[V \ {First(V)}]
  BY <1>1, <1>2, <1>4, FirstIn
<1> QED BY <1>2, <1>3, <1>4

LEMMA SumsExist == ASSUME NEW f, NEW S, IsFiniteSet(S) PROVE \E g : Sums(g, f, S)
<1> DEFINE Bad == {T \in SUBSET S : ~ \E g : Sums(g, f, T)}
<1> SUFFICES ASSUME Bad # {} PROVE FALSE
  OBVIOUS
<1>1. PICK T \in Bad : \A x \in T : T \ {x} \notin Bad
  <2>1. Bad \subseteq SUBSET S
    OBVIOUS
  <2> HIDE DEF Bad
  <2> QED BY <2>1, SmallestSet
<1>2. T \in SUBSET S /\ ~ \E g : Sums(g, f, T)
  OBVIOUS
<1>3. CASE T = {}
  <2> DEFINE g == [s \in SUBSET {} |-> 0]
  <2>1. Sums(g, f, {})
    BY DEF Sums
  <2> QED BY <1>2, <1>3, <2>1
<1>4. CASE T # {}
  <2> DEFINE sum(s) == CHOOSE g : Sums(g, f, s)
             rest(s) == s \ {First(s)}
             g == [s \in SUBSET T |-> IF s = {} THEN 0 ELSE f[First(s)] + sum(rest(s))[rest(s)]]
  <2>1. \A x \in T : \A U \in SUBSET (T \ {x}) : \E h : Sums(h, f, U)
    <3> SUFFICES ASSUME NEW x \in T, NEW U \in SUBSET (T \ {x}) PROVE \E h : Sums(h, f, U)
      OBVIOUS
    <3>1. PICK h : Sums(h, f, T \ {x})
      BY <1>1, <1>2
    <3>2. Sums([s \in SUBSET U |-> h[s]], f, U)
      <4> DEFINE k == [s \in SUBSET U |-> h[s]]
      <4>1. \A s \in SUBSET U : k[s] = IF s = {} THEN 0 ELSE f[First(s)] + k[s \ {First(s)}]
        <5> SUFFICES ASSUME NEW s \in SUBSET U
                     PROVE  k[s] = IF s = {} THEN 0 ELSE f[First(s)] + k[s \ {First(s)}]
          OBVIOUS
        <5>1. s \in SUBSET (T \ {x}) /\ s \ {First(s)} \in SUBSET U
          OBVIOUS
        <5>2. h[s] = IF s = {} THEN 0 ELSE f[First(s)] + h[s \ {First(s)}]
          BY <3>1, <5>1, SumsAt
        <5> QED BY <5>1, <5>2
      <4>2. k = [s \in SUBSET U |-> k[s]]
        OBVIOUS
      <4> HIDE DEF k
      <4>3. Sums(k, f, U)
        BY <4>1, <4>2, SumsFrom
      <4> QED BY <4>3 DEF k
    <3> QED BY <3>2
  <2>2. \A s \in SUBSET T : s # {} => Sums(sum(rest(s)), f, rest(s))
    <3> SUFFICES ASSUME NEW s \in SUBSET T, s # {} PROVE Sums(sum(rest(s)), f, rest(s))
      OBVIOUS
    <3>1. First(s) \in T /\ rest(s) \in SUBSET (T \ {First(s)})
      BY FirstIn
    <3>2. \E h : Sums(h, f, rest(s))
      BY <2>1, <3>1
    <3> QED BY <3>2
  <2>3. \A s \in SUBSET T : s # {} => g[rest(s)] = sum(rest(s))[rest(s)]
    <3> SUFFICES ASSUME NEW s \in SUBSET T, s # {} PROVE g[rest(s)] = sum(rest(s))[rest(s)]
      OBVIOUS
    <3> DEFINE r == rest(s)
               h == sum(r)
    <3>1. Sums(h, f, r) /\ r \in SUBSET T
      BY <2>2
    <3>2. h[r] = IF r = {} THEN 0 ELSE f[First(r)] + h[rest(r)]
      BY <3>1, SumsAt
    <3>3. CASE r = {}
      BY <3>1, <3>2, <3>3
    <3>4. CASE r # {}
      <4>1. Sums(sum(rest(r)), f, rest(r)) /\ rest(r) \in SUBSET r
        BY <2>2, <3>1, <3>4
      <4>2. IsFiniteSet(r)
        BY <1>2, <3>1, FS_Subset
      <4>3. h[rest(r)] = sum(rest(r))[rest(r)]
        <5>1. PICK k : k = sum(rest(r))
          OBVIOUS
        <5>2. PICK q : q = rest(r)
          OBVIOUS
        <5>3. q \in SUBSET r /\ Sums(k, f, q) /\ q \in SUBSET q
          BY <4>1, <5>1, <5>2
        <5> HIDE DEF h, r, sum, rest
        <5>4. h[q] = k[q]
          BY <3>1, <4>2, <5>3, SumsAgree
        <5> QED BY <5>1, <5>2, <5>4
      <4> QED BY <3>1, <3>2, <3>4, <4>3
    <3> QED BY <3>3, <3>4
  <2>4. Sums(g, f, T)
    <3>1. \A s \in SUBSET T : g[s] = IF s = {} THEN 0 ELSE f[First(s)] + g[rest(s)]
      <4> SUFFICES ASSUME NEW s \in SUBSET T
                   PROVE  g[s] = IF s = {} THEN 0 ELSE f[First(s)] + g[rest(s)]
        OBVIOUS
      <4>1. g[s] = IF s = {} THEN 0 ELSE f[First(s)] + sum(rest(s))[rest(s)]
        OBVIOUS
      <4> HIDE DEF g, sum, rest
      <4> QED BY <2>3, <4>1
    <3>2. g = [s \in SUBSET T |-> g[s]]
      OBVIOUS
    <3> HIDE DEF g
    <3> QED BY <3>1, <3>2, SumsFrom DEF rest
  <2> QED BY <1>2, <2>4
<1> QED BY <1>3, <1>4

Total(f, S) == (CHOOSE g : Sums(g, f, S))[S]

LEMMA TotalIs ==
    ASSUME NEW f, NEW S, IsFiniteSet(S), NEW g, Sums(g, f, S), NEW U \in SUBSET S
    PROVE  Total(f, U) = g[U]
<1> DEFINE h == CHOOSE k : Sums(k, f, U)
<1>1. Sums(h, f, U)
  BY SumsExist, FS_Subset
<1>2. Total(f, U) = h[U]
  BY DEF Total
<1>3. U \in SUBSET U
  OBVIOUS
<1> HIDE DEF h
<1> QED BY <1>1, <1>2, <1>3, SumsAgree

\* The sum of the library chooses any of the functions Sums allows.
LEMMA SumChosen ==
    ASSUME NEW f, NEW S, IsFiniteSet(S), NEW G, \A g : Sums(g, f, S) => Sums(G, f, S)
    PROVE  G[S] = Total(f, S)
<1>1. Sums(G, f, S)
  BY SumsExist
<1>2. S \in SUBSET S
  OBVIOUS
<1> QED BY <1>1, <1>2, TotalIs

LEMMA TotalOfNone == ASSUME NEW f PROVE Total(f, {}) = 0
<1>1. IsFiniteSet({})
  BY FS_EmptySet
<1>2. PICK g : Sums(g, f, {})
  BY <1>1, SumsExist
<1>3. Total(f, {}) = g[{}]
  BY <1>1, <1>2, TotalIs
<1> QED BY <1>2, <1>3, SumsAt

\* The element the definition takes first
LEMMA TotalUnfolds ==
    ASSUME NEW f, NEW S, IsFiniteSet(S), S # {}
    PROVE  Total(f, S) = f[First(S)] + Total(f, S \ {First(S)})
<1>1. PICK g : Sums(g, f, S)
  BY SumsExist
<1>2. PICK r : r = S \ {First(S)}
  OBVIOUS
<1>3. Total(f, S) = g[S] /\ Total(f, r) = g[r]
  BY <1>1, <1>2, TotalIs
<1>4. g[S] = f[First(S)] + g[r]
  BY <1>1, <1>2, SumsAt
<1> QED BY <1>2, <1>3, <1>4

LEMMA TotalIsInt ==
    ASSUME NEW f, NEW S, IsFiniteSet(S), \A x \in S : f[x] \in Int
    PROVE  Total(f, S) \in Int
<1> DEFINE Bad == {T \in SUBSET S : Total(f, T) \notin Int}
<1> SUFFICES ASSUME Bad # {} PROVE FALSE
  OBVIOUS
<1>1. PICK T \in Bad : \A x \in T : T \ {x} \notin Bad
  <2>1. Bad \subseteq SUBSET S
    OBVIOUS
  <2> HIDE DEF Bad
  <2> QED BY <2>1, SmallestSet
<1>2. T \in SUBSET S /\ Total(f, T) \notin Int /\ T # {} /\ IsFiniteSet(T)
  <2>1. T \in SUBSET S /\ Total(f, T) \notin Int
    OBVIOUS
  <2>2. T # {}
    BY <2>1, TotalOfNone
  <2>3. IsFiniteSet(T)
    BY <2>1, FS_Subset
  <2> QED BY <2>1, <2>2, <2>3
<1>3. First(T) \in T
  BY <1>2, FirstIn
<1>4. Total(f, T \ {First(T)}) \in Int
  BY <1>1, <1>2, <1>3
<1>5. Total(f, T) = f[First(T)] + Total(f, T \ {First(T)})
  BY <1>2, TotalUnfolds
<1> QED BY <1>2, <1>3, <1>4, <1>5

LEMMA TotalIsNat ==
    ASSUME NEW f, NEW S, IsFiniteSet(S), \A x \in S : f[x] \in Nat
    PROVE  Total(f, S) \in Nat
<1> DEFINE Bad == {T \in SUBSET S : Total(f, T) \notin Nat}
<1> SUFFICES ASSUME Bad # {} PROVE FALSE
  OBVIOUS
<1>1. PICK T \in Bad : \A x \in T : T \ {x} \notin Bad
  <2>1. Bad \subseteq SUBSET S
    OBVIOUS
  <2> HIDE DEF Bad
  <2> QED BY <2>1, SmallestSet
<1>2. T \in SUBSET S /\ Total(f, T) \notin Nat /\ T # {} /\ IsFiniteSet(T)
  <2>1. T \in SUBSET S /\ Total(f, T) \notin Nat
    OBVIOUS
  <2>2. T # {}
    BY <2>1, TotalOfNone
  <2>3. IsFiniteSet(T)
    BY <2>1, FS_Subset
  <2> QED BY <2>1, <2>2, <2>3
<1>3. First(T) \in T
  BY <1>2, FirstIn
<1>4. Total(f, T \ {First(T)}) \in Nat
  BY <1>1, <1>2, <1>3
<1>5. Total(f, T) = f[First(T)] + Total(f, T \ {First(T)})
  BY <1>2, TotalUnfolds
<1> QED BY <1>2, <1>3, <1>4, <1>5

\* Any element may be taken first.
LEMMA TotalWithout ==
    ASSUME NEW f, NEW S, IsFiniteSet(S), \A x \in S : f[x] \in Int, NEW e \in S
    PROVE  Total(f, S) = f[e] + Total(f, S \ {e})
<1> DEFINE Bad == {T \in SUBSET S : \E x \in T : Total(f, T) # f[x] + Total(f, T \ {x})}
<1> SUFFICES ASSUME Bad # {} PROVE FALSE
  OBVIOUS
<1>1. PICK T \in Bad : \A x \in T : T \ {x} \notin Bad
  <2>1. Bad \subseteq SUBSET S
    OBVIOUS
  <2> HIDE DEF Bad
  <2> QED BY <2>1, SmallestSet
<1>2. PICK x \in T : Total(f, T) # f[x] + Total(f, T \ {x})
  OBVIOUS
<1>3. T \in SUBSET S /\ IsFiniteSet(T) /\ T # {}
  BY FS_Subset
<1>4. PICK d \in T : d = First(T)
  BY <1>3, FirstIn
<1>5. Total(f, T) = f[d] + Total(f, T \ {d})
  BY <1>3, <1>4, TotalUnfolds
<1>6. d # x
  BY <1>2, <1>5
<1>9. (T \ {d}) \ {x} = (T \ {x}) \ {d}
  OBVIOUS
<1>10. PICK r : r = (T \ {x}) \ {d}
  OBVIOUS
<1>7. Total(f, T \ {d}) = f[x] + Total(f, r)
  <2>1. T \ {d} \notin Bad /\ T \ {d} \in SUBSET S /\ x \in T \ {d}
    BY <1>1, <1>3, <1>6
  <2>2. Total(f, T \ {d}) = f[x] + Total(f, (T \ {d}) \ {x})
    BY <2>1
  <2> QED BY <1>9, <1>10, <2>2
<1>8. Total(f, T \ {x}) = f[d] + Total(f, r)
  BY <1>1, <1>3, <1>6, <1>10
<1>11. Total(f, r) \in Int /\ f[x] \in Int /\ f[d] \in Int
  <2>1. IsFiniteSet(r) /\ \A y \in r : f[y] \in Int
    BY <1>3, <1>10, FS_Subset
  <2> QED BY <1>3, <2>1, TotalIsInt
<1> HIDE DEF Bad
<1> QED BY <1>2, <1>5, <1>7, <1>8, <1>11

LEMMA TotalOfEqual ==
    ASSUME NEW f, NEW h, NEW S, IsFiniteSet(S), \A x \in S : f[x] = h[x]
    PROVE  Total(f, S) = Total(h, S)
<1> DEFINE Bad == {T \in SUBSET S : Total(f, T) # Total(h, T)}
<1> SUFFICES ASSUME Bad # {} PROVE FALSE
  OBVIOUS
<1>1. PICK T \in Bad : \A x \in T : T \ {x} \notin Bad
  <2>1. Bad \subseteq SUBSET S
    OBVIOUS
  <2> HIDE DEF Bad
  <2> QED BY <2>1, SmallestSet
<1>2. T \in SUBSET S /\ Total(f, T) # Total(h, T) /\ T # {} /\ IsFiniteSet(T)
  <2>1. T \in SUBSET S /\ Total(f, T) # Total(h, T)
    OBVIOUS
  <2>2. T # {}
    BY <2>1, TotalOfNone
  <2>3. IsFiniteSet(T)
    BY <2>1, FS_Subset
  <2> QED BY <2>1, <2>2, <2>3
<1>3. First(T) \in T
  BY <1>2, FirstIn
<1>4. Total(f, T \ {First(T)}) = Total(h, T \ {First(T)})
  BY <1>1, <1>2, <1>3
<1>5. /\ Total(f, T) = f[First(T)] + Total(f, T \ {First(T)})
      /\ Total(h, T) = h[First(T)] + Total(h, T \ {First(T)})
  BY <1>2, TotalUnfolds
<1> QED BY <1>2, <1>3, <1>4, <1>5

LEMMA TotalOfSum ==
    ASSUME NEW f, NEW h, NEW k, NEW S, IsFiniteSet(S),
           \A x \in S : f[x] \in Int /\ h[x] \in Int /\ k[x] = f[x] + h[x]
    PROVE  Total(k, S) = Total(f, S) + Total(h, S)
<1> DEFINE Bad == {T \in SUBSET S : Total(k, T) # Total(f, T) + Total(h, T)}
<1> SUFFICES ASSUME Bad # {} PROVE FALSE
  OBVIOUS
<1>1. PICK T \in Bad : \A x \in T : T \ {x} \notin Bad
  <2>1. Bad \subseteq SUBSET S
    OBVIOUS
  <2> HIDE DEF Bad
  <2> QED BY <2>1, SmallestSet
<1>2. T \in SUBSET S /\ Total(k, T) # Total(f, T) + Total(h, T) /\ T # {} /\ IsFiniteSet(T)
  <2>1. T \in SUBSET S /\ Total(k, T) # Total(f, T) + Total(h, T)
    OBVIOUS
  <2>2. T # {}
    <3>1. Total(k, {}) = 0 /\ Total(f, {}) = 0 /\ Total(h, {}) = 0
      BY TotalOfNone
    <3>2. Total(k, {}) = Total(f, {}) + Total(h, {})
      BY <3>1
    <3> QED BY <2>1, <3>2
  <2>3. IsFiniteSet(T)
    BY <2>1, FS_Subset
  <2> QED BY <2>1, <2>2, <2>3
<1>3. PICK d \in T : d = First(T)
  BY <1>2, FirstIn
<1>4. PICK r : r = T \ {d}
  OBVIOUS
<1>5. Total(k, r) = Total(f, r) + Total(h, r)
  BY <1>1, <1>2, <1>3, <1>4
<1>6. /\ Total(f, T) = f[d] + Total(f, r)
      /\ Total(h, T) = h[d] + Total(h, r)
      /\ Total(k, T) = k[d] + Total(k, r)
  BY <1>2, <1>3, <1>4, TotalUnfolds
<1>7. Total(f, r) \in Int /\ Total(h, r) \in Int
  <2>1. IsFiniteSet(r) /\ \A y \in r : f[y] \in Int /\ h[y] \in Int
    BY <1>2, <1>4, FS_Subset
  <2> QED BY <2>1, TotalIsInt
<1>8. f[d] \in Int /\ h[d] \in Int /\ k[d] = f[d] + h[d]
  BY <1>2
<1> HIDE DEF Bad
<1> QED BY <1>2, <1>5, <1>6, <1>7, <1>8

\* A sum is that of a part and that of the rest.
LEMMA TotalSplits ==
    ASSUME NEW f, NEW S, IsFiniteSet(S), \A x \in S : f[x] \in Int, NEW P \in SUBSET S
    PROVE  Total(f, S) = Total(f, P) + Total(f, S \ P)
<1> DEFINE Bad == {T \in SUBSET S : Total(f, T) # Total(f, T \cap P) + Total(f, T \ P)}
<1>1. ASSUME Bad # {} PROVE FALSE
  <2>1. PICK T \in Bad : \A x \in T : T \ {x} \notin Bad
    <3>1. Bad \subseteq SUBSET S
      OBVIOUS
    <3> HIDE DEF Bad
    <3> QED BY <1>1, <3>1, SmallestSet
  <2>2. T \in SUBSET S /\ Total(f, T) # Total(f, T \cap P) + Total(f, T \ P)
    OBVIOUS
  <2>3. T # {}
    <3>1. Total(f, {}) = 0 /\ {} \cap P = {} /\ {} \ P = {}
      BY TotalOfNone
    <3>2. T = {} => Total(f, T \cap P) = 0 /\ Total(f, T \ P) = 0 /\ Total(f, T) = 0
      BY <3>1
    <3> HIDE DEF Bad
    <3> QED BY <2>2, <3>2
  <2>4. PICK d \in T : d = First(T)
    BY <2>3, FirstIn
  <2>5. PICK r : r = T \ {d}
    OBVIOUS
  <2>6. /\ IsFiniteSet(T) /\ IsFiniteSet(r) /\ IsFiniteSet(T \cap P) /\ IsFiniteSet(T \ P)
        /\ IsFiniteSet(r \cap P) /\ IsFiniteSet(r \ P)
    BY <2>2, <2>5, FS_Subset
  <2>7. Total(f, r) = Total(f, r \cap P) + Total(f, r \ P)
    BY <2>1, <2>2, <2>5
  <2>8. Total(f, T) = f[d] + Total(f, r)
    BY <2>4, <2>5, <2>6, TotalUnfolds, <2>3
  <2>9. Total(f, r \cap P) \in Int /\ Total(f, r \ P) \in Int /\ f[d] \in Int
    <3>1. (\A x \in r \cap P : f[x] \in Int) /\ (\A x \in r \ P : f[x] \in Int)
      BY <2>2, <2>5
    <3> QED BY <2>2, <2>6, <3>1, TotalIsInt
  <2>10. CASE d \in P
    <3>1. T \ P = r \ P /\ r \cap P = (T \cap P) \ {d} /\ d \in T \cap P
      BY <2>5, <2>10
    <3>2. \A x \in T \cap P : f[x] \in Int
      BY <2>2
    <3>3. Total(f, T \cap P) = f[d] + Total(f, r \cap P)
      BY <2>6, <3>1, <3>2, TotalWithout
    <3>4. Total(f, T \ P) = Total(f, r \ P)
      BY <3>1
    <3> HIDE DEF Bad
    <3> QED BY <2>2, <2>7, <2>8, <2>9, <3>3, <3>4
  <2>11. CASE d \notin P
    <3>1. T \cap P = r \cap P /\ r \ P = (T \ P) \ {d} /\ d \in T \ P
      BY <2>5, <2>11
    <3>2. \A x \in T \ P : f[x] \in Int
      BY <2>2
    <3>3. Total(f, T \ P) = f[d] + Total(f, r \ P)
      BY <2>6, <3>1, <3>2, TotalWithout
    <3>4. Total(f, T \cap P) = Total(f, r \cap P)
      BY <3>1
    <3> HIDE DEF Bad
    <3> QED BY <2>2, <2>7, <2>8, <2>9, <3>3, <3>4
  <2> QED BY <2>10, <2>11
<1>2. S \notin Bad
  BY <1>1
<1>3. S \cap P = P
  OBVIOUS
<1> QED BY <1>2, <1>3

LEMMA SumRatesIs ==
    ASSUME NEW rates, IsFiniteSet(DOMAIN rates)
    PROVE  Pricing!SumRates(rates) = Total(rates, DOMAIN rates)
<1> DEFINE S == DOMAIN rates
           G == CHOOSE iter : iter =
                  [s \in SUBSET S |->
                     IF s = {} THEN 0
                     ELSE rates[CHOOSE x \in s : TRUE] + iter[s \ {CHOOSE x \in s : TRUE}]]
<1>1. Pricing!SumRates(rates) = G[S]
  BY Zenon DEF Pricing!SumRates, Pricing!MapThenSumSet, Pricing!MapThenFoldSet
<1>2. Sums(G, rates, S)
  <2>1. \E g : Sums(g, rates, S)
    BY SumsExist
  <2> QED BY <2>1, Zenon DEF Sums, First
<1>3. G[S] = Total(rates, S)
  <2>1. S \in SUBSET S
    OBVIOUS
  <2> HIDE DEF G
  <2> QED BY <1>2, <2>1, TotalIs
<1> QED BY <1>1, <1>3

-----------------------------------------------------------------------------
(* The price under automation.                                             *)

LEMMA RoundRatioIsInt ==
    ASSUME NEW a \in Int, NEW b \in Int, b > 0 PROVE Pricing!RoundRatio(a, b) \in Int
<1> DEFINE half(n) == n \div b + (IF 2 * (n % b) >= b THEN 1 ELSE 0)
<1>1. \A n \in Int : half(n) \in Int
  OBVIOUS
<1> HIDE DEF half
<1>2. Pricing!RoundRatio(a, b) = IF a < 0 THEN -half(-a) ELSE half(a)
  BY DEF Pricing!RoundRatio, half
<1> QED BY <1>1, <1>2

\* The band one run may move a price in holds the price.
Highest(p, up) == Pricing!RoundRatio(p * (100 + up), 100)
Lowest(p, down) == Pricing!RoundRatio(p * (100 - down), 100)

LEMMA BandHoldsPrice ==
    ASSUME NEW p \in Nat, NEW up \in Nat, NEW down \in 0..100
    PROVE  /\ Highest(p, up) >= p /\ Lowest(p, down) <= p
           /\ Highest(p, up) \in Nat /\ Lowest(p, down) \in Nat
<1>1. PICK m : m = p * up
  OBVIOUS
<1>2. m \in Nat /\ p * (100 + up) = 100 * p + m
  BY <1>1
<1>3. PICK l : l = p * (100 - down)
  OBVIOUS
<1>4. l \in Nat /\ l <= 100 * p
  <2>1. 100 - down \in Nat /\ 100 - down <= 100
    OBVIOUS
  <2>2. PICK d \in Nat : d = 100 - down
    BY <2>1
  <2>3. l = p * d /\ d <= 100
    BY <1>3, <2>1, <2>2
  <2>4. PICK e \in Nat : e = 100 - d
    BY <2>1, <2>2
  <2>5. p * d \in Nat /\ p * e \in Nat /\ p * (d + e) = p * d + p * e /\ d + e = 100
    BY <2>4
  <2> QED BY <2>3, <2>5
<1>5. Pricing!RoundRatio(100 * p + m, 100) >= p /\ Pricing!RoundRatio(100 * p + m, 100) \in Nat
  BY <1>2 DEF Pricing!RoundRatio
<1>6. Pricing!RoundRatio(l, 100) <= p /\ Pricing!RoundRatio(l, 100) \in Nat
  BY <1>4 DEF Pricing!RoundRatio
<1> QED BY <1>2, <1>3, <1>5, <1>6 DEF Highest, Lowest

\* A price is raised to the first step that clears the floors, or to the last one.
LEMMA StepsEnd ==
    ASSUME NEW clears, NEW limit \in Nat
    PROVE  /\ Pricing!StepsToClear(clears, limit) \in 0..limit
           /\ \/ Pricing!StepsToClear(clears, limit) = limit
              \/ clears[Pricing!StepsToClear(clears, limit)]
<1> DEFINE S == {n \in 0..limit : n = limit \/ clears[n]}
<1>1. PICK m \in S : \A n \in S : m <= n
  <2>1. S \subseteq Nat /\ limit \in S
    OBVIOUS
  <2> HIDE DEF S
  <2> QED BY <2>1, Least
<1>2. m \in 0..limit /\ (m = limit \/ clears[m])
  OBVIOUS
<1>3. \A k \in 0..(m - 1) : ~clears[k]
  <2> SUFFICES ASSUME NEW k \in 0..(m - 1), clears[k] PROVE FALSE
    OBVIOUS
  <2>1. k \in S /\ k < m
    BY <1>2
  <2> HIDE DEF S
  <2> QED BY <1>1, <1>2, <2>1
<1>4. \E n \in 0..limit : (n = limit \/ clears[n]) /\ \A k \in 0..(n - 1) : ~clears[k]
  BY <1>2, <1>3
<1>5. PICK s : s = Pricing!StepsToClear(clears, limit)
  OBVIOUS
<1>6. s \in 0..limit /\ (s = limit \/ clears[s])
  BY <1>4, <1>5 DEF Pricing!StepsToClear
<1> QED BY <1>5, <1>6

\* What the rules of the operator may be, as they were validated
RuleIs(r) ==
    /\ r.mode \in {"margin", "multiplier", "fixed_uplift"}
    /\ r.rounding \in {"charm99", "integer", "none"}
    /\ r.multiplier \in Int /\ r.uplift \in Int /\ r.target \in Int /\ r.other \in Int
    /\ Pricing!SumRates(r.rates) \in Int
    /\ r.up \in Nat /\ r.down \in 0..100 /\ r.change \in Nat

LEMMA RulesAre == ASSUME NEW r \in PriceRules, Pricing!Valid(r) PROVE RuleIs(r)
<1>1. r.down <= 100
  BY DEF Pricing!Valid
<1>2. Pricing!SumRates(r.rates) \in Int
  <2>1. PICK rates, S : rates = r.rates /\ S = DOMAIN rates
    OBVIOUS
  <2>2. IsFiniteSet(S) /\ \A fee \in S : rates[fee] \in Nat
    BY <2>1, PricesAssumption
  <2>3. Total(rates, S) \in Nat
    BY <2>2, TotalIsNat
  <2>4. Pricing!SumRates(rates) = Total(rates, S)
    BY <2>1, <2>2, SumRatesIs
  <2> QED BY <2>1, <2>3, <2>4
<1>3. /\ r.mode \in {"margin", "multiplier", "fixed_uplift"}
      /\ r.rounding \in {"charm99", "integer", "none"}
      /\ {r.multiplier, r.uplift, r.target, r.other} \subseteq Int
      /\ {r.up, r.down, r.change} \subseteq Nat
  BY PricesAssumption
<1> QED BY <1>1, <1>2, <1>3 DEF RuleIs

PricesTyped ==
    /\ v1 \in Nat /\ v2 \in UnitCosts /\ v3 \in [{"variant", "product"} -> ManualCosts]
    /\ v4 \in PriceRules /\ Pricing!Valid(v4) /\ v7 \in Nat

LEMMA RulesInForce == ASSUME PricesTyped PROVE RuleIs(v4)
BY RulesAre DEF PricesTyped

\* A run would write the price the variant has.
Arrived == Pricing!Clamp(Pricing!Candidate) = v1

\* The trend is where the candidate price lies, until the price has arrived; one that
\* settled is not written again, or as it is.
PricingInv ==
    /\ PricesTyped
    /\ v5 \in {"none", "settled", "up", "down"}
    /\ v5 = "settled" /\ Pricing!Acceptable(Pricing!Clamp(Pricing!Candidate)) => Arrived
    /\ v5 = "up" => Pricing!Candidate > v1 \/ Arrived
    /\ v5 = "down" => Pricing!Candidate < v1 \/ Arrived
    /\ v6 # "below"

LEMMA LandedCostIsInt == ASSUME PricesTyped PROVE Pricing!LandedCost \in Int
<1>1. PICK m \in ManualCosts : m = Pricing!ManualCost
  BY DEF PricesTyped, Pricing!ManualCost
<1>2. m.amount \in Int /\ m.shipping \in Int /\ v2.amount \in Int
  BY PricesAssumption DEF PricesTyped
<1>3. Pricing!ResolveCostSource.amount \in Int
  BY <1>1, <1>2 DEF Pricing!ResolveCostSource
<1>4. Pricing!ShippingCost \in Int
  BY <1>1, <1>2 DEF Pricing!ShippingCost, Pricing!Null
<1> QED BY <1>3, <1>4 DEF Pricing!LandedCost, Pricing!SumMoney

LEMMA TargetIsInt == ASSUME PricesTyped, NEW cost \in Int PROVE Pricing!Target(cost) \in Int
<1>1. RuleIs(v4)
  BY RulesInForce
<1>2. CASE v4.mode = "multiplier"
  <2>1. cost * v4.multiplier \in Int
    BY <1>1 DEF RuleIs
  <2>2. Pricing!MultiplyMoney(cost, v4.multiplier) \in Int
    BY <2>1, RoundRatioIsInt DEF Pricing!MultiplyMoney
  <2> QED BY <1>2, <2>2 DEF Pricing!Target
<1>3. CASE v4.mode = "fixed_uplift"
  BY <1>1, <1>3 DEF Pricing!Target, RuleIs
<1>4. CASE v4.mode = "margin"
  <2>1. PICK d \in Int : d = 1000 - v4.target - Pricing!SumRates(v4.rates)
    BY <1>1 DEF RuleIs
  <2>2. PICK costs \in Int : costs = Pricing!Absolute(cost)
    BY <1>1 DEF Pricing!Absolute, RuleIs
  <2>3. PICK x \in Int : x = costs * 1000
    OBVIOUS
  <2>4. d > 0 => Pricing!RoundRatio(x, d) \in Int
    BY RoundRatioIsInt
  <2>5. Pricing!CalculateSuggestedPrice(v4.target, costs, v4.rates) =
           IF v4.target \notin 0..999 \/ d <= 0 \/ costs = 0 THEN -1
           ELSE Pricing!RoundRatio(x, d)
    BY <2>1, <2>3 DEF Pricing!CalculateSuggestedPrice, Pricing!DivideMoney, Pricing!Null
  <2>6. Pricing!CalculateSuggestedPrice(v4.target, costs, v4.rates) \in Int
    BY <2>4, <2>5
  <2> QED BY <1>4, <2>2, <2>6, Zenon DEF Pricing!Target
<1> QED BY <1>1, <1>2, <1>3, <1>4 DEF RuleIs

LEMMA LargestPrice == ASSUME NEW a \in Int, NEW b \in Int PROVE Pricing!Max({a, b}) \in Int
<1>1. \E x \in {a, b} : \A y \in {a, b} : x >= y
  OBVIOUS
<1> QED BY <1>1 DEF Pricing!Max

LEMMA CandidateIsInt == ASSUME PricesTyped PROVE Pricing!Candidate \in Int
<1>1. PICK target \in Int : target = Pricing!Target(Pricing!LandedCost)
  BY LandedCostIsInt, TargetIsInt
<1>2. v4.rounding \in {"charm99", "integer", "none"}
  BY RulesInForce DEF RuleIs
<1>3. PICK rounded \in Int : rounded = Pricing!ApplyRounding(target, v4.rounding)
  <2>1. PICK whole \in Int : whole = 100 * Pricing!RoundRatio(target, 100)
    BY RoundRatioIsInt
  <2>2. Pricing!Max({100, whole}) \in Int
    BY LargestPrice
  <2>3. CASE v4.rounding = "integer"
    <3>1. Pricing!ApplyRounding(target, "integer") = Pricing!Max({100, whole})
      BY <2>1 DEF Pricing!ApplyRounding
    <3> QED BY <2>2, <2>3, <3>1
  <2>4. CASE v4.rounding # "integer"
    BY <1>2, <2>4 DEF Pricing!ApplyRounding
  <2> QED BY <2>3, <2>4
<1>4. PICK step \in Int : step = Pricing!RoundingStep(v4.rounding)
  BY DEF Pricing!RoundingStep
<1> DEFINE clears == [n \in 0..99 |-> Pricing!ClearsFloors(rounded + n * step)]
<1>5. Pricing!Candidate = rounded + Pricing!StepsToClear(clears, 100) * step
  BY <1>1, <1>3, <1>4 DEF Pricing!Candidate
<1> HIDE DEF clears
<1>6. PICK steps \in Int : steps = Pricing!StepsToClear(clears, 100)
  BY StepsEnd
<1> QED BY <1>5, <1>6

LEMMA ClampIs ==
    ASSUME PricesTyped, NEW c \in Int, NEW p, p = Pricing!Clamp(c)
    PROVE  /\ p \in Nat
           /\ c > v1 => p >= v1
           /\ c < v1 => p <= v1
           /\ c = v1 => p = v1
           /\ p # c /\ p > v1 => c > p
           /\ p # c /\ p < v1 => c < p
<1>1. PICK up : up = Highest(v1, v4.up)
  OBVIOUS
<1>2. PICK down : down = Lowest(v1, v4.down)
  OBVIOUS
<1>3. v1 \in Nat /\ v4.up \in Nat /\ v4.down \in 0..100
  BY RulesInForce DEF PricesTyped, RuleIs
<1>4. up \in Nat /\ down \in Nat /\ down <= v1 /\ v1 <= up
  BY <1>1, <1>2, <1>3, BandHoldsPrice
<1>5. p = IF c > up THEN up ELSE IF c < down THEN down ELSE c
  BY <1>1, <1>2 DEF Pricing!Clamp, Highest, Lowest
<1> QED BY <1>3, <1>4, <1>5

\* The price itself is no part of what the candidate is computed from.
LEMMA CandidateStays ==
    ASSUME v2' = v2, v3' = v3, v4' = v4
    PROVE  /\ Pricing!Candidate' = Pricing!Candidate
           /\ \A p : Pricing!ClearsFloors(p)' <=> Pricing!ClearsFloors(p)
<1>1. Pricing!LandedCost' = Pricing!LandedCost
  BY DEF Pricing!LandedCost, Pricing!ResolveCostSource, Pricing!ManualCost, Pricing!ShippingCost
<1>2. ASSUME NEW p PROVE Pricing!ClearsFloors(p)' <=> Pricing!ClearsFloors(p)
  <2>1. PICK cost : cost = Pricing!LandedCost
    OBVIOUS
  <2>2. Pricing!LandedCost' = cost
    BY <1>1, <2>1
  <2>3. Pricing!ClearsFloors(p) <=>
           ~Pricing!BreachesGuards(Pricing!CalculatePricing(p, cost + v4.other, v4.rates),
               v4.floors)
    BY <2>1, Zenon DEF Pricing!ClearsFloors, Pricing!Absolute
  <2>4. Pricing!ClearsFloors(p)' <=>
           ~Pricing!BreachesGuards(Pricing!CalculatePricing(p, cost + v4'.other, v4'.rates),
               v4'.floors)
    BY <2>2, Zenon DEF Pricing!ClearsFloors, Pricing!Absolute
  <2> QED BY <2>3, <2>4, Zenon
<1>3. PICK cost : cost = Pricing!LandedCost /\ Pricing!LandedCost' = cost
  BY <1>1
<1>4. Pricing!Target(cost)' = Pricing!Target(cost)
  BY DEF Pricing!Target, Pricing!Absolute
<1>5. PICK target : target = Pricing!Target(cost) /\ Pricing!Target(cost)' = target
  BY <1>4
<1>6. PICK rounding : rounding = v4.rounding /\ v4'.rounding = rounding
  OBVIOUS
<1> DEFINE rounded == Pricing!ApplyRounding(target, rounding)
           raised(n) == rounded + n * Pricing!RoundingStep(rounding)
           clears == [n \in 0..99 |-> Pricing!ClearsFloors(raised(n))]
<1>7. Pricing!Candidate = raised(Pricing!StepsToClear(clears, 100))
  BY <1>3, <1>5, <1>6, Zenon DEF Pricing!Candidate
<1>8. Pricing!Candidate' = raised(Pricing!StepsToClear(clears', 100))
  BY <1>3, <1>5, <1>6, Zenon DEF Pricing!Candidate
<1>9. clears' = clears
  BY <1>2
<1> QED BY <1>2, <1>7, <1>8, <1>9

LEMMA RepriceSettles ==
    ASSUME PricingInv, Pricing!Reprice
    PROVE  PricingInv' /\ Pricing!FollowsTrend /\ Pricing!NeverBelow
<1>1. v2' = v2 /\ v3' = v3 /\ v4' = v4 /\ v7' = v7
  BY DEF Pricing!Reprice
<1>2. PICK c \in Int : c = Pricing!Candidate
  BY CandidateIsInt DEF PricingInv
<1>3. PICK p : p = Pricing!Clamp(c)
  OBVIOUS
<1>4. /\ p \in Nat /\ v1 \in Nat
      /\ c > v1 => p >= v1
      /\ c < v1 => p <= v1
      /\ c = v1 => p = v1
      /\ p # c /\ p > v1 => c > p
      /\ p # c /\ p < v1 => c < p
  BY <1>3, ClampIs DEF PricingInv, PricesTyped
<1>5. Pricing!Candidate' = c /\ \A q : Pricing!ClearsFloors(q)' <=> Pricing!ClearsFloors(q)
  BY <1>1, <1>2, CandidateStays
<1>6. CASE Pricing!Acceptable(p)
  <2>1. /\ v1' = p
        /\ v5' = IF p = c THEN "settled" ELSE IF p > v1 THEN "up" ELSE "down"
        /\ v6' = IF Pricing!ClearsFloors(p) THEN "above" ELSE IF p = c THEN "given up" ELSE "below"
    BY <1>2, <1>3, <1>6, Zenon DEF Pricing!Reprice
  <2>2. p # c => Pricing!ClearsFloors(p)
    BY <1>2, <1>6 DEF Pricing!Acceptable
  <2>3. v6' # "below"
    BY <2>1, <2>2
  <2>4. v5 = "settled" => p = v1
    BY <1>2, <1>3, <1>6, Zenon DEF PricingInv, Arrived
  <2>5. PricesTyped'
    <3>1. Pricing!Valid(v4)' <=> Pricing!Valid(v4)
      BY <1>1 DEF Pricing!Valid
    <3> QED BY <1>1, <1>4, <2>1, <3>1 DEF PricingInv, PricesTyped
  <2>6. ASSUME p = c \/ p = v1 PROVE Arrived'
    <3>1. PICK q : q = Pricing!Clamp(c)'
      OBVIOUS
    <3>2. CASE p = v1
      <4>1. q = p
        BY <1>1, <1>3, <2>1, <3>1, <3>2 DEF Pricing!Clamp
      <4> QED BY <1>5, <2>1, <3>1, <4>1, Zenon DEF Arrived
    <3>3. CASE p = c
      <4>1. PICK up : up = Highest(v1', v4'.up)
        OBVIOUS
      <4>2. PICK down : down = Lowest(v1', v4'.down)
        OBVIOUS
      <4>3. v1' \in Nat /\ v4'.up \in Nat /\ v4'.down \in 0..100
        <5>1. v4.up \in Nat /\ v4.down \in 0..100
          BY RulesInForce DEF PricingInv, RuleIs
        <5> QED BY <1>1, <1>4, <2>1, <5>1
      <4>4. up \in Nat /\ down \in Nat /\ down <= v1' /\ v1' <= up
        BY <4>1, <4>2, <4>3, BandHoldsPrice
      <4>5. q = IF c > up THEN up ELSE IF c < down THEN down ELSE c
        BY <3>1, <4>1, <4>2 DEF Pricing!Clamp, Highest, Lowest
      <4>6. v1' = c
        BY <2>1, <3>3, Zenon
      <4>7. q = v1'
        BY <4>3, <4>4, <4>5, <4>6
      <4> QED BY <1>5, <3>1, <4>7, Zenon DEF Arrived
    <3> QED BY <2>6, <3>2, <3>3
  <2>7. v5' = "settled" => Arrived'
    BY <2>1, <2>6
  <2>8. v5' = "up" => Pricing!Candidate' > v1'
    BY <1>4, <1>5, <2>1
  <2>9. v5' = "down" => Pricing!Candidate' < v1' \/ Arrived'
    <3> SUFFICES ASSUME v5' = "down", p # v1 PROVE Pricing!Candidate' < v1'
      BY <2>6, Zenon
    <3>1. p # c /\ ~(p > v1)
      BY <2>1
    <3> QED BY <1>4, <1>5, <2>1, <3>1
  <2>10. PricingInv'
    <3>1. v5' \in {"none", "settled", "up", "down"}
      BY <2>1
    <3> QED BY <2>3, <2>5, <2>7, <2>8, <2>9, <3>1, Zenon DEF PricingInv
  <2>11. (v5 = "up" => v1' >= v1) /\ (v5 = "down" => v1' <= v1) /\ (v5 = "settled" => v1' = v1)
    <3>1. (v5 = "up" => c > v1 \/ p = v1) /\ (v5 = "down" => c < v1 \/ p = v1)
      BY <1>2, <1>3, Zenon DEF PricingInv, Arrived
    <3>2. v1' = p
      BY <2>1
    <3> QED BY <1>4, <2>4, <3>1, <3>2
  <2> QED BY <2>3, <2>10, <2>11 DEF Pricing!FollowsTrend, Pricing!NeverBelow
<1>7. CASE ~Pricing!Acceptable(p)
  <2>1. v5' = "settled" /\ v1' = v1 /\ v6' = v6
    BY <1>2, <1>3, <1>7, Zenon DEF Pricing!Reprice
  <2>2. PricesTyped'
    <3>1. Pricing!Valid(v4)' <=> Pricing!Valid(v4)
      BY <1>1 DEF Pricing!Valid
    <3> QED BY <1>1, <2>1, <3>1 DEF PricingInv, PricesTyped
  <2>3. ~Pricing!Acceptable(Pricing!Clamp(Pricing!Candidate))'
    <3>1. Pricing!Clamp(c)' = p
      BY <1>1, <1>3, <2>1 DEF Pricing!Clamp
    <3>2. Pricing!Differs(p)' <=> Pricing!Differs(p)
      BY <1>1, <2>1 DEF Pricing!Differs
    <3>3. ~Pricing!Acceptable(p)'
      BY <1>2, <1>5, <1>7, <3>2, Zenon DEF Pricing!Acceptable
    <3> QED BY <1>5, <3>1, <3>3, Zenon
  <2>4. PricingInv'
    <3>1. v6' # "below"
      BY <2>1 DEF PricingInv
    <3>2. v5' # "up" /\ v5' # "down" /\ v5' \in {"none", "settled", "up", "down"}
      BY <2>1
    <3> QED BY <2>2, <2>3, <3>1, <3>2, Zenon DEF PricingInv
  <2>5. v6' # "below" /\ v1' >= v1 /\ v1' <= v1
    BY <1>4, <2>1 DEF PricingInv
  <2> QED BY <2>1, <2>4, <2>5 DEF Pricing!FollowsTrend, Pricing!NeverBelow
<1> QED BY <1>6, <1>7

\* An edit begins anew.
LEMMA EditBegins ==
    ASSUME PricingInv, Pricing!Edited, v1' \in Nat, v2' \in UnitCosts,
           v3' \in [{"variant", "product"} -> ManualCosts], v4' \in PriceRules,
           Pricing!Valid(v4)'
    PROVE  PricingInv' /\ Pricing!FollowsTrend /\ Pricing!NeverBelow
<1>1. v7' = v7 + 1 /\ v5' = "none" /\ v6' = "nothing" /\ v7 \in Nat
  BY DEF Pricing!Edited, PricingInv, PricesTyped
<1>2. v7' \in Nat /\ v7' # v7
  BY <1>1
<1> QED BY <1>1, <1>2 DEF PricingInv, PricesTyped, Pricing!FollowsTrend, Pricing!NeverBelow

LEMMA PricesStep ==
    ASSUME PricingInv, Pricing!RepricingNext
    PROVE  PricingInv' /\ Pricing!FollowsTrend /\ Pricing!NeverBelow
<1>1. v1 \in Nat /\ v2 \in UnitCosts /\ v3 \in [{"variant", "product"} -> ManualCosts]
      /\ v4 \in PriceRules /\ Pricing!Valid(v4)
  BY DEF PricingInv, PricesTyped
<1>0. v4' = v4 => Pricing!Valid(v4)'
  BY <1>1 DEF Pricing!Valid
<1>7. Prices \subseteq Nat
  BY PricesAssumption
<1>2. CASE Pricing!Reprice
  BY <1>2, RepriceSettles
<1>3. CASE Pricing!MerchantSetsPrice
  BY <1>0, <1>1, <1>3, <1>7, EditBegins DEF Pricing!MerchantSetsPrice
<1>4. CASE Pricing!UnitCostChanges
  BY <1>0, <1>1, <1>4, EditBegins DEF Pricing!UnitCostChanges
<1>5. CASE Pricing!ManualCostChanges
  <2>1. PICK row \in DOMAIN v3, cost \in ManualCosts : v3' = [v3 EXCEPT ![row] = cost]
    BY <1>5 DEF Pricing!ManualCostChanges
  <2>2. v3' \in [{"variant", "product"} -> ManualCosts]
    BY <1>1, <2>1
  <2> QED BY <1>0, <1>1, <1>5, <2>2, EditBegins DEF Pricing!ManualCostChanges
<1>6. CASE Pricing!RulesChange
  <2>1. Pricing!Valid(v4)' <=> Pricing!Valid(v4')
    BY Zenon DEF Pricing!Valid
  <2> QED BY <1>1, <1>6, <2>1, EditBegins DEF Pricing!RulesChange
<1> QED BY <1>2, <1>3, <1>4, <1>5, <1>6 DEF Pricing!RepricingNext

LEMMA PricesRest ==
    ASSUME PricingInv, UNCHANGED <<v1, v2, v3, v4, v5, v6, v7>>
    PROVE  PricingInv'
<1>1. v1' = v1 /\ v2' = v2 /\ v3' = v3 /\ v4' = v4 /\ v5' = v5 /\ v6' = v6 /\ v7' = v7
  OBVIOUS
<1>2. PICK c : c = Pricing!Candidate
  OBVIOUS
<1>3. Pricing!Candidate' = c /\ \A q : Pricing!ClearsFloors(q)' <=> Pricing!ClearsFloors(q)
  BY <1>1, <1>2, CandidateStays
<1>4. PICK p : p = Pricing!Clamp(c)
  OBVIOUS
<1>5. Pricing!Clamp(c)' = p
  BY <1>1, <1>4 DEF Pricing!Clamp
<1>6. Pricing!Differs(p)' <=> Pricing!Differs(p)
  BY <1>1 DEF Pricing!Differs
<1>7. Pricing!Acceptable(p)' <=> Pricing!Acceptable(p)
  BY <1>2, <1>3, <1>6, Zenon DEF Pricing!Acceptable
<1>8. Pricing!Acceptable(Pricing!Clamp(Pricing!Candidate))' <=>
         Pricing!Acceptable(Pricing!Clamp(Pricing!Candidate))
  BY <1>2, <1>3, <1>4, <1>5, <1>7, Zenon
<1>9. PricesTyped'
  <2>1. Pricing!Valid(v4)' <=> Pricing!Valid(v4)
    BY <1>1 DEF Pricing!Valid
  <2> QED BY <1>1, <2>1 DEF PricingInv, PricesTyped
<1>10. Arrived' <=> Arrived
  BY <1>1, <1>2, <1>3, <1>4, <1>5, Zenon DEF Arrived
<1>11. Pricing!Candidate' = Pricing!Candidate
  BY <1>2, <1>3
<1> QED BY <1>1, <1>8, <1>9, <1>10, <1>11, Zenon DEF PricingInv

LEMMA PricesStart == Pricing!RepricingInit => PricingInv
<1> SUFFICES ASSUME Pricing!RepricingInit PROVE PricingInv
  OBVIOUS
<1>1. v1 \in Prices /\ v5 = "none" /\ v6 = "nothing" /\ v7 = 0 /\ v2 \in UnitCosts
      /\ v3 \in [{"variant", "product"} -> ManualCosts] /\ v4 \in PriceRules
      /\ Pricing!Valid(v4)
  BY DEF Pricing!RepricingInit
<1>2. v1 \in Nat
  BY <1>1, PricesAssumption
<1> QED BY <1>1, <1>2 DEF PricingInv, PricesTyped

-----------------------------------------------------------------------------
(* The books.                                                              *)

BookOrder(x) ==
    /\ x = [currency |-> x.currency, revenue |-> x.revenue, lines |-> x.lines, status |-> x.status,
            financial |-> x.financial, cancelled |-> x.cancelled, made |-> x.made,
                parcels |-> x.parcels]
    /\ x.lines \in Seq(BookLine)

BooksInv == v1 = [o \in Orders |-> v1[o]] /\ \A o \in Orders : BookOrder(v1[o])

\* The sums of the books, as sums of functions.
LEMMA UnitSum ==
    ASSUME NEW lines, NEW unit, NEW S, S = DOMAIN lines, IsFiniteSet(S),
           NEW f, \A x \in S : f[x] = lines[x].quantity * lines[x][unit]
    PROVE  Books!TotalPerUnit(lines, unit) =
              IF lines = <<>> \/ \E i \in DOMAIN lines : ~Books!Known(lines[i][unit])
                  THEN Books!Null
              ELSE Total(f, S)
<1> DEFINE term(x) == lines[x].quantity * lines[x][unit]
           Is(iter) == iter = [s \in SUBSET S |->
                                 IF s = {} THEN 0
                                 ELSE term(CHOOSE x \in s : TRUE)
                                      + iter[s \ {CHOOSE x \in s : TRUE}]]
           G == CHOOSE iter : Is(iter)
<1>0. Books!MapThenSumSet(LAMBDA x : lines[x].quantity * lines[x][unit], DOMAIN lines) = G[S]
  BY Zenon DEF Books!MapThenSumSet, Books!MapThenFoldSet
<1>1. Books!TotalPerUnit(lines, unit) =
              IF lines = <<>> \/ \E i \in DOMAIN lines : ~Books!Known(lines[i][unit])
                  THEN Books!Null
              ELSE G[S]
  BY <1>0, Zenon DEF Books!TotalPerUnit
<1>2. \A iter : Is(iter) <=> Sums(iter, f, S)
  <2>1. \A s \in SUBSET S : s # {} => f[CHOOSE x \in s : TRUE] = term(CHOOSE x \in s : TRUE)
    BY FirstIn DEF First
  <2> HIDE DEF term
  <2> QED BY <2>1 DEF Sums, First
<1> HIDE DEF Is
<1>3. \A g : Sums(g, f, S) => Sums(G, f, S)
  BY <1>2, Zenon
<1> HIDE DEF G
<1> QED BY <1>1, <1>3, SumChosen, Zenon

LEMMA LinesSum ==
    ASSUME NEW o, NEW config, NEW S, S = DOMAIN v1[o].lines, IsFiniteSet(S),
           NEW f, \A x \in S : f[x] = v1[o].lines[x].quantity *
                    (v1[o].lines[x].cost + (IF config.shipping THEN v1[o].lines[x].ship ELSE 0))
    PROVE  Books!Owed(o, config) = Total(f, S)
<1> DEFINE term(x) == v1[o].lines[x].quantity *
                    (v1[o].lines[x].cost + (IF config.shipping THEN v1[o].lines[x].ship ELSE 0))
           Is(iter) == iter = [s \in SUBSET S |->
                                 IF s = {} THEN 0
                                 ELSE term(CHOOSE x \in s : TRUE)
                                      + iter[s \ {CHOOSE x \in s : TRUE}]]
           G == CHOOSE iter : Is(iter)
<1>1. Books!Owed(o, config) = G[S]
  BY Zenon DEF Books!Owed, Books!MapThenSumSet, Books!MapThenFoldSet
<1>2. \A iter : Is(iter) <=> Sums(iter, f, S)
  <2>1. \A s \in SUBSET S : s # {} => f[CHOOSE x \in s : TRUE] = term(CHOOSE x \in s : TRUE)
    BY FirstIn DEF First
  <2> HIDE DEF term
  <2> QED BY <2>1 DEF Sums, First
<1> HIDE DEF Is
<1>3. \A g : Sums(g, f, S) => Sums(G, f, S)
  BY <1>2, Zenon
<1> HIDE DEF G
<1> QED BY <1>1, <1>3, SumChosen

Included(orders, figure) == {o \in orders : Books!Known(figure[o]) /\ Books!InCurrency(o)}

SameOn(S, f, h) == \A x \in S : f[x] = h[x]

LEMMA FigureSum ==
    ASSUME NEW orders, NEW figure, NEW S, S = Included(orders, figure), IsFiniteSet(S),
           NEW f, SameOn(S, f, figure)
    PROVE  Books!Aggregate(orders, figure).amount = Total(f, S)
<1> DEFINE term(x) == figure[x]
           Is(iter) == iter = [s \in SUBSET S |->
                                 IF s = {} THEN 0
                                 ELSE term(CHOOSE x \in s : TRUE)
                                      + iter[s \ {CHOOSE x \in s : TRUE}]]
           G == CHOOSE iter : Is(iter)
<1>1. Books!Aggregate(orders, figure).amount = G[S]
  BY Zenon DEF Included, Books!Aggregate, Books!MapThenSumSet, Books!MapThenFoldSet
<1>2. \A iter : Is(iter) <=> Sums(iter, f, S)
  <2>1. \A s \in SUBSET S : s # {} => f[CHOOSE x \in s : TRUE] = term(CHOOSE x \in s : TRUE)
    BY FirstIn DEF First, SameOn
  <2> HIDE DEF term
  <2> QED BY <2>1 DEF Sums, First
<1> HIDE DEF Is
<1>3. \A g : Sums(g, f, S) => Sums(G, f, S)
  BY <1>2, Zenon
<1> HIDE DEF G
<1> QED BY <1>1, <1>3, SumChosen

LEMMA OwedSum ==
    ASSUME NEW orders, NEW config, NEW S, S = orders, IsFiniteSet(S),
           NEW f, \A x \in S : f[x] = Books!Owed(x, config)
    PROVE  Books!OwedBy(orders, config) = Total(f, S)
<1> DEFINE term(x) == Books!Owed(x, config)
           Is(iter) == iter = [s \in SUBSET S |->
                                 IF s = {} THEN 0
                                 ELSE term(CHOOSE x \in s : TRUE)
                                      + iter[s \ {CHOOSE x \in s : TRUE}]]
           G == CHOOSE iter : Is(iter)
<1>1. Books!OwedBy(orders, config) = G[S]
  BY Zenon DEF Books!OwedBy, Books!MapThenSumSet, Books!MapThenFoldSet
<1>2. \A iter : Is(iter) <=> Sums(iter, f, S)
  <2>1. \A s \in SUBSET S : s # {} => f[CHOOSE x \in s : TRUE] = term(CHOOSE x \in s : TRUE)
    BY FirstIn DEF First
  <2> HIDE DEF term
  <2> QED BY <2>1 DEF Sums, First
<1> HIDE DEF Is
<1>3. \A g : Sums(g, f, S) => Sums(G, f, S)
  BY <1>2, Zenon
<1> HIDE DEF G
<1> QED BY <1>1, <1>3, SumChosen

\* What one product of every line costs, or that nobody knows.
LEMMA PerUnitIs ==
    ASSUME NEW lines \in Seq(BookLine), NEW unit \in {"cost", "ship"},
           NEW f, \A i \in DOMAIN lines : f[i] = lines[i].quantity * lines[i][unit]
    PROVE  /\ IsFiniteSet(DOMAIN lines)
           /\ Books!TotalPerUnit(lines, unit) =
                IF lines = <<>> \/ \E i \in DOMAIN lines : lines[i][unit] = -1 THEN -1
                ELSE Total(f, DOMAIN lines)
           /\ (\A i \in DOMAIN lines : lines[i][unit] # -1) => Total(f, DOMAIN lines) \in Nat
<1>1. IsFiniteSet(DOMAIN lines)
  <2>1. DOMAIN lines = 1..Len(lines) /\ Len(lines) \in Nat
    OBVIOUS
  <2> QED BY <2>1, FS_Interval
<1>3. Books!TotalPerUnit(lines, unit) =
        IF lines = <<>> \/ \E i \in DOMAIN lines : lines[i][unit] = -1 THEN -1
        ELSE Total(f, DOMAIN lines)
  <2>1. Books!TotalPerUnit(lines, unit) =
          IF lines = <<>> \/ \E i \in DOMAIN lines : ~Books!Known(lines[i][unit]) THEN Books!Null
          ELSE Total(f, DOMAIN lines)
    BY <1>1, UnitSum
  <2>2. \A amount : ~Books!Known(amount) <=> amount = -1
    BY DEF Books!Known, Books!Null
  <2> QED BY <2>1, <2>2, Zenon DEF Books!Null
<1>4. ASSUME \A i \in DOMAIN lines : lines[i][unit] # -1 PROVE Total(f, DOMAIN lines) \in Nat
  <2>1. ASSUME NEW i \in DOMAIN lines PROVE f[i] \in Nat
    <3>1. PICK l \in BookLine : l = lines[i]
      OBVIOUS
    <3>2. l.quantity \in Nat /\ l[unit] \in Nat
      BY <1>4, <3>1 DEF BookLine
    <3>3. PICK q, c : q = l.quantity /\ c = l[unit]
      OBVIOUS
    <3> QED BY <3>1, <3>2, <3>3
  <2> QED BY <1>1, <2>1, TotalIsNat
<1> QED BY <1>1, <1>3, <1>4

\* An order every line of which has its costs owes what the lines cost; of another, nobody
\* knows what it owes, nor one of its two parts.
LEMMA LandedIs ==
    ASSUME BooksInv, NEW o \in Orders, NEW config
    PROVE  /\ Books!Costed(o, config) => /\ Books!LandedCost(o, config) = Books!Owed(o, config)
                                         /\ Books!Owed(o, config) \in Nat
           /\ ~Books!Costed(o, config) => /\ Books!LandedCost(o, config) = -1
                                          /\ \/ Books!ProductCost(o) = -1
                                             \/ Books!ShippingCost(o, config) = -1
<1>1. PICK lines \in Seq(BookLine) : lines = v1[o].lines
  BY DEF BooksInv, BookOrder
<1> DEFINE goods == [i \in DOMAIN lines |-> lines[i].quantity * lines[i].cost]
           carriage == [i \in DOMAIN lines |-> lines[i].quantity * lines[i].ship]
           all == [i \in DOMAIN lines |->
                     lines[i].quantity * (lines[i].cost
                         + (IF config.shipping THEN lines[i].ship ELSE 0))]
<1>2. /\ IsFiniteSet(DOMAIN lines)
      /\ Books!ProductCost(o) =
            IF lines = <<>> \/ \E i \in DOMAIN lines : lines[i].cost = -1 THEN -1
            ELSE Total(goods, DOMAIN lines)
      /\ (\A i \in DOMAIN lines : lines[i].cost # -1) => Total(goods, DOMAIN lines) \in Nat
  <2>1. \A i \in DOMAIN lines : goods[i] = lines[i].quantity * lines[i]["cost"]
    OBVIOUS
  <2>2. Books!ProductCost(o) = Books!TotalPerUnit(lines, "cost")
    BY <1>1 DEF Books!ProductCost
  <2> HIDE DEF goods
  <2> QED BY <2>1, <2>2, PerUnitIs
<1>3. /\ config.shipping => Books!ShippingCost(o, config) =
            IF lines = <<>> \/ \E i \in DOMAIN lines : lines[i].ship = -1 THEN -1
            ELSE Total(carriage, DOMAIN lines)
      /\ ~config.shipping => Books!ShippingCost(o, config) = 0
      /\ (\A i \in DOMAIN lines : lines[i].ship # -1) => Total(carriage, DOMAIN lines) \in Nat
  <2>1. \A i \in DOMAIN lines : carriage[i] = lines[i].quantity * lines[i]["ship"]
    OBVIOUS
  <2>2. Books!ShippingCost(o, config) = IF config.shipping THEN Books!TotalPerUnit(lines, "ship")
            ELSE 0
    BY <1>1, Zenon DEF Books!ShippingCost
  <2>3. /\ Books!TotalPerUnit(lines, "ship") =
            IF lines = <<>> \/ \E i \in DOMAIN lines : lines[i].ship = -1 THEN -1
            ELSE Total(carriage, DOMAIN lines)
        /\ (\A i \in DOMAIN lines : lines[i].ship # -1) => Total(carriage, DOMAIN lines) \in Nat
    <3> HIDE DEF carriage
    <3> QED BY <2>1, PerUnitIs
  <2> HIDE DEF carriage
  <2> QED BY <2>2, <2>3, Zenon
<1>4. Books!Owed(o, config) = Total(all, DOMAIN lines)
  <2>1. \A i \in DOMAIN v1[o].lines : all[i] = v1[o].lines[i].quantity *
           (v1[o].lines[i].cost + (IF config.shipping THEN v1[o].lines[i].ship ELSE 0))
    BY <1>1, Zenon
  <2>2. IsFiniteSet(DOMAIN v1[o].lines)
    BY <1>1, <1>2
  <2> HIDE DEF all
  <2>3. Books!Owed(o, config) = Total(all, DOMAIN v1[o].lines)
    BY <2>1, <2>2, LinesSum
  <2> QED BY <1>1, <2>3
<1>5. \A i \in DOMAIN lines : lines[i].quantity \in Nat /\ lines[i].cost \in Nat \cup {-1}
                              /\ lines[i].ship \in Nat \cup {-1}
  <2>1. \A i \in DOMAIN lines : lines[i] \in BookLine
    OBVIOUS
  <2> QED BY <2>1 DEF BookLine
<1>6. Books!Costed(o, config) <=>
         /\ lines # <<>>
         /\ \A i \in DOMAIN lines : lines[i].cost # -1 /\ (config.shipping => lines[i].ship # -1)
  BY <1>1, Zenon DEF Books!Costed, Books!Known, Books!Null
<1>7. Books!LandedCost(o, config) =
         IF Books!ProductCost(o) # -1 /\ Books!ShippingCost(o, config) # -1
         THEN Books!ProductCost(o) + Books!ShippingCost(o, config) ELSE -1
  BY DEF Books!LandedCost, Books!AddFigures, Books!Known, Books!Null
<1>8. CASE config.shipping
  <2>1. Books!ShippingCost(o, config) =
            IF lines = <<>> \/ \E i \in DOMAIN lines : lines[i].ship = -1 THEN -1
            ELSE Total(carriage, DOMAIN lines)
    BY <1>3, <1>8, Zenon
  <2>2. Books!Costed(o, config) <=>
         lines # <<>> /\ \A i \in DOMAIN lines : lines[i].cost # -1 /\ lines[i].ship # -1
    BY <1>6, <1>8, Zenon
  <2>3. \A i \in DOMAIN lines : all[i] = lines[i].quantity * (lines[i].cost + lines[i].ship)
    BY <1>8, Zenon
  <2>4. ASSUME Books!Costed(o, config)
        PROVE  /\ Total(all, DOMAIN lines)
                    = Total(goods, DOMAIN lines) + Total(carriage, DOMAIN lines)
               /\ Total(goods, DOMAIN lines) \in Nat /\ Total(carriage, DOMAIN lines) \in Nat
    <3>1. ASSUME NEW i \in DOMAIN lines
          PROVE  goods[i] \in Int /\ carriage[i] \in Int /\ all[i] = goods[i] + carriage[i]
      <4>1. PICK q, c, s : q = lines[i].quantity /\ c = lines[i].cost /\ s = lines[i].ship
        OBVIOUS
      <4>2. q \in Nat /\ c \in Nat /\ s \in Nat
        BY <1>5, <2>2, <2>4, <4>1
      <4>3. goods[i] = q * c /\ carriage[i] = q * s /\ all[i] = q * (c + s)
        BY <2>3, <4>1
      <4> HIDE DEF goods, carriage, all
      <4> QED BY <4>2, <4>3
    <3> HIDE DEF goods, carriage, all
    <3> QED BY <1>2, <1>3, <2>2, <2>4, <3>1, TotalOfSum
  <2> HIDE DEF goods, carriage, all
  <2> QED BY <1>2, <1>4, <1>7, <2>1, <2>2, <2>4
<1>9. CASE ~config.shipping
  <2>1. Books!ShippingCost(o, config) = 0
    BY <1>3, <1>9, Zenon
  <2>2. Books!Costed(o, config) <=> lines # <<>> /\ \A i \in DOMAIN lines : lines[i].cost # -1
    BY <1>6, <1>9, Zenon
  <2>3. \A i \in DOMAIN lines : all[i] = lines[i].quantity * (lines[i].cost + 0)
    BY <1>9, Zenon
  <2>4. ASSUME Books!Costed(o, config)
        PROVE  Total(all, DOMAIN lines) = Total(goods, DOMAIN lines)
            /\ Total(goods, DOMAIN lines) \in Nat
    <3>1. ASSUME NEW i \in DOMAIN lines PROVE all[i] = goods[i]
      <4>1. PICK q, c : q = lines[i].quantity /\ c = lines[i].cost
        OBVIOUS
      <4>2. q \in Nat /\ c \in Nat
        BY <1>5, <2>2, <2>4, <4>1
      <4>3. goods[i] = q * c /\ all[i] = q * (c + 0)
        BY <2>3, <4>1
      <4> HIDE DEF goods, all
      <4> QED BY <4>2, <4>3
    <3> HIDE DEF goods, all
    <3> QED BY <1>2, <2>2, <2>4, <3>1, TotalOfEqual
  <2> HIDE DEF goods, all
  <2> QED BY <1>2, <1>4, <1>7, <2>1, <2>2, <2>4
<1> QED BY <1>8, <1>9

Landed(config) == [o \in Books!PaidOrders |-> Books!LandedCost(o, config)]

OwedOf(config) == [o \in Orders |-> Books!Owed(o, config)]

CountedIn(orders, config) == {o \in orders : Books!Costed(o, config) /\ Books!InCurrency(o)}

\* What a set of paid orders commits the shop to is what the costed ones of the main
\* currency owe.
LEMMA AmountIs ==
    ASSUME BooksInv, NEW config, NEW orders, orders \subseteq Books!PaidOrders,
           NEW S, S = CountedIn(orders, config)
    PROVE  /\ IsFiniteSet(S) /\ S \subseteq Orders
           /\ \A o \in S : OwedOf(config)[o] \in Nat
           /\ Books!Aggregate(orders, Landed(config)).amount = Total(OwedOf(config), S)
<1>1. orders \subseteq Orders /\ \A o \in orders : Landed(config)[o] = Books!LandedCost(o, config)
  BY DEF Books!PaidOrders, Books!Present, Landed
<1>2. IsFiniteSet(S) /\ S \subseteq Orders
  BY <1>1, BooksAssumption, FS_Subset DEF CountedIn
<1>3. \A o \in orders :
         /\ Books!Costed(o, config) => /\ Landed(config)[o] = OwedOf(config)[o]
                                       /\ OwedOf(config)[o] \in Nat
         /\ ~Books!Costed(o, config) => Landed(config)[o] = -1
  BY <1>1, LandedIs DEF OwedOf
<1>4. \A o \in orders : Books!Known(Landed(config)[o]) <=> Books!Costed(o, config)
  BY <1>3 DEF Books!Known, Books!Null
<1>5. S = Included(orders, Landed(config))
  BY <1>4, Zenon DEF CountedIn, Included
<1>6. SameOn(S, OwedOf(config), Landed(config)) /\ \A o \in S : OwedOf(config)[o] \in Nat
  BY <1>3 DEF SameOn, CountedIn
<1>7. Books!Aggregate(orders, Landed(config)).amount = Total(OwedOf(config), S)
  BY <1>2, <1>5, <1>6, FigureSum
<1> QED BY <1>2, <1>6, <1>7

LEMMA LargestOfTwo == ASSUME NEW k \in Nat PROVE Books!Max({0, k}) = k
<1>1. k \in {0, k} /\ \A y \in {0, k} : k >= y
  OBVIOUS
<1>2. \A x \in {0, k} : (\A y \in {0, k} : x >= y) => x = k
  OBVIOUS
<1> QED BY <1>1, <1>2 DEF Books!Max

\* What is outstanding is what nobody dispatched.
LEMMA OutstandingIs ==
    ASSUME BooksInv, NEW config, NEW counted, counted = CountedIn(Books!PaidOrders, config)
    PROVE  Books!Exposure(config).outstanding =
              Books!OwedBy(counted \ Books!DispatchedOrders, config)
<1>1. PICK sent : sent = CountedIn(Books!DispatchedOrders, config)
  OBVIOUS
<1>2. Books!DispatchedOrders \subseteq Books!PaidOrders
  BY DEF Books!DispatchedOrders
<1>3. counted \ Books!DispatchedOrders = counted \ sent /\ sent \subseteq counted
  BY <1>1, <1>2 DEF CountedIn
<1>4. PICK owed : owed = OwedOf(config)
  OBVIOUS
<1>5. PICK a, b, due : /\ a = Total(owed, counted) /\ b = Total(owed, sent)
                       /\ due = Total(owed, counted \ sent)
  OBVIOUS
<1>6. /\ IsFiniteSet(counted) /\ counted \subseteq Orders /\ \A o \in counted : owed[o] \in Nat
      /\ Books!Aggregate(Books!PaidOrders, Landed(config)).amount = a
  BY <1>4, <1>5, AmountIs
<1>7. Books!Aggregate(Books!DispatchedOrders, Landed(config)).amount = b
  BY <1>1, <1>2, <1>4, <1>5, AmountIs
<1>8. a = b + due /\ due \in Nat /\ b \in Nat
  <2>1. IsFiniteSet(counted \ sent) /\ IsFiniteSet(sent)
    BY <1>3, <1>6, FS_Subset
  <2>2. (\A o \in counted : owed[o] \in Int) /\ (\A o \in sent : owed[o] \in Nat)
        /\ \A o \in counted \ sent : owed[o] \in Nat
    BY <1>3, <1>6
  <2>3. a = b + due
    <3>1. sent \in SUBSET counted
      BY <1>3
    <3>2. IsFiniteSet(counted)
      BY <1>6
    <3>3. \A x \in counted : owed[x] \in Int
      BY <2>2
    <3>4. Total(owed, counted) = Total(owed, sent) + Total(owed, counted \ sent)
      BY <3>1, <3>2, <3>3, TotalSplits
    <3> QED BY <1>5, <3>4
  <2>4. due \in Nat
    BY <1>5, <2>1, <2>2, TotalIsNat
  <2>5. b \in Nat
    BY <1>5, <2>1, <2>2, TotalIsNat
  <2> QED BY <2>3, <2>4, <2>5
<1>9. Books!OwedBy(counted \ sent, config) = due
  <2>1. IsFiniteSet(counted \ sent)
    BY <1>3, <1>6, FS_Subset
  <2>2. \A o \in counted \ sent : owed[o] = Books!Owed(o, config)
    BY <1>4, <1>6 DEF OwedOf
  <2> QED BY <1>5, <2>1, <2>2, OwedSum
<1>10. Books!Exposure(config).outstanding = Books!Max({0, a - b})
  BY <1>6, <1>7, Zenon DEF Books!Exposure, Landed
<1>11. a - b = due
  BY <1>8
<1> QED BY <1>3, <1>8, <1>9, <1>10, <1>11, LargestOfTwo

\* Honest books follow from what is known of them.
LEMMA HonestBooks == ASSUME BooksInv PROVE Books!BooksAreHonest
<1>1. PICK config : config = Books!LoadSettings(v2)
  OBVIOUS
<1>2. Books!PaidOrders \subseteq Orders
  BY DEF Books!PaidOrders, Books!Present
<1>3. \A o \in Books!PaidOrders :
         Books!Known(Books!LandedCost(o, config)) <=> Books!Costed(o, config)
  <2>1. ASSUME NEW o \in Books!PaidOrders, Books!Costed(o, config)
        PROVE  Books!Known(Books!LandedCost(o, config))
    BY <1>2, <2>1, LandedIs DEF Books!Known, Books!Null
  <2>2. ASSUME NEW o \in Books!PaidOrders, ~Books!Costed(o, config)
        PROVE  ~Books!Known(Books!LandedCost(o, config))
    BY <1>2, <2>2, LandedIs DEF Books!Known, Books!Null
  <2> QED BY <2>1, <2>2
<1>4. Books!Exposure(config).unknown
         = Books!Cardinality({o \in Books!PaidOrders : ~Books!Costed(o, config)})
  <2>1. {o \in Books!PaidOrders : ~Books!Known(Books!LandedCost(o, config))}
         = {o \in Books!PaidOrders : ~Books!Costed(o, config)}
    BY <1>3, Zenon
  <2> QED BY <2>1, Zenon DEF Books!Exposure
<1>5. \A o \in Books!PaidOrders : ~Books!Costed(o, config) =>
          Books!Attention(o, config) \cap {"UNKNOWN_SUPPLIER_COST", "UNKNOWN_SUPPLIER_SHIPPING"}
              # {}
  <2> SUFFICES ASSUME NEW o \in Books!PaidOrders, ~Books!Costed(o, config)
               PROVE  \E x \in {"UNKNOWN_SUPPLIER_COST", "UNKNOWN_SUPPLIER_SHIPPING"} :
                         x \in Books!Attention(o, config)
    OBVIOUS
  <2>1. ~Books!Known(Books!ProductCost(o)) \/ ~Books!Known(Books!ShippingCost(o, config))
    BY <1>2, LandedIs DEF Books!Known, Books!Null
  <2>2. {b \in {"UNKNOWN_SUPPLIER_COST"} : ~Books!Known(Books!ProductCost(o))}
           \subseteq Books!Attention(o, config)
    BY Zenon DEF Books!Attention
  <2>3. {b \in {"UNKNOWN_SUPPLIER_SHIPPING"} : ~Books!Known(Books!ShippingCost(o, config))}
           \subseteq Books!Attention(o, config)
    BY Zenon DEF Books!Attention
  <2> QED BY <2>1, <2>2, <2>3
<1>6. PICK counted : counted = CountedIn(Books!PaidOrders, config)
  OBVIOUS
<1>7. Books!Exposure(config).outstanding = Books!OwedBy(counted \ Books!DispatchedOrders, config)
  BY <1>6, OutstandingIs
<1>8. counted = {o \in Books!PaidOrders : Books!Costed(o, config) /\ Books!InCurrency(o)}
  BY <1>6 DEF CountedIn
<1> QED BY <1>1, <1>4, <1>5, <1>7, <1>8, Zenon DEF Books!BooksAreHonest

\* What happens to an order leaves it an order.
LEMMA OrderStays ==
    ASSUME BooksInv, NEW o \in Orders, NEW x, BookOrder(x), v1' = [v1 EXCEPT ![o] = x]
    PROVE  BooksInv'
<1>1. v1' = [p \in Orders |-> IF p = o THEN x ELSE v1[p]]
  BY DEF BooksInv
<1>2. PICK w : w = v1'
  OBVIOUS
<1>3. w = [p \in Orders |-> w[p]] /\ \A p \in Orders : w[p] = IF p = o THEN x ELSE v1[p]
  BY <1>1, <1>2
<1>4. \A p \in Orders : BookOrder(w[p])
  BY <1>3 DEF BooksInv
<1>5. BooksInv' <=> v1' = [p \in Orders |-> v1'[p]] /\ \A p \in Orders : BookOrder(v1'[p])
  BY Zenon DEF BooksInv, BookOrder
<1> QED BY <1>2, <1>3, <1>4, <1>5, Zenon

LEMMA BooksStep == ASSUME BooksInv, Books!DropNext PROVE BooksInv'
<1> USE DEF Books!ToBook
<1>0. Books!Present \subseteq Orders
  BY DEF Books!Present
<1>1. CASE Books!OrderArrives
  <2>1. PICK o \in Orders, kind \in OrderKinds, financial \in {"PENDING", "PAID"} :
           v1' = [v1 EXCEPT ![o] = [Books!NoOrder EXCEPT !.currency = kind.currency,
                       !.revenue = kind.revenue, !.lines = kind.lines, !.status = "UNFULFILLED",
                       !.financial = financial]]
    BY <1>1, Zenon DEF Books!OrderArrives
  <2>2. PICK f, n : f = FALSE /\ n = Books!NoOrder
    OBVIOUS
  <2>3. n = [currency |-> n.currency, revenue |-> n.revenue, lines |-> n.lines, status |-> n.status,
             financial |-> n.financial, cancelled |-> n.cancelled, made |-> n.made,
             parcels |-> n.parcels]
    BY <2>2, Zenon DEF Books!NoOrder
  <2>4. PICK x : x = [n EXCEPT !.currency = kind.currency, !.revenue = kind.revenue,
                               !.lines = kind.lines, !.status = "UNFULFILLED",
                               !.financial = financial]
    OBVIOUS
  <2>5. x = [currency |-> kind.currency, revenue |-> kind.revenue, lines |-> kind.lines,
             status |-> "UNFULFILLED", financial |-> financial, cancelled |-> n.cancelled,
             made |-> n.made, parcels |-> n.parcels]
    BY <2>3, <2>4
  <2>6. v1' = [v1 EXCEPT ![o] = x]
    BY <2>1, <2>2, <2>4, Zenon
  <2>7. BookOrder(x)
    BY <2>5, BooksAssumption DEF BookOrder
  <2> QED BY <2>6, <2>7, OrderStays
<1>2. ASSUME NEW o \in Orders, NEW x, v1' = [v1 EXCEPT ![o] = x],
             x = [currency |-> v1[o].currency, revenue |-> v1[o].revenue, lines |-> x.lines,
                  status |-> v1[o].status, financial |-> x.financial, cancelled |-> x.cancelled,
                  made |-> v1[o].made, parcels |-> x.parcels],
             x.lines \in Seq(BookLine)
      PROVE  BooksInv'
  <2>1. BookOrder(x)
    BY <1>2 DEF BookOrder
  <2> QED BY <1>2, <2>1, OrderStays
<1>3. \A o \in Orders : /\ v1[o].lines \in Seq(BookLine)
                        /\ v1[o] = [currency |-> v1[o].currency, revenue |-> v1[o].revenue,
                             lines |-> v1[o].lines, status |-> v1[o].status,
                             financial |-> v1[o].financial, cancelled |-> v1[o].cancelled,
                             made |-> v1[o].made, parcels |-> v1[o].parcels]
  BY Zenon DEF BooksInv, BookOrder
<1>4. CASE Books!OrderIsSent
  <2>0. PICK o \in Books!Present : \E parcels :
           v1' = [v1 EXCEPT ![o] = [v1[o] EXCEPT !.parcels = parcels]]
    BY <1>4, Zenon DEF Books!OrderIsSent
  <2>1. PICK parcels : v1' = [v1 EXCEPT ![o] = [v1[o] EXCEPT !.parcels = parcels]]
    BY <2>0
  <2>2. PICK y : y = v1[o] /\ o \in Orders
    BY <1>0
  <2>3. PICK x : x = [y EXCEPT !.parcels = parcels]
    OBVIOUS
  <2>4. v1' = [v1 EXCEPT ![o] = x]
    BY <2>1, <2>2, <2>3
  <2>5. x = [currency |-> y.currency, revenue |-> y.revenue, lines |-> y.lines,
             status |-> y.status, financial |-> y.financial, cancelled |-> y.cancelled,
             made |-> y.made, parcels |-> parcels]
    <3>1. BookOrder(y)
      BY <2>2 DEF BooksInv
    <3> QED BY <2>3, <3>1 DEF BookOrder
  <2>6. x.lines = y.lines /\ x.financial = y.financial /\ x.cancelled = y.cancelled
        /\ x.parcels = parcels
    BY <2>5
  <2> QED BY <1>2, <1>3, <2>2, <2>4, <2>5, <2>6
<1>5. CASE Books!OrderIsPaid
  <2>1. PICK o \in Books!Present : v1' = [v1 EXCEPT ![o] = [v1[o] EXCEPT !.financial = "PAID"]]
    BY <1>5, Zenon DEF Books!OrderIsPaid
  <2>2. PICK y : y = v1[o] /\ o \in Orders
    BY <1>0
  <2>3. PICK x : x = [y EXCEPT !.financial = "PAID"]
    OBVIOUS
  <2>4. v1' = [v1 EXCEPT ![o] = x]
    BY <2>1, <2>2, <2>3
  <2>5. x = [currency |-> y.currency, revenue |-> y.revenue, lines |-> y.lines,
             status |-> y.status, financial |-> "PAID", cancelled |-> y.cancelled,
             made |-> y.made, parcels |-> y.parcels]
    <3>1. BookOrder(y)
      BY <2>2 DEF BooksInv
    <3> QED BY <2>3, <3>1 DEF BookOrder
  <2>6. x.lines = y.lines /\ x.financial = "PAID" /\ x.cancelled = y.cancelled
        /\ x.parcels = y.parcels
    BY <2>5
  <2> QED BY <1>2, <1>3, <2>2, <2>4, <2>5, <2>6
<1>6. CASE Books!OrderIsCancelled
  <2>1. PICK o \in Books!Present : v1' = [v1 EXCEPT ![o] = [v1[o] EXCEPT !.cancelled = TRUE]]
    BY <1>6, Zenon DEF Books!OrderIsCancelled
  <2>2. PICK y : y = v1[o] /\ o \in Orders
    BY <1>0
  <2>0. PICK t : t = TRUE
    OBVIOUS
  <2>3. PICK x : x = [y EXCEPT !.cancelled = t]
    OBVIOUS
  <2>4. v1' = [v1 EXCEPT ![o] = x]
    BY <2>0, <2>1, <2>2, <2>3, Zenon
  <2>5. x = [currency |-> y.currency, revenue |-> y.revenue, lines |-> y.lines,
             status |-> y.status, financial |-> y.financial, cancelled |-> t,
             made |-> y.made, parcels |-> y.parcels]
    <3>1. BookOrder(y)
      BY <2>2 DEF BooksInv
    <3> QED BY <2>3, <3>1 DEF BookOrder
  <2>6. x.lines = y.lines /\ x.financial = y.financial /\ x.cancelled = t
        /\ x.parcels = y.parcels
    BY <2>5
  <2> QED BY <1>2, <1>3, <2>2, <2>4, <2>5, <2>6
<1>7. CASE Books!CostIsRecorded
  <2> HIDE DEF Books!ToBook
  <2>0. PICK o \in Books!Present, cost \in LaterCosts :
          \E i \in DOMAIN v1[o].lines, unit \in {"cost", "ship"} :
             /\ v1[o].lines[i][unit] # cost
             /\ Books!ToBook(o, [v1[o] EXCEPT !.lines[i][unit] = cost])
    BY <1>7 DEF Books!CostIsRecorded
  <2>1. PICK i \in DOMAIN v1[o].lines, unit \in {"cost", "ship"} :
             Books!ToBook(o, [v1[o] EXCEPT !.lines[i][unit] = cost])
    BY <2>0
  <2>2. v1' = [v1 EXCEPT ![o] = [v1[o] EXCEPT !.lines[i][unit] = cost]]
    BY <2>1 DEF Books!ToBook
  <2>3. PICK y, lines : y = v1[o] /\ o \in Orders /\ lines = y.lines /\ lines \in Seq(BookLine)
    BY <1>0, <1>3
  <2>4. PICK x : x = [y EXCEPT !.lines[i][unit] = cost]
    OBVIOUS
  <2>5. v1' = [v1 EXCEPT ![o] = x]
    BY <2>2, <2>3, <2>4
  <2>6. PICK line \in BookLine : line = lines[i]
    BY <2>1, <2>3
  <2>7. PICK new : new = [line EXCEPT ![unit] = cost]
    OBVIOUS
  <2>8. new \in BookLine
    BY <2>6, <2>7, BooksAssumption DEF BookLine
  <2>9. PICK later : later = [lines EXCEPT ![i] = new]
    OBVIOUS
  <2>10. later \in Seq(BookLine)
    BY <2>1, <2>3, <2>8, <2>9
  <2>11. x = [y EXCEPT !.lines = later]
    BY <2>3, <2>4, <2>6, <2>7, <2>9
  <2>12. x = [currency |-> y.currency, revenue |-> y.revenue, lines |-> later,
             status |-> y.status, financial |-> y.financial, cancelled |-> y.cancelled,
             made |-> y.made, parcels |-> y.parcels]
    <3>1. BookOrder(y)
      BY <2>3 DEF BooksInv
    <3> QED BY <2>11, <3>1 DEF BookOrder
  <2>13. x.lines = later /\ x.financial = y.financial /\ x.cancelled = y.cancelled
        /\ x.parcels = y.parcels
    BY <2>12
  <2> QED BY <1>2, <2>3, <2>5, <2>10, <2>12, <2>13
<1>8. ASSUME NEW s \in Slots, Books!ReadAndMerge(s) \/ Books!WriteSettings(s) PROVE BooksInv'
  <2>1. v1' = v1
    BY <1>8 DEF Books!ReadAndMerge, Books!WriteSettings
  <2> QED BY <2>1 DEF BooksInv, BookOrder
<1> QED BY <1>1, <1>4, <1>5, <1>6, <1>7, <1>8, Zenon DEF Books!DropNext

LEMMA BooksStart == Books!DropInit => BooksInv
<1> SUFFICES ASSUME Books!DropInit PROVE BooksInv
  OBVIOUS
<1>1. v1 = [o \in Orders |-> Books!NoOrder]
  BY DEF Books!DropInit
<1>2. BookOrder(Books!NoOrder)
  <2>1. <<>> \in Seq(BookLine)
    OBVIOUS
  <2> QED BY <2>1 DEF BookOrder, Books!NoOrder
<1>3. PICK x : x = Books!NoOrder
  OBVIOUS
<1> QED BY <1>1, <1>2, <1>3 DEF BooksInv

LEMMA BooksRest == BooksInv /\ v1' = v1 => BooksInv'
BY DEF BooksInv, BookOrder

-----------------------------------------------------------------------------
(* The verdicts of the research.                                           *)

\* The sums of the research, as sums of functions.
LEMMA CountSum ==
    ASSUME NEW batches, NEW S, S = batches, IsFiniteSet(S),
           NEW f, \A x \in S : f[x] = Size[x]
    PROVE  Candidates!CountOf(batches) = Total(f, S)
<1> DEFINE term(x) == Size[x]
           Is(iter) == iter = [s \in SUBSET S |->
                                 IF s = {} THEN 0
                                 ELSE term(CHOOSE x \in s : TRUE)
                                      + iter[s \ {CHOOSE x \in s : TRUE}]]
           G == CHOOSE iter : Is(iter)
<1>1. Candidates!CountOf(batches) = G[S]
  BY Zenon DEF Candidates!CountOf, Candidates!MapThenSumSet, Candidates!MapThenFoldSet
<1>2. \A iter : Is(iter) <=> Sums(iter, f, S)
  <2>1. \A s \in SUBSET S : s # {} => f[CHOOSE x \in s : TRUE] = term(CHOOSE x \in s : TRUE)
    <3> HIDE DEF term
    <3> QED BY FirstIn DEF First, term
  <2> HIDE DEF term
  <2> QED BY <2>1 DEF Sums, First
<1> HIDE DEF Is
<1>3. \A g : Sums(g, f, S) => Sums(G, f, S)
  BY <1>2, Zenon
<1> HIDE DEF G
<1> QED BY <1>1, <1>3, SumChosen

LEMMA FitWeightSum ==
    ASSUME NEW parts, NEW S, S = parts, IsFiniteSet(S),
           NEW f, \A x \in S : f[x] = x[3]
    PROVE  Candidates!WeightOf(parts) = Total(f, S)
<1> DEFINE term(x) == x[3]
           Is(iter) == iter = [s \in SUBSET S |->
                                 IF s = {} THEN 0
                                 ELSE term(CHOOSE x \in s : TRUE)
                                      + iter[s \ {CHOOSE x \in s : TRUE}]]
           G == CHOOSE iter : Is(iter)
<1>1. Candidates!WeightOf(parts) = G[S]
  BY Zenon DEF Candidates!WeightOf, Candidates!MapThenSumSet, Candidates!MapThenFoldSet
<1>2. \A iter : Is(iter) <=> Sums(iter, f, S)
  <2>1. \A s \in SUBSET S : s # {} => f[CHOOSE x \in s : TRUE] = term(CHOOSE x \in s : TRUE)
    BY FirstIn DEF First
  <2> HIDE DEF term
  <2> QED BY <2>1 DEF Sums, First
<1> HIDE DEF Is
<1>3. \A g : Sums(g, f, S) => Sums(G, f, S)
  BY <1>2, Zenon
<1> HIDE DEF G
<1> QED BY <1>1, <1>3, SumChosen

LEMMA FitPointsSum ==
    ASSUME NEW parts, NEW S, S = parts, IsFiniteSet(S),
           NEW f, \A x \in S : f[x] = x[2] * x[3]
    PROVE  Candidates!PointsOf(parts) = Total(f, S)
<1> DEFINE term(x) == x[2] * x[3]
           Is(iter) == iter = [s \in SUBSET S |->
                                 IF s = {} THEN 0
                                 ELSE term(CHOOSE x \in s : TRUE)
                                      + iter[s \ {CHOOSE x \in s : TRUE}]]
           G == CHOOSE iter : Is(iter)
<1>1. Candidates!PointsOf(parts) = G[S]
  BY Zenon DEF Candidates!PointsOf, Candidates!MapThenSumSet, Candidates!MapThenFoldSet
<1>2. \A iter : Is(iter) <=> Sums(iter, f, S)
  <2>1. \A s \in SUBSET S : s # {} => f[CHOOSE x \in s : TRUE] = term(CHOOSE x \in s : TRUE)
    BY FirstIn DEF First
  <2> HIDE DEF term
  <2> QED BY <2>1 DEF Sums, First
<1> HIDE DEF Is
<1>3. \A g : Sums(g, f, S) => Sums(G, f, S)
  BY <1>2, Zenon
<1> HIDE DEF G
<1> QED BY <1>1, <1>3, SumChosen

LEMMA ScoredWeightSum ==
    ASSUME NEW scores, NEW S, S = Candidates!ScoredOf(scores), IsFiniteSet(S),
           NEW f, \A x \in S : f[x] = Candidates!DefaultScoreWeights[x]
    PROVE  Candidates!ScoredWeight(scores) = Total(f, S)
<1> DEFINE term(x) == Candidates!DefaultScoreWeights[x]
           Is(iter) == iter = [s \in SUBSET S |->
                                 IF s = {} THEN 0
                                 ELSE term(CHOOSE x \in s : TRUE)
                                      + iter[s \ {CHOOSE x \in s : TRUE}]]
           G == CHOOSE iter : Is(iter)
<1>1. Candidates!ScoredWeight(scores) = G[S]
  BY Zenon DEF Candidates!ScoredWeight, Candidates!MapThenSumSet, Candidates!MapThenFoldSet
<1>2. \A iter : Is(iter) <=> Sums(iter, f, S)
  <2>1. \A s \in SUBSET S : s # {} => f[CHOOSE x \in s : TRUE] = term(CHOOSE x \in s : TRUE)
    BY FirstIn DEF First
  <2> HIDE DEF term
  <2> QED BY <2>1 DEF Sums, First
<1> HIDE DEF Is
<1>3. \A g : Sums(g, f, S) => Sums(G, f, S)
  BY <1>2, Zenon
<1> HIDE DEF G
<1> QED BY <1>1, <1>3, SumChosen

LEMMA ScoredPointsSum ==
    ASSUME NEW scores, NEW S, S = Candidates!ScoredOf(scores), IsFiniteSet(S),
           NEW f, \A x \in S : f[x] = scores[x].value * Candidates!DefaultScoreWeights[x]
    PROVE  Candidates!ScoredPoints(scores) = Total(f, S)
<1> DEFINE term(x) == scores[x].value * Candidates!DefaultScoreWeights[x]
           Is(iter) == iter = [s \in SUBSET S |->
                                 IF s = {} THEN 0
                                 ELSE term(CHOOSE x \in s : TRUE)
                                      + iter[s \ {CHOOSE x \in s : TRUE}]]
           G == CHOOSE iter : Is(iter)
<1>1. Candidates!ScoredPoints(scores) = G[S]
  BY Zenon DEF Candidates!ScoredPoints, Candidates!MapThenSumSet, Candidates!MapThenFoldSet
<1>2. \A iter : Is(iter) <=> Sums(iter, f, S)
  <2>1. \A s \in SUBSET S : s # {} => f[CHOOSE x \in s : TRUE] = term(CHOOSE x \in s : TRUE)
    BY FirstIn DEF First
  <2> HIDE DEF term
  <2> QED BY <2>1 DEF Sums, First
<1> HIDE DEF Is
<1>3. \A g : Sums(g, f, S) => Sums(G, f, S)
  BY <1>2, Zenon
<1> HIDE DEF G
<1> QED BY <1>1, <1>3, SumChosen

LEMMA CoveredSum ==
    ASSUME NEW scores, NEW S, S = Candidates!ScoredOf(scores), IsFiniteSet(S),
           NEW f, \A x \in S : f[x] = Candidates!CoverageWeight(x)
    PROVE  Candidates!Covered(scores) = Total(f, S)
<1> DEFINE term(x) == Candidates!CoverageWeight(x)
           Is(iter) == iter = [s \in SUBSET S |->
                                 IF s = {} THEN 0
                                 ELSE term(CHOOSE x \in s : TRUE)
                                      + iter[s \ {CHOOSE x \in s : TRUE}]]
           G == CHOOSE iter : Is(iter)
<1>1. Candidates!Covered(scores) = G[S]
  BY Zenon DEF Candidates!Covered, Candidates!MapThenSumSet, Candidates!MapThenFoldSet
<1>2. \A iter : Is(iter) <=> Sums(iter, f, S)
  <2>1. \A s \in SUBSET S : s # {} => f[CHOOSE x \in s : TRUE] = term(CHOOSE x \in s : TRUE)
    BY FirstIn DEF First
  <2> HIDE DEF term
  <2> QED BY <2>1 DEF Sums, First
<1> HIDE DEF Is
<1>3. \A g : Sums(g, f, S) => Sums(G, f, S)
  BY <1>2, Zenon
<1> HIDE DEF G
<1> QED BY <1>1, <1>3, SumChosen

LEMMA WholeSum ==
    ASSUME NEW S, S = Candidates!Factors, IsFiniteSet(S),
           NEW f, \A x \in S : f[x] = Candidates!CoverageWeight(x)
    PROVE  Candidates!Total = Total(f, S)
<1> DEFINE term(x) == Candidates!CoverageWeight(x)
           Is(iter) == iter = [s \in SUBSET S |->
                                 IF s = {} THEN 0
                                 ELSE term(CHOOSE x \in s : TRUE)
                                      + iter[s \ {CHOOSE x \in s : TRUE}]]
           G == CHOOSE iter : Is(iter)
<1>1. Candidates!Total = G[S]
  BY Zenon DEF Candidates!Total, Candidates!MapThenSumSet, Candidates!MapThenFoldSet
<1>2. \A iter : Is(iter) <=> Sums(iter, f, S)
  <2>1. \A s \in SUBSET S : s # {} => f[CHOOSE x \in s : TRUE] = term(CHOOSE x \in s : TRUE)
    BY FirstIn DEF First
  <2> HIDE DEF term
  <2> QED BY <2>1 DEF Sums, First
<1> HIDE DEF Is
<1>3. \A g : Sums(g, f, S) => Sums(G, f, S)
  BY <1>2, Zenon
<1> HIDE DEF G
<1> QED BY <1>1, <1>3, SumChosen

LEMMA ObservedSum ==
    ASSUME NEW scores, NEW S, S = Candidates!ScoredOf(scores), IsFiniteSet(S),
           NEW f, \A x \in S : f[x] = Candidates!ConfidencePoints[scores[x].confidence] * Candidates!CoverageWeight(x)
    PROVE  Candidates!Observed(scores) = Total(f, S)
<1> DEFINE term(x) == Candidates!ConfidencePoints[scores[x].confidence] * Candidates!CoverageWeight(x)
           Is(iter) == iter = [s \in SUBSET S |->
                                 IF s = {} THEN 0
                                 ELSE term(CHOOSE x \in s : TRUE)
                                      + iter[s \ {CHOOSE x \in s : TRUE}]]
           G == CHOOSE iter : Is(iter)
<1>1. Candidates!Observed(scores) = G[S]
  BY Zenon DEF Candidates!Observed, Candidates!MapThenSumSet, Candidates!MapThenFoldSet
<1>2. \A iter : Is(iter) <=> Sums(iter, f, S)
  <2>1. \A s \in SUBSET S : s # {} => f[CHOOSE x \in s : TRUE] = term(CHOOSE x \in s : TRUE)
    BY FirstIn DEF First
  <2> HIDE DEF term
  <2> QED BY <2>1 DEF Sums, First
<1> HIDE DEF Is
<1>3. \A g : Sums(g, f, S) => Sums(G, f, S)
  BY <1>2, Zenon
<1> HIDE DEF G
<1> QED BY <1>1, <1>3, SumChosen

\* f says of each factor of S how current its figure is
Ages(f, scores, S) == \A x \in S : f[x] = Candidates!FreshnessPoints[scores[x].freshness]

LEMMA CurrentSum ==
    ASSUME NEW scores, NEW S, S = Candidates!ScoredOf(scores), IsFiniteSet(S),
           NEW f, Ages(f, scores, S)
    PROVE  Candidates!Current(scores) = Total(f, S)
<1> DEFINE term(x) == Candidates!FreshnessPoints[scores[x].freshness]
           Is(iter) == iter = [s \in SUBSET S |->
                                 IF s = {} THEN 0
                                 ELSE term(CHOOSE x \in s : TRUE)
                                      + iter[s \ {CHOOSE x \in s : TRUE}]]
           G == CHOOSE iter : Is(iter)
<1>1. Candidates!Current(scores) = G[S]
  BY Zenon DEF Candidates!Current, Candidates!MapThenSumSet, Candidates!MapThenFoldSet
<1>2. \A iter : Is(iter) <=> Sums(iter, f, S)
  <2>1. \A s \in SUBSET S : s # {} => f[CHOOSE x \in s : TRUE] = term(CHOOSE x \in s : TRUE)
    BY FirstIn DEF Ages, First
  <2> HIDE DEF term
  <2> QED BY <2>1 DEF Sums, First
<1> HIDE DEF Is
<1>3. \A g : Sums(g, f, S) => Sums(G, f, S)
  BY <1>2, Zenon
<1> HIDE DEF G
<1> QED BY <1>1, <1>3, SumChosen

LEMMA TotalGrows ==
    ASSUME NEW f, NEW h, NEW S, IsFiniteSet(S),
           \A x \in S : f[x] \in Int /\ h[x] \in Int /\ f[x] <= h[x]
    PROVE  Total(f, S) <= Total(h, S)
<1> DEFINE d == [x \in S |-> h[x] - f[x]]
<1>1. \A x \in S : f[x] \in Int /\ d[x] \in Int /\ h[x] = f[x] + d[x]
  OBVIOUS
<1>2. \A x \in S : d[x] \in Nat
  OBVIOUS
<1> HIDE DEF d
<1>3. Total(h, S) = Total(f, S) + Total(d, S)
  BY <1>1, TotalOfSum
<1>4. Total(d, S) \in Nat
  BY <1>2, TotalIsNat
<1>5. Total(f, S) \in Int
  BY <1>1, TotalIsInt
<1> QED BY <1>3, <1>4, <1>5

\* A rounded quotient grows with what is divided.
LEMMA RoundedGrows ==
    ASSUME NEW a \in Int, NEW c \in Int, a <= c, NEW b \in Int, b > 0
    PROVE  /\ Candidates!Rounded(a, b) \in Int /\ Candidates!Rounded(c, b) \in Int
           /\ Candidates!Rounded(a, b) <= Candidates!Rounded(c, b)
<1>1. PICK d \in Int : d = 2 * b
  OBVIOUS
<1>2. PICK x \in Int : x = 2 * a + b
  OBVIOUS
<1>3. PICK y \in Int : y = 2 * c + b
  OBVIOUS
<1>4. d > 0 /\ x <= y
  BY <1>1, <1>2, <1>3
<1>5. x \div d \in Int /\ y \div d \in Int /\ x \div d <= y \div d
  BY <1>4
<1> QED BY <1>1, <1>2, <1>3, <1>5 DEF Candidates!Rounded

LEMMA LeastOf ==
    ASSUME NEW S, S \subseteq Nat, S # {} PROVE Candidates!Min(S) \in S
<1>1. PICK m \in S : \A n \in S : m <= n
  BY Least
<1> QED BY <1>1 DEF Candidates!Min

\* Of finitely many numbers
LEMMA GreatestOf ==
    ASSUME NEW S, S \subseteq Int, IsFiniteSet(S), S # {}
    PROVE  Candidates!Max(S) \in S
<1> DEFINE Bad == {T \in SUBSET S : T # {} /\ ~ \E m \in T : \A n \in T : m >= n}
<1>1. Bad = {}
  <2> SUFFICES ASSUME Bad # {} PROVE FALSE
    OBVIOUS
  <2>1. PICK T \in Bad : \A x \in T : T \ {x} \notin Bad
    <3>1. Bad \subseteq SUBSET S
      OBVIOUS
    <3> HIDE DEF Bad
    <3> QED BY <3>1, SmallestSet
  <2>2. T \in SUBSET S /\ T # {} /\ ~ \E m \in T : \A n \in T : m >= n
    OBVIOUS
  <2>3. PICK x \in T : x \in Int
    BY <2>2
  <2>4. T \ {x} # {}
    <3> SUFFICES ASSUME T \ {x} = {} PROVE FALSE
      OBVIOUS
    <3>1. \A n \in T : x >= n
      BY <2>3
    <3> QED BY <2>2, <3>1
  <2>5. T \ {x} \in SUBSET S /\ T \ {x} \notin Bad
    BY <2>1, <2>2
  <2>6. PICK m \in T \ {x} : \A n \in T \ {x} : m >= n
    BY <2>4, <2>5
  <2>7. m \in Int /\ \A n \in T : n \in Int
    BY <2>2
  <2>8. CASE m >= x
    <3>1. m \in T /\ \A n \in T : m >= n
      BY <2>6, <2>8
    <3> QED BY <2>2, <3>1
  <2>9. CASE ~(m >= x)
    <3>1. x \in T /\ \A n \in T : x >= n
      BY <2>3, <2>6, <2>7, <2>9
    <3> QED BY <2>2, <3>1
  <2> QED BY <2>8, <2>9
<1>2. S \notin Bad
  BY <1>1
<1>3. \E m \in S : \A n \in S : m >= n
  BY <1>2
<1> QED BY <1>3 DEF Candidates!Max

LEMMA OnlyOne == ASSUME NEW a \in Int PROVE Candidates!Min({a}) = a
<1>1. \E x \in {a} : \A y \in {a} : x <= y
  OBVIOUS
<1> QED BY <1>1 DEF Candidates!Min

-----------------------------------------------------------------------------
\* A band is worth a natural number of points, whichever a value falls into.
Bands(bands) == DOMAIN bands \subseteq Nat /\ \A i \in DOMAIN bands : bands[i][2] \in Nat

LEMMA BandIs ==
    ASSUME NEW value, NEW bands, Bands(bands), NEW fallback \in Nat
    PROVE  /\ Candidates!BandScore(value, bands, fallback) \in Nat
           /\ Candidates!InverseBandScore(value, bands, fallback) \in Nat
<1>1. PICK over, under : /\ over = {i \in DOMAIN bands : value >= bands[i][1]}
                         /\ under = {i \in DOMAIN bands : value <= bands[i][1]}
  OBVIOUS
<1>2. over \subseteq DOMAIN bands /\ under \subseteq DOMAIN bands
  BY <1>1
<1>3. /\ over # {} => Candidates!Min(over) \in DOMAIN bands
      /\ under # {} => Candidates!Min(under) \in DOMAIN bands
  BY <1>2, LeastOf DEF Bands
<1>4. /\ Candidates!BandScore(value, bands, fallback) =
            IF over = {} THEN fallback ELSE bands[Candidates!Min(over)][2]
      /\ Candidates!InverseBandScore(value, bands, fallback) =
            IF under = {} THEN fallback ELSE bands[Candidates!Min(under)][2]
  BY <1>1, Zenon DEF Candidates!BandScore, Candidates!InverseBandScore
<1> QED BY <1>3, <1>4 DEF Bands

LEMMA AllBands ==
    /\ Bands(Candidates!VolumeBands) /\ Bands(Candidates!MomentumBands)
    /\ Bands(Candidates!MarginBands) /\ Bands(Candidates!CompetitionBands)
    /\ Bands(Candidates!TransitBands) /\ Bands(Candidates!DelayBands)
    /\ Bands(Candidates!RefundBands)
<1>1. Bands(Candidates!VolumeBands)
  BY DEF Bands, Candidates!VolumeBands
<1>2. Bands(Candidates!MomentumBands)
  BY DEF Bands, Candidates!MomentumBands
<1>3. Bands(Candidates!MarginBands)
  BY DEF Bands, Candidates!MarginBands
<1>4. Bands(Candidates!CompetitionBands)
  BY DEF Bands, Candidates!CompetitionBands
<1>5. Bands(Candidates!TransitBands)
  BY DEF Bands, Candidates!TransitBands
<1>6. Bands(Candidates!DelayBands)
  BY DEF Bands, Candidates!DelayBands
<1>7. Bands(Candidates!RefundBands)
  BY DEF Bands, Candidates!RefundBands
<1> QED BY <1>1, <1>2, <1>3, <1>4, <1>5, <1>6, <1>7

-----------------------------------------------------------------------------
\* What a factor is worth at one time and at a later one: as sure, not fresher, and not
\* more, but where it weighs nothing.
NotFresher(a, b) ==
    /\ Candidates!FreshnessPoints[a] \in 0..100 /\ Candidates!FreshnessPoints[b] \in 0..100
    /\ Candidates!FreshnessPoints[b] <= Candidates!FreshnessPoints[a]

Fades(weight, a, b) ==
    /\ a.value \in Nat \cup {-1000} /\ b.value \in Nat \cup {-1000}
    /\ a.value = -1000 <=> b.value = -1000
    /\ weight = 0 \/ b.value <= a.value
    /\ a.confidence = b.confidence /\ a.confidence \in {"KNOWN", "ESTIMATED", "UNKNOWN"}
    /\ NotFresher(a.freshness, b.freshness)

LEMMA Freshnesses ==
    /\ NotFresher("FRESH", "FRESH") /\ NotFresher("FRESH", "AGING") /\ NotFresher("FRESH", "STALE")
    /\ NotFresher("AGING", "AGING") /\ NotFresher("AGING", "STALE") /\ NotFresher("STALE", "STALE")
    /\ NotFresher("UNKNOWN", "UNKNOWN")
BY DEF NotFresher, Candidates!FreshnessPoints

LEMMA EvidenceAges ==
    ASSUME NEW seen \in Int, NEW fresh \in Int, NEW aging \in Int,
           NEW at \in Int, NEW later \in Int, at <= later
    PROVE  NotFresher(Candidates!ResolveFreshness(seen, at, fresh, aging),
                      Candidates!ResolveFreshness(seen, later, fresh, aging))
<1>1. CASE seen = -1
  <2>1. /\ Candidates!ResolveFreshness(seen, at, fresh, aging) = "UNKNOWN"
        /\ Candidates!ResolveFreshness(seen, later, fresh, aging) = "UNKNOWN"
    BY <1>1 DEF Candidates!ResolveFreshness, Candidates!Never
  <2> QED BY <2>1, Freshnesses
<1>2. CASE seen # -1
  <2>1. PICK a \in Int : a = at - seen
    OBVIOUS
  <2>2. PICK b \in Int : b = later - seen
    OBVIOUS
  <2>3. a <= b
    BY <2>1, <2>2
  <2>4. /\ Candidates!ResolveFreshness(seen, at, fresh, aging) =
             IF a <= fresh THEN "FRESH" ELSE IF a <= aging THEN "AGING" ELSE "STALE"
        /\ Candidates!ResolveFreshness(seen, later, fresh, aging) =
             IF b <= fresh THEN "FRESH" ELSE IF b <= aging THEN "AGING" ELSE "STALE"
    BY <1>2, <2>1, <2>2 DEF Candidates!ResolveFreshness, Candidates!Never
  <2>5. CASE a <= fresh
    BY <2>4, <2>5, Freshnesses
  <2>6. CASE ~(a <= fresh) /\ a <= aging
    <3>1. ~(b <= fresh)
      BY <2>3, <2>6
    <3> QED BY <2>4, <2>6, <3>1, Freshnesses
  <2>7. CASE ~(a <= fresh) /\ ~(a <= aging)
    <3>1. ~(b <= fresh) /\ ~(b <= aging)
      BY <2>3, <2>7
    <3> QED BY <2>4, <2>7, <3>1, Freshnesses
  <2> QED BY <2>5, <2>6, <2>7
<1> QED BY <1>1, <1>2

Kinds == {"TREND", "KEYWORD_METRICS", "SUPPLIER_COST", "STORE_PERFORMANCE", "FULFILLMENT_HISTORY"}

LEMMA UnscoredFades == ASSUME NEW w PROVE Fades(w, Candidates!Unscored, Candidates!Unscored)
BY Freshnesses DEF Fades, Candidates!Unscored, Candidates!Absent

\* A factor scored from evidence seen at one time
LEMMA ScoredFades ==
    ASSUME NEW w, NEW kind \in Kinds, NEW seen \in Int,
           NEW at \in Int, NEW later \in Int, at <= later,
           NEW v \in Nat, NEW value \in Nat, w = 0 \/ value <= v,
           NEW sure \in {"KNOWN", "ESTIMATED", "UNKNOWN"}
    PROVE  Fades(w, Candidates!Scored(v, sure, seen, kind, at),
                    Candidates!Scored(value, sure, seen, kind, later))
<1>1. PICK fresh \in Int, aging \in Int :
         /\ fresh = Candidates!FreshnessPolicies[kind][1]
         /\ aging = Candidates!FreshnessPolicies[kind][2]
  BY DEF Kinds, Candidates!FreshnessPolicies
<1>2. PICK a, b : /\ a = Candidates!ResolveFreshness(seen, at, fresh, aging)
                  /\ b = Candidates!ResolveFreshness(seen, later, fresh, aging)
  OBVIOUS
<1>3. NotFresher(a, b)
  BY <1>2, EvidenceAges
<1>4. /\ Candidates!Scored(v, sure, seen, kind, at) =
            [value |-> v, confidence |-> sure, freshness |-> a]
      /\ Candidates!Scored(value, sure, seen, kind, later) =
            [value |-> value, confidence |-> sure, freshness |-> b]
  BY <1>1, <1>2 DEF Candidates!Scored
<1> QED BY <1>3, <1>4 DEF Fades

\* A factor seen now, each time
LEMMA SeenNowFades ==
    ASSUME NEW w, NEW kind \in Kinds, NEW at \in Int, NEW later \in Int,
           at # -1, later # -1,
           NEW v \in Nat, NEW value \in Nat, w = 0 \/ value <= v,
           NEW sure \in {"KNOWN", "ESTIMATED", "UNKNOWN"}
    PROVE  Fades(w, Candidates!Scored(v, sure, at, kind, at),
                    Candidates!Scored(value, sure, later, kind, later))
<1>1. PICK fresh \in Nat, aging \in Int :
         /\ fresh = Candidates!FreshnessPolicies[kind][1]
         /\ aging = Candidates!FreshnessPolicies[kind][2]
  BY DEF Kinds, Candidates!FreshnessPolicies
<1>2. /\ Candidates!ResolveFreshness(at, at, fresh, aging) = "FRESH"
      /\ Candidates!ResolveFreshness(later, later, fresh, aging) = "FRESH"
  BY DEF Candidates!ResolveFreshness, Candidates!Never
<1>3. /\ Candidates!Scored(v, sure, at, kind, at) =
            [value |-> v, confidence |-> sure, freshness |-> "FRESH"]
      /\ Candidates!Scored(value, sure, later, kind, later) =
            [value |-> value, confidence |-> sure, freshness |-> "FRESH"]
  BY <1>1, <1>2 DEF Candidates!Scored
<1> QED BY <1>3, Freshnesses DEF Fades

-----------------------------------------------------------------------------
\* The figures and the offer, as they were typed
Figures == v1 \in Entries /\ v2 \in Offers

LEMMA Dates == ASSUME Figures PROVE v1.observedAt \in Int /\ v2.observedAt \in Int
BY ResearchAssumption DEF Figures

LEMMA TypedFades ==
    ASSUME Figures, NEW w, NEW figure, NEW value \in Nat, NEW kind \in Kinds,
           NEW at \in Int, NEW later \in Int, at <= later
    PROVE  Fades(w, Candidates!Typed(figure, value, kind, at),
                    Candidates!Typed(figure, value, kind, later))
<1>1. PICK match : match = Candidates!MatchGeography(v1)
  OBVIOUS
<1>2. PICK sure : sure = Candidates!ConfidenceForGeography(match)
  OBVIOUS
<1>3. sure \in {"KNOWN", "ESTIMATED", "UNKNOWN"}
  BY <1>2 DEF Candidates!ConfidenceForGeography
<1>4. /\ Candidates!Typed(figure, value, kind, at) =
            IF figure = Candidates!Absent \/ match = "MISMATCH" THEN Candidates!Unscored
            ELSE Candidates!Scored(value, sure, v1.observedAt, kind, at)
      /\ Candidates!Typed(figure, value, kind, later) =
            IF figure = Candidates!Absent \/ match = "MISMATCH" THEN Candidates!Unscored
            ELSE Candidates!Scored(value, sure, v1.observedAt, kind, later)
  BY <1>1, <1>2, Zenon DEF Candidates!Typed
<1>5. Fades(w, Candidates!Scored(value, sure, v1.observedAt, kind, at),
               Candidates!Scored(value, sure, v1.observedAt, kind, later))
  BY <1>3, Dates, ScoredFades
<1> QED BY <1>4, <1>5, UnscoredFades, Zenon

LEMMA TypedFactorsFade ==
    ASSUME Figures, NEW w, NEW at \in Int, NEW later \in Int, at <= later
    PROVE  /\ Fades(w, Candidates!ScoreDemand(at), Candidates!ScoreDemand(later))
           /\ Fades(w, Candidates!ScoreTrend(at), Candidates!ScoreTrend(later))
           /\ Fades(w, Candidates!ScoreCompetition(at), Candidates!ScoreCompetition(later))
           /\ Fades(w, Candidates!ScoreSeasonality(at), Candidates!ScoreSeasonality(later))
<1>1. PICK demand, trend, competition :
         /\ demand = Candidates!BandScore(v1.searches, Candidates!VolumeBands, 10)
         /\ trend = Candidates!BandScore(v1.momentum, Candidates!MomentumBands, 8)
         /\ competition = Candidates!InverseBandScore(v1.competition, Candidates!CompetitionBands,
              25)
  OBVIOUS
<1>2. demand \in Nat /\ trend \in Nat /\ competition \in Nat
  BY <1>1, AllBands, BandIs
<1>3. "TREND" \in Kinds /\ "KEYWORD_METRICS" \in Kinds
  BY DEF Kinds
<1>4. Fades(w, Candidates!ScoreDemand(at), Candidates!ScoreDemand(later))
  <2>1. Fades(w, Candidates!Typed(v1.searches, demand, "KEYWORD_METRICS", at),
                 Candidates!Typed(v1.searches, demand, "KEYWORD_METRICS", later))
    BY <1>2, <1>3, TypedFades
  <2> QED BY <1>1, <2>1, Zenon DEF Candidates!ScoreDemand
<1>5. Fades(w, Candidates!ScoreTrend(at), Candidates!ScoreTrend(later))
  <2>1. Fades(w, Candidates!Typed(v1.momentum, trend, "TREND", at),
                 Candidates!Typed(v1.momentum, trend, "TREND", later))
    BY <1>2, <1>3, TypedFades
  <2> QED BY <1>1, <2>1, Zenon DEF Candidates!ScoreTrend
<1>6. Fades(w, Candidates!ScoreCompetition(at), Candidates!ScoreCompetition(later))
  <2>1. Fades(w, Candidates!Typed(v1.competition, competition, "KEYWORD_METRICS", at),
                 Candidates!Typed(v1.competition, competition, "KEYWORD_METRICS", later))
    BY <1>2, <1>3, TypedFades
  <2> QED BY <1>1, <2>1, Zenon DEF Candidates!ScoreCompetition
<1>7. Fades(w, Candidates!ScoreSeasonality(at), Candidates!ScoreSeasonality(later))
  <2>1. CASE v1.season \notin DOMAIN Candidates!StateScores
    BY <2>1, UnscoredFades DEF Candidates!ScoreSeasonality
  <2>2. CASE v1.season \in DOMAIN Candidates!StateScores
    <3>1. PICK score : score = Candidates!StateScores[v1.season]
      OBVIOUS
    <3>2. score \in Nat
      BY <2>2, <3>1 DEF Candidates!StateScores
    <3>3. Fades(w, Candidates!Typed(0, score, "TREND", at),
              Candidates!Typed(0, score, "TREND", later))
      BY <1>3, <3>2, TypedFades
    <3> QED BY <2>2, <3>1, <3>3, Zenon DEF Candidates!ScoreSeasonality
  <2> QED BY <2>1, <2>2
<1> QED BY <1>4, <1>5, <1>6, <1>7

LEMMA OfferFactorsFade ==
    ASSUME Figures, NEW w, NEW at \in Nat, NEW later \in Nat, at <= later
    PROVE  /\ Fades(w, Candidates!ScoreShipping(at), Candidates!ScoreShipping(later))
           /\ Fades(w, Candidates!ScoreProfitability(at), Candidates!ScoreProfitability(later))
<1>1. PICK days, margin :
         /\ days = Candidates!InverseBandScore(v2.days, Candidates!TransitBands, 8)
         /\ margin = Candidates!BandScore(v2.margin, Candidates!MarginBands, 2)
  OBVIOUS
<1>2. days \in Nat /\ margin \in Nat
  BY <1>1, AllBands, BandIs
<1>3. "SUPPLIER_COST" \in Kinds /\ at \in Int /\ later \in Int /\ at # -1 /\ later # -1
  BY DEF Kinds
<1>4. /\ Fades(w, Candidates!Scored(days, "ESTIMATED", v2.observedAt, "SUPPLIER_COST", at),
                  Candidates!Scored(days, "ESTIMATED", v2.observedAt, "SUPPLIER_COST", later))
      /\ Fades(w, Candidates!Scored(margin, "ESTIMATED", v2.observedAt, "SUPPLIER_COST", at),
                  Candidates!Scored(margin, "ESTIMATED", v2.observedAt, "SUPPLIER_COST", later))
      /\ Fades(w, Candidates!Scored(margin, "ESTIMATED", at, "SUPPLIER_COST", at),
                  Candidates!Scored(margin, "ESTIMATED", later, "SUPPLIER_COST", later))
  <2>1. PICK sure \in {"KNOWN", "ESTIMATED", "UNKNOWN"} : sure = "ESTIMATED"
    OBVIOUS
  <2>2. PICK kind \in Kinds : kind = "SUPPLIER_COST"
    BY <1>3
  <2>3. PICK seen \in Int : seen = v2.observedAt
    BY Dates
  <2>4. Fades(w, Candidates!Scored(days, sure, seen, kind, at),
                 Candidates!Scored(days, sure, seen, kind, later))
    BY <1>2, <1>3, ScoredFades
  <2>5. Fades(w, Candidates!Scored(margin, sure, seen, kind, at),
                 Candidates!Scored(margin, sure, seen, kind, later))
    BY <1>2, <1>3, ScoredFades
  <2>6. Fades(w, Candidates!Scored(margin, sure, at, kind, at),
                 Candidates!Scored(margin, sure, later, kind, later))
    BY <1>2, <1>3, SeenNowFades
  <2> QED BY <2>1, <2>2, <2>3, <2>4, <2>5, <2>6, Zenon
<1>5. Fades(w, Candidates!ScoreShipping(at), Candidates!ScoreShipping(later))
  <2>1. \A t : Candidates!ScoreShipping(t) =
            IF v2.days = Candidates!Absent THEN Candidates!Unscored
            ELSE Candidates!Scored(days, "ESTIMATED", v2.observedAt, "SUPPLIER_COST", t)
    BY <1>1, Zenon DEF Candidates!ScoreShipping
  <2> QED BY <1>4, <2>1, UnscoredFades, Zenon
<1>6. Fades(w, Candidates!ScoreProfitability(at), Candidates!ScoreProfitability(later))
  <2>1. \A t : Candidates!ScoreProfitability(t) =
            IF v2.margin = Candidates!Absent THEN Candidates!Unscored
            ELSE Candidates!Scored(margin, "ESTIMATED",
                   IF v2.observedAt = -1 THEN t ELSE v2.observedAt, "SUPPLIER_COST", t)
    BY <1>1, Zenon DEF Candidates!ScoreProfitability, Candidates!Never
  <2>2. CASE v2.observedAt = -1
    BY <1>4, <2>1, <2>2, UnscoredFades, Zenon
  <2>3. CASE v2.observedAt # -1
    BY <1>4, <2>1, <2>3, UnscoredFades, Zenon
  <2> QED BY <2>2, <2>3
<1> QED BY <1>5, <1>6

-----------------------------------------------------------------------------
\* What an order of the store's history is: made at some time, with one parcel or none
HistoryOrder(x) ==
    /\ x.made \in Int
    /\ x.parcels = {} \/ \E f : x.parcels = {f} /\ f.eta \in Int /\ f.made \in Int

\* A late order stays late.
LEMMA DelaysStay ==
    ASSUME NEW x, HistoryOrder(x), NEW at \in Int, NEW later \in Int, at <= later
    PROVE  Candidates!DelaySignals(x, at) \subseteq Candidates!DelaySignals(x, later)
<1>1. PICK state, notes : state = Candidates!StateOf(x) /\ notes = Candidates!Notes(x)
  OBVIOUS
<1>2. PICK m \in Int : m = x.made
  BY DEF HistoryOrder
<1>3. \A t : Candidates!Overdue(x, t) <=>
               /\ Candidates!IsPaid(x.financial)
               /\ state \in {"AWAITING_SUPPLIER", "SUPPLIER_PROCESSING"}
               /\ t - m > 24
  BY <1>1, <1>2 DEF Candidates!Overdue, Candidates!Sla
<1>4. Candidates!Overdue(x, at) => Candidates!Overdue(x, later)
  BY <1>2, <1>3
<1>5. Candidates!Promised(x) # {} /\ at > Candidates!Min(Candidates!Promised(x))
          + Candidates!Sla.delivery
        => later > Candidates!Min(Candidates!Promised(x)) + Candidates!Sla.delivery
  <2>1. CASE x.parcels = {}
    BY <2>1 DEF Candidates!Promised
  <2>2. CASE x.parcels # {}
    <3>1. PICK f : x.parcels = {f} /\ f.eta \in Int
      BY <2>2 DEF HistoryOrder
    <3>2. PICK e \in Int : e = f.eta
      BY <3>1
    <3>3. Candidates!Promised(x) # {} => Candidates!Promised(x) = {e}
      BY <3>1, <3>2 DEF Candidates!Promised
    <3>4. Candidates!Min({e}) = e
      BY OnlyOne
    <3> QED BY <3>3, <3>4 DEF Candidates!Sla
  <2> QED BY <2>1, <2>2
<1>6. x.parcels # {} /\ at - Candidates!Min({f.made : f \in x.parcels}) > Candidates!Sla.tracking
        => later - Candidates!Min({f.made : f \in x.parcels}) > Candidates!Sla.tracking
  <2> SUFFICES ASSUME x.parcels # {}
               PROVE  at - Candidates!Min({f.made : f \in x.parcels}) > Candidates!Sla.tracking
                      => later - Candidates!Min({f.made :
                          f \in x.parcels}) > Candidates!Sla.tracking
    OBVIOUS
  <2>1. PICK f : x.parcels = {f} /\ f.made \in Int
    BY DEF HistoryOrder
  <2>2. PICK e \in Int : e = f.made
    BY <2>1
  <2>3. {p.made : p \in x.parcels} = {e}
    BY <2>1, <2>2
  <2>4. Candidates!Min({p.made : p \in x.parcels}) = e
    BY <2>3, OnlyOne
  <2>5. PICK k \in Int : k = Candidates!Sla.tracking
    BY DEF Candidates!Sla
  <2> QED BY <2>4, <2>5
<1>7. PICK watched : watched = (~Candidates!IsTerminal(state) /\ state # "ORDER_RECEIVED")
  OBVIOUS
<1>8. PICK fits : fits = (Candidates!TrackingNumbers(x) = {}
                            /\ Candidates!StateRank[state] >= Candidates!StateRank["FULFILLED"])
  OBVIOUS
<1> DEFINE Late(t) == Candidates!Promised(x) # {}
                        /\ t > Candidates!Min(Candidates!Promised(x)) + Candidates!Sla.delivery
           Untracked(t) == fits /\ x.parcels # {}
                        /\ t - Candidates!Min({f.made : f \in x.parcels}) > Candidates!Sla.tracking
<1>9. \A t : Candidates!DelaySignals(x, t) =
         notes \cup {s \in {"late"} : watched /\ Late(t)}
               \cup {s \in {"overdue"} : watched /\ Candidates!Overdue(x, t)}
               \cup {s \in {"untracked"} : watched /\ Untracked(t)}
  <2>1. \A t : Untracked(t) <=>
          (/\ Candidates!TrackingNumbers(x) = {} /\ x.parcels # {}
           /\ Candidates!StateRank[state] >= Candidates!StateRank["FULFILLED"]
           /\ t - Candidates!Min({f.made : f \in x.parcels}) > Candidates!Sla.tracking)
    BY <1>8, Zenon
  <2> HIDE DEF Untracked
  <2> QED BY <1>1, <1>7, <2>1, Zenon DEF Candidates!DelaySignals
<1>10. (Late(at) => Late(later)) /\ (Untracked(at) => Untracked(later))
  BY <1>5, <1>6, Zenon
<1> HIDE DEF Late, Untracked
<1> QED BY <1>4, <1>9, <1>10, Zenon

Ints(f, S) == \A x \in S : f[x] \in Int

Parts(S, P, R) == P \subseteq S /\ R = S \ P

LEMMA SumSplits ==
    ASSUME NEW f, NEW S, IsFiniteSet(S), Ints(f, S), NEW P, NEW R, Parts(S, P, R)
    PROVE  Total(f, S) = Total(f, P) + Total(f, R)
BY TotalSplits DEF Ints, Parts

LEMMA SumWithout ==
    ASSUME NEW f, NEW S, IsFiniteSet(S), Ints(f, S), NEW e \in S
    PROVE  Total(f, S) = f[e] + Total(f, S \ {e})
BY TotalWithout DEF Ints

History(book) == \A b \in Batches : book[b] = Candidates!Unsold \/ HistoryOrder(book[b])

LEMMA CountIs ==
    ASSUME NEW S, S \subseteq Batches, NEW T, T \subseteq S
    PROVE  /\ Candidates!CountOf(S) \in Nat /\ Candidates!CountOf(T) \in Nat
           /\ Candidates!CountOf(T) <= Candidates!CountOf(S)
           /\ S # {} <=> Candidates!CountOf(S) > 0
<1>1. \A b \in Batches : Size[b] \in Nat /\ Size[b] > 0
  BY ResearchAssumption
<1>2. IsFiniteSet(S) /\ IsFiniteSet(T) /\ IsFiniteSet(S \ T)
  BY ResearchAssumption, FS_Subset
<1>3. Candidates!CountOf(S) = Total(Size, S)
  BY <1>2, CountSum
<1>4. Candidates!CountOf(T) = Total(Size, T)
  BY <1>2, CountSum
<1>5. Total(Size, T) \in Nat /\ Total(Size, S \ T) \in Nat /\ Total(Size, S) \in Nat
  <2>1. \A b \in S : Size[b] \in Nat
    BY <1>1
  <2>2. \A b \in T : Size[b] \in Nat
    BY <1>1
  <2>3. \A b \in S \ T : Size[b] \in Nat
    BY <1>1
  <2> QED BY <1>2, <2>1, <2>2, <2>3, TotalIsNat
<1>6. Total(Size, S) = Total(Size, T) + Total(Size, S \ T)
  <2>1. Ints(Size, S)
    BY <1>1 DEF Ints
  <2>2. PICK R : R = S \ T
    OBVIOUS
  <2>3. Parts(S, T, R)
    BY <2>2 DEF Parts
  <2>4. Total(Size, S) = Total(Size, T) + Total(Size, R)
    BY <1>2, <2>1, <2>3, SumSplits
  <2> QED BY <2>2, <2>4
<1>7. S # {} => Total(Size, S) > 0
  <2> SUFFICES ASSUME NEW e \in S PROVE Total(Size, S) > 0
    OBVIOUS
  <2>1. Ints(Size, S)
    BY <1>1 DEF Ints
  <2>2. Total(Size, S) = Size[e] + Total(Size, S \ {e})
    BY <1>2, <2>1, SumWithout
  <2>3. \A b \in S \ {e} : Size[b] \in Nat
    BY <1>1
  <2>4. IsFiniteSet(S \ {e})
    BY <1>2, FS_Subset
  <2>5. Total(Size, S \ {e}) \in Nat
    BY <2>3, <2>4, TotalIsNat
  <2>6. Size[e] \in Nat /\ Size[e] > 0
    BY <1>1
  <2> QED BY <2>2, <2>5, <2>6
<1>8. S = {} => Total(Size, S) = 0
  BY TotalOfNone
<1> QED BY <1>3, <1>4, <1>5, <1>6, <1>7, <1>8

\* The orders a book has, and those that were to be fulfilled
LEMMA OrdersAre ==
    ASSUME NEW book
    PROVE  /\ Candidates!Fulfillable(book) \subseteq Candidates!Sold(book)
           /\ Candidates!Sold(book) \subseteq Batches
BY DEF Candidates!Fulfillable, Candidates!Sold

LEMMA RateGrows ==
    ASSUME NEW whole, whole \subseteq Batches, whole # {},
           NEW more, more \subseteq whole, NEW some, some \subseteq more
    PROVE  /\ Candidates!Rate(some, whole) \in Int /\ Candidates!Rate(more, whole) \in Int
           /\ Candidates!Rate(some, whole) <= Candidates!Rate(more, whole)
<1>1. PICK w \in Nat : w = Candidates!CountOf(whole) /\ w > 0
  BY CountIs
<1>2. PICK s \in Nat, m \in Nat :
         s = Candidates!CountOf(some) /\ m = Candidates!CountOf(more) /\ s <= m
  <2>1. more \subseteq Batches
    OBVIOUS
  <2> QED BY <2>1, CountIs
<1>3. PICK a \in Int, c \in Int : a = 1000 * s /\ c = 1000 * m
  OBVIOUS
<1>4. a <= c
  BY <1>2, <1>3
<1>5. /\ Candidates!Rounded(a, w) \in Int /\ Candidates!Rounded(c, w) \in Int
      /\ Candidates!Rounded(a, w) <= Candidates!Rounded(c, w)
  BY <1>1, <1>4, RoundedGrows
<1>6. /\ Candidates!Rate(some, whole) = Candidates!Rounded(a, w)
      /\ Candidates!Rate(more, whole) = Candidates!Rounded(c, w)
  <2>1. \A part : Candidates!Rate(part, whole) =
                    Candidates!Rounded(1000 * Candidates!CountOf(part), Candidates!CountOf(whole))
    BY Zenon DEF Candidates!Rate
  <2> QED BY <1>1, <1>2, <1>3, <2>1
<1> QED BY <1>5, <1>6

LEMMA RatesAre ==
    ASSUME NEW book, History(book), Candidates!Fulfillable(book) # {},
           NEW at \in Int, NEW later \in Int, at <= later
    PROVE  /\ Candidates!DelayRate(book, at) \in Int /\ Candidates!DelayRate(book, later) \in Int
           /\ Candidates!DelayRate(book, at) <= Candidates!DelayRate(book, later)
           /\ Candidates!RefundRate(book) \in Int
<1>1. PICK whole : whole = Candidates!Fulfillable(book)
  OBVIOUS
<1>2. whole \subseteq Batches /\ whole # {}
  BY <1>1, OrdersAre
<1>3. PICK some, more, back :
         /\ some = {b \in whole : Candidates!DelaySignals(book[b], at) # {}}
         /\ more = {b \in whole : Candidates!DelaySignals(book[b], later) # {}}
         /\ back = {b \in whole : Candidates!IsRefunded(book[b])}
  OBVIOUS
<1>4. some \subseteq more /\ more \subseteq whole /\ back \subseteq whole
  <2>1. ASSUME NEW b \in whole
        PROVE  Candidates!DelaySignals(book[b], at)
            \subseteq Candidates!DelaySignals(book[b], later)
    <3>1. HistoryOrder(book[b])
      BY <1>1, <1>2 DEF History, Candidates!Fulfillable, Candidates!Sold
    <3> QED BY <3>1, DelaysStay
  <2> QED BY <1>3, <2>1
<1>5. /\ Candidates!Rate(some, whole) \in Int /\ Candidates!Rate(more, whole) \in Int
      /\ Candidates!Rate(some, whole) <= Candidates!Rate(more, whole)
      /\ Candidates!Rate(back, whole) \in Int
  BY <1>2, <1>4, RateGrows
<1>6. /\ Candidates!DelayRate(book, at) = Candidates!Rate(some, whole)
      /\ Candidates!DelayRate(book, later) = Candidates!Rate(more, whole)
      /\ Candidates!RefundRate(book) = Candidates!Rate(back, whole)
  BY <1>1, <1>3, Zenon DEF Candidates!DelayRate, Candidates!RefundRate
<1> QED BY <1>5, <1>6

LEMMA SampleIsNotEmpty ==
    ASSUME NEW book, Candidates!SampleSuffices(book) PROVE Candidates!Fulfillable(book) # {}
<1>1. Candidates!CountOf(Candidates!Fulfillable(book)) >= 10
  BY DEF Candidates!SampleSuffices, Candidates!MinimumFulfillmentSample
<1> QED BY <1>1, OrdersAre, CountIs

LEMMA PenaltyGrows ==
    ASSUME NEW book, History(book), NEW at \in Int, NEW later \in Int, at <= later
    PROVE  /\ Candidates!FulfillmentPenalty(book, at) \in Int
           /\ Candidates!FulfillmentPenalty(book, later) \in Int
           /\ Candidates!FulfillmentPenalty(book, at) <= Candidates!FulfillmentPenalty(book, later)
<1>1. CASE ~Candidates!SampleSuffices(book)
  <2>1. Candidates!FulfillmentPenalty(book, at) = 0
            /\ Candidates!FulfillmentPenalty(book, later) = 0
    BY <1>1, Zenon DEF Candidates!FulfillmentPenalty
  <2> QED BY <2>1
<1>2. CASE Candidates!SampleSuffices(book)
  <2>1. PICK d \in Int, l \in Int, r \in Int :
           /\ d = Candidates!DelayRate(book, at) /\ l = Candidates!DelayRate(book, later)
           /\ r = Candidates!RefundRate(book) /\ d <= l
    BY <1>2, RatesAre, SampleIsNotEmpty
  <2>2. PICK a \in Int, b \in Int, c \in Int :
           /\ a = Candidates!Larger(0, d - 100) /\ b = Candidates!Larger(0, l - 100)
           /\ c = Candidates!Larger(0, r - 50) /\ a <= b
    BY <2>1 DEF Candidates!Larger
  <2>3. PICK x \in Int, y \in Int : x = 8 * a + 16 * c /\ y = 8 * b + 16 * c /\ x <= y
    BY <2>2
  <2>4. PICK p \in Int, q \in Int :
           p = Candidates!Rounded(x, 100) /\ q = Candidates!Rounded(y, 100) /\ p <= q
    BY <2>3, RoundedGrows
  <2>5. /\ Candidates!FulfillmentPenalty(book, at) = Candidates!Smaller(30, p)
        /\ Candidates!FulfillmentPenalty(book, later) = Candidates!Smaller(30, q)
    BY <1>2, <2>1, <2>2, <2>3, <2>4, Zenon
       DEF Candidates!FulfillmentPenalty, Candidates!MaxFulfillmentPenalty
  <2> QED BY <2>4, <2>5 DEF Candidates!Smaller
<1> QED BY <1>1, <1>2

LEMMA NewestIsInt ==
    ASSUME NEW book, History(book) PROVE Candidates!NewestOrderAt(book) \in Int
<1>1. PICK sold : sold = Candidates!Sold(book)
  OBVIOUS
<1>2. CASE sold = {}
  BY <1>1, <1>2 DEF Candidates!NewestOrderAt, Candidates!Never
<1>3. CASE sold # {}
  <2>1. sold \subseteq Batches /\ \A b \in sold : book[b].made \in Int
    <3>1. sold \subseteq Batches /\ \A b \in sold : book[b] # Candidates!Unsold
      BY <1>1 DEF Candidates!Sold
    <3> QED BY <3>1 DEF History, HistoryOrder
  <2>5. PICK S : S = {book[b].made : b \in sold}
    OBVIOUS
  <2>6. S \subseteq Int /\ S # {}
    BY <1>3, <2>1, <2>5
  <2>7. Candidates!Max(S) \in Int
    <3>1. IsFiniteSet(sold)
      BY <2>1, ResearchAssumption, FS_Subset
    <3>2. IsFiniteSet(S)
      <4> DEFINE made == [b \in sold |-> book[b].made]
      <4>1. made \in Surjection(sold, S)
        BY <2>5 DEF Surjection
      <4> QED BY <3>1, <4>1, FS_Surjection
    <3> QED BY <2>6, <3>2, GreatestOf
  <2>8. Candidates!NewestOrderAt(book) = Candidates!Max(S)
    BY <1>1, <1>3, <2>5, Zenon DEF Candidates!NewestOrderAt
  <2> QED BY <2>7, <2>8
<1> QED BY <1>2, <1>3

LEMMA QualityFades ==
    ASSUME NEW book, History(book), NEW at \in Int, NEW later \in Int, at <= later
    PROVE  Fades(0, Candidates!ScoreFulfillmentQuality(book, at),
                    Candidates!ScoreFulfillmentQuality(book, later))
<1>1. PICK seen \in Int : seen = Candidates!NewestOrderAt(book)
  BY NewestIsInt
<1> DEFINE Value(t) == Candidates!Rounded(
                Candidates!InverseBandScore(Candidates!DelayRate(book, t), Candidates!DelayBands,
                    10)
              + Candidates!InverseBandScore(Candidates!RefundRate(book), Candidates!RefundBands,
                  10), 2)
<1>2. \A t : Value(t) \in Nat
  <2> TAKE t
  <2>1. PICK a \in Nat : a = Candidates!InverseBandScore(Candidates!DelayRate(book, t),
                                                         Candidates!DelayBands, 10)
    BY AllBands, BandIs
  <2>2. PICK b \in Nat : b = Candidates!InverseBandScore(Candidates!RefundRate(book),
                                                         Candidates!RefundBands, 10)
    BY AllBands, BandIs
  <2>3. Value(t) = Candidates!Rounded(a + b, 2)
    BY <2>1, <2>2, Zenon
  <2>4. Candidates!Rounded(a + b, 2) \in Nat
    BY DEF Candidates!Rounded
  <2> QED BY <2>3, <2>4, Zenon
<1>3. \A t : Candidates!ScoreFulfillmentQuality(book, t) =
         IF ~Candidates!SampleSuffices(book) THEN Candidates!Unscored
         ELSE Candidates!Scored(Value(t), "KNOWN", seen, "FULFILLMENT_HISTORY", t)
  BY <1>1, Zenon DEF Candidates!ScoreFulfillmentQuality
<1>4. PICK a \in Nat, b \in Nat : a = Value(at) /\ b = Value(later)
  <2> HIDE DEF Value
  <2> QED BY <1>2
<1>5. PICK kind \in Kinds : kind = "FULFILLMENT_HISTORY"
  BY DEF Kinds
<1>6. PICK sure \in {"KNOWN", "ESTIMATED", "UNKNOWN"} : sure = "KNOWN"
  OBVIOUS
<1>7. Fades(0, Candidates!Scored(a, sure, seen, kind, at),
          Candidates!Scored(b, sure, seen, kind, later))
  BY ScoredFades
<1> HIDE DEF Value
<1>8. /\ Candidates!ScoreFulfillmentQuality(book, at) =
            IF ~Candidates!SampleSuffices(book) THEN Candidates!Unscored
            ELSE Candidates!Scored(a, sure, seen, kind, at)
      /\ Candidates!ScoreFulfillmentQuality(book, later) =
            IF ~Candidates!SampleSuffices(book) THEN Candidates!Unscored
            ELSE Candidates!Scored(b, sure, seen, kind, later)
  BY <1>3, <1>4, <1>5, <1>6
<1>9. Fades(0, Candidates!Unscored, Candidates!Unscored)
  BY UnscoredFades
<1> QED BY <1>7, <1>8, <1>9, Zenon

\* The parts of the store's fit have points and a weight each.
FitPart(p) == p[2] \in Nat /\ p[3] \in {1, 2}

LEMMA PartsAre ==
    ASSUME NEW book, NEW parts, parts = Candidates!FitParts(book)
    PROVE  /\ IsFiniteSet(parts) /\ \A p \in parts : FitPart(p)
           /\ \E p \in parts : p[3] = 2
<1>1. \E n \in Nat : Candidates!CategoryPart(book) = {<<"category", n, 2>>}
  <2>1. PICK n : n = IF Category.products = 0 THEN 45
                     ELSE Candidates!BandScore(Candidates!CountOf(Candidates!Sold(book)),
                                               <<<<100, 95>>, <<30, 85>>, <<5, 70>>>>, 55)
    OBVIOUS
  <2>2. n \in Nat
    <3>1. Bands(<<<<100, 95>>, <<30, 85>>, <<5, 70>>>>)
      BY DEF Bands
    <3> QED BY <2>1, <3>1, BandIs
  <2>3. Candidates!CategoryPart(book) = {<<"category", n, 2>>}
    BY <2>1, Zenon DEF Candidates!CategoryPart
  <2> QED BY <2>2, <2>3
<1>2. Candidates!PricePart = {} \/ \E n \in Nat : Candidates!PricePart = {<<"price", n, 2>>}
  <2>1. Candidates!PricePart \in {{}} \cup {{<<"price", n, 2>>} : n \in {92, 72, 50, 28}}
    BY DEF Candidates!PricePart
  <2> QED BY <2>1
<1>3. Candidates!RefundPart(book) = {} \/ \E n \in Nat :
          Candidates!RefundPart(book) = {<<"refunds", n, 1>>}
  <2>1. PICK n : n = Candidates!InverseBandScore(
            Candidates!Rate({b \in Candidates!Sold(book) : Candidates!IsRefunded(book[b])},
                            Candidates!Sold(book)), <<<<20, 95>>, <<50, 82>>, <<100, 60>>>>, 35)
    OBVIOUS
  <2>2. n \in Nat
    <3>1. Bands(<<<<20, 95>>, <<50, 82>>, <<100, 60>>>>)
      BY DEF Bands
    <3> QED BY <2>1, <3>1, BandIs
  <2>3. Candidates!RefundPart(book) = IF Candidates!Sold(book) = {} THEN {}
            ELSE {<<"refunds", n, 1>>}
    BY <2>1, Zenon DEF Candidates!RefundPart
  <2> QED BY <2>2, <2>3
<1>4. PICK c, q, r : /\ c = Candidates!CategoryPart(book) /\ q = Candidates!PricePart
                     /\ r = Candidates!RefundPart(book)
  OBVIOUS
<1>5. parts = c \cup q \cup r
  BY <1>4, Zenon DEF Candidates!FitParts
<1>6. IsFiniteSet(c) /\ (\A p \in c : FitPart(p)) /\ \E p \in c : p[3] = 2
  <2>1. PICK n \in Nat : c = {<<"category", n, 2>>}
    BY <1>1, <1>4
  <2>2. PICK p : p = <<"category", n, 2>>
    OBVIOUS
  <2>3. c = {p} /\ p[2] = n /\ p[3] = 2
    BY <2>1, <2>2
  <2> QED BY <2>3, FS_Singleton DEF FitPart
<1>7. IsFiniteSet(q) /\ \A p \in q : FitPart(p)
  <2>1. CASE q = {}
    BY <2>1, FS_EmptySet
  <2>2. CASE q # {}
    <3>1. PICK n \in Nat : q = {<<"price", n, 2>>}
      BY <1>2, <1>4, <2>2
    <3>2. PICK p : p = <<"price", n, 2>>
      OBVIOUS
    <3>3. q = {p} /\ p[2] = n /\ p[3] = 2
      BY <3>1, <3>2
    <3> QED BY <3>3, FS_Singleton DEF FitPart
  <2> QED BY <2>1, <2>2
<1>8. IsFiniteSet(r) /\ \A p \in r : FitPart(p)
  <2>1. CASE r = {}
    BY <2>1, FS_EmptySet
  <2>2. CASE r # {}
    <3>1. PICK n \in Nat : r = {<<"refunds", n, 1>>}
      BY <1>3, <1>4, <2>2
    <3>2. PICK p : p = <<"refunds", n, 1>>
      OBVIOUS
    <3>3. r = {p} /\ p[2] = n /\ p[3] = 1
      BY <3>1, <3>2
    <3> QED BY <3>3, FS_Singleton DEF FitPart
  <2> QED BY <2>1, <2>2
<1>9. IsFiniteSet(parts)
  BY <1>5, <1>6, <1>7, <1>8, FS_Union
<1> QED BY <1>5, <1>6, <1>7, <1>8, <1>9

LEMMA WeightsAre ==
    ASSUME NEW book, NEW parts, parts = Candidates!FitParts(book)
    PROVE  /\ Candidates!WeightOf(parts) \in Int /\ Candidates!WeightOf(parts) > 0
           /\ Candidates!PointsOf(parts) \in Int
<1> DEFINE weight == [p \in parts |-> p[3]]
           points == [p \in parts |-> p[2] * p[3]]
<1>1. IsFiniteSet(parts) /\ (\A p \in parts : FitPart(p)) /\ \E p \in parts : p[3] = 2
  BY PartsAre
<1>2. \A p \in parts : weight[p] = p[3] /\ points[p] = p[2] * p[3]
  OBVIOUS
<1>3. \A p \in parts : weight[p] \in Nat
  BY <1>1 DEF FitPart
<1>4. \A p \in parts : points[p] \in Nat
  <2> SUFFICES ASSUME NEW p \in parts PROVE points[p] \in Nat
    OBVIOUS
  <2>1. PICK a \in Nat, b \in Nat : a = p[2] /\ b = p[3]
    BY <1>1 DEF FitPart
  <2> QED BY <2>1
<1> HIDE DEF weight, points
<1>5. Candidates!WeightOf(parts) = Total(weight, parts)
  <2>1. \A p \in parts : weight[p] = p[3]
    BY <1>2
  <2> QED BY <1>1, <2>1, FitWeightSum
<1>6. Candidates!PointsOf(parts) = Total(points, parts)
  <2>1. \A p \in parts : points[p] = p[2] * p[3]
    BY <1>2
  <2> QED BY <1>1, <2>1, FitPointsSum
<1>7. Total(points, parts) \in Nat
  BY <1>1, <1>4, TotalIsNat
<1>8. PICK e \in parts : weight[e] = 2
  BY <1>1, <1>2
<1>9. Total(weight, parts) = weight[e] + Total(weight, parts \ {e})
  <2>1. Ints(weight, parts)
    BY <1>3 DEF Ints
  <2> QED BY <1>1, <2>1, SumWithout
<1>10. Total(weight, parts \ {e}) \in Nat
  <2>1. IsFiniteSet(parts \ {e})
    BY <1>1, FS_Subset
  <2>2. \A p \in parts \ {e} : weight[p] \in Nat
    BY <1>3
  <2> QED BY <2>1, <2>2, TotalIsNat
<1> QED BY <1>5, <1>6, <1>7, <1>8, <1>9, <1>10

LEMMA StoreFitFades ==
    ASSUME NEW book, History(book), NEW w, NEW at \in Nat, NEW later \in Nat, at <= later
    PROVE  Fades(w, Candidates!ScoreStoreFit(book, at), Candidates!ScoreStoreFit(book, later))
<1>1. PICK parts : parts = Candidates!FitParts(book)
  OBVIOUS
<1>2. PICK heavy \in Int, points \in Int :
         heavy = Candidates!WeightOf(parts) /\ points = Candidates!PointsOf(parts) /\ heavy > 0
  BY <1>1, WeightsAre
<1>3. PICK p \in Int, q \in Int : /\ p = Candidates!FulfillmentPenalty(book, at)
                                  /\ q = Candidates!FulfillmentPenalty(book, later) /\ p <= q
  BY PenaltyGrows
<1>4. PICK a \in Int, b \in Int : a = points - p * heavy /\ b = points - q * heavy /\ b <= a
  <2>1. PICK d \in Nat : q = p + d
    <3>1. PICK d \in Int : d = q - p
      BY <1>3
    <3>2. d \in Nat /\ q = p + d
      BY <1>3, <3>1
    <3> QED BY <3>2
  <2>2. d * heavy \in Nat /\ p * heavy \in Int /\ q * heavy = p * heavy + d * heavy
    BY <1>2, <2>1
  <2> QED BY <2>2
<1>5. PICK x \in Int, y \in Int :
         x = Candidates!Rounded(a, heavy) /\ y = Candidates!Rounded(b, heavy) /\ y <= x
  BY <1>2, <1>4, RoundedGrows
<1>6. PICK u \in Nat, v \in Nat : u = Candidates!Larger(0, x) /\ v = Candidates!Larger(0, y)
          /\ v <= u
  BY <1>5 DEF Candidates!Larger
<1>7. PICK sure \in {"KNOWN", "ESTIMATED", "UNKNOWN"} :
         sure = IF Candidates!Cardinality(parts) >= 2 THEN "KNOWN" ELSE "ESTIMATED"
  OBVIOUS
<1>8. PICK kind \in Kinds : kind = "STORE_PERFORMANCE"
  BY DEF Kinds
<1>9. PICK newest \in Int : newest = Candidates!NewestOrderAt(book)
  BY NewestIsInt
<1>10. /\ Candidates!ScoreStoreFit(book, at) =
            IF ~v5 THEN Candidates!Unscored
            ELSE Candidates!Scored(u, sure, IF newest = -1 THEN at ELSE newest, kind, at)
       /\ Candidates!ScoreStoreFit(book, later) =
            IF ~v5 THEN Candidates!Unscored
            ELSE Candidates!Scored(v, sure, IF newest = -1 THEN later ELSE newest, kind, later)
  <2>1. \A t : Candidates!ScoreStoreFit(book, t) =
            IF ~v5 THEN Candidates!Unscored
            ELSE Candidates!Scored(
                   Candidates!Larger(0, Candidates!Rounded(
                      points - Candidates!FulfillmentPenalty(book, t) * heavy, heavy)),
                   sure, IF newest = -1 THEN t ELSE newest, kind, t)
    BY <1>1, <1>2, <1>7, <1>8, <1>9, Zenon DEF Candidates!ScoreStoreFit, Candidates!Never
  <2> QED BY <1>3, <1>4, <1>5, <1>6, <2>1
<1>11. Fades(w, Candidates!Unscored, Candidates!Unscored)
  BY UnscoredFades
<1>12. CASE newest = -1
  <2>1. Fades(w, Candidates!Scored(u, sure, at, kind, at),
            Candidates!Scored(v, sure, later, kind, later))
    <3>1. at \in Int /\ later \in Int /\ at # -1 /\ later # -1
      OBVIOUS
    <3> QED BY <1>6, <3>1, SeenNowFades
  <2> QED BY <1>10, <1>11, <1>12, <2>1, Zenon
<1>13. CASE newest # -1
  <2>1. Fades(w, Candidates!Scored(u, sure, newest, kind, at),
            Candidates!Scored(v, sure, newest, kind, later))
    BY <1>6, ScoredFades
  <2> QED BY <1>10, <1>11, <1>13, <2>1, Zenon
<1> QED BY <1>12, <1>13

-----------------------------------------------------------------------------
\* The sums over the factors
LEMMA SameCount == ASSUME NEW S PROVE Candidates!Cardinality(S) = Cardinality(S)
BY DEF Candidates!Cardinality, Cardinality

\* A sum of values of at most a hundred is at most a hundred for each.
LEMMA TotalIsBounded ==
    ASSUME NEW f, NEW S, IsFiniteSet(S), \A x \in S : f[x] \in Int /\ f[x] <= 100
    PROVE  Total(f, S) <= 100 * Cardinality(S)
<1> DEFINE Bad == {T \in SUBSET S : ~(Total(f, T) <= 100 * Cardinality(T))}
<1> SUFFICES ASSUME Bad # {} PROVE FALSE
  OBVIOUS
<1>1. PICK T \in Bad : \A x \in T : T \ {x} \notin Bad
  <2>1. Bad \subseteq SUBSET S
    OBVIOUS
  <2> HIDE DEF Bad
  <2> QED BY <2>1, SmallestSet
<1>2. T \in SUBSET S /\ ~(Total(f, T) <= 100 * Cardinality(T)) /\ T # {} /\ IsFiniteSet(T)
  <2>1. T \in SUBSET S /\ ~(Total(f, T) <= 100 * Cardinality(T))
    OBVIOUS
  <2>2. T # {}
    <3>1. Total(f, {}) = 0 /\ Cardinality({}) = 0
      BY TotalOfNone, FS_EmptySet
    <3>2. Total(f, {}) <= 100 * Cardinality({})
      BY <3>1
    <3> HIDE DEF Bad
    <3> QED BY <2>1, <3>2
  <2>3. IsFiniteSet(T)
    BY <2>1, FS_Subset
  <2> QED BY <2>1, <2>2, <2>3
<1>3. PICK d \in T : d = First(T)
  BY <1>2, FirstIn
<1>4. PICK r : r = T \ {d}
  OBVIOUS
<1>5. Total(f, r) <= 100 * Cardinality(r)
  BY <1>1, <1>2, <1>3, <1>4
<1>6. Total(f, T) = f[d] + Total(f, r)
  BY <1>2, <1>3, <1>4, TotalUnfolds
<1>7. IsFiniteSet(r) /\ Total(f, r) \in Int /\ f[d] \in Int /\ f[d] <= 100
  <2>1. IsFiniteSet(r) /\ \A y \in r : f[y] \in Int
    BY <1>2, <1>4, FS_Subset
  <2> QED BY <1>2, <2>1, TotalIsInt
<1>8. Cardinality(r) = Cardinality(T) - 1 /\ Cardinality(T) \in Nat
  BY <1>2, <1>4, FS_RemoveElement, FS_CardinalityType
<1> HIDE DEF Bad
<1> QED BY <1>2, <1>5, <1>6, <1>7, <1>8

LEMMA FactorsAre ==
    /\ IsFiniteSet(Candidates!Factors)
    /\ \A f \in Candidates!Factors :
          /\ Candidates!DefaultScoreWeights[f] \in {0, 5, 10, 15, 20}
          /\ Candidates!CoverageWeight(f) \in {5, 10, 15, 20}
<1>1. Candidates!Factors = {"demand", "trend", "profitability", "storeFit", "competition",
          "shipping",
                            "seasonality", "fulfillmentQuality"}
  BY DEF Candidates!Factors, Candidates!DefaultScoreWeights
<1>2. IsFiniteSet(Candidates!Factors)
  <2>1. IsFiniteSet({}) /\ \A S, e : IsFiniteSet(S) => IsFiniteSet(S \cup {e})
    BY FS_EmptySet, FS_AddElement
  <2>2. PICK S \in {T \in {{} \cup {"demand"} \cup {"trend"} \cup {"profitability"} \cup {"storeFit"}} :
                      IsFiniteSet(T)} : TRUE
    BY <2>1
  <2>3. IsFiniteSet(S \cup {"competition"} \cup {"shipping"} \cup {"seasonality"} \cup {"fulfillmentQuality"})
    BY <2>1, <2>2
  <2>4. Candidates!Factors
          = S \cup {"competition"} \cup {"shipping"} \cup {"seasonality"} \cup {"fulfillmentQuality"}
    BY <1>1, <2>2
  <2> QED BY <2>3, <2>4
<1>3. \A f \in Candidates!Factors :
          /\ Candidates!DefaultScoreWeights[f] \in {0, 5, 10, 15, 20}
          /\ Candidates!CoverageWeight(f) \in {5, 10, 15, 20}
  BY <1>1 DEF Candidates!DefaultScoreWeights, Candidates!CoverageWeight, Candidates!Larger
<1> QED BY <1>2, <1>3

\* One more element, one more term
LEMMA Adding ==
    ASSUME NEW f, NEW S, IsFiniteSet(S), Ints(f, S), NEW e, e \notin S, f[e] \in Int,
           NEW T, T = S \cup {e}
    PROVE  IsFiniteSet(T) /\ Ints(f, T) /\ Total(f, T) = Total(f, S) + f[e]
<1>1. IsFiniteSet(T) /\ Ints(f, T)
  BY FS_AddElement DEF Ints
<1>2. Total(f, T) = f[e] + Total(f, S)
  <2>1. T \ {e} = S /\ e \in T
    OBVIOUS
  <2> QED BY <1>1, <2>1, SumWithout
<1>3. Total(f, S) \in Int
  BY TotalIsInt DEF Ints
<1> QED BY <1>1, <1>2, <1>3

\* The weights of the coverage add up to 105.
LEMMA WholeIs == Candidates!Total = 105
<1> DEFINE weight == [f \in Candidates!Factors |-> Candidates!CoverageWeight(f)]
<1>1. /\ weight["demand"] = 20 /\ weight["trend"] = 20 /\ weight["profitability"] = 20
      /\ weight["storeFit"] = 15 /\ weight["competition"] = 10 /\ weight["shipping"] = 10
      /\ weight["seasonality"] = 5 /\ weight["fulfillmentQuality"] = 5
  BY DEF Candidates!Factors, Candidates!DefaultScoreWeights, Candidates!CoverageWeight,
      Candidates!Larger
<1>2. \A f \in Candidates!Factors : weight[f] = Candidates!CoverageWeight(f)
  OBVIOUS
<1> HIDE DEF weight
<1>3. Candidates!Total = Total(weight, Candidates!Factors)
  <2>1. PICK S : S = Candidates!Factors
    OBVIOUS
  <2> QED BY <1>2, <2>1, FactorsAre, WholeSum
<1>4. PICK o : o = {} /\ IsFiniteSet(o) /\ Ints(weight, o) /\ Total(weight, o) = 0
  BY FS_EmptySet, TotalOfNone DEF Ints
<1>5. PICK a : /\ a = {"demand"}
               /\ IsFiniteSet(a) /\ Ints(weight, a) /\ Total(weight, a) = 20
  <2>1. PICK x : x = "demand"
    OBVIOUS
  <2>2. PICK a : a = {"demand"}
    OBVIOUS
  <2>3. x \notin o /\ a = o \cup {x} /\ weight[x] \in Int /\ weight[x] = 20
    BY <1>1, <1>4, <2>1, <2>2
  <2> QED BY <1>4, <2>2, <2>3, Adding
<1>6. PICK b : /\ b = {"demand", "trend"}
               /\ IsFiniteSet(b) /\ Ints(weight, b) /\ Total(weight, b) = 40
  <2>1. PICK x : x = "trend"
    OBVIOUS
  <2>2. PICK b : b = {"demand", "trend"}
    OBVIOUS
  <2>3. x \notin a /\ b = a \cup {x} /\ weight[x] \in Int /\ weight[x] = 20
    BY <1>1, <1>5, <2>1, <2>2
  <2>4. IsFiniteSet(a) /\ Ints(weight, a) /\ Total(weight, a) = 20
    BY <1>5, Zenon
  <2>5. IsFiniteSet(b) /\ Ints(weight, b) /\ Total(weight, b) = 40
    BY <2>3, <2>4, Adding
  <2> QED BY <2>2, <2>5, Zenon
<1>7. PICK c : /\ c = {"demand", "trend", "profitability"}
               /\ IsFiniteSet(c) /\ Ints(weight, c) /\ Total(weight, c) = 60
  <2>1. PICK x : x = "profitability"
    OBVIOUS
  <2>2. PICK c : c = {"demand", "trend", "profitability"}
    OBVIOUS
  <2>3. x \notin b /\ c = b \cup {x} /\ weight[x] \in Int /\ weight[x] = 20
    BY <1>1, <1>6, <2>1, <2>2
  <2>4. IsFiniteSet(b) /\ Ints(weight, b) /\ Total(weight, b) = 40
    BY <1>6, Zenon
  <2>5. IsFiniteSet(c) /\ Ints(weight, c) /\ Total(weight, c) = 60
    BY <2>3, <2>4, Adding
  <2> QED BY <2>2, <2>5, Zenon
<1>8. PICK d : /\ d = {"demand", "trend", "profitability", "storeFit"}
               /\ IsFiniteSet(d) /\ Ints(weight, d) /\ Total(weight, d) = 75
  <2>1. PICK x : x = "storeFit"
    OBVIOUS
  <2>2. PICK d : d = {"demand", "trend", "profitability", "storeFit"}
    OBVIOUS
  <2>3. x \notin c /\ d = c \cup {x} /\ weight[x] \in Int /\ weight[x] = 15
    BY <1>1, <1>7, <2>1, <2>2
  <2>4. IsFiniteSet(c) /\ Ints(weight, c) /\ Total(weight, c) = 60
    BY <1>7, Zenon
  <2>5. IsFiniteSet(d) /\ Ints(weight, d) /\ Total(weight, d) = 75
    BY <2>3, <2>4, Adding
  <2> QED BY <2>2, <2>5, Zenon
<1>9. PICK p : /\ p = {"demand", "trend", "profitability", "storeFit", "competition"}
               /\ IsFiniteSet(p) /\ Ints(weight, p) /\ Total(weight, p) = 85
  <2>1. PICK x : x = "competition"
    OBVIOUS
  <2>2. PICK p : p = {"demand", "trend", "profitability", "storeFit", "competition"}
    OBVIOUS
  <2>3. x \notin d /\ p = d \cup {x} /\ weight[x] \in Int /\ weight[x] = 10
    BY <1>1, <1>8, <2>1, <2>2
  <2>4. IsFiniteSet(d) /\ Ints(weight, d) /\ Total(weight, d) = 75
    BY <1>8, Zenon
  <2>5. IsFiniteSet(p) /\ Ints(weight, p) /\ Total(weight, p) = 85
    BY <2>3, <2>4, Adding
  <2> QED BY <2>2, <2>5, Zenon
<1>10. PICK q : /\ q = {"demand", "trend", "profitability", "storeFit", "competition", "shipping"}
               /\ IsFiniteSet(q) /\ Ints(weight, q) /\ Total(weight, q) = 95
  <2>1. PICK x : x = "shipping"
    OBVIOUS
  <2>2. PICK q : q = {"demand", "trend", "profitability", "storeFit", "competition", "shipping"}
    OBVIOUS
  <2>3. x \notin p /\ q = p \cup {x} /\ weight[x] \in Int /\ weight[x] = 10
    BY <1>1, <1>9, <2>1, <2>2
  <2>4. IsFiniteSet(p) /\ Ints(weight, p) /\ Total(weight, p) = 85
    BY <1>9, Zenon
  <2>5. IsFiniteSet(q) /\ Ints(weight, q) /\ Total(weight, q) = 95
    BY <2>3, <2>4, Adding
  <2> QED BY <2>2, <2>5, Zenon
<1>11. PICK r : /\ r = {"demand", "trend", "profitability", "storeFit", "competition", "shipping",
                     "seasonality"}
               /\ IsFiniteSet(r) /\ Ints(weight, r) /\ Total(weight, r) = 100
  <2>1. PICK x : x = "seasonality"
    OBVIOUS
  <2>2. PICK r : r = {"demand", "trend", "profitability", "storeFit", "competition", "shipping",
            "seasonality"}
    OBVIOUS
  <2>3. x \notin q /\ r = q \cup {x} /\ weight[x] \in Int /\ weight[x] = 5
    BY <1>1, <1>10, <2>1, <2>2
  <2>4. IsFiniteSet(q) /\ Ints(weight, q) /\ Total(weight, q) = 95
    BY <1>10, Zenon
  <2>5. IsFiniteSet(r) /\ Ints(weight, r) /\ Total(weight, r) = 100
    BY <2>3, <2>4, Adding
  <2> QED BY <2>2, <2>5, Zenon
<1>12. PICK s : /\ s = {"demand", "trend", "profitability", "storeFit", "competition", "shipping",
                     "seasonality", "fulfillmentQuality"}
               /\ IsFiniteSet(s) /\ Ints(weight, s) /\ Total(weight, s) = 105
  <2>1. PICK x : x = "fulfillmentQuality"
    OBVIOUS
  <2>2. PICK s : s = {"demand", "trend", "profitability", "storeFit", "competition", "shipping",
            "seasonality", "fulfillmentQuality"}
    OBVIOUS
  <2>3. x \notin r /\ s = r \cup {x} /\ weight[x] \in Int /\ weight[x] = 5
    BY <1>1, <1>11, <2>1, <2>2
  <2>4. IsFiniteSet(r) /\ Ints(weight, r) /\ Total(weight, r) = 100
    BY <1>11, Zenon
  <2>5. IsFiniteSet(s) /\ Ints(weight, s) /\ Total(weight, s) = 105
    BY <2>3, <2>4, Adding
  <2> QED BY <2>2, <2>5, Zenon
<1>13. Candidates!Factors = s
  BY <1>12 DEF Candidates!Factors, Candidates!DefaultScoreWeights
<1> QED BY <1>3, <1>12, <1>13

\* Where each term is at most a hundred times the other, so is the sum.
LEMMA Hundredfold ==
    ASSUME NEW f, NEW h, NEW S, IsFiniteSet(S),
           \A x \in S : f[x] \in Int /\ h[x] \in Int /\ h[x] <= 100 * f[x]
    PROVE  Total(h, S) <= 100 * Total(f, S)
<1> DEFINE Bad == {T \in SUBSET S : ~(Total(h, T) <= 100 * Total(f, T))}
<1> SUFFICES ASSUME Bad # {} PROVE FALSE
  OBVIOUS
<1>1. PICK T \in Bad : \A x \in T : T \ {x} \notin Bad
  <2>1. Bad \subseteq SUBSET S
    OBVIOUS
  <2> HIDE DEF Bad
  <2> QED BY <2>1, SmallestSet
<1>2. T \in SUBSET S /\ ~(Total(h, T) <= 100 * Total(f, T)) /\ T # {} /\ IsFiniteSet(T)
  <2>1. T \in SUBSET S /\ ~(Total(h, T) <= 100 * Total(f, T))
    OBVIOUS
  <2>2. T # {}
    <3>1. Total(f, {}) = 0 /\ Total(h, {}) = 0
      BY TotalOfNone
    <3>2. Total(h, {}) <= 100 * Total(f, {})
      BY <3>1
    <3> HIDE DEF Bad
    <3> QED BY <2>1, <3>2
  <2>3. IsFiniteSet(T)
    BY <2>1, FS_Subset
  <2> QED BY <2>1, <2>2, <2>3
<1>3. PICK d \in T : d = First(T)
  BY <1>2, FirstIn
<1>4. PICK r : r = T \ {d}
  OBVIOUS
<1>5. Total(h, r) <= 100 * Total(f, r)
  BY <1>1, <1>2, <1>3, <1>4
<1>6. Total(f, T) = f[d] + Total(f, r) /\ Total(h, T) = h[d] + Total(h, r)
  BY <1>2, <1>3, <1>4, TotalUnfolds
<1>7. Total(f, r) \in Int /\ Total(h, r) \in Int /\ f[d] \in Int /\ h[d] \in Int
          /\ h[d] <= 100 * f[d]
  <2>1. IsFiniteSet(r) /\ \A y \in r : f[y] \in Int /\ h[y] \in Int
    BY <1>2, <1>4, FS_Subset
  <2> QED BY <1>2, <2>1, TotalIsInt
<1> HIDE DEF Bad
<1> QED BY <1>2, <1>5, <1>6, <1>7

-----------------------------------------------------------------------------
\* What every factor is worth at one time and at a later one
AllFade(a, b) ==
    \A f \in Candidates!Factors : Fades(Candidates!DefaultScoreWeights[f], a[f], b[f])

LEMMA ScoredStays ==
    ASSUME NEW a, NEW b, AllFade(a, b)
    PROVE  /\ Candidates!ScoredOf(a) = Candidates!ScoredOf(b)
           /\ Candidates!ScoredOf(a) \subseteq Candidates!Factors
           /\ IsFiniteSet(Candidates!ScoredOf(a))
<1>1. \A f \in Candidates!Factors : a[f].value = -1000 <=> b[f].value = -1000
  BY DEF AllFade, Fades
<1>2. Candidates!ScoredOf(a) = Candidates!ScoredOf(b)
  BY <1>1 DEF Candidates!ScoredOf, Candidates!Absent
<1>3. Candidates!ScoredOf(a) \subseteq Candidates!Factors
  BY DEF Candidates!ScoredOf
<1> QED BY <1>2, <1>3, FactorsAre, FS_Subset

LEMMA WeightStays ==
    ASSUME NEW a, NEW b, AllFade(a, b)
    PROVE  /\ Candidates!ScoredWeight(a) = Candidates!ScoredWeight(b)
           /\ Candidates!ScoredWeight(a) \in Nat
<1>1. PICK S : /\ S = Candidates!ScoredOf(a) /\ S = Candidates!ScoredOf(b)
               /\ S \subseteq Candidates!Factors /\ IsFiniteSet(S)
  BY ScoredStays
<1>2. PICK f : \A x \in S : f[x] = Candidates!DefaultScoreWeights[x]
  <2>1. \A x \in S : [y \in S |-> Candidates!DefaultScoreWeights[y]][x]
            = Candidates!DefaultScoreWeights[x]
    OBVIOUS
  <2> QED BY <2>1
<1>3. Candidates!ScoredWeight(a) = Total(f, S) /\ Candidates!ScoredWeight(b) = Total(f, S)
  BY <1>1, <1>2, ScoredWeightSum
<1>4. \A x \in S : f[x] \in Nat
  BY <1>1, <1>2, FactorsAre
<1>5. Total(f, S) \in Nat
  BY <1>1, <1>4, TotalIsNat
<1> QED BY <1>3, <1>5

LEMMA PointsFade ==
    ASSUME NEW a, NEW b, AllFade(a, b)
    PROVE  /\ Candidates!ScoredPoints(a) \in Nat /\ Candidates!ScoredPoints(b) \in Nat
           /\ Candidates!ScoredPoints(b) <= Candidates!ScoredPoints(a)
<1>1. PICK S : /\ S = Candidates!ScoredOf(a) /\ S = Candidates!ScoredOf(b)
               /\ S \subseteq Candidates!Factors /\ IsFiniteSet(S)
  BY ScoredStays
<1>2. PICK f : \A x \in S : f[x] = a[x].value * Candidates!DefaultScoreWeights[x]
  <2>1. \A x \in S : [y \in S |-> a[y].value * Candidates!DefaultScoreWeights[y]][x]
                       = a[x].value * Candidates!DefaultScoreWeights[x]
    OBVIOUS
  <2> QED BY <2>1
<1>3. PICK h : \A x \in S : h[x] = b[x].value * Candidates!DefaultScoreWeights[x]
  <2>1. \A x \in S : [y \in S |-> b[y].value * Candidates!DefaultScoreWeights[y]][x]
                       = b[x].value * Candidates!DefaultScoreWeights[x]
    OBVIOUS
  <2> QED BY <2>1
<1>4. Candidates!ScoredPoints(a) = Total(f, S) /\ Candidates!ScoredPoints(b) = Total(h, S)
  BY <1>1, <1>2, <1>3, ScoredPointsSum
<1>5. \A x \in S : f[x] \in Nat /\ h[x] \in Nat /\ h[x] <= f[x]
  <2> SUFFICES ASSUME NEW x \in S PROVE f[x] \in Nat /\ h[x] \in Nat /\ h[x] <= f[x]
    OBVIOUS
  <2>1. PICK w : w = Candidates!DefaultScoreWeights[x] /\ w \in {0, 5, 10, 15, 20}
    BY <1>1, FactorsAre
  <2>2. Fades(w, a[x], b[x])
    BY <1>1, <2>1 DEF AllFade
  <2>3. a[x].value # -1000 /\ b[x].value # -1000
    BY <1>1 DEF Candidates!ScoredOf, Candidates!Absent
  <2>4. PICK u \in Nat, v \in Nat : u = a[x].value /\ v = b[x].value /\ (w = 0 \/ v <= u)
    BY <2>2, <2>3 DEF Fades
  <2>5. f[x] = u * w /\ h[x] = v * w
    BY <1>2, <1>3, <2>1, <2>4
  <2> QED BY <2>1, <2>4, <2>5
<1>6. Total(f, S) \in Nat /\ Total(h, S) \in Nat
  BY <1>1, <1>5, TotalIsNat
<1>7. Total(h, S) <= Total(f, S)
  <2>1. \A x \in S : h[x] \in Int /\ f[x] \in Int /\ h[x] <= f[x]
    BY <1>5
  <2> QED BY <1>1, <2>1, TotalGrows
<1> QED BY <1>4, <1>6, <1>7

\* How much is covered, and how well it was seen
LEMMA CoverStays ==
    ASSUME NEW a, NEW b, AllFade(a, b)
    PROVE  /\ Candidates!Covered(a) = Candidates!Covered(b) /\ Candidates!Covered(a) \in Nat
           /\ Candidates!Observed(a) = Candidates!Observed(b) /\ Candidates!Observed(a) \in Nat
           /\ Candidates!Observed(a) <= 100 * Candidates!Covered(a)
<1>1. PICK S : /\ S = Candidates!ScoredOf(a) /\ S = Candidates!ScoredOf(b)
               /\ S \subseteq Candidates!Factors /\ IsFiniteSet(S)
  BY ScoredStays
<1>2. PICK f : \A x \in S : f[x] = Candidates!CoverageWeight(x)
  <2>1. \A x \in S : [y \in S |-> Candidates!CoverageWeight(y)][x] = Candidates!CoverageWeight(x)
    OBVIOUS
  <2> QED BY <2>1
<1>3. PICK h : \A x \in S : h[x] = Candidates!ConfidencePoints[a[x].confidence] * Candidates!CoverageWeight(x)
  <2>1. \A x \in S : [y \in S |-> Candidates!ConfidencePoints[a[y].confidence]
                                    * Candidates!CoverageWeight(y)][x]
                       = Candidates!ConfidencePoints[a[x].confidence] * Candidates!CoverageWeight(x)
    OBVIOUS
  <2> QED BY <2>1
<1>4. \A x \in S : h[x] = Candidates!ConfidencePoints[b[x].confidence] * Candidates!CoverageWeight(x)
  <2>1. \A x \in S : a[x].confidence = b[x].confidence
    BY <1>1 DEF AllFade, Fades
  <2> QED BY <1>3, <2>1, Zenon
<1>5. Candidates!Covered(a) = Total(f, S) /\ Candidates!Covered(b) = Total(f, S)
  BY <1>1, <1>2, CoveredSum
<1>6. Candidates!Observed(a) = Total(h, S) /\ Candidates!Observed(b) = Total(h, S)
  BY <1>1, <1>3, <1>4, ObservedSum
<1>7. \A x \in S : f[x] \in Nat /\ h[x] \in Nat /\ h[x] <= 100 * f[x]
  <2> SUFFICES ASSUME NEW x \in S PROVE f[x] \in Nat /\ h[x] \in Nat /\ h[x] <= 100 * f[x]
    OBVIOUS
  <2>1. PICK w : w = Candidates!CoverageWeight(x) /\ w \in {5, 10, 15, 20}
    BY <1>1, FactorsAre
  <2>2. a[x].confidence \in {"KNOWN", "ESTIMATED", "UNKNOWN"}
    BY <1>1 DEF AllFade, Fades
  <2>3. PICK c : c = Candidates!ConfidencePoints[a[x].confidence] /\ c \in {0, 55, 100}
    BY <2>2 DEF Candidates!ConfidencePoints
  <2>4. f[x] = w /\ h[x] = c * w
    BY <1>2, <1>3, <2>1, <2>3
  <2>5. w \in Nat /\ c * w \in Nat /\ c * w <= 100 * w
    BY <2>1, <2>3
  <2> QED BY <2>4, <2>5
<1>8. Total(f, S) \in Nat /\ Total(h, S) \in Nat
  BY <1>1, <1>7, TotalIsNat
<1>9. Total(h, S) <= 100 * Total(f, S)
  BY <1>1, <1>7, Hundredfold
<1> QED BY <1>5, <1>6, <1>8, <1>9

\* How current it is
LEMMA CurrentFades ==
    ASSUME NEW a, NEW b, AllFade(a, b)
    PROVE  /\ Candidates!Current(a) \in Nat /\ Candidates!Current(b) \in Nat
           /\ Candidates!Current(b) <= Candidates!Current(a)
           /\ Candidates!Current(a) <= 100 * Cardinality(Candidates!ScoredOf(a))
<1>1. PICK S : /\ S = Candidates!ScoredOf(a) /\ S = Candidates!ScoredOf(b)
               /\ S \subseteq Candidates!Factors /\ IsFiniteSet(S)
  BY ScoredStays
<1>2. PICK f : Ages(f, a, S)
  <2>1. Ages([y \in S |-> Candidates!FreshnessPoints[a[y].freshness]], a, S)
    BY DEF Ages
  <2> QED BY <2>1
<1>3. PICK h : Ages(h, b, S)
  <2>1. Ages([y \in S |-> Candidates!FreshnessPoints[b[y].freshness]], b, S)
    BY DEF Ages
  <2> QED BY <2>1
<1>4. Candidates!Current(a) = Total(f, S) /\ Candidates!Current(b) = Total(h, S)
  <2>1. Candidates!Current(a) = Total(f, S)
    BY <1>1, <1>2, CurrentSum
  <2>2. Candidates!Current(b) = Total(h, S)
    BY <1>1, <1>3, CurrentSum
  <2> QED BY <2>1, <2>2
<1>5. \A x \in S : f[x] \in 0..100 /\ h[x] \in 0..100 /\ h[x] <= f[x]
  BY <1>1, <1>2, <1>3 DEF Ages, AllFade, Fades, NotFresher
<1>6. Total(f, S) \in Nat /\ Total(h, S) \in Nat
  <2>1. \A x \in S : f[x] \in Nat /\ h[x] \in Nat
    BY <1>5
  <2> QED BY <1>1, <2>1, TotalIsNat
<1>7. Total(h, S) <= Total(f, S)
  <2>1. \A x \in S : h[x] \in Int /\ f[x] \in Int /\ h[x] <= f[x]
    BY <1>5
  <2> QED BY <1>1, <2>1, TotalGrows
<1>8. Total(f, S) <= 100 * Cardinality(S)
  <2>1. \A x \in S : f[x] \in Int /\ f[x] <= 100
    BY <1>5
  <2> QED BY <1>1, <2>1, TotalIsBounded
<1> QED BY <1>1, <1>4, <1>6, <1>7, <1>8

-----------------------------------------------------------------------------
\* The overall score, and the confidence in it
LEMMA OverallFades ==
    ASSUME NEW a, NEW b, AllFade(a, b)
    PROVE  /\ Candidates!WeightedOverall(a) \in Nat \cup {-1000}
           /\ Candidates!WeightedOverall(b) \in Nat \cup {-1000}
           /\ Candidates!WeightedOverall(a) = -1000 <=> Candidates!WeightedOverall(b) = -1000
           /\ Candidates!WeightedOverall(b) <= Candidates!WeightedOverall(a)
           /\ Candidates!WeightedOverall(a) # -1000 => Candidates!ScoredOf(a) # {}
<1>1. PICK w \in Nat : w = Candidates!ScoredWeight(a) /\ w = Candidates!ScoredWeight(b)
  BY WeightStays
<1>2. PICK p \in Nat, q \in Nat :
         p = Candidates!ScoredPoints(a) /\ q = Candidates!ScoredPoints(b) /\ q <= p
  BY PointsFade
<1>3. /\ Candidates!WeightedOverall(a) = IF w = 0 THEN -1000 ELSE Candidates!Rounded(p, w)
      /\ Candidates!WeightedOverall(b) = IF w = 0 THEN -1000 ELSE Candidates!Rounded(q, w)
  <2>1. \A s : Candidates!WeightedOverall(s) =
                 IF Candidates!ScoredWeight(s) = 0 THEN -1000
                 ELSE Candidates!Rounded(Candidates!ScoredPoints(s), Candidates!ScoredWeight(s))
    BY Zenon DEF Candidates!WeightedOverall, Candidates!Absent
  <2>2. Candidates!WeightedOverall(a) = IF w = 0 THEN -1000 ELSE Candidates!Rounded(p, w)
    <3>1. Candidates!ScoredWeight(a) = w /\ Candidates!ScoredPoints(a) = p
      BY <1>1, <1>2
    <3> QED BY <2>1, <3>1, Zenon
  <2>3. Candidates!WeightedOverall(b) = IF w = 0 THEN -1000 ELSE Candidates!Rounded(q, w)
    <3>1. Candidates!ScoredWeight(b) = w /\ Candidates!ScoredPoints(b) = q
      BY <1>1, <1>2
    <3> QED BY <2>1, <3>1, Zenon
  <2> QED BY <2>2, <2>3
<1>4. w # 0 => /\ Candidates!Rounded(p, w) \in Nat /\ Candidates!Rounded(q, w) \in Nat
               /\ Candidates!Rounded(q, w) <= Candidates!Rounded(p, w)
  <2> SUFFICES ASSUME w # 0
               PROVE  /\ Candidates!Rounded(p, w) \in Nat /\ Candidates!Rounded(q, w) \in Nat
                      /\ Candidates!Rounded(q, w) <= Candidates!Rounded(p, w)
    OBVIOUS
  <2>1. /\ Candidates!Rounded(p, w) \in Int /\ Candidates!Rounded(q, w) \in Int
        /\ Candidates!Rounded(q, w) <= Candidates!Rounded(p, w)
    BY <1>2, RoundedGrows
  <2>2. Candidates!Rounded(0, w) <= Candidates!Rounded(q, w) /\ Candidates!Rounded(0, w) \in Int
    <3>1. PICK o \in Int : o = 0
      OBVIOUS
    <3>2. o <= q /\ q \in Int /\ w \in Int /\ w > 0
      BY <3>1
    <3>3. Candidates!Rounded(o, w) <= Candidates!Rounded(q, w) /\ Candidates!Rounded(o, w) \in Int
      BY <3>2, RoundedGrows
    <3> QED BY <3>1, <3>3
  <2>3. Candidates!Rounded(0, w) >= 0
    <3>1. PICK d \in Int : d = 2 * w /\ d > 0
      OBVIOUS
    <3>2. w \div d >= 0
      BY <3>1
    <3> QED BY <3>1, <3>2 DEF Candidates!Rounded
  <2> QED BY <2>1, <2>2, <2>3
<1>5. Candidates!ScoredOf(a) = {} => w = 0
  <2> SUFFICES ASSUME Candidates!ScoredOf(a) = {} PROVE w = 0
    OBVIOUS
  <2>1. PICK S : S = Candidates!ScoredOf(a) /\ S = {} /\ IsFiniteSet(S)
    BY FS_EmptySet
  <2>2. PICK f : \A x \in S : f[x] = Candidates!DefaultScoreWeights[x]
    BY <2>1
  <2>3. Candidates!ScoredWeight(a) = Total(f, S)
    BY <2>1, <2>2, ScoredWeightSum
  <2> QED BY <1>1, <2>1, <2>3, TotalOfNone
<1> QED BY <1>3, <1>4, <1>5

\* What the confidence is a rounded quotient of: n factors of which the coverage is c are
\* seen as well as o and as current as u.
LEMMA QuotientFades ==
    ASSUME NEW n \in Nat, n > 0, NEW c \in Nat, NEW o \in Nat, o <= 100 * c,
           NEW u \in Nat, u <= 100 * n, NEW v \in Nat, v <= u
    PROVE  /\ 6 * o * n + 4 * u * c \in Nat /\ 6 * o * n + 4 * v * c \in Nat
           /\ 6 * o * n + 4 * v * c <= 6 * o * n + 4 * u * c
           /\ 6 * o * n + 4 * u * c <= 1000 * n * c
           /\ 10 * n * 105 = 1050 * n /\ 10 * n * 105 > 0
<1>1. v * c \in Nat /\ u * c \in Nat /\ o * n \in Nat /\ n * c \in Nat
  OBVIOUS
<1>2. v * c <= u * c
  <2>1. PICK d \in Nat : u = v + d
    <3>1. PICK d \in Int : d = u - v
      OBVIOUS
    <3>2. d \in Nat /\ u = v + d
      BY <3>1
    <3> QED BY <3>2
  <2>2. u * c = v * c + d * c /\ d * c \in Nat
    BY <2>1
  <2> QED BY <1>1, <2>2
<1>3. u * c <= 100 * (n * c)
  <2>1. PICK d \in Nat : 100 * n = u + d
    <3>1. PICK k \in Int : k = 100 * n
      OBVIOUS
    <3>2. PICK d \in Int : d = k - u
      OBVIOUS
    <3>3. d \in Nat /\ 100 * n = u + d
      BY <3>1, <3>2
    <3> QED BY <3>3
  <2>2. 100 * (n * c) = (100 * n) * c
    BY <1>1
  <2>3. (u + d) * c = u * c + d * c /\ d * c \in Nat
    OBVIOUS
  <2>4. (100 * n) * c = (u + d) * c
    BY <2>1
  <2> QED BY <1>1, <2>2, <2>3, <2>4
<1>4. o * n <= 100 * (n * c)
  <2>1. PICK d \in Nat : 100 * c = o + d
    <3>1. PICK k \in Int : k = 100 * c
      OBVIOUS
    <3>2. PICK d \in Int : d = k - o
      OBVIOUS
    <3>3. d \in Nat /\ 100 * c = o + d
      BY <3>1, <3>2
    <3> QED BY <3>3
  <2>2. 100 * (n * c) = (100 * c) * n
    BY <1>1
  <2>3. (o + d) * n = o * n + d * n /\ d * n \in Nat
    OBVIOUS
  <2>4. (100 * c) * n = (o + d) * n
    BY <2>1
  <2> QED BY <1>1, <2>2, <2>3, <2>4
<1>5. 6 * o * n = 6 * (o * n) /\ 4 * v * c = 4 * (v * c) /\ 4 * u * c = 4 * (u * c)
      /\ 1000 * n * c = 1000 * (n * c)
  OBVIOUS
<1>6. 10 * n * 105 = 1050 * n /\ 10 * n * 105 > 0
  OBVIOUS
<1> QED BY <1>1, <1>2, <1>3, <1>4, <1>5, <1>6

LEMMA ConfidenceFades ==
    ASSUME NEW a, NEW b, AllFade(a, b), Candidates!ScoredOf(a) # {}
    PROVE  /\ Candidates!ComputeConfidenceScore(a) \in Nat
           /\ Candidates!ComputeConfidenceScore(b) \in Nat
           /\ Candidates!ComputeConfidenceScore(b) <= Candidates!ComputeConfidenceScore(a)
           /\ Candidates!ComputeConfidenceScore(a) >= 60
                => 10 * Candidates!Covered(a) >= 6 * Candidates!Total
<1>1. PICK n \in Nat : /\ n = Candidates!Cardinality(Candidates!ScoredOf(a))
                       /\ n = Candidates!Cardinality(Candidates!ScoredOf(b))
                       /\ n = Cardinality(Candidates!ScoredOf(a)) /\ n > 0
  <2>1. PICK S : /\ S = Candidates!ScoredOf(a) /\ S = Candidates!ScoredOf(b)
                 /\ IsFiniteSet(S) /\ S # {}
    BY ScoredStays
  <2>2. Cardinality(S) \in Nat /\ Cardinality(S) # 0
    BY <2>1, FS_CardinalityType, FS_EmptySet
  <2>3. Candidates!Cardinality(S) = Cardinality(S)
    BY SameCount
  <2> QED BY <2>1, <2>2, <2>3
<1>2. PICK c \in Nat, o \in Nat :
         /\ c = Candidates!Covered(a) /\ c = Candidates!Covered(b)
         /\ o = Candidates!Observed(a) /\ o = Candidates!Observed(b) /\ o <= 100 * c
  BY CoverStays
<1>3. PICK u \in Nat, v \in Nat :
         u = Candidates!Current(a) /\ v = Candidates!Current(b) /\ v <= u /\ u <= 100 * n
  BY <1>1, CurrentFades
<1>4. PICK x \in Nat, y \in Nat : x = 6 * o * n + 4 * u * c /\ y = 6 * o * n + 4 * v * c
                                  /\ y <= x /\ x <= 1000 * n * c
  <2>1. /\ 6 * o * n + 4 * u * c \in Nat /\ 6 * o * n + 4 * v * c \in Nat
        /\ 6 * o * n + 4 * v * c <= 6 * o * n + 4 * u * c
        /\ 6 * o * n + 4 * u * c <= 1000 * n * c
    <3> HIDE <1>1, <1>2, <1>3
    <3>1. n > 0 /\ o <= 100 * c /\ u <= 100 * n /\ v <= u
      BY <1>1, <1>2, <1>3
    <3> QED BY <3>1, QuotientFades
  <2> QED BY <2>1
<1>5. PICK k \in Nat : k = 10 * n * 105 /\ k = 1050 * n /\ k > 0
  BY <1>1
<1>6. Candidates!ComputeConfidenceScore(a) = Candidates!Rounded(x, k)
  BY <1>1, <1>2, <1>3, <1>4, <1>5, WholeIs, Zenon DEF Candidates!ComputeConfidenceScore
<1>7. Candidates!ComputeConfidenceScore(b) = Candidates!Rounded(y, k)
  BY <1>1, <1>2, <1>3, <1>4, <1>5, WholeIs, Zenon DEF Candidates!ComputeConfidenceScore
<1>8. /\ Candidates!Rounded(x, k) \in Int /\ Candidates!Rounded(y, k) \in Int
      /\ Candidates!Rounded(y, k) <= Candidates!Rounded(x, k)
  <2>1. x \in Int /\ y \in Int /\ k \in Int /\ y <= x /\ k > 0
    BY <1>4, <1>5
  <2> QED BY <2>1, RoundedGrows
<1>9. Candidates!Rounded(y, k) >= 0
  <2>1. PICK d \in Int, z \in Int : d = 2 * k /\ d > 0 /\ z = 2 * y + k /\ z >= 0
    BY <1>5
  <2>2. z \div d >= 0
    BY <2>1
  <2> QED BY <2>1, <2>2 DEF Candidates!Rounded
<1>10. ASSUME Candidates!Rounded(x, k) >= 60 PROVE 10 * c >= 6 * 105
  <2>1. PICK d \in Int, z \in Int : d = 2 * k /\ d > 0 /\ z = 2 * x + k
    BY <1>5
  <2>2. z \div d >= 60
    BY <1>10, <2>1 DEF Candidates!Rounded
  <2>3. z >= 60 * d
    BY <2>1, <2>2
  <2>4. 2 * x >= 119 * k
    BY <2>1, <2>3
  <2>5. 1000 * n * c = n * (1000 * c) /\ 119 * k = n * 124950
    BY <1>5
  <2>6. n * (2000 * c) >= n * 124950
    BY <1>4, <2>4, <2>5
  <2>7. 2000 * c >= 124950
    BY <1>1, <2>6
  <2> QED BY <2>7
<1> QED BY <1>2, <1>6, <1>7, <1>8, <1>9, <1>10, WholeIs

-----------------------------------------------------------------------------
\* A later analysis of the same book
LEMMA ScoresFade ==
    ASSUME Figures, NEW book, History(book), NEW at \in Nat, NEW later \in Nat, at <= later
    PROVE  AllFade(Candidates!FactorScores(book, at), Candidates!FactorScores(book, later))
<1>1. PICK a, b : a = Candidates!FactorScores(book, at) /\ b = Candidates!FactorScores(book, later)
  OBVIOUS
<1>2. /\ a.demand = Candidates!ScoreDemand(at) /\ b.demand = Candidates!ScoreDemand(later)
      /\ a.trend = Candidates!ScoreTrend(at) /\ b.trend = Candidates!ScoreTrend(later)
      /\ a.profitability = Candidates!ScoreProfitability(at)
      /\ b.profitability = Candidates!ScoreProfitability(later)
      /\ a.storeFit = Candidates!ScoreStoreFit(book, at)
      /\ b.storeFit = Candidates!ScoreStoreFit(book, later)
      /\ a.competition = Candidates!ScoreCompetition(at)
      /\ b.competition = Candidates!ScoreCompetition(later)
      /\ a.shipping = Candidates!ScoreShipping(at) /\ b.shipping = Candidates!ScoreShipping(later)
      /\ a.seasonality = Candidates!ScoreSeasonality(at)
      /\ b.seasonality = Candidates!ScoreSeasonality(later)
      /\ a.fulfillmentQuality = Candidates!ScoreFulfillmentQuality(book, at)
      /\ b.fulfillmentQuality = Candidates!ScoreFulfillmentQuality(book, later)
  BY <1>1 DEF Candidates!FactorScores
<1>3. \A w : /\ Fades(w, a.demand, b.demand) /\ Fades(w, a.trend, b.trend)
             /\ Fades(w, a.competition, b.competition) /\ Fades(w, a.seasonality, b.seasonality)
  <2>1. at \in Int /\ later \in Int
    OBVIOUS
  <2> TAKE w
  <2>2. /\ Fades(w, Candidates!ScoreDemand(at), Candidates!ScoreDemand(later))
        /\ Fades(w, Candidates!ScoreTrend(at), Candidates!ScoreTrend(later))
        /\ Fades(w, Candidates!ScoreCompetition(at), Candidates!ScoreCompetition(later))
        /\ Fades(w, Candidates!ScoreSeasonality(at), Candidates!ScoreSeasonality(later))
    BY <2>1, TypedFactorsFade
  <2> QED BY <1>2, <2>2, Zenon
<1>4. \A w : Fades(w, a.profitability, b.profitability) /\ Fades(w, a.shipping, b.shipping)
  <2> TAKE w
  <2>1. /\ Fades(w, Candidates!ScoreShipping(at), Candidates!ScoreShipping(later))
        /\ Fades(w, Candidates!ScoreProfitability(at), Candidates!ScoreProfitability(later))
    BY OfferFactorsFade
  <2> QED BY <1>2, <2>1, Zenon
<1>5. \A w : Fades(w, a.storeFit, b.storeFit)
  <2> TAKE w
  <2>1. Fades(w, Candidates!ScoreStoreFit(book, at), Candidates!ScoreStoreFit(book, later))
    BY StoreFitFades
  <2> QED BY <1>2, <2>1, Zenon
<1>6. Fades(0, a.fulfillmentQuality, b.fulfillmentQuality)
  <2>1. at \in Int /\ later \in Int
    OBVIOUS
  <2>2. Fades(0, Candidates!ScoreFulfillmentQuality(book, at),
                 Candidates!ScoreFulfillmentQuality(book, later))
    BY <2>1, QualityFades
  <2> QED BY <1>2, <2>2, Zenon
<1>7. Candidates!DefaultScoreWeights["fulfillmentQuality"] = 0
  BY DEF Candidates!DefaultScoreWeights
<1>8. Candidates!Factors = {"demand", "trend", "profitability", "storeFit", "competition",
          "shipping",
                            "seasonality", "fulfillmentQuality"}
  BY DEF Candidates!Factors, Candidates!DefaultScoreWeights
<1>9. AllFade(a, b)
  <2> SUFFICES ASSUME NEW f \in Candidates!Factors
               PROVE  Fades(Candidates!DefaultScoreWeights[f], a[f], b[f])
    BY DEF AllFade
  <2>1. PICK w : w = Candidates!DefaultScoreWeights[f]
    OBVIOUS
  <2>2. CASE f = "fulfillmentQuality"
    BY <1>6, <1>7, <2>2, Zenon
  <2>3. CASE f \in {"demand", "trend", "competition", "seasonality"}
    BY <1>3, <2>3, Zenon
  <2>4. CASE f \in {"profitability", "shipping"}
    BY <1>4, <2>4, Zenon
  <2>5. CASE f = "storeFit"
    BY <1>5, <2>5, Zenon
  <2> QED BY <1>8, <2>2, <2>3, <2>4, <2>5, Zenon
<1> QED BY <1>1, <1>9

-----------------------------------------------------------------------------
Recommendations == {"STRONG_CANDIDATE", "GOOD_CANDIDATE", "WATCH", "WEAK", "REJECT"}

\* One recommendation is not better than another; none is made of both or of neither.
NotBetter(s, r) ==
    /\ s \in Recommendations \cup {"unset"} /\ r \in Recommendations \cup {"unset"}
    /\ s = "unset" <=> r = "unset"
    /\ Candidates!Rank(s) <= Candidates!Rank(r)

LEMMA Ranks ==
    /\ Candidates!Rank("unset") = -1
    /\ Candidates!Rank("STRONG_CANDIDATE") = 4 /\ Candidates!Rank("GOOD_CANDIDATE") = 3
    /\ Candidates!Rank("WATCH") = 2 /\ Candidates!Rank("WEAK") = 1 /\ Candidates!Rank("REJECT") = 0
    /\ \A r \in Recommendations : Candidates!RecommendationRank[r] = Candidates!Rank(r)
    /\ \A r \in Recommendations : Candidates!Rank(r) \in 0..4
BY DEF Candidates!Rank, Candidates!RecommendationRank, Candidates!Unset, Recommendations

LEMMA CapsAre ==
    ASSUME NEW r \in Recommendations
    PROVE  /\ Candidates!CapAt(r, "WATCH") \in {r, "WATCH"}
           /\ Candidates!Rank(Candidates!CapAt(r, "WATCH")) <= 2
           /\ Candidates!Rank(Candidates!CapAt(r, "WATCH")) <= Candidates!Rank(r)
           /\ Candidates!CapAt(r, "WATCH") = IF Candidates!Rank(r) <= 2 THEN r ELSE "WATCH"
<1>1. Candidates!CapAt(r, "WATCH") = IF Candidates!Rank(r) <= 2 THEN r ELSE "WATCH"
  <2>1. "WATCH" \in Recommendations
    BY DEF Recommendations
  <2> QED BY <2>1, Ranks DEF Candidates!CapAt
<1> QED BY <1>1, Ranks

\* The band a score falls into
LEMMA BandFades ==
    ASSUME NEW o \in Int, NEW p \in Int, p <= o, NEW x \in Int, NEW y \in Int, y <= x
    PROVE  /\ NotBetter(Candidates!BandFor(p, y), Candidates!BandFor(o, x))
           /\ Candidates!BandFor(o, x) \in Recommendations
           /\ Candidates!BandFor(o, x) \in {"STRONG_CANDIDATE", "GOOD_CANDIDATE"} => x >= 60
<1> DEFINE Base(v) == IF v >= 80 THEN "STRONG_CANDIDATE" ELSE IF v >= 65 THEN "GOOD_CANDIDATE"
                      ELSE IF v >= 50 THEN "WATCH" ELSE IF v >= 35 THEN "WEAK" ELSE "REJECT"
<1>1. \A v, z \in Int : Candidates!BandFor(v, z)
                          = IF z < 60 THEN Candidates!CapAt(Base(v), "WATCH") ELSE Base(v)
  <2> TAKE v, z \in Int
  <2>1. CASE v >= 80
    BY <2>1 DEF Candidates!BandFor
  <2>2. CASE v >= 65 /\ v < 80
    BY <2>2 DEF Candidates!BandFor
  <2>3. CASE v >= 50 /\ v < 65
    BY <2>3 DEF Candidates!BandFor
  <2>4. CASE v >= 35 /\ v < 50
    BY <2>4 DEF Candidates!BandFor
  <2>5. CASE v < 35
    BY <2>5 DEF Candidates!BandFor
  <2> QED BY <2>1, <2>2, <2>3, <2>4, <2>5
<1>2. PICK r, s : r = Base(o) /\ s = Base(p)
  OBVIOUS
<1>3. r \in Recommendations /\ s \in Recommendations /\ Candidates!Rank(s) <= Candidates!Rank(r)
  <2>1. Base(o) \in Recommendations /\ Base(p) \in Recommendations
    BY DEF Recommendations
  <2>2. Candidates!Rank(Base(p)) <= Candidates!Rank(Base(o))
    BY Ranks
  <2> HIDE DEF Base
  <2> QED BY <1>2, <2>1, <2>2
<1>4. /\ Candidates!BandFor(o, x) = IF x < 60 THEN Candidates!CapAt(r, "WATCH") ELSE r
      /\ Candidates!BandFor(p, y) = IF y < 60 THEN Candidates!CapAt(s, "WATCH") ELSE s
  <2> HIDE DEF Base
  <2> QED BY <1>1, <1>2
<1>5. "unset" \notin Recommendations /\ "WATCH" \in Recommendations
  BY DEF Recommendations
<1>6. CASE x < 60
  <2>1. y < 60
    BY <1>6
  <2>2. Candidates!CapAt(s, "WATCH") \in Recommendations
            /\ Candidates!CapAt(r, "WATCH") \in Recommendations
    BY <1>3, <1>5, CapsAre
  <2>3. Candidates!Rank(Candidates!CapAt(s, "WATCH"))
            <= Candidates!Rank(Candidates!CapAt(r, "WATCH"))
    BY <1>3, CapsAre, Ranks
  <2>4. Candidates!Rank(Candidates!CapAt(r, "WATCH")) <= 2
    BY <1>3, CapsAre
  <2>5. Candidates!CapAt(r, "WATCH") \notin {"STRONG_CANDIDATE", "GOOD_CANDIDATE"}
    BY <2>4, Ranks
  <2> QED BY <1>4, <1>5, <1>6, <2>1, <2>2, <2>3, <2>5 DEF NotBetter
<1>7. CASE ~(x < 60)
  <2>1. Candidates!BandFor(o, x) = r /\ x >= 60
    BY <1>4, <1>7
  <2>2. Candidates!BandFor(p, y) \in Recommendations
        /\ Candidates!Rank(Candidates!BandFor(p, y)) <= Candidates!Rank(s)
    BY <1>3, <1>4, <1>5, CapsAre, Ranks
  <2>3. Candidates!Rank(Candidates!BandFor(p, y)) <= Candidates!Rank(r)
    BY <1>3, <2>2, Ranks
  <2> QED BY <1>3, <1>5, <2>1, <2>2, <2>3 DEF NotBetter
<1> QED BY <1>6, <1>7

-----------------------------------------------------------------------------
\* A verdict, as it is stored: what is recommended was researched.
JudgedIs(v) ==
    /\ v.overall \in Nat \cup {-1000} /\ v.confidence \in Nat
    /\ v.recommendation \in Recommendations \cup {"unset"}
    /\ v.recommendation \in {"STRONG_CANDIDATE", "GOOD_CANDIDATE"} =>
          10 * Candidates!Covered(v.scores) >= 6 * Candidates!Total

LEMMA VerdictFades ==
    ASSUME Figures, NEW book, History(book), NEW at \in Nat, NEW later \in Nat, at <= later,
           NEW r, r = Candidates!Verdict(book, at), NEW s, s = Candidates!Verdict(book, later)
    PROVE  /\ JudgedIs(r) /\ s.overall \in Int /\ s.overall <= r.overall
           /\ s.confidence \in Nat /\ s.confidence <= r.confidence
           /\ NotBetter(s.recommendation, r.recommendation)
<1>1. PICK a, b : /\ a = Candidates!FactorScores(book, at)
                  /\ b = Candidates!FactorScores(book, later)
                  /\ AllFade(a, b)
  BY ScoresFade
<1>2. PICK o \in Nat \cup {-1000}, p \in Nat \cup {-1000} :
         /\ o = Candidates!WeightedOverall(a) /\ p = Candidates!WeightedOverall(b)
         /\ (o = -1000 <=> p = -1000) /\ p <= o /\ (o # -1000 => Candidates!ScoredOf(a) # {})
  BY <1>1, OverallFades
<1>3. PICK x, y : x = Candidates!ComputeConfidenceScore(a)
          /\ y = Candidates!ComputeConfidenceScore(b)
  OBVIOUS
<1>4. /\ r = [scores |-> a, overall |-> o, confidence |-> IF o = Candidates!Absent THEN 0 ELSE x,
              recommendation |-> IF o = Candidates!Absent THEN Candidates!Unset
                                 ELSE Candidates!BandFor(o, x)]
      /\ s = [scores |-> b, overall |-> p, confidence |-> IF p = Candidates!Absent THEN 0 ELSE y,
              recommendation |-> IF p = Candidates!Absent THEN Candidates!Unset
                                 ELSE Candidates!BandFor(p, y)]
  <2>1. \A t : Candidates!Verdict(book, t) =
           Candidates!Judged(Candidates!FactorScores(book, t),
                             Candidates!WeightedOverall(Candidates!FactorScores(book, t)),
                             Candidates!ComputeConfidenceScore(Candidates!FactorScores(book, t)))
    BY Zenon DEF Candidates!Verdict, Candidates!ScoreCandidate
  <2>2. r = Candidates!Judged(a, o, x)
    <3>1. Candidates!FactorScores(book, at) = a
      BY <1>1
    <3>2. Candidates!WeightedOverall(a) = o /\ Candidates!ComputeConfidenceScore(a) = x
      BY <1>2, <1>3
    <3>3. Candidates!Verdict(book, at) =
             Candidates!Judged(a, Candidates!WeightedOverall(a),
                 Candidates!ComputeConfidenceScore(a))
      BY <2>1, <3>1
    <3>4. Candidates!Verdict(book, at) = Candidates!Judged(a, o, x)
      BY <3>2, <3>3
    <3> QED BY <3>4
  <2>3. s = Candidates!Judged(b, p, y)
    <3>1. Candidates!FactorScores(book, later) = b
      BY <1>1
    <3>2. Candidates!WeightedOverall(b) = p /\ Candidates!ComputeConfidenceScore(b) = y
      BY <1>2, <1>3
    <3>3. Candidates!Verdict(book, later) =
             Candidates!Judged(b, Candidates!WeightedOverall(b),
                 Candidates!ComputeConfidenceScore(b))
      BY <2>1, <3>1
    <3>4. Candidates!Verdict(book, later) = Candidates!Judged(b, p, y)
      BY <3>2, <3>3
    <3> QED BY <3>4
  <2>4. \A c, d, z : Candidates!Judged(c, d, z) =
          [scores |-> c, overall |-> d, confidence |-> IF d = Candidates!Absent THEN 0 ELSE z,
           recommendation |-> IF d = Candidates!Absent THEN Candidates!Unset
               ELSE Candidates!BandFor(d, z)]
    BY Zenon DEF Candidates!Judged
  <2>5. r = [scores |-> a, overall |-> o, confidence |-> IF o = Candidates!Absent THEN 0 ELSE x,
             recommendation |-> IF o = Candidates!Absent THEN Candidates!Unset
                 ELSE Candidates!BandFor(o, x)]
    BY <2>2, <2>4, Zenon
  <2>6. s = [scores |-> b, overall |-> p, confidence |-> IF p = Candidates!Absent THEN 0 ELSE y,
             recommendation |-> IF p = Candidates!Absent THEN Candidates!Unset
                 ELSE Candidates!BandFor(p, y)]
    BY <2>3, <2>4, Zenon
  <2> QED BY <2>5, <2>6
<1>5. CASE o = -1000
  <2>1. /\ r.overall = -1000 /\ r.confidence = 0 /\ r.recommendation = "unset"
        /\ s.overall = -1000 /\ s.confidence = 0 /\ s.recommendation = "unset"
    BY <1>2, <1>4, <1>5 DEF Candidates!Absent, Candidates!Unset
  <2>2. NotBetter("unset", "unset")
    BY Ranks DEF NotBetter
  <2>3. "unset" \notin {"STRONG_CANDIDATE", "GOOD_CANDIDATE"}
    OBVIOUS
  <2>4. JudgedIs(r)
    BY <2>1, <2>3 DEF JudgedIs
  <2> QED BY <2>1, <2>2, <2>4
<1>6. CASE o # -1000
  <2>1. /\ r.scores = a /\ r.overall = o /\ r.confidence = x
        /\ r.recommendation = Candidates!BandFor(o, x)
        /\ s.overall = p /\ s.confidence = y /\ s.recommendation = Candidates!BandFor(p, y)
    BY <1>2, <1>4, <1>6 DEF Candidates!Absent
  <2>2. /\ x \in Nat /\ y \in Nat /\ y <= x
        /\ x >= 60 => 10 * Candidates!Covered(a) >= 6 * Candidates!Total
    BY <1>1, <1>2, <1>3, <1>6, ConfidenceFades
  <2>3. o \in Int /\ p \in Int /\ p <= o /\ x \in Int /\ y \in Int /\ o \in Nat
    BY <1>2, <1>6, <2>2
  <2>4. /\ NotBetter(Candidates!BandFor(p, y), Candidates!BandFor(o, x))
        /\ Candidates!BandFor(o, x) \in Recommendations
        /\ Candidates!BandFor(o, x) \in {"STRONG_CANDIDATE", "GOOD_CANDIDATE"} => x >= 60
    <3>1. PICK i \in Int, j \in Int, m \in Int, n \in Int : i = o /\ j = p /\ m = x /\ n = y
      BY <2>3
    <3>2. j <= i /\ n <= m
      BY <2>2, <2>3, <3>1
    <3>3. /\ NotBetter(Candidates!BandFor(j, n), Candidates!BandFor(i, m))
          /\ Candidates!BandFor(i, m) \in Recommendations
          /\ Candidates!BandFor(i, m) \in {"STRONG_CANDIDATE", "GOOD_CANDIDATE"} => m >= 60
      BY <3>2, BandFades
    <3> QED BY <3>1, <3>3
  <2>5. JudgedIs(r)
    BY <2>1, <2>2, <2>3, <2>4 DEF JudgedIs
  <2> QED BY <2>1, <2>2, <2>3, <2>4, <2>5
<1> QED BY <1>5, <1>6

-----------------------------------------------------------------------------
\* What an operator recorded about the supplier
SheetIs(x) ==
    /\ x.availability \in {"AVAILABLE", "UNAVAILABLE", "UNKNOWN"}
    /\ x.checkedAt \in Int

LEMMA CheckAges ==
    ASSUME NEW x, SheetIs(x), NEW at \in Int, NEW later \in Int, at <= later
    PROVE  /\ Candidates!CheckFreshness(x.checkedAt, at) \in {"FRESH", "AGING", "STALE", "UNKNOWN"}
           /\ Candidates!CheckFreshness(x.checkedAt, at) = "STALE"
                => Candidates!CheckFreshness(x.checkedAt, later) = "STALE"
           /\ Candidates!CheckFreshness(x.checkedAt, at) = "AGING"
                => Candidates!CheckFreshness(x.checkedAt, later) \in {"AGING", "STALE"}
           /\ Candidates!CheckFreshness(x.checkedAt, later) \in {"FRESH", "AGING", "STALE",
                "UNKNOWN"}
<1>1. PICK seen \in Int : seen = x.checkedAt
  BY DEF SheetIs
<1>2. PICK a \in Int, b \in Int : a = at - seen /\ b = later - seen /\ a <= b
  OBVIOUS
<1>3. /\ Candidates!CheckFreshness(x.checkedAt, at) =
           IF seen = -1 THEN "UNKNOWN" ELSE IF a <= 72 THEN "FRESH" ELSE IF a <= 144 THEN "AGING"
               ELSE "STALE"
      /\ Candidates!CheckFreshness(x.checkedAt, later) =
           IF seen = -1 THEN "UNKNOWN" ELSE IF b <= 72 THEN "FRESH" ELSE IF b <= 144 THEN "AGING"
               ELSE "STALE"
  BY <1>1, <1>2 DEF Candidates!CheckFreshness, Candidates!ResolveFreshness,
                    Candidates!ManualAvailabilityFreshHours, Candidates!Never
<1> QED BY <1>2, <1>3

\* What a sheet of something available says, while it counts and once it does not
LEMMA SaysAre ==
    ASSUME NEW x, SheetIs(x), NEW t \in Int
    PROVE  /\ x.availability = "UNAVAILABLE"
                => Candidates!CurrentSourceability(x, t) = "NOT_SOURCEABLE"
           /\ x.availability = "UNKNOWN" => Candidates!CurrentSourceability(x, t) = "UNVERIFIED"
           /\ x.availability = "AVAILABLE" =>
                 Candidates!CurrentSourceability(x, t) =
                    IF Candidates!CheckFreshness(x.checkedAt, t) = "STALE" THEN "NEEDS_RECHECK"
                    ELSE IF Candidates!VariantCoverageOf(x.rows) = "NONE" THEN "NOT_SOURCEABLE"
                    ELSE IF Candidates!VariantCoverageOf(x.rows) = "PARTIAL"
                        THEN "PARTIALLY_SOURCEABLE"
                    ELSE "SOURCEABLE"
BY DEF SheetIs, Candidates!CurrentSourceability

\* The older the sheet, the more of the confidence it takes.
LEMMA SheetPenaltyGrows ==
    ASSUME NEW x, SheetIs(x), NEW at \in Int, NEW later \in Int, at <= later
    PROVE  /\ Candidates!ConfidencePenalty(x, at) \in Nat
           /\ Candidates!ConfidencePenalty(x, later) \in Nat
           /\ Candidates!ConfidencePenalty(x, at) <= Candidates!ConfidencePenalty(x, later)
<1> DEFINE Says(t) == Candidates!CurrentSourceability(x, t)
           Age(t) == Candidates!CheckFreshness(x.checkedAt, t)
           Fee(t) == (IF Says(t) = "PARTIALLY_SOURCEABLE" THEN 10 ELSE 0)
                       + (IF x.manual /\ Age(t) = "AGING" THEN 5 ELSE 0)
<1>1. CASE x.availability = "UNAVAILABLE"
  <2>1. \A t \in Int : Says(t) = "NOT_SOURCEABLE"
    BY <1>1, SaysAre
  <2>2. \A t \in Int : Candidates!ConfidencePenalty(x, t) = 0
    BY <1>1, <2>1 DEF Candidates!ConfidencePenalty
  <2> QED BY <2>2
<1>2. CASE x.availability = "UNKNOWN"
  <2>1. \A t \in Int : Says(t) = "UNVERIFIED"
    BY <1>2, SaysAre
  <2>2. \A t \in Int : Candidates!ConfidencePenalty(x, t) = 25
    BY <1>2, <2>1 DEF Candidates!ConfidencePenalty
  <2> QED BY <2>2
<1>3. CASE x.availability = "AVAILABLE"
  <2>1. PICK m : m = x.manual
    OBVIOUS
  <2>2. PICK c : c = Candidates!VariantCoverageOf(x.rows)
    OBVIOUS
  <2>3. \A t \in Int : Says(t) = IF Age(t) = "STALE" THEN "NEEDS_RECHECK"
                                 ELSE IF c = "NONE" THEN "NOT_SOURCEABLE"
                                 ELSE IF c = "PARTIAL" THEN "PARTIALLY_SOURCEABLE" ELSE "SOURCEABLE"
    BY <1>3, <2>2, SaysAre
  <2>4. \A t : Candidates!ConfidencePenalty(x, t) =
                 IF Says(t) \in {"UNVERIFIED", "NEEDS_RECHECK"} THEN 25 ELSE Fee(t)
    BY <1>3 DEF Candidates!ConfidencePenalty
  <2>5. \A t \in Int : Candidates!ConfidencePenalty(x, t) =
                 IF Age(t) = "STALE" THEN 25
                 ELSE (IF c = "PARTIAL" THEN 10 ELSE 0) + (IF m /\ Age(t) = "AGING" THEN 5 ELSE 0)
    <3> TAKE t \in Int
    <3>1. PICK age, says : age = Age(t) /\ says = Says(t)
      OBVIOUS
    <3>2. Candidates!ConfidencePenalty(x, t) =
            IF says \in {"UNVERIFIED", "NEEDS_RECHECK"} THEN 25
            ELSE (IF says = "PARTIALLY_SOURCEABLE" THEN 10 ELSE 0)
                + (IF m /\ age = "AGING" THEN 5 ELSE 0)
      <4> HIDE DEF Says, Age
      <4> QED BY <2>1, <2>4, <3>1, Zenon
    <3>3. says = IF age = "STALE" THEN "NEEDS_RECHECK" ELSE IF c = "NONE" THEN "NOT_SOURCEABLE"
                 ELSE IF c = "PARTIAL" THEN "PARTIALLY_SOURCEABLE" ELSE "SOURCEABLE"
      <4> HIDE DEF Says, Age
      <4> QED BY <2>3, <3>1
    <3>4. Candidates!ConfidencePenalty(x, t) =
            IF age = "STALE" THEN 25
            ELSE (IF c = "PARTIAL" THEN 10 ELSE 0) + (IF m /\ age = "AGING" THEN 5 ELSE 0)
      <4> HIDE DEF Says, Age
      <4> QED BY <3>2, <3>3
    <3> QED BY <3>1, <3>4, Zenon
  <2>6. /\ Age(at) = "STALE" => Age(later) = "STALE"
        /\ Age(at) = "AGING" => Age(later) \in {"AGING", "STALE"}
    BY CheckAges
  <2> HIDE DEF Says, Age, Fee
  <2> QED BY <2>5, <2>6
<1> QED BY <1>1, <1>2, <1>3 DEF SheetIs

\* What the gate makes of a recommendation later is not better, but where all variants are out.
LEMMA GateFades ==
    ASSUME SheetIs(v3), NEW at \in Int, NEW later \in Int, at <= later,
           NEW r, NEW s, NotBetter(s, r)
    PROVE  Candidates!Rank(Candidates!ApplySourceabilityGate(s, v3, later))
             <= Candidates!Larger(Candidates!Rank(Candidates!ApplySourceabilityGate(r, v3, at)),
                                  IF Candidates!AllVariantsOut
                                      THEN Candidates!RecommendationRank["WATCH"] ELSE -1)
<1>1. PICK now, then : /\ now = Candidates!CurrentSourceability(v3, at)
                       /\ then = Candidates!CurrentSourceability(v3, later)
  OBVIOUS
<1>2. PICK g, h : /\ g = Candidates!ApplySourceabilityGate(r, v3, at)
                  /\ h = Candidates!ApplySourceabilityGate(s, v3, later)
  OBVIOUS
<1>3. /\ g = IF r = "unset" THEN "unset" ELSE IF now = "NOT_SOURCEABLE" THEN "REJECT"
             ELSE IF now \in {"UNVERIFIED", "NEEDS_RECHECK"} THEN Candidates!CapAt(r, "WATCH")
                 ELSE r
      /\ h = IF s = "unset" THEN "unset" ELSE IF then = "NOT_SOURCEABLE" THEN "REJECT"
             ELSE IF then \in {"UNVERIFIED", "NEEDS_RECHECK"} THEN Candidates!CapAt(s, "WATCH")
                 ELSE s
  BY <1>1, <1>2 DEF Candidates!ApplySourceabilityGate, Candidates!Unset
<1>4. PICK out : out = IF Candidates!AllVariantsOut THEN 2 ELSE -1
  OBVIOUS
<1>5. Candidates!RecommendationRank["WATCH"] = 2
  BY DEF Candidates!RecommendationRank
<1>6. Candidates!Rank(g) \in Int /\ Candidates!Rank(h) \in Int /\ out \in Int
      /\ (Candidates!Rank(h) <= Candidates!Rank(g) \/ Candidates!Rank(h) <= out)
  <2>1. CASE r = "unset"
    <3>1. g = "unset" /\ h = "unset"
      BY <1>3, <2>1 DEF NotBetter
    <3> QED BY <1>4, <3>1, Ranks
  <2>2. CASE r # "unset"
    <3>1. /\ r \in Recommendations /\ s \in Recommendations /\ s # "unset"
          /\ Candidates!Rank(s) <= Candidates!Rank(r) /\ "REJECT" \in Recommendations
      BY <2>2 DEF NotBetter, Recommendations
    <3>2. /\ g = IF now = "NOT_SOURCEABLE" THEN "REJECT"
                 ELSE IF now \in {"UNVERIFIED", "NEEDS_RECHECK"} THEN Candidates!CapAt(r, "WATCH")
                     ELSE r
          /\ h = IF then = "NOT_SOURCEABLE" THEN "REJECT"
                 ELSE IF then \in {"UNVERIFIED", "NEEDS_RECHECK"}
                     THEN Candidates!CapAt(s, "WATCH") ELSE s
      BY <1>3, <2>2, <3>1
    <3>3. PICK cr, cs : cr = Candidates!CapAt(r, "WATCH") /\ cs = Candidates!CapAt(s, "WATCH")
      OBVIOUS
    <3>4. /\ cr \in {r, "WATCH"} /\ cs \in {s, "WATCH"}
          /\ Candidates!Rank(cr) <= 2 /\ Candidates!Rank(cs) <= 2
          /\ Candidates!Rank(cs) <= Candidates!Rank(s)
          /\ (Candidates!Rank(r) <= 2 => cr = r)
      BY <3>1, <3>3, CapsAre
    <3>5. cr \in Recommendations /\ cs \in Recommendations
      BY <3>1, <3>4 DEF Recommendations
    <3>6. Candidates!Rank(cs) <= Candidates!Rank(cr)
      <4>1. CASE Candidates!Rank(r) <= 2
        BY <3>1, <3>4, <3>5, <4>1, Ranks
      <4>2. CASE ~(Candidates!Rank(r) <= 2)
        <5>1. cr = "WATCH"
          BY <3>1, <3>3, <4>2, CapsAre
        <5> QED BY <3>4, <5>1, Ranks
      <4> QED BY <4>1, <4>2
    <3>7. /\ Candidates!Rank("REJECT") = 0
          /\ \A x \in {r, s, cr, cs} : Candidates!Rank(x) \in 0..4
      BY <3>1, <3>5, Ranks
    <3>8. CASE v3.availability = "UNAVAILABLE"
      <4>1. now = "NOT_SOURCEABLE" /\ then = "NOT_SOURCEABLE"
        BY <1>1, <3>8, SaysAre
      <4> QED BY <1>4, <3>2, <3>7, <4>1
    <3>9. CASE v3.availability = "UNKNOWN"
      <4>1. now = "UNVERIFIED" /\ then = "UNVERIFIED"
        BY <1>1, <3>9, SaysAre
      <4>2. g = cr /\ h = cs
        BY <3>2, <3>3, <4>1
      <4> QED BY <1>4, <3>6, <3>7, <4>2
    <3>10. CASE v3.availability = "AVAILABLE"
      <4>1. PICK c : c = Candidates!VariantCoverageOf(v3.rows)
        OBVIOUS
      <4>2. PICK a, b : /\ a = Candidates!CheckFreshness(v3.checkedAt, at)
                        /\ b = Candidates!CheckFreshness(v3.checkedAt, later)
        OBVIOUS
      <4>3. /\ now = IF a = "STALE" THEN "NEEDS_RECHECK" ELSE IF c = "NONE" THEN "NOT_SOURCEABLE"
                     ELSE IF c = "PARTIAL" THEN "PARTIALLY_SOURCEABLE" ELSE "SOURCEABLE"
            /\ then = IF b = "STALE" THEN "NEEDS_RECHECK" ELSE IF c = "NONE" THEN "NOT_SOURCEABLE"
                      ELSE IF c = "PARTIAL" THEN "PARTIALLY_SOURCEABLE" ELSE "SOURCEABLE"
        BY <1>1, <3>10, <4>1, <4>2, SaysAre
      <4>4. a = "STALE" => b = "STALE"
        BY <4>2, CheckAges
      <4>5. out = IF c = "NONE" THEN 2 ELSE -1
        BY <1>4, <3>10, <4>1 DEF Candidates!AllVariantsOut
      <4>6. CASE a = "STALE"
        <5>1. g = cr /\ h = cs
          BY <3>2, <3>3, <4>3, <4>4, <4>6
        <5> QED BY <3>6, <3>7, <4>5, <5>1
      <4>7. CASE a # "STALE" /\ c = "NONE"
        <5>1. g = "REJECT" /\ h \in {"REJECT", cs}
          BY <3>2, <3>3, <4>3, <4>7
        <5> QED BY <3>4, <3>7, <4>5, <4>7, <5>1
      <4>8. CASE a # "STALE" /\ c # "NONE"
        <5>1. g = r /\ h \in {s, cs}
          BY <3>2, <3>3, <4>3, <4>8
        <5> QED BY <3>1, <3>4, <3>7, <4>5, <5>1
      <4> QED BY <4>6, <4>7, <4>8
    <3> QED BY <3>8, <3>9, <3>10 DEF SheetIs
  <2> QED BY <2>1, <2>2
<1>7. Candidates!Rank(h) <= Candidates!Larger(Candidates!Rank(g), out)
  <2>1. PICK x \in Int, y \in Int : x = Candidates!Rank(g) /\ y = Candidates!Rank(h)
    BY <1>6
  <2> QED BY <1>6, <2>1 DEF Candidates!Larger
<1> QED BY <1>2, <1>4, <1>5, <1>7, Zenon

-----------------------------------------------------------------------------
\* The store's history, fields and all
ParcelIs(f) ==
    /\ f = [display |-> f.display, record |-> f.record, made |-> f.made, eta |-> f.eta,
            moved |-> f.moved, arrived |-> f.arrived, number |-> f.number]
    /\ f.made \in Int /\ f.eta \in Int

OrderIs(x) ==
    /\ x = [status |-> x.status, financial |-> x.financial, cancelled |-> x.cancelled,
            made |-> x.made, parcels |-> x.parcels]
    /\ x.made \in Int
    /\ x.parcels = {} \/ \E f : x.parcels = {f} /\ ParcelIs(f)

BookIs(book) ==
    /\ book = [b \in Batches |-> book[b]]
    /\ \A b \in Batches : book[b] = Candidates!Unsold \/ OrderIs(book[b])

ResearchInv ==
    /\ Figures /\ SheetIs(v3) /\ BookIs(v4) /\ JudgedIs(v6) /\ v7 \in Nat

LEMMA BookHasHistory == ASSUME NEW book, BookIs(book) PROVE History(book)
<1>1. \A x : OrderIs(x) => HistoryOrder(x)
  BY DEF OrderIs, HistoryOrder, ParcelIs
<1> QED BY <1>1 DEF BookIs, History

\* What is called good was researched, and the supplier has it now.
LEMMA GoodIsResearched == ASSUME ResearchInv PROVE Candidates!RecommendedIsResearched
<1>1. PICK r, says, g : /\ r = v6.recommendation /\ says = Candidates!CurrentSourceability(v3, v7)
                        /\ g = Candidates!FinalRecommendationOf(v6, v7)
  OBVIOUS
<1>2. g = IF r = "unset" THEN "unset" ELSE IF says = "NOT_SOURCEABLE" THEN "REJECT"
          ELSE IF says \in {"UNVERIFIED", "NEEDS_RECHECK"} THEN Candidates!CapAt(r, "WATCH") ELSE r
  BY <1>1 DEF Candidates!FinalRecommendationOf, Candidates!ApplySourceabilityGate, Candidates!Unset
<1>3. r \in Recommendations \cup {"unset"}
  BY <1>1 DEF ResearchInv, JudgedIs
<1>4. ASSUME g \in {"STRONG_CANDIDATE", "GOOD_CANDIDATE"}
      PROVE  g = r /\ says \notin {"NOT_SOURCEABLE", "UNVERIFIED", "NEEDS_RECHECK"}
  <2>1. r # "unset" /\ r \in Recommendations /\ says # "NOT_SOURCEABLE"
    BY <1>2, <1>3, <1>4
  <2>2. ASSUME says \in {"UNVERIFIED", "NEEDS_RECHECK"} PROVE FALSE
    <3>1. g = Candidates!CapAt(r, "WATCH")
      BY <1>2, <2>1, <2>2
    <3>2. Candidates!Rank(g) <= 2
      BY <2>1, <3>1, CapsAre
    <3> QED BY <1>4, <3>2, Ranks
  <2> QED BY <1>2, <2>1, <2>2
<1>5. says \in {"NOT_SOURCEABLE", "UNVERIFIED", "NEEDS_RECHECK", "SOURCEABLE",
          "PARTIALLY_SOURCEABLE"}
  <2>1. v7 \in Int /\ SheetIs(v3)
    BY DEF ResearchInv
  <2> QED BY <1>1, <2>1, SaysAre DEF SheetIs
<1>6. g \in {"STRONG_CANDIDATE", "GOOD_CANDIDATE"} =>
         /\ 10 * Candidates!Covered(v6.scores) >= 6 * Candidates!Total
         /\ Candidates!PushEligible(v3, v7)
  <2> SUFFICES ASSUME g \in {"STRONG_CANDIDATE", "GOOD_CANDIDATE"}
               PROVE  /\ 10 * Candidates!Covered(v6.scores) >= 6 * Candidates!Total
                      /\ Candidates!PushEligible(v3, v7)
    OBVIOUS
  <2>1. v6.recommendation \in {"STRONG_CANDIDATE", "GOOD_CANDIDATE"}
    BY <1>1, <1>4
  <2>2. 10 * Candidates!Covered(v6.scores) >= 6 * Candidates!Total
    BY <2>1 DEF ResearchInv, JudgedIs
  <2>3. Candidates!PushEligible(v3, v7)
    BY <1>1, <1>4, <1>5 DEF Candidates!PushEligible
  <2> QED BY <2>2, <2>3
<1> QED BY <1>1, <1>6, Zenon DEF Candidates!RecommendedIsResearched

\* Time alone improves no verdict.
LEMMA WaitingHelpsNobody ==
    ASSUME ResearchInv, NEW hours \in Waits,
           NEW now, now = Candidates!Verdict(v4, v7), NEW then,
               then = Candidates!Verdict(v4, v7 + hours)
    PROVE  /\ then.overall <= now.overall
           /\ \A pair \in {<<now, then>>, <<v6, v6>>} :
                /\ Candidates!FinalConfidence(pair[2], v7 + hours)
                     <= Candidates!FinalConfidence(pair[1], v7)
                /\ Candidates!Rank(Candidates!FinalRecommendationOf(pair[2], v7 + hours))
                     <= Candidates!Larger(Candidates!Rank(Candidates!FinalRecommendationOf(pair[1], v7)),
                          IF Candidates!AllVariantsOut THEN Candidates!RecommendationRank["WATCH"]
                              ELSE -1)
<1>1. PICK later \in Nat : later = v7 + hours /\ v7 <= later /\ v7 \in Nat /\ v7 \in Int
          /\ later \in Int
  BY ResearchAssumption DEF ResearchInv
<1>2. PICK sooner, after : sooner = Candidates!Verdict(v4, v7)
          /\ after = Candidates!Verdict(v4, later)
  OBVIOUS
<1>3. /\ JudgedIs(sooner) /\ after.overall <= sooner.overall
      /\ after.confidence \in Nat /\ after.confidence <= sooner.confidence
      /\ NotBetter(after.recommendation, sooner.recommendation)
  <2>1. Figures /\ History(v4)
    BY BookHasHistory DEF ResearchInv
  <2> QED BY <1>1, <1>2, <2>1, VerdictFades
<1>4. NotBetter(v6.recommendation, v6.recommendation) /\ v6.confidence \in Nat
  <2>1. v6.recommendation \in Recommendations \cup {"unset"} /\ v6.confidence \in Nat
    BY DEF ResearchInv, JudgedIs
  <2>2. Candidates!Rank(v6.recommendation) \in Int
    BY <2>1, Ranks
  <2> QED BY <2>1, <2>2 DEF NotBetter
<1>5. SheetIs(v3)
  BY DEF ResearchInv
<1> DEFINE Bound(v) == Candidates!Larger(Candidates!Rank(Candidates!FinalRecommendationOf(v, v7)),
                          IF Candidates!AllVariantsOut THEN Candidates!RecommendationRank["WATCH"]
                              ELSE -1)
<1>6. ASSUME NEW p, NEW q, NotBetter(q.recommendation, p.recommendation),
             p.confidence \in Nat, q.confidence \in Nat, q.confidence <= p.confidence
      PROVE  /\ Candidates!FinalConfidence(q, later) <= Candidates!FinalConfidence(p, v7)
             /\ Candidates!Rank(Candidates!FinalRecommendationOf(q, later)) <= Bound(p)
  <2>1. PICK x \in Nat, y \in Nat : /\ x = Candidates!ConfidencePenalty(v3, v7)
                                    /\ y = Candidates!ConfidencePenalty(v3, later) /\ x <= y
    BY <1>1, <1>5, SheetPenaltyGrows
  <2>2. PICK c \in Nat, d \in Nat : c = p.confidence /\ d = q.confidence /\ d <= c
    BY <1>6
  <2>3. Candidates!FinalConfidence(q, later) <= Candidates!FinalConfidence(p, v7)
    <3>1. Candidates!FinalConfidence(q, later) = Candidates!Larger(0, d - y)
      BY <2>1, <2>2, Zenon DEF Candidates!FinalConfidence
    <3>2. Candidates!FinalConfidence(p, v7) = Candidates!Larger(0, c - x)
      BY <2>1, <2>2, Zenon DEF Candidates!FinalConfidence
    <3>3. PICK e \in Int, f \in Int : e = c - x /\ f = d - y /\ f <= e
      BY <2>1, <2>2
    <3>4. Candidates!Larger(0, f) <= Candidates!Larger(0, e)
      BY <3>3 DEF Candidates!Larger
    <3> QED BY <3>1, <3>2, <3>3, <3>4
  <2>4. PICK r, s : r = p.recommendation /\ s = q.recommendation /\ NotBetter(s, r)
    BY <1>6
  <2>5. Candidates!Rank(Candidates!ApplySourceabilityGate(s, v3, later))
             <= Candidates!Larger(Candidates!Rank(Candidates!ApplySourceabilityGate(r, v3, v7)),
                                  IF Candidates!AllVariantsOut
                                      THEN Candidates!RecommendationRank["WATCH"] ELSE -1)
    BY <1>1, <1>5, <2>4, GateFades
  <2>6. /\ Candidates!FinalRecommendationOf(q, later)
            = Candidates!ApplySourceabilityGate(s, v3, later)
        /\ Candidates!FinalRecommendationOf(p, v7) = Candidates!ApplySourceabilityGate(r, v3, v7)
    BY <2>4, Zenon DEF Candidates!FinalRecommendationOf
  <2> QED BY <2>3, <2>5, <2>6, Zenon
<1>7. \A a, b, c, d : \A pair \in {<<a, b>>, <<c, d>>} :
         (pair[1] = a /\ pair[2] = b) \/ (pair[1] = c /\ pair[2] = d)
  OBVIOUS
<1>8. \A pair \in {<<sooner, after>>, <<v6, v6>>} :
         /\ Candidates!FinalConfidence(pair[2], later) <= Candidates!FinalConfidence(pair[1], v7)
         /\ Candidates!Rank(Candidates!FinalRecommendationOf(pair[2], later)) <= Bound(pair[1])
  <2>1. /\ Candidates!FinalConfidence(after, later) <= Candidates!FinalConfidence(sooner, v7)
        /\ Candidates!Rank(Candidates!FinalRecommendationOf(after, later)) <= Bound(sooner)
    <3>1. sooner.confidence \in Nat
      BY <1>3 DEF JudgedIs
    <3> HIDE DEF Bound
    <3> QED BY <1>3, <1>6, <3>1
  <2>2. /\ Candidates!FinalConfidence(v6, later) <= Candidates!FinalConfidence(v6, v7)
        /\ Candidates!Rank(Candidates!FinalRecommendationOf(v6, later)) <= Bound(v6)
    <3>1. v6.confidence <= v6.confidence
      BY <1>4
    <3> HIDE DEF Bound
    <3> QED BY <1>4, <1>6, <3>1
  <2> TAKE pair \in {<<sooner, after>>, <<v6, v6>>}
  <2>3. (pair[1] = sooner /\ pair[2] = after) \/ (pair[1] = v6 /\ pair[2] = v6)
    BY <1>7
  <2> HIDE DEF Bound
  <2>4. CASE pair[1] = sooner /\ pair[2] = after
    BY <2>1, <2>4, Zenon
  <2>5. CASE pair[1] = v6 /\ pair[2] = v6
    BY <2>2, <2>5, Zenon
  <2> QED BY <2>3, <2>4, <2>5
<1>9. v7 + hours = later /\ now = sooner /\ then = after
  BY <1>1, <1>2
<1> HIDE DEF Bound
<1>10. /\ then.overall <= now.overall
       /\ \A pair \in {<<now, then>>, <<v6, v6>>} :
            /\ Candidates!FinalConfidence(pair[2], v7 + hours)
                 <= Candidates!FinalConfidence(pair[1], v7)
            /\ Candidates!Rank(Candidates!FinalRecommendationOf(pair[2], v7 + hours))
                 <= Bound(pair[1])
  BY <1>3, <1>8, <1>9
<1> QED BY <1>10 DEF Bound

LEMMA WaitingHelpsNever == ASSUME ResearchInv PROVE Candidates!WaitingNeverHelps
BY WaitingHelpsNobody, Zenon DEF Candidates!WaitingNeverHelps

-----------------------------------------------------------------------------
LEMMA SheetsAre ==
    /\ SheetIs(Candidates!EmptySupplierInfo)
    /\ \A s \in Sheets, t \in Nat : SheetIs([s EXCEPT !.checkedAt = t])
<1>1. SheetIs(Candidates!EmptySupplierInfo)
  BY DEF SheetIs, Candidates!EmptySupplierInfo, Candidates!Never
<1>2. ASSUME NEW s \in Sheets, NEW t \in Nat PROVE SheetIs([s EXCEPT !.checkedAt = t])
  <2>1. PICK rows : s \in [availability : {"AVAILABLE", "UNAVAILABLE", "UNKNOWN"}, checkedAt : Int,
                           manual : BOOLEAN, rows : {rows}]
    BY ResearchAssumption
  <2>2. PICK x : x = [s EXCEPT !.checkedAt = t]
    OBVIOUS
  <2>3. x.availability = s.availability /\ x.checkedAt = t
    BY <2>1, <2>2
  <2> QED BY <2>1, <2>2, <2>3 DEF SheetIs
<1> QED BY <1>1, <1>2

LEMMA BookStays ==
    ASSUME BookIs(v4), NEW b \in Batches, NEW x, OrderIs(x), v4' = [v4 EXCEPT ![b] = x]
    PROVE  BookIs(v4')
<1>1. v4' = [p \in Batches |-> IF p = b THEN x ELSE v4[p]]
  BY DEF BookIs
<1>2. PICK w : w = v4'
  OBVIOUS
<1>3. w = [p \in Batches |-> w[p]] /\ \A p \in Batches : w[p] = IF p = b THEN x ELSE v4[p]
  BY <1>1, <1>2
<1>4. \A p \in Batches : w[p] = Candidates!Unsold \/ OrderIs(w[p])
  BY <1>3 DEF BookIs
<1>5. BookIs(w)
  BY <1>3, <1>4 DEF BookIs
<1> QED BY <1>2, <1>5, Zenon

LEMMA ParcelsAre ==
    ASSUME v7 \in Nat
    PROVE  /\ ParcelIs(Candidates!InTransit)
           /\ OrderIs(Candidates!NewOrder)
           /\ OrderIs([Candidates!NewOrder EXCEPT !.parcels = {Candidates!InTransit}])
<1>1. PICK f : f = Candidates!InTransit
  OBVIOUS
<1>2. f = [display |-> "IN_TRANSIT", record |-> "SUCCESS", made |-> v7, eta |-> v7 + 100,
           moved |-> v7, arrived |-> -1, number |-> "1Z"]
  BY <1>1 DEF Candidates!InTransit, Candidates!NewParcel, Candidates!Missing
<1>3. ParcelIs(f)
  BY <1>2 DEF ParcelIs
<1>4. PICK x, no : /\ no = FALSE
                   /\ x = [status |-> "UNFULFILLED", financial |-> "PAID", cancelled |-> no,
                        made |-> v7,
                           parcels |-> {}]
  OBVIOUS
<1>5. x = Candidates!NewOrder
  BY <1>4, Zenon DEF Candidates!NewOrder
<1>6. OrderIs(x)
  BY <1>4 DEF OrderIs
<1>7. PICK y : y = [x EXCEPT !.parcels = {f}]
  OBVIOUS
<1>8. y = [status |-> x.status, financial |-> x.financial, cancelled |-> x.cancelled,
           made |-> x.made, parcels |-> {f}]
  BY <1>4, <1>7
<1>9. OrderIs(y)
  BY <1>3, <1>6, <1>8 DEF OrderIs
<1> QED BY <1>1, <1>3, <1>5, <1>6, <1>7, <1>9

\* An order that changes stays one.
LEMMA OrdersChange ==
    ASSUME NEW x, OrderIs(x), NEW e
    PROVE  /\ OrderIs([x EXCEPT !.financial = e]) /\ OrderIs([x EXCEPT !.cancelled = e])
           /\ \A f : ParcelIs(f) => OrderIs([x EXCEPT !.parcels = {f}])
<1>1. x = [status |-> x.status, financial |-> x.financial, cancelled |-> x.cancelled,
           made |-> x.made, parcels |-> x.parcels]
  BY DEF OrderIs
<1>2. OrderIs([x EXCEPT !.financial = e])
  <2>1. PICK y : y = [x EXCEPT !.financial = e]
    OBVIOUS
  <2>2. y = [status |-> x.status, financial |-> e, cancelled |-> x.cancelled, made |-> x.made,
             parcels |-> x.parcels]
    BY <1>1, <2>1
  <2> QED BY <2>1, <2>2 DEF OrderIs
<1>3. OrderIs([x EXCEPT !.cancelled = e])
  <2>1. PICK y : y = [x EXCEPT !.cancelled = e]
    OBVIOUS
  <2>2. y = [status |-> x.status, financial |-> x.financial, cancelled |-> e, made |-> x.made,
             parcels |-> x.parcels]
    BY <1>1, <2>1
  <2> QED BY <2>1, <2>2 DEF OrderIs
<1>4. ASSUME NEW f, ParcelIs(f) PROVE OrderIs([x EXCEPT !.parcels = {f}])
  <2>1. PICK y : y = [x EXCEPT !.parcels = {f}]
    OBVIOUS
  <2>2. y = [status |-> x.status, financial |-> x.financial, cancelled |-> x.cancelled,
             made |-> x.made, parcels |-> {f}]
    BY <1>1, <2>1
  <2> QED BY <1>4, <2>1, <2>2 DEF OrderIs
<1> QED BY <1>2, <1>3, <1>4

LEMMA ResearchStep == ASSUME ResearchInv, Candidates!ResearchNext PROVE ResearchInv'
<1>1. Figures /\ SheetIs(v3) /\ BookIs(v4) /\ JudgedIs(v6) /\ v7 \in Nat
  BY DEF ResearchInv
<1>2. ASSUME v1' = v1, v2' = v2, SheetIs(v3'), BookIs(v4'), JudgedIs(v6'), v7' \in Nat
      PROVE ResearchInv'
  <2>1. Figures'
    BY <1>1, <1>2 DEF Figures
  <2>2. SheetIs(v3)' /\ BookIs(v4)' /\ JudgedIs(v6)'
    <3>1. SheetIs(v3)' <=> SheetIs(v3')
      BY Zenon DEF SheetIs
    <3>2. BookIs(v4)' <=> BookIs(v4')
      BY Zenon DEF BookIs, OrderIs, ParcelIs
    <3>3. JudgedIs(v6)' <=> JudgedIs(v6')
      BY Zenon DEF JudgedIs
    <3> QED BY <1>2, <3>1, <3>2, <3>3
  <2> QED BY <1>2, <2>1, <2>2 DEF ResearchInv
<1>3. CASE Candidates!Analyse
  <2>1. /\ v6' = Candidates!Verdict(v4, v7)
        /\ v1' = v1 /\ v2' = v2 /\ v3' = v3 /\ v4' = v4 /\ v7' = v7
    BY <1>3 DEF Candidates!Analyse
  <2>2. JudgedIs(v6')
    <3>1. History(v4)
      BY <1>1, BookHasHistory
    <3>2. PICK t \in Nat : t = v7 /\ t <= t
      BY <1>1
    <3>3. PICK r : r = Candidates!Verdict(v4, t)
      OBVIOUS
    <3>4. JudgedIs(r)
      BY <1>1, <3>1, <3>2, <3>3, VerdictFades
    <3> QED BY <2>1, <3>2, <3>3, <3>4
  <2> QED BY <1>1, <1>2, <2>1, <2>2
<1>4. CASE \E s \in Sheets : Candidates!VerifySupplier(s)
  <2>1. PICK s \in Sheets : Candidates!VerifySupplier(s)
    BY <1>4
  <2>2. /\ v3' = [s EXCEPT !.checkedAt = v7]
        /\ v1' = v1 /\ v2' = v2 /\ v4' = v4 /\ v6' = v6 /\ v7' = v7
    BY <2>1 DEF Candidates!VerifySupplier, Candidates!Change
  <2>3. SheetIs(v3')
    BY <1>1, <2>2, SheetsAre
  <2> QED BY <1>1, <1>2, <2>2, <2>3
<1>5. CASE Candidates!ShopifyTurns
  <2>1. v1' = v1 /\ v2' = v2 /\ v3' = v3 /\ v4' = v4 /\ v6' = v6 /\ v7' = v7
    BY <1>5 DEF Candidates!ShopifyTurns, Candidates!Change
  <2> QED BY <1>1, <1>2, <2>1
<1>6. ASSUME NEW b \in Batches, NEW x, OrderIs(x), Candidates!Becomes(b, x) PROVE ResearchInv'
  <2>1. /\ v4' = [v4 EXCEPT ![b] = x]
        /\ v1' = v1 /\ v2' = v2 /\ v3' = v3 /\ v6' = v6 /\ v7' = v7
    BY <1>6 DEF Candidates!Becomes, Candidates!Change
  <2>2. BookIs(v4')
    BY <1>1, <1>6, <2>1, BookStays
  <2> QED BY <1>1, <1>2, <2>1, <2>2
<1>7. ASSUME NEW b \in Batches, v4[b] # Candidates!Unsold PROVE OrderIs(v4[b])
  BY <1>1, <1>7 DEF BookIs
<1>8. ASSUME NEW b \in Batches,
             \/ Candidates!Sell(b) \/ Candidates!Ship(b) \/ Candidates!Deliver(b)
             \/ Candidates!RefundInPart(b) \/ Candidates!RefundInFull(b) \/ Candidates!Cancel(b)
      PROVE  ResearchInv'
  <2>1. CASE Candidates!Sell(b)
    BY <1>1, <1>6, <2>1, ParcelsAre DEF Candidates!Sell
  <2>2. CASE Candidates!Ship(b)
    <3>1. OrderIs(v4[b])
      BY <1>7, <2>2 DEF Candidates!Ship, Candidates!Open
    <3>2. OrderIs([v4[b] EXCEPT !.parcels = {Candidates!InTransit}])
      BY <1>1, <3>1, OrdersChange, ParcelsAre
    <3> QED BY <1>6, <2>2, <3>2 DEF Candidates!Ship
  <2>3. CASE Candidates!Deliver(b)
    <3>1. OrderIs(v4[b]) /\ v4[b].parcels # {}
      BY <1>7, <2>3 DEF Candidates!Deliver, Candidates!Open
    <3>2. PICK f : v4[b].parcels = {f} /\ ParcelIs(f)
      BY <3>1 DEF OrderIs
    <3>3. PICK g : g = [f EXCEPT !.display = "DELIVERED", !.arrived = v7]
      OBVIOUS
    <3>4. g = [display |-> "DELIVERED", record |-> f.record, made |-> f.made, eta |-> f.eta,
               moved |-> f.moved, arrived |-> v7, number |-> f.number]
      BY <3>2, <3>3 DEF ParcelIs
    <3>5. ParcelIs(g)
      BY <3>2, <3>4 DEF ParcelIs
    <3>6. {[p EXCEPT !.display = "DELIVERED", !.arrived = v7] : p \in v4[b].parcels} = {g}
      BY <3>2, <3>3
    <3>7. PICK x : x = [v4[b] EXCEPT !.parcels =
                          {[p EXCEPT !.display = "DELIVERED", !.arrived = v7] :
                              p \in v4[b].parcels}]
      OBVIOUS
    <3>8. x = [v4[b] EXCEPT !.parcels = {g}]
      BY <3>6, <3>7
    <3>9. OrderIs(x)
      BY <3>1, <3>5, <3>8, OrdersChange
    <3>10. Candidates!Becomes(b, x)
      BY <2>3, <3>7, Zenon DEF Candidates!Deliver
    <3> QED BY <1>6, <3>9, <3>10
  <2>4. CASE Candidates!RefundInPart(b)
    <3>1. OrderIs(v4[b])
      BY <1>7, <2>4 DEF Candidates!RefundInPart, Candidates!Open
    <3>2. OrderIs([v4[b] EXCEPT !.financial = "PARTIALLY_REFUNDED"])
      BY <3>1, OrdersChange
    <3> QED BY <1>6, <2>4, <3>2 DEF Candidates!RefundInPart
  <2>5. CASE Candidates!RefundInFull(b)
    <3>1. OrderIs(v4[b])
      BY <1>7, <2>5 DEF Candidates!RefundInFull, Candidates!Open
    <3>2. OrderIs([v4[b] EXCEPT !.financial = "REFUNDED"])
      BY <3>1, OrdersChange
    <3> QED BY <1>6, <2>5, <3>2 DEF Candidates!RefundInFull
  <2>6. CASE Candidates!Cancel(b)
    <3>1. OrderIs(v4[b])
      BY <1>7, <2>6 DEF Candidates!Cancel, Candidates!Open
    <3>2. OrderIs([v4[b] EXCEPT !.cancelled = TRUE])
      BY <3>1, OrdersChange, Zenon
    <3> QED BY <1>6, <2>6, <3>2, Zenon DEF Candidates!Cancel
  <2> QED BY <1>8, <2>1, <2>2, <2>3, <2>4, <2>5, <2>6
<1>9. CASE \E hours \in Waits : Candidates!Wait(hours)
  <2>1. PICK hours \in Waits : Candidates!Wait(hours)
    BY <1>9
  <2>2. v7' = v7 + hours /\ v1' = v1 /\ v2' = v2 /\ v3' = v3 /\ v4' = v4 /\ v6' = v6
    BY <2>1 DEF Candidates!Wait
  <2>3. v7' \in Nat
    BY <1>1, <2>2, ResearchAssumption
  <2> QED BY <1>1, <1>2, <2>2, <2>3
<1> QED BY <1>3, <1>4, <1>5, <1>8, <1>9, Zenon DEF Candidates!ResearchNext

LEMMA ResearchStart == Candidates!ResearchInit => ResearchInv
<1> SUFFICES ASSUME Candidates!ResearchInit PROVE ResearchInv
  OBVIOUS
<1>1. Figures /\ v7 = 0 /\ v7 \in Nat /\ v3 = Candidates!EmptySupplierInfo
      /\ v6 = Candidates!NotAnalysed
  BY DEF Candidates!ResearchInit, Figures
<1>2. BookIs(v4)
  <2>1. v4 \in [Batches -> {Candidates!Unsold, Candidates!NewOrder,
                            [Candidates!NewOrder EXCEPT !.parcels = {Candidates!InTransit}]}]
    BY Zenon DEF Candidates!ResearchInit
  <2>2. PICK x, y : /\ x = Candidates!NewOrder
                    /\ y = [Candidates!NewOrder EXCEPT !.parcels = {Candidates!InTransit}]
    OBVIOUS
  <2>3. OrderIs(x) /\ OrderIs(y)
    BY <1>1, <2>2, ParcelsAre
  <2>4. v4 \in [Batches -> {Candidates!Unsold, x, y}]
    BY <2>1, <2>2
  <2> QED BY <2>3, <2>4 DEF BookIs
<1>3. JudgedIs(v6)
  <2>1. v6.overall = -1000 /\ v6.confidence = 0 /\ v6.recommendation = "unset"
    BY <1>1 DEF Candidates!NotAnalysed, Candidates!Absent, Candidates!Unset
  <2>2. "unset" \notin {"STRONG_CANDIDATE", "GOOD_CANDIDATE"}
    OBVIOUS
  <2> QED BY <2>1, <2>2 DEF JudgedIs
<1> QED BY <1>1, <1>2, <1>3, SheetsAre DEF ResearchInv

LEMMA ResearchRest == ResearchInv /\ UNCHANGED <<v1, v2, v3, v4, v6, v7>> => ResearchInv'
<1> SUFFICES ASSUME ResearchInv, UNCHANGED <<v1, v2, v3, v4, v6, v7>> PROVE ResearchInv'
  OBVIOUS
<1>1. v1' = v1 /\ v2' = v2 /\ v3' = v3 /\ v4' = v4 /\ v6' = v6 /\ v7' = v7
  OBVIOUS
<1>2. /\ Figures' <=> Figures
      /\ SheetIs(v3)' <=> SheetIs(v3)
      /\ JudgedIs(v6)' <=> JudgedIs(v6)
  BY <1>1 DEF Figures, SheetIs, JudgedIs
<1>3. BookIs(v4)' <=> BookIs(v4)
  BY <1>1, Zenon DEF BookIs, OrderIs, ParcelIs
<1> QED BY <1>1, <1>2, <1>3 DEF ResearchInv
=============================================================================
