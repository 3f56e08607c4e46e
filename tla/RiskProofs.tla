----------------------------- MODULE RiskProofs -----------------------------
(***************************************************************************)
(* Proofs about the limits, the payouts and the reports: the caps of       *)
(* placeBet (CapsInv is the inductive invariant), the circuit breaker, the *)
(* distribution of the crash points and the reconciliation of the reports. *)
(*                                                                         *)
(* All of them are about sums over the rows of the bets table. The first   *)
(* section proves what is needed of SumFunctionOnSet, by induction over    *)
(* the subsets of a finite set (SubsetInduction, with the claim given as a *)
(* set).                                                                   *)
(***************************************************************************)
EXTENDS Reporting, FiniteSetTheorems, WellFoundedInduction, TLAPS

(* ------------------------------------------------- sums over finite sets *)

\* A nonempty set of subsets of a finite set has a smallest element.
LEMMA Smallest ==
  ASSUME NEW S, IsFiniteSet(S), NEW T, T \subseteq SUBSET S, T # {}
  PROVE  \E x \in T : \A y \in T : y \subseteq x => y = x
<1>1. IsWellFoundedOn(StrictSubsetOrdering(S), FiniteSubsetsOf(S))
  BY FS_StrictSubsetOrderingWellFounded
<1>2. FiniteSubsetsOf(S) = SUBSET S
  BY FS_FiniteSubsetsOfFinite
<1>3. \E x \in T : \A y \in T : ~ (<<y, x>> \in StrictSubsetOrdering(S))
  BY <1>1, <1>2, WFMin
<1> QED BY <1>3 DEF StrictSubsetOrdering

Pick(s) == CHOOSE x \in s : TRUE

\* g is what the fold computes on the subsets of S.
Adds(f, S, g) == g = [s \in SUBSET S |-> IF s = {} THEN 0 ELSE f[Pick(s)] + g[s \ {Pick(s)}]]
Adder(f, S) == CHOOSE g : Adds(f, S, g)

\* SumFunctionOnSet is a CHOOSE of that function, applied to the whole set.
LEMMA SumUnfold ==
  ASSUME NEW f, NEW S
  PROVE  SumFunctionOnSet(f, S) = Adder(f, S)[S]
  BY DEF SumFunctionOnSet, FoldFunctionOnSet, MapThenFoldSet, Adder, Adds, Pick

\* The element the fold takes next is one of the set.
LEMMA PickIn ==
  ASSUME NEW s, s # {}
  PROVE  Pick(s) \in s
  BY DEF Pick

\* One step of the fold.
LEMMA AddsStep ==
  ASSUME NEW f, NEW S, NEW g, Adds(f, S, g), NEW s \in SUBSET S
  PROVE  g[s] = IF s = {} THEN 0 ELSE f[Pick(s)] + g[s \ {Pick(s)}]
<1> DEFINE E(t) == IF t = {} THEN 0 ELSE f[Pick(t)] + g[t \ {Pick(t)}]
<1>1. g = [t \in SUBSET S |-> E(t)]
  BY DEF Adds
<1>2. g[s] = [t \in SUBSET S |-> E(t)][s]
  BY <1>1
<1> HIDE DEF E
<1>3. [t \in SUBSET S |-> E(t)][s] = E(s)
  OBVIOUS
<1> QED BY <1>2, <1>3 DEF E

\* Two such functions agree where both are defined.
LEMMA AddsSame ==
  ASSUME NEW f, NEW S, IsFiniteSet(S), NEW U \in SUBSET S, NEW V \in SUBSET S,
         NEW g, NEW h, Adds(f, U, g), Adds(f, V, h), NEW s \in SUBSET U, s \in SUBSET V
  PROVE  g[s] = h[s]
<1> SUFFICES ASSUME g[s] # h[s] PROVE FALSE
  OBVIOUS
<1> DEFINE T == {t \in SUBSET U : t \in SUBSET V /\ g[t] # h[t]}
<1>1. T \subseteq SUBSET S /\ s \in T
  OBVIOUS
<1> HIDE DEF T
<1>2. PICK t \in T : \A y \in T : y \subseteq t => y = t
  BY <1>1, Smallest
<1> USE DEF T
<1>3. t \in SUBSET U /\ t \in SUBSET V /\ g[t] # h[t]
  BY <1>2
<1> HIDE DEF T
<1>4. g[t] = IF t = {} THEN 0 ELSE f[Pick(t)] + g[t \ {Pick(t)}]
  BY <1>3, AddsStep
<1>5. h[t] = IF t = {} THEN 0 ELSE f[Pick(t)] + h[t \ {Pick(t)}]
  BY <1>3, AddsStep
<1>6. t # {}
  BY <1>3, <1>4, <1>5
<1>7. t \ {Pick(t)} \subseteq t /\ t \ {Pick(t)} # t
  BY <1>6, PickIn
<1>8. t \ {Pick(t)} \notin T
  BY <1>2, <1>7
<1> USE DEF T
<1>9. g[t \ {Pick(t)}] = h[t \ {Pick(t)}]
  BY <1>3, <1>7, <1>8
<1> QED BY <1>3, <1>4, <1>5, <1>6, <1>9

\* The first step of the fold.
LEMMA AddsTop ==
  ASSUME NEW f, NEW S, NEW g, Adds(f, S, g)
  PROVE  g[S] = IF S = {} THEN 0 ELSE f[Pick(S)] + g[S \ {Pick(S)}]
  BY AddsStep

\* On a finite set such a function exists, so the CHOOSE finds one.
LEMMA AddsExists ==
  ASSUME NEW f, NEW S, IsFiniteSet(S)
  PROVE  Adds(f, S, Adder(f, S))
<1>1. SUFFICES ASSUME ~ \E g : Adds(f, S, g) PROVE FALSE
  BY DEF Adder
<1> DEFINE T == {t \in SUBSET S : ~ \E g : Adds(f, t, g)}
<1>2. T \subseteq SUBSET S /\ S \in T
  BY <1>1
<1> HIDE DEF T
<1>3. PICK t \in T : \A y \in T : y \subseteq t => y = t
  BY <1>2, Smallest
<1> USE DEF T
<1>4. t \subseteq S /\ ~ \E g : Adds(f, t, g)
  BY <1>3
<1>5. \A u \in SUBSET t : u # t => \E g : Adds(f, u, g)
  BY <1>3, <1>4
<1>6. \A u \in SUBSET t : u # t => Adds(f, u, Adder(f, u))
  BY <1>5 DEF Adder
<1> DEFINE V(s) == IF s = {} THEN 0 ELSE f[Pick(s)] + Adder(f, s \ {Pick(s)})[s \ {Pick(s)}]
           g == [s \in SUBSET t |-> V(s)]
           E(s) == IF s = {} THEN 0 ELSE f[Pick(s)] + g[s \ {Pick(s)}]
<1>7. ASSUME NEW s \in SUBSET t
      PROVE  V(s) = E(s)
  <2>1. CASE s = {}
    BY <2>1
  <2>2. CASE s # {}
    <3> DEFINE r == s \ {Pick(s)}
    <3>1. r \in SUBSET t /\ r # t /\ r # s
      BY <2>2, PickIn
    <3> HIDE DEF V, r
    <3>2. g[r] = V(r)
      BY <3>1
    <3> USE DEF V, r
    <3>3. Adds(f, r, Adder(f, r))
      BY <3>1, <1>6
    <3> HIDE DEF V, r, g
    <3>4. Adder(f, r)[r] = IF r = {} THEN 0 ELSE f[Pick(r)] + Adder(f, r)[r \ {Pick(r)}]
      BY <3>3, AddsTop
    <3> USE DEF V, r, g
    <3>5. Adder(f, r)[r] = V(r)
      <4>1. CASE r = {}
        BY <4>1, <3>4
      <4>2. CASE r # {}
        <5> DEFINE q == r \ {Pick(r)}
        <5>1. q \in SUBSET t /\ q # t /\ q \in SUBSET r
          BY <4>2, <3>1, PickIn
        <5>2. Adds(f, q, Adder(f, q))
          BY <5>1, <1>6
        <5>3. q \in SUBSET S /\ r \in SUBSET S /\ q \in SUBSET q
          BY <5>1, <3>1, <1>4
        <5> HIDE DEF q, r
        <5>4. Adder(f, r)[q] = Adder(f, q)[q]
          BY <5>1, <5>2, <5>3, <3>3, AddsSame
        <5> USE DEF q
        <5> QED BY <5>4, <4>2, <3>4
      <4> QED BY <4>1, <4>2
    <3> QED BY <3>2, <3>5, <2>2
  <2> QED BY <2>1, <2>2
<1> HIDE DEF V, E
<1>8. g = [s \in SUBSET t |-> E(s)]
  BY <1>7
<1>9. Adds(f, t, g)
  BY <1>8 DEF E, Adds
<1> QED BY <1>4, <1>9

\* The sum, one element at a time.
LEMMA SumPick ==
  ASSUME NEW f, NEW S, IsFiniteSet(S)
  PROVE  SumFunctionOnSet(f, S) =
           IF S = {} THEN 0 ELSE f[Pick(S)] + SumFunctionOnSet(f, S \ {Pick(S)})
<1> DEFINE R == S \ {Pick(S)}
<1>1. IsFiniteSet(R)
  BY FS_Subset
<1>2. Adds(f, S, Adder(f, S)) /\ Adds(f, R, Adder(f, R))
  BY <1>1, AddsExists
<1>3. Adder(f, S)[S] = IF S = {} THEN 0 ELSE f[Pick(S)] + Adder(f, S)[R]
  BY <1>2, AddsStep
<1>4. R \in SUBSET S /\ S \in SUBSET S /\ R \in SUBSET R
  OBVIOUS
<1> HIDE DEF R
<1>5. Adder(f, S)[R] = Adder(f, R)[R]
  BY <1>2, <1>4, AddsSame
<1>6. SumFunctionOnSet(f, S) = Adder(f, S)[S] /\ SumFunctionOnSet(f, R) = Adder(f, R)[R]
  BY SumUnfold
<1> QED BY <1>3, <1>5, <1>6 DEF R

\* Induction over a finite set, the claim given as the set P of the subsets it holds of.
LEMMA SubsetInduction ==
  ASSUME NEW S, IsFiniteSet(S), NEW P, {} \in P,
         \A t \in SUBSET S : t # {} /\ (\A x \in t : t \ {x} \in P) => t \in P
  PROVE  \A t \in SUBSET S : t \in P
<1> SUFFICES ASSUME NEW s \in SUBSET S, s \notin P PROVE FALSE
  OBVIOUS
<1> DEFINE T == {t \in SUBSET S : t \notin P}
<1>1. T \subseteq SUBSET S /\ s \in T
  OBVIOUS
<1> HIDE DEF T
<1>2. PICK t \in T : \A y \in T : y \subseteq t => y = t
  BY <1>1, Smallest
<1>3. t \in SUBSET S /\ t \notin P
  BY <1>2 DEF T
<1>4. t # {}
  BY <1>3
<1>5. PICK x \in t : t \ {x} \notin P
  BY <1>3, <1>4
<1>6. t \ {x} \in T
  BY <1>3, <1>5 DEF T
<1> QED BY <1>2, <1>6

\* The values of a function on a finite set are finitely many.
LEMMA ImageFinite ==
  ASSUME NEW f, NEW S, IsFiniteSet(S)
  PROVE  IsFiniteSet({f[x] : x \in S})
<1> DEFINE Im(t) == {f[x] : x \in t}
           P == {t \in SUBSET S : IsFiniteSet(Im(t))}
<1>1. {} \in P
  <2>1. Im({}) = {}
    OBVIOUS
  <2> QED BY <2>1, FS_EmptySet
<1>2. ASSUME NEW t \in SUBSET S, t # {}, \A x \in t : t \ {x} \in P
      PROVE  t \in P
  <2>1. PICK x \in t : TRUE
    BY <1>2
  <2>2. Im(t) = Im(t \ {x}) \cup {f[x]}
    OBVIOUS
  <2>3. IsFiniteSet(Im(t \ {x}))
    BY <1>2
  <2> HIDE DEF Im
  <2>4. IsFiniteSet(Im(t))
    <3>1. IsFiniteSet(Im(t \ {x}) \cup {f[x]})
      BY <2>3, FS_AddElement
    <3> QED BY <2>2, <3>1
  <2> QED BY <2>4
<1> HIDE DEF P
<1>3. \A t \in SUBSET S : t \in P
  BY <1>1, <1>2, SubsetInduction
<1> QED BY <1>3 DEF P

\* Nothing adds up to zero.
LEMMA SumEmpty ==
  ASSUME NEW f
  PROVE  SumFunctionOnSet(f, {}) = 0
  BY SumPick, FS_EmptySet

\* A sum of integers is an integer.
LEMMA SumInt ==
  ASSUME NEW f, NEW S, IsFiniteSet(S), \A x \in S : f[x] \in Int
  PROVE  \A t \in SUBSET S : SumFunctionOnSet(f, t) \in Int
<1> DEFINE P == {t \in SUBSET S : SumFunctionOnSet(f, t) \in Int}
<1>1. {} \in P
  BY SumEmpty
<1>2. ASSUME NEW t \in SUBSET S, t # {}, \A x \in t : t \ {x} \in P
      PROVE  t \in P
  <2>1. IsFiniteSet(t)
    BY FS_Subset
  <2>2. Pick(t) \in t
    BY <1>2, PickIn
  <2>3. SumFunctionOnSet(f, t) = f[Pick(t)] + SumFunctionOnSet(f, t \ {Pick(t)})
    BY <1>2, <2>1, SumPick
  <2>4. SumFunctionOnSet(f, t \ {Pick(t)}) \in Int /\ f[Pick(t)] \in Int
    BY <1>2, <2>2
  <2> QED BY <2>3, <2>4
<1> HIDE DEF P
<1>3. \A t \in SUBSET S : t \in P
  BY <1>1, <1>2, SubsetInduction
<1> QED BY <1>3 DEF P

\* The order of the summands does not matter: any one of them may come first.
LEMMA SumRemove ==
  ASSUME NEW f, NEW S, IsFiniteSet(S), \A x \in S : f[x] \in Int
  PROVE  \A t \in SUBSET S : \A x \in t : SumFunctionOnSet(f, t) = f[x] + SumFunctionOnSet(f, t \ {x})
<1> DEFINE Sum(t) == SumFunctionOnSet(f, t)
           P == {t \in SUBSET S : \A x \in t : Sum(t) = f[x] + Sum(t \ {x})}
<1>1. {} \in P
  OBVIOUS
<1>2. ASSUME NEW t \in SUBSET S, t # {}, \A x \in t : t \ {x} \in P
      PROVE  t \in P
  <2> SUFFICES ASSUME NEW x \in t PROVE Sum(t) = f[x] + Sum(t \ {x})
    OBVIOUS
  <2> DEFINE p == Pick(t)
  <2>1. IsFiniteSet(t)
    BY FS_Subset
  <2>2. p \in t
    BY <1>2, PickIn
  <2>3. Sum(t) = f[p] + Sum(t \ {p})
    BY <1>2, <2>1, SumPick
  <2>4. CASE x = p
    BY <2>3, <2>4
  <2>5. CASE x # p
    <3> HIDE DEF p, Sum
    <3>1. x \in t \ {p} /\ p \in t \ {x} /\ (t \ {p}) \ {x} = (t \ {x}) \ {p}
      BY <2>2, <2>5
    <3>2. Sum(t \ {p}) = f[x] + Sum((t \ {p}) \ {x})
      BY <1>2, <2>2, <3>1
    <3>3. Sum(t \ {x}) = f[p] + Sum((t \ {x}) \ {p})
      BY <1>2, <3>1
    <3>4. Sum((t \ {x}) \ {p}) \in Int
      BY SumInt DEF Sum
    <3>5. f[x] \in Int /\ f[p] \in Int
      BY <2>2
    <3>6. Sum((t \ {p}) \ {x}) = Sum((t \ {x}) \ {p})
      BY <3>1
    <3> QED BY <2>3, <3>2, <3>3, <3>4, <3>5, <3>6
  <2> QED BY <2>4, <2>5
<1> HIDE DEF P
<1>3. \A t \in SUBSET S : t \in P
  BY <1>1, <1>2, SubsetInduction
<1> QED BY <1>3 DEF P

\* A sum is taken apart at any element of its set.
LEMMA SumSplit ==
  ASSUME NEW f, NEW S, IsFiniteSet(S), \A x \in S : f[x] \in Int, NEW x \in S
  PROVE  /\ SumFunctionOnSet(f, S) \in Int /\ SumFunctionOnSet(f, S \ {x}) \in Int
         /\ SumFunctionOnSet(f, S) = f[x] + SumFunctionOnSet(f, S \ {x})
<1>1. S \in SUBSET S /\ S \ {x} \in SUBSET S
  OBVIOUS
<1> QED BY <1>1, SumInt, SumRemove

\* f <= g on S: the sums are in the same order; and where f = g, they are the same.
LEMMA SumLe ==
  ASSUME NEW f, NEW g, NEW S, IsFiniteSet(S),
         \A x \in S : f[x] \in Int /\ g[x] \in Int /\ f[x] <= g[x]
  PROVE  SumFunctionOnSet(f, S) <= SumFunctionOnSet(g, S)
<1> DEFINE F(t) == SumFunctionOnSet(f, t)
           G(t) == SumFunctionOnSet(g, t)
           P == {t \in SUBSET S : F(t) <= G(t)}
<1>1. {} \in P
  BY SumEmpty
<1>2. ASSUME NEW t \in SUBSET S, t # {}, \A x \in t : t \ {x} \in P
      PROVE  t \in P
  <2>1. PICK x \in t : TRUE
    BY <1>2
  <2>2. IsFiniteSet(t) /\ (\A y \in t : f[y] \in Int) /\ (\A y \in t : g[y] \in Int)
    BY FS_Subset
  <2>3. F(t) \in Int /\ F(t \ {x}) \in Int /\ F(t) = f[x] + F(t \ {x})
    BY <2>2, SumSplit
  <2>4. G(t) \in Int /\ G(t \ {x}) \in Int /\ G(t) = g[x] + G(t \ {x})
    BY <2>2, SumSplit
  <2>5. F(t \ {x}) <= G(t \ {x})
    BY <1>2
  <2> HIDE DEF F, G
  <2> QED BY <2>3, <2>4, <2>5
<1> HIDE DEF P
<1>3. \A t \in SUBSET S : t \in P
  BY <1>1, <1>2, SubsetInduction
<1> QED BY <1>3 DEF P

\* Equal summands make equal sums.
LEMMA SumSame ==
  ASSUME NEW f, NEW g, NEW S, IsFiniteSet(S), \A x \in S : f[x] \in Int /\ f[x] = g[x]
  PROVE  SumFunctionOnSet(f, S) = SumFunctionOnSet(g, S)
<1>1. SumFunctionOnSet(f, S) <= SumFunctionOnSet(g, S) /\ SumFunctionOnSet(g, S) <= SumFunctionOnSet(f, S)
  BY SumLe
<1>2. SumFunctionOnSet(f, S) \in Int /\ SumFunctionOnSet(g, S) \in Int
  BY SumInt
<1> QED BY <1>1, <1>2

\* The sum over two disjoint sets is the sum of the two sums.
LEMMA SumUnion ==
  ASSUME NEW f, NEW A, NEW B, IsFiniteSet(A), IsFiniteSet(B), A \cap B = {},
         \A x \in A \cup B : f[x] \in Int
  PROVE  SumFunctionOnSet(f, A \cup B) = SumFunctionOnSet(f, A) + SumFunctionOnSet(f, B)
<1> DEFINE F(t) == SumFunctionOnSet(f, t)
           P == {t \in SUBSET A : F(t \cup B) = F(t) + F(B)}
<1>0. F(B) \in Int
  BY SumInt
<1>1. {} \in P
  BY <1>0, SumEmpty
<1>2. ASSUME NEW t \in SUBSET A, t # {}, \A x \in t : t \ {x} \in P
      PROVE  t \in P
  <2>1. PICK x \in t : TRUE
    BY <1>2
  <2>2. IsFiniteSet(t) /\ IsFiniteSet(t \cup B)
    BY FS_Subset, FS_Union
  <2>3. F(t) \in Int /\ F(t \ {x}) \in Int /\ F(t) = f[x] + F(t \ {x})
    BY <2>2, SumSplit
  <2>4. x \in t \cup B /\ \A y \in t \cup B : f[y] \in Int
    OBVIOUS
  <2>5. F(t \cup B) = f[x] + F((t \cup B) \ {x})
    BY <2>2, <2>4, SumSplit
  <2>6. (t \cup B) \ {x} = (t \ {x}) \cup B
    OBVIOUS
  <2>7. F((t \ {x}) \cup B) = F(t \ {x}) + F(B)
    BY <1>2
  <2>8. f[x] \in Int
    OBVIOUS
  <2>9. F((t \cup B) \ {x}) = F(t \ {x}) + F(B)
    BY <2>6, <2>7
  <2> HIDE DEF F
  <2> QED BY <1>0, <2>3, <2>5, <2>8, <2>9
<1> HIDE DEF P
<1>3. \A t \in SUBSET A : t \in P
  BY <1>1, <1>2, SubsetInduction
<1> QED BY <1>3 DEF P

\* A sum of naturals is a natural.
LEMMA SumNat ==
  ASSUME NEW f, NEW S, IsFiniteSet(S), \A x \in S : f[x] \in Nat
  PROVE  SumFunctionOnSet(f, S) \in Nat
<1> DEFINE F(t) == SumFunctionOnSet(f, t)
           P == {t \in SUBSET S : F(t) \in Nat}
<1>1. {} \in P
  BY SumEmpty
<1>2. ASSUME NEW t \in SUBSET S, t # {}, \A x \in t : t \ {x} \in P
      PROVE  t \in P
  <2>1. PICK x \in t : TRUE
    BY <1>2
  <2>2. IsFiniteSet(t) /\ \A y \in t : f[y] \in Int
    BY FS_Subset
  <2>3. F(t) = f[x] + F(t \ {x})
    BY <2>2, SumSplit
  <2> QED BY <1>2, <2>3
<1> HIDE DEF P
<1>3. \A t \in SUBSET S : t \in P
  BY <1>1, <1>2, SubsetInduction
<1> QED BY <1>3 DEF P

\* Fewer and smaller summands make a smaller sum.
LEMMA SumMono ==
  ASSUME NEW f, NEW g, NEW A, NEW B, IsFiniteSet(B), A \subseteq B,
         \A x \in B : g[x] \in Nat, \A x \in A : f[x] \in Int /\ f[x] <= g[x]
  PROVE  SumFunctionOnSet(f, A) <= SumFunctionOnSet(g, B)
<1>1. IsFiniteSet(A) /\ IsFiniteSet(B \ A) /\ A \cap (B \ A) = {} /\ A \cup (B \ A) = B
  BY FS_Subset
<1>2. SumFunctionOnSet(f, A) <= SumFunctionOnSet(g, A)
  BY <1>1, SumLe
<1>3. SumFunctionOnSet(g, A \cup (B \ A)) = SumFunctionOnSet(g, A) + SumFunctionOnSet(g, B \ A)
  BY <1>1, SumUnion
<1>4. SumFunctionOnSet(g, B \ A) \in Nat
  BY <1>1, SumNat
<1>5. SumFunctionOnSet(f, A) \in Int /\ SumFunctionOnSet(g, A) \in Int
  BY <1>1, SumInt
<1>6. SumFunctionOnSet(g, B) = SumFunctionOnSet(g, A) + SumFunctionOnSet(g, B \ A)
  BY <1>1, <1>3
<1> QED BY <1>2, <1>4, <1>5, <1>6

\* The sum of the differences is the difference of the sums.
LEMMA SumMinus ==
  ASSUME NEW f, NEW g, NEW h, NEW S, IsFiniteSet(S),
         \A x \in S : g[x] \in Int /\ h[x] \in Int /\ f[x] = g[x] - h[x]
  PROVE  SumFunctionOnSet(f, S) = SumFunctionOnSet(g, S) - SumFunctionOnSet(h, S)
<1> DEFINE F(t) == SumFunctionOnSet(f, t)
           G(t) == SumFunctionOnSet(g, t)
           H(t) == SumFunctionOnSet(h, t)
           P == {t \in SUBSET S : F(t) = G(t) - H(t)}
<1>1. {} \in P
  BY SumEmpty
<1>2. ASSUME NEW t \in SUBSET S, t # {}, \A x \in t : t \ {x} \in P
      PROVE  t \in P
  <2>1. PICK x \in t : TRUE
    BY <1>2
  <2>2. /\ IsFiniteSet(t) /\ (\A y \in t : f[y] \in Int)
        /\ (\A y \in t : g[y] \in Int) /\ (\A y \in t : h[y] \in Int)
    BY FS_Subset
  <2>3. F(t) \in Int /\ F(t \ {x}) \in Int /\ F(t) = f[x] + F(t \ {x})
    BY <2>2, SumSplit
  <2>4. G(t) \in Int /\ G(t \ {x}) \in Int /\ G(t) = g[x] + G(t \ {x})
    BY <2>2, SumSplit
  <2>5. H(t) \in Int /\ H(t \ {x}) \in Int /\ H(t) = h[x] + H(t \ {x})
    BY <2>2, SumSplit
  <2>6. F(t \ {x}) = G(t \ {x}) - H(t \ {x})
    BY <1>2
  <2>7. g[x] \in Int /\ h[x] \in Int /\ f[x] = g[x] - h[x]
    OBVIOUS
  <2> HIDE DEF F, G, H
  <2>8. F(t) = G(t) - H(t)
    BY <2>3, <2>4, <2>5, <2>6, <2>7
  <2> QED BY <2>8
<1> HIDE DEF P
<1>3. \A t \in SUBSET S : t \in P
  BY <1>1, <1>2, SubsetInduction
<1> QED BY <1>3 DEF P

\* Zeros add up to zero.
LEMMA SumZero ==
  ASSUME NEW f, NEW S, IsFiniteSet(S), \A x \in S : f[x] = 0
  PROVE  SumFunctionOnSet(f, S) = 0
<1>1. SumFunctionOnSet(f, S) = SumFunctionOnSet(f, S) - SumFunctionOnSet(f, S)
  BY SumMinus
<1>2. SumFunctionOnSet(f, S) \in Int
  BY SumInt
<1> QED BY <1>1, <1>2

\* Counting is adding ones.
LEMMA SumOnes ==
  ASSUME NEW f, NEW S, IsFiniteSet(S), \A x \in S : f[x] = 1
  PROVE  SumFunctionOnSet(f, S) = Cardinality(S)
<1> DEFINE F(t) == SumFunctionOnSet(f, t)
           P == {t \in SUBSET S : F(t) = Cardinality(t)}
<1>1. {} \in P
  BY SumEmpty, FS_EmptySet
<1>2. ASSUME NEW t \in SUBSET S, t # {}, \A x \in t : t \ {x} \in P
      PROVE  t \in P
  <2>1. PICK x \in t : TRUE
    BY <1>2
  <2>2. IsFiniteSet(t) /\ \A y \in t : f[y] \in Int
    BY FS_Subset
  <2>3. F(t) = f[x] + F(t \ {x})
    BY <2>2, SumSplit
  <2>4. Cardinality(t \ {x}) = Cardinality(t) - 1 /\ Cardinality(t) \in Nat
    BY <2>2, FS_RemoveElement, FS_CardinalityType
  <2>5. F(t \ {x}) = Cardinality(t \ {x}) /\ f[x] = 1
    BY <1>2
  <2> HIDE DEF F
  <2> QED BY <2>3, <2>4, <2>5
<1> HIDE DEF P
<1>3. \A t \in SUBSET S : t \in P
  BY <1>1, <1>2, SubsetInduction
<1> QED BY <1>3 DEF P

\* Rows grouped by a key: the sums of the groups add up to the sum over the rows.
LEMMA SumGroups ==
  ASSUME NEW f, NEW S, IsFiniteSet(S), \A x \in S : f[x] \in Int,
         NEW key, NEW K, IsFiniteSet(K), NEW part,
         \A k \in K : part[k] = SumFunctionOnSet(f, {x \in S : key[x] = k})
  PROVE  SumFunctionOnSet(part, K) = SumFunctionOnSet(f, {x \in S : key[x] \in K})
<1> DEFINE F(L) == SumFunctionOnSet(f, {x \in S : key[x] \in L})
           G(L) == SumFunctionOnSet(part, L)
           P == {L \in SUBSET K : G(L) = F(L)}
<1>0. \A k \in K : part[k] \in Int
  <2> TAKE k \in K
  <2>1. {x \in S : key[x] = k} \in SUBSET S
    OBVIOUS
  <2>2. SumFunctionOnSet(f, {x \in S : key[x] = k}) \in Int
    BY <2>1, SumInt
  <2> QED BY <2>2
<1>1. {} \in P
  <2>1. {x \in S : key[x] \in {}} = {}
    OBVIOUS
  <2>2. F({}) = 0 /\ G({}) = 0
    BY <2>1, SumEmpty
  <2> QED BY <2>2
<1>2. ASSUME NEW L \in SUBSET K, L # {}, \A k \in L : L \ {k} \in P
      PROVE  L \in P
  <2>1. PICK k \in L : TRUE
    BY <1>2
  <2>2. IsFiniteSet(L) /\ \A l \in L : part[l] \in Int
    BY <1>0, FS_Subset
  <2>3. G(L) = part[k] + G(L \ {k})
    BY <2>2, SumSplit
  <2> DEFINE A == {x \in S : key[x] = k}
             B == {x \in S : key[x] \in L \ {k}}
  <2>4. /\ IsFiniteSet(A) /\ IsFiniteSet(B) /\ A \cap B = {} /\ \A x \in A \cup B : f[x] \in Int
        /\ {x \in S : key[x] \in L} = A \cup B
    <3>1. A \subseteq S /\ B \subseteq S
      OBVIOUS
    <3>2. IsFiniteSet(A) /\ IsFiniteSet(B)
      BY <3>1, FS_Subset
    <3>3. A \cap B = {} /\ {x \in S : key[x] \in L} = A \cup B
      OBVIOUS
    <3> QED BY <3>1, <3>2, <3>3
  <2> HIDE DEF A, B
  <2>5. SumFunctionOnSet(f, A \cup B) = SumFunctionOnSet(f, A) + SumFunctionOnSet(f, B)
    BY <2>4, SumUnion
  <2>6. part[k] = SumFunctionOnSet(f, A) /\ F(L \ {k}) = SumFunctionOnSet(f, B)
        /\ F(L) = SumFunctionOnSet(f, A \cup B)
    BY <2>4 DEF A, B
  <2>7. G(L \ {k}) = F(L \ {k})
    BY <1>2
  <2> HIDE DEF F, G
  <2>8. G(L) = F(L)
    BY <2>3, <2>5, <2>6, <2>7
  <2> QED BY <2>8
<1> HIDE DEF P
<1>3. \A L \in SUBSET K : L \in P
  BY <1>1, <1>2, SubsetInduction
<1> QED BY <1>3 DEF P

(* ------------------------------------------------------------ one payout *)

\* FloorPayout and CapPayout never create money: a payout is at most stake times
\* multiplier, and at most what the exposure breaker reserved for the bet, as long
\* as the multiplier is within RISK_MAX_MULTIPLIER.
THEOREM PayoutIsReserved ==
  ASSUME NEW stake \in Nat, NEW cents \in Nat, NEW maxWin \in Nat,
         cents <= 100 * MaxMultiplier
  PROVE  CapPayout(FloorPayout(stake, cents), maxWin) <= PotentialPayout(stake)
<1> DEFINE p == FloorPayout(stake, cents)
<1>1. stake * cents <= stake * (100 * MaxMultiplier)
  BY PayoutAssumption
<1>2. stake * (100 * MaxMultiplier) = 100 * (stake * MaxMultiplier)
  BY PayoutAssumption
<1>3. stake * cents \in Nat /\ stake * MaxMultiplier \in Nat
  BY PayoutAssumption
<1>4. p \in Int /\ 100 * p <= stake * cents
  BY <1>3 DEF FloorPayout
<1>5. p <= stake * MaxMultiplier
  BY <1>1, <1>2, <1>3, <1>4
<1> HIDE DEF p
<1>6. CapPayout(p, maxWin) <= p /\ CapPayout(p, maxWin) <= MaxWinPerBet
  BY <1>4, PayoutAssumption DEF CapPayout, Least
<1>7. CapPayout(p, maxWin) \in Int
  BY <1>4, PayoutAssumption DEF CapPayout, Least
<1>8. CapPayout(p, maxWin) <= PotentialPayout(stake)
  BY <1>3, <1>4, <1>5, <1>6, <1>7, PayoutAssumption DEF PotentialPayout, Least
<1> QED BY <1>8 DEF p

(* ------------------------------------------------------- the rows add up *)

Committed(w) == SumOf(OfWallet(w, WageredStatuses \cup {"reserving"}), Stake)
Wagered(w) == SumOf(OfWallet(w, WageredStatuses), Stake)
Won(w) == SumOf(OfWallet(w, WonStatuses), Win)
InFlight(w, rd) == SumOf(OfWallet(w, {"reserving"}) \cap OfRound(rd, {"reserving"}), Stake)
Owing(w) == SumOf(InCurrency(OfRound(round, WonStatuses \cup {"active", "reserving"}), setup[w].currency), WorstCase)

\* What potentialPayout reserves is a natural number.
LEMMA PotentialNat ==
  ASSUME NEW stake \in Nat
  PROVE  PotentialPayout(stake) \in Nat
  BY PayoutAssumption DEF PotentialPayout, Least

\* A table of rows is finite, and its columns hold natural numbers.
LEMMA Columns ==
  ASSUME NEW b, NEW n \in Nat, DOMAIN b \subseteq 1..n, b \in [DOMAIN b -> RowType]
  PROVE  /\ IsFiniteSet(DOMAIN b)
         /\ \A i \in DOMAIN b : /\ b[i].amount \in Nat /\ b[i].payout \in Nat /\ b[i].cap \in Nat
                                /\ PotentialPayout(b[i].amount) \in Nat
<1>1. IsFiniteSet(1..n)
  BY FS_Interval
<1>2. IsFiniteSet(DOMAIN b)
  BY <1>1, FS_Subset
<1>3. \A i \in DOMAIN b : b[i] \in RowType
  OBVIOUS
<1>4. \A i \in DOMAIN b : b[i].amount \in Nat /\ b[i].payout \in Nat /\ b[i].cap \in Nat
  BY <1>3 DEF RowType
<1> QED BY <1>2, <1>4, PotentialNat

\* The rows of a state and their columns.
LEMMA Rows ==
  ASSUME TypeOK
  PROVE  /\ IsFiniteSet(DOMAIN bets)
         /\ \A i \in DOMAIN bets : /\ Stake[i] = bets[i].amount /\ Stake[i] \in Nat
                                   /\ Win[i] = bets[i].payout /\ Win[i] \in Nat
                                   /\ WorstCase[i] = PotentialPayout(bets[i].amount) /\ WorstCase[i] \in Nat
<1>1. lastId \in Nat /\ DOMAIN bets \subseteq 1..lastId /\ bets \in [DOMAIN bets -> RowType]
  BY RiskAssumption DEF TypeOK
<1>2. /\ IsFiniteSet(DOMAIN bets)
      /\ \A i \in DOMAIN bets : /\ bets[i].amount \in Nat /\ bets[i].payout \in Nat
                                /\ PotentialPayout(bets[i].amount) \in Nat
  BY <1>1, Columns
<1> QED BY <1>2 DEF Stake, Win, WorstCase

\* The same of the next state.
LEMMA RowsPrime ==
  ASSUME TypeOK'
  PROVE  /\ IsFiniteSet(DOMAIN bets')
         /\ \A i \in DOMAIN bets' : /\ Stake'[i] = bets'[i].amount /\ Stake'[i] \in Nat
                                    /\ Win'[i] = bets'[i].payout /\ Win'[i] \in Nat
                                    /\ WorstCase'[i] = PotentialPayout(bets'[i].amount) /\ WorstCase'[i] \in Nat
<1>1. lastId' \in Nat /\ DOMAIN bets' \subseteq 1..lastId' /\ bets' \in [DOMAIN bets' -> RowType]
  BY RiskAssumption DEF TypeOK
<1>2. /\ IsFiniteSet(DOMAIN bets')
      /\ \A i \in DOMAIN bets' : /\ bets'[i].amount \in Nat /\ bets'[i].payout \in Nat
                                /\ PotentialPayout(bets'[i].amount) \in Nat
  BY <1>1, Columns
<1> QED BY <1>2 DEF Stake, Win, WorstCase

\* What every step but the insert of a slot does to the rows: none is new, none changes its
\* stake, and none goes back from spent to in flight or from paid to unpaid, but for a win
\* that is voided.
Shrinks ==
  /\ setup' = setup /\ DOMAIN bets' \subseteq DOMAIN bets
  /\ \A i \in DOMAIN bets' :
       /\ bets'[i].round = bets[i].round /\ bets'[i].wallet = bets[i].wallet
       /\ bets'[i].amount = bets[i].amount
       /\ bets'[i].status = "reserving" => bets[i].status = "reserving"
       /\ bets'[i].status \in {"active", "reserving"} => bets[i].status \in {"active", "reserving"}
       /\ bets'[i].status \in WonStatuses => bets[i].status \in WonStatuses \cup {"active"}
       /\ bets'[i].status \in WageredStatuses \cup {"reserving"} =>
            bets[i].status \in WageredStatuses \cup {"reserving"}
  /\ \A i \in DOMAIN bets : bets[i].status \in WonStatuses =>
       \/ i \in DOMAIN bets' /\ bets'[i].status \in WonStatuses /\ bets'[i].payout = bets[i].payout
       \/ bets[i].wallet \in reclaimed'

\* Where rows only shrink, so does what a session committed and has in flight, and what the round owes.
LEMMA ShrinkStakes ==
  ASSUME TypeOK, TypeOK', Shrinks
  PROVE  /\ \A w \in Wallets : Committed(w)' <= Committed(w)
         /\ \A w \in Wallets, rd \in Nat : InFlight(w, rd)' <= InFlight(w, rd)
         /\ \A w \in Wallets, rd \in Nat : CurrentExposure(rd, w)' <= CurrentExposure(rd, w)
         /\ round' = round => \A w \in Wallets : Owing(w)' <= Owing(w)
<1>1. /\ IsFiniteSet(DOMAIN bets)
      /\ \A i \in DOMAIN bets : Stake[i] \in Nat /\ WorstCase[i] \in Nat
  BY Rows
<1>2. \A i \in DOMAIN bets' : /\ Stake'[i] \in Int /\ Stake'[i] <= Stake[i]
                              /\ WorstCase'[i] \in Int /\ WorstCase'[i] <= WorstCase[i]
  BY Rows, RowsPrime DEF Shrinks
<1>3. ASSUME NEW A, NEW B, A \subseteq B, A \subseteq DOMAIN bets', B \subseteq DOMAIN bets
      PROVE  /\ SumFunctionOnSet(Stake', A) <= SumFunctionOnSet(Stake, B)
             /\ SumFunctionOnSet(WorstCase', A) <= SumFunctionOnSet(WorstCase, B)
  <2>1. IsFiniteSet(B)
    BY <1>1, <1>3, FS_Subset
  <2>2. SumFunctionOnSet(Stake', A) <= SumFunctionOnSet(Stake, B)
    BY <1>1, <1>2, <1>3, <2>1, SumMono
  <2>3. SumFunctionOnSet(WorstCase', A) <= SumFunctionOnSet(WorstCase, B)
    BY <1>1, <1>2, <1>3, <2>1, SumMono
  <2> QED BY <2>2, <2>3
<1>4. ASSUME NEW w \in Wallets PROVE Committed(w)' <= Committed(w)
  <2> DEFINE S == WageredStatuses \cup {"reserving"}
  <2>1. OfWallet(w, S)' \subseteq OfWallet(w, S) /\ OfWallet(w, S)' \subseteq DOMAIN bets'
        /\ OfWallet(w, S) \subseteq DOMAIN bets
    BY DEF OfWallet, Shrinks
  <2> QED BY <1>3, <2>1 DEF Committed, SumOf
<1>5. ASSUME NEW w \in Wallets, NEW rd \in Nat PROVE InFlight(w, rd)' <= InFlight(w, rd)
  <2> DEFINE A == OfWallet(w, {"reserving"})' \cap OfRound(rd, {"reserving"})'
             B == OfWallet(w, {"reserving"}) \cap OfRound(rd, {"reserving"})
  <2>1. A \subseteq B /\ A \subseteq DOMAIN bets' /\ B \subseteq DOMAIN bets
    BY DEF OfWallet, OfRound, Shrinks
  <2> QED BY <1>3, <2>1 DEF InFlight, SumOf
<1>6. ASSUME NEW w \in Wallets, NEW rd \in Nat PROVE CurrentExposure(rd, w)' <= CurrentExposure(rd, w)
  <2> DEFINE A == InCurrency(RoundBets(rd), setup[w].currency)'
             B == InCurrency(RoundBets(rd), setup[w].currency)
  <2>1. A \subseteq B /\ A \subseteq DOMAIN bets' /\ B \subseteq DOMAIN bets
    BY DEF InCurrency, RoundBets, OfRound, Shrinks
  <2> QED BY <1>3, <2>1 DEF CurrentExposure, SumOf
<1>7. ASSUME round' = round, NEW w \in Wallets PROVE Owing(w)' <= Owing(w)
  <2> DEFINE S == WonStatuses \cup {"active", "reserving"}
             A == InCurrency(OfRound(round, S), setup[w].currency)'
             B == InCurrency(OfRound(round, S), setup[w].currency)
  <2>1. A \subseteq B /\ A \subseteq DOMAIN bets' /\ B \subseteq DOMAIN bets
    BY <1>7 DEF InCurrency, OfRound, Shrinks, WonStatuses
  <2> QED BY <1>3, <2>1 DEF Owing, SumOf
<1> QED BY <1>4, <1>5, <1>6, <1>7

\* Where wins are only voided, the wins of a session that reclaimed none do not fall.
LEMMA ShrinkWins ==
  ASSUME TypeOK, TypeOK', Shrinks
  PROVE  \A w \in Wallets \ reclaimed' : Won(w) <= Won(w)'
<1> TAKE w \in Wallets \ reclaimed'
<1> DEFINE A == OfWallet(w, WonStatuses)
           B == OfWallet(w, WonStatuses)'
<1>1. IsFiniteSet(DOMAIN bets') /\ A \subseteq B /\ A \subseteq DOMAIN bets /\ B \subseteq DOMAIN bets'
  BY RowsPrime DEF OfWallet, Shrinks
<1>2. IsFiniteSet(B)
  BY <1>1, FS_Subset
<1>3. \A i \in B : Win'[i] \in Nat
  BY <1>1, RowsPrime
<1>4. \A i \in A : Win[i] \in Int /\ Win[i] <= Win'[i]
  BY <1>1, Rows, RowsPrime DEF OfWallet, Shrinks
<1> HIDE DEF A, B
<1>5. SumFunctionOnSet(Win, A) <= SumFunctionOnSet(Win', B)
  BY <1>1, <1>2, <1>3, <1>4, SumMono
<1> QED BY <1>5 DEF Won, SumOf, A, B

(* --------------------------------------------------------------- typing *)

\* The currency, limits and caps of a wallet.
LEMMA SetupOk ==
  ASSUME TypeOK
  PROVE  SetupType(setup)
  BY RiskAssumption DEF TypeOK

\* The row a slot starts as.
LEMMA NewRowType ==
  ASSUME TypeOK, LockExcludes, NEW s \in Seats, calls[s].pc = "reserve"
  PROVE  NewRow(s) \in RowType
<1>1. s[1] \in Wallets /\ s[2] \in Panels
  BY RiskAssumption
<1>2. calls[s].round \in 1..MaxRound /\ calls[s].amount \in Nat
  BY RiskAssumption DEF TypeOK, LockExcludes, CallType
<1>3. (IF setup[s[1]].limits = {} THEN MaxWinPerBet
       ELSE (CHOOSE l \in setup[s[1]].limits : TRUE).maxWinPerBet) \in Nat
  <2>1. CASE setup[s[1]].limits = {}
    BY <2>1, PayoutAssumption
  <2>2. CASE setup[s[1]].limits # {}
    <3>1. (CHOOSE l \in setup[s[1]].limits : TRUE) \in setup[s[1]].limits
      BY <2>2
    <3>2. \A l \in setup[s[1]].limits : l \in Limits
      BY <1>1, SetupOk DEF SetupType
    <3> QED BY <2>2, <3>1, <3>2 DEF Limits
  <2> QED BY <2>1, <2>2
<1> QED BY <1>1, <1>2, <1>3 DEF NewRow, RowType, Statuses

\* What a cash-out pays.
LEMMA PayoutNat ==
  ASSUME NEW stake \in Nat, NEW m \in Nat, NEW cap \in Nat
  PROVE  CapPayout(FloorPayout(stake, m), cap) \in Nat
<1>1. stake * m \in Nat
  OBVIOUS
<1>2. FloorPayout(stake, m) \in Nat
  BY <1>1 DEF FloorPayout
<1> QED BY <1>2, PayoutAssumption DEF CapPayout, Least

\* The calls that may still insert a slot are finitely many.
LEMMA AskingFinite ==
  /\ IsFiniteSet(Asking) /\ Cardinality(Asking) \in Nat
  /\ IsFiniteSet(Asking') /\ Cardinality(Asking') \in Nat
<1>1. Asking \subseteq Seats /\ Asking' \subseteq Seats
  BY DEF Asking
<1>2. IsFiniteSet(Asking) /\ IsFiniteSet(Asking')
  BY <1>1, RiskAssumption, FS_Subset
<1> QED BY <1>2, FS_CardinalityType

\* Types, at first.
LEMMA InitTypes == Init => TypeOK
<1> SUFFICES ASSUME Init PROVE TypeOK
  OBVIOUS
<1>1. DOMAIN bets = {} /\ bets \in [DOMAIN bets -> RowType]
  BY DEF Init
<1>2. calls \in [Seats -> CallType]
  BY RiskAssumption DEF Init, Idle, CallType
<1>3. round \in 1..MaxRound /\ lastId \in 0..MaxBets /\ DOMAIN bets \subseteq 1..lastId
  BY <1>1, RiskAssumption DEF Init
<1>4. late \in BOOLEAN /\ straddled \subseteq Wallets /\ reclaimed \subseteq Wallets
  BY DEF Init
<1> QED BY <1>1, <1>2, <1>3, <1>4 DEF Init, TypeOK

\* A seat without a call.
LEMMA IdleType == Idle \in CallType
  BY RiskAssumption DEF Idle, CallType

\* A call that moves on keeps its type.
LEMMA CallMoves ==
  ASSUME NEW c \in CallType, NEW pc \in {"idle", "lock", "reserve", "debit", "activate"},
         NEW rd \in 0..MaxRound, NEW n \in Nat
  PROVE  /\ [c EXCEPT !.pc = pc] \in CallType
         /\ [c EXCEPT !.pc = pc, !.bet = n] \in CallType
         /\ [c EXCEPT !.pc = pc, !.reserved = n] \in CallType
         /\ [c EXCEPT !.pc = pc, !.round = rd, !.amount = n] \in CallType
<1> DEFINE d == [c EXCEPT !.pc = pc]
           e == [d EXCEPT !.round = rd]
<1>1. d \in CallType
  BY DEF CallType
<1> HIDE DEF d
<1>2. [d EXCEPT !.bet = n] \in CallType /\ [d EXCEPT !.reserved = n] \in CallType /\ e \in CallType
  BY <1>1 DEF CallType
<1> HIDE DEF e
<1>3. [e EXCEPT !.amount = n] \in CallType
  BY <1>2 DEF CallType
<1> QED BY <1>1, <1>2, <1>3 DEF d, e

\* The crash point is a positive number of hundredths.
LEMMA CrashNat ==
  ASSUME TypeOK
  PROVE  crash \in Nat
<1>1. PICK h \in Hashes : crash = CrashCents(h)
  BY DEF TypeOK, Crashes
<1>2. h \in Nat /\ 97 * (Entropy + 1) \in Nat /\ h + 1 \in Nat /\ h + 1 > 0
  BY RiskAssumption, PayoutAssumption
<1>3. (97 * (Entropy + 1)) \div (h + 1) \in Int
  BY <1>2
<1> QED BY <1>1, <1>3, PayoutAssumption DEF CrashCents, Least

\* A row one of whose columns is set keeps its type.
LEMMA RowEdit ==
  ASSUME NEW r \in RowType
  PROVE  /\ \A status \in Statuses : [r EXCEPT !.status = status] \in RowType
         /\ \A p \in Nat : [r EXCEPT !.payout = p] \in RowType
         /\ \A claim \in {"none", "open", "lost"} : [r EXCEPT !.claim = claim] \in RowType
         /\ \A leg \in BOOLEAN : [r EXCEPT !.refunded = leg] \in RowType
         /\ \A leg \in BOOLEAN : [r EXCEPT !.charged = leg] \in RowType
         /\ \A leg \in BOOLEAN : [r EXCEPT !.paid = leg] \in RowType
         /\ \A leg \in BOOLEAN : [r EXCEPT !.clawed = leg] \in RowType
  BY DEF RowType

\* What the claims, the credits and the sweeps do, outside placeBet and the engine.
RowStep(i) ==
  \/ RecoverClaim(i) \/ RecoverRefund(i) \/ RecoverFinish(i)
  \/ CancelClaim(i) \/ CancelCredit(i) \/ ClaimLost(i)
  \/ \E m \in Multipliers : CashOutClaim(i, m)
  \/ CashOutCredit(i) \/ \E applied \in BOOLEAN : CashOutParks(i, applied)
  \/ RepayCredit(i) \/ RepayFinish(i)
  \/ VoidClaim(i) \/ VoidReclaim(i) \/ VoidRefund(i) \/ VoidFinish(i)

\* They leave the engine and the calls alone.
LEMMA RowStepFrame ==
  ASSUME NEW i, RowStep(i)
  PROVE  /\ UNCHANGED <<setup, round, phase, crash, lastId, calls, late, straddled>>
         /\ reclaimed \subseteq reclaimed'
  BY DEF RowStep, Pays, Moves, RecoverClaim, RecoverRefund, RecoverFinish, CancelClaim, CancelCredit, ClaimLost,
         CashOutClaim, CashOutCredit, CashOutParks, RepayCredit, RepayFinish, VoidClaim, VoidReclaim, VoidRefund,
         VoidFinish

\* How a row may follow from another: it stays the same bet, its legs fit, and it moves on.
Follows(i, q) ==
  LET r == bets[i]
      is(from, to) == r.status \in from /\ q.status \in to
  IN  /\ q.round = r.round /\ q.wallet = r.wallet /\ q.amount = r.amount
      /\ LegsFit(q)
      /\ \/ is({"reserving"}, {"cancelling"}) /\ i \notin Owned
         \/ is({"active"}, {"cancelled"})
         \/ /\ is({"active"}, {"cashed_out"}) /\ phase = "running"
            /\ crash <= 100 * MaxMultiplier => q.payout <= PotentialPayout(q.amount)
         \/ is(WonStatuses, WonStatuses) /\ q.payout = r.payout
         \/ is({"cashed_out"}, {"voiding"}) /\ r.wallet \in reclaimed'
         \/ is({"busted"}, {"voiding"})
         \/ is({"cancelling", "cancelled", "voiding"}, {"cancelling", "cancelled", "voiding", "voided"})

\* Every one of them moves one row so, or drops a slot that was never charged.
LEMMA RowSteps ==
  ASSUME TypeOK, NEW i \in DOMAIN bets, LegsFit(bets[i]), RowStep(i)
  PROVE  /\ reclaimed' \subseteq Wallets
         /\ \/ bets' = Without({i}) /\ bets[i].status = "cancelling"
            \/ \E q \in RowType : SetRow(i, q) /\ Follows(i, q)
<1> DEFINE r == bets[i]
<1>1. r \in RowType /\ LegsFit(r) /\ reclaimed \subseteq Wallets
  BY DEF TypeOK
<1>2. /\ r.status \in Statuses /\ r.amount \in Nat /\ r.payout \in Nat /\ r.cap \in Nat /\ r.wallet \in Wallets
      /\ r.charged \in BOOLEAN /\ r.refunded \in BOOLEAN /\ r.paid \in BOOLEAN /\ r.clawed \in BOOLEAN
  BY <1>1 DEF RowType
<1> DEFINE Goal == /\ reclaimed' \subseteq Wallets
                   /\ \/ bets' = Without({i}) /\ r.status = "cancelling"
                      \/ \E q \in RowType : SetRow(i, q) /\ Follows(i, q)
<1>3. ASSUME NEW q \in RowType, Pays(i, q), Follows(i, q) PROVE Goal
  BY <1>1, <1>3 DEF Pays
<1> HIDE DEF Goal
<1>4. ASSUME RecoverClaim(i) PROVE Goal
  <2> DEFINE q == [r EXCEPT !.status = "cancelling"]
  <2>1. q \in RowType
    BY <1>1, RowEdit DEF Statuses
  <2>2. Follows(i, q)
    BY <1>1, <1>2, <1>4 DEF RecoverClaim, Follows, LegsFit, RowType, WonStatuses
  <2> QED BY <1>3, <1>4, <2>1, <2>2 DEF RecoverClaim
<1>5. ASSUME RecoverRefund(i) PROVE Goal
  <2> DEFINE q == [r EXCEPT !.refunded = TRUE]
  <2>1. q \in RowType
    BY <1>1, RowEdit
  <2>2. Follows(i, q)
    BY <1>1, <1>2, <1>5 DEF RecoverRefund, Follows, LegsFit, RowType, WonStatuses
  <2> QED BY <1>3, <1>5, <2>1, <2>2 DEF RecoverRefund
<1>6. ASSUME RecoverFinish(i) PROVE Goal
  <2>1. CASE ~ r.charged
    BY <1>1, <1>6, <2>1 DEF RecoverFinish, Goal
  <2>2. CASE r.charged
    <3> DEFINE q == [r EXCEPT !.status = "cancelled"]
    <3>1. q \in RowType
      BY <1>1, RowEdit DEF Statuses
    <3>2. Follows(i, q)
      BY <1>1, <1>2, <1>6, <2>2 DEF RecoverFinish, Follows, LegsFit, RowType, WonStatuses
    <3>3. Pays(i, q)
      BY <1>6, <2>2 DEF RecoverFinish, Pays, SetRow
    <3> QED BY <1>3, <3>1, <3>2, <3>3
  <2> QED BY <2>1, <2>2
<1>7. ASSUME CancelClaim(i) PROVE Goal
  <2> DEFINE p == [r EXCEPT !.status = "cancelled"]
             q == [p EXCEPT !.claim = "open"]
  <2>1. p \in RowType
    BY <1>1, RowEdit DEF Statuses
  <2> HIDE DEF p
  <2>2. q \in RowType
    BY <2>1, RowEdit
  <2> USE DEF p
  <2>3. Follows(i, q)
    BY <1>1, <1>2, <1>7 DEF CancelClaim, Follows, LegsFit, RowType, WonStatuses
  <2> QED BY <1>3, <1>7, <2>2, <2>3 DEF CancelClaim
<1>8. ASSUME CancelCredit(i) PROVE Goal
  <2> DEFINE p == [r EXCEPT !.refunded = TRUE]
             q == [p EXCEPT !.claim = "none"]
  <2>1. p \in RowType
    BY <1>1, RowEdit
  <2> HIDE DEF p
  <2>2. q \in RowType
    BY <2>1, RowEdit
  <2> USE DEF p
  <2>3. Follows(i, q)
    BY <1>1, <1>2, <1>8 DEF CancelCredit, Follows, LegsFit, RowType, WonStatuses
  <2> QED BY <1>3, <1>8, <2>2, <2>3 DEF CancelCredit
<1>9. ASSUME ClaimLost(i) PROVE Goal
  <2> DEFINE q == [r EXCEPT !.claim = "lost"]
  <2>1. q \in RowType
    BY <1>1, RowEdit
  <2>2. Follows(i, q)
    BY <1>1, <1>2, <1>9 DEF ClaimLost, Follows, LegsFit, RowType, WonStatuses
  <2> QED BY <1>3, <1>9, <2>1, <2>2 DEF ClaimLost
<1>10. ASSUME \E m \in Multipliers : CashOutClaim(i, m) PROVE Goal
  <2>1. PICK m \in Multipliers : CashOutClaim(i, m)
    BY <1>10
  <2> DEFINE x == CapPayout(FloorPayout(r.amount, m), r.cap)
             p == [r EXCEPT !.status = "cashed_out"]
             u == [p EXCEPT !.claim = "open"]
             q == [u EXCEPT !.payout = x]
  <2>2. m \in Nat /\ crash \in Nat /\ m < crash /\ r.status = "active" /\ phase = "running"
    BY <2>1, CrashNat, RiskAssumption DEF CashOutClaim
  <2>3. x \in Nat
    BY <1>2, <2>2, PayoutNat
  <2>4. crash <= 100 * MaxMultiplier => x <= PotentialPayout(r.amount)
    <3>1. crash <= 100 * MaxMultiplier => m <= 100 * MaxMultiplier
      BY <2>2, PayoutAssumption
    <3> QED BY <1>2, <2>2, <3>1, PayoutIsReserved
  <2>5. Pays(i, q)
    BY <2>1 DEF CashOutClaim
  <2> HIDE DEF x
  <2>6. p \in RowType
    BY <1>1, RowEdit DEF Statuses
  <2> HIDE DEF p
  <2>7. u \in RowType
    BY <2>6, RowEdit
  <2> HIDE DEF u
  <2>8. q \in RowType
    BY <2>3, <2>7, RowEdit
  <2> USE DEF p, u
  <2>9. Follows(i, q)
    BY <1>1, <1>2, <2>2, <2>3, <2>4 DEF Follows, LegsFit, RowType, WonStatuses
  <2> QED BY <1>3, <2>5, <2>8, <2>9
<1>11. ASSUME CashOutCredit(i) PROVE Goal
  <2> DEFINE p == [r EXCEPT !.paid = TRUE]
             q == [p EXCEPT !.claim = "none"]
  <2>1. p \in RowType
    BY <1>1, RowEdit
  <2> HIDE DEF p
  <2>2. q \in RowType
    BY <2>1, RowEdit
  <2> USE DEF p
  <2>3. Follows(i, q)
    BY <1>1, <1>2, <1>11 DEF CashOutCredit, Follows, LegsFit, RowType, WonStatuses
  <2> QED BY <1>3, <1>11, <2>2, <2>3 DEF CashOutCredit
<1>12. ASSUME \E applied \in BOOLEAN : CashOutParks(i, applied) PROVE Goal
  <2>1. PICK applied \in BOOLEAN : CashOutParks(i, applied)
    BY <1>12
  <2> DEFINE p == [r EXCEPT !.status = "payout_pending"]
             u == [p EXCEPT !.paid = applied]
             q == [u EXCEPT !.claim = "none"]
  <2>2. p \in RowType
    BY <1>1, RowEdit DEF Statuses
  <2> HIDE DEF p
  <2>3. u \in RowType
    BY <2>2, RowEdit
  <2> HIDE DEF u
  <2>4. q \in RowType
    BY <2>3, RowEdit
  <2> USE DEF p, u
  <2>5. Follows(i, q)
    BY <1>1, <1>2, <2>1 DEF CashOutParks, Follows, LegsFit, RowType, WonStatuses
  <2> QED BY <1>3, <2>1, <2>4, <2>5 DEF CashOutParks
<1>13. ASSUME RepayCredit(i) PROVE Goal
  <2> DEFINE q == [r EXCEPT !.paid = TRUE]
  <2>1. q \in RowType
    BY <1>1, RowEdit
  <2>2. Follows(i, q)
    BY <1>1, <1>2, <1>13 DEF RepayCredit, Follows, LegsFit, RowType, WonStatuses
  <2> QED BY <1>3, <1>13, <2>1, <2>2 DEF RepayCredit
<1>14. ASSUME RepayFinish(i) PROVE Goal
  <2> DEFINE q == [r EXCEPT !.status = "cashed_out"]
  <2>1. q \in RowType
    BY <1>1, RowEdit DEF Statuses
  <2>2. Follows(i, q)
    BY <1>1, <1>2, <1>14 DEF RepayFinish, Follows, LegsFit, RowType, WonStatuses
  <2> QED BY <1>3, <1>14, <2>1, <2>2 DEF RepayFinish
<1>15. ASSUME VoidClaim(i) PROVE Goal
  <2> DEFINE q == [r EXCEPT !.status = "voiding"]
  <2>1. q \in RowType
    BY <1>1, RowEdit DEF Statuses
  <2>2. r.status = "cashed_out" => r.wallet \in reclaimed'
    BY <1>15 DEF VoidClaim
  <2>3. Follows(i, q)
    BY <1>1, <1>2, <1>15, <2>2 DEF VoidClaim, Follows, LegsFit, RowType, WonStatuses
  <2>4. reclaimed' \subseteq Wallets
    BY <1>1, <1>2, <1>15 DEF VoidClaim
  <2> QED BY <1>15, <2>1, <2>3, <2>4 DEF VoidClaim, Goal
<1>16. ASSUME VoidReclaim(i) PROVE Goal
  <2> DEFINE q == [r EXCEPT !.clawed = TRUE]
  <2>1. q \in RowType
    BY <1>1, RowEdit
  <2>2. Follows(i, q)
    BY <1>1, <1>2, <1>16 DEF VoidReclaim, Follows, LegsFit, RowType, WonStatuses
  <2> QED BY <1>3, <1>16, <2>1, <2>2 DEF VoidReclaim
<1>17. ASSUME VoidRefund(i) PROVE Goal
  <2> DEFINE q == [r EXCEPT !.refunded = TRUE]
  <2>1. q \in RowType
    BY <1>1, RowEdit
  <2>2. Follows(i, q)
    BY <1>1, <1>2, <1>17 DEF VoidRefund, Follows, LegsFit, RowType, WonStatuses
  <2> QED BY <1>3, <1>17, <2>1, <2>2 DEF VoidRefund
<1>18. ASSUME VoidFinish(i) PROVE Goal
  <2> DEFINE q == [r EXCEPT !.status = "voided"]
  <2>1. q \in RowType
    BY <1>1, RowEdit DEF Statuses
  <2>2. Follows(i, q)
    BY <1>1, <1>2, <1>18 DEF VoidFinish, Follows, LegsFit, RowType, WonStatuses
  <2> QED BY <1>3, <1>18, <2>1, <2>2 DEF VoidFinish
<1> QED BY <1>4, <1>5, <1>6, <1>7, <1>8, <1>9, <1>10, <1>11, <1>12, <1>13, <1>14, <1>15, <1>16, <1>17, <1>18
        DEF RowStep, Goal

\* Only a call that asks for a slot may be numbered.
LEMMA StepTypes ==
  ASSUME CapsInv, Next
  PROVE  TypeOK'
<1> USE DEF EngineIdle, NoRows, Moves
<1>0. TypeOK /\ LockExcludes /\ SlotsAreOwned /\ NumbersLeft /\ \A i \in DOMAIN bets : LegsFit(bets[i])
  BY DEF CapsInv, RowsFit
<1>1. ASSUME NEW s \in Seats, NEW amount \in Stakes, PlaceBet(s, amount) PROVE TypeOK'
  <2>1. [Idle EXCEPT !.pc = "lock", !.round = round, !.amount = amount] \in CallType
    <3>1. round \in 0..MaxRound /\ amount \in Nat
      BY <1>0, RiskAssumption DEF TypeOK
    <3> QED BY <3>1, IdleType, CallMoves
  <2> QED BY <1>0, <1>1, <2>1 DEF PlaceBet, TypeOK
<1>2. ASSUME NEW s \in Seats, LockAndRead(s) PROVE TypeOK'
  <2> DEFINE ids == {i \in RoundBets(calls[s].round) : bets[i].wallet = s[1] /\ bets[i].status = "reserving"}
  <2>1. ids \subseteq DOMAIN bets /\ IsFiniteSet(DOMAIN bets) /\ \A i \in DOMAIN bets : Stake[i] \in Nat
    BY <1>0, Rows DEF RoundBets, OfRound
  <2>2. IsFiniteSet(ids)
    BY <2>1, FS_Subset
  <2>3. SumOf(ids, Stake) \in Nat
    BY <2>1, <2>2, SumNat DEF SumOf
  <2>4. calls' = [calls EXCEPT ![s].pc = "reserve", ![s].reserved = SumOf(ids, Stake)]
    BY <1>2 DEF LockAndRead
  <2> HIDE DEF ids
  <2>5. calls' \in [Seats -> CallType]
    BY <1>0, <2>3, <2>4 DEF TypeOK, CallType
  <2> QED BY <1>0, <1>2, <2>5 DEF LockAndRead, TypeOK
<1>3. ASSUME NEW s \in Seats, OverExposed(s) PROVE TypeOK'
  BY <1>0, <1>3, IdleType DEF OverExposed, Return, TypeOK
<1>4. ASSUME NEW s \in Seats, Reserve(s) PROVE TypeOK'
  <2>1. s \in Asking
    BY <1>4 DEF Reserve, Asking
  <2>2. Cardinality(Asking) # 0
    BY <2>1, AskingFinite, FS_EmptySet
  <2>3. lastId' \in 1..MaxBets /\ lastId' = lastId + 1
    BY <1>0, <1>4, <2>2, AskingFinite, RiskAssumption DEF Reserve, NumbersLeft, TypeOK
  <2>4. NewRow(s) \in RowType
    BY <1>0, <1>4, NewRowType DEF Reserve
  <2>5. bets' \in [DOMAIN bets' -> RowType] /\ DOMAIN bets' = DOMAIN bets \cup {lastId'}
    BY <1>0, <1>4, <2>4 DEF Reserve, TypeOK
  <2>6. DOMAIN bets' \subseteq 1..lastId'
    BY <1>0, <2>3, <2>5, RiskAssumption DEF TypeOK
  <2>7. calls' \in [Seats -> CallType]
    <3>1. calls[s] \in CallType /\ lastId' \in Nat /\ 0 \in 0..MaxRound
      BY <1>0, <2>3, RiskAssumption DEF TypeOK
    <3>2. [calls[s] EXCEPT !.pc = "debit", !.bet = lastId'] \in CallType
      BY <3>1, CallMoves
    <3>3. calls' = [calls EXCEPT ![s] = [calls[s] EXCEPT !.pc = "debit", !.bet = lastId']]
      BY <1>0, <1>4 DEF Reserve, TypeOK
    <3> QED BY <1>0, <3>2, <3>3 DEF TypeOK
  <2>8. straddled' \subseteq Wallets /\ late' \in BOOLEAN
    BY <1>0, <1>4, RiskAssumption DEF Reserve, TypeOK
  <2> QED BY <1>0, <1>4, <2>3, <2>5, <2>6, <2>7, <2>8 DEF Reserve, TypeOK
<1>5. ASSUME NEW s \in Seats, Rejected(s) PROVE TypeOK'
  BY <1>0, <1>5, IdleType DEF Rejected, Return, TypeOK
<1>6. ASSUME NEW s \in Seats, Debit(s) PROVE TypeOK'
  <2>1. calls' \in [Seats -> CallType]
    BY <1>0, <1>6 DEF Debit, Goto, TypeOK, CallType
  <2>2. calls[s].bet \in DOMAIN bets
    BY <1>0, <1>6 DEF Debit, SlotsAreOwned, OfWallet
  <2>3. [bets[calls[s].bet] EXCEPT !.charged = TRUE] \in RowType
    BY <1>0, <2>2, RowEdit DEF TypeOK
  <2>4. bets' \in [DOMAIN bets -> RowType] /\ DOMAIN bets' = DOMAIN bets
    BY <1>0, <1>6, <2>3 DEF Debit, SetRow, TypeOK
  <2> QED BY <1>0, <1>6, <2>1, <2>4 DEF Debit, TypeOK
<1>7. ASSUME NEW s \in Seats, DebitFails(s) PROVE TypeOK'
  <2>1. bets' \in [DOMAIN bets' -> RowType] /\ DOMAIN bets' \subseteq DOMAIN bets
    BY <1>0, <1>7 DEF DebitFails, Without, TypeOK
  <2> QED BY <1>0, <1>7, <2>1, IdleType DEF DebitFails, Return, TypeOK
<1>8. ASSUME NEW s \in Seats, Activate(s) PROVE TypeOK'
  <2>1. calls[s].bet \in DOMAIN bets
    BY <1>0, <1>8 DEF Activate, SlotsAreOwned, OfWallet
  <2>2. [bets[calls[s].bet] EXCEPT !.status = "active"] \in RowType
    BY <1>0, <2>1, RowEdit DEF TypeOK, Statuses
  <2>3. bets' \in [DOMAIN bets -> RowType] /\ DOMAIN bets' = DOMAIN bets
    BY <1>0, <1>8, <2>2 DEF Activate, SetRow, TypeOK
  <2> QED BY <1>0, <1>8, <2>3, IdleType DEF Activate, Return, TypeOK
<1>9. ASSUME NEW s \in Seats, Dies(s) PROVE TypeOK'
  BY <1>0, <1>9, IdleType DEF Dies, Return, TypeOK
<1>10. ASSUME NEW i \in DOMAIN bets, RowStep(i) PROVE TypeOK'
  <2>1. reclaimed' \subseteq Wallets /\ UNCHANGED <<setup, round, phase, crash, lastId, calls, late, straddled>>
    BY <1>0, <1>10, RowSteps, RowStepFrame
  <2>2. bets' \in [DOMAIN bets' -> RowType] /\ DOMAIN bets' \subseteq DOMAIN bets
    <3>1. CASE bets' = Without({i})
      BY <1>0, <3>1 DEF Without, TypeOK
    <3>2. ASSUME NEW q \in RowType, SetRow(i, q)
          PROVE  bets' \in [DOMAIN bets' -> RowType] /\ DOMAIN bets' \subseteq DOMAIN bets
      BY <1>0, <3>2 DEF SetRow, TypeOK
    <3> QED BY <1>0, <1>10, <3>1, <3>2, RowSteps
  <2> QED BY <1>0, <2>1, <2>2 DEF TypeOK
<1>11. CASE EnterRunning
  BY <1>0, <1>11 DEF EnterRunning, TypeOK
<1>12. CASE SettleRound
  <2>1. bets' \in [DOMAIN bets -> RowType] /\ DOMAIN bets' = DOMAIN bets
    BY <1>0, <1>12 DEF SettleRound, TypeOK, RowType, Statuses
  <2> QED BY <1>0, <1>12, <2>1 DEF SettleRound, TypeOK
<1>13. CASE NextRound
  <2>0. MaxRound \in Nat /\ round \in 1..MaxRound /\ round < MaxRound /\ round' = round + 1
    BY <1>0, <1>13, RiskAssumption DEF NextRound, TypeOK
  <2>1. round' \in 1..MaxRound
    BY <2>0
  <2>2. late' \in BOOLEAN
    BY <1>13 DEF NextRound
  <2> QED BY <1>0, <1>13, <2>1, <2>2 DEF NextRound, TypeOK
<1> QED BY <1>1, <1>2, <1>3, <1>4, <1>5, <1>6, <1>7, <1>8, <1>9, <1>10, <1>11, <1>12, <1>13 DEF Next, RowStep

(* ------------------------------------------------ what a step does to rows *)

\* Rows are never added but by Reserve, and Shrinks says what else may happen to them.
LEMMA StepShrinks ==
  ASSUME CapsInv, Next, ~ \E s \in Seats : Reserve(s)
  PROVE  Shrinks
<1> USE DEF EngineIdle, NoRows, Moves, WonStatuses, WageredStatuses
<1>0. TypeOK /\ SlotsAreOwned /\ bets \in [DOMAIN bets -> RowType] /\ \A i \in DOMAIN bets : LegsFit(bets[i])
  BY DEF CapsInv, TypeOK, RowsFit
<1>1. ASSUME setup' = setup, bets' = bets PROVE Shrinks
  BY <1>1 DEF Shrinks
<1>2. ASSUME NEW s \in Seats, NEW amount \in Stakes, PlaceBet(s, amount) PROVE Shrinks
  BY <1>1, <1>2 DEF PlaceBet
<1>3. ASSUME NEW s \in Seats, LockAndRead(s) \/ OverExposed(s) \/ Rejected(s) \/ Dies(s) PROVE Shrinks
  BY <1>1, <1>3 DEF LockAndRead, OverExposed, Rejected, Dies
<1>4. ASSUME NEW i \in DOMAIN bets, bets[i].status \in {"reserving", "cancelling"}, setup' = setup, bets' = Without({i})
      PROVE  Shrinks
  <2>1. DOMAIN bets' = DOMAIN bets \ {i} /\ \A j \in DOMAIN bets' : bets'[j] = bets[j]
    BY <1>4 DEF Without
  <2> QED BY <1>4, <2>1 DEF Shrinks
<1>5. ASSUME NEW s \in Seats, DebitFails(s) PROVE Shrinks
  <2>1. calls[s].bet \in DOMAIN bets /\ bets[calls[s].bet].status = "reserving"
    BY <1>0, <1>5 DEF DebitFails, SlotsAreOwned, OfWallet
  <2> QED BY <1>4, <1>5, <2>1 DEF DebitFails
\* One row moves.
<1>6. ASSUME NEW i \in DOMAIN bets, NEW q, SetRow(i, q), setup' = setup,
             q.round = bets[i].round, q.wallet = bets[i].wallet, q.amount = bets[i].amount,
             \/ bets[i].status = "reserving" /\ q.status \in {"reserving", "active", "cancelling"}
             \/ bets[i].status = "active" /\ q.status \in {"cashed_out", "cancelled"}
             \/ bets[i].status \in WonStatuses /\ q.status \in WonStatuses /\ q.payout = bets[i].payout
             \/ bets[i].status = "cashed_out" /\ q.status = "voiding" /\ bets[i].wallet \in reclaimed'
             \/ bets[i].status = "busted" /\ q.status = "voiding"
             \/ /\ bets[i].status \in {"cancelling", "cancelled", "voiding"}
                /\ q.status \in {"cancelling", "cancelled", "voiding", "voided"}
      PROVE  Shrinks
  <2>1. DOMAIN bets' = DOMAIN bets /\ bets'[i] = q /\ \A j \in DOMAIN bets \ {i} : bets'[j] = bets[j]
    BY <1>0, <1>6 DEF SetRow
  <2>2. \A j \in DOMAIN bets' :
          /\ bets'[j].round = bets[j].round /\ bets'[j].wallet = bets[j].wallet
          /\ bets'[j].amount = bets[j].amount
          /\ bets'[j].status = "reserving" => bets[j].status = "reserving"
          /\ bets'[j].status \in {"active", "reserving"} => bets[j].status \in {"active", "reserving"}
          /\ bets'[j].status \in WonStatuses => bets[j].status \in WonStatuses \cup {"active"}
          /\ bets'[j].status \in WageredStatuses \cup {"reserving"} =>
               bets[j].status \in WageredStatuses \cup {"reserving"}
    BY <1>6, <2>1
  <2>3. \A j \in DOMAIN bets : bets[j].status \in WonStatuses =>
          \/ j \in DOMAIN bets' /\ bets'[j].status \in WonStatuses /\ bets'[j].payout = bets[j].payout
          \/ bets[j].wallet \in reclaimed'
    BY <1>6, <2>1
  <2> QED BY <1>6, <2>1, <2>2, <2>3 DEF Shrinks
<1>7. ASSUME NEW s \in Seats, Debit(s) \/ Activate(s) PROVE Shrinks
  <2> DEFINE i == calls[s].bet
  <2>1. i \in DOMAIN bets /\ bets[i].status = "reserving" /\ bets[i] \in RowType
    BY <1>0, <1>7 DEF Debit, Activate, SlotsAreOwned, OfWallet
  <2>2. \/ SetRow(i, [bets[i] EXCEPT !.charged = TRUE])
        \/ SetRow(i, [bets[i] EXCEPT !.status = "active"])
    BY <1>7 DEF Debit, Activate
  <2>3. setup' = setup
    BY <1>7 DEF Debit, Activate
  <2> HIDE DEF i
  <2>4. CASE SetRow(i, [bets[i] EXCEPT !.charged = TRUE])
    <3> DEFINE q == [bets[i] EXCEPT !.charged = TRUE]
    <3>1. q.round = bets[i].round /\ q.wallet = bets[i].wallet /\ q.amount = bets[i].amount /\ q.status = "reserving"
      BY <2>1 DEF RowType
    <3> HIDE DEF q
    <3> QED BY <1>6, <2>1, <2>3, <2>4, <3>1 DEF q
  <2>5. CASE SetRow(i, [bets[i] EXCEPT !.status = "active"])
    <3> DEFINE q == [bets[i] EXCEPT !.status = "active"]
    <3>1. q.round = bets[i].round /\ q.wallet = bets[i].wallet /\ q.amount = bets[i].amount /\ q.status = "active"
      BY <2>1 DEF RowType
    <3> HIDE DEF q
    <3> QED BY <1>6, <2>1, <2>3, <2>5, <3>1 DEF q
  <2> QED BY <2>2, <2>4, <2>5
<1>8. ASSUME NEW i \in DOMAIN bets, RowStep(i) PROVE Shrinks
  <2>1. setup' = setup
    BY <1>8, RowStepFrame
  <2>2. ASSUME NEW q \in RowType, SetRow(i, q), Follows(i, q) PROVE Shrinks
    BY <1>6, <2>1, <2>2 DEF Follows
  <2> QED BY <1>0, <1>4, <1>8, <2>1, <2>2, RowSteps
<1>9. CASE EnterRunning \/ NextRound
  BY <1>1, <1>9 DEF EnterRunning, NextRound
<1>10. CASE SettleRound
  <2>1. DOMAIN bets' = DOMAIN bets /\ setup' = setup
    BY <1>10 DEF SettleRound
  <2>2. \A i \in DOMAIN bets :
          \/ bets'[i] = bets[i]
          \/ bets[i].status = "active" /\ bets'[i] = [bets[i] EXCEPT !.status = "busted"]
    BY <1>10 DEF SettleRound
  <2>3. \A i \in DOMAIN bets :
          /\ bets'[i].round = bets[i].round /\ bets'[i].wallet = bets[i].wallet
          /\ bets'[i].amount = bets[i].amount /\ bets'[i].payout = bets[i].payout
          /\ bets'[i].status = bets[i].status \/ (bets[i].status = "active" /\ bets'[i].status = "busted")
    <3> TAKE i \in DOMAIN bets
    <3>1. bets[i] \in RowType
      BY <1>0
    <3> QED BY <2>2, <3>1 DEF RowType
  <2> QED BY <2>1, <2>3 DEF Shrinks
<1> QED BY <1>2, <1>3, <1>5, <1>7, <1>8, <1>9, <1>10 DEF Next, RowStep

(* ----------------------------------------------- what a step does to calls *)

\* What every call does but one that starts or takes the lock: it goes on or returns, and
\* while it holds the lock it does not change.
CallsSettle ==
  \A s \in Seats :
    /\ calls'[s].pc # "idle" => calls[s].pc # "idle" /\ calls'[s].round = calls[s].round
    /\ calls'[s].pc = "lock" => calls[s].pc = "lock"
    /\ calls'[s].pc = "reserve" => calls'[s] = calls[s]

\* How the calls in flight move on, but for the start of placeBet and the reads under its lock.
LEMMA StepCalls ==
  ASSUME CapsInv, Next, ~ \E s \in Seats : LockAndRead(s) \/ \E amount \in Stakes : PlaceBet(s, amount)
  PROVE  CallsSettle
<1> USE DEF EngineIdle, NoRows
<1>0. calls \in [Seats -> CallType]
  BY DEF CapsInv, TypeOK
<1>1. ASSUME calls' = calls PROVE CallsSettle
  BY <1>1 DEF CallsSettle
<1>2. ASSUME NEW s \in Seats, Return(s) PROVE CallsSettle
  <2>1. calls'[s].pc = "idle" /\ \A o \in Seats \ {s} : calls'[o] = calls[o]
    BY <1>0, <1>2 DEF Return, Idle
  <2> QED BY <2>1 DEF CallsSettle
<1>3. ASSUME NEW s \in Seats, OverExposed(s) \/ Rejected(s) \/ DebitFails(s) \/ Activate(s) \/ Dies(s) PROVE CallsSettle
  BY <1>2, <1>3 DEF OverExposed, Rejected, DebitFails, Activate, Dies
<1>4. ASSUME NEW s \in Seats, Reserve(s) PROVE CallsSettle
  <2>1. /\ calls[s].pc = "reserve" /\ calls'[s].pc = "debit" /\ calls'[s].round = calls[s].round
        /\ \A o \in Seats \ {s} : calls'[o] = calls[o]
    BY <1>0, <1>4 DEF Reserve, CallType
  <2> QED BY <2>1 DEF CallsSettle
<1>5. ASSUME NEW s \in Seats, Debit(s) PROVE CallsSettle
  <2>1. /\ calls[s].pc = "debit" /\ calls'[s].pc = "activate" /\ calls'[s].round = calls[s].round
        /\ \A o \in Seats \ {s} : calls'[o] = calls[o]
    BY <1>0, <1>5 DEF Debit, Goto, CallType
  <2> QED BY <2>1 DEF CallsSettle
<1>6. ASSUME NEW i \in DOMAIN bets, RowStep(i) PROVE CallsSettle
  BY <1>1, <1>6, RowStepFrame
<1>7. CASE EnterRunning \/ SettleRound \/ NextRound
  BY <1>1, <1>7 DEF EnterRunning, SettleRound, NextRound
<1> QED BY <1>3, <1>4, <1>5, <1>6, <1>7 DEF Next, RowStep

\* The round shown only moves forward, and with it the crash point is drawn.
LEMMA StepRound ==
  ASSUME TypeOK, Next
  PROVE  /\ round' \in Nat /\ round \in Nat /\ round <= round'
         /\ NextRound \/ (round' = round /\ crash' = crash)
<1>1. round \in Nat /\ round \in 1..MaxRound
  BY RiskAssumption DEF TypeOK
<1>2. NextRound \/ (round' = round /\ crash' = crash)
  <2>1. ASSUME NEW i \in DOMAIN bets, RowStep(i) PROVE round' = round /\ crash' = crash
    BY <2>1, RowStepFrame
  <2> QED BY <2>1 DEF Next, RowStep, PlaceBet, LockAndRead, OverExposed, Reserve, Rejected, Debit, DebitFails, Activate,
                      Dies, EngineIdle, EnterRunning, SettleRound
<1> QED BY <1>1, <1>2 DEF NextRound

\* placeBet up to the lock.
LEMMA PlaceBetCalls ==
  ASSUME TypeOK, NEW s \in Seats, NEW amount \in Stakes, PlaceBet(s, amount)
  PROVE  /\ calls'[s].pc = "lock" /\ calls'[s].round = round /\ calls'[s].bet = 0
         /\ \A o \in Seats \ {s} : calls'[o] = calls[o]
         /\ bets' = bets /\ lastId' = lastId /\ setup' = setup /\ round' = round /\ phase' = phase
  BY DEF TypeOK, PlaceBet, Idle, EngineIdle, NoRows

\* The lock and the reads under it.
LEMMA LockCalls ==
  ASSUME TypeOK, NEW s \in Seats, LockAndRead(s)
  PROVE  /\ calls[s].pc = "lock" /\ calls'[s].pc = "reserve" /\ calls'[s].round = calls[s].round
         /\ calls'[s].bet = calls[s].bet /\ calls'[s].amount = calls[s].amount
         /\ calls'[s].reserved = SumOf({i \in RoundBets(calls[s].round) :
                                          bets[i].wallet = s[1] /\ bets[i].status = "reserving"}, Stake)
         /\ \A o \in Seats \ {s} : calls'[o] = calls[o]
         /\ bets' = bets /\ lastId' = lastId /\ setup' = setup /\ round' = round /\ phase' = phase
<1> DEFINE n == SumOf({i \in RoundBets(calls[s].round) : bets[i].wallet = s[1] /\ bets[i].status = "reserving"}, Stake)
<1>1. calls' = [calls EXCEPT ![s].pc = "reserve", ![s].reserved = n]
  BY DEF LockAndRead
<1> HIDE DEF n
<1>2. /\ calls'[s].pc = "reserve" /\ calls'[s].round = calls[s].round
      /\ calls'[s].bet = calls[s].bet /\ calls'[s].amount = calls[s].amount /\ calls'[s].reserved = n
      /\ \A o \in Seats \ {s} : calls'[o] = calls[o]
  BY <1>1 DEF TypeOK, CallType
<1>3. calls[s].pc = "lock" /\ bets' = bets /\ lastId' = lastId /\ setup' = setup /\ round' = round /\ phase' = phase
  BY DEF LockAndRead, EngineIdle, NoRows
<1> QED BY <1>2, <1>3 DEF n

\* The insert of a slot.
LEMMA ReserveCalls ==
  ASSUME TypeOK, NEW s \in Seats, Reserve(s)
  PROVE  /\ calls[s].pc = "reserve" /\ calls'[s].pc = "debit" /\ calls'[s].round = calls[s].round
         /\ calls'[s].bet = lastId' /\ lastId' = lastId + 1
         /\ \A o \in Seats \ {s} : calls'[o] = calls[o]
         /\ setup' = setup /\ round' = round /\ phase' = phase /\ reclaimed' = reclaimed
         /\ DOMAIN bets' = DOMAIN bets \cup {lastId'} /\ lastId' \notin DOMAIN bets
         /\ \A i \in DOMAIN bets : bets'[i] = bets[i]
         /\ bets'[lastId'].round = calls[s].round /\ bets'[lastId'].wallet = s[1]
         /\ bets'[lastId'].amount = calls[s].amount /\ bets'[lastId'].status = "reserving"
         /\ bets'[lastId'] = NewRow(s)
<1>1. lastId \in Nat /\ lastId' = lastId + 1 /\ lastId' \notin DOMAIN bets
  BY RiskAssumption DEF TypeOK, Reserve
<1>2. /\ calls[s].pc = "reserve" /\ calls'[s].pc = "debit" /\ calls'[s].round = calls[s].round
      /\ calls'[s].bet = lastId' /\ \A o \in Seats \ {s} : calls'[o] = calls[o]
  BY DEF TypeOK, Reserve, CallType
<1>3. setup' = setup /\ round' = round /\ phase' = phase /\ reclaimed' = reclaimed
  BY DEF Reserve, EngineIdle
<1>4. /\ DOMAIN bets' = DOMAIN bets \cup {lastId'} /\ bets'[lastId'] = NewRow(s)
      /\ \A i \in DOMAIN bets : bets'[i] = bets[i]
  BY <1>1 DEF Reserve
<1> QED BY <1>1, <1>2, <1>3, <1>4 DEF NewRow

\* There is a number for every call that may still insert a slot.
LEMMA StepNumbers ==
  ASSUME CapsInv, Next
  PROVE  NumbersLeft'
<1>0. TypeOK /\ NumbersLeft /\ lastId \in Nat /\ MaxBets \in Nat
  BY RiskAssumption DEF CapsInv, TypeOK
<1>1. ASSUME NEW s \in Seats, NEW amount \in Stakes, PlaceBet(s, amount) PROVE NumbersLeft'
  <2>1. Asking' = Asking \cup {s} /\ lastId' = lastId
    BY <1>0, <1>1, PlaceBetCalls DEF Asking
  <2>2. Cardinality(Asking') <= Cardinality(Asking) + 1
    BY <2>1, AskingFinite, FS_AddElement
  <2>3. lastId + Cardinality(Asking) < MaxBets
    BY <1>1 DEF PlaceBet
  <2> QED BY <1>0, <2>1, <2>2, <2>3, AskingFinite DEF NumbersLeft
<1>2. ASSUME NEW s \in Seats, Reserve(s) PROVE NumbersLeft'
  <2>1. Asking' = Asking \ {s} /\ s \in Asking /\ lastId' = lastId + 1
    BY <1>0, <1>2, ReserveCalls DEF Asking
  <2>2. Cardinality(Asking') = Cardinality(Asking) - 1
    BY <2>1, AskingFinite, FS_RemoveElement
  <2> QED BY <1>0, <2>1, <2>2, AskingFinite DEF NumbersLeft
<1>3. ASSUME lastId' = lastId, Asking' \subseteq Asking PROVE NumbersLeft'
  <2>1. Cardinality(Asking') <= Cardinality(Asking)
    BY <1>3, AskingFinite, FS_Subset
  <2> QED BY <1>0, <1>3, <2>1, AskingFinite DEF NumbersLeft
<1>4. ASSUME NEW s \in Seats, LockAndRead(s) PROVE NumbersLeft'
  <2>1. lastId' = lastId /\ Asking' \subseteq Asking
    BY <1>0, <1>4, LockCalls DEF Asking
  <2> QED BY <1>3, <2>1
<1>5. ASSUME ~ (\E s \in Seats : LockAndRead(s) \/ Reserve(s) \/ \E amount \in Stakes : PlaceBet(s, amount))
      PROVE  NumbersLeft'
  <2>1. lastId' = lastId
    <3>1. ASSUME NEW i \in DOMAIN bets, RowStep(i) PROVE lastId' = lastId
      BY <3>1, RowStepFrame
    <3> QED BY <1>5, <3>1 DEF Next, RowStep, OverExposed, Rejected, Debit, DebitFails, Activate, Dies, NoRows,
                              EnterRunning, SettleRound, NextRound
  <2>2. CallsSettle
    BY <1>5, StepCalls
  <2>3. Asking' \subseteq Asking
    BY <2>2 DEF CallsSettle, Asking
  <2> QED BY <1>3, <2>1, <2>3
<1> QED BY <1>1, <1>2, <1>4, <1>5

\* The advisory lock is held by one call.
LEMMA StepLock ==
  ASSUME CapsInv, Next
  PROVE  LockExcludes'
<1>0. TypeOK /\ LockExcludes /\ round \in 1..MaxRound /\ MaxRound \in Nat
  BY RiskAssumption DEF CapsInv, TypeOK
<1>1. ASSUME NEW s \in Seats, NEW amount \in Stakes, PlaceBet(s, amount) PROVE LockExcludes'
  BY <1>0, <1>1, PlaceBetCalls DEF LockExcludes
<1>2. ASSUME NEW s \in Seats, LockAndRead(s) PROVE LockExcludes'
  <2>1. \A o \in Seats : ~ (calls[o].pc = "reserve" /\ calls[o].round = calls[s].round)
    BY <1>2 DEF LockAndRead, Unlocked, Holder
  <2>2. /\ calls[s].pc = "lock" /\ calls'[s].round = calls[s].round /\ round' = round
        /\ \A o \in Seats \ {s} : calls'[o] = calls[o]
    BY <1>0, <1>2, LockCalls
  <2> QED BY <1>0, <2>1, <2>2 DEF LockExcludes
<1>3. ASSUME CallsSettle PROVE LockExcludes'
  <2>1. \A s \in Seats : calls'[s].pc # "idle" => calls'[s].round \in 1..round'
    <3> SUFFICES ASSUME NEW s \in Seats, calls'[s].pc # "idle" PROVE calls'[s].round \in 1..round'
      OBVIOUS
    <3>1. calls'[s].round = calls[s].round /\ calls[s].round \in 1..round
      BY <1>0, <1>3 DEF CallsSettle, LockExcludes
    <3> QED BY <1>0, <3>1, StepRound
  <2>2. \A s, o \in Seats :
          calls'[s].pc = "reserve" /\ calls'[o].pc = "reserve" /\ calls'[s].round = calls'[o].round => s = o
    BY <1>0, <1>3 DEF CallsSettle, LockExcludes
  <2> QED BY <2>1, <2>2 DEF LockExcludes
<1> QED BY <1>1, <1>2, <1>3, StepCalls

(* -------------------------------------------------------- who owns a row *)

\* A slot in flight belongs to the call that inserted it.
LEMMA StepOwned ==
  ASSUME CapsInv, Next
  PROVE  SlotsAreOwned'
<1> USE DEF EngineIdle, NoRows
<1>0. /\ TypeOK /\ SlotsAreOwned /\ lastId \in Nat /\ DOMAIN bets \subseteq 1..lastId
      /\ bets \in [DOMAIN bets -> RowType] /\ calls \in [Seats -> CallType]
      /\ \A i \in DOMAIN bets : LegsFit(bets[i])
  BY RiskAssumption DEF CapsInv, TypeOK, RowsFit
<1>A. \A s \in Seats : calls[s].pc \in {"debit", "activate"} =>
        /\ calls[s].bet \in DOMAIN bets /\ calls[s].bet # 0
        /\ bets[calls[s].bet].status = "reserving" /\ bets[calls[s].bet].wallet = s[1]
  BY <1>0 DEF SlotsAreOwned, OfWallet
<1>B. \A s \in Seats : calls[s].pc \notin {"debit", "activate"} => calls[s].bet = 0
  BY <1>0 DEF SlotsAreOwned
<1>C. ASSUME calls' \in [Seats -> CallType],
             \A s \in Seats : calls'[s].pc \in {"debit", "activate"} =>
               /\ calls'[s].bet \in DOMAIN bets' /\ bets'[calls'[s].bet].status = "reserving"
               /\ bets'[calls'[s].bet].wallet = s[1]
               /\ calls'[s].pc = "activate" => bets'[calls'[s].bet].charged,
             \A s \in Seats : calls'[s].pc \notin {"debit", "activate"} => calls'[s].bet = 0,
             \A s, o \in Seats : calls'[s].bet = calls'[o].bet => s = o \/ calls'[s].bet = 0
      PROVE  SlotsAreOwned'
  BY <1>C DEF SlotsAreOwned, OfWallet
<1>D. calls' \in [Seats -> CallType]
  BY StepTypes DEF TypeOK
\* Steps that leave the calls, or end one of them, and leave the owned rows.
<1>E. ASSUME \A s \in Seats : calls'[s] = calls[s] \/ (calls'[s].bet = 0 /\ calls'[s].pc \notin {"debit", "activate"}),
             \A s \in Seats : calls'[s].pc \in {"debit", "activate"} =>
               calls[s].bet \in DOMAIN bets' /\ bets'[calls[s].bet] = bets[calls[s].bet]
      PROVE  SlotsAreOwned'
  <2>1. \A s \in Seats : calls'[s].pc \in {"debit", "activate"} =>
               /\ calls'[s].bet \in DOMAIN bets' /\ bets'[calls'[s].bet].status = "reserving"
               /\ bets'[calls'[s].bet].wallet = s[1]
               /\ calls'[s].pc = "activate" => bets'[calls'[s].bet].charged
    BY <1>0, <1>A, <1>E DEF SlotsAreOwned
  <2>2. \A s \in Seats : calls'[s].pc \notin {"debit", "activate"} => calls'[s].bet = 0
    BY <1>B, <1>E
  <2>3. \A s, o \in Seats : calls'[s].bet = calls'[o].bet => s = o \/ calls'[s].bet = 0
    BY <1>0, <1>E DEF SlotsAreOwned
  <2> QED BY <1>C, <1>D, <2>1, <2>2, <2>3
<1>F. ASSUME NEW s \in Seats, Return(s)
      PROVE  calls'[s].bet = 0 /\ calls'[s].pc = "idle" /\ \A o \in Seats \ {s} : calls'[o] = calls[o]
  BY <1>0, <1>F DEF Return, Idle
<1>1. ASSUME NEW s \in Seats, NEW amount \in Stakes, PlaceBet(s, amount) PROVE SlotsAreOwned'
  BY <1>0, <1>1, <1>A, <1>E, PlaceBetCalls
<1>2. ASSUME NEW s \in Seats, LockAndRead(s) PROVE SlotsAreOwned'
  <2>1. calls'[s].bet = 0 /\ calls'[s].pc = "reserve" /\ bets' = bets /\ \A o \in Seats \ {s} : calls'[o] = calls[o]
    BY <1>0, <1>2, <1>B, LockCalls
  <2> QED BY <1>A, <1>E, <2>1
<1>3. ASSUME NEW s \in Seats, OverExposed(s) \/ Rejected(s) \/ Dies(s) PROVE SlotsAreOwned'
  <2>1. Return(s) /\ bets' = bets
    BY <1>3 DEF OverExposed, Rejected, Dies
  <2> QED BY <1>A, <1>E, <1>F, <2>1
<1>4. ASSUME NEW s \in Seats, Reserve(s) PROVE SlotsAreOwned'
  <2>1. /\ calls'[s].pc = "debit" /\ calls'[s].bet = lastId' /\ lastId' = lastId + 1
        /\ \A o \in Seats \ {s} : calls'[o] = calls[o]
        /\ DOMAIN bets' = DOMAIN bets \cup {lastId'} /\ lastId' \notin DOMAIN bets
        /\ \A i \in DOMAIN bets : bets'[i] = bets[i]
        /\ bets'[lastId'].wallet = s[1] /\ bets'[lastId'].status = "reserving"
    BY <1>0, <1>4, ReserveCalls
  <2>2. \A o \in Seats : calls'[o].pc \in {"debit", "activate"} =>
               /\ calls'[o].bet \in DOMAIN bets' /\ bets'[calls'[o].bet].status = "reserving"
               /\ bets'[calls'[o].bet].wallet = o[1]
               /\ calls'[o].pc = "activate" => bets'[calls'[o].bet].charged
    BY <1>0, <1>A, <2>1 DEF SlotsAreOwned
  <2>3. \A o \in Seats : calls'[o].pc \notin {"debit", "activate"} => calls'[o].bet = 0
    BY <1>B, <2>1
  <2>4. \A o \in Seats : calls[o].bet # lastId'
    BY <1>0, <1>A, <1>B, <2>1
  <2>5. \A o, q \in Seats : calls'[o].bet = calls'[q].bet => o = q \/ calls'[o].bet = 0
    BY <1>0, <2>1, <2>4 DEF SlotsAreOwned
  <2> QED BY <1>C, <1>D, <2>2, <2>3, <2>5
<1>5. ASSUME NEW s \in Seats, Debit(s) PROVE SlotsAreOwned'
  <2>1. /\ calls[s].pc = "debit" /\ calls'[s].pc = "activate" /\ calls'[s].bet = calls[s].bet
        /\ \A o \in Seats \ {s} : calls'[o] = calls[o]
    BY <1>0, <1>5 DEF Debit, Goto, CallType
  <2> DEFINE i == calls[s].bet
  <2>2. /\ i \in DOMAIN bets /\ DOMAIN bets' = DOMAIN bets /\ \A j \in DOMAIN bets \ {i} : bets'[j] = bets[j]
        /\ bets'[i] = [bets[i] EXCEPT !.charged = TRUE]
    BY <1>5, <1>A, <2>1 DEF Debit, SetRow
  <2> HIDE DEF i
  <2>3. /\ bets'[i].status = bets[i].status /\ bets'[i].wallet = bets[i].wallet
        /\ bets'[i].charged
    BY <1>0, <2>2 DEF RowType
  <2>4. \A o \in Seats : calls'[o].bet = calls[o].bet
    BY <2>1
  <2>5. \A o \in Seats \ {s} : calls[o].bet # i
    BY <1>0, <1>A, <2>1 DEF SlotsAreOwned, i
  <2>6. ASSUME NEW o \in Seats, calls'[o].pc \in {"debit", "activate"}
        PROVE  /\ calls'[o].bet \in DOMAIN bets' /\ bets'[calls'[o].bet].status = "reserving"
               /\ bets'[calls'[o].bet].wallet = o[1]
               /\ calls'[o].pc = "activate" => bets'[calls'[o].bet].charged
    <3>1. CASE o = s
      BY <1>A, <2>1, <2>2, <2>3, <3>1 DEF i
    <3>2. CASE o # s
      <4>1. calls'[o] = calls[o] /\ calls[o].bet \in DOMAIN bets \ {i}
        BY <1>A, <2>1, <2>5, <2>6, <3>2
      <4>2. bets'[calls[o].bet] = bets[calls[o].bet]
        BY <2>2, <4>1
      <4> QED BY <1>0, <1>A, <2>2, <2>6, <4>1, <4>2 DEF SlotsAreOwned
    <3> QED BY <3>1, <3>2
  <2>7. \A o \in Seats : calls'[o].pc \notin {"debit", "activate"} => calls'[o].bet = 0
    BY <1>B, <2>1
  <2>8. \A o, q \in Seats : calls'[o].bet = calls'[q].bet => o = q \/ calls'[o].bet = 0
    BY <1>0, <2>4 DEF SlotsAreOwned
  <2> QED BY <1>C, <1>D, <2>6, <2>7, <2>8
<1>6. ASSUME NEW s \in Seats, DebitFails(s) \/ Activate(s) PROVE SlotsAreOwned'
  <2>1. Return(s) /\ calls[s].pc \in {"debit", "activate"}
    BY <1>6 DEF DebitFails, Activate
  <2>2. \A i \in DOMAIN bets : i # calls[s].bet => i \in DOMAIN bets' /\ bets'[i] = bets[i]
    BY <1>6 DEF DebitFails, Activate, Without, SetRow
  <2>3. \A o \in Seats \ {s} : calls[o].pc \in {"debit", "activate"} => calls[o].bet # calls[s].bet
    BY <1>0, <1>A, <2>1 DEF SlotsAreOwned
  <2>4. /\ calls'[s].bet = 0 /\ calls'[s].pc = "idle" /\ \A o \in Seats \ {s} : calls'[o] = calls[o]
    BY <1>F, <2>1
  <2> QED BY <1>A, <1>E, <2>2, <2>3, <2>4
\* The other steps move a row that no call owns.
<1>G. ASSUME NEW i, calls' = calls, i \notin Owned \/ (i \in DOMAIN bets /\ bets[i].status # "reserving"),
             \A j \in DOMAIN bets : j # i => j \in DOMAIN bets' /\ bets'[j] = bets[j]
      PROVE  SlotsAreOwned'
  <2>1. \A s \in Seats : calls[s].pc \in {"debit", "activate"} => calls[s].bet # i
    BY <1>A, <1>G DEF Owned
  <2> QED BY <1>A, <1>E, <1>G, <2>1
<1>7. ASSUME NEW i \in DOMAIN bets, RowStep(i) PROVE SlotsAreOwned'
  <2>1. calls' = calls
    BY <1>7, RowStepFrame
  <2>2. CASE bets' = Without({i}) /\ bets[i].status = "cancelling"
    BY <1>7, <1>G, <2>1, <2>2 DEF Without
  <2>3. ASSUME NEW q \in RowType, SetRow(i, q), Follows(i, q) PROVE SlotsAreOwned'
    <3>1. i \notin Owned \/ bets[i].status # "reserving"
      BY <2>3 DEF Follows, WonStatuses
    <3>2. DOMAIN bets' = DOMAIN bets /\ \A j \in DOMAIN bets : j # i => bets'[j] = bets[j]
      BY <1>0, <2>3 DEF SetRow
    <3> QED BY <1>7, <1>G, <2>1, <3>1, <3>2
  <2> QED BY <1>0, <1>7, <2>2, <2>3, RowSteps
<1>8. CASE EnterRunning \/ NextRound
  BY <1>8, <1>A, <1>E DEF EnterRunning, NextRound
<1>9. CASE SettleRound
  <2>1. DOMAIN bets' = DOMAIN bets /\ calls' = calls
        /\ \A i \in DOMAIN bets : bets[i].status = "reserving" => bets'[i] = bets[i]
    BY <1>9 DEF SettleRound
  <2> QED BY <1>A, <1>E, <2>1
<1> QED BY <1>1, <1>2, <1>3, <1>4, <1>5, <1>6, <1>7, <1>8, <1>9 DEF Next, RowStep

(* --------------------------------------------------- what a row may hold *)

\* The fit of a row when the engine shows round rd in phase ph with crash point cr.
Fits(r, rd, ph, cr) ==
  /\ r.round <= rd
  /\ LegsFit(r)
  /\ r.round = rd /\ r.status \in WonStatuses =>
       /\ ph # "betting"
       /\ cr <= 100 * MaxMultiplier => r.payout <= PotentialPayout(r.amount)

\* RowsFit, row by row.
LEMMA RowsFitNow == RowsFit <=> \A i \in DOMAIN bets : Fits(bets[i], round, phase, crash)
  BY DEF RowsFit, Fits

\* RowsFit of the next state, row by row.
LEMMA RowsFitNext == RowsFit' <=> \A i \in DOMAIN bets' : Fits(bets'[i], round', phase', crash')
  BY DEF RowsFit, Fits, LegsFit

\* A row that placeBet or settleRound moves keeps its legs.
LEMMA LegsKept ==
  ASSUME NEW r \in RowType, LegsFit(r)
  PROVE  /\ r.status = "reserving" => /\ LegsFit([r EXCEPT !.charged = TRUE])
                                      /\ r.charged => LegsFit([r EXCEPT !.status = "active"])
         /\ r.status = "active" => LegsFit([r EXCEPT !.status = "busted"])
<1>1. ASSUME r.status = "reserving" PROVE LegsFit([r EXCEPT !.charged = TRUE])
  BY <1>1 DEF LegsFit, RowType, WonStatuses
<1>2. ASSUME r.status = "reserving", r.charged PROVE LegsFit([r EXCEPT !.status = "active"])
  BY <1>2 DEF LegsFit, RowType, WonStatuses
<1>3. ASSUME r.status = "active" PROVE LegsFit([r EXCEPT !.status = "busted"])
  BY <1>3 DEF LegsFit, RowType, WonStatuses
<1> QED BY <1>1, <1>2, <1>3

\* Every row stays consistent: its status, its claim, and what the wallet has of it.
LEMMA StepRows ==
  ASSUME CapsInv, Next
  PROVE  RowsFit'
<1> USE DEF EngineIdle, NoRows
<1>0. /\ TypeOK /\ SlotsAreOwned /\ LockExcludes /\ bets \in [DOMAIN bets -> RowType]
      /\ calls \in [Seats -> CallType]
      /\ round \in Nat /\ crash \in Nat
      /\ \A i \in DOMAIN bets : bets[i] \in RowType /\ Fits(bets[i], round, phase, crash) /\ LegsFit(bets[i])
  BY RowsFitNow, CrashNat, StepRound DEF CapsInv, TypeOK, Fits
\* One row moves, the engine stands still.
<1>E. ASSUME UNCHANGED <<round, phase, crash>>, NEW i, DOMAIN bets' \subseteq DOMAIN bets \cup {i},
             \A j \in DOMAIN bets : j # i /\ j \in DOMAIN bets' => bets'[j] = bets[j],
             i \in DOMAIN bets' => Fits(bets'[i], round, phase, crash)
      PROVE  RowsFit'
  BY <1>0, <1>E, RowsFitNext
<1>S. ASSUME UNCHANGED <<round, phase, crash>>, NEW i \in DOMAIN bets, NEW q, SetRow(i, q),
             Fits(q, round, phase, crash)
      PROVE  RowsFit'
  <2>1. DOMAIN bets' = DOMAIN bets /\ bets'[i] = q /\ \A j \in DOMAIN bets : j # i => bets'[j] = bets[j]
    BY <1>0, <1>S DEF SetRow
  <2> QED BY <1>E, <1>S, <2>1
<1>1. ASSUME NEW s \in Seats, NEW amount \in Stakes, PlaceBet(s, amount) PROVE RowsFit'
  BY <1>0, <1>1, RowsFitNext DEF PlaceBet
<1>2. ASSUME NEW s \in Seats, LockAndRead(s) \/ OverExposed(s) \/ Rejected(s) \/ Dies(s) PROVE RowsFit'
  BY <1>0, <1>2, RowsFitNext DEF LockAndRead, OverExposed, Rejected, Dies
<1>3. ASSUME NEW s \in Seats, Reserve(s) PROVE RowsFit'
  <2>1. /\ DOMAIN bets' = DOMAIN bets \cup {lastId'} /\ \A j \in DOMAIN bets : bets'[j] = bets[j]
        /\ lastId' \notin DOMAIN bets /\ bets'[lastId'] = NewRow(s)
    BY <1>0, <1>3, ReserveCalls
  <2>2. calls[s].round <= round
    BY <1>0, <1>3 DEF Reserve, LockExcludes
  <2>3. Fits(NewRow(s), round, phase, crash)
    BY <2>2 DEF NewRow, Fits, LegsFit, WonStatuses
  <2>4. UNCHANGED <<round, phase, crash>>
    BY <1>3 DEF Reserve
  <2> QED BY <1>E, <2>1, <2>3, <2>4
<1>4. ASSUME NEW s \in Seats, Debit(s) PROVE RowsFit'
  <2> DEFINE i == calls[s].bet
             q == [bets[i] EXCEPT !.charged = TRUE]
  <2>1. i \in DOMAIN bets /\ bets[i].status = "reserving"
    BY <1>0, <1>4 DEF Debit, SlotsAreOwned, OfWallet
  <2>2. UNCHANGED <<round, phase, crash>> /\ SetRow(i, q)
    BY <1>4 DEF Debit
  <2> HIDE DEF i
  <2>3. LegsFit(q)
    BY <1>0, <2>1, LegsKept
  <2>4. q.status = "reserving" /\ q.round = bets[i].round
    BY <1>0, <2>1 DEF RowType
  <2> HIDE DEF q
  <2>5. Fits(q, round, phase, crash)
    BY <1>0, <2>1, <2>3, <2>4 DEF Fits, WonStatuses
  <2> QED BY <1>S, <2>1, <2>2, <2>5
<1>5. ASSUME NEW s \in Seats, DebitFails(s) PROVE RowsFit'
  <2>1. /\ UNCHANGED <<round, phase, crash>> /\ DOMAIN bets' \subseteq DOMAIN bets
        /\ \A j \in DOMAIN bets' : bets'[j] = bets[j]
    BY <1>5 DEF DebitFails, Without
  <2> QED BY <1>0, <2>1, RowsFitNext
<1>6. ASSUME NEW s \in Seats, Activate(s) PROVE RowsFit'
  <2> DEFINE i == calls[s].bet
             q == [bets[i] EXCEPT !.status = "active"]
  <2>1. i \in DOMAIN bets /\ bets[i].status = "reserving" /\ bets[i].charged
    BY <1>0, <1>6 DEF Activate, SlotsAreOwned, OfWallet
  <2>2. UNCHANGED <<round, phase, crash>> /\ SetRow(i, q)
    BY <1>6 DEF Activate
  <2> HIDE DEF i
  <2>3. LegsFit(q)
    BY <1>0, <2>1, LegsKept
  <2>4. q.status = "active" /\ q.round = bets[i].round
    BY <1>0, <2>1 DEF RowType
  <2> HIDE DEF q
  <2>5. Fits(q, round, phase, crash)
    BY <1>0, <2>1, <2>3, <2>4 DEF Fits, WonStatuses
  <2> QED BY <1>S, <2>1, <2>2, <2>5
<1>7. ASSUME NEW i \in DOMAIN bets, RowStep(i) PROVE RowsFit'
  <2>0. UNCHANGED <<round, phase, crash>>
    BY <1>7, RowStepFrame
  <2>1. ASSUME bets' = Without({i}) PROVE RowsFit'
    <3>1. DOMAIN bets' \subseteq DOMAIN bets /\ \A j \in DOMAIN bets' : bets'[j] = bets[j]
      BY <2>1 DEF Without
    <3> QED BY <1>0, <2>0, <3>1, RowsFitNext
  <2>2. ASSUME NEW q \in RowType, SetRow(i, q), Follows(i, q) PROVE RowsFit'
    <3>1. q.round <= round /\ LegsFit(q)
      BY <1>0, <2>2 DEF Follows, Fits
    <3>2. ASSUME q.round = round, q.status \in WonStatuses
          PROVE  /\ phase # "betting"
                 /\ crash <= 100 * MaxMultiplier => q.payout <= PotentialPayout(q.amount)
      BY <1>0, <2>2, <3>2 DEF Follows, Fits, WonStatuses
    <3>3. Fits(q, round, phase, crash)
      BY <3>1, <3>2 DEF Fits
    <3> QED BY <1>S, <2>0, <2>2, <3>3
  <2> QED BY <1>0, <1>7, <2>1, <2>2, RowSteps
<1>8. CASE EnterRunning
  <2>1. bets' = bets /\ round' = round /\ crash' = crash /\ phase' # "betting"
    BY <1>8 DEF EnterRunning
  <2> QED BY <1>0, <2>1, RowsFitNext DEF Fits
<1>9. CASE SettleRound
  <2>1. DOMAIN bets' = DOMAIN bets /\ round' = round /\ crash' = crash /\ phase' # "betting"
    BY <1>9 DEF SettleRound
  <2>2. ASSUME NEW i \in DOMAIN bets PROVE Fits(bets'[i], round', phase', crash')
    <3>1. CASE bets'[i] = bets[i]
      BY <1>0, <2>1, <3>1 DEF Fits
    <3>2. CASE bets'[i] # bets[i]
      <4>1. bets[i].status = "active" /\ bets'[i] = [bets[i] EXCEPT !.status = "busted"] /\ bets[i] \in RowType
        BY <1>0, <1>9, <3>2 DEF SettleRound
      <4>2. bets'[i].status = "busted" /\ bets'[i].round = bets[i].round
        BY <4>1 DEF RowType
      <4>3. LegsFit(bets'[i])
        BY <1>0, <4>1, LegsKept
      <4> QED BY <1>0, <2>1, <4>2, <4>3 DEF Fits, WonStatuses
    <3> QED BY <3>1, <3>2
  <2> QED BY <2>1, <2>2, RowsFitNext
<1>10. CASE NextRound
  <2>1. bets' = bets /\ round' = round + 1
    BY <1>10 DEF NextRound
  <2>2. \A i \in DOMAIN bets : bets[i].round \in Nat /\ bets[i].round <= round
    BY <1>0, RiskAssumption DEF Fits, RowType
  <2>3. \A i \in DOMAIN bets : bets[i].round <= round' /\ bets[i].round # round'
    BY <1>0, <2>1, <2>2
  <2> QED BY <1>0, <2>1, <2>3, RowsFitNext DEF Fits
<1> QED BY <1>1, <1>2, <1>3, <1>4, <1>5, <1>6, <1>7, <1>8, <1>9, <1>10 DEF Next, RowStep

(* -------------------------------------------------------------- the sums *)

\* The sums are natural numbers.
LEMMA SumsNat ==
  ASSUME TypeOK, NEW A, A \subseteq DOMAIN bets
  PROVE  /\ IsFiniteSet(A)
         /\ SumOf(A, Stake) \in Nat /\ SumOf(A, Win) \in Nat /\ SumOf(A, WorstCase) \in Nat
<1>1. IsFiniteSet(A) /\ \A i \in A : Stake[i] \in Nat /\ Win[i] \in Nat /\ WorstCase[i] \in Nat
  BY Rows, FS_Subset
<1> QED BY <1>1, SumNat DEF SumOf

\* The session of a wallet: what is committed is what was wagered and what is in flight.
LEMMA CommittedParts ==
  ASSUME TypeOK, NEW w
  PROVE  /\ Wagered(w) \in Nat /\ Won(w) \in Nat /\ Committed(w) \in Nat
         /\ SumOf(OfWallet(w, {"reserving"}), Stake) \in Nat
         /\ Committed(w) = Wagered(w) + SumOf(OfWallet(w, {"reserving"}), Stake)
<1> DEFINE A == OfWallet(w, WageredStatuses)
           B == OfWallet(w, {"reserving"})
           C == OfWallet(w, WageredStatuses \cup {"reserving"})
<1>1. /\ A \subseteq DOMAIN bets /\ B \subseteq DOMAIN bets /\ C \subseteq DOMAIN bets
      /\ OfWallet(w, WonStatuses) \subseteq DOMAIN bets
      /\ A \cap B = {} /\ A \cup B = C
  BY DEF OfWallet, WageredStatuses
<1> HIDE DEF A, B, C
<1>2. IsFiniteSet(A) /\ IsFiniteSet(B) /\ \A i \in A \cup B : Stake[i] \in Int
  BY <1>1, SumsNat, Rows
<1>3. SumFunctionOnSet(Stake, A \cup B) = SumFunctionOnSet(Stake, A) + SumFunctionOnSet(Stake, B)
  BY <1>1, <1>2, SumUnion
<1>4. SumOf(A, Stake) \in Nat /\ SumOf(B, Stake) \in Nat /\ SumOf(C, Stake) \in Nat
      /\ SumOf(OfWallet(w, WonStatuses), Win) \in Nat
  BY <1>1, SumsNat
<1>5. SumOf(C, Stake) = SumOf(A, Stake) + SumOf(B, Stake)
  BY <1>1, <1>3 DEF SumOf
<1> QED BY <1>4, <1>5 DEF A, B, C, Committed, Wagered, Won

\* Nothing wagered is left out of what is committed, in the next state either.
LEMMA CommittedPartsNext ==
  ASSUME TypeOK', NEW w
  PROVE  /\ Wagered(w)' \in Nat /\ Won(w)' \in Nat /\ Committed(w)' \in Nat
         /\ Wagered(w)' <= Committed(w)'
<1> DEFINE A == OfWallet(w, WageredStatuses)'
           C == OfWallet(w, WageredStatuses \cup {"reserving"})'
           D == OfWallet(w, WonStatuses)'
<1>1. A \subseteq C /\ C \subseteq DOMAIN bets' /\ D \subseteq DOMAIN bets'
  BY DEF OfWallet
<1> HIDE DEF A, C, D
<1>2. IsFiniteSet(A) /\ IsFiniteSet(C) /\ IsFiniteSet(D)
  BY <1>1, RowsPrime, FS_Subset
<1>3. \A i \in C : Stake'[i] \in Nat
  BY <1>1, RowsPrime
<1>4. \A i \in D : Win'[i] \in Nat
  BY <1>1, RowsPrime
<1>5. /\ SumFunctionOnSet(Stake', A) \in Nat /\ SumFunctionOnSet(Stake', C) \in Nat
      /\ SumFunctionOnSet(Win', D) \in Nat
  BY <1>1, <1>2, <1>3, <1>4, SumNat
<1>6. SumFunctionOnSet(Stake', A) <= SumFunctionOnSet(Stake', C)
  BY <1>1, <1>2, <1>3, SumMono
<1> QED BY <1>5, <1>6 DEF A, C, D, Committed, Wagered, Won, SumOf

\* The insert of a slot adds its stake, and leaves every other sum.
LEMMA ReserveSums ==
  ASSUME TypeOK, TypeOK', NEW s \in Seats, Reserve(s), NEW A, A \subseteq DOMAIN bets
  PROVE  /\ SumFunctionOnSet(Stake', A) = SumFunctionOnSet(Stake, A)
         /\ SumFunctionOnSet(Win', A) = SumFunctionOnSet(Win, A)
         /\ SumFunctionOnSet(WorstCase', A) = SumFunctionOnSet(WorstCase, A)
         /\ SumFunctionOnSet(Stake', A \cup {lastId'}) = calls[s].amount + SumFunctionOnSet(Stake, A)
         /\ SumFunctionOnSet(WorstCase', A \cup {lastId'}) =
              PotentialPayout(calls[s].amount) + SumFunctionOnSet(WorstCase, A)
<1>1. /\ DOMAIN bets' = DOMAIN bets \cup {lastId'} /\ lastId' \notin DOMAIN bets
      /\ \A i \in DOMAIN bets : bets'[i] = bets[i]
      /\ bets'[lastId'].amount = calls[s].amount
  BY ReserveCalls
<1>2. IsFiniteSet(A) /\ IsFiniteSet(A \cup {lastId'})
  BY SumsNat, FS_AddElement
<1>3. \A i \in A : /\ Stake'[i] \in Int /\ Stake'[i] = Stake[i] /\ Win'[i] \in Int /\ Win'[i] = Win[i]
                   /\ WorstCase'[i] \in Int /\ WorstCase'[i] = WorstCase[i]
  BY <1>1, Rows, RowsPrime
<1>4. /\ SumFunctionOnSet(Stake', A) = SumFunctionOnSet(Stake, A)
      /\ SumFunctionOnSet(Win', A) = SumFunctionOnSet(Win, A)
      /\ SumFunctionOnSet(WorstCase', A) = SumFunctionOnSet(WorstCase, A)
  BY <1>2, <1>3, SumSame
<1>5. /\ \A i \in A \cup {lastId'} : Stake'[i] \in Int
      /\ \A i \in A \cup {lastId'} : WorstCase'[i] \in Int
      /\ Stake'[lastId'] = calls[s].amount /\ WorstCase'[lastId'] = PotentialPayout(calls[s].amount)
      /\ lastId' \in A \cup {lastId'} /\ (A \cup {lastId'}) \ {lastId'} = A
  BY <1>1, RowsPrime
<1>6. SumFunctionOnSet(Stake', A \cup {lastId'}) = Stake'[lastId'] + SumFunctionOnSet(Stake', (A \cup {lastId'}) \ {lastId'})
  BY <1>2, <1>5, SumSplit
<1>7. SumFunctionOnSet(WorstCase', A \cup {lastId'})
        = WorstCase'[lastId'] + SumFunctionOnSet(WorstCase', (A \cup {lastId'}) \ {lastId'})
  BY <1>2, <1>5, SumSplit
<1> QED BY <1>4, <1>5, <1>6, <1>7

\* The same of the next state.
LEMMA SumsNatNext ==
  ASSUME TypeOK', NEW A, A \subseteq DOMAIN bets'
  PROVE  /\ IsFiniteSet(A)
         /\ SumFunctionOnSet(Stake', A) \in Nat /\ SumFunctionOnSet(Win', A) \in Nat
         /\ SumFunctionOnSet(WorstCase', A) \in Nat
<1>1. IsFiniteSet(A) /\ \A i \in A : Stake'[i] \in Nat /\ Win'[i] \in Nat /\ WorstCase'[i] \in Nat
  BY RowsPrime, FS_Subset
<1> QED BY <1>1, SumNat

\* What a call reads under the lock, of the round rd.
LEMMA ReadsNat ==
  ASSUME TypeOK, TypeOK', NEW w, NEW rd
  PROVE  /\ InFlight(w, rd) \in Nat /\ CurrentExposure(rd, w) \in Nat /\ Owing(w) \in Nat
         /\ InFlight(w, rd)' \in Nat /\ CurrentExposure(rd, w)' \in Nat /\ Owing(w)' \in Nat
<1> DEFINE A == OfWallet(w, {"reserving"}) \cap OfRound(rd, {"reserving"})
           B == InCurrency(RoundBets(rd), setup[w].currency)
           C == InCurrency(OfRound(round, WonStatuses \cup {"active", "reserving"}), setup[w].currency)
<1>1. A \subseteq DOMAIN bets /\ B \subseteq DOMAIN bets /\ C \subseteq DOMAIN bets
  BY DEF OfWallet, OfRound, InCurrency, RoundBets
<1>2. A' \subseteq DOMAIN bets' /\ B' \subseteq DOMAIN bets' /\ C' \subseteq DOMAIN bets'
  BY DEF OfWallet, OfRound, InCurrency, RoundBets
<1> HIDE DEF A, B, C
<1>3. SumOf(A, Stake) \in Nat /\ SumOf(B, WorstCase) \in Nat /\ SumOf(C, WorstCase) \in Nat
  BY <1>1, SumsNat
<1>4. /\ SumFunctionOnSet(Stake', A') \in Nat /\ SumFunctionOnSet(WorstCase', B') \in Nat
      /\ SumFunctionOnSet(WorstCase', C') \in Nat
  BY <1>2, SumsNatNext
<1> QED BY <1>3, <1>4 DEF A, B, C, SumOf, InFlight, CurrentExposure, Owing

\* What a call read under the lock stays an upper bound until it inserts its slot.
LEMMA StepReads ==
  ASSUME CapsInv, Next
  PROVE  ReadsAreSafe'
<1>0. TypeOK /\ TypeOK' /\ LockExcludes /\ ReadsAreSafe
  BY StepTypes DEF CapsInv
<1>1. SUFFICES ASSUME NEW s \in Seats, calls'[s].pc = "reserve", NEW rd \in Nat, calls'[s].round = rd
               PROVE  /\ InFlight(s[1], rd)' <= calls'[s].reserved
                      /\ CurrentExposure(rd, s[1])' + PotentialPayout(calls'[s].amount) <= MaxRoundExposure
  <2>1. \A s \in Seats : calls'[s].round \in Nat
    BY <1>0, RiskAssumption DEF TypeOK, CallType
  <2> QED BY <2>1 DEF ReadsAreSafe, InFlight, ExposureOk
<1> DEFINE w == s[1]
<1>2. /\ w \in Wallets /\ calls'[s].amount \in Nat /\ calls'[s].reserved \in Nat
      /\ PotentialPayout(calls'[s].amount) \in Nat
  BY <1>0, RiskAssumption, PotentialNat DEF TypeOK, CallType
<1> HIDE DEF w
<1>3. /\ InFlight(w, rd) \in Nat /\ CurrentExposure(rd, w) \in Nat
      /\ InFlight(w, rd)' \in Nat /\ CurrentExposure(rd, w)' \in Nat
  BY <1>0, ReadsNat
<1>4. ASSUME InFlight(w, rd)' <= InFlight(w, rd), CurrentExposure(rd, w)' <= CurrentExposure(rd, w),
             InFlight(w, rd) <= calls'[s].reserved,
             CurrentExposure(rd, w) + PotentialPayout(calls'[s].amount) <= MaxRoundExposure
      PROVE  /\ InFlight(w, rd)' <= calls'[s].reserved
             /\ CurrentExposure(rd, w)' + PotentialPayout(calls'[s].amount) <= MaxRoundExposure
  BY <1>2, <1>3, <1>4, PayoutAssumption
\* The read itself.
<1>5. ASSUME LockAndRead(s)
      PROVE  /\ InFlight(w, rd) <= calls'[s].reserved
             /\ CurrentExposure(rd, w) + PotentialPayout(calls'[s].amount) <= MaxRoundExposure
  <2>1. /\ calls[s].round = rd /\ calls'[s].amount = calls[s].amount
        /\ calls'[s].reserved = SumOf({i \in RoundBets(rd) : bets[i].wallet = w /\ bets[i].status = "reserving"}, Stake)
    BY <1>0, <1>1, <1>5, LockCalls DEF w
  <2>2. {i \in RoundBets(rd) : bets[i].wallet = w /\ bets[i].status = "reserving"}
          = OfWallet(w, {"reserving"}) \cap OfRound(rd, {"reserving"})
    BY DEF RoundBets, OfWallet, OfRound
  <2>3. InFlight(w, rd) = calls'[s].reserved
    BY <2>1, <2>2 DEF InFlight
  <2>4. CurrentExposure(rd, w) + PotentialPayout(calls'[s].amount) <= MaxRoundExposure
    BY <1>5, <2>1 DEF LockAndRead, ExposureOk, w
  <2> QED BY <1>2, <1>3, <2>3, <2>4
\* A call that holds the lock already.
<1>6. ASSUME calls'[s] = calls[s]
      PROVE  /\ InFlight(w, rd) <= calls'[s].reserved
             /\ CurrentExposure(rd, w) + PotentialPayout(calls'[s].amount) <= MaxRoundExposure
  BY <1>0, <1>1, <1>6 DEF ReadsAreSafe, InFlight, ExposureOk, w
<1>7. LockAndRead(s) \/ calls'[s] = calls[s]
  <2>1. ASSUME NEW o \in Seats, NEW amount \in Stakes, PlaceBet(o, amount) PROVE calls'[s] = calls[s]
    BY <1>0, <1>1, <2>1, PlaceBetCalls
  <2>2. ASSUME NEW o \in Seats, LockAndRead(o), o # s PROVE calls'[s] = calls[s]
    BY <1>0, <2>2, LockCalls
  <2>3. ASSUME CallsSettle PROVE calls'[s] = calls[s]
    BY <1>1, <2>3 DEF CallsSettle
  <2> QED BY <2>1, <2>2, <2>3, StepCalls
<1>8. CASE \E o \in Seats : Reserve(o)
  <2>1. PICK o \in Seats : Reserve(o)
    BY <1>8
  <2>2. /\ calls[o].pc = "reserve" /\ calls'[o].pc = "debit"
        /\ DOMAIN bets' = DOMAIN bets \cup {lastId'} /\ lastId' \notin DOMAIN bets
        /\ \A i \in DOMAIN bets : bets'[i] = bets[i]
        /\ bets'[lastId'].round = calls[o].round /\ setup' = setup
        /\ calls'[s] = calls[s]
    BY <1>0, <1>1, <2>1, ReserveCalls
  <2>3. calls[o].round # rd
    BY <1>0, <1>1, <2>2 DEF LockExcludes
  <2> DEFINE A == OfWallet(w, {"reserving"}) \cap OfRound(rd, {"reserving"})
             B == InCurrency(RoundBets(rd), setup[w].currency)
  <2>4. A' = A /\ B' = B /\ A \subseteq DOMAIN bets /\ B \subseteq DOMAIN bets
    BY <2>2, <2>3 DEF OfWallet, OfRound, InCurrency, RoundBets
  <2> HIDE DEF A, B
  <2>5. /\ SumFunctionOnSet(Stake', A') = SumFunctionOnSet(Stake, A)
        /\ SumFunctionOnSet(WorstCase', B') = SumFunctionOnSet(WorstCase, B)
    BY <1>0, <2>1, <2>4, ReserveSums
  <2>6. InFlight(w, rd)' = InFlight(w, rd) /\ CurrentExposure(rd, w)' = CurrentExposure(rd, w)
    BY <2>5 DEF A, B, SumOf, InFlight, CurrentExposure
  <2> QED BY <1>3, <1>4, <1>6, <2>2, <2>6 DEF w
<1>9. CASE ~ \E o \in Seats : Reserve(o)
  <2>1. InFlight(w, rd)' <= InFlight(w, rd) /\ CurrentExposure(rd, w)' <= CurrentExposure(rd, w)
    BY <1>0, <1>2, <1>9, StepShrinks, ShrinkStakes
  <2> QED BY <1>4, <1>5, <1>6, <1>7, <2>1 DEF w
<1> QED BY <1>8, <1>9

\* The caps of a session, with what is in flight: a slot is inserted only after the caps were
\* compared with a sum that was not too low, and every other step lowers it.
LEMMA StepCommitted ==
  ASSUME CapsInv, Next
  PROVE  CommittedWithinCaps'
<1>0. TypeOK /\ TypeOK' /\ ReadsAreSafe /\ CommittedWithinCaps
  BY StepTypes DEF CapsInv
<1>1. SUFFICES ASSUME NEW w \in Wallets, w \notin straddled'
               PROVE  /\ \A cap \in setup'[w].wager : Committed(w)' <= cap
                      /\ w \notin reclaimed' => \A cap \in setup'[w].loss : Committed(w)' - Won(w)' <= cap
  BY DEF CommittedWithinCaps, Committed, Won
<1>2. setup' = setup /\ straddled \subseteq straddled' /\ reclaimed \subseteq reclaimed'
  <2>1. ASSUME NEW i \in DOMAIN bets, RowStep(i)
        PROVE  setup' = setup /\ straddled \subseteq straddled' /\ reclaimed \subseteq reclaimed'
    BY <2>1, RowStepFrame
  <2> QED BY <2>1 DEF Next, RowStep, PlaceBet, LockAndRead, OverExposed, Reserve, Rejected, Debit, DebitFails, Activate,
                      Dies, EngineIdle, NoRows, EnterRunning, SettleRound, NextRound
<1>3. /\ Committed(w) \in Nat /\ Won(w) \in Nat /\ Wagered(w) \in Nat
      /\ Committed(w)' \in Nat /\ Won(w)' \in Nat
      /\ \A cap \in setup[w].wager \cup setup[w].loss : cap \in Nat
  BY <1>0, CommittedParts, CommittedPartsNext, SetupOk DEF SetupType
<1>4. /\ \A cap \in setup[w].wager : Committed(w) <= cap
      /\ w \notin reclaimed => \A cap \in setup[w].loss : Committed(w) - Won(w) <= cap
  BY <1>0, <1>1, <1>2 DEF CommittedWithinCaps, Committed, Won
<1>5. ASSUME Committed(w)' <= Committed(w), w \notin reclaimed' => Won(w) <= Won(w)'
      PROVE  /\ \A cap \in setup'[w].wager : Committed(w)' <= cap
             /\ w \notin reclaimed' => \A cap \in setup'[w].loss : Committed(w)' - Won(w)' <= cap
  <2>1. \A cap \in setup[w].wager : Committed(w)' <= cap
    BY <1>3, <1>4, <1>5
  <2>2. ASSUME w \notin reclaimed', NEW cap \in setup[w].loss PROVE Committed(w)' - Won(w)' <= cap
    <3>1. Committed(w) - Won(w) <= cap /\ Won(w) <= Won(w)' /\ cap \in Nat
      BY <1>2, <1>3, <1>4, <1>5, <2>2
    <3> QED BY <1>3, <1>5, <3>1
  <2> QED BY <1>2, <2>1, <2>2
<1>6. CASE ~ \E s \in Seats : Reserve(s)
  BY <1>0, <1>5, <1>6, StepShrinks, ShrinkStakes, ShrinkWins
<1>7. CASE \E s \in Seats : Reserve(s)
  <2>1. PICK s \in Seats : Reserve(s)
    BY <1>7
  <2>2. /\ DOMAIN bets' = DOMAIN bets \cup {lastId'} /\ lastId' \notin DOMAIN bets
        /\ \A i \in DOMAIN bets : bets'[i] = bets[i]
        /\ bets'[lastId'].wallet = s[1] /\ bets'[lastId'].status = "reserving"
        /\ calls[s].pc = "reserve"
    BY <1>0, <2>1, ReserveCalls
  <2> DEFINE C == OfWallet(w, WageredStatuses \cup {"reserving"})
             D == OfWallet(w, WonStatuses)
  <2>3. D' = D /\ D \subseteq DOMAIN bets /\ C \subseteq DOMAIN bets
    BY <2>2 DEF OfWallet, WonStatuses
  <2>4. C' = IF w = s[1] THEN C \cup {lastId'} ELSE C
    BY <2>2 DEF OfWallet
  <2> HIDE DEF C, D
  <2>5. SumFunctionOnSet(Win', D') = SumFunctionOnSet(Win, D)
    BY <1>0, <2>1, <2>3, ReserveSums
  <2>6. Won(w)' = Won(w)
    BY <2>5 DEF Won, SumOf, D
  <2>7. CASE w # s[1]
    <3>1. SumFunctionOnSet(Stake', C') = SumFunctionOnSet(Stake, C)
      BY <1>0, <2>1, <2>3, <2>4, <2>7, ReserveSums
    <3>2. Committed(w)' = Committed(w)
      BY <3>1 DEF Committed, SumOf, C
    <3> QED BY <1>3, <1>5, <2>6, <3>2
  <2>8. CASE w = s[1]
    <3>1. SumFunctionOnSet(Stake', C') = calls[s].amount + SumFunctionOnSet(Stake, C)
      BY <1>0, <2>1, <2>3, <2>4, <2>8, ReserveSums
    <3>2. Committed(w)' = calls[s].amount + Committed(w)
      BY <3>1 DEF Committed, SumOf, C
    <3>3. ~ Straddles(s)
      BY <1>1, <2>1, <2>8 DEF Reserve
    <3>4. OfWallet(w, {"reserving"}) \cap OfRound(calls[s].round, {"reserving"}) = OfWallet(w, {"reserving"})
      BY <2>8, <3>3 DEF Straddles, OfWallet, OfRound
    <3>5. SumOf(OfWallet(w, {"reserving"}), Stake) <= calls[s].reserved
      BY <1>0, <2>2, <2>8, <3>4 DEF ReadsAreSafe
    <3>6. Committed(w) = Wagered(w) + SumOf(OfWallet(w, {"reserving"}), Stake)
          /\ SumOf(OfWallet(w, {"reserving"}), Stake) \in Nat
      BY <1>0, CommittedParts
    <3>7. calls[s].amount \in Nat /\ calls[s].reserved \in Nat
      BY <1>0 DEF TypeOK, CallType
    <3>8. /\ \A cap \in setup[w].wager : Wagered(w) + calls[s].reserved + calls[s].amount <= cap
          /\ \A cap \in setup[w].loss : Wagered(w) - Won(w) + calls[s].reserved + calls[s].amount <= cap
      BY <2>1, <2>8 DEF Reserve, CapsAllow, SessionAccounting, Wagered, Won
    <3> DEFINE r == SumOf(OfWallet(w, {"reserving"}), Stake)
    <3> HIDE DEF r
    <3>9. r \in Nat /\ r <= calls[s].reserved /\ Committed(w) = Wagered(w) + r
      BY <3>5, <3>6 DEF r
    <3>10. \A cap \in setup[w].wager : Committed(w)' <= cap
      BY <1>3, <3>2, <3>7, <3>8, <3>9
    <3>11. \A cap \in setup[w].loss : Committed(w)' - Won(w)' <= cap
      BY <1>3, <2>6, <3>2, <3>7, <3>8, <3>9
    <3> QED BY <1>2, <3>10, <3>11
  <2> QED BY <2>7, <2>8
<1> QED BY <1>6, <1>7

\* The exposure of the round shown. A slot taken in time was checked against all that its
\* round may still owe: while betting is open nothing of the round has been paid.
LEMMA StepExposure ==
  ASSUME CapsInv, Next
  PROVE  RoundWithinExposure'
<1>0. /\ TypeOK /\ TypeOK' /\ ReadsAreSafe /\ RoundWithinExposure /\ RowsFit
      /\ MaxRoundExposure \in Nat
  BY StepTypes, PayoutAssumption DEF CapsInv
<1>1. SUFFICES ASSUME ~ late', NEW w \in Wallets PROVE Owing(w)' <= MaxRoundExposure
  BY DEF RoundWithinExposure, Owing
<1>2. Owing(w) \in Nat /\ Owing(w)' \in Nat
  BY <1>0, ReadsNat
<1>3. ASSUME Owing(w)' <= Owing(w), ~ late PROVE Owing(w)' <= MaxRoundExposure
  <2>1. Owing(w) <= MaxRoundExposure
    BY <1>0, <1>3 DEF RoundWithinExposure, Owing
  <2> QED BY <1>0, <1>2, <1>3, <2>1
<1> DEFINE C == InCurrency(OfRound(round, WonStatuses \cup {"active", "reserving"}), setup[w].currency)
<1>4. CASE NextRound
  <2>1. bets' = bets /\ round' = round + 1
    BY <1>4 DEF NextRound
  <2>2. \A i \in DOMAIN bets : bets[i].round # round'
    <3>1. \A i \in DOMAIN bets : bets[i].round <= round /\ bets[i].round \in Nat
      BY <1>0, RiskAssumption DEF RowsFit, TypeOK, RowType
    <3>2. round \in Nat
      BY <1>0, StepRound
    <3> QED BY <2>1, <3>1, <3>2
  <2>3. C' = {}
    BY <2>1, <2>2 DEF InCurrency, OfRound
  <2> HIDE DEF C
  <2>4. SumFunctionOnSet(WorstCase', C') = 0
    BY <2>3, SumEmpty
  <2>5. Owing(w)' = 0
    BY <2>4 DEF Owing, SumOf, C
  <2> QED BY <1>0, <2>5
<1>5. CASE ~ NextRound /\ ~ \E s \in Seats : Reserve(s)
  <2>1. round' = round
    BY <1>0, <1>5, StepRound
  <2>2. late' = late
    <3>1. ASSUME NEW i \in DOMAIN bets, RowStep(i) PROVE late' = late
      BY <3>1, RowStepFrame
    <3> QED BY <1>5, <3>1 DEF Next, RowStep, PlaceBet, LockAndRead, OverExposed, Rejected, Debit, DebitFails, Activate,
                              Dies, NoRows, EnterRunning, SettleRound
  <2>3. Owing(w)' <= Owing(w)
    BY <1>0, <1>5, <2>1, StepShrinks, ShrinkStakes
  <2> QED BY <1>1, <1>3, <2>2, <2>3
<1>6. CASE \E s \in Seats : Reserve(s)
  <2>1. PICK s \in Seats : Reserve(s)
    BY <1>6
  <2>2. /\ DOMAIN bets' = DOMAIN bets \cup {lastId'} /\ lastId' \notin DOMAIN bets
        /\ \A i \in DOMAIN bets : bets'[i] = bets[i]
        /\ bets'[lastId'].wallet = s[1] /\ bets'[lastId'].status = "reserving"
        /\ bets'[lastId'].round = calls[s].round
        /\ calls[s].pc = "reserve" /\ setup' = setup /\ round' = round
    BY <1>0, <2>1, ReserveCalls
  <2>3. ~ late /\ calls[s].round = round /\ phase = "betting"
    BY <1>1, <2>1 DEF Reserve
  <2>4. CASE setup[w].currency # setup[s[1]].currency
    <3>1. C' = C /\ C \subseteq DOMAIN bets
      BY <2>2, <2>4 DEF InCurrency, OfRound
    <3> HIDE DEF C
    <3>2. SumFunctionOnSet(WorstCase', C') = SumFunctionOnSet(WorstCase, C)
      BY <1>0, <2>1, <3>1, ReserveSums
    <3>3. Owing(w)' = Owing(w)
      BY <3>2 DEF Owing, SumOf, C
    <3> QED BY <1>2, <1>3, <2>3, <3>3
  <2>5. CASE setup[w].currency = setup[s[1]].currency
    <3>1. C' = C \cup {lastId'} /\ C \subseteq DOMAIN bets
      BY <2>2, <2>3, <2>5 DEF InCurrency, OfRound
    <3>2. \A i \in DOMAIN bets : bets[i].round = round => bets[i].status \notin WonStatuses
      BY <1>0, <2>3 DEF RowsFit
    <3>3. C = InCurrency(RoundBets(calls[s].round), setup[s[1]].currency)
      BY <2>3, <2>5, <3>2 DEF InCurrency, RoundBets, OfRound
    <3> HIDE DEF C
    <3>4. SumFunctionOnSet(WorstCase', C') = PotentialPayout(calls[s].amount) + SumFunctionOnSet(WorstCase, C)
      BY <1>0, <2>1, <3>1, ReserveSums
    <3>5. SumFunctionOnSet(WorstCase, C) + PotentialPayout(calls[s].amount) <= MaxRoundExposure
      BY <1>0, <2>2, <3>3 DEF ReadsAreSafe, ExposureOk, CurrentExposure, SumOf
    <3>6. SumFunctionOnSet(WorstCase, C) \in Nat /\ PotentialPayout(calls[s].amount) \in Nat
      <4>1. calls[s].amount \in Nat
        BY <1>0 DEF TypeOK, CallType
      <4> QED BY <1>0, <3>1, <4>1, SumsNat, PotentialNat DEF SumOf
    <3>7. SumFunctionOnSet(WorstCase', C') <= MaxRoundExposure
      BY <3>4, <3>5, <3>6
    <3> QED BY <3>7 DEF Owing, SumOf, C
  <2> QED BY <2>4, <2>5
<1> QED BY <1>4, <1>5, <1>6

\* The caps hold of what was charged, because they hold of what is committed.
LEMMA CapsFromCommitted ==
  ASSUME TypeOK', CommittedWithinCaps', setup' \in Setups
  PROVE  SessionCapsHold'
<1>1. SUFFICES ASSUME NEW w \in Wallets, w \notin straddled'
               PROVE  /\ \A cap \in setup'[w].wager : Wagered(w)' <= cap
                      /\ w \notin reclaimed' => \A cap \in setup'[w].loss : Wagered(w)' - Won(w)' <= cap
  BY DEF SessionCapsHold, WithinCaps, SessionAccounting, Wagered, Won
<1>2. /\ Wagered(w)' \in Nat /\ Won(w)' \in Nat /\ Committed(w)' \in Nat
      /\ Wagered(w)' <= Committed(w)'
  BY CommittedPartsNext
<1>3. \A cap \in setup'[w].wager \cup setup'[w].loss : cap \in Nat
  BY RiskAssumption DEF SetupType
<1>4. /\ \A cap \in setup'[w].wager : Committed(w)' <= cap
      /\ w \notin reclaimed' => \A cap \in setup'[w].loss : Committed(w)' - Won(w)' <= cap
  BY <1>1 DEF CommittedWithinCaps, Committed, Won
<1> QED BY <1>2, <1>3, <1>4

\* The caps hold of an empty table.
LEMMA InitCaps == Init => CapsInv
<1> SUFFICES ASSUME Init PROVE CapsInv
  OBVIOUS
<1>1. TypeOK /\ DOMAIN bets = {} /\ calls = [s \in Seats |-> Idle]
  BY InitTypes DEF Init
<1>2. \A s \in Seats : calls[s].pc = "idle" /\ calls[s].bet = 0
  BY <1>1 DEF Idle
<1>3. NumbersLeft
  <2>1. Asking = {}
    BY <1>2 DEF Asking
  <2> QED BY <2>1, FS_EmptySet, RiskAssumption DEF Init, NumbersLeft
<1>4. LockExcludes /\ SlotsAreOwned /\ RowsFit /\ ReadsAreSafe
  BY <1>1, <1>2 DEF LockExcludes, SlotsAreOwned, RowsFit, ReadsAreSafe
<1>5. \A w, S : OfWallet(w, S) = {}
  BY <1>1 DEF OfWallet
<1>6. \A f : SumOf({}, f) = 0
  BY SumEmpty DEF SumOf
<1>7. \A w \in Wallets : \A cap \in setup[w].wager \cup setup[w].loss : 0 <= cap
  BY <1>1, SetupOk DEF SetupType
<1>8. CommittedWithinCaps
  <2> SUFFICES ASSUME NEW w \in Wallets
               PROVE  /\ \A cap \in setup[w].wager : Committed(w) <= cap
                      /\ \A cap \in setup[w].loss : Committed(w) - Won(w) <= cap
    BY DEF CommittedWithinCaps, Committed, Won
  <2>1. Committed(w) = 0 /\ Won(w) = 0
    BY <1>5, <1>6 DEF Committed, Won
  <2> QED BY <1>7, <2>1
<1>9. SessionCapsHold
  <2> SUFFICES ASSUME NEW w \in Wallets
               PROVE  /\ \A cap \in setup[w].wager : Wagered(w) <= cap
                      /\ \A cap \in setup[w].loss : Wagered(w) - Won(w) <= cap
    BY DEF SessionCapsHold, WithinCaps, SessionAccounting, Wagered, Won
  <2>1. Wagered(w) = 0 /\ Won(w) = 0
    BY <1>5, <1>6 DEF Wagered, Won
  <2> QED BY <1>7, <2>1
<1>10. RoundWithinExposure
  <2>1. \A rd, S, c : InCurrency(OfRound(rd, S), c) = {}
    BY <1>1 DEF OfRound, InCurrency
  <2> QED BY <1>6, <2>1, PayoutAssumption DEF RoundWithinExposure
<1> QED BY <1>1, <1>3, <1>4, <1>8, <1>9, <1>10 DEF CapsInv

\* A step that changes nothing.
LEMMA StutterCaps ==
  ASSUME CapsInv, UNCHANGED vars
  PROVE  CapsInv'
<1> USE DEF vars
<1>1. TypeOK' /\ NumbersLeft' /\ LockExcludes' /\ SlotsAreOwned' /\ RowsFit'
  BY DEF CapsInv, TypeOK, NumbersLeft, Asking, LockExcludes, SlotsAreOwned, OfWallet, RowsFit, LegsFit
<1>2. ReadsAreSafe' /\ CommittedWithinCaps' /\ RoundWithinExposure'
  BY DEF CapsInv, ReadsAreSafe, CommittedWithinCaps, RoundWithinExposure,
         OfWallet, OfRound, InCurrency, RoundBets, CurrentExposure, SumOf, Stake, Win, WorstCase
<1>3. SessionCapsHold'
  BY DEF CapsInv, SessionCapsHold, WithinCaps, SessionAccounting, OfWallet, SumOf, Stake, Win
<1> QED BY <1>1, <1>2, <1>3 DEF CapsInv

\* The hard caps of placeBet, as SessionCapsHold states them, with all that keeps them
\* (the lock, who owns a slot, what a call read and what is in flight), in every reachable state.
THEOREM CapsAlwaysHold == Spec => []CapsInv
<1>1. ASSUME CapsInv, Next PROVE CapsInv'
  <2>1. TypeOK' /\ NumbersLeft' /\ LockExcludes' /\ SlotsAreOwned' /\ RowsFit'
    BY <1>1, StepTypes, StepNumbers, StepLock, StepOwned, StepRows
  <2>2. ReadsAreSafe' /\ CommittedWithinCaps' /\ RoundWithinExposure'
    BY <1>1, StepReads, StepCommitted, StepExposure
  <2>3. SessionCapsHold'
    BY <2>1, <2>2, CapsFromCommitted DEF TypeOK
  <2> QED BY <2>1, <2>2, <2>3 DEF CapsInv
<1>2. CapsInv /\ [Next]_vars => CapsInv'
  BY <1>1, StutterCaps
<1> QED BY <1>2, InitCaps, PTL DEF Spec

\* The circuit breaker: a round whose slots were all taken while betting was open never pays
\* more than RISK_MAX_ROUND_EXPOSURE in one currency, whatever was cancelled, cashed out,
\* recovered or left in flight, as long as it crashes within RISK_MAX_MULTIPLIER.
THEOREM BreakerHolds == Spec => []ExposureCapped
<1>1. CapsInv => ExposureCapped
  <2> SUFFICES ASSUME CapsInv, ~ late, crash <= 100 * MaxMultiplier, NEW w \in Wallets
               PROVE  PaidOut(setup[w].currency) <= MaxRoundExposure
    BY DEF ExposureCapped
  <2> DEFINE A == InCurrency(OfRound(round, WonStatuses), setup[w].currency)
             B == InCurrency(OfRound(round, WonStatuses \cup {"active", "reserving"}), setup[w].currency)
  <2>1. TypeOK /\ RowsFit /\ RoundWithinExposure
    BY DEF CapsInv
  <2>2. A \subseteq B /\ B \subseteq DOMAIN bets
    BY DEF InCurrency, OfRound
  <2>3. \A i \in A : Win[i] \in Int /\ Win[i] <= WorstCase[i]
    BY <2>1, Rows DEF InCurrency, OfRound, RowsFit
  <2>4. SumFunctionOnSet(WorstCase, B) <= MaxRoundExposure
    BY <2>1 DEF RoundWithinExposure, SumOf
  <2> HIDE DEF A, B
  <2>5. IsFiniteSet(B) /\ SumFunctionOnSet(WorstCase, B) \in Nat /\ SumFunctionOnSet(Win, A) \in Nat
    BY <2>1, <2>2, SumsNat DEF SumOf
  <2>6. \A i \in B : WorstCase[i] \in Nat
    BY <2>1, <2>2, Rows
  <2>7. SumFunctionOnSet(Win, A) <= SumFunctionOnSet(WorstCase, B)
    BY <2>2, <2>3, <2>5, <2>6, SumMono
  <2>8. SumFunctionOnSet(Win, A) <= MaxRoundExposure
    BY <2>4, <2>5, <2>7, PayoutAssumption
  <2> QED BY <2>8 DEF PaidOut, SumOf, A
<1> QED BY <1>1, CapsAlwaysHold, PTL

(* -------------------------------------------------------- the house edge *)

\* A quotient reaches y when the dividend reaches y times the divisor.
LEMMA DivAtLeast ==
  ASSUME NEW a \in Nat, NEW b \in Nat \ {0}, NEW x \in Nat
  PROVE  a \div b >= x <=> a >= x * b
<1> DEFINE q == a \div b
<1>1. q \in Nat /\ q * b <= a /\ a < (q + 1) * b
  OBVIOUS
<1> HIDE DEF q
<1>2. ASSUME q >= x PROVE a >= x * b
  <2>1. q - x \in Nat /\ (q - x) * b \in Nat /\ x * b \in Nat /\ q * b \in Nat
    BY <1>1, <1>2
  <2>2. q * b = x * b + (q - x) * b
    BY <1>1
  <2> QED BY <1>1, <2>1, <2>2
<1>3. ASSUME q < x PROVE a < x * b
  <2>1. x - (q + 1) \in Nat /\ (x - (q + 1)) * b \in Nat /\ x * b \in Nat /\ (q + 1) * b \in Nat
    BY <1>1, <1>3
  <2>2. x * b = (q + 1) * b + (x - (q + 1)) * b
    BY <1>1
  <2> QED BY <1>1, <2>1, <2>2
<1>4. x * b \in Nat
  OBVIOUS
<1> QED BY <1>1, <1>2, <1>3, <1>4 DEF q

\* The distribution of crash.ts over all the hash values: the share of the hashes that reach
\* x hundredths is (1 - houseEdge) / x, rounded down, for every size of the hash space and
\* every x above an instant crash.
LEMMA CrashDistribution == Skewed = {}
<1> SUFFICES ASSUME NEW x \in 101..MaxCents
             PROVE  Cardinality({h \in 0..Entropy - 1 : CrashCents(h) >= x})
                      = Least((97 * (Entropy + 1)) \div x, Entropy)
  BY DEF Skewed
<1> DEFINE a == 97 * (Entropy + 1)
           q == a \div x
           n == Least(q, Entropy)
<1>1. a \in Nat /\ x \in Nat \ {0} /\ Entropy \in Nat /\ x >= 101 /\ x <= MaxCents /\ MaxCents \in Nat
  BY PayoutAssumption
<1> HIDE DEF a
<1>2. q \in Nat
  BY <1>1
<1>3. n \in Nat /\ n <= Entropy /\ \A k \in Nat : k <= n <=> k <= q /\ k <= Entropy
  BY <1>1, <1>2 DEF Least
<1>4. ASSUME NEW h \in 0..Entropy - 1
      PROVE  CrashCents(h) >= x <=> h + 1 <= q
  <2>1. h + 1 \in Nat \ {0} /\ a \div (h + 1) \in Nat
    BY <1>1
  <2>2. CrashCents(h) >= x <=> a \div (h + 1) >= x
    BY <1>1, <2>1 DEF CrashCents, Least, a
  <2>3. a \div (h + 1) >= x <=> a >= x * (h + 1)
    BY <1>1, <2>1, DivAtLeast
  <2>4. q >= h + 1 <=> a >= (h + 1) * x
    BY <1>1, <2>1, DivAtLeast
  <2>5. (h + 1) * x = x * (h + 1)
    BY <1>1, <2>1
  <2>6. q >= h + 1 <=> h + 1 <= q
    BY <1>2, <2>1
  <2> QED BY <2>2, <2>3, <2>4, <2>5, <2>6
<1> HIDE DEF q, n
<1>5. {h \in 0..Entropy - 1 : CrashCents(h) >= x} = 0..n - 1
  <2>1. ASSUME NEW h \in 0..Entropy - 1, CrashCents(h) >= x PROVE h \in 0..n - 1
    <3>1. h + 1 <= n
      BY <1>1, <1>3, <1>4, <2>1
    <3> QED BY <1>3, <3>1
  <2>2. ASSUME NEW h \in 0..n - 1 PROVE h \in 0..Entropy - 1 /\ CrashCents(h) >= x
    <3>1. h \in 0..Entropy - 1 /\ h + 1 \in Nat /\ h + 1 <= n
      BY <1>1, <1>3
    <3>2. h + 1 <= q
      BY <1>3, <3>1
    <3> QED BY <1>4, <3>1, <3>2
  <2> QED BY <2>1, <2>2
<1>6. Cardinality(0..n - 1) = n
  BY <1>3, FS_Interval
<1> QED BY <1>5, <1>6 DEF n, q, a

\* The house edge: for every size of the hash space, no multiplier is reached by more or fewer
\* of the hashes than (1 - houseEdge) / x says, and so it holds of every round that is drawn.
THEOREM HouseEdgeHolds == Skewed = {} /\ (Spec => []HouseEdge)
<1>1. HouseEdge
  BY CrashDistribution DEF HouseEdge
<1>2. Spec => []HouseEdge
  BY <1>1, PTL
<1> QED BY <1>2, CrashDistribution

(* ----------------------------------------------------------- the reports *)

\* The rows of an operator in a currency, in some statuses.
Section(o, c, S) == {i \in ReportRows(o) : CurrencyOf(i) = c /\ bets[i].status \in S}
GroupKey == [i \in DOMAIN bets |-> <<CurrencyOf(i), bets[i].status>>]
DayKey == [i \in DOMAIN bets |-> <<bets[i].round, CurrencyOf(i)>>]
Ones == [i \in DOMAIN bets |-> 1]

\* The rows of one operator in one currency are finitely many.
LEMMA SectionFinite ==
  ASSUME TypeOK, NEW o, NEW c, NEW S
  PROVE  /\ Section(o, c, S) \subseteq ReportRows(o) /\ ReportRows(o) \subseteq DOMAIN bets
         /\ IsFiniteSet(Section(o, c, S)) /\ IsFiniteSet(ReportRows(o))
<1>1. Section(o, c, S) \subseteq ReportRows(o) /\ ReportRows(o) \subseteq DOMAIN bets
  BY DEF Section, ReportRows
<1> QED BY <1>1, Rows, FS_Subset

\* One group of the summary.
LEMMA GroupedRows ==
  ASSUME TypeOK, NEW o
  PROVE  /\ DOMAIN Grouped(o) = {GroupKey[i] : i \in ReportRows(o)}
         /\ \A k \in DOMAIN Grouped(o) :
              LET group == {i \in ReportRows(o) : GroupKey[i] = k}
              IN  /\ Grouped(o)[k].count = Cardinality(group)
                  /\ Grouped(o)[k].amount = SumOf(group, Stake)
                  /\ Grouped(o)[k].payout = SumOf(group, Win)
<1> DEFINE rows == ReportRows(o)
           group(a, s) == {i \in rows : CurrencyOf(i) = a /\ bets[i].status = s}
           K == {<<CurrencyOf(i), bets[i].status>> : i \in rows}
<1>1. Grouped(o) = [k \in K |-> [count |-> Cardinality(group(k[1], k[2])),
                                 amount |-> SumOf(group(k[1], k[2]), Stake),
                                 payout |-> SumOf(group(k[1], k[2]), Win)]]
  BY DEF Grouped
<1>2. \A i \in rows : GroupKey[i] = <<CurrencyOf(i), bets[i].status>>
  BY DEF GroupKey, ReportRows
<1>3. K = {GroupKey[i] : i \in rows}
  BY <1>2
<1>4. ASSUME NEW k \in K PROVE group(k[1], k[2]) = {i \in rows : GroupKey[i] = k}
  <2>1. PICK j \in rows : k = <<CurrencyOf(j), bets[j].status>>
    OBVIOUS
  <2>2. \A i \in rows : GroupKey[i] = k <=> CurrencyOf(i) = k[1] /\ bets[i].status = k[2]
    BY <1>2, <2>1
  <2> QED BY <2>2
<1> HIDE DEF rows, group, K
<1>5. DOMAIN Grouped(o) = K
  BY <1>1
<1>6. ASSUME NEW k \in K
      PROVE  /\ Grouped(o)[k].count = Cardinality(group(k[1], k[2]))
             /\ Grouped(o)[k].amount = SumOf(group(k[1], k[2]), Stake)
             /\ Grouped(o)[k].payout = SumOf(group(k[1], k[2]), Win)
  BY <1>1
<1>7. ASSUME NEW k \in K
      PROVE  /\ Grouped(o)[k].count = Cardinality({i \in rows : GroupKey[i] = k})
             /\ Grouped(o)[k].amount = SumOf({i \in rows : GroupKey[i] = k}, Stake)
             /\ Grouped(o)[k].payout = SumOf({i \in rows : GroupKey[i] = k}, Win)
  BY <1>4, <1>6
<1> QED BY <1>3, <1>5, <1>7 DEF rows

\* Adding up the groups of a currency adds up its rows.
LEMMA FoldedColumns ==
  ASSUME TypeOK, NEW o, NEW c, NEW S
  PROVE  LET keys == {k \in DOMAIN Grouped(o) : k[1] = c /\ k[2] \in S}
         IN  /\ Column(Grouped(o), "count", keys) = Cardinality(Section(o, c, S))
             /\ Column(Grouped(o), "amount", keys) = SumOf(Section(o, c, S), Stake)
             /\ Column(Grouped(o), "payout", keys) = SumOf(Section(o, c, S), Win)
<1> DEFINE G == Grouped(o)
           rows == ReportRows(o)
           keys == {k \in DOMAIN G : k[1] = c /\ k[2] \in S}
           part(f) == [k \in DOMAIN G |-> G[k][f]]
<1>1. rows \subseteq DOMAIN bets /\ IsFiniteSet(rows)
  BY SectionFinite
<1>2. DOMAIN G = {GroupKey[i] : i \in rows}
  BY GroupedRows
<1>3. IsFiniteSet(DOMAIN G)
  BY <1>1, <1>2, ImageFinite
<1>4. IsFiniteSet(keys) /\ keys \subseteq DOMAIN G
  BY <1>3, FS_Subset
<1>5. {i \in rows : GroupKey[i] \in keys} = Section(o, c, S)
  <2>1. \A i \in rows : GroupKey[i] = <<CurrencyOf(i), bets[i].status>> /\ GroupKey[i] \in DOMAIN G
    BY <1>1, <1>2 DEF GroupKey
  <2> HIDE DEF G
  <2>2. \A i \in rows : GroupKey[i] \in keys <=> CurrencyOf(i) = c /\ bets[i].status \in S
    BY <2>1
  <2> QED BY <2>2 DEF Section
<1>6. \A i \in rows : Stake[i] \in Int /\ Win[i] \in Int /\ Ones[i] = 1
  BY <1>1, Rows DEF Ones
<1> HIDE DEF rows, keys, G
<1>7. \A k \in keys : /\ part("count")[k] = G[k].count /\ part("amount")[k] = G[k].amount
                      /\ part("payout")[k] = G[k].payout
  BY <1>4
<1>8. \A k \in keys : part("amount")[k] = SumFunctionOnSet(Stake, {i \in rows : GroupKey[i] = k})
  BY <1>4, <1>7, GroupedRows DEF G, rows, SumOf
<1>9. \A k \in keys : part("payout")[k] = SumFunctionOnSet(Win, {i \in rows : GroupKey[i] = k})
  BY <1>4, <1>7, GroupedRows DEF G, rows, SumOf
<1>10. \A k \in keys : part("count")[k] = SumFunctionOnSet(Ones, {i \in rows : GroupKey[i] = k})
  <2> TAKE k \in keys
  <2>1. part("count")[k] = Cardinality({i \in rows : GroupKey[i] = k})
    BY <1>4, <1>7, GroupedRows DEF G, rows
  <2>2. IsFiniteSet({i \in rows : GroupKey[i] = k})
    BY <1>1, FS_Subset
  <2>3. SumFunctionOnSet(Ones, {i \in rows : GroupKey[i] = k}) = Cardinality({i \in rows : GroupKey[i] = k})
    BY <1>6, <2>2, SumOnes
  <2> QED BY <2>1, <2>3
<1> HIDE DEF part
<1>A. IsFiniteSet(rows) /\ IsFiniteSet(keys)
  BY <1>1, <1>4
<1>B. (\A i \in rows : Stake[i] \in Int) /\ (\A i \in rows : Win[i] \in Int) /\ (\A i \in rows : Ones[i] \in Int)
  BY <1>6
<1>11. SumFunctionOnSet(part("amount"), keys) = SumFunctionOnSet(Stake, {i \in rows : GroupKey[i] \in keys})
  BY <1>A, <1>B, <1>8, SumGroups
<1>12. SumFunctionOnSet(part("payout"), keys) = SumFunctionOnSet(Win, {i \in rows : GroupKey[i] \in keys})
  BY <1>A, <1>B, <1>9, SumGroups
<1>13. SumFunctionOnSet(part("count"), keys) = SumFunctionOnSet(Ones, {i \in rows : GroupKey[i] \in keys})
  BY <1>A, <1>B, <1>10, SumGroups
<1>14. SumFunctionOnSet(Ones, Section(o, c, S)) = Cardinality(Section(o, c, S))
  <2>1. IsFiniteSet(Section(o, c, S)) /\ \A i \in Section(o, c, S) : Ones[i] = 1
    BY <1>6, SectionFinite DEF rows
  <2> QED BY <2>1, SumOnes
<1>15. /\ SumFunctionOnSet(part("count"), keys) = Cardinality(Section(o, c, S))
       /\ SumFunctionOnSet(part("amount"), keys) = SumOf(Section(o, c, S), Stake)
       /\ SumFunctionOnSet(part("payout"), keys) = SumOf(Section(o, c, S), Win)
  BY <1>5, <1>11, <1>12, <1>13, <1>14 DEF SumOf
<1> QED BY <1>15 DEF part, keys, G, Column

\* What the summary says of a currency that has a row.
LEMMA SummaryOf ==
  ASSUME TypeOK, NEW o, NEW c, c \in {CurrencyOf(i) : i \in ReportRows(o)}
  PROVE  LET wagered == Section(o, c, WageredStatuses)
         IN  /\ c \in DOMAIN Summary(o) <=> wagered # {}
             /\ c \in DOMAIN Summary(o) =>
                  /\ Summary(o)[c].betCount = Cardinality(wagered)
                  /\ Summary(o)[c].ggr = SumOf(wagered, Stake) - SumOf(Section(o, c, WonStatuses), Win)
<1> DEFINE G == Grouped(o)
           D == {k[1] : k \in DOMAIN G}
           stats == [d \in D |-> FoldCurrencies(G, d)]
           wagered == Section(o, c, WageredStatuses)
<1>1. Summary(o) = [d \in {d \in DOMAIN stats : stats[d].betCount > 0} |-> stats[d]]
  BY DEF Summary
<1>2. c \in D
  <2>1. PICK i \in ReportRows(o) : c = CurrencyOf(i)
    OBVIOUS
  <2>2. GroupKey[i] = <<c, bets[i].status>>
    BY <2>1 DEF GroupKey, ReportRows
  <2>4. DOMAIN G = {GroupKey[j] : j \in ReportRows(o)}
    BY GroupedRows
  <2>3. GroupKey[i][1] = c
    BY <2>2
  <2> HIDE DEF G
  <2>5. GroupKey[i] \in DOMAIN G
    BY <2>4
  <2> QED BY <2>3, <2>5
<1>3. stats[c] = FoldCurrencies(G, c) /\ c \in DOMAIN stats
  BY <1>2
<1>4. /\ FoldCurrencies(G, c).betCount = Cardinality(wagered)
      /\ FoldCurrencies(G, c).ggr = SumOf(wagered, Stake) - SumOf(Section(o, c, WonStatuses), Win)
  <2> DEFINE T(S) == {k \in DOMAIN G : k[1] = c /\ k[2] \in S}
  <2>1. FoldCurrencies(G, c) = CurrencyStat(Column(G, "count", T(WageredStatuses)),
                                            Column(G, "amount", T(WageredStatuses)),
                                            Column(G, "payout", T(WonStatuses)))
    BY DEF FoldCurrencies
  <2>2. /\ Column(G, "count", T(WageredStatuses)) = Cardinality(wagered)
        /\ Column(G, "amount", T(WageredStatuses)) = SumOf(wagered, Stake)
        /\ Column(G, "payout", T(WonStatuses)) = SumOf(Section(o, c, WonStatuses), Win)
    BY FoldedColumns
  <2> HIDE DEF G, T
  <2> QED BY <2>1, <2>2 DEF CurrencyStat
<1>5. IsFiniteSet(wagered)
  BY SectionFinite
<1> HIDE DEF stats, wagered
<1>6. Cardinality(wagered) \in Nat /\ (Cardinality(wagered) = 0 <=> wagered = {})
  BY <1>5, FS_CardinalityType, FS_EmptySet
<1>7. c \in DOMAIN Summary(o) <=> stats[c].betCount > 0
  BY <1>1, <1>3
<1>8. c \in DOMAIN Summary(o) => Summary(o)[c] = stats[c]
  BY <1>1
<1>9. c \in DOMAIN Summary(o) <=> wagered # {}
  BY <1>3, <1>4, <1>6, <1>7
<1> QED BY <1>3, <1>4, <1>8, <1>9 DEF wagered

\* The same of a day.
LEMMA DailyRows ==
  ASSUME TypeOK, NEW o
  PROVE  LET wagered == {i \in ReportRows(o) : bets[i].status \in WageredStatuses}
             won == {i \in ReportRows(o) : bets[i].status \in WonStatuses}
         IN  /\ DOMAIN Daily(o) = {DayKey[i] : i \in wagered}
             /\ \A k \in DOMAIN Daily(o) :
                  /\ Daily(o)[k].betCount = Cardinality({i \in wagered : DayKey[i] = k})
                  /\ Daily(o)[k].ggr = SumOf({i \in wagered : DayKey[i] = k}, Stake)
                                         - SumOf({i \in won : DayKey[i] = k}, Win)
<1> DEFINE wagered == {i \in ReportRows(o) : bets[i].status \in WageredStatuses}
           won == {i \in ReportRows(o) : bets[i].status \in WonStatuses}
           day(i) == <<bets[i].round, CurrencyOf(i)>>
           on(ids, k) == {i \in ids : day(i) = k}
           K == {day(i) : i \in wagered}
<1>1. Daily(o) = [k \in K |-> CurrencyStat(Cardinality(on(wagered, k)), SumOf(on(wagered, k), Stake),
                                           SumOf(on(won, k), Win))]
  BY DEF Daily
<1>2. wagered \subseteq DOMAIN bets /\ won \subseteq DOMAIN bets
  BY DEF ReportRows
<1>3. \A i \in DOMAIN bets : DayKey[i] = day(i)
  BY DEF DayKey
<1> HIDE DEF wagered, won, day
<1>4. K = {DayKey[i] : i \in wagered}
  BY <1>2, <1>3
<1>5. \A k : on(wagered, k) = {i \in wagered : DayKey[i] = k} /\ on(won, k) = {i \in won : DayKey[i] = k}
  BY <1>2, <1>3
<1> HIDE DEF on, K
<1>6. DOMAIN Daily(o) = K
  BY <1>1
<1>7. \A k \in K : /\ Daily(o)[k].betCount = Cardinality(on(wagered, k))
                   /\ Daily(o)[k].ggr = SumOf(on(wagered, k), Stake) - SumOf(on(won, k), Win)
  BY <1>1 DEF CurrencyStat
<1>8. \A k \in K :
        /\ Daily(o)[k].betCount = Cardinality({i \in wagered : DayKey[i] = k})
        /\ Daily(o)[k].ggr = SumOf({i \in wagered : DayKey[i] = k}, Stake)
                               - SumOf({i \in won : DayKey[i] = k}, Win)
  BY <1>5, <1>7
<1> QED BY <1>4, <1>6, <1>8 DEF wagered, won

\* The days of a currency add up to its totals.
LEMMA DaysAddUpLemma ==
  ASSUME TypeOK, NEW o, NEW c, c \in {CurrencyOf(i) : i \in ReportRows(o)}
  PROVE  DaysAddUp(Summary(o), Daily(o), c)
<1> DEFINE D == Daily(o)
           wagered == {i \in ReportRows(o) : bets[i].status \in WageredStatuses}
           won == {i \in ReportRows(o) : bets[i].status \in WonStatuses}
           days == {k \in DOMAIN D : k[2] = c}
           part(f) == [k \in DOMAIN D |-> D[k][f]]
           sums(f, ids) == [k \in days |-> SumFunctionOnSet(f, {i \in ids : DayKey[i] = k})]
           W == Section(o, c, WageredStatuses)
           V == Section(o, c, WonStatuses)
<1>1. /\ wagered \subseteq DOMAIN bets /\ won \subseteq DOMAIN bets /\ won \subseteq wagered
      /\ IsFiniteSet(wagered) /\ IsFiniteSet(won) /\ IsFiniteSet(W) /\ IsFiniteSet(V)
      /\ W \subseteq DOMAIN bets /\ V \subseteq DOMAIN bets
  <2>1. wagered \subseteq ReportRows(o) /\ won \subseteq ReportRows(o) /\ won \subseteq wagered
    BY DEF WageredStatuses, WonStatuses
  <2> QED BY <2>1, SectionFinite, FS_Subset
<1>2. DOMAIN D = {DayKey[i] : i \in wagered}
  BY DailyRows
<1>3. IsFiniteSet(DOMAIN D)
  BY <1>1, <1>2, ImageFinite
<1>4. IsFiniteSet(days) /\ days \subseteq DOMAIN D
  BY <1>3, FS_Subset
<1>5. {i \in wagered : DayKey[i] \in days} = W /\ {i \in won : DayKey[i] \in days} = V
  <2>1. \A i \in wagered : DayKey[i] = <<bets[i].round, CurrencyOf(i)>> /\ DayKey[i] \in DOMAIN D
    BY <1>1, <1>2 DEF DayKey
  <2> HIDE DEF D
  <2>2. \A i \in wagered : DayKey[i] \in days <=> CurrencyOf(i) = c
    BY <2>1
  <2> QED BY <1>1, <2>2 DEF Section
<1>6. /\ (\A i \in wagered : Stake[i] \in Int) /\ (\A i \in won : Win[i] \in Int)
      /\ \A i \in wagered : Ones[i] = 1
  BY <1>1, Rows DEF Ones
<1>7. (c \notin DOMAIN Summary(o)) => days = {}
  <2> SUFFICES ASSUME W = {} PROVE days = {}
    BY SummaryOf
  <2>1. ASSUME NEW k \in days PROVE FALSE
    <3>1. PICK i \in wagered : k = DayKey[i]
      BY <1>2
    <3> QED BY <1>5, <3>1
  <2> QED BY <2>1
<1> HIDE DEF wagered, won, days, D, W, V
<1>8. \A k \in days : /\ part("betCount")[k] = D[k].betCount /\ part("ggr")[k] = D[k].ggr
  BY <1>4
<1>9. \A k \in days : part("betCount")[k] = SumFunctionOnSet(Ones, {i \in wagered : DayKey[i] = k})
  <2> TAKE k \in days
  <2>1. part("betCount")[k] = Cardinality({i \in wagered : DayKey[i] = k})
    BY <1>4, <1>8, DailyRows DEF D, wagered
  <2>2. IsFiniteSet({i \in wagered : DayKey[i] = k})
    BY <1>1, FS_Subset
  <2>3. SumFunctionOnSet(Ones, {i \in wagered : DayKey[i] = k}) = Cardinality({i \in wagered : DayKey[i] = k})
    BY <1>6, <2>2, SumOnes
  <2> QED BY <2>1, <2>3
<1>10. \A k \in days : part("ggr")[k] = sums(Stake, wagered)[k] - sums(Win, won)[k]
  BY <1>4, <1>8, DailyRows DEF D, wagered, won, SumOf
<1>11. \A k \in days : sums(Stake, wagered)[k] = SumFunctionOnSet(Stake, {i \in wagered : DayKey[i] = k})
  OBVIOUS
<1>D. \A k \in days : sums(Win, won)[k] = SumFunctionOnSet(Win, {i \in won : DayKey[i] = k})
  OBVIOUS
<1> HIDE DEF part, sums
<1>12. \A k \in days : sums(Stake, wagered)[k] \in Int /\ sums(Win, won)[k] \in Int
  <2> TAKE k \in days
  <2>1. {i \in wagered : DayKey[i] = k} \in SUBSET wagered /\ {i \in won : DayKey[i] = k} \in SUBSET won
    OBVIOUS
  <2>2. /\ SumFunctionOnSet(Stake, {i \in wagered : DayKey[i] = k}) \in Int
        /\ SumFunctionOnSet(Win, {i \in won : DayKey[i] = k}) \in Int
    BY <1>1, <1>6, <2>1, SumInt
  <2> QED BY <1>11, <1>D, <2>2
<1>13. SumFunctionOnSet(part("ggr"), days) = SumFunctionOnSet(sums(Stake, wagered), days) - SumFunctionOnSet(sums(Win, won), days)
  BY <1>4, <1>10, <1>12, SumMinus
<1>A. IsFiniteSet(wagered) /\ IsFiniteSet(won) /\ IsFiniteSet(days)
  BY <1>1, <1>4
<1>B. \A i \in wagered : Stake[i] \in Int
  BY <1>6
<1>C. \A i \in won : Win[i] \in Int
  BY <1>6
<1>14. SumFunctionOnSet(sums(Stake, wagered), days) = SumFunctionOnSet(Stake, {i \in wagered : DayKey[i] \in days})
  <2>1. IsFiniteSet(wagered) /\ IsFiniteSet(days)
    BY <1>A
  <2> QED BY <2>1, <1>B, <1>11, SumGroups
<1>15. SumFunctionOnSet(sums(Win, won), days) = SumFunctionOnSet(Win, {i \in won : DayKey[i] \in days})
  <2>1. IsFiniteSet(won) /\ IsFiniteSet(days)
    BY <1>A
  <2> QED BY <2>1, <1>C, <1>D, SumGroups
<1>16. \A i \in wagered : Ones[i] \in Int
  BY <1>6
<1>17. SumFunctionOnSet(part("betCount"), days) = SumFunctionOnSet(Ones, {i \in wagered : DayKey[i] \in days})
  BY <1>A, <1>16, <1>9, SumGroups
<1>18. SumFunctionOnSet(Ones, W) = Cardinality(W)
  <2>1. \A i \in W : Ones[i] = 1
    BY <1>1 DEF Ones
  <2> QED BY <1>1, <2>1, SumOnes
<1>19. c \in DOMAIN Summary(o) =>
         /\ SumFunctionOnSet(part("betCount"), days) = Summary(o)[c].betCount
         /\ SumFunctionOnSet(part("ggr"), days) = Summary(o)[c].ggr
  BY <1>5, <1>13, <1>14, <1>15, <1>17, <1>18, SummaryOf DEF W, V, SumOf
<1>20. c \in DOMAIN Summary(o) => \A f \in {"betCount", "ggr"} : Column(D, f, days) = Summary(o)[c][f]
  BY <1>19 DEF part, Column
<1> QED BY <1>7, <1>20 DEF DaysAddUp, D, days

\* What a row adds to the GGR of the report.
Gain(r) == (IF r.status \in WageredStatuses THEN r.amount ELSE 0) - (IF r.status \in WonStatuses THEN r.payout ELSE 0)

\* A row never adds more than the house holds of it, unless a void is under way, and at rest just that.
LEMMA GainIsHeld ==
  ASSUME NEW r \in RowType, LegsFit(r)
  PROVE  /\ Gain(r) \in Int /\ HeldOf(r) \in Int
         /\ r.status # "voiding" => Gain(r) <= HeldOf(r)
         /\ AtRest(r) => Gain(r) = HeldOf(r)
<1> DEFINE stake == IF r.charged /\ ~ r.refunded THEN r.amount ELSE 0
           back == IF r.clawed THEN r.payout ELSE 0
           out == IF r.paid THEN r.payout ELSE 0
<1>1. r.status \in Statuses /\ r.amount \in Nat /\ r.payout \in Nat
  BY DEF RowType
<1>2. stake \in Nat /\ back \in Nat /\ out \in Nat /\ HeldOf(r) = stake + back - out
  BY <1>1 DEF HeldOf
<1>3. CASE r.status \in {"active", "busted", "cashed_out", "payout_pending"}
  <2>1. stake = r.amount /\ back = 0
    BY <1>3 DEF LegsFit
  <2>2. r.status \notin WonStatuses => r.payout = 0
    BY <1>1, <1>3 DEF LegsFit, WonStatuses
  <2>3. out <= r.payout /\ (AtRest(r) => out = r.payout)
    BY <1>1, <1>3, <2>2 DEF LegsFit, AtRest, WonStatuses
  <2>4. Gain(r) = r.amount - r.payout
    BY <1>1, <1>3, <2>2 DEF Gain, WageredStatuses, WonStatuses
  <2> HIDE DEF stake, back, out
  <2> QED BY <1>1, <1>2, <2>1, <2>3, <2>4
<1>4. CASE r.status \in {"reserving", "cancelling", "cancelled"}
  <2>1. back = 0 /\ out = 0
    BY <1>4 DEF LegsFit, WonStatuses
  <2>2. AtRest(r) => stake = 0
    BY <1>4 DEF LegsFit, AtRest
  <2>3. Gain(r) = 0
    BY <1>4 DEF Gain, WageredStatuses, WonStatuses
  <2> HIDE DEF stake, back, out
  <2> QED BY <1>2, <2>1, <2>2, <2>3
<1>5. CASE r.status = "voided"
  <2>1. stake = 0 /\ out <= back
    BY <1>1, <1>5 DEF LegsFit
  <2>2. AtRest(r) => out = back
    BY <1>1, <1>5 DEF LegsFit, AtRest
  <2>3. Gain(r) = 0
    BY <1>5 DEF Gain, WageredStatuses, WonStatuses
  <2> HIDE DEF stake, back, out
  <2> QED BY <1>2, <2>1, <2>2, <2>3
<1>6. CASE r.status = "voiding"
  <2>1. Gain(r) = 0 /\ ~ AtRest(r)
    BY <1>6 DEF Gain, WageredStatuses, WonStatuses, AtRest
  <2> HIDE DEF stake, back, out
  <2> QED BY <1>2, <1>6, <2>1
<1> QED BY <1>1, <1>3, <1>4, <1>5, <1>6 DEF Statuses

\* A column that is 0 outside some rows adds up to their sum.
LEMMA SumOver ==
  ASSUME NEW f, NEW g, NEW A, NEW B, IsFiniteSet(B), A \subseteq B,
         \A x \in A : f[x] \in Int /\ f[x] = g[x], \A x \in B \ A : g[x] = 0
  PROVE  SumFunctionOnSet(g, B) = SumFunctionOnSet(f, A)
<1>1. IsFiniteSet(A) /\ IsFiniteSet(B \ A) /\ A \cap (B \ A) = {} /\ A \cup (B \ A) = B
  BY FS_Subset
<1>2. \A x \in A \cup (B \ A) : g[x] \in Int
  BY <1>1
<1>3. SumFunctionOnSet(g, A \cup (B \ A)) = SumFunctionOnSet(g, A) + SumFunctionOnSet(g, B \ A)
  BY <1>1, <1>2, SumUnion
<1>4. SumFunctionOnSet(g, B \ A) = 0
  BY <1>1, SumZero
<1>5. SumFunctionOnSet(f, A) = SumFunctionOnSet(g, A)
  BY <1>1, SumSame
<1>6. SumFunctionOnSet(f, A) \in Int
  BY <1>1, SumInt
<1> QED BY <1>1, <1>3, <1>4, <1>5, <1>6

\* The GGR of a currency is the gain of its rows, or of any of them that are not mid-void.
LEMMA GgrIsGain ==
  ASSUME TypeOK, NEW o, NEW c, c \in {CurrencyOf(i) : i \in ReportRows(o)}
  PROVE  LET rows == {i \in ReportRows(o) : CurrencyOf(i) = c}
         IN  (IF c \in DOMAIN Summary(o) THEN Summary(o)[c].ggr ELSE 0)
               = SumFunctionOnSet([i \in DOMAIN bets |-> Gain(bets[i])], {i \in rows : bets[i].status # "voiding"})
<1> DEFINE rows == {i \in ReportRows(o) : CurrencyOf(i) = c}
           R == {i \in rows : bets[i].status # "voiding"}
           W == Section(o, c, WageredStatuses)
           V == Section(o, c, WonStatuses)
           put == [i \in DOMAIN bets |-> IF bets[i].status \in WageredStatuses THEN bets[i].amount ELSE 0]
           won == [i \in DOMAIN bets |-> IF bets[i].status \in WonStatuses THEN bets[i].payout ELSE 0]
           gain == [i \in DOMAIN bets |-> Gain(bets[i])]
           ggr == IF c \in DOMAIN Summary(o) THEN Summary(o)[c].ggr ELSE 0
<1>1. /\ W \subseteq R /\ V \subseteq R /\ R \subseteq DOMAIN bets /\ IsFiniteSet(DOMAIN bets)
      /\ \A i \in R : i \in W <=> bets[i].status \in WageredStatuses
      /\ \A i \in R : i \in V <=> bets[i].status \in WonStatuses
  BY Rows DEF Section, ReportRows, WageredStatuses, WonStatuses
<1>2. \A i \in DOMAIN bets : /\ Stake[i] = bets[i].amount /\ Stake[i] \in Nat
                             /\ Win[i] = bets[i].payout /\ Win[i] \in Nat
  BY Rows
<1>3. ggr = SumFunctionOnSet(Stake, W) - SumFunctionOnSet(Win, V)
  <2>1. CASE c \in DOMAIN Summary(o)
    BY <2>1, SummaryOf DEF W, V, SumOf
  <2>2. CASE c \notin DOMAIN Summary(o)
    <3>1. W = {}
      BY <2>2, SummaryOf DEF W
    <3>2. V = {}
      BY <3>1 DEF W, V, Section, WageredStatuses, WonStatuses
    <3> QED BY <2>2, <3>1, <3>2, SumEmpty
  <2> QED BY <2>1, <2>2
<1>4. \A i \in R : put[i] \in Int /\ won[i] \in Int /\ gain[i] = put[i] - won[i]
  BY <1>1, <1>2 DEF Gain
<1>5. /\ \A i \in W : Stake[i] \in Int /\ Stake[i] = put[i]
      /\ \A i \in R \ W : put[i] = 0
      /\ \A i \in V : Win[i] \in Int /\ Win[i] = won[i]
      /\ \A i \in R \ V : won[i] = 0
  BY <1>1, <1>2
<1> HIDE DEF R, W, V, put, won, gain, ggr
<1>6. IsFiniteSet(R)
  BY <1>1, FS_Subset
<1>7. SumFunctionOnSet(put, R) = SumFunctionOnSet(Stake, W)
  BY <1>1, <1>5, <1>6, SumOver
<1>8. SumFunctionOnSet(won, R) = SumFunctionOnSet(Win, V)
  BY <1>1, <1>5, <1>6, SumOver
<1>9. SumFunctionOnSet(gain, R) = SumFunctionOnSet(put, R) - SumFunctionOnSet(won, R)
  BY <1>4, <1>6, SumMinus
<1>10. ggr = SumFunctionOnSet(gain, R)
  BY <1>3, <1>7, <1>8, <1>9
<1> QED BY <1>10 DEF ggr, gain, R

\* The money of a currency: the GGR against what the house holds of its rows.
LEMMA TotalsLemma ==
  ASSUME CapsInv, NEW o, NEW c, c \in {CurrencyOf(i) : i \in ReportRows(o)}
  PROVE  TotalsReconcile(Summary(o), {i \in ReportRows(o) : CurrencyOf(i) = c}, c)
<1> DEFINE rows == {i \in ReportRows(o) : CurrencyOf(i) = c}
           R == {i \in rows : bets[i].status # "voiding"}
           gain == [i \in DOMAIN bets |-> Gain(bets[i])]
           held == [i \in DOMAIN bets |-> HeldOf(bets[i])]
           ggr == IF c \in DOMAIN Summary(o) THEN Summary(o)[c].ggr ELSE 0
<1>1. TypeOK /\ \A i \in DOMAIN bets : bets[i] \in RowType /\ LegsFit(bets[i])
  BY DEF CapsInv, TypeOK, RowsFit
<1>2. R \subseteq DOMAIN bets /\ IsFiniteSet(R) /\ rows \subseteq DOMAIN bets
  <2>1. R \subseteq DOMAIN bets /\ rows \subseteq DOMAIN bets
    BY DEF ReportRows
  <2> QED BY <1>1, <2>1, Rows, FS_Subset
<1>3. ggr = SumFunctionOnSet(gain, R)
  BY <1>1, GgrIsGain
<1>4. \A i \in R : gain[i] \in Int /\ held[i] \in Int /\ gain[i] <= held[i]
  BY <1>1, <1>2, GainIsHeld
<1>5. ASSUME \A i \in rows : AtRest(bets[i]) PROVE R = rows /\ \A i \in R : gain[i] = held[i]
  <2>1. \A i \in rows : bets[i].status # "voiding" /\ gain[i] = held[i]
    BY <1>1, <1>2, <1>5, GainIsHeld DEF AtRest
  <2> QED BY <2>1
<1>6. Held(R) = SumFunctionOnSet(held, R)
  BY DEF Held, SumOf
<1> HIDE DEF gain, held, R, ggr
<1>7. ggr <= Held(R)
  BY <1>2, <1>3, <1>4, <1>6, SumLe
<1>8. ASSUME \A i \in rows : AtRest(bets[i]) PROVE ggr = Held(rows)
  BY <1>2, <1>3, <1>4, <1>5, <1>6, <1>8, SumSame
<1> HIDE DEF rows
<1>9. TotalsReconcile(Summary(o), rows, c)
  BY <1>7, <1>8 DEF TotalsReconcile, ggr, R
<1> QED BY <1>9 DEF rows

\* transactionStatus of one row.
LEMMA DispositionLemma ==
  ASSUME CapsInv, NEW o, NEW i \in DOMAIN bets
  PROVE  DispositionIsTrue(o, i)
<1> DEFINE b == bets[i]
           t == [debit |-> DebitStateOf(b.status), refund |-> RefundStateOf(b.status),
                 payout |-> PayoutStateOf(b.status)]
<1>1. b \in RowType /\ LegsFit(b)
  BY DEF CapsInv, TypeOK, RowsFit
<1>2. b.status \in Statuses /\ b.payout \in Nat /\ b.amount \in Nat
  BY <1>1 DEF RowType
<1>3. /\ t.refund = "none" => b.status \in {"reserving", "active", "cashed_out", "payout_pending", "busted"}
      /\ t.payout = "none" => b.status \notin {"cashed_out", "payout_pending", "voiding"}
      /\ t.debit = "applied" => b.status \in {"active", "cancelling", "cashed_out", "payout_pending", "busted"}
      /\ t.debit = "reversed" => b.status \in {"cancelled", "voided"}
      /\ t.refund = "applied" => b.status \in {"cancelled", "voided"}
      /\ t.payout = "paid" => b.status = "cashed_out"
  <2> USE DEF DebitStateOf, RefundStateOf, PayoutStateOf
  <2>1. CASE b.status = "reserving"
    BY <2>1
  <2>2. CASE b.status = "active"
    BY <2>2
  <2>3. CASE b.status \in {"cancelling", "cancelled"}
    BY <2>3
  <2>4. CASE b.status = "cashed_out"
    BY <2>4
  <2>5. CASE b.status = "payout_pending"
    BY <2>5
  <2>6. CASE b.status = "busted"
    BY <2>6
  <2>7. CASE b.status \in {"voiding", "voided"}
    BY <2>7
  <2> QED BY <1>2, <2>1, <2>2, <2>3, <2>4, <2>5, <2>6, <2>7 DEF Statuses
<1>4. TransactionStatus(o, i) \subseteq {t}
  BY DEF TransactionStatus
<1> HIDE DEF t
<1>5. t.refund = "none" => ~ b.refunded
  BY <1>1, <1>3 DEF LegsFit
<1>6. t.payout = "none" => (b.paid /\ b.payout > 0 => b.clawed)
  BY <1>1, <1>2, <1>3 DEF LegsFit, WonStatuses, Statuses
<1>7. ASSUME AtRest(b)
      PROVE  /\ t.debit = "applied" => b.charged
             /\ t.refund = "applied" => b.refunded
  BY <1>1, <1>3, <1>7 DEF LegsFit, AtRest
<1>8. ASSUME AtRest(b), t.debit = "reversed" PROVE HeldOf(b) = 0
  <2>1. Gain(b) = 0
    BY <1>3, <1>8 DEF Gain, WageredStatuses, WonStatuses
  <2> QED BY <1>1, <1>8, <2>1, GainIsHeld
<1>9. ASSUME AtRest(b), t.payout = "paid" PROVE b.paid
  BY <1>1, <1>3, <1>9 DEF LegsFit, AtRest
<1> QED BY <1>4, <1>5, <1>6, <1>7, <1>8, <1>9 DEF DispositionIsTrue, NoneIsNone, DoneIsDone

\* The reports of every operator (summary, daily, transactionStatus), at every await of the
\* handlers that move money: the GGR counts no money that the house does not hold, and all of
\* it once every row is at rest, the days add up to it, and no disposition says "none" of a
\* move that happened or, at rest, done of one that did not.
THEOREM ReportsAlwaysReconcile == Spec => []ReportsReconcile
<1>1. CapsInv => ReportsReconcile
  <2> SUFFICES ASSUME CapsInv, NEW o \in Operators
               PROVE  /\ \A c \in {CurrencyOf(i) : i \in ReportRows(o)} :
                           /\ TotalsReconcile(Summary(o), {i \in ReportRows(o) : CurrencyOf(i) = c}, c)
                           /\ DaysAddUp(Summary(o), Daily(o), c)
                      /\ \A i \in DOMAIN bets : DispositionIsTrue(o, i)
    BY DEF ReportsReconcile
  <2>1. TypeOK
    BY DEF CapsInv
  <2> QED BY <2>1, TotalsLemma, DaysAddUpLemma, DispositionLemma
<1> QED BY <1>1, CapsAlwaysHold, PTL
=============================================================================
