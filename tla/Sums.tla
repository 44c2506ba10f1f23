--------------------------------- MODULE Sums ---------------------------------
(* Sums over finite sets: what MapThenSumSet, a fold of the community        *)
(* modules, computes.                                                        *)
(*                                                                           *)
(* The fold is a recursive function on the subsets of a set, so that it has  *)
(* to be shown to exist before anything can be said of it.  The induction    *)
(* theorems of the library take an operator, which no prover installed can   *)
(* instantiate; Induction states the principle for a set instead.            *)
EXTENDS FiniteSetsExt, Integers, FiniteSetTheorems, WellFoundedInduction, TLAPS

\* What holds of 0 and of the successor of what it holds of holds of every number
LEMMA Induction ==
    ASSUME NEW T, 0 \in T, \A n \in Nat : n \in T => n + 1 \in T
    PROVE  Nat \subseteq T
<1> DEFINE bad == Nat \ T
<1> SUFFICES ASSUME bad # {} PROVE FALSE
  OBVIOUS
<1> HIDE DEF bad
<1>1. PICK R : IsWellFoundedOn(R, Nat) /\ \A x, y \in Nat : y < x => <<y, x>> \in R
  <2>1. IsWellFoundedOn(OpToRel(<, Nat), Nat)
    BY Zenon, NatLessThanWellFounded
  <2>2. \A x, y \in Nat : y < x => <<y, x>> \in OpToRel(<, Nat)
    BY Zenon DEF OpToRel
  <2> QED BY Zenon, <2>1, <2>2
<1>2. PICK x \in bad : \A y \in bad : <<y, x>> \notin R
  <2>1. bad \subseteq Nat
    BY DEF bad
  <2> QED BY <1>1, <2>1, WFMin
<1>3. x \in Nat /\ x # 0 /\ x \notin T
  BY <1>2 DEF bad
<1>4. x - 1 \in Nat /\ (x - 1) + 1 = x /\ x - 1 < x
  BY <1>3
<1>5. x - 1 \in bad
  BY <1>3, <1>4 DEF bad
<1> QED BY <1>1, <1>2, <1>3, <1>4, <1>5

------------------------------------------------------------------------------
(* The fold                                                                  *)

Any(s) == CHOOSE x \in s : TRUE

\* The entry of a table of partial sums for the subset t
Entry(f, g, t) == IF t = {} THEN 0 ELSE f[Any(t)] + g[t \ {Any(t)}]

Partial(f, S) == CHOOSE g : g = [t \in SUBSET S |-> Entry(f, g, t)]
SumOver(f, S) == Partial(f, S)[S]

\* The fold of a function's values is such a table's last entry
LEMMA FoldIsSum ==
    ASSUME NEW f, NEW S
    PROVE  MapThenSumSet(LAMBDA x : f[x], S) = SumOver(f, S)
BY Zenon DEF MapThenSumSet, MapThenFoldSet, SumOver, Partial, Entry, Any

\* Subsets of at most n elements
Small(S, n) == {t \in SUBSET S : Cardinality(t) <= n}

\* Taking an element away
LEMMA TakingAway ==
    ASSUME NEW S, IsFiniteSet(S), NEW t \in SUBSET S
    PROVE  /\ IsFiniteSet(t) /\ Cardinality(t) \in Nat
           /\ t # {} => /\ Any(t) \in t /\ Cardinality(t) # 0
                        /\ \A x \in t : /\ t \ {x} \in SUBSET S
                                        /\ Cardinality(t \ {x}) = Cardinality(t) - 1
<1>1. IsFiniteSet(t)
  BY FS_Subset
<1>2. Cardinality(t) \in Nat
  BY <1>1, FS_CardinalityType
<1>3. t # {} => Any(t) \in t /\ Cardinality(t) # 0
  BY <1>1, FS_EmptySet DEF Any
<1>4. ASSUME NEW x \in t PROVE t \ {x} \in SUBSET S /\ Cardinality(t \ {x}) = Cardinality(t) - 1
  BY <1>1, FS_RemoveElement
<1> QED BY <1>1, <1>2, <1>3, <1>4

\* A table of partial sums exists
LEMMA TableExists ==
    ASSUME NEW f, NEW S, IsFiniteSet(S)
    PROVE  \E g : g = [t \in SUBSET S |-> Entry(f, g, t)]
<1> DEFINE T == {n \in Nat : \E g : g = [t \in Small(S, n) |-> Entry(f, g, t)]}
<1>1. 0 \in T
  <2> DEFINE g == [t \in Small(S, 0) |-> 0]
  <2>1. \A t \in Small(S, 0) : t = {}
    BY TakingAway DEF Small
  <2>2. \A t \in Small(S, 0) : g[t] = Entry(f, g, t)
    BY <2>1 DEF Entry
  <2>3. g = [t \in Small(S, 0) |-> Entry(f, g, t)]
    BY <2>2
  <2> HIDE DEF g
  <2> QED BY <2>3
<1>2. ASSUME NEW n \in Nat, n \in T PROVE n + 1 \in T
  <2>1. PICK g : g = [t \in Small(S, n) |-> Entry(f, g, t)]
    BY <1>2
  <2> DEFINE h == [t \in Small(S, n + 1) |-> Entry(f, g, t)]
  <2>2. ASSUME NEW t \in Small(S, n + 1) PROVE h[t] = Entry(f, h, t)
    <3>1. CASE t = {}
      BY <3>1 DEF Entry
    <3>2. CASE t # {}
      <4> DEFINE r == t \ {Any(t)}
      <4>1. r \in Small(S, n) /\ r \in Small(S, n + 1)
        BY <3>2, TakingAway DEF Small
      <4> HIDE DEF r
      <4>2. g[r] = Entry(f, g, r)
        BY <2>1, <4>1
      <4>3. h[r] = Entry(f, g, r)
        BY <4>1
      <4> HIDE DEF h
      <4>4. Entry(f, g, t) = Entry(f, h, t)
        BY <4>2, <4>3 DEF Entry, r
      <4> QED BY <4>4 DEF h
    <3> QED BY <3>1, <3>2
  <2>3. h = [t \in Small(S, n + 1) |-> Entry(f, h, t)]
    BY <2>2
  <2> HIDE DEF h
  <2> QED BY <2>3
<1>3. Nat \subseteq T
  <2> HIDE DEF T
  <2> QED BY <1>1, <1>2, Induction
<1>4. Cardinality(S) \in T
  BY <1>3, FS_CardinalityType
<1>5. Small(S, Cardinality(S)) = SUBSET S
  <2>1. \A t \in SUBSET S : Cardinality(t) <= Cardinality(S)
    BY FS_Subset
  <2> QED BY <2>1 DEF Small
<1> QED BY <1>4, <1>5

\* The table is what it was chosen to be
LEMMA PartialEntries ==
    ASSUME NEW f, NEW S, IsFiniteSet(S), NEW t \in SUBSET S
    PROVE  Partial(f, S)[t] = Entry(f, Partial(f, S), t)
<1>1. Partial(f, S) = [r \in SUBSET S |-> Entry(f, Partial(f, S), r)]
  BY TableExists DEF Partial
<1> QED BY <1>1

\* Tables for larger sets agree
LEMMA PartialsAgree ==
    ASSUME NEW f, NEW S, IsFiniteSet(S), NEW r \in SUBSET S
    PROVE  Partial(f, S)[r] = SumOver(f, r)
<1> DEFINE P == Partial(f, S)
           Q == Partial(f, r)
           T == {n \in Nat : \A t \in Small(r, n) : P[t] = Q[t]}
<1>0. IsFiniteSet(r)
  BY FS_Subset
<1>1. /\ \A t \in SUBSET r : P[t] = Entry(f, P, t)
      /\ \A t \in SUBSET r : Q[t] = Entry(f, Q, t)
  BY <1>0, PartialEntries
<1> HIDE DEF P, Q
<1>2. 0 \in T
  <2>1. \A t \in Small(r, 0) : t = {} /\ t \in SUBSET r
    BY <1>0, TakingAway DEF Small
  <2> QED BY <1>1, <2>1 DEF Entry
<1>3. ASSUME NEW n \in Nat, n \in T PROVE n + 1 \in T
  <2>1. ASSUME NEW t \in Small(r, n + 1) PROVE P[t] = Q[t]
    <3>1. t # {} => t \ {Any(t)} \in Small(r, n)
      BY <1>0, TakingAway DEF Small
    <3>2. t \in SUBSET r
      BY DEF Small
    <3>3. t # {} => P[t \ {Any(t)}] = Q[t \ {Any(t)}]
      BY <1>3, <3>1
    <3> QED BY <1>1, <3>2, <3>3 DEF Entry
  <2> QED BY <2>1
<1>4. Nat \subseteq T
  <2> HIDE DEF T
  <2> QED BY <1>2, <1>3, Induction
<1>5. Cardinality(r) \in T /\ r \in Small(r, Cardinality(r))
  BY <1>0, <1>4, FS_CardinalityType DEF Small
<1> QED BY <1>5 DEF SumOver, P, Q

\* The sum of an empty set
LEMMA SumOfNone ==
    ASSUME NEW f
    PROVE  SumOver(f, {}) = 0
<1>1. IsFiniteSet({}) /\ {} \in SUBSET {}
  BY FS_EmptySet
<1> QED BY <1>1, PartialEntries DEF SumOver, Entry

\* One element is added to the sum of the others
LEMMA SumOfAny ==
    ASSUME NEW f, NEW S, IsFiniteSet(S), S # {}
    PROVE  Any(S) \in S /\ SumOver(f, S) = f[Any(S)] + SumOver(f, S \ {Any(S)})
<1>1. SumOver(f, S) = Entry(f, Partial(f, S), S)
  BY PartialEntries DEF SumOver
<1>2. S \ {Any(S)} \in SUBSET S /\ Any(S) \in S
  BY TakingAway
<1>3. Partial(f, S)[S \ {Any(S)}] = SumOver(f, S \ {Any(S)})
  BY <1>2, PartialsAgree
<1> QED BY <1>1, <1>2, <1>3 DEF Entry

\* A sum of natural numbers is one
LEMMA SumIsNat ==
    ASSUME NEW f, NEW S, IsFiniteSet(S), \A x \in S : f[x] \in Nat
    PROVE  SumOver(f, S) \in Nat
<1> DEFINE T == {n \in Nat : \A t \in Small(S, n) : SumOver(f, t) \in Nat}
<1>1. 0 \in T
  <2>1. \A t \in Small(S, 0) : t = {}
    BY TakingAway DEF Small
  <2> QED BY <2>1, SumOfNone
<1>2. ASSUME NEW n \in Nat, n \in T PROVE n + 1 \in T
  <2>1. ASSUME NEW t \in Small(S, n + 1) PROVE SumOver(f, t) \in Nat
    <3>1. CASE t = {}
      BY <3>1, SumOfNone
    <3>2. CASE t # {}
      <4>1. t \in SUBSET S /\ IsFiniteSet(t) /\ t \ {Any(t)} \in Small(S, n)
        BY <3>2, TakingAway DEF Small
      <4>2. Any(t) \in t /\ SumOver(f, t) = f[Any(t)] + SumOver(f, t \ {Any(t)})
        BY <3>2, <4>1, SumOfAny
      <4>3. f[Any(t)] \in Nat /\ SumOver(f, t \ {Any(t)}) \in Nat
        BY <1>2, <4>1, <4>2
      <4> QED BY <4>2, <4>3
    <3> QED BY <3>1, <3>2
  <2> QED BY <2>1
<1>3. Nat \subseteq T
  <2> HIDE DEF T
  <2> QED BY <1>1, <1>2, Induction
<1>4. Cardinality(S) \in T /\ S \in Small(S, Cardinality(S))
  BY <1>3, FS_CardinalityType DEF Small
<1> QED BY <1>4

\* Functions that agree on a set have the same sum over it
LEMMA SameSum ==
    ASSUME NEW f, NEW g, NEW S, IsFiniteSet(S), \A x \in S : f[x] = g[x]
    PROVE  SumOver(f, S) = SumOver(g, S)
<1> DEFINE T == {n \in Nat : \A t \in Small(S, n) : SumOver(f, t) = SumOver(g, t)}
<1>1. 0 \in T
  <2>1. \A t \in Small(S, 0) : t = {}
    BY TakingAway DEF Small
  <2> QED BY <2>1, SumOfNone
<1>2. ASSUME NEW n \in Nat, n \in T PROVE n + 1 \in T
  <2>1. ASSUME NEW t \in Small(S, n + 1) PROVE SumOver(f, t) = SumOver(g, t)
    <3>1. CASE t = {}
      BY <3>1, SumOfNone
    <3>2. CASE t # {}
      <4>1. t \in SUBSET S /\ IsFiniteSet(t) /\ t \ {Any(t)} \in Small(S, n)
        BY <3>2, TakingAway DEF Small
      <4>2. /\ Any(t) \in t /\ SumOver(f, t) = f[Any(t)] + SumOver(f, t \ {Any(t)})
            /\ SumOver(g, t) = g[Any(t)] + SumOver(g, t \ {Any(t)})
        BY <3>2, <4>1, SumOfAny
      <4>3. f[Any(t)] = g[Any(t)] /\ SumOver(f, t \ {Any(t)}) = SumOver(g, t \ {Any(t)})
        BY <1>2, <4>1, <4>2
      <4> QED BY <4>2, <4>3
    <3> QED BY <3>1, <3>2
  <2> QED BY <2>1
<1>3. Nat \subseteq T
  <2> HIDE DEF T
  <2> QED BY <1>1, <1>2, Induction
<1>4. Cardinality(S) \in T /\ S \in Small(S, Cardinality(S))
  BY <1>3, FS_CardinalityType DEF Small
<1> QED BY <1>4

\* Which element is added does not matter
LEMMA SumTakes ==
    ASSUME NEW f, NEW S, IsFiniteSet(S), \A x \in S : f[x] \in Nat, NEW e \in S
    PROVE  SumOver(f, S) = f[e] + SumOver(f, S \ {e})
<1> DEFINE T == {n \in Nat : \A t \in Small(S, n) : \A x \in t :
                    SumOver(f, t) = f[x] + SumOver(f, t \ {x})}
<1>1. 0 \in T
  <2>1. \A t \in Small(S, 0) : t = {}
    BY TakingAway DEF Small
  <2> QED BY <2>1
<1>2. ASSUME NEW n \in Nat, n \in T PROVE n + 1 \in T
  <2>1. ASSUME NEW t \in Small(S, n + 1), NEW x \in t
        PROVE  SumOver(f, t) = f[x] + SumOver(f, t \ {x})
    <3> DEFINE a == Any(t)
               u == t \ {a}
               v == t \ {x}
               w == (t \ {a}) \ {x}
    <3>1. t \in SUBSET S /\ IsFiniteSet(t) /\ t # {}
      BY TakingAway DEF Small
    <3>2. a \in t /\ SumOver(f, t) = f[a] + SumOver(f, u)
      BY <3>1, SumOfAny
    <3>3. CASE a = x
      BY <3>2, <3>3
    <3>4. CASE a # x
      <4>1. u \in Small(S, n) /\ v \in Small(S, n)
        BY <3>1, <3>2, TakingAway DEF Small
      <4>2. x \in u /\ a \in v /\ v \ {a} = w /\ u \ {x} = w
        BY <3>2, <3>4
      <4> HIDE DEF u, v, w, a
      <4>3. SumOver(f, u) = f[x] + SumOver(f, w)
        BY <1>2, <4>1, <4>2
      <4>4. SumOver(f, v) = f[a] + SumOver(f, w)
        BY <1>2, <4>1, <4>2
      <4>5. SumOver(f, w) \in Nat /\ f[a] \in Nat /\ f[x] \in Nat
        <5>1. w \in SUBSET S /\ IsFiniteSet(w)
          BY <3>1, TakingAway DEF w
        <5> QED BY <3>1, <3>2, <5>1, SumIsNat
      <4>6. SumOver(f, t) = f[x] + SumOver(f, v)
        BY <3>2, <4>3, <4>4, <4>5
      <4> QED BY <4>6 DEF v
    <3> QED BY <3>3, <3>4
  <2> QED BY <2>1
<1>3. Nat \subseteq T
  <2> HIDE DEF T
  <2> QED BY <1>1, <1>2, Induction
<1>4. Cardinality(S) \in T /\ S \in Small(S, Cardinality(S))
  BY <1>3, FS_CardinalityType DEF Small
<1> QED BY <1>4

\* One more element adds its own value
LEMMA SumAdds ==
    ASSUME NEW f, NEW g, NEW S, IsFiniteSet(S), NEW e, e \notin S,
           \A x \in S : f[x] \in Nat /\ g[x] = f[x], g[e] \in Nat
    PROVE  SumOver(g, S \cup {e}) = SumOver(f, S) + g[e]
<1> DEFINE T == S \cup {e}
<1>1. IsFiniteSet(T)
  BY FS_AddElement
<1>2. (\A x \in T : g[x] \in Nat) /\ e \in T /\ T \ {e} = S
  OBVIOUS
<1> HIDE DEF T
<1>3. SumOver(g, T) = g[e] + SumOver(g, S)
  BY <1>1, <1>2, SumTakes
<1>4. SumOver(g, S) = SumOver(f, S) /\ SumOver(f, S) \in Nat
  BY SameSum, SumIsNat
<1> QED BY <1>3, <1>4 DEF T

\* Changing one value changes the sum by as much
LEMMA SumChanges ==
    ASSUME NEW f, NEW g, NEW S, IsFiniteSet(S), NEW e \in S,
           \A x \in S : f[x] \in Nat /\ g[x] \in Nat,
           \A x \in S \ {e} : g[x] = f[x]
    PROVE  /\ SumOver(f, S) \in Nat /\ SumOver(g, S) \in Nat
           /\ SumOver(g, S) + f[e] = SumOver(f, S) + g[e]
<1>1. SumOver(f, S) = f[e] + SumOver(f, S \ {e}) /\ SumOver(g, S) = g[e] + SumOver(g, S \ {e})
  BY SumTakes
<1>2. IsFiniteSet(S \ {e})
  BY FS_RemoveElement
<1>3. SumOver(g, S \ {e}) = SumOver(f, S \ {e}) /\ SumOver(f, S \ {e}) \in Nat
  BY <1>2, SameSum, SumIsNat
<1> QED BY <1>1, <1>3

\* Nothing but zeros sums to zero
LEMMA SumOfZeros ==
    ASSUME NEW f, NEW S, IsFiniteSet(S), \A x \in S : f[x] = 0
    PROVE  SumOver(f, S) = 0
<1> DEFINE T == {n \in Nat : \A t \in Small(S, n) : SumOver(f, t) = 0}
<1>1. 0 \in T
  <2>1. \A t \in Small(S, 0) : t = {}
    BY TakingAway DEF Small
  <2> QED BY <2>1, SumOfNone
<1>2. ASSUME NEW n \in Nat, n \in T PROVE n + 1 \in T
  <2>1. ASSUME NEW t \in Small(S, n + 1) PROVE SumOver(f, t) = 0
    <3>1. CASE t = {}
      BY <3>1, SumOfNone
    <3>2. CASE t # {}
      <4>1. t \in SUBSET S /\ IsFiniteSet(t) /\ t \ {Any(t)} \in Small(S, n)
        BY <3>2, TakingAway DEF Small
      <4>2. Any(t) \in t /\ SumOver(f, t) = f[Any(t)] + SumOver(f, t \ {Any(t)})
        BY <3>2, <4>1, SumOfAny
      <4>3. f[Any(t)] = 0 /\ SumOver(f, t \ {Any(t)}) = 0
        BY <1>2, <4>1, <4>2
      <4> QED BY <4>2, <4>3
    <3> QED BY <3>1, <3>2
  <2> QED BY <2>1
<1>3. Nat \subseteq T
  <2> HIDE DEF T
  <2> QED BY <1>1, <1>2, Induction
<1>4. Cardinality(S) \in T /\ S \in Small(S, Cardinality(S))
  BY <1>3, FS_CardinalityType DEF Small
<1> QED BY <1>4
=============================================================================
