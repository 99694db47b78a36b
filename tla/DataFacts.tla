----------------------------- MODULE DataFacts -----------------------------
(***************************************************************************)
(* Facts about data that several proofs need and that no library states.   *)
(*                                                                         *)
(* Sums over finite sets: the totals of the ledger and the weights of      *)
(* votes are values of MapThenSumSet, which is recursive. What a sum of a  *)
(* union or of a difference is follows by induction over subsets, stated   *)
(* here with a set P for the predicate: strict inclusion among the subsets *)
(* of a finite set is well-founded, so a set of counterexamples would have *)
(* a least member.                                                         *)
(*                                                                         *)
(* Then least and greatest numbers, minimal members of finite orders,      *)
(* division, small sets and sequences of one or two.                       *)
(***************************************************************************)
EXTENDS Integers, Sequences, FiniteSetsExt, FiniteSetTheorems, SequenceTheorems,
        WellFoundedInduction, TLAPS

(***************************************************************************)
(* Sums.                                                                   *)
(***************************************************************************)
(* A set P of subsets of S that holds each one all of whose proper subsets *)
(* it holds, holds them all.                                               *)
LEMMA SubsetInduction ==
  ASSUME NEW S, IsFiniteSet(S), NEW P,
         \A T \in SUBSET S : (\A U \in SUBSET T : U # T => U \in P) => T \in P
  PROVE  \A T \in SUBSET S : T \in P
  <1> DEFINE bad == (SUBSET S) \ P
             R == StrictSubsetOrdering(S)
  <1> SUFFICES ASSUME bad # {} PROVE FALSE
    OBVIOUS
  <1>1. IsWellFoundedOn(R, SUBSET S)
    <2>1. FiniteSubsetsOf(S) = SUBSET S
      BY FS_FiniteSubsetsOfFinite, Zenon
    <2>2. IsWellFoundedOn(R, FiniteSubsetsOf(S))
      BY FS_StrictSubsetOrderingWellFounded, Zenon
    <2> QED
      BY <2>1, <2>2, Zenon
  <1>2. bad \subseteq SUBSET S
    OBVIOUS
  <1>3. \E T \in bad : \A U \in bad : ~ (<<U, T>> \in R)
    <2> HIDE DEF bad, R
    <2> QED
      BY <1>1, <1>2, WFMin
  <1>4. PICK T \in bad : \A U \in bad : <<U, T>> \notin R
    BY <1>3, Zenon
  <1>5. \A U \in SUBSET T : U # T => U \in P
    BY <1>4 DEF StrictSubsetOrdering
  <1> QED
    BY <1>4, <1>5

(* The member that MapThenSumSet takes from s. *)
First(s) == CHOOSE x \in s : TRUE

(* The sum of f over S. *)
SumOf(f, S) == MapThenSumSet(LAMBDA x : f[x], S)

(* g is the table of the sums of f over the subsets of S. *)
IsSum(g, f, S) ==
  g = [s \in SUBSET S |-> IF s = {} THEN 0 ELSE f[First(s)] + g[s \ {First(s)}]]

(* MapThenSumSet looks up the table. *)
LEMMA SumIsSum ==
  ASSUME NEW f, NEW S
  PROVE  SumOf(f, S) = (CHOOSE g : IsSum(g, f, S))[S]
  BY DEF SumOf, MapThenSumSet, MapThenFoldSet, IsSum, First
(* There is one such table. *)
LEMMA SumUnique ==
  ASSUME NEW f, NEW S, IsFiniteSet(S), NEW g, NEW h, IsSum(g, f, S), IsSum(h, f, S)
  PROVE  g = h
  <1> DEFINE P == {T \in SUBSET S : g[T] = h[T]}
  <1>1. ASSUME NEW T \in SUBSET S, \A U \in SUBSET T : U # T => U \in P
        PROVE  T \in P
    <2>1. CASE T = {}
      BY <2>1 DEF IsSum
    <2>2. CASE T # {}
      <3>1. First(T) \in T
        BY <2>2 DEF First
      <3>2. T \ {First(T)} \in P
        BY <1>1, <3>1
      <3>3. /\ g[T] = f[First(T)] + g[T \ {First(T)}]
            /\ h[T] = f[First(T)] + h[T \ {First(T)}]
        BY <2>2 DEF IsSum
      <3> QED
        BY <3>2, <3>3
    <2> QED
      BY <2>1, <2>2
  <1>2. \A T \in SUBSET S : T \in P
    <2> HIDE DEF P
    <2> QED
      BY <1>1, SubsetInduction
  <1>3. \A T \in SUBSET S : g[T] = h[T]
    BY <1>2
  <1>4. DOMAIN g = SUBSET S /\ DOMAIN h = SUBSET S
    BY DEF IsSum
  <1> QED
    BY <1>3, <1>4, Zenon DEF IsSum

(* The table of a set holds that of every subset. *)
LEMMA SumRestricts ==
  ASSUME NEW f, NEW S, IsFiniteSet(S), NEW g, IsSum(g, f, S),
         NEW T \in SUBSET S, NEW h, IsSum(h, f, T)
  PROVE  \A U \in SUBSET T : h[U] = g[U]
  <1> DEFINE k == [U \in SUBSET T |-> g[U]]
             body(U) == IF U = {} THEN 0 ELSE f[First(U)] + g[U \ {First(U)}]
             body2(U) == IF U = {} THEN 0 ELSE f[First(U)] + k[U \ {First(U)}]
  <1>1. \A U \in SUBSET T : g[U] = body(U)
    BY DEF IsSum
  <1>2. \A U \in SUBSET T : U \ {First(U)} \in SUBSET T
    OBVIOUS
  <1>3. \A U \in SUBSET T : body(U) = body2(U)
    BY <1>2
  <1>4. k = [U \in SUBSET T |-> body2(U)]
    BY <1>1, <1>3
  <1>5. IsSum(k, f, T)
    BY <1>4 DEF IsSum
  <1>6. IsFiniteSet(T)
    BY FS_Subset
  <1>7. h = k
    BY <1>5, <1>6, SumUnique
  <1> QED
    BY <1>7

(* There is such a table: it is built from those of smaller sets. *)
LEMMA SumExists ==
  ASSUME NEW f, NEW S, IsFiniteSet(S)
  PROVE  \E g : IsSum(g, f, S)
  <1> DEFINE P == {T \in SUBSET S : \E g : IsSum(g, f, T)}
             G(T) == CHOOSE g : IsSum(g, f, T)
  <1>1. ASSUME NEW T \in SUBSET S, \A U \in SUBSET T : U # T => U \in P
        PROVE  T \in P
    <2> DEFINE rest(U) == U \ {First(U)}
               body(U) == IF U = {} THEN 0 ELSE f[First(U)] + G(rest(U))[rest(U)]
               h == [U \in SUBSET T |-> body(U)]
    <2>1. \A U \in SUBSET T : U # T => IsSum(G(U), f, U)
      BY <1>1, Zenon
    <2>2. \A U \in SUBSET T : U # {} => First(U) \in U
      BY DEF First
    <2>3. ASSUME NEW U \in SUBSET T, U # {}
          PROVE  h[rest(U)] = G(rest(U))[rest(U)]
      <3> DEFINE V == rest(U)
      <3>1. V \in SUBSET T /\ V # T
        BY <2>2, <2>3
      <3>2. IsSum(G(V), f, V)
        BY <2>1, <3>1
      <3>3. CASE V = {}
        <4>1. G(V)[V] = 0
          BY <3>2, <3>3 DEF IsSum
        <4>2. h[V] = 0
          BY <3>3
        <4> QED
          BY <4>1, <4>2
      <3>4. CASE V # {}
        <4>1. rest(V) \in SUBSET V
          OBVIOUS
        <4>2. rest(V) \in SUBSET T /\ rest(V) # T
          BY <3>1
        <4>3. IsSum(G(rest(V)), f, rest(V))
          BY <2>1, <4>2
        <4>4. IsFiniteSet(V)
          BY <3>1, FS_Subset
        <4>5. G(rest(V))[rest(V)] = G(V)[rest(V)]
          <5> HIDE DEF V, rest, G
          <5> QED
            BY <3>2, <4>1, <4>3, <4>4, SumRestricts
        <4>6. G(V)[V] = f[First(V)] + G(V)[rest(V)]
          BY <3>2, <3>4 DEF IsSum
        <4>7. h[V] = f[First(V)] + G(rest(V))[rest(V)]
          BY <3>1, <3>4, Zenon
        <4> QED
          BY <4>5, <4>6, <4>7
      <3> QED
        BY <3>3, <3>4
    <2>4. h = [U \in SUBSET T |-> IF U = {} THEN 0 ELSE f[First(U)] + h[U \ {First(U)}]]
      <3>1. \A U \in SUBSET T : body(U) = IF U = {} THEN 0 ELSE f[First(U)] + h[rest(U)]
        <4> HIDE DEF h
        <4> QED
          BY <2>3
      <3> DEFINE body2(U) == IF U = {} THEN 0 ELSE f[First(U)] + h[rest(U)]
      <3>2. \A U \in SUBSET T : body(U) = body2(U)
        BY <3>1, Zenon
      <3>3. h = [U \in SUBSET T |-> body2(U)]
        <4> HIDE DEF body, body2
        <4> QED
          BY <3>2, Zenon
      <3> QED
        BY <3>3, Zenon
    <2>5. IsSum(h, f, T)
      BY <2>4 DEF IsSum
    <2> QED
      BY <2>5
  <1>2. \A T \in SUBSET S : T \in P
    <2> HIDE DEF P
    <2> QED
      BY <1>1, SubsetInduction
  <1> QED
    BY <1>2

(* A sum is one member and the sum of the rest. *)
LEMMA SumStep ==
  ASSUME NEW f, NEW S, IsFiniteSet(S)
  PROVE  /\ S = {} => SumOf(f, S) = 0
         /\ S # {} => SumOf(f, S) = f[First(S)] + SumOf(f, S \ {First(S)})
  <1> DEFINE G(T) == CHOOSE g : IsSum(g, f, T)
             T == S \ {First(S)}
  <1>1. IsSum(G(S), f, S)
    BY SumExists, Zenon
  <1>2. SumOf(f, S) = G(S)[S] /\ SumOf(f, T) = G(T)[T]
    BY SumIsSum, Zenon
  <1>3. IsFiniteSet(T) /\ T \in SUBSET S
    BY FS_Subset
  <1>4. IsSum(G(T), f, T)
    <2> HIDE DEF T
    <2> QED
      BY <1>3, SumExists, Zenon
  <1>5. G(T)[T] = G(S)[T]
    <2> HIDE DEF T, G
    <2> QED
      BY <1>1, <1>3, <1>4, SumRestricts
  <1>6. /\ S = {} => G(S)[S] = 0
        /\ S # {} => G(S)[S] = f[First(S)] + G(S)[T]
    <2> HIDE DEF G
    <2> QED
      BY <1>1 DEF IsSum
  <1> QED
    BY <1>2, <1>5, <1>6

(* A sum of nothing. *)
LEMMA SumEmpty == \A f : SumOf(f, {}) = 0
  BY SumStep, FS_EmptySet, Zenon

(* The order of the members does not matter. *)
LEMMA SumRemove ==
  ASSUME NEW S, IsFiniteSet(S), NEW f, \A y \in S : f[y] \in Int
  PROVE  /\ SumOf(f, S) \in Int
         /\ \A x \in S : SumOf(f, S) = f[x] + SumOf(f, S \ {x})
  <1> DEFINE sum(T) == SumOf(f, T)
             P == {T \in SUBSET S : /\ sum(T) \in Int
                                    /\ \A x \in T : sum(T) = f[x] + sum(T \ {x})}
  <1>1. ASSUME NEW T \in SUBSET S, \A U \in SUBSET T : U # T => U \in P
        PROVE  T \in P
    <2>1. CASE T = {}
      BY <2>1, SumEmpty
    <2>2. CASE T # {}
      <3> DEFINE c == First(T)
      <3>1. c \in T /\ c \in S
        BY <2>2 DEF First
      <3>2. sum(T) = f[c] + sum(T \ {c})
        BY <2>2, FS_Subset, SumStep, Zenon
      <3>3. T \ {c} \in P
        BY <1>1, <3>1
      <3>4. sum(T) \in Int
        BY <3>1, <3>2, <3>3
      <3>5. ASSUME NEW x \in T
            PROVE  sum(T) = f[x] + sum(T \ {x})
        <4>1. CASE x = c
          BY <3>2, <4>1
        <4>2. CASE x # c
          <5>1. sum(T \ {c}) = f[x] + sum((T \ {c}) \ {x})
            BY <3>3, <4>2
          <5>2. T \ {x} \in P /\ (T \ {c}) \ {x} \in P
            BY <1>1, <3>1, <3>5
          <5>3. sum(T \ {x}) = f[c] + sum((T \ {x}) \ {c})
            BY <3>1, <4>2, <5>2
          <5>4. sum((T \ {x}) \ {c}) = sum((T \ {c}) \ {x})
            <6>1. (T \ {x}) \ {c} = (T \ {c}) \ {x}
              OBVIOUS
            <6> QED
              BY <6>1, Zenon
          <5>5. sum((T \ {c}) \ {x}) \in Int /\ f[c] \in Int /\ f[x] \in Int
            BY <3>1, <5>2
          <5>6. f[c] + (f[x] + sum((T \ {c}) \ {x})) = f[x] + (f[c] + sum((T \ {c}) \ {x}))
            <6> HIDE DEF sum, c
            <6> QED
              BY <5>5
          <5> HIDE DEF sum, c, P
          <5> QED
            BY <3>2, <5>1, <5>3, <5>4, <5>6, Zenon
        <4> QED
          BY <4>1, <4>2
      <3> QED
        BY <3>4, <3>5
    <2> QED
      BY <2>1, <2>2
  <1>2. \A T \in SUBSET S : T \in P
    <2> HIDE DEF P
    <2> QED
      BY <1>1, SubsetInduction
  <1> QED
    BY <1>2

(* Two sets without a common member: their sums add up. *)
LEMMA SumDisjoint ==
  ASSUME NEW S, NEW T, IsFiniteSet(S), IsFiniteSet(T), S \cap T = {},
         NEW f, \A y \in S \cup T : f[y] \in Int
  PROVE  SumOf(f, S \cup T) = SumOf(f, S) + SumOf(f, T)
  <1> DEFINE sum(U) == SumOf(f, U)
             P == {U \in SUBSET T : sum(S \cup U) = sum(S) + sum(U)}
  <1>1. ASSUME NEW U \in SUBSET T, \A V \in SUBSET U : V # U => V \in P
        PROVE  U \in P
    <2>0. IsFiniteSet(U) /\ IsFiniteSet(S \cup U)
      BY FS_Subset, FS_Union
    <2>1. sum(S) \in Int
      BY SumRemove
    <2>2. CASE U = {}
      <3>1. S \cup U = S
        BY <2>2
      <3> QED
        BY <2>1, <2>2, <3>1, SumEmpty
    <2>3. CASE U # {}
      <3>1. PICK x \in U : TRUE
        BY <2>3
      <3>2. U \ {x} \in P
        BY <1>1, <3>1
      <3>3. (S \cup U) \ {x} = S \cup (U \ {x})
        BY <3>1
      <3>4. sum(S \cup U) = f[x] + sum(S \cup (U \ {x}))
        BY <2>0, <3>1, <3>3, SumRemove
      <3>5. sum(U) = f[x] + sum(U \ {x})
        BY <2>0, SumRemove
      <3>6. IsFiniteSet(U \ {x})
        BY <2>0, FS_Subset
      <3>7. sum(U \ {x}) \in Int
        BY <3>6, SumRemove
      <3>8. f[x] \in Int
        OBVIOUS
      <3>9. sum(S \cup (U \ {x})) = sum(S) + sum(U \ {x})
        BY <3>2
      <3>10. sum(S \cup U) = sum(S) + sum(U)
        <4> HIDE DEF sum
        <4> QED
          BY <2>1, <3>4, <3>5, <3>7, <3>8, <3>9
      <3> QED
        BY <3>10
    <2> QED
      BY <2>2, <2>3
  <1>2. \A U \in SUBSET T : U \in P
    <2> HIDE DEF P
    <2> QED
      BY <1>1, SubsetInduction
  <1> QED
    BY <1>2

(* A sum of naturals is one. *)
LEMMA SumNatural ==
  ASSUME NEW S, IsFiniteSet(S), NEW f, \A y \in S : f[y] \in Nat
  PROVE  SumOf(f, S) \in Nat
  <1> DEFINE P == {T \in SUBSET S : SumOf(f, T) \in Nat}
  <1>1. ASSUME NEW T \in SUBSET S, \A U \in SUBSET T : U # T => U \in P
        PROVE  T \in P
    <2>1. CASE T = {}
      BY <2>1, SumEmpty
    <2>2. CASE T # {}
      <3>1. PICK x \in T : TRUE
        BY <2>2
      <3>2. SumOf(f, T \ {x}) \in Nat
        BY <1>1, <3>1
      <3>3. IsFiniteSet(T)
        BY FS_Subset
      <3>4. SumOf(f, T) = f[x] + SumOf(f, T \ {x})
        BY <3>3, SumRemove
      <3> QED
        BY <3>2, <3>4
    <2> QED
      BY <2>1, <2>2
  <1>2. \A T \in SUBSET S : T \in P
    <2> HIDE DEF P
    <2> QED
      BY <1>1, SubsetInduction
  <1> QED
    BY <1>2

(* Sums of naturals over a part of a set, and over what is left of it. *)
LEMMA SumMonotone ==
  ASSUME NEW T, IsFiniteSet(T), NEW S \in SUBSET T, NEW f, \A y \in T : f[y] \in Nat
  PROVE  /\ SumOf(f, S) <= SumOf(f, T)
         /\ SumOf(f, T \ S) = SumOf(f, T) - SumOf(f, S)
  <1>1. IsFiniteSet(S) /\ IsFiniteSet(T \ S) /\ S \cup (T \ S) = T
    BY FS_Subset
  <1>2. SumOf(f, T) = SumOf(f, S) + SumOf(f, T \ S)
    BY <1>1, SumDisjoint
  <1>3. SumOf(f, S) \in Nat /\ SumOf(f, T \ S) \in Nat
    BY <1>1, SumNatural
  <1> QED
    BY <1>2, <1>3

(***************************************************************************)
(* Least and greatest numbers.                                             *)
(***************************************************************************)

(* A set of numbers has a least member, and Min finds it.                  *)
LEMMA LeastElement ==
    ASSUME NEW S, S \subseteq Nat, S # {}
    PROVE  Min(S) \in S /\ \A y \in S : Min(S) <= y
  <1>1. PICK x \in S : \A y \in S : ~ (<<y, x>> \in OpToRel(<, Nat))
    BY NatLessThanWellFounded, WFMin
  <1>2. \A y \in S : x <= y
    <2> SUFFICES ASSUME NEW y \in S, ~ (x <= y) PROVE FALSE
      OBVIOUS
    <2>1. x \in Nat /\ y \in Nat /\ y < x
      OBVIOUS
    <2>2. <<y, x>> \in OpToRel(<, Nat)
      BY <2>1 DEF OpToRel
    <2> QED
      BY <1>1, <2>2
  <1> QED
    BY <1>1, <1>2 DEF Min

(* A bounded set of numbers has a greatest member, and Max finds it.       *)
LEMMA GreatestElement ==
    ASSUME NEW n \in Nat, NEW S, S \subseteq -1 .. n, S # {}
    PROVE  Max(S) \in S /\ \A y \in S : y <= Max(S)
  <1> DEFINE T == {n - x : x \in S}
  <1>1. T \subseteq Nat /\ T # {}
    <2>1. ASSUME NEW x \in S PROVE n - x \in Nat
      OBVIOUS
    <2>2. PICK x \in S : TRUE
      OBVIOUS
    <2>3. n - x \in T
      BY <2>2
    <2> QED
      BY <2>1, <2>3
  <1>2. Min(T) \in T /\ \A t \in T : Min(T) <= t
    <2> HIDE DEF T
    <2> QED
      BY <1>1, LeastElement
  <1>3. PICK x \in S : Min(T) = n - x
    BY <1>2
  <1>4. \A y \in S : y <= x
    <2> SUFFICES ASSUME NEW y \in S PROVE y <= x
      OBVIOUS
    <2>1. n - x <= n - y
      BY <1>2, <1>3
    <2> QED
      BY <2>1
  <1> QED
    BY <1>4 DEF Max

LEMMA LeastOfTwo ==
    ASSUME NEW a \in Nat, NEW b \in Nat
    PROVE  /\ Min({a, b}) \in Nat
           /\ Min({a, b}) <= a /\ Min({a, b}) <= b
           /\ Min({a, b}) = a \/ Min({a, b}) = b
  BY LeastElement, {a, b} \subseteq Nat, {a, b} # {}


(***************************************************************************)
(* Finite orders.                                                          *)
(***************************************************************************)
(* A finite set has a member that none precedes in a strict order R, given *)
(* as its set of pairs.                                                    *)
LEMMA MinimalExists ==
  ASSUME NEW W, IsFiniteSet(W), W # {}, NEW R,
         \A a, b, c \in W : <<a, b>> \in R /\ <<b, c>> \in R => <<a, c>> \in R,
         \A a \in W : <<a, a>> \notin R
  PROVE  \E x \in W : \A y \in W : <<y, x>> \notin R
  <1> DEFINE P == {T \in SUBSET W : T = {} \/ \E x \in T : \A y \in T : <<y, x>> \notin R}
  <1>1. ASSUME NEW T \in SUBSET W, \A U \in SUBSET T : U # T => U \in P
        PROVE  T \in P
    <2> SUFFICES ASSUME T # {} PROVE \E x \in T : \A y \in T : <<y, x>> \notin R
      OBVIOUS
    <2>1. PICK e \in T : TRUE
      OBVIOUS
    <2>2. T \ {e} \in P
      BY <1>1
    <2>3. CASE T \ {e} = {}
      BY <2>1, <2>3
    <2>4. CASE \E x \in T \ {e} : \A y \in T \ {e} : <<y, x>> \notin R
      <3>1. PICK x \in T \ {e} : \A y \in T \ {e} : <<y, x>> \notin R
        BY <2>4
      <3>2. CASE <<e, x>> \notin R
        BY <3>1, <3>2
      <3>3. CASE <<e, x>> \in R
        <4>1. ASSUME NEW y \in T, <<y, e>> \in R PROVE FALSE
          <5>1. y # e
            BY <4>1
          <5>2. <<y, x>> \in R
            BY <3>1, <3>3, <4>1
          <5> QED
            BY <3>1, <5>1, <5>2
        <4> QED
          BY <4>1
      <3> QED
        BY <3>2, <3>3
    <2> QED
      BY <2>2, <2>3, <2>4
  <1>2. \A T \in SUBSET W : T \in P
    <2> HIDE DEF P
    <2> QED
      BY <1>1, SubsetInduction
  <1>3. W \in P
    BY <1>2
  <1> QED
    BY <1>3


(***************************************************************************)
(* Division.                                                               *)
(***************************************************************************)
(* The quotient rounds down.                                               *)
LEMMA DivFacts ==
  ASSUME NEW a \in Int, NEW b \in Nat \ {0}
  PROVE  /\ a \div b \in Int
         /\ (a \div b) * b <= a /\ a < (a \div b) * b + b
  OBVIOUS

(* One more of a unit is a unit more.                                      *)
LEMMA MulMonotone ==
  ASSUME NEW p \in Int, NEW q \in Int, NEW b \in Nat \ {0}, p < q
  PROVE  p * b + b <= q * b
  OBVIOUS

(* A remainder is a number, whatever the sign of the dividend.             *)
LEMMA ModIsNumber ==
  ASSUME NEW a \in Int, NEW b \in Nat \ {0}
  PROVE  a % b \in Nat
  OBVIOUS


(***************************************************************************)
(* Small sets.                                                             *)
(***************************************************************************)
(* A finite set all of whose members are equal has one or none.            *)
LEMMA Few ==
  ASSUME NEW S, IsFiniteSet(S)
  PROVE  /\ Cardinality(S) \in Nat
         /\ S = {} => Cardinality(S) = 0
         /\ S # {} => Cardinality(S) >= 1
         /\ (\A x, y \in S : x = y) => Cardinality(S) <= 1
  <1>1. Cardinality(S) \in Nat /\ (Cardinality(S) = 0 <=> S = {})
    BY FS_CardinalityType, FS_EmptySet
  <1>2. ASSUME \A x, y \in S : x = y, S # {} PROVE Cardinality(S) <= 1
    <2>1. PICK z \in S : TRUE
      BY <1>2
    <2>2. S = {z}
      BY <1>2, <2>1
    <2> QED
      BY <2>2, FS_Singleton
  <1> QED
    BY <1>1, <1>2


(***************************************************************************)
(* Sequences of one or two.                                                *)
(***************************************************************************)
LEMMA OneOf ==
  ASSUME NEW x, NEW S, S = <<x>>
  PROVE  /\ DOMAIN S = 1 .. 1 /\ S[1] = x
         /\ \A R : x \in R => S \in Seq(R)
  OBVIOUS

LEMMA TwoOf ==
  ASSUME NEW x, NEW y, NEW S, S = <<x>> \o <<y>>
  PROVE  /\ DOMAIN S = 1 .. 2 /\ S[1] = x /\ S[2] = y
         /\ \A R : x \in R /\ y \in R => S \in Seq(R)
  <1> DEFINE a == <<x>>
             b == <<y>>
  <1>1. S = a \o b
    OBVIOUS
  <1>2. /\ \A R : x \in R => a \in Seq(R)
        /\ \A R : y \in R => b \in Seq(R)
        /\ Len(a) = 1 /\ Len(b) = 1 /\ a[1] = x /\ b[1] = y
    OBVIOUS
  <1> HIDE DEF a, b
  <1>3. a \in Seq({x, y}) /\ b \in Seq({x, y})
    BY <1>2
  <1>4. /\ Len(S) = 2 /\ S \in Seq({x, y})
        /\ \A i \in 1 .. 2 : S[i] = IF i <= 1 THEN a[i] ELSE b[i - 1]
    <2>1. /\ a \o b \in Seq({x, y}) /\ Len(a \o b) = Len(a) + Len(b)
          /\ \A i \in 1 .. Len(a) + Len(b) : (a \o b)[i] = IF i <= Len(a) THEN a[i] ELSE b[i - Len(a)]
      BY <1>3, ConcatProperties, Zenon
    <2>2. Len(a) + Len(b) = 2 /\ Len(a) = 1
      BY <1>2
    <2> QED
      BY <1>1, <2>1, <2>2
  <1>5. DOMAIN S = 1 .. 2 /\ S[1] = x /\ S[2] = y
    BY <1>2, <1>4, LenProperties
  <1>6. \A R : x \in R /\ y \in R => S \in Seq(R)
    BY <1>1, <1>2, ConcatProperties
  <1> QED
    BY <1>5, <1>6

(* A slice or none, followed by a slice or none. *)
LEMMA UpToTwo ==
  ASSUME NEW S, NEW x, NEW y, NEW R,
         \/ S = <<x>> \o <<y>> /\ x \in R /\ y \in R
         \/ S = <<x>> /\ x \in R
         \/ S = <<y>> /\ y \in R
         \/ S = <<>>
  PROVE  /\ S \in Seq(R)
         /\ \A n \in DOMAIN S : S[n] = x \/ S[n] = y
         /\ \A m, n \in DOMAIN S : m < n => S[m] = x /\ S[n] = y
  <1>1. CASE S = <<x>> \o <<y>> /\ x \in R /\ y \in R
    <2>1. DOMAIN S = 1 .. 2 /\ S[1] = x /\ S[2] = y /\ S \in Seq(R)
      BY <1>1, TwoOf
    <2>2. \A n \in DOMAIN S : S[n] = x \/ S[n] = y
      BY <2>1
    <2>3. \A m, n \in DOMAIN S : m < n => S[m] = x /\ S[n] = y
      <3> SUFFICES ASSUME NEW m \in 1 .. 2, NEW n \in 1 .. 2, m < n
                   PROVE  S[m] = x /\ S[n] = y
        BY <2>1
      <3>1. m = 1 /\ n = 2
        OBVIOUS
      <3> QED
        BY <2>1, <3>1
    <2> QED
      BY <2>1, <2>2, <2>3
  <1>2. ASSUME NEW z, z \in {x, y}, z \in R, S = <<z>>
        PROVE  /\ S \in Seq(R)
               /\ \A n \in DOMAIN S : S[n] = x \/ S[n] = y
               /\ \A m, n \in DOMAIN S : m < n => S[m] = x /\ S[n] = y
    <2>1. DOMAIN S = 1 .. 1 /\ S[1] = z /\ S \in Seq(R)
      BY <1>2, OneOf
    <2>2. \A m, n \in DOMAIN S : ~(m < n)
      <3> SUFFICES ASSUME NEW m \in 1 .. 1, NEW n \in 1 .. 1 PROVE ~(m < n)
        BY <2>1
      <3> QED
        OBVIOUS
    <2>3. \A n \in 1 .. 1 : n = 1
      OBVIOUS
    <2> QED
      BY <1>2, <2>1, <2>2, <2>3
  <1>3. CASE S = <<>>
    <2>1. S \in Seq(R) /\ DOMAIN S = {}
      BY <1>3
    <2> QED
      BY <2>1
  <1> QED
    BY <1>1, <1>2, <1>3
=============================================================================
