----------------------------- MODULE SumsProofs -----------------------------
(* What a sum over a finite set does: nothing here is about the program.  A   *)
(* claim about every finite set is proved for a smallest set that could       *)
(* break it, which the well-foundedness of strict inclusion provides.         *)
EXTENDS Sums, FiniteSetTheorems, TLAPS

Some(T) == CHOOSE x \in T : TRUE

(* g is the fold of f over every set of D.                                   *)
IsFold(g, f, D) ==
  g = [T \in D |-> IF T = {} THEN 0 ELSE f[Some(T)] + g[T \ {Some(T)}]]

Fold(f, S) == CHOOSE g : IsFold(g, f, SUBSET S)

UpTo(S, n) == {T \in SUBSET S : Cardinality(T) =< n}

(* A family of subsets with a member has one with no other strictly inside.  *)
LEMMA SmallestMember ==
  ASSUME NEW S, IsFiniteSet(S), NEW F, F \subseteq SUBSET S, F # {}
  PROVE  \E T \in F : \A U \in F : U \subseteq T => U = T
<1>1. IsWellFoundedOn(StrictSubsetOrdering(S), SUBSET S)
  BY FS_StrictSubsetOrderingWellFounded, FS_FiniteSubsetsOfFinite
<1>2. PICK T \in F : \A U \in F : <<U, T>> \notin StrictSubsetOrdering(S)
  BY <1>1, WFMin
<1>3. ASSUME NEW U \in F, U \subseteq T, U # T PROVE FALSE
  BY <1>2, <1>3 DEF StrictSubsetOrdering
<1> QED
  BY <1>3

(* The same for numbers.                                                     *)
LEMMA SmallestNumber ==
  ASSUME NEW F, F \subseteq Nat, F # {}
  PROVE  \E n \in F : \A m \in F : n =< m
<1>1. PICK n \in F : \A m \in F : <<m, n>> \notin OpToRel(<, Nat)
  BY WFMin, NatLessThanWellFounded
<1>2. ASSUME NEW m \in F PROVE n =< m
  <2>1. ~(m < n)
    BY <1>1 DEF OpToRel
  <2> QED BY <2>1
<1> QED
  BY <1>2

(* The recursive function of the fold exists.                                *)
LEMMA FoldExists ==
  ASSUME NEW f, NEW S, IsFiniteSet(S)
  PROVE  IsFold(Fold(f, S), f, SUBSET S)
<1> DEFINE Bad == {n \in Nat : ~ \E g : IsFold(g, f, UpTo(S, n))}
<1>1. Bad = {}
  <2> SUFFICES ASSUME Bad # {} PROVE FALSE
    OBVIOUS
  <2>1. PICK n \in Bad : \A m \in Bad : n =< m
    BY SmallestNumber
  <2>2. CASE n = 0
    <3>1. UpTo(S, 0) = {{}}
      BY FS_EmptySet, FS_Subset, FS_CardinalityType DEF UpTo
    <3>2. IsFold([T \in {{}} |-> 0], f, UpTo(S, 0))
      BY <3>1 DEF IsFold
    <3> QED
      BY <2>2, <3>2
  <2>3. CASE n # 0
    <3>1. n \in Nat /\ n - 1 \in Nat /\ n - 1 \notin Bad
      BY <2>1, <2>3
    <3>2. PICK g : IsFold(g, f, UpTo(S, n - 1))
      BY <3>1
    <3> DEFINE h == [T \in UpTo(S, n) |->
                       IF T = {} THEN 0 ELSE f[Some(T)] + g[T \ {Some(T)}]]
    <3>3. ASSUME NEW T \in UpTo(S, n), T # {}
          PROVE  T \ {Some(T)} \in UpTo(S, n - 1) /\ T \ {Some(T)} \in UpTo(S, n)
      <4>1. Some(T) \in T
        BY <3>3 DEF Some
      <4>2. IsFiniteSet(T)
        BY FS_Subset DEF UpTo
      <4>3. Cardinality(T \ {Some(T)}) = Cardinality(T) - 1 /\ Cardinality(T) \in Nat
        BY <4>1, <4>2, FS_RemoveElement, FS_CardinalityType
      <4> QED
        BY <3>1, <4>3 DEF UpTo
    <3>4. ASSUME NEW T \in UpTo(S, n - 1)
          PROVE  h[T] = g[T]
      <4>1. T \in UpTo(S, n)
        <5>1. Cardinality(T) \in Nat
          BY FS_Subset, FS_CardinalityType DEF UpTo
        <5> QED
          BY <3>1, <5>1 DEF UpTo
      <4> QED
        BY <3>2, <4>1 DEF IsFold
    <3>5. \A T \in UpTo(S, n) :
             h[T] = IF T = {} THEN 0 ELSE f[Some(T)] + h[T \ {Some(T)}]
      BY <3>3, <3>4
    <3>6. IsFold(h, f, UpTo(S, n))
      BY <3>5 DEF IsFold
    <3> QED
      BY <2>1, <3>6
  <2> QED
    BY <2>2, <2>3
<1>2. Cardinality(S) \in Nat /\ UpTo(S, Cardinality(S)) = SUBSET S
  BY FS_CardinalityType, FS_Subset DEF UpTo
<1>3. PICK g : IsFold(g, f, SUBSET S)
  <2>1. Cardinality(S) \notin Bad
    BY <1>1
  <2>2. \E g : IsFold(g, f, UpTo(S, Cardinality(S)))
    BY <1>2, <2>1
  <2> QED
    BY <1>2, <2>2
<1> QED
  BY <1>3 DEF Fold

(* A sum is the fold of its terms.                                        *)
LEMMA SumIsFold ==
  ASSUME NEW f, NEW S
  PROVE  SumOver(f, S) = Fold(f, S)[S]
BY DEF SumOver, MapThenSumSet, MapThenFoldSet, Fold, IsFold, Some

-----------------------------------------------------------------------------
(* A fold does not depend on the set it was started from.                    *)
LEMMA FoldAgrees ==
  ASSUME NEW f, NEW S, IsFiniteSet(S), NEW T \in SUBSET S
  PROVE  Fold(f, T)[T] = Fold(f, S)[T]
<1> DEFINE Bad == {U \in SUBSET T : Fold(f, T)[U] # Fold(f, S)[U]}
<1>1. IsFiniteSet(T)
  BY FS_Subset
<1>2. IsFold(Fold(f, S), f, SUBSET S) /\ IsFold(Fold(f, T), f, SUBSET T)
  BY <1>1, FoldExists
<1>3. Bad = {}
  <2> SUFFICES ASSUME Bad # {} PROVE FALSE
    OBVIOUS
  <2>1. PICK U \in Bad : \A V \in Bad : V \subseteq U => V = U
    <3> Bad \subseteq SUBSET T
      OBVIOUS
    <3> HIDE DEF Bad
    <3> QED
      BY <1>1, SmallestMember
  <2>2. /\ Fold(f, S)[U] = IF U = {} THEN 0 ELSE f[Some(U)] + Fold(f, S)[U \ {Some(U)}]
        /\ Fold(f, T)[U] = IF U = {} THEN 0 ELSE f[Some(U)] + Fold(f, T)[U \ {Some(U)}]
    BY <1>2 DEF IsFold
  <2>3. U # {} => Some(U) \in U
    BY DEF Some
  <2> QED
    BY <2>1, <2>2, <2>3
<1> QED
  BY <1>3

(* The sum over no element.                                               *)
LEMMA SumEmpty ==
  ASSUME NEW f
  PROVE  SumOver(f, {}) = 0
<1>1. IsFold(Fold(f, {}), f, SUBSET {})
  BY FoldExists, FS_EmptySet
<1> QED
  BY <1>1, SumIsFold DEF IsFold

(* A sum takes out the element its fold takes first.                      *)
LEMMA SumSome ==
  ASSUME NEW f, NEW S, IsFiniteSet(S), S # {}
  PROVE  /\ Some(S) \in S
         /\ SumOver(f, S) = f[Some(S)] + SumOver(f, S \ {Some(S)})
<1>1. Some(S) \in S
  BY DEF Some
<1>2. Fold(f, S)[S] = f[Some(S)] + Fold(f, S)[S \ {Some(S)}]
  <2>1. IsFold(Fold(f, S), f, SUBSET S)
    BY FoldExists
  <2> QED
    BY <2>1 DEF IsFold
<1>3. Fold(f, S)[S \ {Some(S)}] = Fold(f, S \ {Some(S)})[S \ {Some(S)}]
  BY FoldAgrees
<1> QED
  BY <1>1, <1>2, <1>3, SumIsFold

-----------------------------------------------------------------------------
(* A sum of integers is an integer.                                          *)
LEMMA SumInt ==
  ASSUME NEW f, NEW S, IsFiniteSet(S), \A x \in S : f[x] \in Int
  PROVE  SumOver(f, S) \in Int
<1> DEFINE Bad == {T \in SUBSET S : SumOver(f, T) \notin Int}
<1>1. Bad = {}
  <2> SUFFICES ASSUME Bad # {} PROVE FALSE
    OBVIOUS
  <2>1. PICK T \in Bad : \A U \in Bad : U \subseteq T => U = T
    <3> Bad \subseteq SUBSET S
      OBVIOUS
    <3> HIDE DEF Bad
    <3> QED
      BY SmallestMember
  <2>2. T # {} /\ IsFiniteSet(T)
    <3>1. SumOver(f, {}) = 0 /\ IsFiniteSet(T)
      BY SumEmpty, FS_Subset
    <3> QED
      BY <3>1
  <2>3. Some(T) \in T /\ SumOver(f, T) = f[Some(T)] + SumOver(f, T \ {Some(T)})
    BY <2>2, SumSome
  <2>4. SumOver(f, T \ {Some(T)}) \in Int
    BY <2>1, <2>3
  <2> QED
    BY <2>3, <2>4
<1> QED
  BY <1>1

(* Any member may be taken out first.                                        *)
LEMMA SumRemove ==
  ASSUME NEW f, NEW S, IsFiniteSet(S), \A x \in S : f[x] \in Int, NEW a \in S
  PROVE  /\ SumOver(f, S) = f[a] + SumOver(f, S \ {a})
         /\ SumOver(f, S) \in Int /\ SumOver(f, S \ {a}) \in Int
<1> DEFINE Bad == {T \in SUBSET S : \E x \in T : SumOver(f, T) # f[x] + SumOver(f, T \ {x})}
<1>1. Bad = {}
  <2> SUFFICES ASSUME Bad # {} PROVE FALSE
    OBVIOUS
  <2>1. PICK T \in Bad : \A U \in Bad : U \subseteq T => U = T
    <3> Bad \subseteq SUBSET S
      OBVIOUS
    <3> HIDE DEF Bad
    <3> QED
      BY SmallestMember
  <2>2. PICK x \in T : SumOver(f, T) # f[x] + SumOver(f, T \ {x})
    OBVIOUS
  <2> DEFINE c == Some(T)
  <2>3. IsFiniteSet(T)
    BY FS_Subset
  <2>4. c \in T /\ SumOver(f, T) = f[c] + SumOver(f, T \ {c})
    BY <2>3, SumSome
  <2>5. x # c
    BY <2>2, <2>4
  <2>6. SumOver(f, T \ {c}) = f[x] + SumOver(f, (T \ {c}) \ {x})
    <3>1. T \ {c} \notin Bad
      BY <2>1, <2>4
    <3> QED
      BY <2>5, <3>1
  <2>7. SumOver(f, T \ {x}) = f[c] + SumOver(f, (T \ {x}) \ {c})
    <3>1. T \ {x} \notin Bad
      BY <2>1
    <3> QED
      BY <2>4, <2>5, <3>1
  <2>8. (T \ {c}) \ {x} = (T \ {x}) \ {c}
    OBVIOUS
  <2>9. SumOver(f, (T \ {c}) \ {x}) \in Int /\ f[x] \in Int /\ f[c] \in Int
    <3> IsFiniteSet((T \ {c}) \ {x})
      BY <2>3, FS_RemoveElement
    <3> QED
      BY <2>4, SumInt
  <2>10. SumOver(f, T \ {c}) = f[x] + SumOver(f, (T \ {x}) \ {c})
    BY <2>6, <2>8
  <2>11. SumOver(f, (T \ {x}) \ {c}) \in Int
    BY <2>8, <2>9
  <2> HIDE DEF c, Bad
  <2> QED
    BY <2>2, <2>4, <2>7, <2>9, <2>10, <2>11
<1>2. SumOver(f, S) \in Int /\ SumOver(f, S \ {a}) \in Int
  BY SumInt, FS_RemoveElement
<1> QED
  BY <1>1, <1>2

(* Sums depend on the members alone.                                         *)
LEMMA SumEqual ==
  ASSUME NEW f, NEW g, NEW S, IsFiniteSet(S), \A x \in S : f[x] = g[x]
  PROVE  SumOver(f, S) = SumOver(g, S)
<1> DEFINE Bad == {T \in SUBSET S : SumOver(f, T) # SumOver(g, T)}
<1>1. Bad = {}
  <2> SUFFICES ASSUME Bad # {} PROVE FALSE
    OBVIOUS
  <2>1. PICK T \in Bad : \A U \in Bad : U \subseteq T => U = T
    <3> Bad \subseteq SUBSET S
      OBVIOUS
    <3> HIDE DEF Bad
    <3> QED
      BY SmallestMember
  <2>2. T # {} /\ IsFiniteSet(T)
    <3>1. SumOver(f, {}) = 0 /\ SumOver(g, {}) = 0 /\ IsFiniteSet(T)
      BY SumEmpty, FS_Subset
    <3> QED
      BY <3>1
  <2>3. /\ Some(T) \in T
        /\ SumOver(f, T) = f[Some(T)] + SumOver(f, T \ {Some(T)})
        /\ SumOver(g, T) = g[Some(T)] + SumOver(g, T \ {Some(T)})
    BY <2>2, SumSome
  <2>4. SumOver(f, T \ {Some(T)}) = SumOver(g, T \ {Some(T)})
    BY <2>1, <2>3
  <2> QED
    BY <2>3, <2>4
<1> QED
  BY <1>1

(* Sums of what is added member by member.                                   *)
LEMMA SumPlus ==
  ASSUME NEW f, NEW g, NEW h, NEW S, IsFiniteSet(S),
         \A x \in S : f[x] \in Int /\ g[x] \in Int /\ h[x] = f[x] + g[x]
  PROVE  SumOver(h, S) = SumOver(f, S) + SumOver(g, S)
<1> DEFINE Bad == {T \in SUBSET S : SumOver(h, T) # SumOver(f, T) + SumOver(g, T)}
<1>1. Bad = {}
  <2> SUFFICES ASSUME Bad # {} PROVE FALSE
    OBVIOUS
  <2>1. PICK T \in Bad : \A U \in Bad : U \subseteq T => U = T
    <3> Bad \subseteq SUBSET S
      OBVIOUS
    <3> HIDE DEF Bad
    <3> QED
      BY SmallestMember
  <2>2. T # {} /\ IsFiniteSet(T)
    <3>1. SumOver(f, {}) = 0 /\ SumOver(g, {}) = 0 /\ SumOver(h, {}) = 0 
      BY SumEmpty
    <3>2. SumOver(h, {}) = SumOver(f, {}) + SumOver(g, {})
      BY <3>1
    <3> QED
      BY <3>2, FS_Subset
  <2> DEFINE c == Some(T)
  <2>3. /\ c \in T
        /\ SumOver(f, T) = f[c] + SumOver(f, T \ {c})
        /\ SumOver(g, T) = g[c] + SumOver(g, T \ {c})
        /\ SumOver(h, T) = h[c] + SumOver(h, T \ {c})
    BY <2>2, SumSome
  <2>4. SumOver(h, T \ {c}) = SumOver(f, T \ {c}) + SumOver(g, T \ {c})
    BY <2>1, <2>3
  <2>5. SumOver(f, T \ {c}) \in Int /\ SumOver(g, T \ {c}) \in Int
    <3> IsFiniteSet(T \ {c})
      BY <2>2, FS_RemoveElement
    <3> QED
      BY SumInt
  <2>6. f[c] \in Int /\ g[c] \in Int /\ h[c] = f[c] + g[c]
    BY <2>3
  <2>7. SumOver(h, T) # SumOver(f, T) + SumOver(g, T)
    BY <2>1
  <2> HIDE DEF c
  <2> QED
    BY <2>3, <2>4, <2>5, <2>6, <2>7
<1> QED
  BY <1>1

(* A sum of numbers is a number, not below any of them.                      *)
LEMMA SumNat ==
  ASSUME NEW f, NEW S, IsFiniteSet(S), \A x \in S : f[x] \in Nat
  PROVE  SumOver(f, S) \in Nat /\ \A x \in S : f[x] =< SumOver(f, S)
<1> DEFINE Bad == {T \in SUBSET S : SumOver(f, T) \notin Nat}
<1>1. Bad = {}
  <2> SUFFICES ASSUME Bad # {} PROVE FALSE
    OBVIOUS
  <2>1. PICK T \in Bad : \A U \in Bad : U \subseteq T => U = T
    <3> Bad \subseteq SUBSET S
      OBVIOUS
    <3> HIDE DEF Bad
    <3> QED
      BY SmallestMember
  <2>2. T # {} /\ IsFiniteSet(T)
    <3>1. SumOver(f, {}) = 0 /\ IsFiniteSet(T)
      BY SumEmpty, FS_Subset
    <3> QED
      BY <3>1
  <2>3. Some(T) \in T /\ SumOver(f, T) = f[Some(T)] + SumOver(f, T \ {Some(T)})
    BY <2>2, SumSome
  <2>4. SumOver(f, T \ {Some(T)}) \in Nat
    BY <2>1, <2>3
  <2> QED
    BY <2>3, <2>4
<1>2. ASSUME NEW a \in S PROVE f[a] =< SumOver(f, S)
  <2>1. S \ {a} \notin Bad /\ f[a] \in Nat
    BY <1>1
  <2>2. SumOver(f, S \ {a}) \in Nat
    BY <2>1
  <2>3. SumOver(f, S) = f[a] + SumOver(f, S \ {a})
    BY SumRemove
  <2> QED
    BY <2>1, <2>2, <2>3
<1> QED
  BY <1>1, <1>2

(* Sums grow with their members.                                             *)
LEMMA SumAtMost ==
  ASSUME NEW f, NEW g, NEW S, IsFiniteSet(S),
         \A x \in S : f[x] \in Int /\ g[x] \in Int /\ f[x] =< g[x]
  PROVE  SumOver(f, S) =< SumOver(g, S)
<1> DEFINE d == [x \in S |-> g[x] - f[x]]
<1>1. SumOver(g, S) = SumOver(f, S) + SumOver(d, S)
  <2> \A x \in S : f[x] \in Int /\ d[x] \in Int /\ g[x] = f[x] + d[x]
    OBVIOUS
  <2> HIDE DEF d
  <2> QED
    BY SumPlus
<1>2. SumOver(d, S) \in Nat
  <2> \A x \in S : d[x] \in Nat
    OBVIOUS
  <2> HIDE DEF d
  <2> QED
    BY SumNat
<1>3. SumOver(f, S) \in Int
  BY SumInt
<1> HIDE DEF d
<1> QED
  BY <1>1, <1>2, <1>3

(* One member changes.                                                       *)
LEMMA SumUpdate ==
  ASSUME NEW f, NEW g, NEW S, IsFiniteSet(S), NEW a \in S,
         \A x \in S : f[x] \in Int /\ g[x] \in Int,
         \A x \in S \ {a} : g[x] = f[x]
  PROVE  SumOver(g, S) = SumOver(f, S) + g[a] - f[a]
<1>1. /\ SumOver(f, S) = f[a] + SumOver(f, S \ {a})
      /\ SumOver(g, S) = g[a] + SumOver(g, S \ {a})
      /\ SumOver(f, S \ {a}) \in Int
  BY SumRemove
<1>2. SumOver(f, S \ {a}) = SumOver(g, S \ {a})
  BY FS_RemoveElement, SumEqual
<1>3. f[a] \in Int /\ g[a] \in Int
  OBVIOUS
<1> QED
  BY <1>1, <1>2, <1>3

(* Members outside T that are zero may be left out.                          *)
LEMMA SumWithoutZeros ==
  ASSUME NEW f, NEW S, IsFiniteSet(S), NEW T \in SUBSET S,
         \A x \in T : f[x] \in Int, \A x \in S \ T : f[x] = 0
  PROVE  SumOver(f, S) = SumOver(f, T)
<1> DEFINE Bad == {U \in SUBSET S : T \subseteq U /\ SumOver(f, U) # SumOver(f, T)}
<1>1. Bad = {}
  <2> SUFFICES ASSUME Bad # {} PROVE FALSE
    OBVIOUS
  <2>1. PICK U \in Bad : \A V \in Bad : V \subseteq U => V = U
    <3> Bad \subseteq SUBSET S
      OBVIOUS
    <3> HIDE DEF Bad
    <3> QED
      BY SmallestMember
  <2>2. PICK a \in U : a \notin T
    OBVIOUS
  <2>3. IsFiniteSet(U) /\ \A x \in U : f[x] \in Int
    BY FS_Subset
  <2>4. SumOver(f, U) = f[a] + SumOver(f, U \ {a}) /\ SumOver(f, U \ {a}) \in Int
    BY <2>3, SumRemove
  <2>5. f[a] = 0 /\ SumOver(f, U \ {a}) = SumOver(f, T)
    BY <2>1, <2>2
  <2> QED
    BY <2>1, <2>4, <2>5
<1> QED
  BY <1>1

(* A sum of zeros.                                                        *)
LEMMA SumZero ==
  ASSUME NEW f, NEW S, IsFiniteSet(S), \A x \in S : f[x] = 0
  PROVE  SumOver(f, S) = 0
BY SumWithoutZeros, SumEmpty
=============================================================================
