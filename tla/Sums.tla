-------------------------------- MODULE Sums --------------------------------
(***************************************************************************)
(* What the proofs need of MapThenSumSet, the sum the modules take over    *)
(* receipts: it is determined by its terms, is a number, and grows by the  *)
(* term of an element that is added.  The provers cannot instantiate an    *)
(* induction theorem, whose parameter is an operator, so each induction is *)
(* the choice of a smallest set for which the claim fails.                 *)
(***************************************************************************)
EXTENDS Integers, FiniteSetsExt, FiniteSetTheorems, WellFoundedInduction, TLAPS

\* The sum of a function over a set of its arguments.
SumOf(f, S) == MapThenSumSet(LAMBDA x : f[x], S)

\* The equation of the fold behind it, on the subsets of S.
Pick(s) == CHOOSE x \in s : TRUE
IsSum(f, g, S) ==
    g = [s \in SUBSET S |-> IF s = {} THEN 0 ELSE f[Pick(s)] + g[s \ {Pick(s)}]]

-----------------------------------------------------------------------------
(* Induction over the subsets of a finite set.                             *)

\* A family of subsets of a finite set has a smallest member.
LEMMA SmallestMember ==
    ASSUME NEW S, IsFiniteSet(S), NEW B, B \subseteq SUBSET S, B # {}
    PROVE  \E T \in B : \A U \in B : U \subseteq T => U = T
<1> DEFINE R == StrictSubsetOrdering(S)
<1>1. IsWellFoundedOn(R, SUBSET S)
  BY FS_StrictSubsetOrderingWellFounded, FS_FiniteSubsetsOfFinite
<1>2. PICK T \in B : \A U \in B : <<U, T>> \notin R
  <2> HIDE DEF R
  <2> QED BY <1>1, WFMin
<1>3. ASSUME NEW U \in B, U \subseteq T
      PROVE  U = T
  <2>1. <<U, T>> \in (SUBSET S) \X (SUBSET S)
    OBVIOUS
  <2> QED BY <1>2, <1>3, <2>1 DEF StrictSubsetOrdering
<1> QED BY <1>2, <1>3

LEMMA PickIsMember ==
    ASSUME NEW s, s # {}
    PROVE  Pick(s) \in s
  BY DEF Pick

-----------------------------------------------------------------------------
(* The fold.                                                               *)

\* Two folds of a function agree where both are defined.
LEMMA SumsAgree ==
    ASSUME NEW f, NEW S, NEW T, NEW g, NEW h, IsFiniteSet(S),
           IsSum(f, g, S), IsSum(f, h, T)
    PROVE  \A s \in SUBSET (S \cap T) : g[s] = h[s]
<1> DEFINE B == {s \in SUBSET (S \cap T) : g[s] # h[s]}
<1> SUFFICES ASSUME B # {} PROVE FALSE
  OBVIOUS
<1>1. PICK s \in B : \A u \in B : u \subseteq s => u = s
  <2>1. B \subseteq SUBSET S
    OBVIOUS
  <2> HIDE DEF B
  <2> QED BY <2>1, SmallestMember
<1>2. s \in SUBSET S /\ s \in SUBSET T
  OBVIOUS
<1>3. s # {}
  BY <1>2 DEF IsSum
<1>4. Pick(s) \in s
  BY <1>3, PickIsMember
<1>5. g[s \ {Pick(s)}] = h[s \ {Pick(s)}]
  <2>1. s \ {Pick(s)} \in SUBSET (S \cap T) /\ s \ {Pick(s)} \subseteq s /\ s \ {Pick(s)} # s
    BY <1>2, <1>4
  <2> QED BY <1>1, <2>1
<1>6. g[s] = f[Pick(s)] + g[s \ {Pick(s)}]
  BY <1>2, <1>3 DEF IsSum
<1>7. h[s] = f[Pick(s)] + h[s \ {Pick(s)}]
  BY <1>2, <1>3 DEF IsSum
<1> QED BY <1>5, <1>6, <1>7

\* Every finite set has its fold.
LEMMA SumExists ==
    ASSUME NEW f, NEW S, IsFiniteSet(S)
    PROVE  \E g : IsSum(f, g, S)
<1> DEFINE B == {s \in SUBSET S : ~\E g : IsSum(f, g, s)}
           Fold(s) == CHOOSE g : IsSum(f, g, s)
<1> SUFFICES ASSUME B # {} PROVE FALSE
  OBVIOUS
<1>1. PICK T \in B : \A u \in B : u \subseteq T => u = T
  <2>1. B \subseteq SUBSET S
    OBVIOUS
  <2> HIDE DEF B
  <2> QED BY <2>1, SmallestMember
<1>2. T \in SUBSET S /\ ~\E g : IsSum(f, g, T)
  OBVIOUS
<1>3. \A s \in SUBSET T : s # T => IsSum(f, Fold(s), s)
  <2> TAKE s \in SUBSET T
  <2> HAVE s # T
  <2>1. s \notin B /\ s \in SUBSET S
    BY <1>1, <1>2
  <2> QED BY <2>1
<1> DEFINE Rest(s) == s \ {Pick(s)}
           g == [s \in SUBSET T |-> IF s = {} THEN 0 ELSE f[Pick(s)] + Fold(Rest(s))[Rest(s)]]
<1>4. \A s \in SUBSET T : s # {} => g[Rest(s)] = Fold(Rest(s))[Rest(s)]
  <2> SUFFICES ASSUME NEW s \in SUBSET T, s # {}
               PROVE  g[Rest(s)] = Fold(Rest(s))[Rest(s)]
    OBVIOUS
  <2> DEFINE u == Rest(s)
  <2>1. u \in SUBSET T /\ u # T
    BY PickIsMember
  <2>2. IsSum(f, Fold(u), u)
    BY <1>3, <2>1
  <2>3. CASE u = {}
    <3>1. Fold(u)[u] = 0
      BY <2>2, <2>3 DEF IsSum
    <3> QED BY <2>1, <2>3, <3>1
  <2>4. CASE u # {}
    <3> DEFINE v == Rest(u)
    <3>1. v \in SUBSET T /\ v # T /\ v \subseteq u /\ Pick(u) \in u
      BY <2>1, <2>4, PickIsMember
    <3>2. Fold(u)[u] = f[Pick(u)] + Fold(u)[v]
      <4> HIDE DEF Fold
      <4> QED BY <2>2, <2>4 DEF IsSum
    <3>3. Fold(u)[v] = Fold(v)[v]
      <4>1. IsSum(f, Fold(v), v)
        BY <1>3, <3>1
      <4>2. IsFiniteSet(u)
        BY <1>2, <2>1, FS_Subset
      <4>3. v \in SUBSET (u \cap v)
        BY <3>1
      <4> HIDE DEF Fold, u, v
      <4> QED BY <2>2, <4>1, <4>2, <4>3, SumsAgree
    <3>4. g[u] = f[Pick(u)] + Fold(v)[v]
      BY <2>1, <2>4
    <3> HIDE DEF Fold, g
    <3> QED BY <3>2, <3>3, <3>4
  <2> QED BY <2>3, <2>4
<1>5. IsSum(f, g, T)
  <2>1. \A s \in SUBSET T : g[s] = IF s = {} THEN 0 ELSE f[Pick(s)] + g[s \ {Pick(s)}]
    <3> TAKE s \in SUBSET T
    <3>1. CASE s = {}
      BY <3>1
    <3>2. CASE s # {}
      <4>1. g[Rest(s)] = Fold(Rest(s))[Rest(s)]
        BY <1>4, <3>2
      <4>2. g[s] = f[Pick(s)] + Fold(Rest(s))[Rest(s)]
        BY <3>2
      <4> HIDE DEF g, Fold
      <4> QED BY <3>2, <4>1, <4>2
    <3> QED BY <3>1, <3>2
  <2>2. g = [s \in SUBSET T |-> g[s]]
    OBVIOUS
  <2> HIDE DEF g
  <2>3. [s \in SUBSET T |-> g[s]]
        = [s \in SUBSET T |-> IF s = {} THEN 0 ELSE f[Pick(s)] + g[s \ {Pick(s)}]]
    BY <2>1
  <2> QED BY <2>2, <2>3 DEF IsSum
<1> QED BY <1>2, <1>5

\* The sum is read off any fold over a finite set.
LEMMA SumIsFold ==
    ASSUME NEW f, NEW S, IsFiniteSet(S), NEW g, IsSum(f, g, S), NEW T \in SUBSET S
    PROVE  SumOf(f, T) = g[T]
<1> DEFINE h == CHOOSE h : IsSum(f, h, T)
<1>1. IsFiniteSet(T)
  BY FS_Subset
<1>2. IsSum(f, h, T)
  BY <1>1, SumExists
<1>3. SumOf(f, T) = h[T]
  BY DEF SumOf, MapThenSumSet, MapThenFoldSet, IsSum, Pick
<1>4. g[T] = h[T]
  <2> HIDE DEF h
  <2>1. T \in SUBSET (S \cap T)
    OBVIOUS
  <2> QED BY <1>1, <1>2, <2>1, SumsAgree
<1> QED BY <1>3, <1>4

-----------------------------------------------------------------------------
(* The sum.                                                                *)

\* A sum of integers is an integer.
LEMMA SumIsInt ==
    ASSUME NEW f, NEW S, IsFiniteSet(S), \A x \in S : f[x] \in Int
    PROVE  SumOf(f, S) \in Int
<1>1. PICK g : IsSum(f, g, S)
  BY SumExists
<1> DEFINE B == {s \in SUBSET S : g[s] \notin Int}
<1>2. B = {}
  <2> SUFFICES ASSUME B # {} PROVE FALSE
    OBVIOUS
  <2>1. PICK s \in B : \A u \in B : u \subseteq s => u = s
    <3>1. B \subseteq SUBSET S
      OBVIOUS
    <3> HIDE DEF B
    <3> QED BY <3>1, SmallestMember
  <2>2. s \in SUBSET S /\ g[s] \notin Int
    OBVIOUS
  <2>3. s # {}
    BY <1>1, <2>2 DEF IsSum
  <2>4. Pick(s) \in s
    BY <2>3, PickIsMember
  <2>5. g[s \ {Pick(s)}] \in Int
    BY <2>1, <2>2, <2>4
  <2>6. g[s] = f[Pick(s)] + g[s \ {Pick(s)}]
    BY <1>1, <2>2, <2>3 DEF IsSum
  <2> QED BY <2>2, <2>4, <2>5, <2>6
<1>3. g[S] \in Int
  BY <1>2
<1> QED BY <1>1, <1>3, SumIsFold

\* The sum over nothing is zero.
LEMMA SumOfNone ==
    ASSUME NEW f
    PROVE  SumOf(f, {}) = 0
<1>1. IsFiniteSet({})
  BY FS_EmptySet
<1>2. PICK g : IsSum(f, g, {})
  BY <1>1, SumExists
<1>3. g[{}] = 0
  BY <1>2 DEF IsSum
<1> QED BY <1>1, <1>2, <1>3, SumIsFold

\* Whichever element is taken out of a set, its term comes out of the sum.
LEMMA SumWithout ==
    ASSUME NEW f, NEW S, IsFiniteSet(S), \A x \in S : f[x] \in Int, NEW x \in S
    PROVE  SumOf(f, S) = f[x] + SumOf(f, S \ {x})
<1>1. PICK g : IsSum(f, g, S)
  BY SumExists
<1>2. \A s \in SUBSET S : g[s] \in Int
  <2> TAKE s \in SUBSET S
  <2>1. IsFiniteSet(s)
    BY FS_Subset
  <2>2. SumOf(f, s) \in Int
    BY <2>1, SumIsInt
  <2> QED BY <1>1, <2>2, SumIsFold
<1> DEFINE Splits(s) == \A y \in s : g[s] = f[y] + g[s \ {y}]
           B == {s \in SUBSET S : ~Splits(s)}
<1>3. B = {}
  <2> SUFFICES ASSUME B # {} PROVE FALSE
    OBVIOUS
  <2>1. PICK s \in B : \A u \in B : u \subseteq s => u = s
    <3>1. B \subseteq SUBSET S
      OBVIOUS
    <3> HIDE DEF B
    <3> QED BY <3>1, SmallestMember
  <2>2. s \in SUBSET S
    OBVIOUS
  <2>3. PICK y \in s : g[s] # f[y] + g[s \ {y}]
    OBVIOUS
  <2> DEFINE p == Pick(s)
  <2>4. p \in s
    BY <2>3, PickIsMember
  <2>5. g[s] = f[p] + g[s \ {p}]
    BY <1>1, <2>2, <2>3 DEF IsSum
  <2>6. p # y
    BY <2>3, <2>5
  <2> HIDE DEF p
  <2>7. Splits(s \ {p}) /\ Splits(s \ {y})
    <3>1. s \ {p} \in SUBSET S /\ s \ {p} # s /\ s \ {y} \in SUBSET S /\ s \ {y} # s
      BY <2>2, <2>3, <2>4
    <3> QED BY <2>1, <3>1
  <2>8. g[s \ {p}] = f[y] + g[(s \ {p}) \ {y}]
    BY <2>3, <2>6, <2>7
  <2>9. g[s \ {y}] = f[p] + g[(s \ {y}) \ {p}]
    BY <2>4, <2>6, <2>7
  <2>10. g[(s \ {p}) \ {y}] = g[(s \ {y}) \ {p}]
    <3>1. (s \ {p}) \ {y} = (s \ {y}) \ {p}
      OBVIOUS
    <3> QED BY <3>1
  <2>11. f[p] \in Int /\ f[y] \in Int
    BY <2>2, <2>3, <2>4
  <2>12. g[(s \ {y}) \ {p}] \in Int
    BY <1>2, <2>2
  <2>13. g[s] = f[y] + g[s \ {y}]
    <3>2. f[p] + g[(s \ {y}) \ {p}] \in Int /\ f[y] + g[(s \ {y}) \ {p}] \in Int
      BY <2>11, <2>12
    <3> HIDE DEF Splits, B
    <3> QED BY <2>5, <2>8, <2>9, <2>10, <2>11, <2>12, <3>2
  <2> QED BY <2>3, <2>13
<1>4. g[S] = f[x] + g[S \ {x}]
  BY <1>3
<1> QED BY <1>1, <1>4, SumIsFold

\* An element that is added adds its term.
LEMMA SumWith ==
    ASSUME NEW f, NEW S, IsFiniteSet(S), NEW x, x \notin S, \A y \in S \cup {x} : f[y] \in Int
    PROVE  SumOf(f, S \cup {x}) = SumOf(f, S) + f[x]
<1>1. IsFiniteSet(S \cup {x}) /\ (S \cup {x}) \ {x} = S
  BY FS_AddElement
<1>2. SumOf(f, S \cup {x}) = f[x] + SumOf(f, S)
  BY <1>1, SumWithout
<1>3. SumOf(f, S) \in Int
  BY SumIsInt
<1> QED BY <1>2, <1>3

\* A sum depends on its terms alone.
LEMMA SumOfSame ==
    ASSUME NEW f, NEW h, NEW S, \A x \in S : f[x] = h[x]
    PROVE  SumOf(f, S) = SumOf(h, S)
<1>1. ASSUME NEW g
      PROVE  IsSum(f, g, S) <=> IsSum(h, g, S)
  <2>1. \A s \in SUBSET S : s # {} => f[Pick(s)] = h[Pick(s)]
    BY PickIsMember
  <2>2. [s \in SUBSET S |-> IF s = {} THEN 0 ELSE f[Pick(s)] + g[s \ {Pick(s)}]]
        = [s \in SUBSET S |-> IF s = {} THEN 0 ELSE h[Pick(s)] + g[s \ {Pick(s)}]]
    BY <2>1
  <2> QED BY <2>2 DEF IsSum
<1>2. (CHOOSE g : IsSum(f, g, S)) = (CHOOSE g : IsSum(h, g, S))
  BY <1>1
<1>3. SumOf(f, S) = (CHOOSE g : IsSum(f, g, S))[S] /\ SumOf(h, S) = (CHOOSE g : IsSum(h, g, S))[S]
  BY DEF SumOf, MapThenSumSet, MapThenFoldSet, IsSum, Pick
<1> QED BY <1>2, <1>3

\* A sum of naturals bounds its terms and the sums over fewer of them.
LEMMA SumIsMonotone ==
    ASSUME NEW f, NEW S, IsFiniteSet(S), \A x \in S : f[x] \in Nat, NEW T \in SUBSET S
    PROVE  SumOf(f, T) \in Nat /\ SumOf(f, T) <= SumOf(f, S)
<1> DEFINE B == {s \in SUBSET S : T \subseteq s /\ ~(SumOf(f, T) <= SumOf(f, s))}
           N == {s \in SUBSET S : SumOf(f, s) \notin Nat}
<1>1. \A s \in SUBSET S : IsFiniteSet(s) /\ SumOf(f, s) \in Int
  BY FS_Subset, SumIsInt
<1>2. \A s \in SUBSET S : \A x \in s : SumOf(f, s) = f[x] + SumOf(f, s \ {x})
  <2> SUFFICES ASSUME NEW s \in SUBSET S, NEW x \in s
               PROVE  SumOf(f, s) = f[x] + SumOf(f, s \ {x})
    OBVIOUS
  <2>1. \A y \in s : f[y] \in Int
    OBVIOUS
  <2> QED BY <1>1, <2>1, SumWithout
<1>3. N = {}
  <2> SUFFICES ASSUME N # {} PROVE FALSE
    OBVIOUS
  <2>1. PICK s \in N : \A u \in N : u \subseteq s => u = s
    <3>1. N \subseteq SUBSET S
      OBVIOUS
    <3> HIDE DEF N
    <3> QED BY <3>1, SmallestMember
  <2>2. PICK x \in s : TRUE
    <3>1. s # {}
      BY SumOfNone
    <3> QED BY <3>1
  <2>3. SumOf(f, s \ {x}) \in Nat
    BY <2>1, <2>2
  <2> QED BY <1>2, <2>1, <2>2, <2>3
<1>4. B = {}
  <2> SUFFICES ASSUME B # {} PROVE FALSE
    OBVIOUS
  <2>1. PICK s \in B : \A u \in B : u \subseteq s => u = s
    <3>1. B \subseteq SUBSET S
      OBVIOUS
    <3> HIDE DEF B
    <3> QED BY <3>1, SmallestMember
  <2>2. s # T
    BY <1>1, <2>1
  <2>3. PICK x \in s \ T : TRUE
    BY <2>1, <2>2
  <2>4. SumOf(f, T) <= SumOf(f, s \ {x})
    BY <2>1, <2>3
  <2>5. SumOf(f, s) = f[x] + SumOf(f, s \ {x})
    BY <1>2, <2>1, <2>3
  <2>6. f[x] \in Nat /\ SumOf(f, s \ {x}) \in Int /\ SumOf(f, T) \in Int
    BY <1>1, <2>1, <2>3
  <2>7. SumOf(f, T) <= SumOf(f, s)
    BY <2>4, <2>5, <2>6
  <2> QED BY <2>1, <2>7
<1> QED BY <1>3, <1>4

\* A sum of zeros is zero.
LEMMA SumOfZeros ==
    ASSUME NEW f, NEW S, IsFiniteSet(S), \A x \in S : f[x] = 0
    PROVE  SumOf(f, S) = 0
<1> DEFINE B == {s \in SUBSET S : SumOf(f, s) # 0}
<1> SUFFICES ASSUME B # {} PROVE FALSE
  OBVIOUS
<1>1. PICK s \in B : \A u \in B : u \subseteq s => u = s
  <2>1. B \subseteq SUBSET S
    OBVIOUS
  <2> HIDE DEF B
  <2> QED BY <2>1, SmallestMember
<1>2. PICK x \in s : TRUE
  <2>1. s # {}
    BY <1>1, SumOfNone
  <2> QED BY <2>1
<1>3. SumOf(f, s \ {x}) = 0
  BY <1>1, <1>2
<1>4. SumOf(f, s) = f[x] + SumOf(f, s \ {x})
  <2>1. IsFiniteSet(s) /\ \A y \in s : f[y] \in Int
    BY <1>1, FS_Subset
  <2> QED BY <2>1, SumWithout
<1>5. f[x] = 0
  BY <1>1
<1> QED BY <1>1, <1>3, <1>4, <1>5

\* Two functions are added term by term.
LEMMA SumOfAdded ==
    ASSUME NEW f, NEW g, NEW h, NEW S, IsFiniteSet(S),
           \A x \in S : f[x] \in Int /\ g[x] \in Int /\ h[x] = f[x] + g[x]
    PROVE  SumOf(h, S) = SumOf(f, S) + SumOf(g, S)
<1> DEFINE B == {s \in SUBSET S : SumOf(h, s) # SumOf(f, s) + SumOf(g, s)}
<1> SUFFICES ASSUME B # {} PROVE FALSE
  OBVIOUS
<1>1. PICK s \in B : \A u \in B : u \subseteq s => u = s
  <2>1. B \subseteq SUBSET S
    OBVIOUS
  <2> HIDE DEF B
  <2> QED BY <2>1, SmallestMember
<1>2. PICK x \in s : TRUE
  <2>1. SumOf(f, {}) = 0 /\ SumOf(g, {}) = 0 /\ SumOf(h, {}) = 0
    BY SumOfNone
  <2>2. {} \notin B
    BY <2>1
  <2>3. s # {}
    <3> HIDE DEF B
    <3> QED BY <1>1, <2>2
  <2> QED BY <2>3
<1>3. SumOf(h, s \ {x}) = SumOf(f, s \ {x}) + SumOf(g, s \ {x})
  BY <1>1, <1>2
<1>4. IsFiniteSet(s) /\ \A y \in s : f[y] \in Int /\ g[y] \in Int /\ h[y] = f[y] + g[y]
  BY <1>1, FS_Subset
<1>5. IsFiniteSet(s \ {x}) /\ \A y \in s : h[y] \in Int
  BY <1>4, FS_Subset
<1>6. /\ SumOf(f, s) = f[x] + SumOf(f, s \ {x})
      /\ SumOf(g, s) = g[x] + SumOf(g, s \ {x})
      /\ SumOf(h, s) = h[x] + SumOf(h, s \ {x})
  BY <1>4, <1>5, SumWithout
<1>7. SumOf(f, s \ {x}) \in Int /\ SumOf(g, s \ {x}) \in Int
  BY <1>4, <1>5, SumIsInt
<1>8. f[x] \in Int /\ g[x] \in Int /\ h[x] = f[x] + g[x]
  BY <1>2, <1>4
<1>9. SumOf(h, s) = SumOf(f, s) + SumOf(g, s)
  BY <1>3, <1>6, <1>7, <1>8
<1> QED BY <1>1, <1>9

\* The sum over two disjoint sets is that of both.
LEMMA SumOfParts ==
    ASSUME NEW f, NEW S, NEW T, IsFiniteSet(S), IsFiniteSet(T), S \cap T = {},
           \A x \in S \cup T : f[x] \in Int
    PROVE  SumOf(f, S \cup T) = SumOf(f, S) + SumOf(f, T)
<1> DEFINE B == {t \in SUBSET T : SumOf(f, S \cup t) # SumOf(f, S) + SumOf(f, t)}
<1> SUFFICES ASSUME B # {} PROVE FALSE
  OBVIOUS
<1>1. PICK t \in B : \A u \in B : u \subseteq t => u = t
  <2>1. B \subseteq SUBSET T
    OBVIOUS
  <2> HIDE DEF B
  <2> QED BY <2>1, SmallestMember
<1>2. SumOf(f, S) \in Int /\ SumOf(f, {}) = 0
  BY SumIsInt, SumOfNone
<1>3. PICK x \in t : TRUE
  <2>1. t # {}
    <3>1. S \cup {} = S
      OBVIOUS
    <3>2. SumOf(f, S \cup {}) = SumOf(f, S) + SumOf(f, {})
      BY <1>2, <3>1
    <3> QED BY <1>1, <3>2
  <2> QED BY <2>1
<1>4. SumOf(f, S \cup (t \ {x})) = SumOf(f, S) + SumOf(f, t \ {x})
  BY <1>1, <1>3
<1>5. IsFiniteSet(t) /\ IsFiniteSet(t \ {x}) /\ IsFiniteSet(S \cup t)
      /\ (\A y \in t : f[y] \in Int) /\ (\A y \in t \ {x} : f[y] \in Int)
      /\ (\A y \in S \cup t : f[y] \in Int)
  <2>1. IsFiniteSet(t) /\ IsFiniteSet(t \ {x})
    BY <1>1, FS_Subset
  <2> QED BY <1>1, <2>1, FS_Union
<1>6. SumOf(f, t) = f[x] + SumOf(f, t \ {x})
  BY <1>3, <1>5, SumWithout
<1>7. SumOf(f, S \cup t) = f[x] + SumOf(f, S \cup (t \ {x}))
  <2>1. (S \cup t) \ {x} = S \cup (t \ {x}) /\ x \in S \cup t
    BY <1>1, <1>3
  <2>2. SumOf(f, S \cup t) = f[x] + SumOf(f, (S \cup t) \ {x})
    BY <1>5, <2>1, SumWithout
  <2> QED BY <2>1, <2>2
<1>8. SumOf(f, t \ {x}) \in Int /\ f[x] \in Int
  BY <1>3, <1>5, SumIsInt
<1>9. SumOf(f, S \cup t) = SumOf(f, S) + SumOf(f, t)
  BY <1>2, <1>4, <1>6, <1>7, <1>8
<1> QED BY <1>1, <1>9

\* The sum over one element, and over two.
LEMMA SumOfFew ==
    ASSUME NEW f, NEW x, NEW y, f[x] \in Int, f[y] \in Int
    PROVE  /\ SumOf(f, {x}) = f[x]
           /\ x # y => SumOf(f, {x, y}) = f[x] + f[y]
<1>1. SumOf(f, {x}) = f[x]
  <2>1. SumOf(f, {} \cup {x}) = SumOf(f, {}) + f[x]
    BY FS_EmptySet, SumWith
  <2>2. {} \cup {x} = {x}
    OBVIOUS
  <2> QED BY <2>1, <2>2, SumOfNone
<1>2. ASSUME x # y PROVE SumOf(f, {x, y}) = f[x] + f[y]
  <2>1. IsFiniteSet({x}) /\ y \notin {x} /\ {x, y} = {x} \cup {y}
    BY <1>2, FS_Singleton
  <2>2. SumOf(f, {x} \cup {y}) = SumOf(f, {x}) + f[y]
    BY <2>1, SumWith
  <2> QED BY <1>1, <2>1, <2>2
<1> QED BY <1>1, <1>2

\* Terms that are grouped add up to the sum over the groups.
LEMMA SumOfGroups ==
    ASSUME NEW f, NEW g, NEW S, NEW T, IsFiniteSet(S), IsFiniteSet(T), NEW h,
           \A x \in S : f[x] \in Int, \A t \in T : g[t] \in Int,
           \A x \in S : h[x] \in T,
           \A t \in T : SumOf(f, {x \in S : h[x] = t}) = g[t]
    PROVE  SumOf(f, S) = SumOf(g, T)
<1> DEFINE In(u) == {x \in S : h[x] \in u}
           B == {u \in SUBSET T : SumOf(f, In(u)) # SumOf(g, u)}
<1> SUFFICES ASSUME B # {} PROVE FALSE
  <2>1. T \notin B => SumOf(f, In(T)) = SumOf(g, T)
    OBVIOUS
  <2>2. In(T) = S
    OBVIOUS
  <2> QED BY <2>1, <2>2
<1>1. PICK u \in B : \A v \in B : v \subseteq u => v = u
  <2>1. B \subseteq SUBSET T
    OBVIOUS
  <2> HIDE DEF B
  <2> QED BY <2>1, SmallestMember
<1>2. PICK t \in u : TRUE
  <2>1. SumOf(f, {}) = 0 /\ SumOf(g, {}) = 0
    BY SumOfNone
  <2>2. In({}) = {}
    OBVIOUS
  <2> QED BY <1>1, <2>1, <2>2
<1>3. SumOf(f, In(u \ {t})) = SumOf(g, u \ {t})
  BY <1>1, <1>2
<1>4. In(u) = In(u \ {t}) \cup {x \in S : h[x] = t} /\ In(u \ {t}) \cap {x \in S : h[x] = t} = {}
  BY <1>1, <1>2
<1>5. IsFiniteSet(In(u \ {t})) /\ IsFiniteSet({x \in S : h[x] = t}) /\ IsFiniteSet(u)
  BY <1>1, FS_Subset
<1>6. SumOf(f, In(u)) = SumOf(f, In(u \ {t})) + SumOf(f, {x \in S : h[x] = t})
  <2> DEFINE P == In(u \ {t})
             Q == {x \in S : h[x] = t}
  <2>1. \A x \in P \cup Q : f[x] \in Int
    OBVIOUS
  <2>2. IsFiniteSet(P) /\ IsFiniteSet(Q) /\ P \cap Q = {} /\ In(u) = P \cup Q
    BY <1>4, <1>5
  <2> HIDE DEF P, Q
  <2>3. SumOf(f, P \cup Q) = SumOf(f, P) + SumOf(f, Q)
    BY <2>1, <2>2, SumOfParts
  <2> QED BY <2>2, <2>3 DEF P, Q
<1>7. SumOf(g, u) = g[t] + SumOf(g, u \ {t})
  <2>1. \A x \in u : g[x] \in Int
    BY <1>1
  <2> QED BY <1>2, <1>5, <2>1, SumWithout
<1>8. SumOf(g, u \ {t}) \in Int /\ g[t] \in Int /\ SumOf(f, {x \in S : h[x] = t}) = g[t]
  <2>1. IsFiniteSet(u \ {t}) /\ (\A x \in u \ {t} : g[x] \in Int) /\ t \in T
    BY <1>1, <1>2, <1>5, FS_Subset
  <2> QED BY <2>1, SumIsInt
<1>9. SumOf(f, In(u)) = SumOf(g, u)
  BY <1>3, <1>6, <1>7, <1>8
<1> QED BY <1>1, <1>9

\* A function that changes at one argument changes the sum by as much.
LEMMA SumUpdated ==
    ASSUME NEW f, NEW g, NEW S, IsFiniteSet(S), NEW x \in S,
           \A y \in S : f[y] \in Int /\ g[y] \in Int, \A y \in S \ {x} : g[y] = f[y]
    PROVE  SumOf(g, S) = SumOf(f, S) + (g[x] - f[x])
<1>1. SumOf(f, S) = f[x] + SumOf(f, S \ {x}) /\ SumOf(g, S) = g[x] + SumOf(g, S \ {x})
  BY SumWithout
<1>2. SumOf(g, S \ {x}) = SumOf(f, S \ {x})
  BY SumOfSame
<1>3. SumOf(f, S \ {x}) \in Int
  <2>1. IsFiniteSet(S \ {x})
    BY FS_Subset
  <2> QED BY <2>1, SumIsInt
<1> QED BY <1>1, <1>2, <1>3

\* A finite set of naturals has a largest one.
LEMMA LargestExists ==
    ASSUME NEW S, IsFiniteSet(S)
    PROVE  S \subseteq Nat /\ S # {} => \E m \in S : \A x \in S : x <= m
<1> DEFINE Topped(s) == \E m \in s : \A x \in s : x <= m
           B == {s \in SUBSET S : s # {} /\ ~Topped(s)}
<1>1. ASSUME B # {}
      PROVE  \E T \in B : \A U \in B : U \subseteq T => U = T
  <2>1. B \subseteq SUBSET S
    OBVIOUS
  <2> HIDE DEF B
  <2> QED BY <1>1, <2>1, SmallestMember
<1>2. ASSUME S \subseteq Nat, NEW s \in SUBSET S, NEW x \in s, s \ {x} = {} \/ Topped(s \ {x})
      PROVE  Topped(s)
  <2>1. s \subseteq Nat /\ x \in Nat
    BY <1>2
  <2>2. CASE s \ {x} = {}
    BY <2>1, <2>2
  <2>3. CASE Topped(s \ {x})
    <3>1. PICK m \in s \ {x} : \A y \in s \ {x} : y <= m
      BY <2>3
    <3>2. CASE x <= m
      BY <2>1, <3>1, <3>2
    <3>3. CASE m < x
      BY <2>1, <3>1, <3>3
    <3> QED BY <2>1, <3>1, <3>2, <3>3
  <2> QED BY <1>2, <2>2, <2>3
<1>3. ASSUME S \subseteq Nat, B # {} PROVE FALSE
  <2>1. PICK s \in B : \A u \in B : u \subseteq s => u = s
    BY <1>1, <1>3
  <2>2. PICK x \in s : TRUE
    BY <2>1
  <2>3. s \ {x} \notin B
    BY <2>1, <2>2
  <2>4. s \ {x} = {} \/ Topped(s \ {x})
    BY <2>1, <2>3
  <2>5. Topped(s)
    BY <1>2, <1>3, <2>1, <2>2, <2>4
  <2> QED BY <2>1, <2>5
<1>4. ASSUME S \subseteq Nat, S # {} PROVE Topped(S)
  <2>1. S \notin B
    BY <1>3, <1>4
  <2> QED BY <1>4, <2>1
<1> QED BY <1>4

\* Smaller terms make a smaller sum.
LEMMA SumOfSmaller ==
    ASSUME NEW f, NEW g, NEW S, IsFiniteSet(S),
           \A x \in S : f[x] \in Int /\ g[x] \in Int /\ f[x] <= g[x]
    PROVE  SumOf(f, S) <= SumOf(g, S)
<1>1. PICK d : d = [x \in S |-> g[x] - f[x]]
  OBVIOUS
<1>2. \A x \in S : d[x] \in Nat /\ g[x] = f[x] + d[x]
  BY <1>1
<1>3. SumOf(g, S) = SumOf(f, S) + SumOf(d, S)
  <2>1. \A x \in S : f[x] \in Int /\ d[x] \in Int /\ g[x] = f[x] + d[x]
    BY <1>2
  <2> QED BY <2>1, SumOfAdded
<1>4. SumOf(d, S) \in Nat
  <2>1. (\A x \in S : d[x] \in Nat) /\ S \in SUBSET S
    BY <1>2
  <2> QED BY <2>1, SumIsMonotone
<1>5. SumOf(f, S) \in Int
  BY SumIsInt
<1> QED BY <1>3, <1>4, <1>5

\* A sum over some elements is one over all in which the others count for nothing.
LEMMA SumOfChosen ==
    ASSUME NEW f, NEW g, NEW S, IsFiniteSet(S), NEW T \in SUBSET S,
           \A x \in T : f[x] \in Int /\ g[x] = f[x], \A x \in S \ T : g[x] = 0
    PROVE  SumOf(f, T) = SumOf(g, S)
<1>1. PICK U : U = S \ T
  OBVIOUS
<1>2. IsFiniteSet(T) /\ IsFiniteSet(U) /\ T \cap U = {} /\ T \cup U = S
  BY <1>1, FS_Subset
<1>3. \A x \in T \cup U : g[x] \in Int
  BY <1>1
<1>4. SumOf(g, T \cup U) = SumOf(g, T) + SumOf(g, U)
  BY <1>2, <1>3, SumOfParts
<1>5. SumOf(g, U) = 0
  BY <1>1, <1>2, SumOfZeros
<1>6. SumOf(g, T) = SumOf(f, T)
  <2>1. \A x \in T : g[x] = f[x]
    OBVIOUS
  <2> QED BY <2>1, SumOfSame
<1>7. SumOf(f, T) \in Int
  BY <1>2, SumIsInt
<1>8. SumOf(g, S) = SumOf(g, T) + SumOf(g, U)
  BY <1>2, <1>4
<1> QED BY <1>5, <1>6, <1>7, <1>8
=============================================================================
