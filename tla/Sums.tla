-------------------------------- MODULE Sums --------------------------------
(***************************************************************************)
(* Sums over finite sets, as the models take them with SumFunctionOnSet    *)
(* and SumFunction, for every finite set and every function.               *)
(*                                                                         *)
(* The induction is over sets: of the subsets of a finite set for which a  *)
(* claim fails one is minimal, and with an element taken off the claim     *)
(* holds.  That a recursive definition has the value it describes is       *)
(* proved here too (AddsExists), since a definition by CHOOSE has no value *)
(* to speak of before something is known to satisfy it.                    *)
(***************************************************************************)
EXTENDS Integers, FiniteSets, FiniteSetsExt, Functions, Folds, FiniteSetTheorems, WellFoundedInduction, TLAPS

\* The element a sum begins with
Chosen(s) == CHOOSE x \in s : TRUE

\* g adds up fun over the subsets of S, one chosen element after the other.
Adds(g, fun, S) ==
    g = [s \in SUBSET S |-> IF s = {} THEN 0 ELSE fun[Chosen(s)] + g[s \ {Chosen(s)}]]

\* SumFunctionOnSet is what the recursion gives for the whole set.
LEMMA SumIsAdded ==
    ASSUME NEW fun, NEW S
    PROVE  SumFunctionOnSet(fun, S) = (CHOOSE g : Adds(g, fun, S))[S]
BY Zenon DEF SumFunctionOnSet, FoldFunctionOnSet, MapThenFoldSet, Adds, Chosen

\* A set of subsets of a finite set has a member no other is below.
LEMMA MinimalSubset ==
    ASSUME NEW S, IsFiniteSet(S), NEW F \in SUBSET (SUBSET S), F # {}
    PROVE  \E T \in F : \A U \in F : U \subseteq T => U = T
<1>1. IsWellFoundedOn(StrictSubsetOrdering(S), SUBSET S)
  BY FS_StrictSubsetOrderingWellFounded, FS_FiniteSubsetsOfFinite
<1>2. \E T \in F : \A U \in F : ~ (<<U, T>> \in StrictSubsetOrdering(S))
  BY <1>1, WFMin
<1> QED BY <1>2 DEF StrictSubsetOrdering

\* The same, of the subsets of S for which a claim fails
Fails(F, S) == IsFiniteSet(S) /\ F \in SUBSET (SUBSET S) /\ F # {}
Least(F) == \E T \in F : \A U \in F : U \subseteq T => U = T

LEMMA LeastFailure ==
    ASSUME NEW F, NEW S, Fails(F, S)
    PROVE  Least(F)
BY MinimalSubset DEF Fails, Least

\* Two functions that agree on a finite set add up to the same over it.
LEMMA AddsAgree ==
    ASSUME NEW fun, NEW gun, NEW S, NEW T, NEW g, NEW h, Adds(g, fun, S), Adds(h, gun, T),
           NEW s, s \subseteq S, s \subseteq T, IsFiniteSet(s),
           \A x \in s : fun[x] = gun[x]
    PROVE  g[s] = h[s]
<1> DEFINE F == {u \in SUBSET s : g[u] # h[u]}
<1> SUFFICES ASSUME F # {} PROVE FALSE
  OBVIOUS
<1>0. \E u \in F : \A v \in F : v \subseteq u => v = u
  <2>1. F \in SUBSET (SUBSET s)
    OBVIOUS
  <2> HIDE DEF F
  <2> QED BY <2>1, MinimalSubset
<1>1. PICK u \in F : \A v \in F : v \subseteq u => v = u
  BY <1>0
<1>2. u \in SUBSET S /\ u \in SUBSET T /\ u \subseteq s /\ g[u] # h[u]
  BY <1>1
<1>3. CASE u = {}
  <2>1. g[u] = 0 /\ h[u] = 0
    BY <1>2, <1>3, Zenon DEF Adds
  <2> QED BY <2>1, <1>2
<1>4. CASE u # {}
  <2> DEFINE v == u \ {Chosen(u)}
  <2>1. Chosen(u) \in u
    BY <1>4, Zenon DEF Chosen
  <2>2. g[u] = fun[Chosen(u)] + g[v] /\ h[u] = gun[Chosen(u)] + h[v]
    BY <1>2, <1>4, Zenon DEF Adds
  <2>3. v \subseteq u /\ v # u
    BY <2>1
  <2>4. v \notin F
    BY <1>1, <2>3
  <2>5. g[v] = h[v] /\ fun[Chosen(u)] = gun[Chosen(u)]
    BY <2>1, <2>3, <2>4, <1>2
  <2> QED BY <2>2, <2>5, <1>2
<1> QED BY <1>3, <1>4

\* The recursion of SumFunctionOnSet has a solution on a finite set.
LEMMA AddsExists ==
    ASSUME NEW fun, NEW S, IsFiniteSet(S)
    PROVE  \E g : Adds(g, fun, S)
<1> DEFINE F == {T \in SUBSET S : ~\E g : Adds(g, fun, T)}
<1> SUFFICES ASSUME F # {} PROVE FALSE
  OBVIOUS
<1>0. \E T \in F : \A U \in F : U \subseteq T => U = T
  <2>1. F \in SUBSET (SUBSET S)
    OBVIOUS
  <2> HIDE DEF F
  <2> QED BY <2>1, MinimalSubset
<1>1. PICK T \in F : \A U \in F : U \subseteq T => U = T
  BY <1>0
<1>2. \A U \in SUBSET T : U # T => \E g : Adds(g, fun, U)
  BY <1>1
<1>3. \A U \in SUBSET T : U # T => Adds(CHOOSE g : Adds(g, fun, U), fun, U)
  BY <1>2, Zenon
<1> DEFINE Part(U) == CHOOSE g : Adds(g, fun, U)
           g0 == [s \in SUBSET T |-> IF s # T THEN Part(s)[s]
                    ELSE IF s = {} THEN 0 ELSE fun[Chosen(s)] + Part(s \ {Chosen(s)})[s \ {Chosen(s)}]]
<1>4. \A U \in SUBSET T : U # T => Adds(Part(U), fun, U)
  BY <1>3, Zenon
<1> HIDE DEF Part
<1>5. \A U \in SUBSET T : U # {} => Chosen(U) \in U
  BY Zenon DEF Chosen
<1>6. ASSUME NEW s \in SUBSET T
      PROVE  g0[s] = IF s = {} THEN 0 ELSE fun[Chosen(s)] + g0[s \ {Chosen(s)}]
  <2> DEFINE v == s \ {Chosen(s)}
  <2>1. v \in SUBSET T /\ v \in SUBSET s /\ (s # {} => v # T)
    BY <1>5
  <2>2. s # {} => g0[v] = Part(v)[v]
    BY <2>1
  <2>3. CASE s = T
    BY <2>3, <2>2
  <2>4. CASE s # T
    <3>1. g0[s] = Part(s)[s]
      BY <2>4
    <3>2. Adds(Part(s), fun, s)
      BY <1>4, <2>4
    <3>3. s \in SUBSET s
      OBVIOUS
    <3>4. Part(s)[s] = IF s = {} THEN 0 ELSE fun[Chosen(s)] + Part(s)[v]
      BY <3>2, <3>3, Zenon DEF Adds
    <3>5. s # {} => Part(s)[v] = Part(v)[v]
      <4> SUFFICES ASSUME s # {} PROVE Part(s)[v] = Part(v)[v]
        OBVIOUS
      <4>1. Adds(Part(v), fun, v)
        BY <1>4, <2>1
      <4>2. IsFiniteSet(v)
        BY <2>1, FS_Subset
      <4> HIDE DEF v
      <4> QED BY <3>2, <4>1, <4>2, <2>1, AddsAgree
    <3> QED BY <3>1, <3>4, <3>5, <2>2
  <2> QED BY <2>3, <2>4
<1>7. Adds(g0, fun, T)
  <2>1. g0 = [s \in SUBSET T |-> g0[s]]
    BY Zenon
  <2> HIDE DEF g0
  <2>2. \A s \in SUBSET T : g0[s] = IF s = {} THEN 0 ELSE fun[Chosen(s)] + g0[s \ {Chosen(s)}]
    BY <1>6
  <2> QED BY <2>1, <2>2, Zenon DEF Adds
<1>8. \E g : Adds(g, fun, T)
  BY <1>7
<1> QED BY <1>8, <1>1

\* A sum over a finite set is the value of a solution.
LEMMA SumAdds ==
    ASSUME NEW fun, NEW S, IsFiniteSet(S)
    PROVE  \E g : Adds(g, fun, S) /\ SumFunctionOnSet(fun, S) = g[S]
<1>1. Adds(CHOOSE g : Adds(g, fun, S), fun, S)
  BY AddsExists, Zenon
<1> QED BY <1>1, SumIsAdded, Zenon

\* The sum over nothing is 0.
LEMMA SumEmpty ==
    ASSUME NEW fun
    PROVE  SumFunctionOnSet(fun, {}) = 0
<1>1. PICK g : Adds(g, fun, {}) /\ SumFunctionOnSet(fun, {}) = g[{}]
  BY SumAdds, FS_EmptySet
<1>2. {} \in SUBSET {}
  OBVIOUS
<1>3. g[{}] = 0
  BY <1>1, <1>2, Zenon DEF Adds
<1> QED BY <1>1, <1>3

\* A sum begins with its chosen element.
LEMMA SumChosen ==
    ASSUME NEW fun, NEW S, IsFiniteSet(S), S # {}
    PROVE  SumFunctionOnSet(fun, S) = fun[Chosen(S)] + SumFunctionOnSet(fun, S \ {Chosen(S)})
<1> DEFINE v == S \ {Chosen(S)}
<1>1. PICK g : Adds(g, fun, S) /\ SumFunctionOnSet(fun, S) = g[S]
  BY SumAdds
<1>2. IsFiniteSet(v)
  BY FS_RemoveElement
<1>3. PICK h : Adds(h, fun, v) /\ SumFunctionOnSet(fun, v) = h[v]
  BY <1>2, SumAdds
<1>4. S \in SUBSET S
  OBVIOUS
<1>5. g[S] = fun[Chosen(S)] + g[v]
  BY <1>1, <1>4, Zenon DEF Adds
<1>6. v \subseteq S
  OBVIOUS
<1> HIDE DEF v
<1>7. g[v] = h[v]
  BY <1>1, <1>2, <1>3, <1>6, AddsAgree
<1>8. SumFunctionOnSet(fun, S) = fun[Chosen(S)] + SumFunctionOnSet(fun, v)
  BY <1>1, <1>3, <1>5, <1>7
<1> QED BY <1>8 DEF v

\* A sum depends on the values over its set only.
LEMMA SumSame ==
    ASSUME NEW fun, NEW gun, NEW S, IsFiniteSet(S), \A x \in S : fun[x] = gun[x]
    PROVE  SumFunctionOnSet(fun, S) = SumFunctionOnSet(gun, S)
<1>1. PICK g : Adds(g, fun, S) /\ SumFunctionOnSet(fun, S) = g[S]
  BY SumAdds
<1>2. PICK h : Adds(h, gun, S) /\ SumFunctionOnSet(gun, S) = h[S]
  BY SumAdds
<1>3. g[S] = h[S]
  BY <1>1, <1>2, AddsAgree
<1> QED BY <1>1, <1>2, <1>3

\* A sum of integers is an integer.
LEMMA SumInt ==
    ASSUME NEW S, IsFiniteSet(S), NEW fun, \A x \in S : fun[x] \in Int
    PROVE  SumFunctionOnSet(fun, S) \in Int
<1> DEFINE F == {T \in SUBSET S : SumFunctionOnSet(fun, T) \notin Int}
<1> SUFFICES ASSUME F # {} PROVE FALSE
  OBVIOUS
<1>0. \E T \in F : \A U \in F : U \subseteq T => U = T
  <2>1. F \in SUBSET (SUBSET S)
    OBVIOUS
  <2> HIDE DEF F
  <2> QED BY <2>1, MinimalSubset
<1>1. PICK T \in F : \A U \in F : U \subseteq T => U = T
  BY <1>0
<1>2. IsFiniteSet(T)
  BY FS_Subset
<1>3. T # {}
  <2> SUFFICES ASSUME T = {} PROVE FALSE
    OBVIOUS
  <2>1. SumFunctionOnSet(fun, T) = 0
    BY SumEmpty
  <2> QED BY <1>1, <2>1
<1>4. Chosen(T) \in T
  BY <1>3, Zenon DEF Chosen
<1>5. SumFunctionOnSet(fun, T \ {Chosen(T)}) \in Int
  BY <1>1, <1>4
<1>6. SumFunctionOnSet(fun, T) = fun[Chosen(T)] + SumFunctionOnSet(fun, T \ {Chosen(T)})
  BY <1>2, <1>3, SumChosen
<1>7. fun[Chosen(T)] \in Int
  BY <1>4
<1> HIDE DEF F
<1>8. SumFunctionOnSet(fun, T) \in Int
  BY <1>5, <1>6, <1>7
<1> QED BY <1>1, <1>8 DEF F

\* Any element may be taken off first.
LEMMA SumRemove ==
    ASSUME NEW S, IsFiniteSet(S), NEW fun, \A x \in S : fun[x] \in Int, NEW a \in S
    PROVE  SumFunctionOnSet(fun, S) = fun[a] + SumFunctionOnSet(fun, S \ {a})
<1> DEFINE Off(T, x) == SumFunctionOnSet(fun, T) = fun[x] + SumFunctionOnSet(fun, T \ {x})
           F == {T \in SUBSET S : \E x \in T : ~Off(T, x)}
<1> SUFFICES ASSUME F # {} PROVE FALSE
  OBVIOUS
<1>0. \E T \in F : \A U \in F : U \subseteq T => U = T
  <2>1. F \in SUBSET (SUBSET S)
    OBVIOUS
  <2> HIDE DEF F
  <2> QED BY <2>1, MinimalSubset
<1>1. PICK T \in F : \A U \in F : U \subseteq T => U = T
  BY <1>0
<1>2. PICK x \in T : ~Off(T, x)
  BY <1>1
<1> DEFINE c == Chosen(T)
<1>3. c \in T
  BY <1>2, Zenon DEF Chosen
<1>4. \A U \in SUBSET S : IsFiniteSet(U) /\ SumFunctionOnSet(fun, U) \in Int
  <2> TAKE U \in SUBSET S
  <2>1. IsFiniteSet(U)
    BY FS_Subset
  <2>2. \A y \in U : fun[y] \in Int
    OBVIOUS
  <2> QED BY <2>1, <2>2, SumInt
<1>5. Off(T, c)
  BY <1>1, <1>3, <1>4, SumChosen
<1>6. x # c
  BY <1>2, <1>5
<1> HIDE DEF c
<1> DEFINE Tx == T \ {x}
           Tc == T \ {c}
           Txc == T \ {x, c}
<1>7. Tx \notin F /\ Tc \notin F /\ Tx \in SUBSET S /\ Tc \in SUBSET S
  BY <1>1, <1>2, <1>3
<1>8. Off(Tx, c) /\ Off(Tc, x)
  BY <1>2, <1>3, <1>6, <1>7
<1>9. Tx \ {c} = Txc /\ Tc \ {x} = Txc
  OBVIOUS
<1>10. /\ SumFunctionOnSet(fun, Tx) = fun[c] + SumFunctionOnSet(fun, Txc)
       /\ SumFunctionOnSet(fun, Tc) = fun[x] + SumFunctionOnSet(fun, Txc)
       /\ SumFunctionOnSet(fun, T) = fun[c] + SumFunctionOnSet(fun, Tc)
  BY <1>5, <1>8, <1>9
<1>11. fun[x] \in Int /\ fun[c] \in Int /\ SumFunctionOnSet(fun, Txc) \in Int
  BY <1>1, <1>2, <1>3, <1>4
<1>12. SumFunctionOnSet(fun, T) = fun[x] + SumFunctionOnSet(fun, Tx)
  <2> HIDE DEF Tx, Tc, Txc
  <2> QED BY <1>10, <1>11
<1> QED BY <1>2, <1>12

\* A sum of naturals is a natural, and no less than any of them.
LEMMA SumNat ==
    ASSUME NEW S, IsFiniteSet(S), NEW fun, \A x \in S : fun[x] \in Nat
    PROVE  /\ SumFunctionOnSet(fun, S) \in Nat
           /\ \A a \in S : fun[a] <= SumFunctionOnSet(fun, S)
<1>1. \A T \in SUBSET S : IsFiniteSet(T) /\ SumFunctionOnSet(fun, T) \in Int
  <2> TAKE T \in SUBSET S
  <2>1. IsFiniteSet(T) /\ \A x \in T : fun[x] \in Int
    BY FS_Subset
  <2> QED BY <2>1, SumInt
<1>2. \A T \in SUBSET S : \A a \in T :
        SumFunctionOnSet(fun, T) = fun[a] + SumFunctionOnSet(fun, T \ {a})
  <2> TAKE T \in SUBSET S
  <2> TAKE a \in T
  <2>1. IsFiniteSet(T) /\ \A x \in T : fun[x] \in Int
    BY <1>1
  <2> QED BY <2>1, SumRemove
<1>3. \A T \in SUBSET S : SumFunctionOnSet(fun, T) \in Nat
  <2> DEFINE F == {T \in SUBSET S : SumFunctionOnSet(fun, T) \notin Nat}
  <2> SUFFICES ASSUME F # {} PROVE FALSE
    OBVIOUS
  <2>1. \E T \in F : \A U \in F : U \subseteq T => U = T
    <3>1. F \in SUBSET (SUBSET S)
      OBVIOUS
    <3> HIDE DEF F
    <3> QED BY <3>1, MinimalSubset
  <2>2. PICK T \in F : \A U \in F : U \subseteq T => U = T
    BY <2>1
  <2>3. CASE T = {}
    <3>1. SumFunctionOnSet(fun, T) = 0
      BY <2>3, SumEmpty
    <3> QED BY <2>2, <3>1
  <2>4. CASE T # {}
    <3>1. PICK a \in T : TRUE
      BY <2>4
    <3>2. SumFunctionOnSet(fun, T \ {a}) \in Nat
      BY <2>2, <3>1
    <3>3. SumFunctionOnSet(fun, T) = fun[a] + SumFunctionOnSet(fun, T \ {a}) /\ fun[a] \in Nat
      BY <1>2, <2>2, <3>1
    <3> HIDE DEF F
    <3>4. SumFunctionOnSet(fun, T) \in Nat
      BY <3>2, <3>3
    <3> QED BY <2>2, <3>4 DEF F
  <2> QED BY <2>3, <2>4
<1>4. ASSUME NEW a \in S PROVE fun[a] <= SumFunctionOnSet(fun, S)
  <2>1. /\ SumFunctionOnSet(fun, S) = fun[a] + SumFunctionOnSet(fun, S \ {a})
        /\ S \ {a} \in SUBSET S /\ fun[a] \in Nat
    BY <1>2
  <2>2. SumFunctionOnSet(fun, S \ {a}) \in Nat
    BY <1>3
  <2> QED BY <2>1, <2>2
<1> QED BY <1>3, <1>4

\* A sum of zeroes is 0.
LEMMA SumZero ==
    ASSUME NEW S, IsFiniteSet(S), NEW fun, \A x \in S : fun[x] = 0
    PROVE  SumFunctionOnSet(fun, S) = 0
<1> DEFINE F == {T \in SUBSET S : SumFunctionOnSet(fun, T) # 0}
<1> SUFFICES ASSUME F # {} PROVE FALSE
  OBVIOUS
<1>0. \E T \in F : \A U \in F : U \subseteq T => U = T
  <2>1. F \in SUBSET (SUBSET S)
    OBVIOUS
  <2> HIDE DEF F
  <2> QED BY <2>1, MinimalSubset
<1>1. PICK T \in F : \A U \in F : U \subseteq T => U = T
  BY <1>0
<1>2. CASE T = {}
  <2>1. SumFunctionOnSet(fun, T) = 0
    BY <1>2, SumEmpty
  <2> QED BY <1>1, <2>1
<1>3. CASE T # {}
  <2>1. PICK a \in T : TRUE
    BY <1>3
  <2>2. SumFunctionOnSet(fun, T \ {a}) = 0
    BY <1>1, <2>1
  <2>3. IsFiniteSet(T) /\ \A x \in T : fun[x] \in Int /\ fun[x] = 0
    BY FS_Subset
  <2>4. SumFunctionOnSet(fun, T) = fun[a] + SumFunctionOnSet(fun, T \ {a})
    BY <2>1, <2>3, SumRemove
  <2> HIDE DEF F
  <2>5. SumFunctionOnSet(fun, T) = 0
    BY <2>2, <2>3, <2>4
  <2> QED BY <1>1, <2>5 DEF F
<1> QED BY <1>2, <1>3

\* The sum of two functions is the sum of their sums.
LEMMA SumPlus ==
    ASSUME NEW S, IsFiniteSet(S), NEW f, NEW g, NEW h,
           \A x \in S : f[x] \in Int /\ g[x] \in Int /\ h[x] = f[x] + g[x]
    PROVE  SumFunctionOnSet(h, S) = SumFunctionOnSet(f, S) + SumFunctionOnSet(g, S)
<1> DEFINE F == {T \in SUBSET S :
                   SumFunctionOnSet(h, T) # SumFunctionOnSet(f, T) + SumFunctionOnSet(g, T)}
<1> SUFFICES ASSUME F # {} PROVE FALSE
  OBVIOUS
<1>1. \E T \in F : \A U \in F : U \subseteq T => U = T
  <2>1. Fails(F, S)
    BY DEF Fails
  <2> HIDE DEF F
  <2>2. Least(F)
    BY <2>1, LeastFailure
  <2> QED BY <2>2 DEF Least
<1>2. PICK T \in F : \A U \in F : U \subseteq T => U = T
  BY <1>1
<1>3. /\ T \in SUBSET S
      /\ SumFunctionOnSet(h, T) # SumFunctionOnSet(f, T) + SumFunctionOnSet(g, T)
  BY <1>2
<1>4. T # {}
  <2>1. /\ SumFunctionOnSet(f, {}) = 0 /\ SumFunctionOnSet(g, {}) = 0
        /\ SumFunctionOnSet(h, {}) = 0
    BY SumEmpty
  <2> HIDE DEF F
  <2> QED BY <1>3, <2>1
<1>5. PICK a \in T : TRUE
  BY <1>4
<1> DEFINE U == T \ {a}
<1>6. U \in SUBSET S /\ U \notin F
  BY <1>2, <1>3, <1>5
<1>7. SumFunctionOnSet(h, U) = SumFunctionOnSet(f, U) + SumFunctionOnSet(g, U)
  BY <1>6
<1> HIDE DEF F
<1>8. IsFiniteSet(T) /\ IsFiniteSet(U)
  BY <1>3, FS_Subset
<1>9. /\ \A x \in T : f[x] \in Int
      /\ \A x \in T : g[x] \in Int
      /\ \A x \in T : h[x] \in Int
      /\ h[a] = f[a] + g[a]
  BY <1>3, <1>5
<1>10. /\ SumFunctionOnSet(f, T) = f[a] + SumFunctionOnSet(f, U)
       /\ SumFunctionOnSet(g, T) = g[a] + SumFunctionOnSet(g, U)
       /\ SumFunctionOnSet(h, T) = h[a] + SumFunctionOnSet(h, U)
  BY <1>5, <1>8, <1>9, SumRemove
<1>11. SumFunctionOnSet(f, U) \in Int /\ SumFunctionOnSet(g, U) \in Int
  BY <1>8, <1>9, SumInt
<1>12. f[a] \in Int /\ g[a] \in Int
  BY <1>5, <1>9
<1> HIDE DEF U
<1> QED BY <1>3, <1>7, <1>9, <1>10, <1>11, <1>12

\* f counts the members of the finite set S, T is a part of S.
CountsPart(f, S, T) == IsFiniteSet(S) /\ T \subseteq S /\ \A x \in S : f[x] \in Nat

\* Who is left out of a part counts for what the part lacks.
LEMMA SumOfPart ==
    ASSUME NEW S, NEW T, NEW f, CountsPart(f, S, T)
    PROVE  SumFunctionOnSet(f, T) <= SumFunctionOnSet(f, S)
<1> USE DEF CountsPart
<1> DEFINE F == {U \in SUBSET S : T \subseteq U /\ SumFunctionOnSet(f, U) < SumFunctionOnSet(f, T)}
<1>0. /\ SumFunctionOnSet(f, T) \in Int /\ SumFunctionOnSet(f, S) \in Int
  <2>1. IsFiniteSet(T) /\ (\A x \in S : f[x] \in Int) /\ \A x \in T : f[x] \in Int
    BY FS_Subset
  <2> QED BY <2>1, SumInt
<1> SUFFICES ASSUME F # {} PROVE FALSE
  BY <1>0
<1>1. \E U \in F : \A V \in F : V \subseteq U => V = U
  <2>1. Fails(F, S)
    BY DEF Fails
  <2> HIDE DEF F
  <2>2. Least(F)
    BY <2>1, LeastFailure
  <2> QED BY <2>2 DEF Least
<1>2. PICK U \in F : \A V \in F : V \subseteq U => V = U
  BY <1>1
<1>3. U \in SUBSET S /\ T \subseteq U /\ SumFunctionOnSet(f, U) < SumFunctionOnSet(f, T)
  BY <1>2
<1>4. U # T
  BY <1>0, <1>3
<1>5. PICK b \in U \ T : TRUE
  BY <1>3, <1>4
<1> DEFINE V == U \ {b}
<1>6. V \in SUBSET S /\ T \subseteq V /\ V \notin F
  BY <1>2, <1>3, <1>5
<1>7. ~ (SumFunctionOnSet(f, V) < SumFunctionOnSet(f, T))
  BY <1>6
<1> HIDE DEF F
<1>8. /\ IsFiniteSet(U) /\ IsFiniteSet(V)
      /\ (\A x \in U : f[x] \in Int) /\ (\A x \in V : f[x] \in Int) /\ f[b] \in Nat
  BY <1>3, <1>5, <1>6, FS_Subset
<1>9. SumFunctionOnSet(f, U) = f[b] + SumFunctionOnSet(f, V) /\ SumFunctionOnSet(f, V) \in Int
  BY <1>5, <1>8, SumRemove, SumInt
<1> HIDE DEF V
<1> QED BY <1>0, <1>3, <1>7, <1>8, <1>9

\* A part that counts for the whole leaves nothing to the others.
LEMMA NothingLeftOut ==
    ASSUME NEW S, NEW T, NEW f, CountsPart(f, S, T),
           SumFunctionOnSet(f, T) = SumFunctionOnSet(f, S)
    PROVE  \A a \in S \ T : f[a] = 0
<1> TAKE a \in S \ T
<1> DEFINE U == T \cup {a}
<1>1. /\ IsFiniteSet(S) /\ IsFiniteSet(U) /\ IsFiniteSet(T) /\ U \subseteq S
      /\ (\A x \in U : f[x] \in Int) /\ (\A x \in T : f[x] \in Int) /\ f[a] \in Nat
      /\ a \in U /\ U \ {a} = T
  BY FS_Subset DEF CountsPart
<1>2. CountsPart(f, S, U)
  BY <1>1 DEF CountsPart
<1> HIDE DEF U
<1>3. SumFunctionOnSet(f, U) = f[a] + SumFunctionOnSet(f, T)
  BY <1>1, SumRemove
<1>4. SumFunctionOnSet(f, U) <= SumFunctionOnSet(f, S)
  BY <1>2, SumOfPart
<1>5. SumFunctionOnSet(f, T) \in Int
  BY <1>1, SumInt
<1> QED BY <1>1, <1>3, <1>4, <1>5

\* f and g give integers to the members of the finite set S, the same but to a.
ChangedAt(f, g, S, a) ==
    /\ IsFiniteSet(S)
    /\ a \in S
    /\ \A x \in S : f[x] \in Int /\ g[x] \in Int
    /\ \A x \in S \ {a} : g[x] = f[x]

\* A change of one element changes the sum by as much.
LEMMA SumChange ==
    ASSUME NEW S, NEW fun, NEW gun, NEW a, ChangedAt(fun, gun, S, a)
    PROVE  SumFunctionOnSet(gun, S) = SumFunctionOnSet(fun, S) - fun[a] + gun[a]
<1>0. /\ IsFiniteSet(S) /\ a \in S
      /\ \A x \in S : fun[x] \in Int /\ gun[x] \in Int
      /\ \A x \in S \ {a} : gun[x] = fun[x]
  BY DEF ChangedAt
<1>1. IsFiniteSet(S \ {a})
  BY <1>0, FS_RemoveElement
<1>2. SumFunctionOnSet(gun, S \ {a}) = SumFunctionOnSet(fun, S \ {a})
  BY <1>0, <1>1, SumSame
<1>3. SumFunctionOnSet(fun, S \ {a}) \in Int
  BY <1>0, <1>1, SumInt
<1>4. /\ SumFunctionOnSet(fun, S) = fun[a] + SumFunctionOnSet(fun, S \ {a})
      /\ SumFunctionOnSet(gun, S) = gun[a] + SumFunctionOnSet(gun, S \ {a})
  BY <1>0, SumRemove
<1> QED BY <1>0, <1>2, <1>3, <1>4

\* f and g are tables of integers over the finite set S, the same but for their entries at a.
SameBut(f, g, S, a) ==
    /\ IsFiniteSet(S)
    /\ f \in [S -> Int]
    /\ g \in [S -> Int]
    /\ a \in S
    /\ \A x \in S \ {a} : g[x] = f[x]

\* A table that changes at one entry: its sum changes by as much.
LEMMA SumUp ==
    ASSUME NEW S, NEW f, NEW g, NEW a, SameBut(f, g, S, a)
    PROVE  /\ SumFunction(g) = SumFunction(f) + (g[a] - f[a])
           /\ SumFunction(f) \in Int
<1>0. IsFiniteSet(S) /\ f \in [S -> Int] /\ g \in [S -> Int] /\ a \in S /\ \A x \in S \ {a} : g[x] = f[x]
  BY DEF SameBut
<1>1. DOMAIN f = S /\ DOMAIN g = S
  BY <1>0
<1>2. \A x \in S : f[x] \in Int /\ g[x] \in Int
  BY <1>0
<1>3. SumFunctionOnSet(g, S) = SumFunctionOnSet(f, S) - f[a] + g[a]
  <2>1. ChangedAt(f, g, S, a)
    BY <1>0, <1>2 DEF ChangedAt
  <2> QED BY <2>1, SumChange
<1>4. SumFunctionOnSet(f, S) \in Int /\ f[a] \in Int /\ g[a] \in Int
  BY <1>0, <1>2, SumInt
<1>5. SumFunction(g) = SumFunctionOnSet(g, S) /\ SumFunction(f) = SumFunctionOnSet(f, S)
  BY <1>1, Zenon DEF SumFunction
<1> QED BY <1>3, <1>4, <1>5

-----------------------------------------------------------------------------
(* Sums over the positions of a sequence, which FoldLeft takes from the     *)
(* last to the first                                                        *)

\* A finite set of integers has its maximum.
LEMMA MaxOfSet ==
    ASSUME NEW S, S \subseteq Int, IsFiniteSet(S), S # {}
    PROVE  Max(S) \in S /\ \A x \in S : x <= Max(S)
<1> DEFINE Top(T) == \E x \in T : \A y \in T : x >= y
           F == {T \in SUBSET S : T # {} /\ ~Top(T)}
<1>1. Top(S)
  <2> SUFFICES ASSUME F # {} PROVE FALSE
    OBVIOUS
  <2>1. \E T \in F : \A U \in F : U \subseteq T => U = T
    <3>1. Fails(F, S)
      BY DEF Fails
    <3> HIDE DEF F
    <3>2. Least(F)
      BY <3>1, LeastFailure
    <3> QED BY <3>2 DEF Least
  <2>2. PICK T \in F : \A U \in F : U \subseteq T => U = T
    BY <2>1
  <2>3. PICK a \in T : TRUE
    BY <2>2
  <2> DEFINE U == T \ {a}
  <2>4. U \notin F /\ U \in SUBSET S /\ T \in SUBSET S /\ ~Top(T)
    BY <2>2, <2>3
  <2>5. CASE U = {}
    <3>1. \A y \in T : a >= y
      BY <2>3, <2>4, <2>5
    <3> QED BY <2>3, <2>4, <3>1
  <2>6. CASE U # {}
    <3>1. Top(U)
      BY <2>4, <2>6
    <3>2. PICK x \in U : \A y \in U : x >= y
      BY <3>1
    <3>3. a \in Int /\ x \in Int
      BY <2>3, <2>4
    <3>4. CASE a >= x
      <4>1. \A y \in T : a >= y
        BY <2>3, <2>4, <3>2, <3>3, <3>4
      <4> QED BY <2>3, <2>4, <4>1
    <3>5. CASE x >= a
      <4>1. x \in T /\ \A y \in T : x >= y
        BY <2>3, <2>4, <3>2, <3>3, <3>5
      <4> QED BY <2>4, <4>1
    <3> QED BY <3>3, <3>4, <3>5
  <2> QED BY <2>5, <2>6
<1>2. \E x \in S : \A y \in S : x >= y
  BY <1>1
<1>3. Max(S) \in S /\ \A y \in S : Max(S) >= y
  BY <1>2, Zenon DEF Max
<1> QED BY <1>3

\* The partial sums of the positions, the last one on top
LEMMA LastOnTop ==
    ASSUME NEW S, S \subseteq Int, IsFiniteSet(S), NEW fun, \A x \in S : fun[x] \in Int,
           NEW s \in SUBSET S
    PROVE  /\ SumFunctionOnSet(fun, s) \in Int
           /\ s = {} => SumFunctionOnSet(fun, s) = 0
           /\ s # {} => /\ Max(s) \in s
                        /\ SumFunctionOnSet(fun, s) = SumFunctionOnSet(fun, s \ {Max(s)}) + fun[Max(s)]
                        /\ SumFunctionOnSet(fun, s \ {Max(s)}) \in Int
<1>1. IsFiniteSet(s) /\ s \subseteq Int /\ \A x \in s : fun[x] \in Int
  BY FS_Subset
<1>2. SumFunctionOnSet(fun, s) \in Int
  BY <1>1, SumInt
<1>3. s = {} => SumFunctionOnSet(fun, s) = 0
  BY SumEmpty
<1>4. ASSUME s # {}
      PROVE  /\ Max(s) \in s
             /\ SumFunctionOnSet(fun, s) = SumFunctionOnSet(fun, s \ {Max(s)}) + fun[Max(s)]
             /\ SumFunctionOnSet(fun, s \ {Max(s)}) \in Int
  <2>1. Max(s) \in s
    BY <1>1, <1>4, MaxOfSet
  <2> DEFINE m == Max(s)
  <2> HIDE DEF m
  <2>2. m \in s
    BY <2>1 DEF m
  <2>3. SumFunctionOnSet(fun, s) = fun[m] + SumFunctionOnSet(fun, s \ {m})
    BY <1>1, <2>2, SumRemove
  <2>4. IsFiniteSet(s \ {m}) /\ \A x \in s \ {m} : fun[x] \in Int
    BY <1>1, FS_RemoveElement
  <2>5. SumFunctionOnSet(fun, s \ {m}) \in Int
    BY <2>4, SumInt
  <2>6. fun[m] \in Int
    BY <1>1, <2>2
  <2>7. SumFunctionOnSet(fun, s) = SumFunctionOnSet(fun, s \ {m}) + fun[m]
    BY <2>3, <2>5, <2>6
  <2> QED BY <2>2, <2>5, <2>7 DEF m
<1> QED BY <1>2, <1>3, <1>4

\* A fold that adds the last element to the fold of the others comes to the sum.
LEMMA FoldIsSum ==
    ASSUME NEW S, S \subseteq Int, IsFiniteSet(S), NEW fun, \A x \in S : fun[x] \in Int,
           NEW g, g[{}] = 0,
           \A s \in SUBSET S : s # {} /\ g[s \ {Max(s)}] \in Int
                                => g[s] = g[s \ {Max(s)}] + fun[Max(s)]
    PROVE  g[S] = SumFunctionOnSet(fun, S)
<1> DEFINE F == {T \in SUBSET S : g[T] # SumFunctionOnSet(fun, T)}
<1> SUFFICES ASSUME F # {} PROVE FALSE
  OBVIOUS
<1>1. \E T \in F : \A U \in F : U \subseteq T => U = T
  <2>1. Fails(F, S)
    BY DEF Fails
  <2> HIDE DEF F
  <2>2. Least(F)
    BY <2>1, LeastFailure
  <2> QED BY <2>2 DEF Least
<1>2. PICK T \in F : \A U \in F : U \subseteq T => U = T
  BY <1>1
<1>3. T \in SUBSET S /\ g[T] # SumFunctionOnSet(fun, T)
  BY <1>2
<1>4. CASE T = {}
  BY <1>3, <1>4, SumEmpty
<1>5. CASE T # {}
  <2> DEFINE U == T \ {Max(T)}
  <2>1. /\ Max(T) \in T
        /\ SumFunctionOnSet(fun, T) = SumFunctionOnSet(fun, U) + fun[Max(T)]
        /\ SumFunctionOnSet(fun, U) \in Int
    BY <1>3, <1>5, LastOnTop
  <2>2. U \notin F /\ U \in SUBSET S
    BY <1>2, <1>3, <2>1
  <2>3. g[U] = SumFunctionOnSet(fun, U)
    BY <2>2
  <2>4. g[U] \in Int => g[T] = g[U] + fun[Max(T)]
    BY <1>3, <1>5
  <2> HIDE DEF U, F
  <2> QED BY <1>3, <2>1, <2>3, <2>4
<1> QED BY <1>4, <1>5

\* g folds fun over the subsets of S, the last element on top.
OnTop(g, fun, S) ==
    g = [s \in SUBSET S |-> IF s = {} THEN 0 ELSE g[s \ {Max(s)}] + fun[Max(s)]]

\* There is such a fold, and it comes to the sum.
LEMMA OnTopExists ==
    ASSUME NEW S, S \subseteq Int, IsFiniteSet(S), NEW fun, \A x \in S : fun[x] \in Int
    PROVE  \E g : OnTop(g, fun, S)
<1> DEFINE sum(s) == SumFunctionOnSet(fun, s)
           g == [s \in SUBSET S |-> sum(s)]
<1>1. \A s \in SUBSET S : /\ s = {} => sum(s) = 0
                          /\ s # {} => sum(s) = sum(s \ {Max(s)}) + fun[Max(s)]
  BY LastOnTop
<1> HIDE DEF sum
<1>2. \A s \in SUBSET S : s \ {Max(s)} \in SUBSET S
  OBVIOUS
<1>3. ASSUME NEW s \in SUBSET S
      PROVE  g[s] = IF s = {} THEN 0 ELSE g[s \ {Max(s)}] + fun[Max(s)]
  <2>1. CASE s = {}
    BY <1>1, <2>1
  <2>2. CASE s # {}
    <3>1. g[s] = sum(s) /\ g[s \ {Max(s)}] = sum(s \ {Max(s)})
      BY <1>2
    <3>2. sum(s) = sum(s \ {Max(s)}) + fun[Max(s)]
      BY <1>1, <2>2
    <3> HIDE DEF g
    <3> QED BY <2>2, <3>1, <3>2
  <2> QED BY <2>1, <2>2
<1>4. g = [s \in SUBSET S |-> g[s]]
  OBVIOUS
<1> HIDE DEF g
<1>5. OnTop(g, fun, S)
  BY <1>3, <1>4, Zenon DEF OnTop
<1> QED BY <1>5, Zenon

LEMMA OnTopIsSum ==
    ASSUME NEW S, S \subseteq Int, IsFiniteSet(S), NEW fun, \A x \in S : fun[x] \in Int,
           NEW g, OnTop(g, fun, S)
    PROVE  g[S] = SumFunctionOnSet(fun, S)
<1>1. \A s \in SUBSET S : g[s] = IF s = {} THEN 0 ELSE g[s \ {Max(s)}] + fun[Max(s)]
  BY Zenon DEF OnTop
<1>2. g[{}] = 0
  BY <1>1
<1>3. \A s \in SUBSET S : s # {} /\ g[s \ {Max(s)}] \in Int
                             => g[s] = g[s \ {Max(s)}] + fun[Max(s)]
  BY <1>1
<1> QED BY <1>2, <1>3, FoldIsSum

\* A sum does not depend on what its elements are called.
LEMMA SumRenamed ==
    ASSUME NEW S, IsFiniteSet(S), NEW fun, \A x \in S : fun[x] \in Int,
           NEW h, \A x, y \in S : h[x] = h[y] => x = y,
           NEW gun, \A x \in S : gun[h[x]] = fun[x]
    PROVE  SumFunctionOnSet(gun, {h[x] : x \in S}) = SumFunctionOnSet(fun, S)
<1> DEFINE Im(T) == {h[x] : x \in T}
           F == {T \in SUBSET S : SumFunctionOnSet(gun, Im(T)) # SumFunctionOnSet(fun, T)}
<1> SUFFICES ASSUME F # {} PROVE FALSE
  OBVIOUS
<1>1. \E T \in F : \A U \in F : U \subseteq T => U = T
  <2>1. Fails(F, S)
    BY DEF Fails
  <2> HIDE DEF F
  <2>2. Least(F)
    BY <2>1, LeastFailure
  <2> QED BY <2>2 DEF Least
<1>2. PICK T \in F : \A U \in F : U \subseteq T => U = T
  BY <1>1
<1>3. T \in SUBSET S /\ SumFunctionOnSet(gun, Im(T)) # SumFunctionOnSet(fun, T)
  BY <1>2
<1>4. CASE T = {}
  <2>1. Im(T) = {}
    BY <1>4
  <2>2. SumFunctionOnSet(gun, {}) = 0 /\ SumFunctionOnSet(fun, {}) = 0
    BY SumEmpty
  <2> HIDE DEF Im
  <2> QED BY <1>3, <1>4, <2>1, <2>2
<1>5. CASE T # {}
  <2>1. PICK a \in T : TRUE
    BY <1>5
  <2> DEFINE U == T \ {a}
  <2>2. U \notin F /\ U \in SUBSET S
    BY <1>2, <1>3, <2>1
  <2>3. SumFunctionOnSet(gun, Im(U)) = SumFunctionOnSet(fun, U)
    BY <2>2
  <2>4. IsFiniteSet(T) /\ IsFiniteSet(U)
    BY <1>3, <2>2, FS_Subset
  <2>5. \A x \in T : fun[x] \in Int
    BY <1>3
  <2>6. SumFunctionOnSet(fun, T) = fun[a] + SumFunctionOnSet(fun, U)
    BY <2>1, <2>4, <2>5, SumRemove
  <2>7. IsFiniteSet(Im(T)) /\ h[a] \in Im(T) /\ Im(T) \ {h[a]} = Im(U) /\ gun[h[a]] = fun[a]
    <3>1. IsFiniteSet(Im(T))
      <4>1. [x \in T |-> h[x]] \in Surjection(T, Im(T))
        BY DEF Surjection
      <4> HIDE DEF Im
      <4> QED BY <2>4, <4>1, FS_Surjection
    <3>2. Im(T) \ {h[a]} = Im(U)
      BY <1>3, <2>1
    <3> QED BY <1>3, <2>1, <3>1, <3>2
  <2>8. \A y \in Im(T) : gun[y] \in Int
    BY <1>3, <2>5
  <2> HIDE DEF Im
  <2>9. SumFunctionOnSet(gun, Im(T)) = gun[h[a]] + SumFunctionOnSet(gun, Im(T) \ {h[a]})
    BY <2>7, <2>8, SumRemove
  <2> QED BY <1>3, <2>3, <2>6, <2>7, <2>9
<1> QED BY <1>4, <1>5

\* g gives the first n positions what f gives them, an integer, and has one more.
OneMore(f, g, n) ==
    /\ n \in Nat
    /\ \A k \in 1 .. n : f[k] \in Int /\ g[k] = f[k]
    /\ g[n + 1] \in Int

\* One more position adds its value.
LEMMA SumExtended ==
    ASSUME NEW n, NEW f, NEW g, OneMore(f, g, n)
    PROVE  SumFunctionOnSet(g, 1 .. n + 1) = SumFunctionOnSet(f, 1 .. n) + g[n + 1]
<1> USE DEF OneMore
<1> DEFINE m == n + 1
           S == 1 .. m
           R == 1 .. n
<1>1. IsFiniteSet(S) /\ IsFiniteSet(R)
  BY FS_Interval
<1>2. m \in S /\ S \ {m} = R
  OBVIOUS
<1>3. (\A k \in S : g[k] \in Int) /\ \A k \in R : g[k] = f[k] /\ f[k] \in Int
  <2>1. ASSUME NEW k \in S PROVE g[k] \in Int
    <3>1. k \in 1 .. n \/ k = n + 1
      OBVIOUS
    <3> QED BY <3>1
  <2> QED BY <2>1
<1>4. g[m] \in Int
  OBVIOUS
<1> HIDE DEF m, S, R
<1>5. SumFunctionOnSet(g, S) = g[m] + SumFunctionOnSet(g, R)
  BY <1>1, <1>2, <1>3, SumRemove
<1>6. SumFunctionOnSet(g, R) = SumFunctionOnSet(f, R)
  BY <1>1, <1>3, SumSame
<1>7. SumFunctionOnSet(f, R) \in Int
  BY <1>1, <1>3, SumInt
<1>8. SumFunctionOnSet(g, S) = SumFunctionOnSet(f, R) + g[m]
  BY <1>4, <1>5, <1>6, <1>7
<1> QED BY <1>8 DEF m, S, R

\* Taking the first position off takes its value off, and the others move up.
LEMMA SumOfTail ==
    ASSUME NEW n \in Nat, NEW f, NEW g,
           \A k \in 1 .. n : f[k] \in Int /\ g[k + 1] = f[k], g[1] \in Int
    PROVE  SumFunctionOnSet(g, 1 .. n + 1) = g[1] + SumFunctionOnSet(f, 1 .. n)
<1> DEFINE S == 1 .. n + 1
           R == 1 .. n
           h == [k \in R |-> k + 1]
<1>1. IsFiniteSet(S) /\ IsFiniteSet(R)
  BY FS_Interval
<1>2. 1 \in S /\ S \ {1} = {h[k] : k \in R}
  <2>1. ASSUME NEW x \in S \ {1} PROVE x \in {h[k] : k \in R}
    <3>1. x - 1 \in R /\ h[x - 1] = x
      OBVIOUS
    <3> QED BY <3>1
  <2>2. ASSUME NEW k \in R PROVE h[k] \in S \ {1}
    OBVIOUS
  <2> QED BY <2>1, <2>2
<1>3. \A x \in S : g[x] \in Int
  <2> TAKE x \in S
  <2>1. x = 1 \/ (x - 1 \in 1 .. n /\ (x - 1) + 1 = x)
    OBVIOUS
  <2> QED BY <2>1
<1>4. /\ \A x, y \in R : h[x] = h[y] => x = y
      /\ \A x \in R : f[x] \in Int /\ g[h[x]] = f[x]
  OBVIOUS
<1> HIDE DEF S, R, h
<1>5. SumFunctionOnSet(g, {h[k] : k \in R}) = SumFunctionOnSet(f, R)
  BY <1>1, <1>4, SumRenamed
<1>6. SumFunctionOnSet(g, S) = g[1] + SumFunctionOnSet(g, S \ {1})
  BY <1>1, <1>2, <1>3, SumRemove
<1>7. SumFunctionOnSet(g, S) = g[1] + SumFunctionOnSet(f, R)
  BY <1>2, <1>5, <1>6
<1> QED BY <1>7 DEF S, R
=============================================================================
