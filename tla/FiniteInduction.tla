-------------------------- MODULE FiniteInduction --------------------------
(***************************************************************************)
(* Lemmas about finite sets for the proofs about the model: induction over *)
(* a finite set, what SumFunctionOnSet computes, the largest and smallest  *)
(* number of a set, and folds of sequences.  The induction takes a set of  *)
(* subsets instead of a predicate.                                         *)
(***************************************************************************)
EXTENDS FiniteSetsExt, FiniteSetTheorems, SequenceTheorems, TLAPS

\* A set of subsets of S that holds T whenever it holds every T without one
\* element holds S: the strict subset ordering has minimal elements.
LEMMA SetInduction ==
  ASSUME NEW S, IsFiniteSet(S), NEW Q,
         \A T \in SUBSET S : (\A x \in T : T \ {x} \in Q) => T \in Q
  PROVE  S \in Q
<1> DEFINE W == {T \in SUBSET S : T \notin Q}
<1>1. FiniteSubsetsOf(S) = SUBSET S
  BY FS_FiniteSubsetsOfFinite
<1>2. IsWellFoundedOn(StrictSubsetOrdering(S), SUBSET S)
  BY <1>1, FS_StrictSubsetOrderingWellFounded
<1>3. SUFFICES ASSUME S \notin Q PROVE FALSE
  OBVIOUS
<1>4. W # {} /\ W \subseteq SUBSET S
  BY <1>3
<1> HIDE DEF W
<1>5. PICK T \in W : \A U \in W : ~ (<<U, T>> \in StrictSubsetOrdering(S))
  BY <1>2, <1>4, WFMin
<1>6. T \in SUBSET S /\ T \notin Q
  BY DEF W
<1>7. ASSUME NEW x \in T PROVE T \ {x} \in Q
  <2>1. <<T \ {x}, T>> \in StrictSubsetOrdering(S)
    BY <1>6, <1>7 DEF StrictSubsetOrdering
  <2> QED
    BY <1>5, <1>6, <2>1 DEF W
<1> QED
  BY <1>6, <1>7

(***************************************************************************)
(* The recursion of MapThenFoldSet has a solution, and only one.           *)
(***************************************************************************)
Pick(s) == CHOOSE x \in s : TRUE

\* A nonempty set has the element that a fold takes first.
LEMMA Picked == \A s : s # {} => Pick(s) \in s
  BY DEF Pick

Sums(f, S, g) == g = [s \in SUBSET S |-> IF s = {} THEN 0 ELSE f[Pick(s)] + g[s \ {Pick(s)}]]

\* A sum is the value of the recursion's solution at the whole set.
LEMMA SumIs == \A f, S : SumFunctionOnSet(f, S) = (CHOOSE g : Sums(f, S, g))[S]
  BY Zenon DEF SumFunctionOnSet, FoldFunctionOnSet, MapThenFoldSet, Sums, Pick

\* A solution obeys the equation at every subset.
LEMMA SumsAt ==
  ASSUME NEW f, NEW S, NEW g, Sums(f, S, g), NEW s \in SUBSET S
  PROVE  g[s] = IF s = {} THEN 0 ELSE f[Pick(s)] + g[s \ {Pick(s)}]
  BY DEF Sums

\* Solutions over two sets agree on what both of them hold.
LEMMA SumsAgree ==
  ASSUME NEW f, NEW S, IsFiniteSet(S), NEW T, NEW U, S \subseteq T, S \subseteq U,
         NEW g, NEW h, Sums(f, T, g), Sums(f, U, h)
  PROVE  g[S] = h[S]
<1> DEFINE Q == {s \in SUBSET S : g[s] = h[s]}
<1>1. ASSUME NEW s \in SUBSET S, \A x \in s : s \ {x} \in Q
      PROVE  s \in Q
  <2>1. s \in SUBSET T /\ s \in SUBSET U
    OBVIOUS
  <2>3. g[s] = IF s = {} THEN 0 ELSE f[Pick(s)] + g[s \ {Pick(s)}]
    BY <2>1, SumsAt
  <2>4. h[s] = IF s = {} THEN 0 ELSE f[Pick(s)] + h[s \ {Pick(s)}]
    BY <2>1, SumsAt
  <2>2. s # {} => g[s \ {Pick(s)}] = h[s \ {Pick(s)}]
    BY <1>1, Picked
  <2> QED
    BY <2>2, <2>3, <2>4
<1> HIDE DEF Q
<1>2. S \in Q
  BY <1>1, SetInduction
<1> QED
  BY <1>2 DEF Q

\* Every finite set has a solution, made of those of its smaller sets.
LEMMA SumsExist == ASSUME NEW f, NEW S, IsFiniteSet(S) PROVE \E g : Sums(f, S, g)
<1> DEFINE G(U) == CHOOSE g : Sums(f, U, g)
           Q == {T \in SUBSET S : \A U \in SUBSET T : \E g : Sums(f, U, g)}
<1>1. ASSUME NEW T \in SUBSET S, \A x \in T : T \ {x} \in Q
      PROVE  T \in Q
  <2>1. ASSUME NEW U \in SUBSET T, U # T PROVE Sums(f, U, G(U))
    <3>1. PICK x \in T : x \notin U
      BY <2>1
    <3>2. U \in SUBSET (T \ {x}) /\ T \ {x} \in Q
      BY <1>1, <3>1
    <3> QED
      BY <3>2
  <2> DEFINE h == [U \in SUBSET T |->
                     IF U = {} THEN 0 ELSE f[Pick(U)] + G(U \ {Pick(U)})[U \ {Pick(U)}]]
  <2>2. ASSUME NEW U \in SUBSET T, U # T PROVE h[U] = G(U)[U]
    <3>1. G(U)[U] = IF U = {} THEN 0 ELSE f[Pick(U)] + G(U)[U \ {Pick(U)}]
      BY <2>1, <2>2, SumsAt
    <3>2. ASSUME U # {} PROVE G(U)[U \ {Pick(U)}] = G(U \ {Pick(U)})[U \ {Pick(U)}]
      <4> DEFINE V == U \ {Pick(U)}
      <4>1. V \in SUBSET T /\ V # T /\ V \subseteq U /\ IsFiniteSet(V)
        BY <3>2, Picked, FS_Subset
      <4>2. Sums(f, V, G(V)) /\ Sums(f, U, G(U))
        BY <2>1, <2>2, <4>1
      <4> HIDE DEF V, G
      <4>3. G(U)[V] = G(V)[V]
        BY <4>1, <4>2, SumsAgree
      <4> QED
        BY <4>3 DEF V
    <3> QED
      BY <3>1, <3>2
  <2>3. Sums(f, T, h)
    <3>1. ASSUME NEW U \in SUBSET T, U # {}
          PROVE  h[U \ {Pick(U)}] = G(U \ {Pick(U)})[U \ {Pick(U)}]
      <4>1. U \ {Pick(U)} \in SUBSET T /\ U \ {Pick(U)} # T
        BY <3>1, Picked
      <4> HIDE DEF h, G
      <4> QED
        BY <2>2, <4>1
    <3> HIDE DEF G
    <3> QED
      BY <3>1 DEF Sums
  <2> QED
    BY <2>1, <2>3
<1> HIDE DEF Q
<1>2. S \in Q
  BY <1>1, SetInduction
<1> QED
  BY <1>2 DEF Q

(***************************************************************************)
(* Sums, as they are used.                                                 *)
(***************************************************************************)
\* Nothing sums to nothing.
LEMMA SumEmpty == \A f : SumFunctionOnSet(f, {}) = 0
<1>1. ASSUME NEW f PROVE SumFunctionOnSet(f, {}) = 0
  <2>1. \E g : Sums(f, {}, g)
    BY SumsExist, FS_EmptySet
  <2>2. Sums(f, {}, CHOOSE g : Sums(f, {}, g))
    BY <2>1
  <2>3. (CHOOSE g : Sums(f, {}, g))[{}] = 0
    BY <2>2, SumsAt
  <2> QED
    BY <2>3, SumIs
<1> QED
  BY <1>1

\* A sum is the element taken first and the sum of the others.
LEMMA SumPicked ==
  ASSUME NEW f, NEW S, IsFiniteSet(S), S # {}
  PROVE  SumFunctionOnSet(f, S) = f[Pick(S)] + SumFunctionOnSet(f, S \ {Pick(S)})
<1> DEFINE G(U) == CHOOSE g : Sums(f, U, g)
           T == S \ {Pick(S)}
<1>1. T \subseteq S /\ IsFiniteSet(T)
  BY FS_Subset
<1>2. Sums(f, S, G(S)) /\ Sums(f, T, G(T))
  BY <1>1, SumsExist
<1>3. SumFunctionOnSet(f, S) = G(S)[S] /\ SumFunctionOnSet(f, T) = G(T)[T]
  BY SumIs
<1> HIDE DEF G
<1>4. G(S)[S] = f[Pick(S)] + G(S)[T]
  BY <1>2, SumsAt
<1> HIDE DEF T
<1>5. G(S)[T] = G(T)[T]
  BY <1>1, <1>2, SumsAgree
<1> QED
  BY <1>3, <1>4, <1>5 DEF T

\* Integers sum to an integer.
LEMMA SumType ==
  ASSUME NEW f, NEW S, IsFiniteSet(S), \A y \in S : f[y] \in Int
  PROVE  SumFunctionOnSet(f, S) \in Int
<1> DEFINE Sum(T) == SumFunctionOnSet(f, T)
           Q == {T \in SUBSET S : Sum(T) \in Int}
<1>1. ASSUME NEW T \in SUBSET S, \A y \in T : T \ {y} \in Q
      PROVE  T \in Q
  <2>1. CASE T = {}
    BY <2>1, SumEmpty
  <2>2. CASE T # {}
    <3>1. Pick(T) \in T /\ IsFiniteSet(T)
      BY <2>2, Picked, FS_Subset
    <3>2. Sum(T) = f[Pick(T)] + Sum(T \ {Pick(T)})
      BY <2>2, <3>1, SumPicked
    <3>3. f[Pick(T)] \in Int /\ Sum(T \ {Pick(T)}) \in Int
      BY <1>1, <3>1
    <3> HIDE DEF Sum
    <3> QED
      BY <3>2, <3>3
  <2> QED
    BY <2>1, <2>2
<1> HIDE DEF Q
<1>2. S \in Q
  BY <1>1, SetInduction
<1> QED
  BY <1>2 DEF Q

\* The sum of a set is any element and the sum of the rest.
LEMMA SumOneMore ==
  ASSUME NEW f, NEW S, IsFiniteSet(S), \A y \in S : f[y] \in Int, NEW x \in S
  PROVE  SumFunctionOnSet(f, S) = f[x] + SumFunctionOnSet(f, S \ {x})
<1> DEFINE Sum(T) == SumFunctionOnSet(f, T)
           Q == {T \in SUBSET S : \A y \in T : Sum(T) = f[y] + Sum(T \ {y})}
<1>0. \A T \in SUBSET S : Sum(T) \in Int
  BY SumType, FS_Subset
<1>1. ASSUME NEW T \in SUBSET S, \A y \in T : T \ {y} \in Q
      PROVE  T \in Q
  <2>0. SUFFICES ASSUME NEW y \in T PROVE Sum(T) = f[y] + Sum(T \ {y})
    OBVIOUS
  <2> DEFINE p == Pick(T)
             R == (T \ {p}) \ {y}
  <2>1. p \in T /\ IsFiniteSet(T) /\ T # {}
    BY Picked, FS_Subset
  <2>2. Sum(T) = f[p] + Sum(T \ {p})
    BY <2>1, SumPicked
  <2> HIDE DEF p
  <2>3. CASE y = p
    BY <2>2, <2>3
  <2>4. CASE y # p
    <3>1. Sum(T \ {p}) = f[y] + Sum(R)
      BY <1>1, <2>1, <2>4
    <3>2. R = (T \ {y}) \ {p}
      OBVIOUS
    <3>3. Sum(T \ {y}) = f[p] + Sum(R)
      <4>1. T \ {y} \in Q /\ p \in T \ {y}
        BY <1>1, <2>1, <2>4
      <4> QED
        BY <3>2, <4>1
    <3>4. f[y] \in Int /\ f[p] \in Int /\ Sum(R) \in Int
      BY <1>0, <2>1
    <3> HIDE DEF Sum, R
    <3> QED
      BY <2>2, <3>1, <3>3, <3>4
  <2> QED
    BY <2>3, <2>4
<1> HIDE DEF Q
<1>2. S \in Q
  BY <1>1, SetInduction
<1> QED
  BY <1>2 DEF Q

\* Functions that agree on a set have the same sum over it.
LEMMA SumAgrees ==
  ASSUME NEW f, NEW g, NEW S, IsFiniteSet(S), \A y \in S : f[y] = g[y]
  PROVE  SumFunctionOnSet(f, S) = SumFunctionOnSet(g, S)
<1> DEFINE Q == {T \in SUBSET S : SumFunctionOnSet(f, T) = SumFunctionOnSet(g, T)}
<1>1. ASSUME NEW T \in SUBSET S, \A y \in T : T \ {y} \in Q
      PROVE  T \in Q
  <2>1. CASE T = {}
    BY <2>1, SumEmpty
  <2>2. CASE T # {}
    <3>1. Pick(T) \in T /\ IsFiniteSet(T)
      BY <2>2, Picked, FS_Subset
    <3>2. /\ SumFunctionOnSet(f, T) = f[Pick(T)] + SumFunctionOnSet(f, T \ {Pick(T)})
          /\ SumFunctionOnSet(g, T) = g[Pick(T)] + SumFunctionOnSet(g, T \ {Pick(T)})
      BY <2>2, <3>1, SumPicked
    <3>3. SumFunctionOnSet(f, T \ {Pick(T)}) = SumFunctionOnSet(g, T \ {Pick(T)})
      BY <1>1, <3>1
    <3>4. f[Pick(T)] = g[Pick(T)]
      BY <3>1
    <3> QED
      BY <3>2, <3>3, <3>4
  <2> QED
    BY <2>1, <2>2
<1> HIDE DEF Q
<1>2. S \in Q
  BY <1>1, SetInduction
<1> QED
  BY <1>2 DEF Q

\* A pointwise smaller function has a smaller sum.
LEMMA SumMonotone ==
  ASSUME NEW f, NEW g, NEW S, IsFiniteSet(S),
         \A y \in S : f[y] \in Int /\ g[y] \in Int /\ f[y] <= g[y]
  PROVE  SumFunctionOnSet(f, S) <= SumFunctionOnSet(g, S)
<1> DEFINE Q == {T \in SUBSET S : SumFunctionOnSet(f, T) <= SumFunctionOnSet(g, T)}
<1>1. ASSUME NEW T \in SUBSET S, \A y \in T : T \ {y} \in Q
      PROVE  T \in Q
  <2>1. CASE T = {}
    BY <2>1, SumEmpty
  <2>2. CASE T # {}
    <3>1. Pick(T) \in T /\ IsFiniteSet(T)
      BY <2>2, Picked, FS_Subset
    <3>2. /\ SumFunctionOnSet(f, T) = f[Pick(T)] + SumFunctionOnSet(f, T \ {Pick(T)})
          /\ SumFunctionOnSet(g, T) = g[Pick(T)] + SumFunctionOnSet(g, T \ {Pick(T)})
      BY <2>2, <3>1, SumPicked
    <3>3. SumFunctionOnSet(f, T \ {Pick(T)}) <= SumFunctionOnSet(g, T \ {Pick(T)})
      BY <1>1, <3>1
    <3>4. /\ IsFiniteSet(T \ {Pick(T)})
          /\ \A y \in T \ {Pick(T)} : f[y] \in Int /\ g[y] \in Int
      BY <3>1, FS_Subset
    <3>5. /\ SumFunctionOnSet(f, T \ {Pick(T)}) \in Int
          /\ SumFunctionOnSet(g, T \ {Pick(T)}) \in Int
      BY <3>4, SumType
    <3>6. f[Pick(T)] <= g[Pick(T)] /\ f[Pick(T)] \in Int /\ g[Pick(T)] \in Int
      BY <3>1
    <3> QED
      BY <3>2, <3>3, <3>5, <3>6
  <2> QED
    BY <2>1, <2>2
<1> HIDE DEF Q
<1>2. S \in Q
  BY <1>1, SetInduction
<1> QED
  BY <1>2 DEF Q

\* Elements that count for nothing may be left out.
LEMMA SumWhereItCounts ==
  ASSUME NEW f, NEW S, IsFiniteSet(S), \A y \in S : f[y] \in Int,
         NEW U, U \subseteq S, \A y \in S \ U : f[y] = 0
  PROVE  SumFunctionOnSet(f, S) = SumFunctionOnSet(f, U)
<1> DEFINE Sum(T) == SumFunctionOnSet(f, T)
           Q == {T \in SUBSET S : Sum(T) = Sum(T \cap U)}
<1>1. ASSUME NEW T \in SUBSET S, \A y \in T : T \ {y} \in Q
      PROVE  T \in Q
  <2>1. CASE T = {}
    <3>1. T \cap U = T
      BY <2>1
    <3> QED
      BY <3>1
  <2>2. CASE T # {}
    <3> DEFINE p == Pick(T)
               R == T \ {p}
    <3>1. p \in T /\ IsFiniteSet(T) /\ IsFiniteSet(R) /\ IsFiniteSet(T \cap U)
      BY <2>2, Picked, FS_Subset
    <3>2. Sum(T) = f[p] + Sum(R)
      BY <2>2, <3>1, SumPicked
    <3> HIDE DEF p
    <3>3. Sum(R) = Sum(R \cap U) /\ Sum(R) \in Int
      BY <1>1, <3>1, SumType
    <3>4. CASE p \in U
      <4>1. p \in T \cap U /\ (T \cap U) \ {p} = R \cap U
        BY <3>1, <3>4
      <4>2. Sum(T \cap U) = f[p] + Sum((T \cap U) \ {p})
        BY <3>1, <4>1, SumOneMore
      <4> QED
        BY <3>2, <3>3, <4>1, <4>2
    <3>5. CASE p \notin U
      <4>1. T \cap U = R \cap U /\ f[p] = 0
        BY <3>1, <3>5
      <4>2. Sum(T \cap U) = Sum(R \cap U)
        BY <4>1
      <4> HIDE DEF Sum, R
      <4> QED
        BY <3>2, <3>3, <4>1, <4>2
    <3> QED
      BY <3>4, <3>5
  <2> QED
    BY <2>1, <2>2
<1> HIDE DEF Q
<1>2. S \in Q
  BY <1>1, SetInduction
<1>3. S \cap U = U
  OBVIOUS
<1> QED
  BY <1>2, <1>3 DEF Q

\* Two sets with nothing in common.
LEMMA SumUnion ==
  ASSUME NEW f, NEW A, NEW B, IsFiniteSet(A), IsFiniteSet(B), A \cap B = {}, \A y \in A \cup B : f[y] \in Int
  PROVE  SumFunctionOnSet(f, A \cup B) = SumFunctionOnSet(f, A) + SumFunctionOnSet(f, B)
<1> DEFINE Sum(T) == SumFunctionOnSet(f, T)
           Q == {T \in SUBSET B : Sum(A \cup T) = Sum(A) + Sum(T)}
<1>1. ASSUME NEW T \in SUBSET B, \A x \in T : T \ {x} \in Q
      PROVE  T \in Q
  <2>0. IsFiniteSet(T) /\ IsFiniteSet(A \cup T) /\ Sum(A) \in Int
    BY FS_Subset, FS_Union, SumType
  <2>1. CASE T = {}
    <3>1. Sum(T) = 0 /\ A \cup T = A
      BY <2>1, SumEmpty
    <3>2. Sum(A \cup T) = Sum(A) + Sum(T)
      <4>1. Sum(A \cup T) = Sum(A)
        BY <3>1
      <4> HIDE DEF Sum
      <4> QED
        BY <2>0, <3>1, <4>1
    <3> QED
      BY <3>2
  <2>2. CASE T # {}
    <3>1. PICK x : x \in T
      BY <2>2
    <3>2. Sum(T) = f[x] + Sum(T \ {x})
      BY <2>0, <3>1, SumOneMore
    <3>3. Sum(A \cup T) = f[x] + Sum((A \cup T) \ {x})
      BY <2>0, <3>1, SumOneMore
    <3>4. (A \cup T) \ {x} = A \cup (T \ {x})
      BY <3>1
    <3>5. Sum(A \cup (T \ {x})) = Sum(A) + Sum(T \ {x})
      BY <1>1, <3>1
    <3>6. Sum(T \ {x}) \in Int /\ f[x] \in Int
      <4>1. IsFiniteSet(T \ {x}) /\ \A y \in T \ {x} : f[y] \in Int
        BY <2>0, FS_Subset
      <4> QED
        BY <3>1, <4>1, SumType
    <3>7. Sum(A \cup T) = Sum(A) + Sum(T)
      <4>1. Sum((A \cup T) \ {x}) = Sum(A \cup (T \ {x}))
        BY <3>4
      <4> HIDE DEF Sum
      <4> QED
        BY <2>0, <3>2, <3>3, <3>5, <3>6, <4>1
    <3> QED
      BY <3>7
  <2> QED
    BY <2>1, <2>2
<1> HIDE DEF Q
<1>2. B \in Q
  BY <1>1, SetInduction
<1> QED
  BY <1>2 DEF Q

\* R holds what S does, a places further on, and f at R the numbers of w at S.
Shifted(w, S, f, R, a) ==
  /\ S \in SUBSET Int /\ IsFiniteSet(S) /\ R \in SUBSET Int /\ a \in Int
  /\ \A i \in S : a + i \in R /\ w[i] \in Int /\ w[i] = f[a + i]
  /\ \A y \in R : y - a \in S

\* The same numbers at other places.
LEMMA SumShift ==
  ASSUME NEW w, NEW S, NEW f, NEW R, NEW a, Shifted(w, S, f, R, a)
  PROVE  SumFunctionOnSet(w, S) = SumFunctionOnSet(f, R)
<1>0. /\ S \in SUBSET Int /\ IsFiniteSet(S) /\ R \in SUBSET Int /\ a \in Int
      /\ \A i \in S : a + i \in R /\ w[i] \in Int /\ w[i] = f[a + i]
      /\ \A y \in R : y - a \in S
  BY DEF Shifted
<1> DEFINE Moved(T) == {a + i : i \in T}
           Q == {T \in SUBSET S : IsFiniteSet(Moved(T)) /\ SumFunctionOnSet(w, T) = SumFunctionOnSet(f, Moved(T))}
<1>1. ASSUME NEW T \in SUBSET S, \A x \in T : T \ {x} \in Q
      PROVE  T \in Q
  <2>0. IsFiniteSet(T) /\ (\A y \in T : w[y] = f[a + y]) /\ \A y \in T : w[y] \in Int
    BY <1>0, FS_Subset
  <2>1. CASE T = {}
    <3>1. Moved(T) = {}
      BY <2>1
    <3> QED
      BY <2>1, <3>1, SumEmpty, FS_EmptySet
  <2>2. CASE T # {}
    <3>1. PICK x : x \in T
      BY <2>2
    <3>2. SumFunctionOnSet(w, T) = w[x] + SumFunctionOnSet(w, T \ {x})
      <4> DEFINE M == T
                 m == x
      <4>1. m \in M /\ IsFiniteSet(M) /\ \A y \in M : w[y] \in Int
        BY <2>0, <3>1
      <4> HIDE DEF M, m, Q
      <4>2. SumFunctionOnSet(w, M) = w[m] + SumFunctionOnSet(w, M \ {m})
        BY <4>1, SumOneMore
      <4> QED
        BY <4>2 DEF M, m
    <3>3. Moved(T \ {x}) = Moved(T) \ {a + x} /\ a + x \in Moved(T) /\ Moved(T) = Moved(T \ {x}) \cup {a + x}
      BY <1>0, <3>1
    <3>4. IsFiniteSet(Moved(T \ {x})) /\ SumFunctionOnSet(w, T \ {x}) = SumFunctionOnSet(f, Moved(T \ {x}))
      BY <1>1, <3>1
    <3>5. IsFiniteSet(Moved(T)) /\ \A y \in Moved(T) : f[y] \in Int
      <4>1. IsFiniteSet(Moved(T \ {x}) \cup {a + x})
        <5> HIDE DEF Moved
        <5> QED
          BY <3>4, FS_AddElement
      <4>2. \A y \in Moved(T) : f[y] \in Int
        BY <1>0
      <4> HIDE DEF Moved
      <4> QED
        BY <3>3, <4>1, <4>2
    <3>6. SumFunctionOnSet(f, Moved(T)) = f[a + x] + SumFunctionOnSet(f, Moved(T) \ {a + x})
      <4> DEFINE M == Moved(T)
                 m == a + x
      <4>1. m \in M /\ IsFiniteSet(M) /\ \A y \in M : f[y] \in Int
        BY <3>3, <3>5
      <4> HIDE DEF M, m, Q
      <4>2. SumFunctionOnSet(f, M) = f[m] + SumFunctionOnSet(f, M \ {m})
        BY <4>1, SumOneMore
      <4> QED
        BY <4>2 DEF M, m
    <3>7. w[x] = f[a + x]
      BY <2>0, <3>1
    <3> HIDE DEF Moved
    <3> QED
      BY <3>2, <3>3, <3>4, <3>5, <3>6, <3>7
  <2> QED
    BY <2>1, <2>2
<1> HIDE DEF Q
<1>2. S \in Q
  BY <1>0, <1>1, SetInduction
<1>3. Moved(S) = R
  <2>1. ASSUME NEW y \in R PROVE y - a \in S /\ y = a + (y - a)
    BY <1>0
  <2> QED
    BY <1>0, <2>1
<1>4. SumFunctionOnSet(w, S) = SumFunctionOnSet(f, Moved(S))
  BY <1>2 DEF Q
<1>5. SumFunctionOnSet(f, Moved(S)) = SumFunctionOnSet(f, R)
  BY <1>3
<1> QED
  BY <1>4, <1>5

\* Naturals sum to a natural.
LEMMA SumNat ==
  ASSUME NEW f, NEW S, IsFiniteSet(S), \A y \in S : f[y] \in Nat
  PROVE  SumFunctionOnSet(f, S) \in Nat
<1> DEFINE zero == [y \in S |-> 0]
           Q == {T \in SUBSET S : SumFunctionOnSet(f, T) \in Nat}
<1>1. ASSUME NEW T \in SUBSET S, \A x \in T : T \ {x} \in Q
      PROVE  T \in Q
  <2>1. CASE T = {}
    BY <2>1, SumEmpty
  <2>2. CASE T # {}
    <3>1. Pick(T) \in T /\ IsFiniteSet(T)
      BY <2>2, Picked, FS_Subset
    <3>2. SumFunctionOnSet(f, T) = f[Pick(T)] + SumFunctionOnSet(f, T \ {Pick(T)})
      BY <2>2, <3>1, SumPicked
    <3>3. f[Pick(T)] \in Nat /\ SumFunctionOnSet(f, T \ {Pick(T)}) \in Nat
      BY <1>1, <3>1
    <3> QED
      BY <3>2, <3>3
  <2> QED
    BY <2>1, <2>2
<1> HIDE DEF Q
<1>2. S \in Q
  BY <1>1, SetInduction
<1> QED
  BY <1>2 DEF Q

(***************************************************************************)
(* The largest number of a finite set.                                     *)
(***************************************************************************)
\* A finite set of integers has a largest one, and Max is it.
LEMMA MaxExists ==
  ASSUME NEW S \in SUBSET Int, IsFiniteSet(S), S # {}
  PROVE  Max(S) \in S /\ \A y \in S : Max(S) >= y
<1> DEFINE Q == {T \in SUBSET S : T # {} => \E x \in T : \A y \in T : x >= y}
<1>1. ASSUME NEW T \in SUBSET S, \A y \in T : T \ {y} \in Q
      PROVE  T \in Q
  <2> SUFFICES ASSUME T # {} PROVE \E x \in T : \A y \in T : x >= y
    OBVIOUS
  <2>1. PICK p : p \in T
    OBVIOUS
  <2>2. CASE T = {p}
    BY <2>1, <2>2
  <2>3. CASE T # {p}
    <3>1. PICK x \in T \ {p} : \A y \in T \ {p} : x >= y
      BY <1>1, <2>1, <2>3
    <3>2. x >= p \/ p >= x
      BY <2>1, <3>1
    <3>3. CASE x >= p
      BY <3>1, <3>3
    <3>4. CASE p >= x
      <4>1. \A y \in T : p >= y
        BY <2>1, <3>1, <3>4
      <4> QED
        BY <2>1, <4>1
    <3> QED
      BY <3>2, <3>3, <3>4
  <2> QED
    BY <2>2, <2>3
<1> HIDE DEF Q
<1>2. S \in Q
  BY <1>1, SetInduction
<1>3. \E x \in S : \A y \in S : x >= y
  BY <1>2 DEF Q
<1> QED
  BY <1>3 DEF Max

\* A number of the set that no other one exceeds is the maximum.
LEMMA MaxIs ==
  ASSUME NEW S \in SUBSET Int, NEW m \in S, \A y \in S : m >= y
  PROVE  Max(S) = m
<1>1. Max(S) \in S /\ \A y \in S : Max(S) >= y
  BY DEF Max
<1>2. Max(S) \in Int /\ Max(S) >= m /\ m >= Max(S)
  BY <1>1
<1> QED
  BY <1>2

\* Every set with a least number has Min for it.
LEMMA MinOf ==
  ASSUME NEW S \in SUBSET Int, NEW m \in S, \A y \in S : m <= y
  PROVE  Min(S) \in S /\ \A y \in S : Min(S) <= y
  BY DEF Min

\* A finite set of integers has a smallest one.
LEMMA MinExists ==
  ASSUME NEW S \in SUBSET Int, IsFiniteSet(S), S # {}
  PROVE  \E x \in S : \A y \in S : x <= y
<1> DEFINE Q == {T \in SUBSET S : T # {} => \E x \in T : \A y \in T : x <= y}
<1>1. ASSUME NEW T \in SUBSET S, \A y \in T : T \ {y} \in Q
      PROVE  T \in Q
  <2> SUFFICES ASSUME T # {} PROVE \E x \in T : \A y \in T : x <= y
    OBVIOUS
  <2>1. PICK p : p \in T
    OBVIOUS
  <2>2. CASE T = {p}
    BY <2>1, <2>2
  <2>3. CASE T # {p}
    <3>1. PICK x \in T \ {p} : \A y \in T \ {p} : x <= y
      BY <1>1, <2>1, <2>3
    <3>2. x <= p \/ p <= x
      BY <2>1, <3>1
    <3>3. CASE x <= p
      BY <3>1, <3>3
    <3>4. CASE p <= x
      <4>1. \A y \in T : p <= y
        BY <2>1, <3>1, <3>4
      <4> QED
        BY <2>1, <4>1
    <3> QED
      BY <3>2, <3>3, <3>4
  <2> QED
    BY <2>2, <2>3
<1> HIDE DEF Q
<1>2. S \in Q
  BY <1>1, SetInduction
<1> QED
  BY <1>2 DEF Q

(***************************************************************************)
(* Folds from the first element of a sequence to the last: MapThenFoldSet  *)
(* takes the largest index last.  h is one step: of the indices so far and *)
(* what came before.                                                       *)
(***************************************************************************)
Folds(h, b, V, S, g) ==
  /\ g \in [SUBSET S -> V]
  /\ \A s \in SUBSET S : g[s] = IF s = {} THEN b ELSE h[<<s, g[s \ {Max(s)}]>>]

\* Folds over two sets agree on what both of them hold.
LEMMA FoldsAgree ==
  ASSUME NEW S \in SUBSET Int, IsFiniteSet(S), NEW T, NEW U, S \subseteq T, S \subseteq U,
         NEW h, NEW b, NEW V, NEW g, NEW f, Folds(h, b, V, T, g), Folds(h, b, V, U, f)
  PROVE  g[S] = f[S]
<1> DEFINE Q == {s \in SUBSET S : g[s] = f[s]}
<1>1. ASSUME NEW s \in SUBSET S, \A x \in s : s \ {x} \in Q
      PROVE  s \in Q
  <2>1. s \in SUBSET T /\ s \in SUBSET U
    OBVIOUS
  <2>2. s # {} => Max(s) \in s
    <3>1. IsFiniteSet(s) /\ s \in SUBSET Int
      BY FS_Subset
    <3> QED
      BY <3>1, MaxExists
  <2>3. s # {} => g[s \ {Max(s)}] = f[s \ {Max(s)}]
    BY <1>1, <2>2
  <2> QED
    BY <2>1, <2>3 DEF Folds
<1> HIDE DEF Q
<1>2. S \in Q
  BY <1>1, SetInduction
<1> QED
  BY <1>2 DEF Q

\* A step that stays in V can be folded over every finite set, and the fold stays in V.
LEMMA FoldsExist ==
  ASSUME NEW S \in SUBSET Int, IsFiniteSet(S), NEW V, NEW b \in V, NEW h \in [(SUBSET S) \X V -> V]
  PROVE  \E g : Folds(h, b, V, S, g)
<1> DEFINE Fold(U, g) == Folds(h, b, V, U, g)
           G(U) == CHOOSE g : Fold(U, g)
           Q == {T \in SUBSET S : \A U \in SUBSET T : \E g : Fold(U, g)}
<1>1. ASSUME NEW T \in SUBSET S, \A x \in T : T \ {x} \in Q
      PROVE  T \in Q
  <2>1. ASSUME NEW U \in SUBSET T, U # T PROVE Fold(U, G(U))
    <3>1. PICK x \in T : x \notin U
      BY <2>1
    <3>2. U \in SUBSET (T \ {x}) /\ T \ {x} \in Q
      BY <1>1, <3>1
    <3> HIDE DEF Fold
    <3> QED
      BY <3>2
  <2>2. ASSUME NEW U \in SUBSET T, U # {}
        PROVE  Max(U) \in U /\ IsFiniteSet(U) /\ U \in SUBSET Int
    <3>1. IsFiniteSet(U) /\ U \in SUBSET Int
      BY FS_Subset
    <3> QED
      BY <2>2, <3>1, MaxExists
  <2> DEFINE Less(U) == U \ {Max(U)}
             f == [U \in SUBSET T |-> IF U = {} THEN b ELSE h[<<U, G(Less(U))[Less(U)]>>]]
  <2>3. ASSUME NEW U \in SUBSET T, U # {}
        PROVE  /\ Less(U) \in SUBSET T /\ Less(U) # T /\ Fold(Less(U), G(Less(U)))
               /\ G(Less(U))[Less(U)] \in V
    <3>1. Less(U) \in SUBSET T /\ Less(U) # T
      BY <2>2, <2>3
    <3>2. Fold(Less(U), G(Less(U)))
      BY <2>1, <3>1
    <3> HIDE DEF G, Less
    <3> QED
      BY <3>1, <3>2 DEF Folds
  <2>4. f \in [SUBSET T -> V]
    <3>1. ASSUME NEW U \in SUBSET T, U # {} PROVE h[<<U, G(Less(U))[Less(U)]>>] \in V
      <4>1. U \in SUBSET S /\ G(Less(U))[Less(U)] \in V
        BY <2>3, <3>1
      <4> HIDE DEF G, Less
      <4> QED
        BY <4>1
    <3> HIDE DEF G, Less
    <3> QED
      BY <3>1
  <2>5. ASSUME NEW U \in SUBSET T, U # T PROVE f[U] = G(U)[U]
    <3>1. Fold(U, G(U))
      BY <2>1, <2>5
    <3>2. G(U)[U] = IF U = {} THEN b ELSE h[<<U, G(U)[Less(U)]>>]
      <4> HIDE DEF G
      <4> QED
        BY <3>1 DEF Folds
    <3>3. ASSUME U # {} PROVE G(U)[Less(U)] = G(Less(U))[Less(U)]
      <4>1. /\ Less(U) \subseteq U /\ Fold(Less(U), G(Less(U)))
            /\ Less(U) \in SUBSET Int /\ IsFiniteSet(Less(U))
        BY <2>2, <2>3, <3>3, FS_Subset
      <4> HIDE DEF G, Less
      <4>2. Less(U) \subseteq Less(U)
        OBVIOUS
      <4> QED
        BY <3>1, <4>1, <4>2, FoldsAgree
    <3> HIDE DEF G, Less
    <3> QED
      BY <3>2, <3>3
  <2>6. Fold(T, f)
    <3>1. ASSUME NEW U \in SUBSET T, U # {} PROVE f[Less(U)] = G(Less(U))[Less(U)]
      <4>1. Less(U) \in SUBSET T /\ Less(U) # T
        BY <2>3, <3>1
      <4> HIDE DEF f, G, Less
      <4> QED
        BY <2>5, <4>1
    <3>2. ASSUME NEW U \in SUBSET T
          PROVE  f[U] = IF U = {} THEN b ELSE h[<<U, f[Less(U)]>>]
      <4>1. f[U] = IF U = {} THEN b ELSE h[<<U, G(Less(U))[Less(U)]>>]
        OBVIOUS
      <4> HIDE DEF f, G, Less
      <4> QED
        BY <3>1, <4>1
    <3> HIDE DEF f, G
    <3> QED
      BY <2>4, <3>2 DEF Folds
  <2>7. ASSUME NEW U \in SUBSET T PROVE \E g : Fold(U, g)
    <3> HIDE DEF Fold, G, f
    <3> QED
      BY <2>1, <2>6
  <2> HIDE DEF Fold
  <2> QED
    BY <2>7
<1> HIDE DEF Q
<1>2. S \in Q
  BY <1>1, SetInduction
<1> QED
  BY <1>2 DEF Q

(***************************************************************************)
(* Folds over a sequence.                                                  *)
(***************************************************************************)
\* A fold whose steps stay in V is in V, whatever the recursion's solution that is taken.
LEMMA FoldStays ==
  ASSUME NEW S \in SUBSET Int, IsFiniteSet(S), NEW V, NEW g,
         g[{}] \in V, \A s \in (SUBSET S) \ {{}} : g[s \ {Max(s)}] \in V => g[s] \in V
  PROVE  g[S] \in V
<1> DEFINE Q == {s \in SUBSET S : g[s] \in V}
<1>1. ASSUME NEW s \in SUBSET S, \A x \in s : s \ {x} \in Q
      PROVE  s \in Q
  <2>1. CASE s = {}
    BY <2>1
  <2>2. CASE s # {}
    <3>1. IsFiniteSet(s) /\ s \in SUBSET Int
      BY FS_Subset
    <3>2. Max(s) \in s
      BY <2>2, <3>1, MaxExists
    <3> QED
      BY <1>1, <2>2, <3>2
  <2> QED
    BY <2>1, <2>2
<1> HIDE DEF Q
<1>2. S \in Q
  BY <1>1, SetInduction
<1> QED
  BY <1>2 DEF Q

\* The indices of a sequence are a finite set of numbers.
LEMMA Indices ==
  ASSUME NEW T, NEW s \in Seq(T)
  PROVE  /\ DOMAIN s = 1..Len(s) /\ Len(s) \in Nat /\ DOMAIN s \in SUBSET Int /\ IsFiniteSet(DOMAIN s)
         /\ \A n \in DOMAIN s : s[n] \in T
<1>1. DOMAIN s = 1..Len(s) /\ Len(s) \in Nat /\ s \in [1..Len(s) -> T]
  BY LenProperties
<1>2. IsFiniteSet(1..Len(s))
  BY <1>1, FS_Interval
<1> QED
  BY <1>1, <1>2

\* The largest of some indices is one of them.
LEMMA LastIndex ==
  ASSUME NEW S \in SUBSET Int, IsFiniteSet(S), NEW s \in SUBSET S, s # {}
  PROVE  Max(s) \in S /\ Max(s) \in s
<1>1. IsFiniteSet(s) /\ s \in SUBSET Int
  BY FS_Subset
<1> QED
  BY <1>1, MaxExists
=============================================================================
