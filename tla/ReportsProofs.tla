--------------------------- MODULE ReportsProofs ---------------------------
(***************************************************************************)
(* Proofs about Reports, for all tables, users, calls and any number of    *)
(* writes in between.                                                      *)
(***************************************************************************)
EXTENDS Reports, FiniteSetTheorems, WellFoundedInduction, TLAPS

-----------------------------------------------------------------------------
(* Induction: a set of natural numbers that is not empty has a least one.  *)

LEMMA LeastNat ==
  ASSUME NEW T, T \subseteq Nat, T # {}
  PROVE  \E m \in T : \A k \in T : m <= k
<1> DEFINE R == OpToRel(<, Nat)
<1>1. IsWellFoundedOn(R, Nat)
  BY NatLessThanWellFounded
<1>2. PICK m \in T : \A k \in T : <<k, m>> \notin R
  <2> HIDE DEF R
  <2> QED
    BY <1>1, WFMin
<1>3. ASSUME NEW k \in T, k < m PROVE FALSE
  <2>1. <<k, m>> \in R
    BY <1>3 DEF OpToRel
  <2> QED
    BY <1>2, <2>1
<1>4. m \in Nat /\ T \subseteq Nat
  OBVIOUS
<1>5. \A k \in T : ~(k < m)
  BY <1>3
<1> HIDE DEF R
<1> QED
  BY <1>4, <1>5

-----------------------------------------------------------------------------
(* Sums.  A sum picks the elements of a set in some order; the result does *)
(* not depend on it.                                                       *)

Pick(s) == CHOOSE x \in s : TRUE
Folds(h, f, S) ==
  h = [s \in SUBSET S |-> IF s = {} THEN 0 ELSE f[Pick(s)] + h[s \ {Pick(s)}]]

Addends(f, S) == IsFiniteSet(S) /\ \A x \in S : f[x] \in Nat

LEMMA SumIsAFold ==
  ASSUME NEW f, NEW S, \E h : Folds(h, f, S)
  PROVE  \E h : Folds(h, f, S) /\ SumFunctionOnSet(f, S) = h[S]
<1>1. SumFunctionOnSet(f, S) = (CHOOSE h : Folds(h, f, S))[S]
  BY DEF SumFunctionOnSet, FoldFunctionOnSet, MapThenFoldSet, Folds, Pick
<1> QED
  BY <1>1

LEMMA Without ==
  ASSUME NEW S, IsFiniteSet(S), NEW x \in S
  PROVE  /\ IsFiniteSet(S \ {x})
         /\ Cardinality(S) \in Nat /\ Cardinality(S \ {x}) \in Nat
         /\ Cardinality(S \ {x}) = Cardinality(S) - 1
BY FS_RemoveElement, FS_CardinalityType

LEMMA PickIsIn ==
  ASSUME NEW S, S # {}
  PROVE  Pick(S) \in S
BY DEF Pick

(* The recursive function exists: build it for one more element at a time. *)
LEMMA FoldExists ==
  ASSUME NEW f, NEW S, Addends(f, S)
  PROVE  \E h \in [SUBSET S -> Nat] : Folds(h, f, S)
<1> DEFINE Upto(n) == {s \in SUBSET S : Cardinality(s) <= n}
           Body(h, s) == IF s = {} THEN 0 ELSE f[Pick(s)] + h[s \ {Pick(s)}]
           Partial(n) == \E h \in [Upto(n) -> Nat] : \A s \in Upto(n) : h[s] = Body(h, s)
           T == {n \in Nat : ~Partial(n)}
<1>0. \A s \in SUBSET S : IsFiniteSet(s) /\ Cardinality(s) \in Nat /\ (Cardinality(s) = 0 => s = {})
  BY FS_Subset, FS_CardinalityType, FS_EmptySet DEF Addends
<1>1. Partial(0)
  <2> DEFINE h == [s \in Upto(0) |-> 0]
  <2>1. h \in [Upto(0) -> Nat]
    OBVIOUS
  <2>2. \A s \in Upto(0) : s = {} /\ h[s] = 0
    BY <1>0
  <2> QED
    BY <2>1, <2>2
<1>2. ASSUME NEW n \in Nat, Partial(n) PROVE Partial(n + 1)
  <2>1. PICK h \in [Upto(n) -> Nat] : \A s \in Upto(n) : h[s] = Body(h, s)
    BY <1>2
  <2> DEFINE g == [s \in Upto(n + 1) |-> Body(h, s)]
  <2>2. ASSUME NEW s \in Upto(n + 1), s # {}
        PROVE  s \ {Pick(s)} \in Upto(n) /\ f[Pick(s)] \in Nat /\ Upto(n) \subseteq Upto(n + 1)
    BY <1>0, <2>2, PickIsIn, Without DEF Addends
  <2>3. ASSUME NEW s \in Upto(n + 1) PROVE Body(h, s) \in Nat
    <3>1. CASE s = {}
      BY <3>1
    <3>2. CASE s # {}
      <4>1. h[s \ {Pick(s)}] \in Nat
        BY <2>1, <2>2, <3>2
      <4> QED
        BY <2>2, <3>2, <4>1
    <3> QED
      BY <3>1, <3>2
  <2>4. g \in [Upto(n + 1) -> Nat]
    BY <2>3
  <2>5. ASSUME NEW s \in Upto(n) PROVE s \in Upto(n + 1) /\ g[s] = h[s]
    <3>1. s \in Upto(n + 1)
      BY <1>0
    <3> QED
      BY <2>1, <3>1
  <2>6. ASSUME NEW s \in Upto(n + 1) PROVE g[s] = Body(g, s)
    <3>1. CASE s = {}
      BY <3>1
    <3>2. CASE s # {}
      <4>1. g[s \ {Pick(s)}] = h[s \ {Pick(s)}]
        BY <2>2, <2>5, <3>2
      <4> QED
        BY <3>2, <4>1
    <3> QED
      BY <3>1, <3>2
  <2> HIDE DEF g
  <2> QED
    BY <2>4, <2>6
<1>3. T = {}
  <2> SUFFICES ASSUME T # {} PROVE FALSE
    OBVIOUS
  <2>1. T \subseteq Nat
    OBVIOUS
  <2>2. PICK m \in T : \A k \in T : m <= k
    <3> HIDE DEF T
    <3> QED
      BY <2>1, LeastNat
  <2> HIDE DEF Partial
  <2>3. m # 0 /\ m \in Nat
    BY <1>1
  <2>4. m - 1 \in Nat /\ m - 1 \notin T
    BY <2>1, <2>2, <2>3
  <2>5. Partial(m - 1 + 1)
    BY <1>2, <2>4
  <2> QED
    BY <2>3, <2>5
<1>4. Partial(Cardinality(S)) /\ Cardinality(S) \in Nat
  <2> HIDE DEF Partial
  <2> QED
    BY <1>0, <1>3
<1>5. Upto(Cardinality(S)) = SUBSET S
  BY <1>0, FS_Subset DEF Addends
<1>6. PICK h \in [SUBSET S -> Nat] : \A s \in SUBSET S : h[s] = Body(h, s)
  BY <1>4, <1>5
<1>7. h = [s \in SUBSET S |-> Body(h, s)]
  BY <1>6
<1> QED
  BY <1>7 DEF Folds

(* The folds of two sets agree on the subsets that they have in common.    *)
LEMMA FoldsAgree ==
  ASSUME NEW f, NEW S, Addends(f, S), NEW U \in SUBSET S, NEW g, NEW h,
         Folds(g, f, S), Folds(h, f, U)
  PROVE  g[U] = h[U]
<1> DEFINE T == {Cardinality(s) : s \in {s \in SUBSET U : g[s] # h[s]}}
<1>0. \A s \in SUBSET U : IsFiniteSet(s) /\ Cardinality(s) \in Nat
  BY FS_Subset, FS_CardinalityType DEF Addends
<1>1. SUFFICES ASSUME T # {} PROVE FALSE
  OBVIOUS
<1>2. T \subseteq Nat
  BY <1>0
<1>3. PICK m \in T : \A k \in T : m <= k
  <2> HIDE DEF T
  <2> QED
    BY <1>1, <1>2, LeastNat
<1>4. PICK s \in SUBSET U : g[s] # h[s] /\ Cardinality(s) = m
  OBVIOUS
<1>5. s # {}
  BY <1>4 DEF Folds
<1>6. s \ {Pick(s)} \in SUBSET U /\ Cardinality(s \ {Pick(s)}) = m - 1 /\ m \in Nat
  BY <1>0, <1>4, <1>5, PickIsIn, Without
<1>7. g[s \ {Pick(s)}] = h[s \ {Pick(s)}]
  <2> SUFFICES ASSUME g[s \ {Pick(s)}] # h[s \ {Pick(s)}] PROVE FALSE
    OBVIOUS
  <2>1. m - 1 \in T
    BY <1>6
  <2> QED
    BY <1>3, <1>6, <2>1
<1>8. /\ g[s] = f[Pick(s)] + g[s \ {Pick(s)}]
      /\ h[s] = f[Pick(s)] + h[s \ {Pick(s)}]
  BY <1>5 DEF Folds
<1> QED
  BY <1>4, <1>7, <1>8

LEMMA SumByPick ==
  ASSUME NEW f, NEW S, Addends(f, S)
  PROVE  /\ SumFunctionOnSet(f, S) \in Nat
         /\ S = {} => SumFunctionOnSet(f, S) = 0
         /\ S # {} => SumFunctionOnSet(f, S) = f[Pick(S)] + SumFunctionOnSet(f, S \ {Pick(S)})
<1>1. PICK g \in [SUBSET S -> Nat] : Folds(g, f, S)
  BY FoldExists
<1>2. ASSUME NEW U \in SUBSET S PROVE SumFunctionOnSet(f, U) = g[U]
  <2>1. Addends(f, U)
    BY FS_Subset DEF Addends
  <2>2. PICK h : Folds(h, f, U) /\ SumFunctionOnSet(f, U) = h[U]
    BY <2>1, FoldExists, SumIsAFold
  <2> QED
    BY <1>1, <2>2, FoldsAgree
<1>3. g[S] = IF S = {} THEN 0 ELSE f[Pick(S)] + g[S \ {Pick(S)}]
  BY <1>1 DEF Folds
<1> QED
  BY <1>1, <1>2, <1>3

(* Any element may be taken out first. *)
LEMMA SumStep ==
  ASSUME NEW f, NEW S, Addends(f, S), NEW x \in S
  PROVE  SumFunctionOnSet(f, S) = f[x] + SumFunctionOnSet(f, S \ {x})
<1> DEFINE Wrong(s) == \E y \in s : SumFunctionOnSet(f, s) # f[y] + SumFunctionOnSet(f, s \ {y})
           T == {Cardinality(s) : s \in {s \in SUBSET S : Wrong(s)}}
<1>0. \A s \in SUBSET S : IsFiniteSet(s) /\ Cardinality(s) \in Nat /\ Addends(f, s)
  BY FS_Subset, FS_CardinalityType DEF Addends
<1>1. SUFFICES ASSUME T # {} PROVE FALSE
  OBVIOUS
<1>2. T \subseteq Nat
  BY <1>0
<1>3. PICK m \in T : \A k \in T : m <= k
  <2> HIDE DEF T
  <2> QED
    BY <1>1, <1>2, LeastNat
<1>4. PICK s \in SUBSET S : Wrong(s) /\ Cardinality(s) = m
  OBVIOUS
<1>5. PICK y \in s : SumFunctionOnSet(f, s) # f[y] + SumFunctionOnSet(f, s \ {y})
  BY <1>4
<1> DEFINE p == Pick(s)
<1>6. p \in s /\ SumFunctionOnSet(f, s) = f[p] + SumFunctionOnSet(f, s \ {p})
  BY <1>0, <1>5, SumByPick, PickIsIn
<1>7. p # y
  BY <1>5, <1>6
<1>8. \A z \in s : Cardinality(s \ {z}) = m - 1 /\ s \ {z} \in SUBSET S
  BY <1>0, <1>4, Without
<1>9. \A z \in s : ~Wrong(s \ {z})
  <2> SUFFICES ASSUME NEW z \in s, Wrong(s \ {z}) PROVE FALSE
    OBVIOUS
  <2>1. m - 1 \in T
    BY <1>8
  <2> HIDE DEF T
  <2> QED
    BY <1>2, <1>3, <2>1
<1> HIDE DEF p
<1>10. /\ SumFunctionOnSet(f, s \ {p}) = f[y] + SumFunctionOnSet(f, (s \ {p}) \ {y})
       /\ SumFunctionOnSet(f, s \ {y}) = f[p] + SumFunctionOnSet(f, (s \ {y}) \ {p})
  BY <1>6, <1>7, <1>9
<1>11. (s \ {p}) \ {y} = (s \ {y}) \ {p}
  OBVIOUS
<1>12. f[p] \in Nat /\ f[y] \in Nat /\ SumFunctionOnSet(f, (s \ {y}) \ {p}) \in Nat
  BY <1>0, <1>6, SumByPick DEF Addends
<1> QED
  BY <1>5, <1>6, <1>10, <1>11, <1>12, SMTT(30)

(* A measure that grows by f[x] with each element x is the sum of f. *)
Measures(h, f, S) ==
  /\ h \in [SUBSET S -> Nat] /\ h[{}] = 0
  /\ \A s \in SUBSET S : \A x \in s : h[s] = f[x] + h[s \ {x}]

LEMMA SumIsMeasure ==
  ASSUME NEW f, NEW S, Addends(f, S), NEW h, Measures(h, f, S)
  PROVE  SumFunctionOnSet(f, S) = h[S]
<1> DEFINE T == {Cardinality(s) : s \in {s \in SUBSET S : SumFunctionOnSet(f, s) # h[s]}}
<1>0. \A s \in SUBSET S : IsFiniteSet(s) /\ Cardinality(s) \in Nat /\ Addends(f, s)
  BY FS_Subset, FS_CardinalityType DEF Addends
<1>1. SUFFICES ASSUME T # {} PROVE FALSE
  OBVIOUS
<1>2. T \subseteq Nat
  BY <1>0
<1>3. PICK m \in T : \A k \in T : m <= k
  <2> HIDE DEF T
  <2> QED
    BY <1>1, <1>2, LeastNat
<1>4. PICK s \in SUBSET S : SumFunctionOnSet(f, s) # h[s] /\ Cardinality(s) = m
  OBVIOUS
<1>5. s # {}
  BY <1>0, <1>4, SumByPick DEF Measures
<1>6. /\ Pick(s) \in s /\ s \ {Pick(s)} \in SUBSET S
      /\ Cardinality(s \ {Pick(s)}) = m - 1 /\ m \in Nat
  BY <1>0, <1>4, <1>5, PickIsIn, Without
<1>7. SumFunctionOnSet(f, s \ {Pick(s)}) = h[s \ {Pick(s)}]
  <2> SUFFICES ASSUME SumFunctionOnSet(f, s \ {Pick(s)}) # h[s \ {Pick(s)}] PROVE FALSE
    OBVIOUS
  <2>1. m - 1 \in T
    BY <1>6
  <2> QED
    BY <1>3, <1>6, <2>1
<1>8. SumFunctionOnSet(f, s) = f[Pick(s)] + SumFunctionOnSet(f, s \ {Pick(s)})
  BY <1>0, <1>5, SumByPick
<1>9. h[s] = f[Pick(s)] + h[s \ {Pick(s)}]
  BY <1>6 DEF Measures
<1> QED
  BY <1>4, <1>7, <1>8, <1>9

LEMMA SumSame ==
  ASSUME NEW f, NEW g, NEW S, Addends(f, S), \A x \in S : f[x] = g[x]
  PROVE  SumFunctionOnSet(f, S) = SumFunctionOnSet(g, S)
<1> DEFINE h == [s \in SUBSET S |-> SumFunctionOnSet(g, s)]
<1>1. \A s \in SUBSET S : Addends(g, s)
  BY FS_Subset DEF Addends
<1>2. h \in [SUBSET S -> Nat] /\ h[{}] = 0
  <2>1. {} \in SUBSET S
    OBVIOUS
  <2>2. SumFunctionOnSet(g, {}) = 0
    BY <1>1, <2>1, SumByPick
  <2>3. \A s \in SUBSET S : SumFunctionOnSet(g, s) \in Nat
    BY <1>1, SumByPick
  <2> QED
    BY <2>1, <2>2, <2>3
<1>3. ASSUME NEW s \in SUBSET S, NEW x \in s PROVE h[s] = f[x] + h[s \ {x}]
  BY <1>1, SumStep
<1>4. S \in SUBSET S /\ h[S] = SumFunctionOnSet(g, S)
  OBVIOUS
<1> HIDE DEF h
<1>5. Measures(h, f, S)
  BY <1>2, <1>3 DEF Measures
<1>6. SumFunctionOnSet(f, S) = h[S]
  BY <1>5, SumIsMeasure
<1> QED
  BY <1>4, <1>6

(* A measure of disjoint parts adds up to the measure of the whole.        *)
Additive(h, T) ==
  /\ h \in [SUBSET T -> Nat] /\ h[{}] = 0
  /\ \A A, B \in SUBSET T : A \cap B = {} => h[A \cup B] = h[A] + h[B]

(* The rows of a table by their key. *)
Having(T, key, k) == {r \in T : key[r] = k}

LEMMA SumOverParts ==
  ASSUME NEW T, NEW K, IsFiniteSet(K), NEW key \in [T -> K], NEW h, Additive(h, T),
         NEW f, \A k \in K : f[k] = h[Having(T, key, k)]
  PROVE  SumFunctionOnSet(f, K) = h[T]
<1> DEFINE Part(L) == {r \in T : key[r] \in L}
           g == [L \in SUBSET K |-> h[Part(L)]]
<1>1. Addends(f, K)
  <2> SUFFICES ASSUME NEW k \in K PROVE f[k] \in Nat
    BY DEF Addends
  <2>1. Having(T, key, k) \in SUBSET T
    BY DEF Having
  <2> QED
    BY <2>1 DEF Additive
<1>2. Part({}) = {} /\ Part(K) = T /\ \A L \in SUBSET K : Part(L) \in SUBSET T
  OBVIOUS
<1>3. g \in [SUBSET K -> Nat] /\ g[{}] = 0 /\ g[K] = h[T]
  <2> HIDE DEF Part
  <2>1. \A L \in SUBSET K : h[Part(L)] \in Nat
    BY <1>2 DEF Additive
  <2>2. {} \in SUBSET K /\ K \in SUBSET K /\ h[Part({})] = 0
    BY <1>2 DEF Additive
  <2> QED
    BY <1>2, <2>1, <2>2
<1>4. ASSUME NEW L \in SUBSET K, NEW k \in L PROVE g[L] = f[k] + g[L \ {k}]
  <2> DEFINE A == Having(T, key, k)
             B == Part(L \ {k})
  <2>1. A \in SUBSET T /\ B \in SUBSET T /\ A \cap B = {} /\ Part(L) = A \cup B
    BY DEF Having
  <2>2. f[k] = h[A] /\ g[L] = h[Part(L)] /\ g[L \ {k}] = h[B]
    OBVIOUS
  <2> HIDE DEF A, B, Part, g
  <2> QED
    BY <2>1, <2>2, SMTT(30) DEF Additive
<1> HIDE DEF g
<1>5. Measures(g, f, K)
  BY <1>3, <1>4 DEF Measures
<1>6. SumFunctionOnSet(f, K) = g[K]
  BY <1>1, <1>5, SumIsMeasure
<1> QED
  BY <1>3, <1>6

LEMMA CardinalityIsAdditive ==
  ASSUME NEW T, IsFiniteSet(T)
  PROVE  Additive([s \in SUBSET T |-> Cardinality(s)], T)
<1>1. \A s \in SUBSET T : IsFiniteSet(s) /\ Cardinality(s) \in Nat
  BY FS_Subset, FS_CardinalityType
<1>2. ASSUME NEW A \in SUBSET T, NEW B \in SUBSET T, A \cap B = {}
      PROVE  Cardinality(A \cup B) = Cardinality(A) + Cardinality(B)
  <2>1. Cardinality(A \cup B) = Cardinality(A) + Cardinality(B) - Cardinality(A \cap B)
    BY <1>1, FS_Union
  <2> QED
    BY <1>1, <1>2, <2>1, FS_EmptySet
<1>3. Cardinality({}) = 0
  BY FS_EmptySet
<1> QED
  BY <1>1, <1>2, <1>3 DEF Additive

LEMMA SumIsAdditive ==
  ASSUME NEW w, NEW T, Addends(w, T)
  PROVE  Additive([s \in SUBSET T |-> SumFunctionOnSet(w, s)], T)
<1>1. \A s \in SUBSET T : Addends(w, s) /\ SumFunctionOnSet(w, s) \in Nat
  BY FS_Subset, SumByPick DEF Addends
<1>2. ASSUME NEW B \in SUBSET T
      PROVE  \A A \in SUBSET (T \ B) :
               SumFunctionOnSet(w, A \cup B) = SumFunctionOnSet(w, A) + SumFunctionOnSet(w, B)
  <2> DEFINE Fails(A) == SumFunctionOnSet(w, A \cup B) # SumFunctionOnSet(w, A) + SumFunctionOnSet(w, B)
             D == {Cardinality(A) : A \in {A \in SUBSET (T \ B) : Fails(A)}}
  <2>0. \A A \in SUBSET (T \ B) : IsFiniteSet(A) /\ Cardinality(A) \in Nat
    BY FS_Subset, FS_CardinalityType DEF Addends
  <2>1. SUFFICES ASSUME D # {} PROVE FALSE
    OBVIOUS
  <2>2. D \subseteq Nat
    BY <2>0
  <2>3. PICK m \in D : \A k \in D : m <= k
    <3> HIDE DEF D
    <3> QED
      BY <2>1, <2>2, LeastNat
  <2>4. PICK A \in SUBSET (T \ B) : Fails(A) /\ Cardinality(A) = m
    OBVIOUS
  <2>5. A # {}
    <3> SUFFICES ASSUME A = {} PROVE FALSE
      OBVIOUS
    <3>1. SumFunctionOnSet(w, {}) = 0 /\ SumFunctionOnSet(w, B) \in Nat
      BY <1>1, SumByPick
    <3>2. A \cup B = B
      OBVIOUS
    <3> QED
      BY <2>4, <3>1, <3>2
  <2>6. PICK x : x \in A
    BY <2>5
  <2>7. A \ {x} \in SUBSET (T \ B) /\ Cardinality(A \ {x}) = m - 1 /\ m \in Nat
    BY <2>0, <2>4, <2>6, Without
  <2>8. ~Fails(A \ {x})
    <3> SUFFICES ASSUME Fails(A \ {x}) PROVE FALSE
      OBVIOUS
    <3>1. m - 1 \in D
      BY <2>7
    <3> HIDE DEF D
    <3> QED
      BY <2>3, <2>7, <3>1
  <2>9. /\ A \in SUBSET T /\ A \cup B \in SUBSET T /\ x \in A \cup B
        /\ (A \cup B) \ {x} = (A \ {x}) \cup B /\ A \ {x} \in SUBSET T
    BY <2>6
  <2>10. /\ SumFunctionOnSet(w, A) = w[x] + SumFunctionOnSet(w, A \ {x})
         /\ SumFunctionOnSet(w, A \cup B) = w[x] + SumFunctionOnSet(w, (A \ {x}) \cup B)
    <3>1. SumFunctionOnSet(w, A) = w[x] + SumFunctionOnSet(w, A \ {x})
      BY <1>1, <2>6, <2>9, SumStep
    <3>2. SumFunctionOnSet(w, A \cup B) = w[x] + SumFunctionOnSet(w, (A \cup B) \ {x})
      BY <1>1, <2>9, SumStep
    <3> QED
      BY <2>9, <3>1, <3>2
  <2>11. /\ w[x] \in Nat /\ SumFunctionOnSet(w, A \ {x}) \in Nat /\ SumFunctionOnSet(w, B) \in Nat
    BY <1>1, <2>6, <2>9 DEF Addends
  <2> HIDE DEF D
  <2> QED
    BY <2>4, <2>8, <2>10, <2>11
<1>3. ASSUME NEW A \in SUBSET T, NEW B \in SUBSET T, A \cap B = {}
      PROVE  SumFunctionOnSet(w, A \cup B) = SumFunctionOnSet(w, A) + SumFunctionOnSet(w, B)
  <2>1. A \in SUBSET (T \ B)
    BY <1>3
  <2> QED
    BY <1>2, <2>1
<1>4. SumFunctionOnSet(w, {}) = 0
  <2>1. {} \in SUBSET T
    OBVIOUS
  <2> QED
    BY <1>1, <2>1, SumByPick
<1> QED
  BY <1>1, <1>3, <1>4 DEF Additive

(* The two that the reports use: rows counted, and amounts summed, by key. *)
LEMMA CountByKey ==
  ASSUME NEW T, IsFiniteSet(T), NEW K, IsFiniteSet(K), NEW key \in [T -> K],
         NEW f, \A k \in K : f[k] = Cardinality(Having(T, key, k))
  PROVE  SumFunctionOnSet(f, K) = Cardinality(T)
<1> DEFINE h == [s \in SUBSET T |-> Cardinality(s)]
<1>1. Additive(h, T)
  BY CardinalityIsAdditive
<1>2. \A k \in K : f[k] = h[Having(T, key, k)]
  BY DEF Having
<1>3. h[T] = Cardinality(T)
  OBVIOUS
<1> HIDE DEF h
<1>4. SumFunctionOnSet(f, K) = h[T]
  BY <1>1, <1>2, SumOverParts
<1> QED
  BY <1>3, <1>4

LEMMA SumByKey ==
  ASSUME NEW w, NEW T, Addends(w, T), NEW K, IsFiniteSet(K), NEW key \in [T -> K],
         NEW f, \A k \in K : f[k] = SumFunctionOnSet(w, Having(T, key, k))
  PROVE  SumFunctionOnSet(f, K) = SumFunctionOnSet(w, T)
<1> DEFINE h == [s \in SUBSET T |-> SumFunctionOnSet(w, s)]
<1>1. Additive(h, T)
  BY SumIsAdditive
<1>2. \A k \in K : f[k] = h[Having(T, key, k)]
  BY DEF Having
<1>3. h[T] = SumFunctionOnSet(w, T)
  OBVIOUS
<1> HIDE DEF h
<1>4. SumFunctionOnSet(f, K) = h[T]
  BY <1>1, <1>2, SumOverParts
<1> QED
  BY <1>3, <1>4

-----------------------------------------------------------------------------
(* The calendar: which instants a window holds.                            *)

LEMMA DateFields ==
  ASSUME NEW date \in Dates
  PROVE  /\ date.y \in Nat /\ date.m \in 1..12 /\ date.d \in 1..31
         /\ date.d <= DaysInMonth(date.y, date.m)
         /\ date = Date(date.y, date.m, date.d)
BY DEF Dates, Date

(* The order of the numbers is that of the dates. *)
NotAfter(y1, m1, d1, y2, m2, d2) ==
  y1 < y2 \/ (y1 = y2 /\ (m1 < m2 \/ (m1 = m2 /\ d1 <= d2)))

LEMMA NumberOrder ==
  ASSUME NEW y1 \in Nat, NEW m1 \in 1..12, NEW d1 \in 1..31,
         NEW y2 \in Nat, NEW m2 \in 1..12, NEW d2 \in 1..31
  PROVE  /\ Number(Date(y1, m1, d1)) \in Int /\ Number(Date(y2, m2, d2)) \in Int
         /\ Number(Date(y1, m1, d1)) <= Number(Date(y2, m2, d2)) <=> NotAfter(y1, m1, d1, y2, m2, d2)
         /\ Number(Date(y1, m1, d1)) < Number(Date(y2, m2, d2)) <=> ~NotAfter(y2, m2, d2, y1, m1, d1)
<1> DEFINE a == Number(Date(y1, m1, d1))
           b == Number(Date(y2, m2, d2))
<1>1. /\ a = 512 * y1 + 32 * m1 + d1 /\ a \in Int
      /\ b = 512 * y2 + 32 * m2 + d2 /\ b \in Int
  BY DEF Number, Date
<1> HIDE DEF a, b
<1>2. CASE y1 < y2
  <2>1. 512 * y1 + 512 <= 512 * y2
    BY <1>2
  <2>2. a < b
    BY <1>1, <2>1
  <2> QED
    BY <1>1, <1>2, <2>2 DEF NotAfter, a, b
<1>3. CASE y2 < y1
  <2>1. 512 * y2 + 512 <= 512 * y1
    BY <1>3
  <2>2. b < a
    BY <1>1, <2>1
  <2> QED
    BY <1>1, <1>3, <2>2 DEF NotAfter, a, b
<1>4. CASE y1 = y2 /\ m1 < m2
  <2>1. 32 * m1 + 32 <= 32 * m2
    BY <1>4
  <2>2. a < b
    BY <1>1, <1>4, <2>1
  <2> QED
    BY <1>1, <1>4, <2>2 DEF NotAfter, a, b
<1>5. CASE y1 = y2 /\ m2 < m1
  <2>1. 32 * m2 + 32 <= 32 * m1
    BY <1>5
  <2>2. b < a
    BY <1>1, <1>5, <2>1
  <2> QED
    BY <1>1, <1>5, <2>2 DEF NotAfter, a, b
<1>6. CASE y1 = y2 /\ m1 = m2
  <2>1. (a <= b <=> d1 <= d2) /\ (a < b <=> d1 < d2)
    BY <1>1, <1>6
  <2> QED
    BY <1>1, <1>6, <2>1 DEF NotAfter, a, b
<1> QED
  BY <1>2, <1>3, <1>4, <1>5, <1>6

LEMMA DateOrder ==
  ASSUME NEW date \in Dates, NEW y \in Nat, NEW m \in 1..12, NEW d \in 1..31
  PROVE  /\ Number(Date(y, m, d)) \in Int /\ Number(date) \in Int
         /\ Number(Date(y, m, d)) <= Number(date) <=> NotAfter(y, m, d, date.y, date.m, date.d)
         /\ Number(date) <= Number(Date(y, m, d)) <=> NotAfter(date.y, date.m, date.d, y, m, d)
         /\ Number(date) < Number(Date(y, m, d)) <=> ~NotAfter(y, m, d, date.y, date.m, date.d)
<1>1. /\ date.y \in Nat /\ date.m \in 1..12 /\ date.d \in 1..31
      /\ Number(date) = Number(Date(date.y, date.m, date.d))
  BY DateFields
<1> QED
  BY <1>1, NumberOrder, ZenonT(30)

LEMMA NumberIsInjective ==
  ASSUME NEW a \in Dates, NEW b \in Dates
  PROVE  /\ Number(a) \in Int /\ Number(b) \in Int
         /\ Number(a) = Number(b) <=> a = b
<1>1. /\ a.y \in Nat /\ a.m \in 1..12 /\ a.d \in 1..31
      /\ b.y \in Nat /\ b.m \in 1..12 /\ b.d \in 1..31
      /\ a = Date(a.y, a.m, a.d) /\ b = Date(b.y, b.m, b.d)
  BY DateFields
<1>2. /\ Number(a) \in Int /\ Number(b) \in Int
      /\ Number(a) <= Number(b) <=> NotAfter(a.y, a.m, a.d, b.y, b.m, b.d)
      /\ Number(b) <= Number(a) <=> NotAfter(b.y, b.m, b.d, a.y, a.m, a.d)
  BY <1>1, NumberOrder, ZenonT(30)
<1>3. ASSUME Number(a) = Number(b) PROVE a.y = b.y /\ a.m = b.m /\ a.d = b.d
  BY <1>1, <1>2, <1>3 DEF NotAfter
<1> QED
  BY <1>1, <1>2, <1>3

LEMMA InsideByNumber ==
  ASSUME NEW t \in Instants, NEW since, NEW until, Number(since) \in Int, Number(until) \in Int
  PROVE  Inside(t, Window(since, until)) <=>
           Number(since) <= Number(t.date) /\ Number(t.date) < Number(until)
<1>1. t.time \in {0, 1} /\ t.date \in Dates
  BY DEF Instants
<1>2. Number(t.date) \in Int
  BY <1>1, DateFields, SMTT(30) DEF Number
<1> QED
  BY <1>1, <1>2 DEF Inside, Window, Midnight, Instant, Before

LEMMA YearInside ==
  ASSUME NEW t \in Instants, NEW y \in Nat
  PROVE  Inside(t, YearWindow(y)) <=> t.date.y = y
<1> DEFINE d == t.date
<1>1. d \in Dates
  BY DEF Instants
<1>2. d.y \in Nat /\ d.m \in 1..12 /\ d.d \in 1..31 /\ d = Date(d.y, d.m, d.d)
  BY <1>1, DateFields
<1> HIDE DEF d
<1>3. /\ Number(Date(y, 1, 1)) \in Int /\ Number(Date(y + 1, 1, 1)) \in Int
      /\ Number(Date(y, 1, 1)) <= Number(d) <=> NotAfter(y, 1, 1, d.y, d.m, d.d)
      /\ Number(d) < Number(Date(y + 1, 1, 1)) <=> ~NotAfter(y + 1, 1, 1, d.y, d.m, d.d)
  <2>1. y + 1 \in Nat /\ 1 \in 1..12 /\ 1 \in 1..31
    OBVIOUS
  <2> QED
    BY <1>1, <2>1, DateOrder
<1>4. NotAfter(y, 1, 1, d.y, d.m, d.d) /\ ~NotAfter(y + 1, 1, 1, d.y, d.m, d.d) <=> d.y = y
  BY <1>2 DEF NotAfter
<1>5. Inside(t, YearWindow(y)) <=>
        Number(Date(y, 1, 1)) <= Number(d) /\ Number(d) < Number(Date(y + 1, 1, 1))
  BY <1>3, InsideByNumber DEF YearWindow, d
<1> QED
  BY <1>3, <1>4, <1>5 DEF d

LEMMA MonthInside ==
  ASSUME NEW t \in Instants, NEW y \in Nat, NEW m \in 1..12
  PROVE  Inside(t, MonthWindow(y, m)) <=> t.date.y = y /\ t.date.m = m
<1> DEFINE d == t.date
           Y == IF m = 12 THEN y + 1 ELSE y
           M == IF m = 12 THEN 1 ELSE m + 1
<1>1. d \in Dates
  BY DEF Instants
<1>2. d.y \in Nat /\ d.m \in 1..12 /\ d.d \in 1..31 /\ d = Date(d.y, d.m, d.d)
  BY <1>1, DateFields
<1>3. Y \in Nat /\ M \in 1..12 /\ MonthWindow(y, m) = Window(Date(y, m, 1), Date(Y, M, 1))
  BY DEF MonthWindow
<1>4. NotAfter(y, m, 1, d.y, d.m, d.d) /\ ~NotAfter(Y, M, 1, d.y, d.m, d.d)
        <=> d.y = y /\ d.m = m
  <2> HIDE DEF d
  <2> QED
    BY <1>2 DEF NotAfter
<1> HIDE DEF d, Y, M
<1>5. /\ Number(Date(y, m, 1)) \in Int /\ Number(Date(Y, M, 1)) \in Int
      /\ Number(Date(y, m, 1)) <= Number(d) <=> NotAfter(y, m, 1, d.y, d.m, d.d)
      /\ Number(d) < Number(Date(Y, M, 1)) <=> ~NotAfter(Y, M, 1, d.y, d.m, d.d)
  <2>1. 1 \in 1..31
    OBVIOUS
  <2> QED
    BY <1>1, <1>3, <2>1, DateOrder
<1>6. Inside(t, MonthWindow(y, m)) <=>
        Number(Date(y, m, 1)) <= Number(d) /\ Number(d) < Number(Date(Y, M, 1))
  BY <1>3, <1>5, InsideByNumber DEF d
<1> QED
  BY <1>4, <1>5, <1>6 DEF d

(* The next day is the next number that a date has. *)
LEMMA NextDayIsNext ==
  ASSUME NEW day \in Dates, NEW date \in Dates
  PROVE  /\ Number(NextDay(day)) \in Int
         /\ Number(date) < Number(NextDay(day)) <=> Number(date) <= Number(day)
<1>1. /\ day.y \in Nat /\ day.m \in 1..12 /\ day.d \in 1..31
      /\ day.d <= DaysInMonth(day.y, day.m) /\ day = Date(day.y, day.m, day.d)
  BY DateFields
<1>2. /\ date.y \in Nat /\ date.m \in 1..12 /\ date.d \in 1..31
      /\ date.d <= DaysInMonth(date.y, date.m) /\ date = Date(date.y, date.m, date.d)
  BY DateFields
<1>3. DaysInMonth(day.y, day.m) \in 28..31
  BY DEF DaysInMonth
<1>4. \E Y \in Nat, M \in 1..12, D \in 1..31 :
        /\ NextDay(day) = Date(Y, M, D)
        /\ NotAfter(Y, M, D, date.y, date.m, date.d) <=>
              ~NotAfter(date.y, date.m, date.d, day.y, day.m, day.d)
  <2>1. CASE day.d < DaysInMonth(day.y, day.m)
    <3>1. NextDay(day) = Date(day.y, day.m, day.d + 1) /\ day.d + 1 \in 1..31
      BY <1>1, <1>3, <2>1 DEF NextDay, Date
    <3>2. NotAfter(day.y, day.m, day.d + 1, date.y, date.m, date.d) <=>
            ~NotAfter(date.y, date.m, date.d, day.y, day.m, day.d)
      BY <1>1, <1>2 DEF NotAfter
    <3> QED
      BY <1>1, <3>1, <3>2
  <2>2. CASE ~(day.d < DaysInMonth(day.y, day.m)) /\ day.m < 12
    <3>1. NextDay(day) = Date(day.y, day.m + 1, 1) /\ day.m + 1 \in 1..12
      BY <1>1, <2>2 DEF NextDay
    <3>2. date.y = day.y /\ date.m = day.m => date.d <= day.d
      BY <1>1, <1>2, <1>3, <2>2
    <3>3. NotAfter(day.y, day.m + 1, 1, date.y, date.m, date.d) <=>
            ~NotAfter(date.y, date.m, date.d, day.y, day.m, day.d)
      BY <1>1, <1>2, <3>2 DEF NotAfter
    <3> QED
      BY <1>1, <3>1, <3>3, SMTT(30)
  <2>3. CASE ~(day.d < DaysInMonth(day.y, day.m)) /\ day.m = 12
    <3>1. NextDay(day) = Date(day.y + 1, 1, 1) /\ day.y + 1 \in Nat
      BY <1>1, <2>3 DEF NextDay
    <3>2. day.d = 31
      BY <1>1, <2>3 DEF DaysInMonth
    <3>3. NotAfter(day.y + 1, 1, 1, date.y, date.m, date.d) <=>
            ~NotAfter(date.y, date.m, date.d, day.y, day.m, day.d)
      BY <1>1, <1>2, <2>3, <3>2 DEF NotAfter
    <3> QED
      BY <3>1, <3>3, SMTT(30)
  <2>4. day.m < 12 \/ day.m = 12
    BY <1>1
  <2> QED
    BY <2>1, <2>2, <2>3, <2>4
<1>5. PICK Y \in Nat, M \in 1..12, D \in 1..31 :
        /\ NextDay(day) = Date(Y, M, D)
        /\ NotAfter(Y, M, D, date.y, date.m, date.d) <=>
              ~NotAfter(date.y, date.m, date.d, day.y, day.m, day.d)
  BY <1>4
<1>6. /\ Number(NextDay(day)) \in Int
      /\ Number(date) < Number(NextDay(day)) <=> ~NotAfter(Y, M, D, date.y, date.m, date.d)
  BY <1>2, <1>5, NumberOrder
<1>7. Number(date) <= Number(day) <=> NotAfter(date.y, date.m, date.d, day.y, day.m, day.d)
  BY <1>1, <1>2, NumberOrder
<1> QED
  BY <1>5, <1>6, <1>7

(* A listing from one day to another has the days between, both included,  *)
(* and a listing of one day has the instants of that day.                  *)
LEMMA DaysInside ==
  ASSUME NEW t \in Instants, NEW from \in Dates, NEW to \in Dates
  PROVE  /\ Inside(t, Days(from, to)) <=>
               Number(from) <= Number(t.date) /\ Number(t.date) <= Number(to)
         /\ Inside(t, Days(from, from)) <=> t.date = from
<1>1. t.date \in Dates
  BY DEF Instants
<1>2. \A date \in Dates : Number(date) \in Int
  BY DateFields DEF Number
<1>3. \A day \in Dates :
        /\ Number(NextDay(day)) \in Int
        /\ Number(t.date) < Number(NextDay(day)) <=> Number(t.date) <= Number(day)
  BY <1>1, NextDayIsNext
<1>4. \A day \in Dates : Inside(t, Days(from, day)) <=>
        Number(from) <= Number(t.date) /\ Number(t.date) <= Number(day)
  BY <1>2, <1>3, InsideByNumber DEF Days
<1>5. Inside(t, Days(from, from)) <=> Number(from) = Number(t.date)
  BY <1>1, <1>2, <1>4
<1> QED
  BY <1>1, <1>4, <1>5, NumberIsInjective

LEMMA MonthDates ==
  ASSUME NEW y \in Nat, NEW m \in 1..12
  PROVE  Date(y, m, DaysInMonth(y, m)) \in Dates /\ Date(y, m, 1) \in Dates
<1>1. DaysInMonth(y, m) \in 28..31
  BY DEF DaysInMonth
<1> QED
  BY <1>1 DEF Dates, Date

(* From the first to the last day of a month is the month. *)
LEMMA MonthIsItsDays ==
  ASSUME NEW t \in Instants, NEW y \in Nat, NEW m \in 1..12
  PROVE  Inside(t, Days(Date(y, m, 1), Date(y, m, DaysInMonth(y, m)))) <=>
           t.date.y = y /\ t.date.m = m
<1> DEFINE last == Date(y, m, DaysInMonth(y, m))
<1>1. DaysInMonth(y, m) \in 28..31
  BY DEF DaysInMonth
<1>2. last \in Dates /\ Date(y, m, 1) \in Dates
  BY MonthDates
<1>3. t.date \in Dates
  BY DEF Instants
<1>4. /\ t.date.y \in Nat /\ t.date.m \in 1..12 /\ t.date.d \in 1..31
      /\ t.date.d <= DaysInMonth(t.date.y, t.date.m)
  BY <1>3, DateFields
<1> DEFINE d == t.date
           D == DaysInMonth(y, m)
<1>5. /\ Number(Date(y, m, 1)) <= Number(d) <=> NotAfter(y, m, 1, d.y, d.m, d.d)
      /\ Number(d) <= Number(last) <=> NotAfter(d.y, d.m, d.d, y, m, D)
  <2>1. d \in Dates /\ D \in 1..31 /\ 1 \in 1..31
    BY <1>1, <1>3
  <2> HIDE DEF D
  <2> QED
    BY <2>1, DateOrder DEF D
<1>6. NotAfter(y, m, 1, d.y, d.m, d.d) /\ NotAfter(d.y, d.m, d.d, y, m, D) <=> d.y = y /\ d.m = m
  BY <1>1, <1>4 DEF NotAfter
<1> HIDE DEF last
<1>7. Inside(t, Days(Date(y, m, 1), last)) <=>
        Number(Date(y, m, 1)) <= Number(d) /\ Number(d) <= Number(last)
  BY <1>2, DaysInside
<1> QED
  BY <1>5, <1>6, <1>7 DEF last

-----------------------------------------------------------------------------
(* Tables, their parts, and what the aggregates say of them.               *)

LEMMA RowFields ==
  ASSUME NEW r \in RefundRows
  PROVE  /\ r.id \in Nat /\ r.user \in Nat /\ r.status \in Statuses /\ r.category \in Categories
         /\ r.amount \in Nat /\ r.created \in Instants /\ r.created.date \in Dates
         /\ r.created.date.y \in Nat /\ r.created.date.m \in 1..12 /\ r.created.date.d \in 1..31
         /\ r.created.date.d <= DaysInMonth(r.created.date.y, r.created.date.m)
<1>1. r.created \in Instants /\ r.created.date \in Dates
  BY DEF RefundRows, Instants
<1>2. /\ r.created.date.y \in Nat /\ r.created.date.m \in 1..12 /\ r.created.date.d \in 1..31
      /\ r.created.date.d <= DaysInMonth(r.created.date.y, r.created.date.m)
  BY <1>1, DateFields
<1> QED
  BY <1>1, <1>2 DEF RefundRows

(* Finite sets of refunds: the refunds, and what the reports select.       *)
Rows(T) == IsFiniteSet(T) /\ T \subseteq RefundRows

LEMMA PartsAreRows ==
  ASSUME NEW T, Rows(T), NEW S \in SUBSET T
  PROVE  Rows(S) /\ Cardinality(S) \in Nat
BY FS_Subset, FS_CardinalityType DEF Rows

LEMMA SmallSets ==
  /\ IsFiniteSet(Statuses) /\ IsFiniteSet(Categories)
  /\ IsFiniteSet(1..12) /\ \A n \in Int : IsFiniteSet(1..n)
<1>1. IsFiniteSet({"pending"}) /\ IsFiniteSet({"food"})
  BY FS_Singleton
<1>2. IsFiniteSet({"pending"} \cup {"approved"}) /\ IsFiniteSet({"food"} \cup {"transport"})
  BY <1>1, FS_AddElement
<1>3. IsFiniteSet({"pending"} \cup {"approved"} \cup {"paid"})
  BY <1>2, FS_AddElement
<1>4. IsFiniteSet({"pending"} \cup {"approved"} \cup {"paid"} \cup {"rejected"})
  BY <1>3, FS_AddElement
<1>5. /\ Statuses = {"pending"} \cup {"approved"} \cup {"paid"} \cup {"rejected"}
      /\ Categories = {"food"} \cup {"transport"}
  BY DEF Statuses, Categories
<1>6. \A n \in Int : IsFiniteSet(1..n)
  BY FS_Interval
<1>7. IsFiniteSet(1..12)
  <2> DEFINE n == 12
  <2>1. n \in Int
    OBVIOUS
  <2>2. IsFiniteSet(1..n)
    <3> HIDE DEF n
    <3> QED
      BY <1>6, <2>1
  <2> QED
    BY <2>2
<1> QED
  BY <1>2, <1>4, <1>5, <1>6, <1>7

LEMMA CountFields ==
  ASSUME NEW T
  PROVE  /\ Count(T).count = Cardinality(T)
         /\ Count(T).amount = SumFunctionOnSet([r \in T |-> r.amount], T)
BY DEF Count, SumFunction

LEMMA AmountOfPart ==
  ASSUME NEW T, Rows(T), NEW S \in SUBSET T
  PROVE  /\ Addends([r \in T |-> r.amount], T)
         /\ Count(S).amount = SumFunctionOnSet([r \in T |-> r.amount], S)
<1> DEFINE w == [r \in T |-> r.amount]
           v == [r \in S |-> r.amount]
<1>1. Addends(w, T)
  BY RowFields DEF Addends, Rows
<1>2. Addends(v, S)
  <2>1. Rows(S)
    BY PartsAreRows
  <2> QED
    BY <2>1, RowFields DEF Addends, Rows
<1>3. \A r \in S : v[r] = w[r]
  OBVIOUS
<1>4. Count(S).amount = SumFunctionOnSet(v, S)
  BY CountFields
<1> HIDE DEF w, v
<1>5. SumFunctionOnSet(v, S) = SumFunctionOnSet(w, S)
  BY <1>2, <1>3, SumSame
<1> QED
  BY <1>1, <1>4, <1>5 DEF w

(* The totals by status, and those by category, add up to all the rows.    *)
LEMMA TotalByStatus ==
  ASSUME NEW T, Rows(T)
  PROVE  Total4(ByStatus(T)) = Cardinality(T)
<1> DEFINE key == [r \in T |-> r.status]
           f == [s \in Statuses |-> ByStatus(T)[s].count]
<1>1. key \in [T -> Statuses]
  BY RowFields DEF Rows
<1>2. Total4(ByStatus(T)) = SumFunctionOnSet(f, Statuses)
  BY DEF Total4, ByStatus, SumFunction
<1>3. ASSUME NEW s \in Statuses PROVE f[s] = Cardinality(Having(T, key, s))
  <2>1. Having(T, key, s) = {r \in T : r.status = s}
    BY DEF Having
  <2> QED
    BY <2>1, CountFields DEF ByStatus
<1> HIDE DEF f, key
<1>4. SumFunctionOnSet(f, Statuses) = Cardinality(T)
  BY <1>1, <1>3, SmallSets, CountByKey DEF Rows
<1> QED
  BY <1>2, <1>4

LEMMA TotalByCategory ==
  ASSUME NEW T, Rows(T)
  PROVE  Total4(ByCategory(T)) = Cardinality(T)
<1> DEFINE key == [r \in T |-> r.category]
           f == [k \in Categories |-> ByCategory(T)[k].count]
<1>1. key \in [T -> Categories]
  BY RowFields DEF Rows
<1>2. Total4(ByCategory(T)) = SumFunctionOnSet(f, Categories)
  BY DEF Total4, ByCategory, SumFunction
<1>3. ASSUME NEW k \in Categories PROVE f[k] = Cardinality(Having(T, key, k))
  <2>1. Having(T, key, k) = {r \in T : r.category = k}
    BY DEF Having
  <2> QED
    BY <2>1, CountFields DEF ByCategory
<1> HIDE DEF f, key
<1>4. SumFunctionOnSet(f, Categories) = Cardinality(T)
  BY <1>1, <1>3, SmallSets, CountByKey DEF Rows
<1> QED
  BY <1>2, <1>4

(* So do the months of a year, for the rows of that year, in all and for   *)
(* each status, in count and in amount.                                    *)
OfYear(T, y) == Rows(T) /\ \A r \in T : r.created.date.y = y

LEMMA MonthOfYear ==
  ASSUME NEW T, NEW y, OfYear(T, y), NEW m \in 1..12
  PROVE  LET key == [r \in T |-> r.created.date.m]
         IN  /\ ByMonth(T, y)[m] = ByStatus(Having(T, key, m))
             /\ key \in [T -> 1..12]
             /\ Rows(Having(T, key, m))
<1> DEFINE key == [r \in T |-> r.created.date.m]
<1>1. Having(T, key, m) = {r \in T : r.created.date.y = y /\ r.created.date.m = m}
  BY DEF Having, OfYear
<1>2. ByMonth(T, y)[m] = ByStatus(Having(T, key, m))
  BY <1>1 DEF ByMonth
<1>3. key \in [T -> 1..12]
  BY RowFields DEF OfYear, Rows
<1>4. Rows(Having(T, key, m))
  BY PartsAreRows DEF OfYear, Having
<1> QED
  BY <1>2, <1>3, <1>4

LEMMA TotalByMonth ==
  ASSUME NEW T, NEW y, OfYear(T, y)
  PROVE  MonthTotal(ByMonth(T, y)) = Cardinality(T)
<1> DEFINE key == [r \in T |-> r.created.date.m]
           f == [m \in 1..12 |-> Total4(ByMonth(T, y)[m])]
<1>1. key \in [T -> 1..12]
  BY RowFields DEF OfYear, Rows
<1>2. MonthTotal(ByMonth(T, y)) = SumFunctionOnSet(f, 1..12)
  BY DEF MonthTotal, SumFunction
<1>3. ASSUME NEW m \in 1..12 PROVE f[m] = Cardinality(Having(T, key, m))
  BY MonthOfYear, TotalByStatus
<1> HIDE DEF f, key
<1>4. SumFunctionOnSet(f, 1..12) = Cardinality(T)
  BY <1>1, <1>3, SmallSets, CountByKey DEF OfYear, Rows
<1> QED
  BY <1>2, <1>4

LEMMA MonthsByStatus ==
  ASSUME NEW T, NEW y, OfYear(T, y), NEW s \in Statuses
  PROVE  /\ ByStatus(T)[s].count = SumFunction([m \in 1..12 |-> ByMonth(T, y)[m][s].count])
         /\ ByStatus(T)[s].amount = SumFunction([m \in 1..12 |-> ByMonth(T, y)[m][s].amount])
<1> DEFINE A == {r \in T : r.status = s}
           key == [r \in A |-> r.created.date.m]
           w == [r \in A |-> r.amount]
           c == [m \in 1..12 |-> ByMonth(T, y)[m][s].count]
           a == [m \in 1..12 |-> ByMonth(T, y)[m][s].amount]
<1>1. Rows(A) /\ key \in [A -> 1..12]
  BY PartsAreRows, RowFields DEF OfYear, Rows
<1>2. ByStatus(T)[s] = Count(A)
  BY DEF ByStatus
<1>3. ASSUME NEW m \in 1..12
      PROVE  ByMonth(T, y)[m][s] = Count(Having(A, key, m)) /\ Having(A, key, m) \in SUBSET A
  <2>1. Having(A, key, m) = {r \in {r \in T : r.created.date.y = y /\ r.created.date.m = m} : r.status = s}
    BY DEF Having, OfYear
  <2> QED
    BY <2>1 DEF ByMonth, ByStatus, Having
<1>4. \A m \in 1..12 : /\ c[m] = Cardinality(Having(A, key, m))
                        /\ a[m] = SumFunctionOnSet(w, Having(A, key, m))
  <2> HIDE DEF A, key
  <2> QED
    BY <1>1, <1>3, CountFields, AmountOfPart
<1>5. Addends(w, A) /\ Count(A).amount = SumFunctionOnSet(w, A)
  BY <1>1, AmountOfPart
<1>6. SumFunction(c) = SumFunctionOnSet(c, 1..12) /\ SumFunction(a) = SumFunctionOnSet(a, 1..12)
  BY DEF SumFunction
<1> HIDE DEF A, key, w, c, a
<1>7. SumFunctionOnSet(c, 1..12) = Cardinality(A)
  <2>1. IsFiniteSet(A) /\ IsFiniteSet(1..12) /\ key \in [A -> 1..12]
    BY <1>1, SmallSets DEF Rows
  <2>2. \A m \in 1..12 : c[m] = Cardinality(Having(A, key, m))
    BY <1>4
  <2> QED
    BY <2>1, <2>2, CountByKey
<1>8. SumFunctionOnSet(a, 1..12) = SumFunctionOnSet(w, A)
  <2>1. Addends(w, A) /\ IsFiniteSet(1..12) /\ key \in [A -> 1..12]
    BY <1>1, <1>5, SmallSets
  <2>2. \A m \in 1..12 : a[m] = SumFunctionOnSet(w, Having(A, key, m))
    BY <1>4
  <2> QED
    BY <2>1, <2>2, SumByKey
<1> QED
  BY <1>2, <1>5, <1>6, <1>7, <1>8, CountFields DEF c, a

-----------------------------------------------------------------------------
(* What the endpoints say of the same tables.                              *)

LEMMA ListedByDays ==
  ASSUME InputsAreSound, Rows(refunds), NEW user, NEW from \in Dates, NEW to \in Dates
  PROVE  Listed(refunds, Asked(user, from, to)) = In(Of(refunds, user), Days(from, to))
<1> DEFINE c == Asked(user, from, to)
<1>1. Target(c) = user /\ c.status = Nobody /\ c.from = from /\ c.to = to
  BY DEF Asked, Target
<1>2. from # Nobody /\ to # Nobody
  BY DEF InputsAreSound
<1> HIDE DEF c
<1>3. Listed(refunds, c) =
        {r \in Of(refunds, user) : /\ ~Before(r.created, Midnight(from))
                                   /\ Before(r.created, Days(to, to).until)}
  BY <1>1, <1>2 DEF Listed, Matches
<1>4. Days(to, to).until = Days(from, to).until /\ Midnight(from) = Days(from, to).since
  BY DEF Days, Window
<1> QED
  BY <1>3, <1>4 DEF In, Inside, c

LEMMA MonthsAgreeAlways ==
  ASSUME InputsAreSound, Rows(refunds), NEW user, NEW y \in Nat, NEW m \in 1..12
  PROVE  MonthsAgree(user, y, m)
<1> DEFINE C == {r \in Of(refunds, user) : r.created.date.y = y /\ r.created.date.m = m}
           last == Date(y, m, DaysInMonth(y, m))
           days == DailyCounts(refunds, user, y, m)
           D == 1..DaysInMonth(y, m)
           key == [r \in C |-> r.created.date.d]
<1>1. /\ Rows(C) /\ Rows(Of(refunds, user))
      /\ \A r \in Of(refunds, user) : r \in RefundRows /\ r.created \in Instants
  <2>1. C \in SUBSET refunds /\ Of(refunds, user) \in SUBSET refunds
    BY DEF Of
  <2> QED
    BY <2>1, PartsAreRows, RowFields DEF Rows
<1>2. In(Of(refunds, user), MonthWindow(y, m)) = C
  BY <1>1, MonthInside DEF In
<1>3. DaysInMonth(y, m) \in 28..31 /\ IsFiniteSet(D)
  <2>1. DaysInMonth(y, m) \in 28..31
    BY DEF DaysInMonth
  <2>2. DaysInMonth(y, m) \in Int
    BY <2>1
  <2> QED
    BY <2>1, <2>2, SmallSets
<1>4. key \in [C -> D]
  <2> SUFFICES ASSUME NEW r \in C PROVE r.created.date.d \in D
    OBVIOUS
  <2>1. r \in RefundRows /\ r.created.date.y = y /\ r.created.date.m = m
    BY <1>1
  <2>2. r.created.date.d \in 1..31 /\ r.created.date.d <= DaysInMonth(y, m)
    BY <2>1, RowFields
  <2>3. DaysInMonth(y, m) \in Int
    BY <1>3
  <2> HIDE DEF C
  <2> QED
    BY <2>2, <2>3
<1>5. ASSUME NEW d \in D
      PROVE  /\ days[d] = Cardinality(Having(C, key, d))
             /\ Having(C, key, d) = {r \in Of(refunds, user) : r.created.date = Date(y, m, d)}
  <2>1. ASSUME NEW r \in Of(refunds, user)
        PROVE  r.created.date = Date(y, m, d) <=>
                 r.created.date.y = y /\ r.created.date.m = m /\ r.created.date.d = d
    <3>1. r.created.date = Date(r.created.date.y, r.created.date.m, r.created.date.d)
      BY <1>1, DateFields, RowFields
    <3> QED
      BY <3>1 DEF Date
  <2>2. Having(C, key, d) = {r \in C : r.created.date = Date(y, m, d)}
    BY <2>1 DEF Having
  <2>3. days[d] = Cardinality({r \in C : r.created.date = Date(y, m, d)})
    <3> HIDE DEF C
    <3> QED
      BY <1>2 DEF DailyCounts
  <2> QED
    BY <2>1, <2>2, <2>3
<1>6. SumFunction(days) = Cardinality(C)
  <2>1. DOMAIN days = D
    BY DEF DailyCounts
  <2>2. SumFunction(days) = SumFunctionOnSet(days, D)
    BY <2>1 DEF SumFunction
  <2> HIDE DEF days, D, C, key
  <2>3. SumFunctionOnSet(days, D) = Cardinality(C)
    BY <1>1, <1>3, <1>4, <1>5, CountByKey DEF Rows
  <2> QED
    BY <2>2, <2>3
<1>7. Listed(refunds, Asked(user, Date(y, m, 1), last)) = C
  <2>1. last \in Dates /\ Date(y, m, 1) \in Dates
    BY <1>1, MonthDates
  <2>2. \A r \in Of(refunds, user) : Inside(r.created, Days(Date(y, m, 1), last)) <=>
                                        r.created.date.y = y /\ r.created.date.m = m
    BY <1>1, MonthIsItsDays
  <2> HIDE DEF last
  <2> QED
    BY <2>1, <2>2, ListedByDays DEF In
<1>8. Total4(ByMonth(In(Of(refunds, user), YearWindow(y)), y)[m]) = Cardinality(C)
  <2> DEFINE Y == In(Of(refunds, user), YearWindow(y))
  <2>1. Y = {r \in Of(refunds, user) : r.created.date.y = y}
    BY <1>1, YearInside DEF In
  <2>2. {r \in Y : r.created.date.y = y /\ r.created.date.m = m} = C
    BY <2>1
  <2> HIDE DEF Y, C
  <2>3. ByMonth(Y, y)[m] = ByStatus(C)
    BY <2>2 DEF ByMonth
  <2> QED
    BY <1>1, <2>3, TotalByStatus DEF Y
<1>9. ASSUME NEW d \in D
      PROVE  days[d] = Cardinality(Listed(refunds, Asked(user, Date(y, m, d), Date(y, m, d))))
  <2>1. Date(y, m, d) \in Dates
    BY <1>3 DEF Date, Dates
  <2>2. \A r \in Of(refunds, user) : Inside(r.created, Days(Date(y, m, d), Date(y, m, d))) <=>
                                        r.created.date = Date(y, m, d)
    BY <1>1, <2>1, DaysInside
  <2>3. Listed(refunds, Asked(user, Date(y, m, d), Date(y, m, d))) =
          {r \in Of(refunds, user) : r.created.date = Date(y, m, d)}
    BY <2>1, <2>2, ListedByDays DEF In
  <2> QED
    BY <1>5, <2>3
<1>10. DOMAIN days = D
  BY DEF DailyCounts
<1> HIDE DEF C
<1> QED
  BY <1>6, <1>7, <1>8, <1>9, <1>10 DEF MonthsAgree

(* Everybody's statistics add up to all the refunds there are.             *)
LEMMA StatisticsAddUp ==
  ASSUME Rows(refunds), IsFiniteSet(IdsOf(users)), \A r \in refunds : r.user \in IdsOf(users),
         NEW s \in Statuses
  PROVE  ByStatus(refunds)[s].count =
           SumFunction([u \in IdsOf(users) |-> CountByStatus(refunds, u)[s].count])
<1> DEFINE A == {r \in refunds : r.status = s}
           U == IdsOf(users)
           key == [r \in A |-> r.user]
           f == [u \in U |-> CountByStatus(refunds, u)[s].count]
<1>1. IsFiniteSet(A) /\ key \in [A -> U]
  BY PartsAreRows DEF Rows
<1>2. ByStatus(refunds)[s].count = Cardinality(A)
  BY CountFields DEF ByStatus
<1>3. ASSUME NEW u \in U PROVE f[u] = Cardinality(Having(A, key, u))
  <2>1. Having(A, key, u) = {r \in {r \in refunds : r.user = u} : r.status = s}
    BY DEF Having
  <2> QED
    BY <2>1, CountFields DEF CountByStatus, ByStatus
<1>4. SumFunction(f) = SumFunctionOnSet(f, U)
  BY DEF SumFunction
<1> HIDE DEF A, U, key, f
<1>5. SumFunctionOnSet(f, U) = Cardinality(A)
  BY <1>1, <1>3, CountByKey DEF U
<1> QED
  BY <1>2, <1>4, <1>5 DEF f, U

LEMMA IdsAreFinite ==
  ASSUME NEW T, IsFiniteSet(T)
  PROVE  IsFiniteSet(IdsOf(T))
<1> DEFINE id == [r \in T |-> r.id]
<1>1. id \in Surjection(T, IdsOf(T))
  BY DEF Surjection, IdsOf
<1> QED
  BY <1>1, FS_Surjection

LEMMA TablesAgree ==
  ASSUME InputsAreSound, TablesOK
  PROVE  EndpointsAgree
<1>1. Rows(refunds) /\ \A r \in refunds : r.user \in IdsOf(users)
  BY DEF TablesOK, IsTable, Rows
<1>2. IsFiniteSet(IdsOf(users))
  BY IdsAreFinite DEF TablesOK, IsTable
<1>3. ASSUME NEW month \in Months PROVE month[1] \in Nat /\ month[2] \in 1..12
  BY <1>1, RowFields DEF Months, Rows
<1>4. \A u : \A month \in Months : MonthsAgree(u, month[1], month[2])
  BY <1>1, <1>3, MonthsAgreeAlways
<1> QED
  BY <1>1, <1>2, <1>4, StatisticsAddUp DEF EndpointsAgree

-----------------------------------------------------------------------------
(* The order of a listing.  Ids break ties, so the order is total and each *)
(* row has a place of its own.                                             *)

Sortable(T, c) ==
  /\ IsFiniteSet(T)
  /\ \A r \in T : r.id \in Nat /\ SortKey(r, c) \in Int
  /\ \A r, s \in T : r.id = s.id => r = s

LEMMA OrderIsTotal ==
  ASSUME NEW T, NEW c, Sortable(T, c), NEW r \in T, NEW s \in T
  PROVE  /\ ~Precedes(r, r, c)
         /\ ~(Precedes(r, s, c) /\ Precedes(s, r, c))
         /\ r = s \/ Precedes(r, s, c) \/ Precedes(s, r, c)
         /\ \A t \in T : Precedes(r, s, c) /\ Precedes(s, t, c) => Precedes(r, t, c)
<1>1. \A t \in T : t.id \in Nat /\ SortKey(t, c) \in Int
  BY DEF Sortable
<1>2. r.id = s.id => r = s
  BY DEF Sortable
<1>3. ASSUME NEW t \in T, Precedes(r, s, c), Precedes(s, t, c) PROVE Precedes(r, t, c)
  BY <1>1, <1>3 DEF Precedes
<1>4. ~Precedes(r, r, c) /\ ~(Precedes(r, s, c) /\ Precedes(s, r, c))
  BY <1>1 DEF Precedes
<1>5. r = s \/ Precedes(r, s, c) \/ Precedes(s, r, c)
  BY <1>1, <1>2 DEF Precedes
<1> QED
  BY <1>3, <1>4, <1>5

(* The rows that come before a row in the listing of a table. *)
Ahead(r, T, c) == {s \in T : Precedes(s, r, c)}

LEMMA AheadIsFinite ==
  ASSUME NEW T, NEW c, Sortable(T, c), NEW r
  PROVE  /\ Ahead(r, T, c) \subseteq T /\ IsFiniteSet(Ahead(r, T, c))
         /\ Cardinality(Ahead(r, T, c)) \in Nat
         /\ Place(r, T, c) = 1 + Cardinality(Ahead(r, T, c))
         /\ Cardinality(T) \in Nat
<1>1. Ahead(r, T, c) \subseteq T
  BY DEF Ahead
<1>2. IsFiniteSet(T)
  BY DEF Sortable
<1>3. Place(r, T, c) = 1 + Cardinality(Ahead(r, T, c))
  BY DEF Place, Ahead
<1> QED
  BY <1>1, <1>2, <1>3, FS_Subset, FS_CardinalityType

LEMMA PlaceOrder ==
  ASSUME NEW T, NEW c, Sortable(T, c), NEW r \in T, NEW s \in T
  PROVE  /\ Place(r, T, c) \in 1..Cardinality(T)
         /\ Precedes(r, s, c) <=> Place(r, T, c) < Place(s, T, c)
         /\ Place(r, T, c) = Place(s, T, c) <=> r = s
<1> DEFINE A(x) == Ahead(x, T, c)
<1>1. \A x : /\ A(x) \subseteq T /\ IsFiniteSet(A(x)) /\ Cardinality(A(x)) \in Nat
             /\ Place(x, T, c) = 1 + Cardinality(A(x)) /\ Cardinality(T) \in Nat
  BY AheadIsFinite
<1>2. ASSUME NEW x \in T, NEW z \in T, Precedes(x, z, c) PROVE Cardinality(A(x)) < Cardinality(A(z))
  <2>1. A(x) \subseteq A(z)
    BY <1>2, OrderIsTotal DEF Ahead
  <2>2. x \in A(z) /\ x \notin A(x)
    BY <1>2, OrderIsTotal DEF Ahead
  <2>3. A(x) # A(z)
    BY <2>2
  <2> HIDE DEF A
  <2> QED
    BY <1>1, <2>1, <2>3, FS_Subset
<1>3. Cardinality(A(r)) < Cardinality(T)
  <2>1. r \notin A(r)
    BY OrderIsTotal DEF Ahead
  <2>2. A(r) # T /\ IsFiniteSet(T)
    BY <2>1 DEF Sortable
  <2> HIDE DEF A
  <2> QED
    BY <1>1, <2>2, FS_Subset
<1>4. Place(r, T, c) \in 1..Cardinality(T)
  <2> HIDE DEF A
  <2> QED
    BY <1>1, <1>3
<1>5. /\ Precedes(r, s, c) => Place(r, T, c) < Place(s, T, c)
      /\ Precedes(s, r, c) => Place(s, T, c) < Place(r, T, c)
  <2> HIDE DEF A
  <2> QED
    BY <1>1, <1>2
<1>6. Place(r, T, c) \in Nat /\ Place(s, T, c) \in Nat
  <2> HIDE DEF A
  <2> QED
    BY <1>1
<1> QED
  BY <1>4, <1>5, <1>6, OrderIsTotal

(* In whatever way the database sorts, the i-th row has place i. *)
LEMMA PlaceInOrdering ==
  ASSUME NEW T, NEW c, Sortable(T, c), NEW s \in Orderings(T, c)
  PROVE  /\ s \in Seq(T) /\ Len(s) = Cardinality(T)
         /\ \A i \in 1..Len(s) : s[i] \in T /\ Place(s[i], T, c) = i
         /\ \A r \in T : s[Place(r, T, c)] = r
<1> DEFINE n == Cardinality(T)
<1>1. n \in Nat /\ IsFiniteSet(T)
  BY FS_CardinalityType DEF Sortable
<1>2. s \in [1..n -> T] /\ \A i, j \in 1..n : i # j => s[i] # s[j]
  BY DEF Orderings, SetToSeqs
<1>3. s \in Seq(T) /\ Len(s) = n /\ DOMAIN s = 1..n
  <2> HIDE DEF n
  <2> QED
    BY <1>1, <1>2
<1>4. \A r \in T : \E i \in 1..n : s[i] = r
  <2>1. s \in Injection(1..n, T)
    BY <1>2 DEF Injection, IsInjective
  <2>2. IsFiniteSet(1..n) /\ Cardinality(1..n) = n
    <3> HIDE DEF n
    <3>1. 1 \in Int /\ n \in Int
      BY <1>1
    <3>2. Cardinality(1..n) = IF 1 > n THEN 0 ELSE n - 1 + 1
      BY <3>1, FS_Interval
    <3> QED
      BY <1>1, <3>1, <3>2, FS_Interval
  <2>3. s \in Surjection(1..n, T)
    BY <1>1, <2>1, <2>2, FS_Injection
  <2> QED
    BY <2>3 DEF Surjection
<1>5. \A i, j \in 1..n : i < j => Precedes(s[i], s[j], c)
  <2> SUFFICES ASSUME NEW i \in 1..n, NEW j \in 1..n, i < j PROVE Precedes(s[i], s[j], c)
    OBVIOUS
  <2>1. ~Precedes(s[j], s[i], c)
    BY <1>3 DEF Orderings
  <2>2. s[i] \in T /\ s[j] \in T /\ s[i] # s[j]
    BY <1>2
  <2> QED
    BY <2>1, <2>2, OrderIsTotal
<1>6. ASSUME NEW i \in 1..n PROVE Place(s[i], T, c) = i
  <2> DEFINE A == Ahead(s[i], T, c)
             f == [j \in 1..(i - 1) |-> s[j]]
  <2>0. \A j \in 1..(i - 1) : j \in 1..n /\ j < i
    BY <1>1
  <2>1. f \in [1..(i - 1) -> A]
    BY <1>2, <1>5, <2>0 DEF Ahead
  <2>2. \A j, k \in 1..(i - 1) : f[j] = f[k] => j = k
    BY <1>2, <2>0
  <2>3. ASSUME NEW r \in A PROVE \E j \in 1..(i - 1) : f[j] = r
    <3>1. r \in T /\ Precedes(r, s[i], c)
      BY DEF Ahead
    <3>2. PICK j \in 1..n : s[j] = r
      BY <1>4, <3>1
    <3>3. ~(i < j) /\ i # j
      BY <1>2, <1>5, <3>1, <3>2, OrderIsTotal
    <3>4. j \in 1..(i - 1)
      BY <1>1, <3>3
    <3> QED
      BY <3>2, <3>4
  <2> HIDE DEF A, f
  <2>4. f \in Bijection(1..(i - 1), A)
    BY <2>1, <2>2, <2>3 DEF Bijection, Injection, Surjection, IsInjective
  <2>5. IsFiniteSet(1..(i - 1)) /\ Cardinality(1..(i - 1)) = i - 1
    <3>1. 1 \in Int /\ i - 1 \in Int
      BY <1>1
    <3>2. Cardinality(1..(i - 1)) = IF 1 > i - 1 THEN 0 ELSE i - 1 - 1 + 1
      BY <3>1, FS_Interval
    <3> QED
      BY <1>1, <3>1, <3>2, FS_Interval
  <2>6. Cardinality(A) = i - 1
    BY <2>4, <2>5, FS_Bijection DEF ExistsBijection
  <2> QED
    BY <1>1, <2>6, AheadIsFinite DEF A
<1>7. ASSUME NEW r \in T PROVE s[Place(r, T, c)] = r
  BY <1>4, <1>6
<1> QED
  BY <1>2, <1>3, <1>6, <1>7

-----------------------------------------------------------------------------
(* One write touches the row of one id: the row comes, goes, or changes.   *)
(* Every other row moves by at most one place.                             *)

Touches(i, T, U) == \A r : r.id # i => (r \in T <=> r \in U)

LEMMA TouchesBack ==
  ASSUME NEW i, NEW T, NEW U, Touches(i, T, U)
  PROVE  Touches(i, U, T)
BY DEF Touches

OthersAhead(i, x, T, c) == {s \in Ahead(x, T, c) : s.id # i}
ItIsAhead(i, x, T, c) == \E s \in Ahead(x, T, c) : s.id = i

LEMMA PlaceWithout ==
  ASSUME NEW T, NEW c, Sortable(T, c), NEW i, NEW x \in T
  PROVE  /\ Cardinality(OthersAhead(i, x, T, c)) \in Nat
         /\ Place(x, T, c) = (IF ItIsAhead(i, x, T, c) THEN 2 ELSE 1)
                               + Cardinality(OthersAhead(i, x, T, c))
<1> DEFINE A == Ahead(x, T, c)
           others == {s \in A : s.id # i}
           it == {s \in A : s.id = i}
<1>1. IsFiniteSet(A) /\ A \subseteq T /\ Place(x, T, c) = 1 + Cardinality(A) /\ Cardinality(A) \in Nat
  BY AheadIsFinite
<1> HIDE DEF A
<1>2. others \in SUBSET A /\ IsFiniteSet(others) /\ Cardinality(others) \in Nat
  BY <1>1, FS_Subset, FS_CardinalityType
<1>3. it = {} => Place(x, T, c) = 1 + Cardinality(others)
  <2>1. it = {} => others = A
    OBVIOUS
  <2> QED
    BY <1>1, <2>1
<1>4. ASSUME it # {} PROVE Place(x, T, c) = 2 + Cardinality(others)
  <2>1. PICK y \in A : y.id = i
    BY <1>4
  <2>2. \A s \in A : s.id = i => s = y
    BY <1>1, <2>1 DEF Sortable
  <2>3. others = A \ {y}
    BY <2>1, <2>2
  <2>4. Cardinality(others) = Cardinality(A) - 1
    BY <1>1, <2>1, <2>3, FS_RemoveElement
  <2> QED
    BY <1>1, <1>2, <2>4
<1>5. it # {} <=> ItIsAhead(i, x, T, c)
  BY DEF ItIsAhead, A
<1>6. others = OthersAhead(i, x, T, c)
  BY DEF OthersAhead, A
<1> HIDE DEF others, it
<1> QED
  BY <1>2, <1>3, <1>4, <1>5, <1>6

LEMMA PlacesMoveByOne ==
  ASSUME NEW T, NEW U, NEW c, Sortable(T, c), Sortable(U, c), NEW i, Touches(i, T, U),
         NEW x \in T, x.id # i
  PROVE  /\ x \in U
         /\ Place(x, T, c) \in Nat /\ Place(x, U, c) \in Nat
         /\ Place(x, U, c) < Place(x, T, c) =>
              /\ Place(x, U, c) = Place(x, T, c) - 1
              /\ \E y \in T : y.id = i /\ Precedes(y, x, c)
<1>1. x \in U
  BY DEF Touches
<1>2. OthersAhead(i, x, T, c) = OthersAhead(i, x, U, c)
  BY DEF OthersAhead, Touches, Ahead
<1>3. /\ Cardinality(OthersAhead(i, x, T, c)) \in Nat
      /\ Place(x, T, c) = (IF ItIsAhead(i, x, T, c) THEN 2 ELSE 1)
                            + Cardinality(OthersAhead(i, x, T, c))
      /\ Place(x, U, c) = (IF ItIsAhead(i, x, U, c) THEN 2 ELSE 1)
                            + Cardinality(OthersAhead(i, x, U, c))
  BY <1>1, PlaceWithout
<1>4. ItIsAhead(i, x, T, c) => \E y \in T : y.id = i /\ Precedes(y, x, c)
  BY DEF ItIsAhead, Ahead
<1> QED
  BY <1>1, <1>2, <1>3, <1>4

UpTo(k, T, c) == {r \in T : Place(r, T, c) <= k}

(* So at most one id comes into the first k rows, and at most one goes out;*)
(* none but its own comes in with a new row.                               *)
LEMMA OneSlipsIn ==
  ASSUME NEW T, NEW U, NEW c, Sortable(T, c), Sortable(U, c), NEW i, Touches(i, T, U), NEW k \in Int
  PROVE  /\ \E j : IdsOf(UpTo(k, U, c)) \subseteq IdsOf(UpTo(k, T, c)) \cup {j}
         /\ i \notin IdsOf(T) => IdsOf(UpTo(k, U, c)) \subseteq IdsOf(UpTo(k, T, c)) \cup {i}
<1> DEFINE P == UpTo(k, T, c)
           Q == UpTo(k, U, c)
<1>1. ASSUME NEW x \in Q, x.id # i, x \notin P
      PROVE  /\ x \in T /\ Place(x, T, c) = k + 1
             /\ \E y \in T : y.id = i /\ Precedes(y, x, c)
  <2>1. x \in T
    BY <1>1 DEF Touches, UpTo
  <2>2. Place(x, U, c) <= k /\ ~(Place(x, T, c) <= k)
    BY <1>1, <2>1 DEF UpTo
  <2>3. /\ Place(x, T, c) \in Nat /\ Place(x, U, c) \in Nat
        /\ Place(x, U, c) < Place(x, T, c) =>
              /\ Place(x, U, c) = Place(x, T, c) - 1
              /\ \E y \in T : y.id = i /\ Precedes(y, x, c)
    BY <1>1, <2>1, PlacesMoveByOne
  <2> QED
    BY <2>1, <2>2, <2>3
<1>2. ASSUME i \notin IdsOf(T) PROVE IdsOf(Q) \subseteq IdsOf(P) \cup {i}
  BY <1>1, <1>2 DEF IdsOf
<1>3. \E j : IdsOf(Q) \subseteq IdsOf(P) \cup {j}
  <2>1. CASE \E x \in Q : x.id # i /\ x \notin P
    <3>1. PICK x \in Q : x.id # i /\ x \notin P
      BY <2>1
    <3>2. PICK y \in T : y.id = i /\ Precedes(y, x, c)
      BY <1>1, <3>1
    <3>3. x \in T /\ Place(x, T, c) = k + 1
      BY <1>1, <3>1
    <3>4. y \in P
      <4>1. Place(y, T, c) < Place(x, T, c) /\ Place(y, T, c) \in 1..Cardinality(T)
        BY <3>2, <3>3, PlaceOrder
      <4> QED
        BY <3>3, <4>1 DEF UpTo
    <3>5. ASSUME NEW z \in Q, z.id # i, z \notin P PROVE z = x
      <4>1. z \in T /\ Place(z, T, c) = k + 1
        BY <1>1, <3>5
      <4> QED
        BY <3>3, <4>1, PlaceOrder
    <3>6. i \in IdsOf(P)
      BY <3>2, <3>4 DEF IdsOf
    <3>7. IdsOf(Q) \subseteq IdsOf(P) \cup {x.id}
      <4> SUFFICES ASSUME NEW z \in Q PROVE z.id \in IdsOf(P) \cup {x.id}
        BY DEF IdsOf
      <4> QED
        BY <3>5, <3>6 DEF IdsOf
    <3> QED
      BY <3>7
  <2>2. CASE ~\E x \in Q : x.id # i /\ x \notin P
    BY <2>2 DEF IdsOf
  <2> QED
    BY <2>1, <2>2
<1> QED
  BY <1>2, <1>3

LEMMA OneSlipsOut ==
  ASSUME NEW T, NEW U, NEW c, Sortable(T, c), Sortable(U, c), NEW i, Touches(i, T, U), NEW k \in Int
  PROVE  \E j : IdsOf(U \ UpTo(k, U, c)) \subseteq IdsOf(T \ UpTo(k, T, c)) \cup {j}
<1> DEFINE P == UpTo(k, T, c)
           Q == UpTo(k, U, c)
<1>1. ASSUME NEW x \in U \ Q, x.id # i, x \notin T \ P
      PROVE  /\ x \in U /\ Place(x, U, c) = k + 1
             /\ \E y \in U : y.id = i /\ Precedes(y, x, c)
  <2>1. x \in T /\ x \in U
    BY <1>1 DEF Touches
  <2>2. Place(x, T, c) <= k /\ ~(Place(x, U, c) <= k)
    BY <1>1, <2>1 DEF UpTo
  <2>3. /\ Place(x, T, c) \in Nat /\ Place(x, U, c) \in Nat
        /\ Place(x, T, c) < Place(x, U, c) =>
              /\ Place(x, T, c) = Place(x, U, c) - 1
              /\ \E y \in U : y.id = i /\ Precedes(y, x, c)
    BY <1>1, <2>1, PlacesMoveByOne, TouchesBack
  <2> QED
    BY <2>1, <2>2, <2>3
<1>2. CASE \E x \in U \ Q : x.id # i /\ x \notin T \ P
  <2>1. PICK x \in U \ Q : x.id # i /\ x \notin T \ P
    BY <1>2
  <2>2. PICK y \in U : y.id = i /\ Precedes(y, x, c)
    BY <1>1, <2>1
  <2>3. x \in U /\ Place(x, U, c) = k + 1
    BY <1>1, <2>1
  <2>4. y \in Q
    <3>1. Place(y, U, c) < Place(x, U, c) /\ Place(y, U, c) \in 1..Cardinality(U)
      BY <2>2, <2>3, PlaceOrder
    <3> QED
      BY <2>3, <3>1 DEF UpTo
  <2>5. ASSUME NEW z \in U \ Q, z.id # i, z \notin T \ P PROVE z = x
    <3>1. z \in U /\ Place(z, U, c) = k + 1
      BY <1>1, <2>5
    <3> QED
      BY <2>3, <3>1, PlaceOrder
  <2>6. \A z \in U \ Q : z.id # i
    BY <2>2, <2>4 DEF Sortable
  <2>7. IdsOf(U \ Q) \subseteq IdsOf(T \ P) \cup {x.id}
    <3> SUFFICES ASSUME NEW z \in U \ Q PROVE z.id \in IdsOf(T \ P) \cup {x.id}
      BY DEF IdsOf
    <3> QED
      BY <2>5, <2>6 DEF IdsOf
  <2> QED
    BY <2>7
<1>3. CASE ~\E x \in U \ Q : x.id # i /\ x \notin T \ P
  <2>1. IdsOf(U \ Q) \subseteq IdsOf(T \ P) \cup {i}
    BY <1>3 DEF IdsOf
  <2> QED
    BY <2>1
<1> QED
  BY <1>2, <1>3

(* A table has one row more, or one less, or as many.                      *)
Unique(T) == IsFiniteSet(T) /\ \A r, s \in T : r.id = s.id => r = s

LEMMA OneRow ==
  ASSUME NEW T, NEW U, Unique(T), Unique(U), NEW i, Touches(i, T, U)
  PROVE  /\ Cardinality(T) \in Nat /\ Cardinality(U) \in Nat
         /\ Cardinality(U) <= Cardinality(T) + 1
         /\ i \in IdsOf(T) => Cardinality(U) <= Cardinality(T)
<1> DEFINE rest == {r \in T : r.id # i}
<1>1. rest = {r \in U : r.id # i}
  BY DEF Touches
<1>2. \A V : Unique(V) /\ {r \in V : r.id # i} = rest =>
        /\ Cardinality(V) \in Nat /\ Cardinality(rest) \in Nat
        /\ i \in IdsOf(V) => Cardinality(V) = Cardinality(rest) + 1
        /\ i \notin IdsOf(V) => Cardinality(V) = Cardinality(rest)
  <2> SUFFICES ASSUME NEW V, Unique(V), {r \in V : r.id # i} = rest
               PROVE  /\ Cardinality(V) \in Nat /\ Cardinality(rest) \in Nat
                      /\ i \in IdsOf(V) => Cardinality(V) = Cardinality(rest) + 1
                      /\ i \notin IdsOf(V) => Cardinality(V) = Cardinality(rest)
    OBVIOUS
  <2> HIDE DEF rest
  <2>1. IsFiniteSet(V) /\ Cardinality(V) \in Nat /\ rest \subseteq V
    BY FS_CardinalityType DEF Unique
  <2>2. Cardinality(rest) \in Nat
    BY <2>1, FS_Subset, FS_CardinalityType
  <2>3. ASSUME i \in IdsOf(V) PROVE Cardinality(V) = Cardinality(rest) + 1
    <3>1. PICK y \in V : y.id = i
      BY <2>3 DEF IdsOf
    <3>2. rest = V \ {y}
      BY <3>1 DEF Unique
    <3>3. Cardinality(V \ {y}) = Cardinality(V) - 1
      BY <2>1, <3>1, Without
    <3> QED
      BY <2>1, <2>2, <3>2, <3>3
  <2>4. ASSUME i \notin IdsOf(V) PROVE Cardinality(V) = Cardinality(rest)
    <3>1. rest = V
      BY <2>4 DEF IdsOf
    <3> QED
      BY <3>1
  <2> QED
    BY <2>1, <2>2, <2>3, <2>4
<1>3. Unique(T) /\ {r \in T : r.id # i} = rest /\ Unique(U) /\ {r \in U : r.id # i} = rest
  BY <1>1
<1> HIDE DEF rest
<1>4. /\ Cardinality(T) \in Nat /\ Cardinality(U) \in Nat /\ Cardinality(rest) \in Nat
      /\ i \in IdsOf(T) => Cardinality(T) = Cardinality(rest) + 1
      /\ i \notin IdsOf(T) => Cardinality(T) = Cardinality(rest)
      /\ i \in IdsOf(U) => Cardinality(U) = Cardinality(rest) + 1
      /\ i \notin IdsOf(U) => Cardinality(U) = Cardinality(rest)
  BY <1>2, <1>3
<1> QED
  BY <1>4

-----------------------------------------------------------------------------
(* The calls that are let through, and what they list.                     *)

LEMMA CallFields ==
  ASSUME InputsAreSound, NEW c \in Calls, ~Refused(c)
  PROVE  /\ c.report \in {"refunds", "users", "summary"} /\ c.role \in {"admin", "standard"}
         /\ c.viewer \in Nat /\ c.viewer # Nobody
         /\ c.report = "summary" => c.year \in Nat
         /\ c.report # "summary" => c.per_page \in 1..100
         /\ c.report = "refunds" => c.sort \in {"created_at", "amount_in_cents", "status"}
         /\ c.report = "users" => c.sort = "name" /\ c.role = "admin"
<1>1. /\ c.report \in {"refunds", "users", "summary"} /\ c.role \in {"admin", "standard"}
      /\ c.viewer \in Nat /\ c.viewer # Nobody
      /\ c.report = "users" => c.sort = "name"
  BY DEF InputsAreSound
<1>2. IsValid(c) /\ ~(c.report = "users" /\ c.role # "admin")
  BY DEF Refused
<1>3. CASE c.report = "summary"
  BY <1>1, <1>2, <1>3 DEF IsValid, YearIsValid
<1>4. CASE c.report = "users"
  BY <1>1, <1>2, <1>4 DEF IsValid
<1>5. CASE c.report = "refunds"
  BY <1>1, <1>2, <1>5 DEF IsValid
<1> QED
  BY <1>1, <1>3, <1>4, <1>5

LEMMA RefundKeys ==
  ASSUME NEW r \in RefundRows, NEW c, c.sort \in {"created_at", "amount_in_cents", "status"}
  PROVE  SortKey(r, c) \in Int
<1>1. CASE c.sort = "created_at"
  <2>1. Number(r.created.date) \in Int
    BY RowFields, NumberIsInjective
  <2>2. r.created.time \in Int
    BY DEF RefundRows, Instants
  <2>3. SortKey(r, c) = 2 * Number(r.created.date) + r.created.time
    BY <1>1 DEF SortKey
  <2> QED
    BY <2>1, <2>2, <2>3
<1>2. CASE c.sort = "amount_in_cents"
  <2>1. SortKey(r, c) = r.amount
    BY <1>2 DEF SortKey
  <2> QED
    BY <2>1, RowFields
<1>3. CASE c.sort = "status"
  <2>1. SortKey(r, c) = StatusRank(r.status)
    BY <1>3 DEF SortKey
  <2> QED
    BY <2>1, RowFields DEF StatusRank, Statuses
<1> QED
  BY <1>1, <1>2, <1>3

LEMMA ListedIsPart ==
  ASSUME NEW T, NEW c
  PROVE  Listed(T, c) \subseteq T
BY DEF Listed, Of

LEMMA SourceIsSortable ==
  ASSUME InputsAreSound, NEW c \in Calls, ~Refused(c), c.report # "summary",
         NEW T, IsTable(T, RefundRows), NEW P, IsTable(P, UserRows)
  PROVE  Sortable(Source(c, T, P), c)
<1>1. CASE c.report = "users"
  <2>1. \A r \in P : r.id \in Nat /\ SortKey(r, c) \in Int
    <3> SUFFICES ASSUME NEW r \in P PROVE r.id \in Nat /\ SortKey(r, c) \in Int
      OBVIOUS
    <3>1. r \in UserRows /\ c.sort = "name"
      BY <1>1, CallFields DEF IsTable
    <3>2. SortKey(r, c) = r.name
      BY <3>1 DEF SortKey
    <3> QED
      BY <3>1, <3>2 DEF UserRows
  <2> QED
    BY <1>1, <2>1 DEF Source, Sortable, IsTable
<1>2. CASE c.report = "refunds"
  <2>1. Listed(T, c) \subseteq T /\ IsFiniteSet(Listed(T, c))
    BY ListedIsPart, FS_Subset DEF IsTable
  <2>2. \A r \in Listed(T, c) : r.id \in Nat /\ SortKey(r, c) \in Int
    BY <1>2, <2>1, CallFields, RefundKeys, RowFields DEF IsTable
  <2> QED
    BY <1>2, <2>1, <2>2 DEF Source, Sortable, IsTable
<1> QED
  BY <1>1, <1>2, CallFields

LEMMA SourceTouches ==
  ASSUME NEW i, NEW T, NEW U, Touches(i, T, U), NEW P, NEW Q, Touches(i, P, Q), NEW c
  PROVE  /\ Touches(i, Source(c, T, P), Source(c, U, Q))
         /\ Touches(i, Summarized(T, c), Summarized(U, c))
<1>1. Touches(i, Listed(T, c), Listed(U, c))
  BY DEF Touches, Listed, Matches, Of
<1>2. Touches(i, Source(c, T, P), Source(c, U, Q))
  BY <1>1 DEF Source
<1>3. Touches(i, Summarized(T, c), Summarized(U, c))
  BY DEF Touches, Summarized, In, Of
<1> QED
  BY <1>2, <1>3

LEMMA SummarizedRows ==
  ASSUME InputsAreSound, NEW c \in Calls, ~Refused(c), c.report = "summary",
         NEW T, IsTable(T, RefundRows)
  PROVE  /\ OfYear(Summarized(T, c), c.year) /\ Unique(Summarized(T, c))
         /\ Summarized(T, c) \subseteq Of(T, Target(c)) /\ Of(T, Target(c)) \subseteq T
         /\ Summarized(T, c) = {r \in Of(T, Target(c)) : r.created.date.y = c.year}
<1>1. Of(T, Target(c)) \subseteq T /\ \A r \in T : r \in RefundRows /\ r.created \in Instants
  BY RowFields DEF Of, IsTable
<1>2. c.year \in Nat
  BY CallFields
<1>3. Summarized(T, c) = {r \in Of(T, Target(c)) : r.created.date.y = c.year}
  BY <1>1, <1>2, YearInside DEF Summarized, In
<1>4. Summarized(T, c) \subseteq T
  BY <1>1, <1>3
<1>5. IsFiniteSet(Summarized(T, c))
  BY <1>4, FS_Subset DEF IsTable
<1> QED
  BY <1>1, <1>3, <1>4, <1>5 DEF OfYear, Unique, Rows, IsTable

-----------------------------------------------------------------------------
(* The writes.                                                             *)

Writing == Create \/ Decide \/ Delete \/ Register

LEMMA AddRow ==
  ASSUME NEW T, NEW type, IsTable(T, type), NEW r \in type, \A s \in T : s.id # r.id
  PROVE  IsTable(T \cup {r}, type) /\ IdsOf(T) \subseteq IdsOf(T \cup {r})
         /\ Touches(r.id, T, T \cup {r})
<1>1. IsFiniteSet(T \cup {r})
  BY FS_AddElement DEF IsTable
<1> QED
  BY <1>1 DEF IsTable, IdsOf, Touches

LEMMA WriteEffects ==
  ASSUME InputsAreSound, TablesOK, Writing
  PROVE  /\ TablesOK'
         /\ \E i : Touches(i, refunds, refunds') /\ Touches(i, users, users')
         /\ Reading /\ writes < MaxWrites /\ writes' = writes + 1
         /\ steady' = IF call.report = "summary" THEN {} ELSE steady \cap IdsOf(Now(call)')
         /\ UNCHANGED <<pc, call, page, total, rows, grouped>>
<1>a. /\ IsTable(refunds, RefundRows) /\ IsTable(users, UserRows)
      /\ \A r \in refunds : r.user \in IdsOf(users) /\ r.id \in Nat /\ r.id <= given.refunds
      /\ \A u \in users : u.id \in Nat /\ u.id <= given.users
      /\ given \in [refunds: Nat, users: Nat] /\ given.refunds \in Nat /\ given.users \in Nat
      /\ IdsOf(users) \subseteq Nat
  BY RowFields DEF TablesOK, IsTable, UserRows, IdsOf
<1>b. \A i, T : Touches(i, T, T)
  BY DEF Touches
<1>1. CASE Create
  <2>1. PICK u \in IdsOf(users), k \in Categories, a \in {1, 2} :
          Write(refunds \cup {[id |-> NextId("refunds"), user |-> u, status |-> "pending",
                               category |-> k, amount |-> a, created |-> Today]}, users)
    BY <1>1 DEF Create
  <2> DEFINE row == [id |-> NextId("refunds"), user |-> u, status |-> "pending",
                     category |-> k, amount |-> a, created |-> Today]
  <2>2. given' = [given EXCEPT !["refunds"] = @ + 1] /\ NextId("refunds") = given.refunds + 1
    BY <1>1 DEF Create, Give, NextId
  <2>3. row \in RefundRows
    BY <1>a, <2>2 DEF RefundRows, Statuses, InputsAreSound
  <2>4. row.id = given.refunds + 1 /\ row.user = u
    BY <2>2
  <2>5. Write(refunds \cup {row}, users)
    BY <2>1
  <2> HIDE DEF row
  <2>6. refunds' = refunds \cup {row} /\ users' = users
    BY <2>5 DEF Write
  <2>7. \A s \in refunds : s.id # row.id
    BY <1>a, <2>4
  <2>8. IsTable(refunds', RefundRows) /\ Touches(row.id, refunds, refunds')
    BY <1>a, <2>3, <2>6, <2>7, AddRow
  <2>9. /\ given' \in [refunds: Nat, users: Nat]
        /\ given'.refunds = given.refunds + 1 /\ given'.users = given.users
    BY <1>a, <2>2
  <2>10. TablesOK'
    BY <1>a, <2>4, <2>6, <2>8, <2>9 DEF TablesOK
  <2>11. IF call.report = "summary" THEN steady' = {} ELSE steady' = steady \cap IdsOf(Now(call)')
    BY <2>5, <2>6 DEF Write, Now
  <2> QED
    BY <1>b, <2>5, <2>6, <2>8, <2>10, <2>11 DEF Write
<1>2. CASE Decide
  <2>1. PICK r \in refunds, s \in Statuses \ {"pending"} :
          Write((refunds \ {r}) \cup {[r EXCEPT !.status = s]}, users)
    BY <1>2 DEF Decide
  <2> DEFINE row == [r EXCEPT !.status = s]
  <2>2. given' = given
    BY <1>2 DEF Decide
  <2>3. r \in RefundRows
    BY <1>a DEF IsTable
  <2>4. row \in RefundRows /\ row.id = r.id /\ row.user = r.user
    BY <2>3 DEF RefundRows
  <2>5. Write((refunds \ {r}) \cup {row}, users)
    BY <2>1
  <2> HIDE DEF row
  <2>6. refunds' = (refunds \ {r}) \cup {row} /\ users' = users
    BY <2>5 DEF Write
  <2>7. IsTable(refunds \ {r}, RefundRows) /\ \A t \in refunds \ {r} : t.id # row.id
    BY <1>a, <2>4, FS_Subset DEF IsTable
  <2>8. IsTable(refunds', RefundRows)
    BY <2>4, <2>6, <2>7, AddRow
  <2>9. Touches(row.id, refunds, refunds')
    BY <2>4, <2>6 DEF Touches
  <2>10. TablesOK'
    BY <1>a, <2>2, <2>4, <2>6, <2>8 DEF TablesOK
  <2>11. IF call.report = "summary" THEN steady' = {} ELSE steady' = steady \cap IdsOf(Now(call)')
    BY <2>5, <2>6 DEF Write, Now
  <2> QED
    BY <1>b, <2>5, <2>6, <2>9, <2>10, <2>11 DEF Write
<1>3. CASE Delete
  <2>1. PICK r \in refunds : Write(refunds \ {r}, users)
    BY <1>3 DEF Delete
  <2>2. given' = given
    BY <1>3 DEF Delete
  <2>3. refunds' = refunds \ {r} /\ users' = users
    BY <2>1 DEF Write
  <2>4. IsTable(refunds', RefundRows)
    BY <1>a, <2>3, FS_Subset DEF IsTable
  <2>5. Touches(r.id, refunds, refunds')
    BY <2>3 DEF Touches
  <2>6. TablesOK'
    BY <1>a, <2>2, <2>3, <2>4 DEF TablesOK
  <2>7. IF call.report = "summary" THEN steady' = {} ELSE steady' = steady \cap IdsOf(Now(call)')
    BY <2>1, <2>3 DEF Write, Now
  <2> QED
    BY <1>b, <2>1, <2>3, <2>5, <2>6, <2>7 DEF Write
<1>4. CASE Register
  <2>1. PICK n \in {1, 2} : Write(refunds, users \cup {[id |-> NextId("users"), name |-> n]})
    BY <1>4 DEF Register
  <2> DEFINE row == [id |-> NextId("users"), name |-> n]
  <2>2. given' = [given EXCEPT !["users"] = @ + 1] /\ NextId("users") = given.users + 1
    BY <1>4 DEF Register, Give, NextId
  <2>3. row \in UserRows
    BY <1>a, <2>2 DEF UserRows
  <2>4. row.id = given.users + 1
    BY <2>2
  <2>5. Write(refunds, users \cup {row})
    BY <2>1
  <2> HIDE DEF row
  <2>6. refunds' = refunds /\ users' = users \cup {row}
    BY <2>5 DEF Write
  <2>7. \A s \in users : s.id # row.id
    BY <1>a, <2>4
  <2>8. /\ IsTable(users', UserRows) /\ Touches(row.id, users, users')
        /\ IdsOf(users) \subseteq IdsOf(users')
    BY <1>a, <2>3, <2>6, <2>7, AddRow
  <2>9. /\ given' \in [refunds: Nat, users: Nat]
        /\ given'.users = given.users + 1 /\ given'.refunds = given.refunds
    BY <1>a, <2>2
  <2>10. TablesOK'
    <3>1. \A u \in users' : u.id <= given'.users
      BY <1>a, <2>4, <2>6, <2>9
    <3>2. \A r \in refunds' : r.user \in IdsOf(users') /\ r.id <= given'.refunds
      BY <1>a, <2>6, <2>8, <2>9
    <3> QED
      BY <1>a, <2>6, <2>8, <2>9, <3>1, <3>2 DEF TablesOK
  <2>11. IF call.report = "summary" THEN steady' = {} ELSE steady' = steady \cap IdsOf(Now(call)')
    BY <2>5, <2>6 DEF Write, Now
  <2> QED
    BY <1>b, <2>5, <2>6, <2>8, <2>10, <2>11 DEF Write
<1> QED
  BY <1>1, <1>2, <1>3, <1>4 DEF Writing

-----------------------------------------------------------------------------
(* One page: the rows with the next places, each once.                     *)

LEMMA MinOfTwo ==
  ASSUME NEW a \in Int, NEW b \in Int
  PROVE  Min({a, b}) = IF a <= b THEN a ELSE b
<1>1. \E x \in {a, b} : \A y \in {a, b} : x <= y
  OBVIOUS
<1>2. Min({a, b}) \in {a, b} /\ \A y \in {a, b} : Min({a, b}) <= y
  BY <1>1 DEF Min
<1> QED
  BY <1>2

LEMMA PageRows ==
  ASSUME NEW T, NEW c, Sortable(T, c), c.per_page \in 1..100,
         NEW s \in Orderings(T, c), NEW p \in Nat, p > 0
  PROVE  LET q == PageOf(s, p, c)
             k == Offset(p, c)
             n == Cardinality(T)
         IN  /\ k \in Nat /\ n \in Nat /\ q \in Seq(T) /\ Len(q) \in Nat
             /\ Len(q) = IF n <= k THEN 0 ELSE IF k + c.per_page <= n THEN c.per_page ELSE n - k
             /\ \A i \in 1..Len(q) : q[i] \in T /\ Place(q[i], T, c) = k + i
             /\ \A r \in T : k < Place(r, T, c) /\ Place(r, T, c) <= k + c.per_page =>
                             \E i \in 1..Len(q) : q[i] = r
<1> DEFINE q == PageOf(s, p, c)
           k == Offset(p, c)
           n == Cardinality(T)
           pp == c.per_page
           top == IF k + pp <= n THEN k + pp ELSE n
<1>1. k \in Nat /\ pp \in Nat /\ pp > 0
  BY DEF Offset
<1>2. /\ s \in Seq(T) /\ Len(s) = n /\ n \in Nat
      /\ \A i \in 1..n : s[i] \in T /\ Place(s[i], T, c) = i
      /\ \A r \in T : s[Place(r, T, c)] = r /\ Place(r, T, c) \in 1..n
  BY PlaceInOrdering, AheadIsFinite, PlaceOrder
<1> HIDE DEF n, k, pp
<1>3. q = SubSeq(s, k + 1, top)
  <2>1. Min({k + pp, n}) = top
    BY <1>1, <1>2, MinOfTwo
  <2> QED
    BY <1>2, <2>1 DEF PageOf, k, pp
<1>4. top \in Nat /\ top <= n
  BY <1>1, <1>2
<1> HIDE DEF q, top
<1>5. /\ q \in Seq(T) /\ Len(q) = (IF k + 1 <= top THEN top - k ELSE 0)
      /\ \A i \in 1..Len(q) : q[i] = s[k + i]
  <2>1. SubSeq(s, k + 1, top) \in Seq(T)
    BY <1>1, <1>2, <1>4
  <2>2. Len(SubSeq(s, k + 1, top)) = (IF k + 1 <= top THEN top - k ELSE 0)
    BY <1>1, <1>2, <1>4
  <2>3. \A i \in 1..Len(SubSeq(s, k + 1, top)) : SubSeq(s, k + 1, top)[i] = s[k + i]
    BY <1>1, <1>2, <1>4, <2>2
  <2> QED
    BY <1>3, <2>1, <2>2, <2>3
<1>6. Len(q) \in Nat /\ Len(q) = IF n <= k THEN 0 ELSE IF k + pp <= n THEN pp ELSE n - k
  BY <1>1, <1>2, <1>5 DEF top
<1>7. \A i \in 1..Len(q) : q[i] \in T /\ Place(q[i], T, c) = k + i
  <2> SUFFICES ASSUME NEW i \in 1..Len(q) PROVE q[i] \in T /\ Place(q[i], T, c) = k + i
    OBVIOUS
  <2>1. k + i \in 1..n
    BY <1>1, <1>2, <1>6
  <2> QED
    BY <1>2, <1>5, <2>1
<1>8. ASSUME NEW r \in T, k < Place(r, T, c), Place(r, T, c) <= k + pp
      PROVE  \E i \in 1..Len(q) : q[i] = r
  <2>1. Place(r, T, c) \in 1..n
    BY <1>2
  <2>2. Place(r, T, c) - k \in 1..Len(q)
    BY <1>1, <1>2, <1>6, <1>8, <2>1
  <2>3. k + (Place(r, T, c) - k) = Place(r, T, c)
    BY <1>1, <2>1
  <2> QED
    BY <1>2, <1>5, <2>2, <2>3
<1> QED
  BY <1>1, <1>2, <1>5, <1>6, <1>7, <1>8 DEF q, k, n, pp

(* Turning the page shows the ids it has: those that had been shown before *)
(* are no longer waiting to be repeated.                                   *)
LEMMA PageIds ==
  ASSUME NEW T, NEW c, Sortable(T, c), c.per_page \in 1..100,
         NEW s \in Orderings(T, c), NEW p \in Nat, p > 0
  PROVE  LET q == PageOf(s, p, c)
             S == IdsOf(ToSet(q))
         IN  /\ IsFiniteSet(S) /\ Cardinality(S) = Len(q) /\ Len(q) \in Nat
             /\ S = IdsOf(UpTo(Offset(p, c) + c.per_page, T, c) \ UpTo(Offset(p, c), T, c))
<1> DEFINE q == PageOf(s, p, c)
           S == IdsOf(ToSet(q))
           k == Offset(p, c)
           pp == c.per_page
           id == [i \in 1..Len(q) |-> q[i].id]
<1>1. /\ k \in Nat /\ q \in Seq(T) /\ Len(q) \in Nat
      /\ Len(q) = IF Cardinality(T) <= k THEN 0
                  ELSE IF k + pp <= Cardinality(T) THEN pp ELSE Cardinality(T) - k
      /\ \A i \in 1..Len(q) : q[i] \in T /\ Place(q[i], T, c) = k + i
      /\ \A r \in T : k < Place(r, T, c) /\ Place(r, T, c) <= k + pp => \E i \in 1..Len(q) : q[i] = r
  BY PageRows
<1>a. Cardinality(T) \in Nat /\ pp \in Nat /\ pp > 0
  BY AheadIsFinite
<1> HIDE DEF q, k, pp
<1>2. DOMAIN q = 1..Len(q)
  BY <1>1
<1>3. S = {q[i].id : i \in 1..Len(q)}
  BY <1>2 DEF IdsOf, ToSet
<1>4. \A i, j \in 1..Len(q) : q[i].id = q[j].id => i = j
  <2> SUFFICES ASSUME NEW i \in 1..Len(q), NEW j \in 1..Len(q), q[i].id = q[j].id PROVE i = j
    OBVIOUS
  <2>1. q[i] = q[j]
    BY <1>1 DEF Sortable
  <2> QED
    BY <1>1, <2>1
<1>5. id \in Bijection(1..Len(q), S)
  <2> HIDE DEF S
  <2>1. id \in [1..Len(q) -> S]
    BY <1>3
  <2>2. \A x \in S : \E i \in 1..Len(q) : id[i] = x
    BY <1>3
  <2>3. \A i, j \in 1..Len(q) : id[i] = id[j] => i = j
    BY <1>4
  <2> HIDE DEF id
  <2> QED
    BY <2>1, <2>2, <2>3 DEF Bijection, Injection, Surjection, IsInjective
<1>6. IsFiniteSet(1..Len(q)) /\ Cardinality(1..Len(q)) = Len(q)
  <2>1. 1 \in Int /\ Len(q) \in Int
    BY <1>1
  <2>2. Cardinality(1..Len(q)) = IF 1 > Len(q) THEN 0 ELSE Len(q) - 1 + 1
    BY <2>1, FS_Interval
  <2> QED
    BY <1>1, <2>1, <2>2, FS_Interval
<1>7. IsFiniteSet(S) /\ Cardinality(S) = Len(q)
  BY <1>5, <1>6, FS_Bijection DEF ExistsBijection
<1>8. \A r : (\E i \in 1..Len(q) : q[i] = r) <=> r \in UpTo(k + pp, T, c) \ UpTo(k, T, c)
  <2>1. ASSUME NEW i \in 1..Len(q) PROVE q[i] \in UpTo(k + pp, T, c) \ UpTo(k, T, c)
    <3>1. i <= pp /\ k + i <= k + pp /\ ~(k + i <= k)
      BY <1>1, <1>a
    <3> QED
      BY <1>1, <3>1 DEF UpTo
  <2>2. ASSUME NEW r \in UpTo(k + pp, T, c) \ UpTo(k, T, c) PROVE \E i \in 1..Len(q) : q[i] = r
    <3>1. r \in T /\ Place(r, T, c) <= k + pp /\ ~(Place(r, T, c) <= k)
      BY DEF UpTo
    <3>2. Place(r, T, c) \in Nat
      BY <3>1, AheadIsFinite
    <3> QED
      BY <1>1, <3>1, <3>2
  <2> QED
    BY <2>1, <2>2
<1>9. S = IdsOf(UpTo(k + pp, T, c) \ UpTo(k, T, c))
  BY <1>3, <1>8, ZenonT(30) DEF IdsOf
<1> QED
  BY <1>1, <1>7, <1>9 DEF q, k, pp

-----------------------------------------------------------------------------
(* Small facts the steps need.                                             *)

LEMMA OneMore ==
  ASSUME NEW A, IsFiniteSet(A), NEW j, NEW B, B \subseteq A \cup {j}
  PROVE  /\ IsFiniteSet(B) /\ Cardinality(A) \in Nat /\ Cardinality(B) \in Nat
         /\ Cardinality(B) <= Cardinality(A) + 1
<1>1. /\ IsFiniteSet(A \cup {j}) /\ Cardinality(A) \in Nat
      /\ Cardinality(A \cup {j}) = IF j \in A THEN Cardinality(A) ELSE Cardinality(A) + 1
  BY FS_AddElement, FS_CardinalityType
<1>2. IsFiniteSet(B) /\ Cardinality(B) \in Nat /\ Cardinality(B) <= Cardinality(A \cup {j})
  BY <1>1, FS_Subset, FS_CardinalityType
<1> QED
  BY <1>1, <1>2

LEMMA Fewer ==
  ASSUME NEW A, IsFiniteSet(A), NEW B, B \subseteq A
  PROVE  /\ IsFiniteSet(B) /\ Cardinality(A) \in Nat /\ Cardinality(B) \in Nat
         /\ Cardinality(B) <= Cardinality(A)
BY FS_Subset, FS_CardinalityType

LEMMA OffsetSteps ==
  ASSUME NEW c, c.per_page \in 1..100, NEW p \in Nat, p > 0
  PROVE  /\ Offset(1, c) = 0 /\ Offset(p, c) \in Nat
         /\ Offset(p + 1, c) = Offset(p, c) + c.per_page
<1> DEFINE pp == c.per_page
<1>1. pp \in Nat
  OBVIOUS
<1> HIDE DEF pp
<1>2. (1 - 1) * pp = 0 /\ (p - 1) * pp \in Nat /\ (p + 1 - 1) * pp = (p - 1) * pp + pp
  BY <1>1
<1> QED
  BY <1>2 DEF Offset, pp

(* The last page is the one that reaches the total.                        *)
LEMMA LastPageReaches ==
  ASSUME NEW c, c.per_page \in 1..100, NEW p \in Nat, p > 0, NEW n \in Nat,
         ~(p < TotalPages(n, c))
  PROVE  n <= Offset(p, c) + c.per_page
<1> DEFINE pp == c.per_page
           q == (n + pp - 1) \div pp
<1>1. pp \in Nat /\ pp > 0
  OBVIOUS
<1> HIDE DEF pp
<1>2. q \in Int /\ n + pp - 1 < q * pp + pp
  BY <1>1
<1>3. q <= p
  BY <1>2 DEF TotalPages, pp
<1> HIDE DEF q
<1>4. q * pp <= p * pp
  BY <1>1, <1>2, <1>3
<1>5. (p - 1) * pp + pp = p * pp
  BY <1>1
<1>6. q * pp \in Int /\ p * pp \in Int
  BY <1>1, <1>2
<1>7. n <= p * pp
  BY <1>1, <1>2, <1>4, <1>6
<1> QED
  BY <1>5, <1>7 DEF Offset, pp

LEMMA MaxIsThere ==
  ASSUME NEW S, IsFiniteSet(S), S \subseteq Nat, S # {}
  PROVE  Max(S) \in S /\ \A y \in S : y <= Max(S)
<1> DEFINE Bad(T) == T # {} /\ ~\E x \in T : \A y \in T : x >= y
           sizes == {m \in Nat : \E T \in SUBSET S : Cardinality(T) = m /\ Bad(T)}
<1>1. ASSUME NEW T \in SUBSET S, Bad(T) PROVE FALSE
  <2>1. Cardinality(T) \in sizes /\ sizes \subseteq Nat
    BY <1>1, FS_Subset, FS_CardinalityType
  <2>2. PICK m \in sizes : \A k \in sizes : m <= k
    BY <2>1, LeastNat
  <2>3. PICK U \in SUBSET S : Cardinality(U) = m /\ Bad(U)
    BY <2>2
  <2>4. PICK x \in U : TRUE
    BY <2>3
  <2>5. U \ {x} \in SUBSET S /\ Cardinality(U \ {x}) = m - 1 /\ m - 1 \in Nat
    <3>1. IsFiniteSet(U) /\ Cardinality(U \ {x}) = Cardinality(U) - 1
      BY <2>3, <2>4, FS_Subset, FS_RemoveElement
    <3>2. IsFiniteSet(U \ {x}) /\ Cardinality(U \ {x}) \in Nat
      BY <3>1, FS_Subset, FS_CardinalityType
    <3> QED
      BY <2>3, <3>1, <3>2
  <2>6. ~Bad(U \ {x})
    BY <2>2, <2>5
  <2>7. CASE U \ {x} = {}
    BY <2>3, <2>4, <2>7
  <2>8. CASE U \ {x} # {}
    <3>1. PICK z \in U \ {x} : \A y \in U \ {x} : z >= y
      BY <2>6, <2>8
    <3>2. x \in Nat /\ z \in Nat /\ \A y \in U : y \in Nat
      BY <2>3, <2>4, <3>1
    <3>3. CASE z >= x
      BY <2>3, <3>1, <3>2, <3>3
    <3>4. CASE ~(z >= x)
      <4>1. \A y \in U : x >= y
        BY <3>1, <3>2, <3>4
      <4> QED
        BY <2>3, <4>1
    <3> QED
      BY <3>3, <3>4
  <2> QED
    BY <2>7, <2>8
<1>2. \E x \in S : \A y \in S : x >= y
  BY <1>1
<1>3. Max(S) \in S /\ \A y \in S : Max(S) >= y
  BY <1>2 DEF Max
<1> QED
  BY <1>3

-----------------------------------------------------------------------------
(* What one write does to the rows that slip from the pages to come.       *)

MissedOf(ids, shown, k, T, c) == (ids \cap IdsOf(UpTo(k, T, c))) \ shown
RepeatedOf(shown, k, T, c) == shown \cap IdsOf(T \ UpTo(k, T, c))

LEMMA SlipsAreFinite ==
  ASSUME NEW T, NEW c, Sortable(T, c), NEW k, NEW ids, NEW shown
  PROVE  /\ IsFiniteSet(MissedOf(ids, shown, k, T, c)) /\ IsFiniteSet(RepeatedOf(shown, k, T, c))
         /\ Cardinality(MissedOf(ids, shown, k, T, c)) \in Nat
         /\ Cardinality(RepeatedOf(shown, k, T, c)) \in Nat
         /\ IsFiniteSet(T) /\ Cardinality(T) \in Nat
<1>1. IsFiniteSet(T) /\ IsFiniteSet(IdsOf(T))
  BY IdsAreFinite DEF Sortable
<1>2. MissedOf(ids, shown, k, T, c) \subseteq IdsOf(T) /\ RepeatedOf(shown, k, T, c) \subseteq IdsOf(T)
  BY DEF MissedOf, RepeatedOf, UpTo, IdsOf
<1> QED
  BY <1>1, <1>2, FS_Subset, FS_CardinalityType

LEMMA SlipsOfAWrite ==
  ASSUME NEW T, NEW U, NEW c, Sortable(T, c), Sortable(U, c), NEW i, Touches(i, T, U),
         NEW k \in Int, NEW ids, ids \subseteq IdsOf(T), NEW shown
  PROVE  /\ \/ /\ Cardinality(MissedOf(ids \cap IdsOf(U), shown, k, U, c))
                    <= Cardinality(MissedOf(ids, shown, k, T, c)) + 1
               /\ Cardinality(U) <= Cardinality(T)
            \/ /\ Cardinality(MissedOf(ids \cap IdsOf(U), shown, k, U, c))
                    <= Cardinality(MissedOf(ids, shown, k, T, c))
               /\ Cardinality(U) <= Cardinality(T) + 1
         /\ Cardinality(RepeatedOf(shown, k, U, c)) <= Cardinality(RepeatedOf(shown, k, T, c)) + 1
<1>1. /\ Unique(T) /\ Unique(U)
      /\ IsFiniteSet(MissedOf(ids, shown, k, T, c)) /\ IsFiniteSet(RepeatedOf(shown, k, T, c))
  BY SlipsAreFinite DEF Sortable, Unique
<1>a. /\ Cardinality(U) <= Cardinality(T) + 1
      /\ i \in IdsOf(T) => Cardinality(U) <= Cardinality(T)
  BY <1>1, OneRow
<1>b. Cardinality(RepeatedOf(shown, k, U, c)) <= Cardinality(RepeatedOf(shown, k, T, c)) + 1
  <2>1. PICK j : IdsOf(U \ UpTo(k, U, c)) \subseteq IdsOf(T \ UpTo(k, T, c)) \cup {j}
    BY OneSlipsOut
  <2>2. RepeatedOf(shown, k, U, c) \subseteq RepeatedOf(shown, k, T, c) \cup {j}
    BY <2>1 DEF RepeatedOf
  <2> QED
    BY <1>1, <2>2, OneMore
<1>2. CASE i \in IdsOf(T)
  <2>1. PICK j : IdsOf(UpTo(k, U, c)) \subseteq IdsOf(UpTo(k, T, c)) \cup {j}
    BY OneSlipsIn
  <2>2. MissedOf(ids \cap IdsOf(U), shown, k, U, c) \subseteq MissedOf(ids, shown, k, T, c) \cup {j}
    BY <2>1 DEF MissedOf
  <2>3. Cardinality(MissedOf(ids \cap IdsOf(U), shown, k, U, c))
          <= Cardinality(MissedOf(ids, shown, k, T, c)) + 1
    BY <1>1, <2>2, OneMore
  <2> QED
    BY <1>2, <1>a, <1>b, <2>3
<1>3. CASE i \notin IdsOf(T)
  <2>1. IdsOf(UpTo(k, U, c)) \subseteq IdsOf(UpTo(k, T, c)) \cup {i}
    BY <1>3, OneSlipsIn
  <2>2. MissedOf(ids \cap IdsOf(U), shown, k, U, c) \subseteq MissedOf(ids, shown, k, T, c)
    BY <1>3, <2>1 DEF MissedOf
  <2>3. Cardinality(MissedOf(ids \cap IdsOf(U), shown, k, U, c))
          <= Cardinality(MissedOf(ids, shown, k, T, c))
    BY <1>1, <2>2, Fewer
  <2> QED
    BY <1>a, <1>b, <2>3
<1> QED
  BY <1>2, <1>3

-----------------------------------------------------------------------------
(* What turning a page does to them, and what is left after the last one.  *)

LEMMA RestIsSmall ==
  ASSUME NEW T, NEW c, Sortable(T, c), NEW k \in Nat
  PROVE  /\ IsFiniteSet(IdsOf(T \ UpTo(k, T, c))) /\ Cardinality(IdsOf(T \ UpTo(k, T, c))) \in Nat
         /\ Cardinality(IdsOf(T \ UpTo(k, T, c)))
              <= IF k < Cardinality(T) THEN Cardinality(T) - k ELSE 0
<1> DEFINE rest == T \ UpTo(k, T, c)
           n == Cardinality(T)
           id == [r \in rest |-> r.id]
           place == [r \in rest |-> Place(r, T, c)]
<1>1. IsFiniteSet(rest) /\ Cardinality(rest) \in Nat /\ n \in Nat
  BY Fewer DEF Sortable
<1>2. IsFiniteSet(IdsOf(rest)) /\ Cardinality(IdsOf(rest)) <= Cardinality(rest)
  <2> HIDE DEF rest
  <2>1. id \in Surjection(rest, IdsOf(rest))
    BY DEF Surjection, IdsOf
  <2> QED
    BY <1>1, <2>1, FS_Surjection
<1>3. \A r \in rest : Place(r, T, c) \in (k + 1)..n
  <2> SUFFICES ASSUME NEW r \in rest PROVE Place(r, T, c) \in (k + 1)..n
    OBVIOUS
  <2>1. Place(r, T, c) \in 1..n /\ ~(Place(r, T, c) <= k)
    BY PlaceOrder DEF UpTo
  <2> QED
    BY <1>1, <2>1
<1>4. \A r, s \in rest : Place(r, T, c) = Place(s, T, c) => r = s
  BY PlaceOrder
<1> HIDE DEF rest
<1>5. place \in Injection(rest, (k + 1)..n)
  BY <1>3, <1>4 DEF Injection, IsInjective
<1> HIDE DEF n, place
<1>6. IsFiniteSet((k + 1)..n) /\ Cardinality((k + 1)..n) = IF k + 1 > n THEN 0 ELSE n - (k + 1) + 1
  BY <1>1, FS_Interval
<1>7. Cardinality(rest) <= IF k < n THEN n - k ELSE 0
  <2>1. Cardinality(rest) <= Cardinality((k + 1)..n)
    BY <1>5, <1>6, FS_Injection
  <2> QED
    BY <1>1, <1>6, <2>1
<1>8. Cardinality(IdsOf(rest)) \in Nat
  BY <1>2, FS_CardinalityType
<1> QED
  BY <1>1, <1>2, <1>7, <1>8 DEF rest, n

LEMMA SlipsOfAPage ==
  ASSUME NEW T, NEW c, Sortable(T, c), NEW k \in Nat, NEW l \in Nat, k <= l,
         NEW S, S = IdsOf(UpTo(l, T, c) \ UpTo(k, T, c)), IsFiniteSet(S),
         NEW ids, NEW shown, IsFiniteSet(shown)
  PROVE  /\ IsFiniteSet(shown \cup S)
         /\ Cardinality(MissedOf(ids, shown \cup S, l, T, c))
              <= Cardinality(MissedOf(ids, shown, k, T, c))
         /\ Cardinality(S) - (Cardinality(shown \cup S) - Cardinality(shown))
              + Cardinality(RepeatedOf(shown \cup S, l, T, c))
              <= Cardinality(RepeatedOf(shown, k, T, c))
<1>1. /\ IsFiniteSet(shown \cup S) /\ Cardinality(shown) \in Nat /\ Cardinality(S) \in Nat
      /\ Cardinality(shown \cup S) = Cardinality(shown) + Cardinality(S) - Cardinality(shown \cap S)
      /\ Cardinality(shown \cap S) \in Nat
  BY FS_Union, FS_Intersection, FS_CardinalityType
<1>2. MissedOf(ids, shown \cup S, l, T, c) \subseteq MissedOf(ids, shown, k, T, c)
  BY DEF MissedOf, IdsOf
<1>3. Cardinality(MissedOf(ids, shown \cup S, l, T, c)) <= Cardinality(MissedOf(ids, shown, k, T, c))
  BY <1>2, SlipsAreFinite, Fewer
<1>4. \A r \in T : Place(r, T, c) \in Nat
  BY AheadIsFinite
<1>5. UpTo(k, T, c) \subseteq UpTo(l, T, c) /\ UpTo(l, T, c) \subseteq T
  BY <1>4 DEF UpTo
<1>6. S \cap IdsOf(T \ UpTo(l, T, c)) = {}
  BY <1>5 DEF IdsOf, Sortable
<1>7. RepeatedOf(shown \cup S, l, T, c) = shown \cap IdsOf(T \ UpTo(l, T, c))
  BY <1>6 DEF RepeatedOf
<1>8. (shown \cap S) \cup RepeatedOf(shown \cup S, l, T, c) \subseteq RepeatedOf(shown, k, T, c)
  BY <1>5, <1>7 DEF RepeatedOf, IdsOf
<1>9. (shown \cap S) \cap RepeatedOf(shown \cup S, l, T, c) = {}
  BY <1>6, <1>7
<1> DEFINE A == shown \cap S
           B == RepeatedOf(shown \cup S, l, T, c)
           C == RepeatedOf(shown, k, T, c)
<1>10. IsFiniteSet(A) /\ IsFiniteSet(B) /\ Cardinality(A) \in Nat /\ Cardinality(B) \in Nat
  BY SlipsAreFinite, FS_Intersection, FS_CardinalityType
<1>11. IsFiniteSet(C) /\ Cardinality(C) \in Nat
  BY SlipsAreFinite
<1> HIDE DEF A, B, C
<1>12. Cardinality(A \cup B) = Cardinality(A) + Cardinality(B)
  <2>1. Cardinality(A \cup B) = Cardinality(A) + Cardinality(B) - Cardinality(A \cap B)
    BY <1>10, FS_Union
  <2>2. A \cap B = {}
    BY <1>9 DEF A, B
  <2>3. Cardinality({}) = 0
    BY FS_EmptySet
  <2>4. Cardinality(A \cap B) = 0
    BY <2>2, <2>3
  <2> QED
    BY <1>10, <2>1, <2>4
<1>13. A \cup B \subseteq C
  BY <1>8 DEF A, B, C
<1>14. Cardinality(A) + Cardinality(B) <= Cardinality(C)
  BY <1>11, <1>12, <1>13, Fewer
<1>15. Cardinality(S) - (Cardinality(shown \cup S) - Cardinality(shown)) + Cardinality(B) <= Cardinality(C)
  BY <1>1, <1>10, <1>11, <1>14 DEF A
<1> QED
  BY <1>1, <1>3, <1>15 DEF B, C

(* What was not shown after the last page slipped, or lies beyond it.      *)
LEMMA MissedAfterAll ==
  ASSUME NEW T, NEW c, Sortable(T, c), NEW l \in Nat, NEW n \in Nat, n <= l,
         NEW ids, ids \subseteq IdsOf(T), NEW shown
  PROVE  /\ Cardinality(ids \ shown) \in Nat
         /\ Cardinality(ids \ shown)
              <= Cardinality(MissedOf(ids, shown, l, T, c))
                   + (IF n < Cardinality(T) THEN Cardinality(T) - n ELSE 0)
<1> DEFINE A == MissedOf(ids, shown, l, T, c)
           B == IdsOf(T \ UpTo(l, T, c))
<1>1. ids \ shown \subseteq A \cup B
  BY DEF MissedOf, IdsOf
<1>2. IsFiniteSet(A) /\ Cardinality(A) \in Nat /\ Cardinality(T) \in Nat
  BY SlipsAreFinite
<1>3. /\ IsFiniteSet(B) /\ Cardinality(B) \in Nat
      /\ Cardinality(B) <= IF l < Cardinality(T) THEN Cardinality(T) - l ELSE 0
  BY RestIsSmall
<1> HIDE DEF A, B
<1>4. /\ IsFiniteSet(A \cup B) /\ Cardinality(A \cap B) \in Nat
      /\ Cardinality(A \cup B) = Cardinality(A) + Cardinality(B) - Cardinality(A \cap B)
  BY <1>2, <1>3, FS_Union, FS_Intersection, FS_CardinalityType
<1>5. /\ Cardinality(ids \ shown) \in Nat /\ Cardinality(A \cup B) \in Nat
      /\ Cardinality(ids \ shown) <= Cardinality(A \cup B)
  BY <1>1, <1>4, Fewer
<1> QED
  BY <1>2, <1>3, <1>4, <1>5 DEF A

-----------------------------------------------------------------------------
(* The pages so far are the beginning of the listing.                      *)

Beginning(R, k, T, c) ==
  /\ Len(R) = IF k < Cardinality(T) THEN k ELSE Cardinality(T)
  /\ \A i \in DOMAIN R : R[i] \in T /\ Place(R[i], T, c) = i

LEMMA PerPage ==
  ASSUME NEW c, c.per_page \in 1..100
  PROVE  c.per_page \in Nat /\ c.per_page > 0
OBVIOUS

LEMMA Concatenation ==
  ASSUME NEW X, NEW T, T \subseteq X, NEW q \in Seq(T), NEW R \in Seq(X)
  PROVE  /\ R \o q \in Seq(X) /\ Len(R \o q) = Len(R) + Len(q)
         /\ DOMAIN (R \o q) = 1..(Len(R) + Len(q)) /\ Len(R) \in Nat /\ Len(q) \in Nat
         /\ DOMAIN R = 1..Len(R) /\ DOMAIN q = 1..Len(q)
         /\ \A i \in 1..Len(R) : (R \o q)[i] = R[i]
         /\ \A i \in 1..Len(q) : (R \o q)[Len(R) + i] = q[i] /\ q[i] \in T
<1>1. q \in Seq(X)
  <2>1. q \in [1..Len(q) -> T] /\ Len(q) \in Nat
    OBVIOUS
  <2>2. q \in [1..Len(q) -> X]
    BY <2>1
  <2> QED
    BY <2>1, <2>2
<1> QED
  BY <1>1

LEMMA NextBeginning ==
  ASSUME NEW T, NEW c, Sortable(T, c), c.per_page \in 1..100,
         NEW s \in Orderings(T, c), NEW p \in Nat, p > 0,
         NEW X, T \subseteq X, NEW R \in Seq(X), Beginning(R, Offset(p, c), T, c)
  PROVE  Beginning(R \o PageOf(s, p, c), Offset(p, c) + c.per_page, T, c)
<1> DEFINE q == PageOf(s, p, c)
           k == Offset(p, c)
           n == Cardinality(T)
           pp == c.per_page
<1>1. /\ k \in Nat /\ n \in Nat /\ q \in Seq(T) /\ Len(q) \in Nat
      /\ Len(q) = IF n <= k THEN 0 ELSE IF k + pp <= n THEN pp ELSE n - k
      /\ \A i \in 1..Len(q) : q[i] \in T /\ Place(q[i], T, c) = k + i
  BY PageRows
<1>2. pp \in Nat
  BY PerPage DEF pp
<1>3. /\ Len(R) = IF k < n THEN k ELSE n
      /\ \A i \in 1..Len(R) : R[i] \in T /\ Place(R[i], T, c) = i
  BY DEF Beginning
<1> HIDE DEF q, k, n, pp
<1>a. q \in Seq(T)
  BY <1>1
<1>4. /\ R \o q \in Seq(X) /\ Len(R \o q) = Len(R) + Len(q)
      /\ DOMAIN (R \o q) = 1..(Len(R) + Len(q)) /\ Len(R) \in Nat /\ Len(q) \in Nat
      /\ DOMAIN R = 1..Len(R) /\ DOMAIN q = 1..Len(q)
      /\ \A i \in 1..Len(R) : (R \o q)[i] = R[i]
      /\ \A i \in 1..Len(q) : (R \o q)[Len(R) + i] = q[i] /\ q[i] \in T
  BY <1>a, Concatenation
<1>5. Len(R \o q) = IF k + pp < n THEN k + pp ELSE n
  BY <1>1, <1>2, <1>3, <1>4
<1>6. ASSUME NEW i \in 1..(Len(R) + Len(q))
      PROVE  (R \o q)[i] \in T /\ Place((R \o q)[i], T, c) = i
  <2>1. Len(R) \in Nat
    OBVIOUS
  <2>2. CASE i <= Len(R)
    <3>1. i \in 1..Len(R)
      BY <2>1, <2>2
    <3> QED
      BY <1>3, <1>4, <3>1
  <2>3. CASE ~(i <= Len(R))
    <3>1. i - Len(R) \in 1..Len(q) /\ Len(R) + (i - Len(R)) = i
      BY <1>1, <2>1, <2>3
    <3>2. Len(R) = k
      BY <1>1, <1>2, <1>3, <3>1
    <3> QED
      BY <1>1, <1>4, <3>1, <3>2
  <2> QED
    BY <2>2, <2>3
<1> QED
  BY <1>4, <1>5, <1>6 DEF Beginning, q, k, n, pp

LEMMA WholeListing ==
  ASSUME NEW T, NEW c, Sortable(T, c), NEW l \in Nat, Cardinality(T) <= l,
         NEW X, NEW R \in Seq(X), Beginning(R, l, T, c)
  PROVE  /\ ToSet(R) = T /\ Len(R) = Cardinality(T)
         /\ \A i, j \in DOMAIN R : i < j => Precedes(R[i], R[j], c)
<1>1. /\ Len(R) = Cardinality(T) /\ DOMAIN R = 1..Len(R) /\ Cardinality(T) \in Nat
      /\ \A i \in DOMAIN R : R[i] \in T /\ Place(R[i], T, c) = i
  BY AheadIsFinite DEF Beginning
<1>2. ASSUME NEW r \in T PROVE \E i \in DOMAIN R : R[i] = r
  <2>1. Place(r, T, c) \in 1..Cardinality(T)
    BY PlaceOrder
  <2>2. R[Place(r, T, c)] \in T /\ Place(R[Place(r, T, c)], T, c) = Place(r, T, c)
    BY <1>1, <2>1
  <2>3. R[Place(r, T, c)] = r
    BY <2>2, PlaceOrder
  <2> QED
    BY <1>1, <2>1, <2>3
<1>3. ToSet(R) = T
  BY <1>1, <1>2 DEF ToSet
<1>4. ASSUME NEW i \in DOMAIN R, NEW j \in DOMAIN R, i < j PROVE Precedes(R[i], R[j], c)
  BY <1>1, <1>4, PlaceOrder
<1> QED
  BY <1>1, <1>3, <1>4

LEMMA SeqOfPart ==
  ASSUME NEW X, NEW T, T \subseteq X, NEW q \in Seq(T), NEW R \in Seq(X)
  PROVE  /\ R \o q \in Seq(X) /\ Len(R \o q) = Len(R) + Len(q)
         /\ ToSet(R \o q) = ToSet(R) \cup ToSet(q)
         /\ IdsOf(ToSet(R \o q)) = IdsOf(ToSet(R)) \cup IdsOf(ToSet(q))
         /\ \A i \in DOMAIN (R \o q) : \/ i \in DOMAIN R /\ (R \o q)[i] = R[i]
                                       \/ (R \o q)[i] \in T
<1>2. /\ R \o q \in Seq(X) /\ Len(R \o q) = Len(R) + Len(q)
      /\ DOMAIN (R \o q) = 1..(Len(R) + Len(q)) /\ Len(R) \in Nat /\ Len(q) \in Nat
      /\ DOMAIN R = 1..Len(R) /\ DOMAIN q = 1..Len(q)
      /\ \A i \in 1..Len(R) : (R \o q)[i] = R[i]
      /\ \A i \in 1..Len(q) : (R \o q)[Len(R) + i] = q[i] /\ q[i] \in T
  BY Concatenation
<1>3. ASSUME NEW i \in DOMAIN (R \o q)
      PROVE  \/ i \in DOMAIN R /\ (R \o q)[i] = R[i]
             \/ i - Len(R) \in DOMAIN q /\ (R \o q)[i] = q[i - Len(R)] /\ (R \o q)[i] \in T
  <2>1. CASE i <= Len(R)
    BY <1>2, <2>1
  <2>2. CASE ~(i <= Len(R))
    <3>1. i - Len(R) \in 1..Len(q) /\ Len(R) + (i - Len(R)) = i
      BY <1>2, <2>2
    <3> QED
      BY <1>2, <3>1
  <2> QED
    BY <2>1, <2>2
<1>4. \A i \in DOMAIN R : i \in DOMAIN (R \o q) /\ (R \o q)[i] = R[i]
  BY <1>2
<1>5. \A i \in DOMAIN q : Len(R) + i \in DOMAIN (R \o q) /\ (R \o q)[Len(R) + i] = q[i]
  BY <1>2
<1>6. ToSet(R \o q) = ToSet(R) \cup ToSet(q)
  <2>1. \A x \in ToSet(R \o q) : x \in ToSet(R) \cup ToSet(q)
    BY <1>3 DEF ToSet
  <2>2. \A x \in ToSet(R) : x \in ToSet(R \o q)
    BY <1>4 DEF ToSet
  <2>3. \A x \in ToSet(q) : x \in ToSet(R \o q)
    BY <1>5 DEF ToSet
  <2> QED
    BY <2>1, <2>2, <2>3
<1> QED
  BY <1>2, <1>3, <1>6 DEF IdsOf

-----------------------------------------------------------------------------
(* The invariant: at the beginning, and while nobody asks or after.        *)

LEMMA InitIsGood ==
  ASSUME InputsAreSound, Init
  PROVE  IInv
<1>1. /\ refunds \in Tables /\ users = People /\ pc = "idle" /\ call \in Calls
      /\ page = 0 /\ total = 0 /\ rows = <<>> /\ grouped = NoGroups /\ writes = 0 /\ steady = {}
      /\ given = [refunds |-> Max({0} \cup IdsOf(refunds)), users |-> Max({0} \cup IdsOf(users))]
  BY DEF Init
<1>2. /\ IsTable(refunds, RefundRows) /\ IsTable(users, UserRows)
      /\ \A r \in refunds : r.user \in IdsOf(users)
  BY <1>1 DEF InputsAreSound
<1>3. \A T : IsFiniteSet(T) /\ (\A r \in T : r.id \in Nat) =>
        /\ Max({0} \cup IdsOf(T)) \in Nat
        /\ \A r \in T : r.id <= Max({0} \cup IdsOf(T))
  <2> SUFFICES ASSUME NEW T, IsFiniteSet(T), \A r \in T : r.id \in Nat
               PROVE  /\ Max({0} \cup IdsOf(T)) \in Nat
                      /\ \A r \in T : r.id <= Max({0} \cup IdsOf(T))
    OBVIOUS
  <2>1. IsFiniteSet({0} \cup IdsOf(T)) /\ {0} \cup IdsOf(T) \subseteq Nat /\ {0} \cup IdsOf(T) # {}
    <3>1. IsFiniteSet({0}) /\ IsFiniteSet(IdsOf(T))
      BY IdsAreFinite, FS_Singleton
    <3>2. IdsOf(T) \subseteq Nat
      BY DEF IdsOf
    <3>3. IsFiniteSet({0} \cup IdsOf(T))
      BY <3>1, FS_Union
    <3> QED
      BY <3>2, <3>3
  <2>2. /\ Max({0} \cup IdsOf(T)) \in {0} \cup IdsOf(T)
        /\ \A y \in {0} \cup IdsOf(T) : y <= Max({0} \cup IdsOf(T))
    BY <2>1, MaxIsThere
  <2>3. \A r \in T : r.id \in {0} \cup IdsOf(T)
    BY DEF IdsOf
  <2> QED
    BY <2>1, <2>2, <2>3
<1>4. TablesOK
  <2>1. /\ \A r \in refunds : r.id \in Nat
        /\ \A r \in users : r.id \in Nat
        /\ IsFiniteSet(refunds) /\ IsFiniteSet(users)
    BY <1>2, RowFields DEF IsTable, UserRows
  <2>2. given.refunds = Max({0} \cup IdsOf(refunds)) /\ given.users = Max({0} \cup IdsOf(users))
    BY <1>1
  <2>3. /\ given.refunds \in Nat /\ \A r \in refunds : r.id <= given.refunds
        /\ given.users \in Nat /\ \A r \in users : r.id <= given.users
    BY <1>3, <2>1, <2>2
  <2>4. given \in [refunds: Nat, users: Nat]
    BY <1>1, <2>2, <2>3
  <2> QED
    BY <1>2, <2>3, <2>4 DEF TablesOK
<1>5. ControlOK
  BY <1>1 DEF ControlOK, InputsAreSound, Reading
<1>6. ListingInv
  BY <1>1 DEF ListingInv
<1>7. SummaryInv
  BY <1>1 DEF SummaryInv
<1>8. QuietListingIsComplete /\ EveryMissedRowHasAWrite
  BY <1>1 DEF QuietListingIsComplete, EveryMissedRowHasAWrite, Answered
<1> QED
  BY <1>1, <1>4, <1>5, <1>6, <1>7, <1>8 DEF IInv

LEMMA StandingStill ==
  ASSUME IInv, UNCHANGED vars
  PROVE  IInv'
<1>1. UNCHANGED <<refunds, users, pc, call, page, total, rows, grouped, given, writes, steady>>
  BY DEF vars
<1>2. TablesOK'
  BY <1>1 DEF IInv, TablesOK
<1>3. ControlOK'
  BY <1>1 DEF IInv, ControlOK, Reading
<1>4. ListingInv'
  BY <1>1 DEF IInv, ListingInv, SlipsOK, QuietOK, Missed, Repeated, Beyond, Shown, Passed, Reached, Now
<1>5. SummaryInv'
  BY <1>1 DEF IInv, SummaryInv
<1>6. QuietListingIsComplete' /\ EveryMissedRowHasAWrite' /\ (steady \subseteq Nat)'
  BY <1>1 DEF IInv, QuietListingIsComplete, EveryMissedRowHasAWrite, Answered, Now
<1> QED
  BY <1>2, <1>3, <1>4, <1>5, <1>6 DEF IInv

LEMMA AskStep ==
  ASSUME InputsAreSound, IInv, Ask
  PROVE  IInv'
<1>1. /\ pc = "idle" /\ page' = 1
      /\ pc' = IF Refused(call) THEN "refused" ELSE IF call.report = "summary" THEN "status" ELSE "total"
      /\ UNCHANGED <<refunds, users, call, total, rows, grouped, given, writes, steady>>
  BY DEF Ask
<1>2. writes = 0 /\ rows = <<>> /\ steady = {}
  BY <1>1 DEF IInv, ControlOK, Reading
<1>3. TablesOK'
  BY <1>1 DEF IInv, TablesOK
<1>4. ControlOK'
  BY <1>1, <1>2 DEF IInv, ControlOK, Reading
<1>5. ListingInv'
  <2>1. CASE pc' = "total"
    <3>1. ~Refused(call) /\ call.report # "summary" /\ call \in Calls
      BY <1>1, <2>1 DEF IInv, ControlOK
    <3>2. call.per_page \in 1..100 /\ Sortable(Now(call), call)
      BY <3>1, CallFields, SourceIsSortable DEF IInv, TablesOK, Now
    <3>3. Reached' = 0
      BY <1>1, <3>2, OffsetSteps DEF Reached
    <3>4. Cardinality(Now(call)) \in Nat /\ Now(call)' = Now(call)
      BY <1>1, <3>2, AheadIsFinite DEF Now
    <3>5. SlipsOK'
      <4>1. Missed' = {} /\ Repeated' = {} /\ Shown' = {} /\ Beyond' = 0
        <5>1. ToSet(<<>>) = {}
          BY DEF ToSet
        <5> QED
          BY <1>1, <1>2, <2>1, <5>1 DEF Missed, Repeated, Shown, Beyond, IdsOf
      <4>2. Cardinality({}) = 0
        BY FS_EmptySet
      <4> QED
        BY <1>1, <1>2, <4>1, <4>2 DEF SlipsOK
    <3>6. QuietOK'
      <4>1. Len(rows') = 0 /\ DOMAIN rows' = {}
        BY <1>1, <1>2
      <4> QED
        BY <2>1, <3>3, <3>4, <4>1 DEF QuietOK
    <3> QED
      BY <1>1, <3>5, <3>6 DEF IInv, ListingInv
  <2>2. CASE pc' \notin {"total", "page"}
    BY <1>1, <2>2 DEF IInv, ListingInv
  <2> QED
    BY <1>1, <2>1, <2>2
<1>6. SummaryInv'
  BY <1>1 DEF IInv, SummaryInv
<1>7. QuietListingIsComplete' /\ EveryMissedRowHasAWrite' /\ (steady \subseteq Nat)'
  BY <1>1 DEF IInv, QuietListingIsComplete, EveryMissedRowHasAWrite, Answered
<1> QED
  BY <1>3, <1>4, <1>5, <1>6, <1>7 DEF IInv

-----------------------------------------------------------------------------
(* A report that runs, and the steps of a listing.                         *)

LEMMA Running ==
  ASSUME InputsAreSound, IInv, pc \notin {"idle", "refused"}
  PROVE  /\ call \in Calls /\ ~Refused(call) /\ page \in Nat /\ page > 0
         /\ total \in Nat /\ writes \in Nat
         /\ call.report # "summary" =>
              /\ Sortable(Now(call), call) /\ call.per_page \in 1..100
              /\ Reached \in Nat
              /\ rows \in Seq(IF call.report = "users" THEN UserRows ELSE RefundRows)
              /\ Now(call) \subseteq IF call.report = "users" THEN UserRows ELSE RefundRows
              /\ IsFiniteSet(Shown) /\ Cardinality(Shown) \in Nat
         /\ call.report = "summary" =>
              /\ Unique(Summarized(refunds, call)) /\ Cardinality(Summarized(refunds, call)) \in Nat
              /\ pc \notin {"total", "page"}
<1>1. /\ call \in Calls /\ ~Refused(call) /\ page \in Nat /\ page > 0
      /\ total \in Nat /\ writes \in Nat
  BY DEF IInv, ControlOK, InputsAreSound
<1>2. IsTable(refunds, RefundRows) /\ IsTable(users, UserRows)
  BY DEF IInv, TablesOK
<1>3. ASSUME call.report # "summary"
      PROVE  /\ Sortable(Now(call), call) /\ call.per_page \in 1..100
             /\ Reached \in Nat
             /\ rows \in Seq(IF call.report = "users" THEN UserRows ELSE RefundRows)
             /\ Now(call) \subseteq IF call.report = "users" THEN UserRows ELSE RefundRows
             /\ IsFiniteSet(Shown) /\ Cardinality(Shown) \in Nat
  <2>1. Sortable(Now(call), call) /\ call.per_page \in 1..100
    BY <1>1, <1>2, <1>3, CallFields, SourceIsSortable DEF Now
  <2>2. Reached \in Nat
    BY <1>1, <2>1, OffsetSteps DEF Reached
  <2>3. rows \in Seq(IF call.report = "users" THEN UserRows ELSE RefundRows)
    BY <1>3 DEF IInv, ListingInv
  <2>4. Now(call) \subseteq IF call.report = "users" THEN UserRows ELSE RefundRows
    BY <1>2, ListedIsPart DEF Now, Source, IsTable
  <2>5. IsFiniteSet(Shown) /\ Cardinality(Shown) \in Nat
    <3>1. DOMAIN rows = 1..Len(rows) /\ Len(rows) \in Nat
      BY <2>3
    <3>2. IsFiniteSet(DOMAIN rows)
      BY <3>1, FS_Interval
    <3> DEFINE id == [i \in DOMAIN rows |-> rows[i].id]
    <3>3. id \in Surjection(DOMAIN rows, Shown)
      BY DEF Surjection, Shown, IdsOf, ToSet
    <3> QED
      BY <3>2, <3>3, FS_Surjection, FS_CardinalityType
  <2> QED
    BY <2>1, <2>2, <2>3, <2>4, <2>5
<1>4. ASSUME call.report = "summary"
      PROVE  /\ Unique(Summarized(refunds, call)) /\ Cardinality(Summarized(refunds, call)) \in Nat
             /\ pc \notin {"total", "page"}
  <2>1. Unique(Summarized(refunds, call))
    BY <1>1, <1>2, <1>4, SummarizedRows
  <2>2. Cardinality(Summarized(refunds, call)) \in Nat
    BY <2>1, FS_CardinalityType DEF Unique
  <2> QED
    BY <1>4, <2>1, <2>2 DEF IInv, ControlOK
<1> QED
  BY <1>1, <1>3, <1>4

LEMMA WritingStep ==
  ASSUME InputsAreSound, IInv, Writing
  PROVE  IInv'
<1>1. /\ TablesOK'
      /\ Reading /\ writes < MaxWrites /\ writes' = writes + 1
      /\ steady' = IF call.report = "summary" THEN {} ELSE steady \cap IdsOf(Now(call)')
      /\ UNCHANGED <<pc, call, page, total, rows, grouped>>
  BY WriteEffects DEF IInv
<1>2. PICK i : Touches(i, refunds, refunds') /\ Touches(i, users, users')
  BY WriteEffects DEF IInv
<1>3. pc \notin {"idle", "refused", "answered"} /\ MaxWrites \in Nat /\ call \in Calls /\ ~Refused(call)
  BY <1>1 DEF Reading, IInv, ControlOK, InputsAreSound
<1>4. writes \in Nat /\ writes' # 0
  BY <1>1, <1>3, Running
<1>5. steady' \subseteq steady
  <2>1. call.report = "summary" => steady' = {}
    BY <1>1
  <2>2. call.report # "summary" => steady' = steady \cap IdsOf(Now(call)')
    BY <1>1
  <2> QED
    BY <2>1, <2>2
<1>6. ControlOK'
  <2>1. Reading'
    BY <1>1 DEF Reading
  <2>2. writes' \in 0..MaxWrites
    BY <1>1, <1>3, <1>4
  <2> QED
    BY <1>1, <2>1, <2>2 DEF IInv, ControlOK
<1>7. ListingInv'
  <2>1. ASSUME call.report # "summary", pc \in {"total", "page"} PROVE SlipsOK'
    <3> DEFINE T == Now(call)
               U == Now(call)'
    <3>1. /\ Sortable(T, call) /\ Reached \in Nat /\ Cardinality(Shown) \in Nat
          /\ rows \in Seq(IF call.report = "users" THEN UserRows ELSE RefundRows) /\ total \in Nat
      BY <1>3, <2>1, Running
    <3>2. U = Source(call, refunds', users') /\ T = Source(call, refunds, users)
      BY <1>1 DEF Now
    <3>3. Sortable(U, call)
      BY <1>1, <1>3, <2>1, <3>2, SourceIsSortable DEF TablesOK
    <3>4. Touches(i, T, U)
      BY <1>2, <3>2, SourceTouches
    <3>5. steady' = steady \cap IdsOf(U) /\ Shown' = Shown /\ Reached' = Reached
      BY <1>1, <2>1 DEF Shown, Reached
    <3>6. steady \subseteq IdsOf(T) /\ Cardinality(Missed) + Beyond <= writes
          /\ Len(rows) - Cardinality(Shown) + Cardinality(Repeated) <= writes
      BY <2>1 DEF IInv, ListingInv, SlipsOK
    <3>7. /\ Missed = MissedOf(steady, Shown, Reached, T, call)
          /\ Repeated = RepeatedOf(Shown, Reached, T, call)
      BY DEF Missed, Repeated, Passed, MissedOf, RepeatedOf, UpTo
    <3>8. /\ Missed' = MissedOf(steady \cap IdsOf(U), Shown, Reached, U, call)
          /\ Repeated' = RepeatedOf(Shown, Reached, U, call)
      BY <1>1, <3>5 DEF Missed, Repeated, Passed, MissedOf, RepeatedOf, UpTo
    <3>9. /\ Beyond = IF pc = "page" /\ total < Cardinality(T) THEN Cardinality(T) - total ELSE 0
          /\ Beyond' = IF pc = "page" /\ total < Cardinality(U) THEN Cardinality(U) - total ELSE 0
      BY <1>1 DEF Beyond
    <3> HIDE DEF T, U
    <3>10. /\ Cardinality(Missed) \in Nat /\ Cardinality(Missed') \in Nat
           /\ Cardinality(Repeated) \in Nat /\ Cardinality(Repeated') \in Nat
           /\ Cardinality(T) \in Nat /\ Cardinality(U) \in Nat
      BY <3>1, <3>3, <3>7, <3>8, SlipsAreFinite
    <3>11. /\ \/ /\ Cardinality(Missed') <= Cardinality(Missed) + 1
                 /\ Cardinality(U) <= Cardinality(T)
              \/ /\ Cardinality(Missed') <= Cardinality(Missed)
                 /\ Cardinality(U) <= Cardinality(T) + 1
           /\ Cardinality(Repeated') <= Cardinality(Repeated) + 1
      BY <3>1, <3>3, <3>4, <3>6, <3>7, <3>8, SlipsOfAWrite
    <3>12. Cardinality(Missed') + Beyond' <= writes'
      <4>1. /\ Beyond \in Nat /\ Beyond' \in Nat
            /\ Cardinality(U) <= Cardinality(T) => Beyond' <= Beyond
            /\ Cardinality(U) <= Cardinality(T) + 1 => Beyond' <= Beyond + 1
        <5>1. total \in Nat /\ Cardinality(T) \in Nat /\ Cardinality(U) \in Nat
          BY <3>1, <3>10
        <5> QED
          BY <3>9, <5>1
      <4> QED
        BY <1>1, <1>4, <3>6, <3>10, <3>11, <4>1
    <3>13. Len(rows) - Cardinality(Shown) + Cardinality(Repeated') <= writes'
      <4>1. Len(rows) \in Nat
        BY <3>1
      <4> QED
        BY <1>1, <1>4, <3>1, <3>6, <3>10, <3>11, <4>1
    <3>14. steady' \subseteq IdsOf(Now(call))'
      BY <1>1, <3>5 DEF U
    <3> QED
      BY <1>1, <3>5, <3>12, <3>13, <3>14 DEF SlipsOK
  <2> QED
    BY <1>1, <1>4, <2>1 DEF IInv, ListingInv, QuietOK
<1>8. SummaryInv'
  <2> SUFFICES ASSUME call.report = "summary" PROVE SummaryInv'
    BY <1>1 DEF SummaryInv
  <2> DEFINE n == Cardinality(Summarized(refunds, call))
             m == Cardinality(Summarized(refunds', call))
  <2>1. /\ Unique(Summarized(refunds, call)) /\ Unique(Summarized(refunds', call))
        /\ Touches(i, Summarized(refunds, call), Summarized(refunds', call))
        /\ Touches(i, Summarized(refunds', call), Summarized(refunds, call))
    BY <1>1, <1>2, <1>3, SummarizedRows, SourceTouches, TouchesBack DEF IInv, TablesOK
  <2>2. n \in Nat /\ m \in Nat /\ m <= n + 1 /\ n <= m + 1
    BY <2>1, OneRow
  <2> HIDE DEF n, m
  <2>3. \A x \in Nat : Apart(x, n) <= writes => Apart(x, m) <= writes'
    BY <1>1, <1>4, <2>2 DEF Apart
  <2>4. \A x \in Nat, y \in Nat : Apart(x, y) <= writes => Apart(x, y) <= writes'
    BY <1>1, <1>4 DEF Apart
  <2>5. /\ DOMAIN grouped = DOMAIN NoGroups
        /\ pc \in {"category", "month", "years", "answered"} =>
             Total4(grouped.status) \in Nat /\ Apart(Total4(grouped.status), n) <= writes
        /\ pc \in {"month", "years", "answered"} =>
             /\ Total4(grouped.categories) \in Nat
             /\ Apart(Total4(grouped.status), Total4(grouped.categories)) <= writes
        /\ pc \in {"years", "answered"} =>
             /\ MonthTotal(grouped.months) \in Nat
             /\ Apart(Total4(grouped.status), MonthTotal(grouped.months)) <= writes
    BY DEF IInv, SummaryInv, n
  <2>6. /\ pc \in {"category", "month", "years", "answered"} =>
             Apart(Total4(grouped.status), m) <= writes'
        /\ pc \in {"month", "years", "answered"} =>
             Apart(Total4(grouped.status), Total4(grouped.categories)) <= writes'
        /\ pc \in {"years", "answered"} =>
             Apart(Total4(grouped.status), MonthTotal(grouped.months)) <= writes'
    BY <2>3, <2>4, <2>5
  <2> QED
    BY <1>1, <1>4, <2>5, <2>6 DEF SummaryInv, m
<1>9. QuietListingIsComplete' /\ EveryMissedRowHasAWrite'
  BY <1>1, <1>3 DEF QuietListingIsComplete, EveryMissedRowHasAWrite, Answered
<1>10. (steady \subseteq Nat)'
  BY <1>5 DEF IInv
<1> QED
  BY <1>1, <1>6, <1>7, <1>8, <1>9, <1>10 DEF IInv

LEMMA AtMost ==
  ASSUME NEW a \in Nat, NEW b \in Nat, NEW m \in Nat, NEW d \in Nat, NEW w \in Nat,
         a <= b + d, b <= m, m + d <= w
  PROVE  a <= w
OBVIOUS

LEMMA OnePageOn ==
  ASSUME NEW a \in Nat, NEW b \in Nat, NEW x \in Nat, NEW y \in Nat,
         NEW r \in Nat, NEW t \in Nat, NEW w \in Nat,
         a - x + r <= w, b - (y - x) + t <= r
  PROVE  a + b - y + t <= w
OBVIOUS

LEMMA TotalStep ==
  ASSUME InputsAreSound, IInv, Total
  PROVE  IInv'
<1> DEFINE T == Now(call)
<1>1. /\ pc = "total" /\ pc' = "page" /\ total' = Cardinality(T)
      /\ steady' = IF page = 1 THEN IdsOf(T) ELSE steady
      /\ UNCHANGED <<refunds, users, call, page, rows, grouped, given, writes>>
  BY DEF Total
<1>2. call.report # "summary"
  BY <1>1 DEF IInv, ControlOK
<1>3. /\ Sortable(T, call) /\ call.per_page \in 1..100 /\ page \in Nat /\ page > 0 /\ writes \in Nat
      /\ rows \in Seq(IF call.report = "users" THEN UserRows ELSE RefundRows)
  BY <1>1, <1>2, Running
<1>4. T' = T /\ Cardinality(T) \in Nat
  BY <1>1, <1>3, AheadIsFinite DEF Now
<1>5. /\ SlipsOK /\ QuietOK
  BY <1>1, <1>2 DEF IInv, ListingInv
<1>6. page = 1 => writes = 0 /\ rows = <<>> /\ steady = {}
  BY <1>1 DEF IInv, ControlOK, Reading
<1>7. TablesOK'
  BY <1>1 DEF IInv, TablesOK
<1>8. ControlOK'
  BY <1>1, <1>2, <1>4 DEF IInv, ControlOK, Reading
<1>9. SlipsOK'
  <2>1. Shown' = Shown /\ Repeated' = Repeated /\ Passed' = Passed /\ Reached' = Reached /\ Beyond' = 0
    BY <1>1, <1>4 DEF Shown, Repeated, Passed, Reached, Beyond, Now
  <2>2. Cardinality(Missed') <= writes
    <3>1. CASE page = 1
      <4>1. Reached = 0
        BY <1>3, <3>1, OffsetSteps DEF Reached
      <4>2. Passed = {}
        <5>1. \A r \in T : ~(Place(r, T, call) <= 0)
          BY <1>3, <1>4, PlaceOrder
        <5> QED
          BY <4>1, <5>1 DEF Passed
      <4>3. Missed' = {}
        BY <2>1, <4>2 DEF Missed, IdsOf
      <4> QED
        BY <1>3, <4>3, FS_EmptySet
    <3>2. CASE page # 1
      <4>1. Missed' = Missed
        BY <1>1, <2>1, <3>2 DEF Missed
      <4>2. Beyond = 0
        BY <1>1 DEF Beyond
      <4>3. Cardinality(Missed) \in Nat
        <5>1. Missed = MissedOf(steady, Shown, Reached, T, call)
          BY DEF Missed, Passed, MissedOf, UpTo
        <5> QED
          BY <1>3, <5>1, SlipsAreFinite
      <4>4. Cardinality(Missed) + Beyond <= writes
        BY <1>5 DEF SlipsOK
      <4> QED
        BY <4>1, <4>2, <4>3, <4>4
    <3> QED
      BY <3>1, <3>2
  <2>3. Cardinality(Missed') \in Nat
    <3>1. Missed' = MissedOf(steady', Shown', Reached', T, call)
      BY <1>1, <1>4 DEF Missed, Passed, MissedOf, UpTo
    <3> QED
      BY <1>3, <3>1, SlipsAreFinite
  <2>4. steady' \subseteq IdsOf(T)
    BY <1>1, <1>5 DEF SlipsOK
  <2> QED
    BY <1>1, <1>3, <1>4, <1>5, <2>1, <2>2, <2>3, <2>4 DEF SlipsOK
<1>10. QuietOK'
  <2>1. Reached' = Reached
    BY <1>1 DEF Reached
  <2> QED
    BY <1>1, <1>4, <1>5, <2>1 DEF QuietOK
<1>11. ListingInv'
  BY <1>1, <1>9, <1>10 DEF IInv, ListingInv
<1>12. SummaryInv'
  BY <1>1, <1>2 DEF SummaryInv
<1>13. QuietListingIsComplete' /\ EveryMissedRowHasAWrite'
  BY <1>1 DEF QuietListingIsComplete, EveryMissedRowHasAWrite, Answered
<1>14. (steady \subseteq Nat)'
  <2>1. IdsOf(T) \subseteq Nat
    BY <1>3 DEF Sortable, IdsOf
  <2> QED
    BY <1>1, <2>1 DEF IInv
<1> QED
  BY <1>7, <1>8, <1>11, <1>12, <1>13, <1>14 DEF IInv

LEMMA PageStep ==
  ASSUME InputsAreSound, IInv, Page
  PROVE  IInv'
<1> DEFINE T == Now(call)
           k == Reached
           l == Reached + call.per_page
           X == IF call.report = "users" THEN UserRows ELSE RefundRows
<1>1. /\ pc = "page"
      /\ UNCHANGED <<refunds, users, call, total, grouped, given, writes, steady>>
      /\ IF page < TotalPages(total, call) THEN page' = page + 1 /\ pc' = "total"
                                           ELSE page' = page /\ pc' = "answered"
  BY DEF Page
<1>2. PICK s \in Orderings(T, call) : rows' = rows \o PageOf(s, page, call)
  BY DEF Page
<1> DEFINE q == PageOf(s, page, call)
           S == IdsOf(ToSet(q))
<1>3. call.report # "summary"
  BY <1>1 DEF IInv, ControlOK
<1>4. /\ Sortable(T, call) /\ call.per_page \in 1..100 /\ page \in Nat /\ page > 0
      /\ writes \in Nat /\ total \in Nat /\ rows \in Seq(X) /\ T \subseteq X /\ k \in Nat
      /\ IsFiniteSet(Shown) /\ Cardinality(Shown) \in Nat
  BY <1>1, <1>3, Running
<1>5. T' = T /\ Cardinality(T) \in Nat /\ call' = call
  BY <1>1, <1>4, AheadIsFinite DEF Now
<1>6. /\ l \in Nat /\ k <= l /\ Offset(page + 1, call) = l /\ k = Offset(page, call)
      /\ l = Offset(page, call) + call.per_page
  BY <1>4, PerPage, OffsetSteps DEF Reached
<1>7. SlipsOK /\ QuietOK
  BY <1>1, <1>3 DEF IInv, ListingInv
<1>8. /\ q \in Seq(T)
      /\ IsFiniteSet(S) /\ Cardinality(S) = Len(q) /\ Len(q) \in Nat
      /\ S = IdsOf(UpTo(l, T, call) \ UpTo(k, T, call))
  <2> HIDE DEF T, k, l
  <2>1. Sortable(T, call) /\ call.per_page \in 1..100 /\ page \in Nat /\ page > 0
    BY <1>4
  <2>2. q \in Seq(T)
    BY <2>1, PageRows
  <2>3. /\ IsFiniteSet(S) /\ Cardinality(S) = Len(q) /\ Len(q) \in Nat
        /\ S = IdsOf(UpTo(Offset(page, call) + call.per_page, T, call)
                       \ UpTo(Offset(page, call), T, call))
    BY <2>1, PageIds
  <2> HIDE DEF S, q
  <2> QED
    BY <1>6, <2>2, <2>3
<1> HIDE DEF T, k, l, q, S, X
<1>9. /\ rows' \in Seq(X) /\ Len(rows') = Len(rows) + Len(q) /\ Len(rows) \in Nat
      /\ Shown' = Shown \cup S
      /\ \A i \in DOMAIN rows' : (i \in DOMAIN rows /\ rows'[i] = rows[i]) \/ rows'[i] \in T
  <2>1. rows' = rows \o q
    BY <1>2 DEF q
  <2>2. /\ rows \o q \in Seq(X) /\ Len(rows \o q) = Len(rows) + Len(q)
        /\ IdsOf(ToSet(rows \o q)) = IdsOf(ToSet(rows)) \cup IdsOf(ToSet(q))
        /\ \A i \in DOMAIN (rows \o q) : \/ i \in DOMAIN rows /\ (rows \o q)[i] = rows[i]
                                         \/ (rows \o q)[i] \in T
    BY <1>4, <1>8, SeqOfPart
  <2> QED
    BY <1>4, <2>1, <2>2 DEF Shown, S
<1>10. /\ Cardinality(MissedOf(steady, Shown', l, T, call)) <= Cardinality(Missed)
       /\ Len(q) - (Cardinality(Shown') - Cardinality(Shown))
            + Cardinality(RepeatedOf(Shown', l, T, call)) <= Cardinality(Repeated)
       /\ Cardinality(Shown') \in Nat
       /\ Cardinality(Missed) \in Nat /\ Cardinality(Repeated) \in Nat
       /\ Cardinality(MissedOf(steady, Shown', l, T, call)) \in Nat
       /\ Cardinality(RepeatedOf(Shown', l, T, call)) \in Nat
  <2>1. Missed = MissedOf(steady, Shown, k, T, call) /\ Repeated = RepeatedOf(Shown, k, T, call)
    BY DEF Missed, Repeated, Passed, MissedOf, RepeatedOf, UpTo, T, k
  <2>2. /\ IsFiniteSet(Shown \cup S)
        /\ Cardinality(MissedOf(steady, Shown \cup S, l, T, call))
              <= Cardinality(MissedOf(steady, Shown, k, T, call))
        /\ Cardinality(S) - (Cardinality(Shown \cup S) - Cardinality(Shown))
              + Cardinality(RepeatedOf(Shown \cup S, l, T, call))
              <= Cardinality(RepeatedOf(Shown, k, T, call))
    BY <1>4, <1>6, <1>8, SlipsOfAPage
  <2>3. Cardinality(Shown \cup S) \in Nat
    BY <2>2, FS_CardinalityType
  <2> QED
    BY <1>4, <1>8, <1>9, <2>1, <2>2, <2>3, SlipsAreFinite
<1>11. Cardinality(Missed) + Beyond <= writes
       /\ Len(rows) - Cardinality(Shown) + Cardinality(Repeated) <= writes
       /\ steady \subseteq IdsOf(T)
  BY <1>7 DEF SlipsOK, T
<1>12. Len(rows') - Cardinality(Shown') + Cardinality(RepeatedOf(Shown', l, T, call)) <= writes
  <2>1. Len(rows) - Cardinality(Shown) + Cardinality(Repeated) <= writes
    BY <1>11
  <2>2. Len(q) - (Cardinality(Shown') - Cardinality(Shown))
          + Cardinality(RepeatedOf(Shown', l, T, call)) <= Cardinality(Repeated)
    BY <1>10
  <2>3. Len(rows) + Len(q) - Cardinality(Shown') + Cardinality(RepeatedOf(Shown', l, T, call)) <= writes
    <3>1. /\ Len(rows) \in Nat /\ Len(q) \in Nat /\ writes \in Nat
          /\ Cardinality(Shown) \in Nat /\ Cardinality(Shown') \in Nat
          /\ Cardinality(Repeated) \in Nat /\ Cardinality(RepeatedOf(Shown', l, T, call)) \in Nat
      BY <1>4, <1>8, <1>9, <1>10
    <3> QED
      BY <2>1, <2>2, <3>1, OnePageOn
  <2>4. Len(rows') = Len(rows) + Len(q) /\ Len(rows) \in Nat /\ Len(q) \in Nat
        /\ Cardinality(Shown') \in Nat /\ Cardinality(RepeatedOf(Shown', l, T, call)) \in Nat
    BY <1>8, <1>9, <1>10
  <2> QED
    BY <2>3, <2>4
<1>13. writes = 0 => Beginning(rows', l, T, call) /\ total = Cardinality(T)
  <2> SUFFICES ASSUME writes = 0 PROVE Beginning(rows', l, T, call) /\ total = Cardinality(T)
    OBVIOUS
  <2>1. Beginning(rows, k, T, call) /\ total = Cardinality(T)
    BY <1>1, <1>7 DEF QuietOK, Beginning, T, k
  <2>2. Beginning(rows \o PageOf(s, page, call), Offset(page, call) + call.per_page, T, call)
    BY <1>2, <1>4, <1>6, <2>1, NextBeginning DEF T
  <2> QED
    BY <1>2, <1>6, <2>1, <2>2
<1>14. TablesOK'
  BY <1>1 DEF IInv, TablesOK
<1>15. ControlOK'
  BY <1>1, <1>3, <1>4 DEF IInv, ControlOK, Reading
<1>16. ASSUME pc' = "total" PROVE SlipsOK' /\ QuietOK'
  <2>1. page' = page + 1
    BY <1>1, <1>16
  <2>2. Reached' = l
    BY <1>5, <1>6, <2>1 DEF Reached
  <2>3. /\ Missed' = MissedOf(steady, Shown', l, T, call)
        /\ Repeated' = RepeatedOf(Shown', l, T, call)
        /\ Beyond' = 0
    BY <1>1, <1>5, <1>16, <2>2 DEF Missed, Repeated, Passed, MissedOf, RepeatedOf, UpTo, Beyond, T
  <2>4. Cardinality(Missed') + Beyond' <= writes
    <3>1. Beyond \in Nat
      BY <1>4, <1>5 DEF Beyond, T
    <3> QED
      BY <1>4, <1>10, <1>11, <2>3, <3>1
  <2>5. SlipsOK'
    BY <1>1, <1>5, <1>11, <1>12, <2>3, <2>4 DEF SlipsOK, T
  <2>6. QuietOK'
    BY <1>1, <1>5, <1>13, <1>16, <2>2 DEF QuietOK, Beginning, T
  <2> QED
    BY <2>5, <2>6
<1>17. ListingInv'
  <2>1. ASSUME call.report = "refunds"
        PROVE  \A i \in DOMAIN rows' : rows'[i].user \in {Target(call)} \/ Target(call) = Nobody
    <3>1. \A i \in DOMAIN rows : rows[i].user \in {Target(call)} \/ Target(call) = Nobody
      BY <2>1 DEF IInv, ListingInv
    <3>2. \A r \in T : r.user \in {Target(call)} \/ Target(call) = Nobody
      BY <2>1 DEF T, Now, Source, Listed, Of
    <3> QED
      BY <1>9, <3>1, <3>2
  <2> QED
    BY <1>1, <1>5, <1>9, <1>16, <2>1 DEF ListingInv, X
<1>18. SummaryInv'
  BY <1>3, <1>5 DEF SummaryInv
<1>19. ASSUME pc' = "answered" PROVE QuietListingIsComplete' /\ EveryMissedRowHasAWrite'
  <2>1. total <= l
    <3>1. ~(page < TotalPages(total, call))
      BY <1>1, <1>19
    <3> QED
      BY <1>4, <1>6, <3>1, LastPageReaches
  <2>2. QuietListingIsComplete'
    <3> SUFFICES ASSUME writes = 0
                 PROVE  /\ ToSet(rows') = T /\ Len(rows') = total /\ Cardinality(T) = total
                        /\ \A i, j \in DOMAIN rows' : i < j => Precedes(rows'[i], rows'[j], call)
      BY <1>1, <1>5 DEF QuietListingIsComplete, T
    <3>1. Beginning(rows', l, T, call) /\ total = Cardinality(T)
      BY <1>13
    <3> QED
      BY <1>4, <1>6, <1>9, <2>1, <3>1, WholeListing
  <2>3. EveryMissedRowHasAWrite'
    <3>1. /\ Cardinality(steady \ Shown') \in Nat
          /\ Cardinality(steady \ Shown')
               <= Cardinality(MissedOf(steady, Shown', l, T, call))
                    + (IF total < Cardinality(T) THEN Cardinality(T) - total ELSE 0)
      BY <1>4, <1>6, <1>11, <2>1, MissedAfterAll
    <3>2. /\ Beyond = IF total < Cardinality(T) THEN Cardinality(T) - total ELSE 0
          /\ Beyond \in Nat
      BY <1>1, <1>4, <1>5 DEF Beyond, T
    <3>3. Cardinality(steady \ Shown') <= writes
      <4>1. Cardinality(steady \ Shown') <= Cardinality(MissedOf(steady, Shown', l, T, call)) + Beyond
        BY <3>1, <3>2
      <4>2. Cardinality(Missed) + Beyond <= writes
        BY <1>11
      <4>3. Cardinality(MissedOf(steady, Shown', l, T, call)) <= Cardinality(Missed)
        BY <1>10
      <4> QED
        BY <1>4, <1>10, <3>1, <3>2, <4>1, <4>2, <4>3, AtMost
    <3>4. Len(rows') - Cardinality(Shown') <= writes
      BY <1>4, <1>8, <1>9, <1>10, <1>12
    <3> QED
      BY <1>1, <3>3, <3>4 DEF EveryMissedRowHasAWrite, Shown
  <2> QED
    BY <2>2, <2>3
<1>20. pc' # "answered" => QuietListingIsComplete' /\ EveryMissedRowHasAWrite'
  BY DEF QuietListingIsComplete, EveryMissedRowHasAWrite, Answered
<1>21. (steady \subseteq Nat)'
  BY <1>1 DEF IInv
<1> QED
  BY <1>14, <1>15, <1>17, <1>18, <1>19, <1>20, <1>21 DEF IInv

-----------------------------------------------------------------------------
(* The steps of a summary.                                                 *)

LEMMA SummaryReads ==
  ASSUME InputsAreSound, IInv, NEW here, NEW next, NEW field, NEW value,
         <<here, next>> \in {<<"status", "category">>, <<"category", "month">>,
                             <<"month", "years">>, <<"years", "answered">>},
         field \in DOMAIN NoGroups, Statement(here, next, field, value), SummaryInv'
  PROVE  IInv'
<1>1. /\ pc = here /\ pc' = next
      /\ UNCHANGED <<refunds, users, call, page, total, rows, given, writes, steady>>
  BY DEF Statement
<1>2. call.report = "summary"
  BY <1>1 DEF IInv, ControlOK
<1>3. TablesOK'
  BY <1>1 DEF IInv, TablesOK
<1>4. ControlOK'
  BY <1>1, <1>2 DEF IInv, ControlOK, Reading
<1>5. ListingInv' /\ QuietListingIsComplete' /\ EveryMissedRowHasAWrite' /\ (steady \subseteq Nat)'
  BY <1>1, <1>2 DEF IInv, ListingInv, QuietListingIsComplete, EveryMissedRowHasAWrite, Answered
<1> QED
  BY <1>3, <1>4, <1>5 DEF IInv

LEMMA Reads ==
  ASSUME InputsAreSound, IInv, NEW here, NEW next, NEW field, NEW value,
         here \in {"status", "category", "month", "years"},
         field \in DOMAIN NoGroups, Statement(here, next, field, value)
  PROVE  /\ call.report = "summary" /\ writes \in Nat
         /\ Rows(Summarized(refunds, call)) /\ OfYear(Summarized(refunds, call), call.year)
         /\ Cardinality(Summarized(refunds, call)) \in Nat
         /\ DOMAIN grouped' = DOMAIN NoGroups
         /\ grouped'[field] = value
         /\ \A f \in DOMAIN NoGroups \ {field} : grouped'[f] = grouped[f]
<1>1. pc = here /\ grouped' = [grouped EXCEPT ![field] = value]
  BY DEF Statement
<1>2. call.report = "summary"
  BY <1>1 DEF IInv, ControlOK
<1>3. DOMAIN grouped = DOMAIN NoGroups
  BY <1>2 DEF IInv, SummaryInv
<1>4. call \in Calls /\ ~Refused(call) /\ writes \in Nat
      /\ Cardinality(Summarized(refunds, call)) \in Nat
  BY <1>1, <1>2, Running
<1>5. OfYear(Summarized(refunds, call), call.year)
  BY <1>2, <1>4, SummarizedRows DEF IInv, TablesOK
<1> QED
  BY <1>1, <1>2, <1>3, <1>4, <1>5 DEF OfYear

LEMMA ApartFacts ==
  ASSUME NEW n \in Nat, NEW w \in Nat
  PROVE  Apart(n, n) <= w
BY DEF Apart

LEMMA SummaryStep ==
  ASSUME InputsAreSound, IInv,
         SummarizeStatus \/ SummarizeCategory \/ SummarizeMonths \/ SelectYears
  PROVE  IInv'
<1> DEFINE Z == Summarized(refunds, call)
<1>a. DOMAIN NoGroups = {"status", "categories", "months", "years"}
  BY DEF NoGroups
<1>1. CASE SummarizeStatus
  <2>1. Statement("status", "category", "status", ByStatus(Z))
    BY <1>1 DEF SummarizeStatus
  <2>2. /\ writes \in Nat /\ Rows(Z) /\ Cardinality(Z) \in Nat
        /\ DOMAIN grouped' = DOMAIN NoGroups /\ grouped'["status"] = ByStatus(Z)
    BY <1>a, <2>1, Reads
  <2>3. pc' = "category" /\ UNCHANGED <<refunds, call, writes>>
    BY <2>1 DEF Statement
  <2>4. Total4(grouped'.status) = Cardinality(Z)
    BY <2>2, TotalByStatus
  <2>5. Apart(Total4(grouped'.status), Cardinality(Z)) <= writes
    BY <2>2, <2>4, ApartFacts
  <2>6. SummaryInv'
    BY <2>2, <2>3, <2>4, <2>5 DEF SummaryInv
  <2> QED
    BY <1>a, <2>1, <2>6, SummaryReads
<1>2. CASE SummarizeCategory
  <2>1. Statement("category", "month", "categories", ByCategory(Z))
    BY <1>2 DEF SummarizeCategory
  <2>2. /\ call.report = "summary" /\ writes \in Nat /\ Rows(Z) /\ Cardinality(Z) \in Nat
        /\ DOMAIN grouped' = DOMAIN NoGroups /\ grouped'["categories"] = ByCategory(Z)
        /\ grouped'["status"] = grouped["status"]
    BY <1>a, <2>1, Reads
  <2>3. pc = "category" /\ pc' = "month" /\ UNCHANGED <<refunds, call, writes>>
    BY <2>1 DEF Statement
  <2>4. Total4(grouped'.categories) = Cardinality(Z)
    BY <2>2, TotalByCategory
  <2>5. SummaryInv'
    BY <2>2, <2>3, <2>4 DEF IInv, SummaryInv
  <2> QED
    BY <1>a, <2>1, <2>5, SummaryReads
<1>3. CASE SummarizeMonths
  <2>1. Statement("month", "years", "months", ByMonth(Z, call.year))
    BY <1>3 DEF SummarizeMonths, Summarized
  <2>2. /\ call.report = "summary" /\ writes \in Nat /\ Cardinality(Z) \in Nat
        /\ OfYear(Z, call.year)
        /\ DOMAIN grouped' = DOMAIN NoGroups /\ grouped'["months"] = ByMonth(Z, call.year)
        /\ grouped'["status"] = grouped["status"] /\ grouped'["categories"] = grouped["categories"]
    BY <1>a, <2>1, Reads
  <2>3. pc = "month" /\ pc' = "years" /\ UNCHANGED <<refunds, call, writes>>
    BY <2>1 DEF Statement
  <2>4. MonthTotal(grouped'.months) = Cardinality(Z)
    BY <2>2, TotalByMonth
  <2>5. SummaryInv'
    BY <2>2, <2>3, <2>4 DEF IInv, SummaryInv
  <2> QED
    BY <1>a, <2>1, <2>5, SummaryReads
<1>4. CASE SelectYears
  <2>1. Statement("years", "answered", "years", AvailableYears(refunds, Target(call)))
    BY <1>4 DEF SelectYears
  <2>2. /\ call.report = "summary"
        /\ DOMAIN grouped' = DOMAIN NoGroups
        /\ grouped'["years"] = AvailableYears(refunds, Target(call))
        /\ grouped'["status"] = grouped["status"] /\ grouped'["categories"] = grouped["categories"]
        /\ grouped'["months"] = grouped["months"]
    BY <1>a, <2>1, Reads
  <2>3. pc = "years" /\ pc' = "answered" /\ UNCHANGED <<refunds, call, writes>>
    BY <2>1 DEF Statement
  <2>4. SummaryInv'
    BY <2>2, <2>3 DEF IInv, SummaryInv
  <2> QED
    BY <1>a, <2>1, <2>4, SummaryReads
<1> QED
  BY <1>1, <1>2, <1>3, <1>4

-----------------------------------------------------------------------------
(* Theorem: the invariant holds of every behaviour: each page is cut from  *)
(* one total order, each write moves at most one row across its edge, and  *)
(* the parts of a summary drift apart by one row a write                   *)
(* (refunds_repository.py, users_repository.py).                           *)
THEOREM Invariance == Spec => []IInv
<1>0. InputsAreSound
  BY ReportsAssumption
<1>1. Init => IInv
  BY <1>0, InitIsGood
<1>2. IInv /\ [Next]_vars => IInv'
  <2> SUFFICES ASSUME IInv, [Next]_vars PROVE IInv'
    OBVIOUS
  <2>1. CASE Ask
    BY <1>0, <2>1, AskStep
  <2>2. CASE Total
    BY <1>0, <2>2, TotalStep
  <2>3. CASE Page
    BY <1>0, <2>3, PageStep
  <2>4. CASE SummarizeStatus \/ SummarizeCategory \/ SummarizeMonths \/ SelectYears
    BY <1>0, <2>4, SummaryStep
  <2>5. CASE Writing
    BY <1>0, <2>5, WritingStep
  <2>6. CASE UNCHANGED vars
    BY <2>6, StandingStill
  <2> QED
    BY <2>1, <2>2, <2>3, <2>4, <2>5, <2>6 DEF Next, Writing
<1> QED
  BY <1>1, <1>2, PTL DEF Spec

(* Theorem: tables keep their constraints, and pages, totals and writes    *)
(* stay what they are counted in (entities.py).                            *)
THEOREM TypeCorrect == Spec => []TypeOK
<1>1. IInv => TypeOK
  BY RowFields DEF IInv, TablesOK, IsTable, ControlOK, TypeOK
<1> QED
  BY <1>1, Invariance, PTL

(* Theorem: whatever the table, the filter, the sort key and the page      *)
(* size, paging through a listing while nothing is written shows every     *)
(* matching row exactly once and in order: ids break the ties of the key   *)
(* and TotalPages reaches the last row (refunds_repository.py 263-274).    *)
THEOREM QuietListingsCorrect == Spec => []QuietListingIsComplete
<1>1. IInv => QuietListingIsComplete
  BY DEF IInv
<1> QED
  BY <1>1, Invariance, PTL

(* Theorem: over any number of pages and writes, no more of the rows that  *)
(* matched all along are missed, and no more rows are shown twice, than    *)
(* there were writes between the first statement and the last.             *)
THEOREM MissedRowsCorrect == Spec => []EveryMissedRowHasAWrite
<1>1. IInv => EveryMissedRowHasAWrite
  BY DEF IInv
<1> QED
  BY <1>1, Invariance, PTL

(* Theorem: the parts of a summary differ by no more than the writes in    *)
(* between; with none, the months add up to the status totals in count and *)
(* amount and to all rows of the year (refunds_repository.py 179-238).     *)
THEOREM SummaryCorrect == Spec => []SummaryAddsUp
<1>1. ASSUME IInv PROVE SummaryAddsUp
  <2> DEFINE Z == Summarized(refunds, call)
  <2> SUFFICES ASSUME Answered({"summary"}) PROVE SummaryAddsUp
    BY DEF SummaryAddsUp
  <2>1. pc = "answered" /\ call.report = "summary"
    BY DEF Answered
  <2>2. /\ call \in Calls /\ ~Refused(call) /\ IsTable(refunds, RefundRows)
    BY <1>1, <2>1, Running, ReportsAssumption DEF IInv, TablesOK
  <2>3. /\ OfYear(Z, call.year)
        /\ Z = {r \in Of(refunds, Target(call)) : r.created.date.y = call.year}
        /\ Z \subseteq Of(refunds, Target(call))
    BY <2>1, <2>2, SummarizedRows, ReportsAssumption
  <2>4. /\ Apart(Total4(grouped.status), MonthTotal(grouped.months)) <= writes
        /\ Apart(Total4(grouped.status), Total4(grouped.categories)) <= writes
        /\ writes = 0 => /\ grouped.status = ByStatus(Z)
                         /\ grouped.months = ByMonth(Z, call.year)
                         /\ grouped.years = AvailableYears(refunds, Target(call))
    BY <1>1, <2>1 DEF IInv, SummaryInv
  <2>5. ASSUME writes = 0
        PROVE  /\ \A s \in Statuses :
                    /\ grouped.status[s].count =
                         SumFunction([m \in 1..12 |-> grouped.months[m][s].count])
                    /\ grouped.status[s].amount =
                         SumFunction([m \in 1..12 |-> grouped.months[m][s].amount])
               /\ MonthTotal(grouped.months) > 0 => call.year \in grouped.years
               /\ MonthTotal(grouped.months) = Cardinality(Z)
    <3>1. /\ grouped.status = ByStatus(Z) /\ grouped.months = ByMonth(Z, call.year)
          /\ grouped.years = AvailableYears(refunds, Target(call))
      BY <2>4, <2>5
    <3> HIDE DEF Z
    <3>2. \A s \in Statuses :
            /\ ByStatus(Z)[s].count = SumFunction([m \in 1..12 |-> ByMonth(Z, call.year)[m][s].count])
            /\ ByStatus(Z)[s].amount = SumFunction([m \in 1..12 |-> ByMonth(Z, call.year)[m][s].amount])
      <4> SUFFICES ASSUME NEW s \in Statuses
                   PROVE  /\ ByStatus(Z)[s].count =
                               SumFunction([m \in 1..12 |-> ByMonth(Z, call.year)[m][s].count])
                          /\ ByStatus(Z)[s].amount =
                               SumFunction([m \in 1..12 |-> ByMonth(Z, call.year)[m][s].amount])
        OBVIOUS
      <4>1. OfYear(Z, call.year)
        BY <2>3
      <4> DEFINE y == call.year
      <4>2. OfYear(Z, y)
        BY <4>1
      <4> HIDE DEF y
      <4>3. /\ ByStatus(Z)[s].count = SumFunction([m \in 1..12 |-> ByMonth(Z, y)[m][s].count])
            /\ ByStatus(Z)[s].amount = SumFunction([m \in 1..12 |-> ByMonth(Z, y)[m][s].amount])
        BY <4>2, MonthsByStatus
      <4> QED
        BY <4>3 DEF y
    <3>3. MonthTotal(grouped.months) = Cardinality(Z)
      BY <2>3, <3>1, TotalByMonth
    <3>4. ASSUME Cardinality(Z) > 0 PROVE call.year \in grouped.years
      <4>1. Cardinality({}) = 0
        BY FS_EmptySet
      <4>2. Z # {}
        BY <3>4, <4>1
      <4> QED
        BY <2>3, <3>1, <4>2 DEF AvailableYears, OfYear
    <3> QED
      BY <3>1, <3>2, <3>3, <3>4
  <2> QED
    BY <2>3, <2>4, <2>5 DEF SummaryAddsUp
<1> QED
  BY <1>1, Invariance, PTL

(* Theorem: whoever is not an admin gets an answer made of their own       *)
(* refunds: every row of every page is theirs and, with nothing written in *)
(* between, rows and total of a listing and every aggregate of a summary   *)
(* are those of their own refunds, whatever filter they send (BR-012).     *)
THEOREM OwnRefundsCorrect == Spec => []OnlyOwnRefunds
<1>1. ASSUME IInv PROVE OnlyOwnRefunds
  <2> SUFFICES ASSUME call.role # "admin" PROVE OnlyOwnRefunds
    BY DEF OnlyOwnRefunds
  <2>1. Target(call) = call.viewer /\ call.viewer # Nobody /\ call \in Calls
    BY <1>1, ReportsAssumption DEF Target, IInv, ControlOK, InputsAreSound
  <2>2. Of(refunds, Target(call)) = Own
    BY <2>1 DEF Of, Own
  <2>3. call.report = "refunds" => \A i \in DOMAIN rows : rows[i].user = call.viewer
    BY <1>1, <2>1 DEF IInv, ListingInv
  <2>4. ASSUME Answered({"refunds"}), writes = 0
        PROVE  LET matching == {r \in Own : Matches(r, call)}
               IN  ToSet(rows) = matching /\ total = Cardinality(matching)
    <3>1. Answered({"refunds", "users"}) /\ call.report = "refunds"
      BY <2>4 DEF Answered
    <3>2. ToSet(rows) = Now(call) /\ Cardinality(Now(call)) = total
      BY <1>1, <2>4, <3>1 DEF IInv, QuietListingIsComplete
    <3>3. Now(call) = {r \in Own : Matches(r, call)}
      BY <2>2, <3>1 DEF Now, Source, Listed
    <3> QED
      BY <3>2, <3>3
  <2>5. ASSUME Answered({"summary"}), writes = 0
        PROVE  /\ grouped.status = ByStatus(OwnOfYear)
               /\ grouped.categories = ByCategory(OwnOfYear)
               /\ grouped.months = ByMonth(OwnOfYear, call.year)
               /\ grouped.years = {r.created.date.y : r \in Own}
    <3>1. pc = "answered" /\ call.report = "summary"
      BY <2>5 DEF Answered
    <3>2. ~Refused(call) /\ IsTable(refunds, RefundRows)
      BY <1>1, <3>1, Running, ReportsAssumption DEF IInv, TablesOK
    <3>3. Summarized(refunds, call) = {r \in Of(refunds, Target(call)) : r.created.date.y = call.year}
      BY <2>1, <3>1, <3>2, SummarizedRows, ReportsAssumption
    <3>4. Summarized(refunds, call) = OwnOfYear
      BY <2>2, <3>3 DEF OwnOfYear
    <3>5. /\ grouped.status = ByStatus(Summarized(refunds, call))
          /\ grouped.categories = ByCategory(Summarized(refunds, call))
          /\ grouped.months = ByMonth(Summarized(refunds, call), call.year)
          /\ grouped.years = AvailableYears(refunds, Target(call))
      BY <1>1, <2>5, <3>1 DEF IInv, SummaryInv
    <3> QED
      BY <2>2, <3>4, <3>5 DEF AvailableYears
  <2> QED
    BY <2>3, <2>4, <2>5 DEF OnlyOwnRefunds
<1> QED
  BY <1>1, Invariance, PTL

(* Theorem: for every table, the daily counts, the listing and the summary *)
(* of a month agree, day by day and for every user and month, and the      *)
(* statistics of the users add up to the status totals.                    *)
THEOREM EndpointsCorrect == Spec => []EndpointsAgree
<1>1. IInv => EndpointsAgree
  BY TablesAgree, ReportsAssumption DEF IInv
<1> QED
  BY <1>1, Invariance, PTL

============================================================================
