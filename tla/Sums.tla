-------------------------------- MODULE Sums --------------------------------
(***************************************************************************)
(* What the sum of a function's values is, for every finite domain.  The   *)
(* operator is SumFunctionOnSet of the community modules, which takes the  *)
(* elements of a set in an order of its own; the lemmas say that the order *)
(* does not matter.                                                        *)
(*                                                                         *)
(* Induction over a finite set is stated with a set of sets, P, in the     *)
(* place of a predicate.                                                   *)
(***************************************************************************)
EXTENDS Integers, Functions, FiniteSetTheorems, TLAPS

\* A set of sets that has a subset of S whenever it has all smaller ones has all.
LEMMA SetInduction ==
    ASSUME NEW S, IsFiniteSet(S), NEW P,
           \A T \in SUBSET S : (\A U \in SUBSET T : U # T => U \in P) => T \in P
    PROVE  \A T \in SUBSET S : T \in P
<1> DEFINE Bad == {T \in SUBSET S : T \notin P}
<1>1. ASSUME Bad # {} PROVE FALSE
  <2>1. IsWellFoundedOn(StrictSubsetOrdering(S), FiniteSubsetsOf(S))
    BY FS_StrictSubsetOrderingWellFounded
  <2>2. FiniteSubsetsOf(S) = SUBSET S
    BY FS_FiniteSubsetsOfFinite
  <2>3. IsWellFoundedOn(StrictSubsetOrdering(S), SUBSET S) /\ Bad \subseteq SUBSET S
    BY <2>1, <2>2
  <2> HIDE DEF Bad
  <2>4. PICK T \in Bad : \A U \in Bad : ~(<<U, T>> \in StrictSubsetOrdering(S))
    BY <1>1, <2>3, WFMin
  <2> USE DEF Bad
  <2>5. \A U \in SUBSET T : U # T => U \in P
    BY <2>4 DEF StrictSubsetOrdering
  <2> QED
    BY <2>4, <2>5
<1> QED
  BY <1>1

\* The element that the fold takes from a set.
Taken(s) == CHOOSE x \in s : TRUE

\* A function on the subsets of S that is the fold of f.
IsFold(it, f, S) ==
    it = [s \in SUBSET S |-> IF s = {} THEN 0 ELSE f[Taken(s)] + it[s \ {Taken(s)}]]

LEMMA TakenIn == ASSUME NEW s, s # {} PROVE Taken(s) \in s /\ s \ {Taken(s)} # s
<1>1. Taken(s) \in s
  BY DEF Taken
<1> QED
  BY <1>1

\* Folds of one function agree wherever both are defined.
LEMMA FoldsAgree ==
    ASSUME NEW f, NEW S, IsFiniteSet(S), NEW A, NEW B, S \subseteq A, S \subseteq B,
           NEW i, NEW j, IsFold(i, f, A), IsFold(j, f, B)
    PROVE  i[S] = j[S]
<1> DEFINE P == {T \in SUBSET S : i[T] = j[T]}
<1>1. ASSUME NEW T \in SUBSET S, \A U \in SUBSET T : U # T => U \in P
      PROVE  T \in P
  <2>1. T \in SUBSET A /\ T \in SUBSET B
    OBVIOUS
  <2>2. /\ i[T] = IF T = {} THEN 0 ELSE f[Taken(T)] + i[T \ {Taken(T)}]
        /\ j[T] = IF T = {} THEN 0 ELSE f[Taken(T)] + j[T \ {Taken(T)}]
    BY <2>1 DEF IsFold
  <2>3. CASE T = {}
    BY <2>2, <2>3
  <2>4. CASE T # {}
    <3>1. T \ {Taken(T)} \in P
      BY <1>1, <2>4, TakenIn
    <3> QED
      BY <2>2, <2>4, <3>1
  <2> QED
    BY <2>3, <2>4
<1> HIDE DEF P
<1>2. S \in P
  BY <1>1, SetInduction
<1> QED
  BY <1>2 DEF P

\* Every finite set has a fold: the folds of its proper subsets make it up.
LEMMA FoldExists ==
    ASSUME NEW f, NEW S, IsFiniteSet(S)
    PROVE  \E it : IsFold(it, f, S)
<1> DEFINE P == {T \in SUBSET S : \E it : IsFold(it, f, T)}
<1>1. ASSUME NEW T \in SUBSET S, \A U \in SUBSET T : U # T => U \in P
      PROVE  T \in P
  <2> DEFINE Of(U) == CHOOSE it : IsFold(it, f, U)
             it == [U \in SUBSET T |-> IF U = {} THEN 0
                                       ELSE f[Taken(U)] + Of(U \ {Taken(U)})[U \ {Taken(U)}]]
  <2>1. \A U \in SUBSET T : U # T => IsFold(Of(U), f, U)
    BY <1>1
  <2>2. ASSUME NEW U \in SUBSET T, U # {}
        PROVE  it[U \ {Taken(U)}] = Of(U \ {Taken(U)})[U \ {Taken(U)}]
    <3> DEFINE V == U \ {Taken(U)}
               W == V \ {Taken(V)}
    <3>1. V \in SUBSET T /\ V # T /\ IsFiniteSet(V)
      BY <2>2, TakenIn, FS_Subset
    <3>2. IsFold(Of(V), f, V)
      BY <2>1, <3>1
    <3>3. Of(V)[V] = IF V = {} THEN 0 ELSE f[Taken(V)] + Of(V)[W]
      BY <3>2 DEF IsFold
    <3>4. CASE V = {}
      BY <3>1, <3>3, <3>4
    <3>5. CASE V # {}
      <4>1. W \in SUBSET T /\ W # T /\ IsFiniteSet(W) /\ W \subseteq V
        BY <3>1, <3>5, TakenIn, FS_Subset
      <4>2. IsFold(Of(W), f, W)
        BY <2>1, <4>1
      <4>3. Of(W)[W] = Of(V)[W]
        BY <3>2, <4>1, <4>2, FoldsAgree
      <4>4. it[V] = f[Taken(V)] + Of(W)[W]
        BY <3>1, <3>5
      <4> QED
        BY <3>3, <3>5, <4>3, <4>4
    <3> QED
      BY <3>4, <3>5
  <2> HIDE DEF Of
  <2>3. \A U \in SUBSET T : it[U] = IF U = {} THEN 0 ELSE f[Taken(U)] + it[U \ {Taken(U)}]
    BY <2>2
  <2>4. it = [U \in SUBSET T |-> it[U]]
    OBVIOUS
  <2> HIDE DEF it
  <2>5. IsFold(it, f, T)
    BY <2>3, <2>4 DEF IsFold
  <2> QED
    BY <2>5
<1> HIDE DEF P
<1>2. S \in P
  BY <1>1, SetInduction
<1> QED
  BY <1>2 DEF P

-----------------------------------------------------------------------------
(* The sum.                                                                *)

LEMMA SumIsFold ==
    ASSUME NEW f, NEW S, IsFiniteSet(S)
    PROVE  \E it : IsFold(it, f, S) /\ SumFunctionOnSet(f, S) = it[S]
<1>1. \E it : IsFold(it, f, S)
  BY FoldExists
<1> DEFINE it == CHOOSE i : IsFold(i, f, S)
<1>2. IsFold(it, f, S)
  BY <1>1
<1>3. SumFunctionOnSet(f, S) = it[S]
  BY DEF SumFunctionOnSet, FoldFunctionOnSet, MapThenFoldSet, IsFold, Taken
<1> QED
  BY <1>2, <1>3

\* The sum of no values.
LEMMA SumEmpty == ASSUME NEW f PROVE SumFunctionOnSet(f, {}) = 0
<1>1. IsFiniteSet({})
  BY FS_EmptySet
<1>2. PICK it : IsFold(it, f, {}) /\ SumFunctionOnSet(f, {}) = it[{}]
  BY <1>1, SumIsFold
<1> QED
  BY <1>2 DEF IsFold

\* The recursion of the fold.
LEMMA SumTakes ==
    ASSUME NEW f, NEW S, IsFiniteSet(S), S # {}
    PROVE  SumFunctionOnSet(f, S) = f[Taken(S)] + SumFunctionOnSet(f, S \ {Taken(S)})
<1> DEFINE V == S \ {Taken(S)}
<1>1. IsFiniteSet(V) /\ V \subseteq S
  BY FS_Subset
<1>2. PICK it : IsFold(it, f, S) /\ SumFunctionOnSet(f, S) = it[S]
  BY SumIsFold
<1>3. PICK iv : IsFold(iv, f, V) /\ SumFunctionOnSet(f, V) = iv[V]
  BY <1>1, SumIsFold
<1>4. it[V] = iv[V]
  BY <1>1, <1>2, <1>3, FoldsAgree
<1>5. it[S] = f[Taken(S)] + it[V]
  BY <1>2 DEF IsFold
<1> QED
  BY <1>2, <1>3, <1>4, <1>5

\* Sums of integers are integers, and of natural numbers natural.
LEMMA SumType ==
    ASSUME NEW f, NEW S, IsFiniteSet(S), NEW N \in {Int, Nat}, \A x \in S : f[x] \in N
    PROVE  SumFunctionOnSet(f, S) \in N
<1> DEFINE P == {T \in SUBSET S : SumFunctionOnSet(f, T) \in N}
<1>1. ASSUME NEW T \in SUBSET S, \A U \in SUBSET T : U # T => U \in P
      PROVE  T \in P
  <2>1. CASE T = {}
    BY <2>1, SumEmpty
  <2>2. CASE T # {}
    <3>1. /\ Taken(T) \in S /\ T \ {Taken(T)} \in P /\ IsFiniteSet(T)
      BY <1>1, <2>2, TakenIn, FS_Subset
    <3>2. SumFunctionOnSet(f, T) = f[Taken(T)] + SumFunctionOnSet(f, T \ {Taken(T)})
      BY <2>2, <3>1, SumTakes
    <3>3. f[Taken(T)] \in N /\ SumFunctionOnSet(f, T \ {Taken(T)}) \in N
      BY <3>1
    <3> QED
      BY <3>2, <3>3
  <2> QED
    BY <2>1, <2>2
<1> HIDE DEF P
<1>2. S \in P
  BY <1>1, SetInduction
<1> QED
  BY <1>2 DEF P

\* Any element may be taken first.
LEMMA SumRemove ==
    ASSUME NEW f, NEW S, IsFiniteSet(S), \A x \in S : f[x] \in Int, NEW y \in S
    PROVE  SumFunctionOnSet(f, S) = f[y] + SumFunctionOnSet(f, S \ {y})
<1> DEFINE P == {T \in SUBSET S : \A x \in T :
                    SumFunctionOnSet(f, T) = f[x] + SumFunctionOnSet(f, T \ {x})}
<1>1. ASSUME NEW T \in SUBSET S, \A U \in SUBSET T : U # T => U \in P
      PROVE  T \in P
  <2> SUFFICES ASSUME NEW x \in T
               PROVE  SumFunctionOnSet(f, T) = f[x] + SumFunctionOnSet(f, T \ {x})
    OBVIOUS
  <2> DEFINE t == Taken(T)
             R == (T \ {t}) \ {x}
  <2>1. t \in T /\ IsFiniteSet(T) /\ IsFiniteSet(T \ {t}) /\ IsFiniteSet(T \ {x}) /\ IsFiniteSet(R)
    BY TakenIn, FS_Subset
  <2>2. SumFunctionOnSet(f, T) = f[t] + SumFunctionOnSet(f, T \ {t})
    BY <2>1, SumTakes
  <2> HIDE DEF t
  <2>3. CASE x = t
    BY <2>2, <2>3
  <2>4. CASE x # t
    <3>1. T \ {t} \in P /\ T \ {x} \in P
      BY <1>1, <2>1
    <3>2. SumFunctionOnSet(f, T \ {t}) = f[x] + SumFunctionOnSet(f, R)
      BY <2>4, <3>1
    <3>3. (T \ {x}) \ {t} = R
      OBVIOUS
    <3>4. SumFunctionOnSet(f, T \ {x}) = f[t] + SumFunctionOnSet(f, R)
      BY <2>1, <2>4, <3>1, <3>3
    <3>5. SumFunctionOnSet(f, R) \in Int
      BY <2>1, SumType
    <3>6. f[x] \in Int /\ f[t] \in Int
      BY <2>1
    <3> HIDE DEF R, P
    <3> QED
      BY <2>2, <3>2, <3>4, <3>5, <3>6
  <2> QED
    BY <2>3, <2>4
<1> HIDE DEF P
<1>2. S \in P
  BY <1>1, SetInduction
<1> QED
  BY <1>2 DEF P

\* One value more.
LEMMA SumAdd ==
    ASSUME NEW f, NEW S, IsFiniteSet(S), NEW y, y \notin S, \A x \in S \cup {y} : f[x] \in Int
    PROVE  SumFunctionOnSet(f, S \cup {y}) = SumFunctionOnSet(f, S) + f[y]
<1>1. IsFiniteSet(S \cup {y}) /\ (S \cup {y}) \ {y} = S
  BY FS_AddElement
<1>2. SumFunctionOnSet(f, S \cup {y}) = f[y] + SumFunctionOnSet(f, S)
  BY <1>1, SumRemove
<1>3. SumFunctionOnSet(f, S) \in Int /\ f[y] \in Int
  BY SumType
<1> QED
  BY <1>2, <1>3


\* The sum asks a function only for its values on the set.
LEMMA SumSame ==
    ASSUME NEW f, NEW g, NEW S, IsFiniteSet(S), \A x \in S : f[x] = g[x]
    PROVE  SumFunctionOnSet(f, S) = SumFunctionOnSet(g, S)
<1> DEFINE P == {T \in SUBSET S : SumFunctionOnSet(f, T) = SumFunctionOnSet(g, T)}
<1>1. ASSUME NEW T \in SUBSET S, \A U \in SUBSET T : U # T => U \in P
      PROVE  T \in P
  <2>1. CASE T = {}
    BY <2>1, SumEmpty
  <2>2. CASE T # {}
    <3>1. /\ Taken(T) \in S /\ T \ {Taken(T)} \in P /\ IsFiniteSet(T)
      BY <1>1, <2>2, TakenIn, FS_Subset
    <3>2. /\ SumFunctionOnSet(f, T) = f[Taken(T)] + SumFunctionOnSet(f, T \ {Taken(T)})
          /\ SumFunctionOnSet(g, T) = g[Taken(T)] + SumFunctionOnSet(g, T \ {Taken(T)})
      BY <2>2, <3>1, SumTakes
    <3> QED
      BY <3>1, <3>2
  <2> QED
    BY <2>1, <2>2
<1> HIDE DEF P
<1>2. S \in P
  BY <1>1, SetInduction
<1> QED
  BY <1>2 DEF P

\* The sum over two sets without a common element.
LEMMA SumUnion ==
    ASSUME NEW f, NEW S, IsFiniteSet(S), NEW R, IsFiniteSet(R), S \cap R = {},
           \A x \in S \cup R : f[x] \in Int
    PROVE  SumFunctionOnSet(f, S \cup R) = SumFunctionOnSet(f, S) + SumFunctionOnSet(f, R)
<1> DEFINE P == {T \in SUBSET S :
                    SumFunctionOnSet(f, T \cup R) = SumFunctionOnSet(f, T) + SumFunctionOnSet(f, R)}
<1>0. SumFunctionOnSet(f, R) \in Int
  BY SumType
<1>1. ASSUME NEW T \in SUBSET S, \A U \in SUBSET T : U # T => U \in P
      PROVE  T \in P
  <2>1. CASE T = {}
    <3>1. SumFunctionOnSet(f, T) = 0
      BY <2>1, SumEmpty
    <3> DEFINE W == T \cup R
    <3>2. W = R
      BY <2>1
    <3> HIDE DEF W
    <3>3. SumFunctionOnSet(f, W) = SumFunctionOnSet(f, T) + SumFunctionOnSet(f, R)
      BY <1>0, <3>1, <3>2
    <3> QED
      BY <3>3 DEF W
  <2>2. CASE T # {}
    <3> DEFINE t == Taken(T)
               U == T \ {t}
    <3>1. t \in T /\ t \in S /\ U \in P /\ IsFiniteSet(T) /\ IsFiniteSet(U) /\ IsFiniteSet(T \cup R)
      BY <1>1, <2>2, TakenIn, FS_Subset, FS_Union
    <3>2. t \in T \cup R /\ (T \cup R) \ {t} = U \cup R
      BY <3>1
    <3>3. SumFunctionOnSet(f, T) = f[t] + SumFunctionOnSet(f, U)
      BY <2>2, <3>1, SumTakes
    <3>4. SumFunctionOnSet(f, T \cup R) = f[t] + SumFunctionOnSet(f, U \cup R)
      <4> HIDE DEF t, U
      <4> QED
        BY <3>1, <3>2, SumRemove
    <3>5. SumFunctionOnSet(f, U) \in Int /\ f[t] \in Int
      BY <3>1, SumType
    <3>6. SumFunctionOnSet(f, U \cup R) = SumFunctionOnSet(f, U) + SumFunctionOnSet(f, R)
      BY <3>1
    <3> QED
      BY <1>0, <3>3, <3>4, <3>5, <3>6
  <2> QED
    BY <2>1, <2>2
<1> HIDE DEF P
<1>2. S \in P
  BY <1>1, SetInduction
<1> QED
  BY <1>2 DEF P

\* Summing part by part: part[k], for k in K, are disjoint sets that make up S.
LEMMA SumParts ==
    ASSUME NEW f, NEW S, IsFiniteSet(S), \A x \in S : f[x] \in Int,
           NEW K, IsFiniteSet(K), NEW part,
           \A k \in K : part[k] \subseteq S,
           \A x \in S : \E k \in K : x \in part[k],
           \A j, k \in K : j # k => part[j] \cap part[k] = {},
           NEW g, \A k \in K : g[k] = SumFunctionOnSet(f, part[k])
    PROVE  SumFunctionOnSet(g, K) = SumFunctionOnSet(f, S)
<1> DEFINE In(L) == {x \in S : \E k \in L : x \in part[k]}
           P == {L \in SUBSET K : SumFunctionOnSet(g, L) = SumFunctionOnSet(f, In(L))}
<1>1. ASSUME NEW L \in SUBSET K, \A U \in SUBSET L : U # L => U \in P
      PROVE  L \in P
  <2>1. CASE L = {}
    <3>1. In(L) = {}
      BY <2>1
    <3> HIDE DEF In
    <3> QED
      BY <2>1, <3>1, SumEmpty
  <2>2. CASE L # {}
    <3> DEFINE k == Taken(L)
               U == L \ {k}
               G == part[k]
    <3>1. k \in L /\ k \in K /\ U \in P /\ IsFiniteSet(L)
      BY <1>1, <2>2, TakenIn, FS_Subset
    <3>2. SumFunctionOnSet(g, L) = g[k] + SumFunctionOnSet(g, U)
      BY <2>2, <3>1, SumTakes
    <3>3. G \subseteq S /\ In(U) \subseteq S /\ G \cap In(U) = {} /\ In(L) = G \cup In(U)
      BY <3>1
    <3>4. IsFiniteSet(G) /\ IsFiniteSet(In(U)) /\ \A x \in G \cup In(U) : f[x] \in Int
      <4> HIDE DEF G, In
      <4> QED
        BY <3>3, FS_Subset
    <3>5. g[k] = SumFunctionOnSet(f, G)
      BY <3>1
    <3>6. SumFunctionOnSet(g, U) = SumFunctionOnSet(f, In(U))
      BY <3>1
    <3> HIDE DEF G, In, P, U, k
    <3>7. SumFunctionOnSet(f, In(L)) = SumFunctionOnSet(f, G) + SumFunctionOnSet(f, In(U))
      BY <3>3, <3>4, SumUnion
    <3> QED
      BY <3>2, <3>5, <3>6, <3>7 DEF P
  <2> QED
    BY <2>1, <2>2
<1>2. K \in P
  <2> HIDE DEF P
  <2> QED
    BY <1>1, SetInduction
<1>3. In(K) = S
  OBVIOUS
<1> QED
  BY <1>2, <1>3

\* The sum over one element.
LEMMA SumOne ==
    ASSUME NEW f, NEW y, f[y] \in Int
    PROVE  SumFunctionOnSet(f, {y}) = f[y]
<1>1. IsFiniteSet({y}) /\ {y} \ {y} = {}
  BY FS_Singleton
<1>2. SumFunctionOnSet(f, {y}) = f[y] + SumFunctionOnSet(f, {y} \ {y})
  BY <1>1, SumRemove
<1>3. SumFunctionOnSet(f, {y} \ {y}) = 0
  BY <1>1, SumEmpty
<1> QED
  BY <1>2, <1>3

\* The same values, counted elsewhere: from is one-to-one from K onto S.
LEMMA SumMoved ==
    ASSUME NEW f, NEW S, IsFiniteSet(S), NEW K, IsFiniteSet(K), NEW from,
           \A k \in K : from[k] \in S,
           \A x \in S : \E k \in K : from[k] = x,
           \A j, k \in K : from[j] = from[k] => j = k,
           NEW g, \A k \in K : g[k] = f[from[k]],
           \A x \in S : f[x] \in Int
    PROVE  SumFunctionOnSet(f, S) = SumFunctionOnSet(g, K)
<1> DEFINE part == [k \in K |-> {from[k]}]
<1>1. \A k \in K : g[k] = SumFunctionOnSet(f, part[k])
  BY SumOne
<1>2. /\ \A k \in K : part[k] \subseteq S
      /\ \A x \in S : \E k \in K : x \in part[k]
      /\ \A j, k \in K : j # k => part[j] \cap part[k] = {}
  OBVIOUS
<1> HIDE DEF part
<1> QED
  BY <1>1, <1>2, SumParts

\* One value changes.
LEMMA SumChanged ==
    ASSUME NEW f, NEW g, NEW S, IsFiniteSet(S), NEW y \in S,
           \A x \in S : f[x] \in Int /\ g[x] \in Int,
           \A x \in S \ {y} : g[x] = f[x]
    PROVE  SumFunctionOnSet(g, S) = SumFunctionOnSet(f, S) - f[y] + g[y]
<1> DEFINE R == S \ {y}
<1>1. IsFiniteSet(R) /\ R \subseteq S
  BY FS_Subset
<1>2. SumFunctionOnSet(f, S) = f[y] + SumFunctionOnSet(f, R)
  BY SumRemove
<1>3. SumFunctionOnSet(g, S) = g[y] + SumFunctionOnSet(g, R)
  BY SumRemove
<1>4. \A x \in R : g[x] = f[x]
  OBVIOUS
<1>5. SumFunctionOnSet(g, R) = SumFunctionOnSet(f, R)
  <2> HIDE DEF R
  <2> QED
    BY <1>1, <1>4, SumSame
<1>6. \A x \in R : f[x] \in Int
  OBVIOUS
<1>7. SumFunctionOnSet(f, R) \in Int
  <2> HIDE DEF R
  <2> QED
    BY <1>1, <1>6, SumType
<1> HIDE DEF R
<1> QED
  BY <1>2, <1>3, <1>5, <1>7

\* The sum of sums.
LEMMA SumPlus ==
    ASSUME NEW f, NEW g, NEW h, NEW S, IsFiniteSet(S),
           \A x \in S : f[x] \in Int /\ g[x] \in Int /\ h[x] \in Int /\ f[x] = g[x] + h[x]
    PROVE  SumFunctionOnSet(f, S) = SumFunctionOnSet(g, S) + SumFunctionOnSet(h, S)
<1> DEFINE P == {T \in SUBSET S :
                    /\ SumFunctionOnSet(g, T) \in Int /\ SumFunctionOnSet(h, T) \in Int
                    /\ SumFunctionOnSet(f, T) = SumFunctionOnSet(g, T) + SumFunctionOnSet(h, T)}
<1>1. ASSUME NEW T \in SUBSET S, \A U \in SUBSET T : U # T => U \in P
      PROVE  T \in P
  <2>1. IsFiniteSet(T)
    BY FS_Subset
  <2>2. CASE T = {}
    BY <2>2, SumEmpty
  <2>3. CASE T # {}
    <3> DEFINE x == Taken(T)
               V == T \ {x}
    <3>1. x \in T /\ V \in P
      BY <1>1, <2>3, TakenIn
    <3>2. /\ SumFunctionOnSet(f, T) = f[x] + SumFunctionOnSet(f, V)
          /\ SumFunctionOnSet(g, T) = g[x] + SumFunctionOnSet(g, V)
          /\ SumFunctionOnSet(h, T) = h[x] + SumFunctionOnSet(h, V)
      BY <2>1, <2>3, SumTakes
    <3>3. f[x] \in Int /\ g[x] \in Int /\ h[x] \in Int /\ f[x] = g[x] + h[x]
      BY <3>1
    <3> HIDE DEF x, V
    <3> QED
      BY <3>1, <3>2, <3>3
  <2> QED
    BY <2>2, <2>3
<1> HIDE DEF P
<1>2. S \in P
  BY <1>1, SetInduction
<1> QED
  BY <1>2 DEF P

=============================================================================
