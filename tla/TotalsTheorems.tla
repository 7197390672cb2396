--------------------------- MODULE TotalsTheorems ---------------------------
(***************************************************************************)
(* What Total (module Totals) returns: it is a natural number, appending   *)
(* an element adds it, removing the first subtracts it.  Proved from the   *)
(* library's facts about finite sets; no induction is needed.              *)
(***************************************************************************)
EXTENDS Totals, FiniteSetTheorems, FunctionTheorems, SequenceTheorems, TLAPS

(* The tokens at position i of a sequence of credits or beat weights.      *)
Slot(i, n) == {i} \X (1 .. n)

(* Position i holds n tokens.                                              *)
LEMMA SlotCard ==
  ASSUME NEW i, NEW n \in Nat
  PROVE  IsFiniteSet(Slot(i, n)) /\ Cardinality(Slot(i, n)) = n
<1>1. IsFiniteSet({i}) /\ Cardinality({i}) = 1
  BY FS_Singleton
<1>2. IsFiniteSet(1 .. n) /\ Cardinality(1 .. n) = n
  BY FS_Interval
<1>3. /\ IsFiniteSet({i} \X (1 .. n))
      /\ Cardinality({i} \X (1 .. n)) = Cardinality({i}) * Cardinality(1 .. n)
  BY <1>1, <1>2, FS_Product
<1>4. 1 * n = n
  OBVIOUS
<1> QED
  BY <1>1, <1>2, <1>3, <1>4 DEF Slot

(* A finite sequence of numbers has finitely many tokens.                  *)
LEMMA TotalType ==
  ASSUME NEW ns \in Seq(Nat)
  PROVE  IsFiniteSet(Tokens(ns)) /\ Total(ns) \in Nat
<1> DEFINE f == [i \in 1 .. Len(ns) |-> Slot(i, ns[i])]
           S == {{i} \X (1 .. ns[i]) : i \in DOMAIN ns}
<1>1. DOMAIN ns = 1 .. Len(ns) /\ \A i \in 1 .. Len(ns) : ns[i] \in Nat
  BY LenProperties, ElementOfSeq
<1>2. f \in Surjection(1 .. Len(ns), S)
  BY <1>1, Fun_IsSurj DEF Slot
<1>3. IsFiniteSet(1 .. Len(ns))
  BY FS_Interval, LenProperties
<1>4. IsFiniteSet(S)
  BY <1>2, <1>3, FS_Surjection
<1>5. \A T \in S : IsFiniteSet(T)
  <2>1. \A i \in 1 .. Len(ns) : IsFiniteSet(Slot(i, ns[i]))
    BY <1>1, SlotCard
  <2> QED
    BY <1>1, <2>1 DEF Slot
<1>6. IsFiniteSet(Tokens(ns))
  BY <1>4, <1>5, FS_UNION DEF Tokens
<1> QED
  BY <1>6, FS_CardinalityType DEF Total

(* An empty wire holds no tokens.                                          *)
LEMMA TotalEmpty == Total(<<>>) = 0
<1>1. Tokens(<<>>) = {}
  BY DEF Tokens
<1> QED
  BY <1>1, FS_EmptySet DEF Total

(* Appending a beat adds its weight.                                       *)
LEMMA TotalAppend ==
  ASSUME NEW ns \in Seq(Nat), NEW n \in Nat
  PROVE  Total(Append(ns, n)) = Total(ns) + n
<1> DEFINE a == Append(ns, n)
           k == Len(ns) + 1
<1>1. /\ Len(ns) \in Nat /\ DOMAIN ns = 1 .. Len(ns)
      /\ DOMAIN a = 1 .. k /\ a[k] = n
      /\ \A i \in 1 .. Len(ns) : a[i] = ns[i]
  BY LenProperties, AppendProperties
<1>2. Tokens(a) = Tokens(ns) \cup Slot(k, n)
  <2>1. DOMAIN a = (DOMAIN ns) \cup {k}
    BY <1>1
  <2>2. \A i \in DOMAIN ns : a[i] = ns[i]
    BY <1>1
  <2> QED
    BY <1>1, <2>1, <2>2 DEF Tokens, Slot
<1>3. Tokens(ns) \cap Slot(k, n) = {}
  <2>1. k \notin DOMAIN ns
    BY <1>1
  <2> QED
    BY <2>1 DEF Tokens, Slot
<1>4. IsFiniteSet(Tokens(ns)) /\ Cardinality(Tokens(ns)) \in Nat
  BY TotalType DEF Total
<1>5. IsFiniteSet(Slot(k, n)) /\ Cardinality(Slot(k, n)) = n
  BY SlotCard
<1>6. Cardinality({}) = 0
  BY FS_EmptySet
<1>7. Cardinality(Tokens(a)) =
        Cardinality(Tokens(ns)) + Cardinality(Slot(k, n)) - Cardinality({})
  BY <1>2, <1>3, <1>4, <1>5, FS_Union
<1> QED
  BY <1>4, <1>5, <1>6, <1>7 DEF Total

(* Removing the oldest beat subtracts its weight.                          *)
LEMMA TotalTail ==
  ASSUME NEW ns \in Seq(Nat), ns # <<>>
  PROVE  Total(ns) = ns[1] + Total(Tail(ns))
<1> DEFINE t == Tail(ns)
           up == [p \in Tokens(t) |-> <<p[1] + 1, p[2]>>]
           Rest == {p \in Tokens(ns) : p[1] # 1}
<1>1. /\ t \in Seq(Nat) /\ Len(ns) \in Nat /\ Len(ns) >= 1
      /\ DOMAIN ns = 1 .. Len(ns) /\ DOMAIN t = 1 .. (Len(ns) - 1)
      /\ \A i \in 1 .. (Len(ns) - 1) : t[i] = ns[i + 1]
      /\ ns[1] \in Nat
  BY HeadTailProperties, LenProperties, ElementOfSeq, EmptySeq
<1>2. \A p : p \in Tokens(t) <=>
        \E i \in 1 .. (Len(ns) - 1) : \E j \in 1 .. ns[i + 1] : p = <<i, j>>
  <2>1. \A p : p \in Tokens(t) <=> \E i \in DOMAIN t : p \in {i} \X (1 .. t[i])
    BY DEF Tokens
  <2>2. \A p : p \in Tokens(t) <=>
          \E i \in 1 .. (Len(ns) - 1) : p \in {i} \X (1 .. ns[i + 1])
    <3> HIDE DEF t
    <3> QED
      BY <1>1, <2>1
  <2> HIDE DEF t, up, Rest
  <2> TAKE p
  <2>3. \A i : p \in {i} \X (1 .. ns[i + 1])
               <=> \E j \in 1 .. ns[i + 1] : p = <<i, j>>
    OBVIOUS
  <2>4. p \in Tokens(t) => \E i \in 1 .. (Len(ns) - 1) :
                               \E j \in 1 .. ns[i + 1] : p = <<i, j>>
    BY <2>2, <2>3, Zenon
  <2>5. ASSUME NEW i \in 1 .. (Len(ns) - 1), NEW j \in 1 .. ns[i + 1],
               p = <<i, j>>
        PROVE  p \in Tokens(t)
    <3>1. p \in {i} \X (1 .. ns[i + 1])
      BY <2>3, <2>5, Zenon
    <3> QED
      BY <2>2, <3>1, Zenon
  <2> QED
    BY <2>4, <2>5, Zenon
<1>3. \A p : p \in Rest <=>
        \E i \in 2 .. Len(ns) : \E j \in 1 .. ns[i] : p = <<i, j>>
  BY <1>1 DEF Tokens
<1>4. up \in Bijection(Tokens(t), Rest)
  <2>1. \A p \in Tokens(t) : up[p] \in Rest
    <3> TAKE p \in Tokens(t)
    <3>0. PICK i \in 1 .. (Len(ns) - 1) : \E j \in 1 .. ns[i + 1] : p = <<i, j>>
      BY <1>2
    <3>1. PICK j \in 1 .. ns[i + 1] : p = <<i, j>>
      BY <3>0
    <3>2. up[p] = <<i + 1, j>> /\ i + 1 \in 2 .. Len(ns)
      BY <3>1, <1>1
    <3> HIDE DEF up
    <3> QED
      BY <3>1, <3>2, <1>3
  <2>2. \A p, r \in Tokens(t) : up[p] = up[r] => p = r
    <3> TAKE p, r \in Tokens(t)
    <3>0. PICK i \in 1 .. (Len(ns) - 1) : \E j \in 1 .. ns[i + 1] : p = <<i, j>>
      BY <1>2
    <3>1. PICK j \in 1 .. ns[i + 1] : p = <<i, j>>
      BY <3>0
    <3>b. PICK k \in 1 .. (Len(ns) - 1) : \E l \in 1 .. ns[k + 1] : r = <<k, l>>
      BY <1>2
    <3>2. PICK l \in 1 .. ns[k + 1] : r = <<k, l>>
      BY <3>b
    <3>3. up[p] = <<i + 1, j>> /\ up[r] = <<k + 1, l>>
      BY <3>1, <3>2
    <3>4. <<i + 1, j>> = <<k + 1, l>> => i = k /\ j = l
      BY <1>1
    <3>5. p = r <=> <<i, j>> = <<k, l>>
      BY <3>1, <3>2, Zenon
    <3>6. up[p] = up[r] <=> <<i + 1, j>> = <<k + 1, l>>
      BY <3>3, Zenon
    <3> HIDE DEF up
    <3> QED
      BY <3>4, <3>5, <3>6, Zenon
  <2>3. \A r \in Rest : \E p \in Tokens(t) : up[p] = r
    <3> TAKE r \in Rest
    <3>0. PICK i \in 2 .. Len(ns) : \E j \in 1 .. ns[i] : r = <<i, j>>
      BY <1>3
    <3>1. PICK j \in 1 .. ns[i] : r = <<i, j>>
      BY <3>0
    <3>2. i - 1 \in 1 .. (Len(ns) - 1) /\ (i - 1) + 1 = i
      BY <3>1, <1>1
    <3>3. <<i - 1, j>> \in Tokens(t)
      BY <3>1, <3>2, <1>2
    <3>4. up[<<i - 1, j>>] = <<i, j>>
      BY <3>2, <3>3
    <3> HIDE DEF up
    <3> QED
      BY <3>1, <3>3, <3>4
  <2> HIDE DEF Rest
  <2> QED
    BY <2>1, <2>2, <2>3, Fun_IsBij
<1>5. IsFiniteSet(Tokens(t)) /\ Total(t) \in Nat
  BY <1>1, TotalType
<1>6. IsFiniteSet(Rest) /\ Cardinality(Rest) = Total(t)
  BY <1>4, <1>5, FS_Bijection, Fun_ExistsBij DEF Total
<1>7. Tokens(ns) = Slot(1, ns[1]) \cup Rest
  BY <1>1 DEF Tokens, Slot
<1>8. Slot(1, ns[1]) \cap Rest = {}
  BY DEF Slot
<1>9. IsFiniteSet(Slot(1, ns[1])) /\ Cardinality(Slot(1, ns[1])) = ns[1]
  BY <1>1, SlotCard
<1>10. Cardinality({}) = 0
  BY FS_EmptySet
<1>11. Cardinality(Tokens(ns)) =
         Cardinality(Slot(1, ns[1])) + Cardinality(Rest) - Cardinality({})
  <2> HIDE DEF Rest
  <2> QED
    BY <1>6, <1>7, <1>8, <1>9, FS_Union
<1> QED
  BY <1>1, <1>5, <1>6, <1>9, <1>10, <1>11 DEF Total

(***************************************************************************)
(* The same for numbers held by the members of a finite set.               *)
(***************************************************************************)
LEMMA TotalFun ==
  ASSUME NEW S, IsFiniteSet(S), NEW f \in [S -> Nat]
  PROVE  IsFiniteSet(Tokens(f)) /\ Total(f) \in Nat
<1> DEFINE g == [i \in S |-> Slot(i, f[i])]
           T == {{i} \X (1 .. f[i]) : i \in DOMAIN f}
<1>1. DOMAIN f = S /\ \A i \in S : f[i] \in Nat
  OBVIOUS
<1>2. g \in Surjection(S, T)
  BY <1>1, Fun_IsSurj DEF Slot
<1>3. IsFiniteSet(T)
  BY <1>2, FS_Surjection
<1>4. \A X \in T : IsFiniteSet(X)
  <2>1. \A i \in S : IsFiniteSet(Slot(i, f[i]))
    BY <1>1, SlotCard
  <2> QED
    BY <1>1, <2>1 DEF Slot
<1>5. IsFiniteSet(Tokens(f))
  BY <1>3, <1>4, FS_UNION DEF Tokens
<1> QED
  BY <1>5, FS_CardinalityType DEF Total

(* Nobody holds anything.                                                  *)
LEMMA TotalZero ==
  ASSUME NEW S, NEW f \in [S -> Nat], \A i \in S : f[i] = 0
  PROVE  Total(f) = 0
<1>1. Tokens(f) = {}
  BY DEF Tokens
<1> QED
  BY <1>1, FS_EmptySet DEF Total

Others(f, S, u) == [v \in S \ {u} |-> f[v]]

(* A total is what one member holds and the total of the others.           *)
LEMMA TotalPart ==
  ASSUME NEW S, IsFiniteSet(S), NEW f \in [S -> Nat], NEW u \in S
  PROVE  /\ Total(Others(f, S, u)) \in Nat
         /\ Total(f) = f[u] + Total(Others(f, S, u))
<1> DEFINE g == [v \in S \ {u} |-> f[v]]
<1>1. g \in [S \ {u} -> Nat] /\ IsFiniteSet(S \ {u}) /\ f[u] \in Nat
  BY FS_RemoveElement
<1>2. IsFiniteSet(Tokens(g)) /\ Total(g) \in Nat
  BY <1>1, TotalFun
<1>3. Tokens(f) = Slot(u, f[u]) \cup Tokens(g)
  <2>1. DOMAIN f = S /\ DOMAIN g = S \ {u} /\ \A v \in S \ {u} : g[v] = f[v]
    OBVIOUS
  <2> HIDE DEF g
  <2> QED
    BY <2>1 DEF Tokens, Slot
<1>4. Slot(u, f[u]) \cap Tokens(g) = {}
  BY DEF Tokens, Slot
<1>5. IsFiniteSet(Slot(u, f[u])) /\ Cardinality(Slot(u, f[u])) = f[u]
  BY <1>1, SlotCard
<1>6. Cardinality({}) = 0
  BY FS_EmptySet
<1>7. Cardinality(Tokens(f)) =
        Cardinality(Slot(u, f[u])) + Cardinality(Tokens(g)) - Cardinality({})
  <2> HIDE DEF g
  <2> QED
    BY <1>2, <1>3, <1>4, <1>5, FS_Union
<1> QED
  <2> HIDE DEF g
  <2>1. Total(g) \in Nat /\ Total(f) = f[u] + Total(g)
    BY <1>1, <1>2, <1>5, <1>6, <1>7 DEF Total
  <2> QED
    BY <2>1 DEF g, Others

(* What the total of two holdings that differ at one member differs by.    *)
LEMMA TotalAt ==
  ASSUME NEW S, IsFiniteSet(S), NEW f \in [S -> Nat], NEW g \in [S -> Nat],
         NEW u \in S, \A v \in S \ {u} : g[v] = f[v]
  PROVE  /\ Total(f) \in Nat /\ Total(g) \in Nat
         /\ f[u] <= Total(f)
         /\ Total(g) + f[u] = Total(f) + g[u]
<1>1. /\ Total(Others(f, S, u)) \in Nat
      /\ Total(f) = f[u] + Total(Others(f, S, u))
  BY TotalPart
<1>2. /\ Total(Others(g, S, u)) \in Nat
      /\ Total(g) = g[u] + Total(Others(g, S, u))
  BY TotalPart
<1>3. Others(f, S, u) = Others(g, S, u)
  BY DEF Others
<1>4. f[u] \in Nat /\ g[u] \in Nat
  OBVIOUS
<1> QED
  BY <1>1, <1>2, <1>3, <1>4

(* Of what f says the members of S hold, g is what is left when a has      *)
(* given i away and b has received j.                                      *)
Moved(S, f, g, a, b, i, j) ==
  \A v \in S : g[v] + (IF v = a THEN i ELSE 0) = f[v] + (IF v = b THEN j ELSE 0)

LEMMA TotalMoves ==
  ASSUME NEW S, IsFiniteSet(S), NEW f \in [S -> Nat], NEW g \in [S -> Nat],
         NEW a \in S, NEW b \in S, NEW i \in Nat, NEW j \in Nat,
         Moved(S, f, g, a, b, i, j)
  PROVE  /\ Total(f) \in Nat /\ Total(g) \in Nat
         /\ Total(g) + i = Total(f) + j
<1> DEFINE h == [v \in S |-> g[v] + (IF v = a THEN i ELSE 0)]
<1>1. /\ \A v \in S : g[v] \in Nat /\ f[v] \in Nat
      /\ h \in [S -> Nat]
  OBVIOUS
<1>2. /\ \A v \in S \ {a} : h[v] = g[v]
      /\ h[a] = g[a] + i
  BY <1>1
<1>3. /\ \A v \in S \ {b} : h[v] = f[v]
      /\ h[b] = f[b] + j
  <2>1. \A v \in S : h[v] = f[v] + (IF v = b THEN j ELSE 0)
    BY DEF Moved
  <2> HIDE DEF h
  <2> QED
    BY <1>1, <2>1
<1> HIDE DEF h
<1>4. /\ Total(g) \in Nat /\ Total(h) \in Nat
      /\ Total(h) + g[a] = Total(g) + h[a]
  BY <1>1, <1>2, TotalAt
<1>5. /\ Total(f) \in Nat /\ Total(h) + f[b] = Total(f) + h[b]
  BY <1>1, <1>3, TotalAt
<1>6. g[a] \in Nat /\ f[b] \in Nat
  BY <1>1
<1> QED
  BY <1>2, <1>3, <1>4, <1>5, <1>6

-----------------------------------------------------------------------------
(***************************************************************************)
(* What Picked (module Totals) returns.                                    *)
(***************************************************************************)

(* A set of positions is finite, and ranks are numbers.                    *)
LEMMA RankTypes ==
  ASSUME NEW n \in Nat, NEW P \in SUBSET (1 .. n), NEW i
  PROVE  /\ IsFiniteSet(P) /\ Cardinality(P) \in Nat
         /\ IsFiniteSet(P \cap (1 .. i)) /\ Rank(P, i) \in Nat
         /\ Rank(P, i) <= Cardinality(P)
<1>1. IsFiniteSet(P)
  <2>1. IsFiniteSet(1 .. n)
    BY FS_Interval
  <2> QED
    BY <2>1, FS_Subset
<1>2. /\ IsFiniteSet(P \cap (1 .. i))
      /\ Cardinality(P \cap (1 .. i)) <= Cardinality(P)
  BY <1>1, FS_Intersection
<1> QED
  BY <1>1, <1>2, FS_CardinalityType DEF Rank

(* A later position has a higher rank.                                     *)
LEMMA RankGrows ==
  ASSUME NEW n \in Nat, NEW P \in SUBSET (1 .. n), NEW i \in P, NEW j \in P, i < j
  PROVE  Rank(P, i) < Rank(P, j)
<1> DEFINE low == P \cap (1 .. i)
           high == P \cap (1 .. j)
<1>1. low \in SUBSET high /\ j \in high /\ j \notin low
  OBVIOUS
<1>2. IsFiniteSet(high) /\ Cardinality(high) \in Nat /\ Cardinality(low) \in Nat
  BY RankTypes DEF Rank
<1> HIDE DEF low, high
<1>3. Cardinality(low) <= Cardinality(high) /\ Cardinality(high) # Cardinality(low)
  BY <1>1, <1>2, FS_Subset
<1>4. Cardinality(low) < Cardinality(high)
  BY <1>2, <1>3
<1> QED
  BY <1>4 DEF low, high, Rank

(* Every number up to the cardinality is the rank of one position.         *)
LEMMA RankOnce ==
  ASSUME NEW n \in Nat, NEW P \in SUBSET (1 .. n)
  PROVE  /\ \A i \in P : Rank(P, i) \in 1 .. Cardinality(P)
         /\ \A i, j \in P : Rank(P, i) = Rank(P, j) => i = j
         /\ \A k \in 1 .. Cardinality(P) : \E i \in P : Rank(P, i) = k
<1> DEFINE N == Cardinality(P)
           f == [i \in P |-> Rank(P, i)]
<1>1. IsFiniteSet(P) /\ N \in Nat
  BY RankTypes
<1>2. ASSUME NEW i \in P PROVE Rank(P, i) \in 1 .. N
  <2>1. i \in P \cap (1 .. i) /\ IsFiniteSet(P \cap (1 .. i))
    BY RankTypes
  <2>2. Rank(P, i) # 0
    BY <2>1, FS_EmptySet DEF Rank
  <2>3. Rank(P, i) \in Nat /\ Rank(P, i) <= N
    BY RankTypes
  <2> HIDE DEF N
  <2> QED
    BY <1>1, <2>2, <2>3
<1>3. ASSUME NEW i \in P, NEW j \in P, Rank(P, i) = Rank(P, j) PROVE i = j
  <2>1. i < j => Rank(P, i) < Rank(P, j)
    BY RankGrows
  <2>2. j < i => Rank(P, j) < Rank(P, i)
    BY RankGrows
  <2>3. Rank(P, i) \in Nat
    BY RankTypes
  <2>4. i \in Nat /\ j \in Nat
    OBVIOUS
  <2> QED
    BY <1>3, <2>1, <2>2, <2>3, <2>4
<1>4. IsFiniteSet(1 .. N) /\ Cardinality(1 .. N) = N
  <2>1. N > 0 \/ N = 0
    BY <1>1
  <2> HIDE DEF N
  <2> QED
    BY <1>1, <2>1, FS_Interval
<1>5. f \in Injection(P, 1 .. N)
  BY <1>2, <1>3, Fun_IsInj
<1>6. f \in Surjection(P, 1 .. N)
  BY <1>4, <1>5, FS_Injection
<1>7. ASSUME NEW k \in 1 .. N PROVE \E i \in P : Rank(P, i) = k
  <2>1. \E i \in P : f[i] = k
    BY <1>6 DEF Surjection
  <2> QED
    BY <2>1
<1> QED
  BY <1>2, <1>3, <1>7

(* The element at the position of rank k is the k-th.                      *)
LEMMA PickedAt ==
  ASSUME NEW n \in Nat, NEW P \in SUBSET (1 .. n), NEW s, NEW i \in P
  PROVE  /\ Rank(P, i) \in 1 .. Cardinality(P)
         /\ Picked(s, P)[Rank(P, i)] = s[i]
<1>1. Rank(P, i) \in 1 .. Cardinality(P)
  BY RankOnce
<1> DEFINE j == CHOOSE m \in P : Rank(P, m) = Rank(P, i)
<1>2. j \in P /\ Rank(P, j) = Rank(P, i)
  OBVIOUS
<1>3. j = i
  BY <1>2, RankOnce
<1>4. Picked(s, P)[Rank(P, i)] = s[j]
  BY <1>1 DEF Picked
<1> QED
  BY <1>1, <1>3, <1>4

(* What is picked from a sequence is a sequence of its elements.           *)
LEMMA PickedType ==
  ASSUME NEW S, NEW s \in Seq(S), NEW P \in SUBSET (1 .. Len(s))
  PROVE  /\ Picked(s, P) \in Seq(S)
         /\ Len(Picked(s, P)) = Cardinality(P) /\ Cardinality(P) \in Nat
<1> DEFINE N == Cardinality(P)
<1>1. Len(s) \in Nat /\ N \in Nat
  BY LenProperties, RankTypes
<1>2. ASSUME NEW k \in 1 .. N PROVE Picked(s, P)[k] \in S
  <2>1. PICK i \in P : Rank(P, i) = k
    BY <1>1, RankOnce
  <2>2. Picked(s, P)[k] = s[i]
    BY <1>1, <2>1, PickedAt
  <2> QED
    BY <2>2, ElementOfSeq
<1>3. Picked(s, P) = [k \in 1 .. N |-> Picked(s, P)[k]]
  BY DEF Picked
<1> HIDE DEF N
<1>4. [k \in 1 .. N |-> Picked(s, P)[k]] \in Seq(S)
  BY <1>1, <1>2, IsASeq
<1>5. Picked(s, P) \in [1 .. N -> S] /\ Picked(s, P) \in Seq(S)
  BY <1>2, <1>3, <1>4
<1>6. Len(Picked(s, P)) = N
  BY <1>1, <1>5
<1> QED
  BY <1>1, <1>5, <1>6 DEF N

(* Nothing is picked at no position.                                       *)
LEMMA PickedNone == ASSUME NEW s PROVE Picked(s, {}) = <<>>
<1>1. Cardinality({}) = 0
  BY FS_EmptySet
<1> QED
  BY <1>1 DEF Picked

(* An element appended is picked last, or not at all.                      *)
LEMMA PickedAppend ==
  ASSUME NEW S, NEW s \in Seq(S), NEW x \in S, NEW P \in SUBSET (1 .. Len(s))
  PROVE  /\ Picked(Append(s, x), P) = Picked(s, P)
         /\ Picked(Append(s, x), P \cup {Len(s) + 1}) = Append(Picked(s, P), x)
<1> DEFINE n == Len(s)
           N == Cardinality(P)
           a == Append(s, x)
           Q == P \cup {n + 1}
<1>1. /\ n \in Nat /\ N \in Nat /\ IsFiniteSet(P) /\ P \in SUBSET (1 .. n)
      /\ Picked(s, P) \in Seq(S) /\ Len(Picked(s, P)) = N
  BY LenProperties, RankTypes, PickedType
<1>2. /\ a \in Seq(S) /\ Len(a) = n + 1 /\ a[n + 1] = x
      /\ \A i \in P : a[i] = s[i]
  <2>1. /\ a \in Seq(S) /\ Len(a) = n + 1 /\ a[n + 1] = x
        /\ \A i \in 1 .. n : a[i] = s[i]
    BY AppendProperties
  <2> HIDE DEF n, a
  <2> QED
    BY <1>1, <2>1
<1> HIDE DEF n
<1>3. /\ n + 1 \in Nat /\ n + 1 \in Q
      /\ P \in SUBSET (1 .. n + 1) /\ Q \in SUBSET (1 .. n + 1)
  <2>1. \A i \in 1 .. n : i \in 1 .. n + 1
    BY <1>1
  <2>2. n + 1 \in 1 .. n + 1 /\ n + 1 \in Nat
    BY <1>1
  <2> QED
    BY <1>1, <2>1, <2>2
<1> HIDE DEF a
<1>4. Cardinality(Q) = N + 1
  <2>1. n + 1 \notin P
    BY <1>1
  <2> QED
    BY <1>1, <2>1, FS_AddElement
<1>5. /\ Picked(a, P) \in Seq(S) /\ Len(Picked(a, P)) = N
      /\ Picked(a, Q) \in Seq(S) /\ Len(Picked(a, Q)) = N + 1
  BY <1>2, <1>3, <1>4, PickedType
<1>6. ASSUME NEW k \in 1 .. N
      PROVE  Picked(a, P)[k] = Picked(s, P)[k] /\ Picked(a, Q)[k] = Picked(s, P)[k]
  <2>1. PICK i \in P : Rank(P, i) = k
    BY <1>1, RankOnce
  <2>2. Picked(s, P)[k] = s[i]
    BY <1>1, <2>1, PickedAt
  <2>3. Picked(a, P)[k] = a[i]
    BY <1>1, <2>1, PickedAt
  <2>4. Rank(Q, i) = k
    <3>1. Q \cap (1 .. i) = P \cap (1 .. i)
      BY <1>1
    <3> QED
      BY <2>1, <3>1 DEF Rank
  <2>5. i \in Q
    OBVIOUS
  <2> HIDE DEF Q
  <2>6. Picked(a, Q)[k] = a[i]
    BY <1>3, <2>4, <2>5, PickedAt
  <2> QED
    BY <1>2, <2>2, <2>3, <2>6
<1>7. Picked(a, Q)[N + 1] = x
  <2> HIDE DEF Q
  <2>1. Q \cap (1 .. (n + 1)) = Q
    BY <1>3
  <2>2. Rank(Q, n + 1) = N + 1
    BY <1>4, <2>1 DEF Rank
  <2>3. Picked(a, Q)[Rank(Q, n + 1)] = a[n + 1]
    BY <1>3, PickedAt
  <2> QED
    BY <1>2, <2>2, <2>3, Zenon
<1> HIDE DEF N, Q
<1>8. Picked(a, P) = Picked(s, P)
  BY <1>1, <1>5, <1>6, SeqEqual
<1>9. Picked(a, Q) = Append(Picked(s, P), x)
  <2> DEFINE p == Picked(s, P)
             r == Append(p, x)
  <2>1. /\ r \in Seq(S) /\ Len(r) = N + 1 /\ r[N + 1] = x
        /\ \A k \in 1 .. N : r[k] = p[k]
    BY <1>1, AppendProperties
  <2> HIDE DEF r
  <2>2. \A k \in 1 .. N + 1 : Picked(a, Q)[k] = r[k]
    <3>1. \A k \in 1 .. N + 1 : k \in 1 .. N \/ k = N + 1
      BY <1>1
    <3> QED
      BY <1>6, <1>7, <2>1, <3>1
  <2>3. Picked(a, Q) = r
    BY <1>5, <2>1, <2>2, SeqEqual
  <2> QED
    BY <2>3 DEF r
<1> QED
  BY <1>8, <1>9 DEF a, n, Q

(* The first element is picked first, or not at all; Q is what remains of  *)
(* the positions once it is gone.                                          *)
LEMMA PickedTail ==
  ASSUME NEW S, NEW s \in Seq(S), s # <<>>, NEW P \in SUBSET (1 .. Len(s)),
         NEW Q \in SUBSET (1 .. Len(s) - 1),
         \A i \in 1 .. Len(s) - 1 : i \in Q <=> i + 1 \in P
  PROVE  Picked(s, P) = (IF 1 \in P THEN <<s[1]>> ELSE <<>>) \o Picked(Tail(s), Q)
<1> DEFINE n == Len(s)
           t == Tail(s)
           R == P \ {1}
           d == IF 1 \in P THEN 1 ELSE 0
           up == [i \in Q |-> i + 1]
<1>1. /\ n \in Nat /\ n >= 1 /\ n - 1 \in Nat /\ P \in SUBSET (1 .. n)
      /\ t \in Seq(S) /\ Len(t) = n - 1 /\ Q \in SUBSET (1 .. n - 1)
      /\ \A i \in 1 .. n - 1 : t[i] = s[i + 1]
  BY LenProperties, EmptySeq, HeadTailProperties
<1>2. /\ IsFiniteSet(P) /\ Cardinality(P) \in Nat
      /\ IsFiniteSet(Q) /\ Cardinality(Q) \in Nat
  BY <1>1, RankTypes
<1>3. \A i \in R : i - 1 \in Q /\ (i - 1) + 1 = i
  <2>1. \A i \in R : i - 1 \in 1 .. n - 1 /\ (i - 1) + 1 = i
    BY <1>1
  <2> QED
    BY <2>1
<1>4. \A i \in Q : i + 1 \in R /\ i + 1 \in P /\ i \in 1 .. n - 1
  BY <1>1
(* Ranks move up by one when position 1 is picked. *)
<1>5. ASSUME NEW m \in Nat
      PROVE  Rank(P, m + 1) = d + Rank(Q, m)
  <2> DEFINE A == Q \cap (1 .. m)
             B == R \cap (1 .. (m + 1))
             C == P \cap (1 .. (m + 1))
             g == [i \in A |-> i + 1]
  <2>1. /\ IsFiniteSet(A) /\ Cardinality(A) \in Nat
    BY <1>1, RankTypes DEF Rank
  <2>2. g \in Bijection(A, B)
    <3>1. \A i \in A : g[i] \in B
      BY <1>1, <1>4
    <3>2. \A i, j \in A : g[i] = g[j] => i = j
      BY <1>1
    <3>3. \A j \in B : j - 1 \in A /\ g[j - 1] = j
      BY <1>1, <1>3
    <3>4. \A j \in B : \E i \in A : g[i] = j
      BY <3>3
    <3> HIDE DEF A, B
    <3> QED
      BY <3>1, <3>2, <3>4, Fun_IsBij
  <2>3. IsFiniteSet(B) /\ Cardinality(B) = Cardinality(A)
    BY <2>1, <2>2, FS_Bijection, Fun_ExistsBij
  <2>4. Cardinality(C) = d + Cardinality(B)
    <3>1. CASE 1 \in P
      <4>1. C = B \cup {1} /\ 1 \notin B
        BY <3>1
      <4> HIDE DEF A, B, C
      <4>2. Cardinality(C) = Cardinality(B) + 1
        BY <2>3, <4>1, FS_AddElement
      <4> QED
        BY <2>1, <2>3, <3>1, <4>2
    <3>2. CASE 1 \notin P
      <4>1. C = B
        BY <3>2
      <4> HIDE DEF A, B, C
      <4> QED
        BY <2>1, <2>3, <3>2, <4>1
    <3> QED
      BY <3>1, <3>2
  <2> QED
    BY <2>3, <2>4 DEF Rank
<1>6. Cardinality(P) = d + Cardinality(Q)
  <2>1. (n - 1) + 1 = n
    BY <1>1
  <2>2. P \cap (1 .. n) = P /\ Q \cap (1 .. (n - 1)) = Q
    BY <1>1
  <2>3. Rank(P, n) = d + Rank(Q, n - 1)
    BY <1>1, <1>5, <2>1
  <2> QED
    BY <2>2, <2>3 DEF Rank
<1>7. d \in {0, 1} /\ (d = 1 <=> 1 \in P)
  OBVIOUS
<1>8. ASSUME NEW k \in 1 .. Cardinality(Q)
      PROVE  Picked(s, P)[d + k] = Picked(t, Q)[k]
  <2>1. PICK i \in Q : Rank(Q, i) = k
    BY <1>1, RankOnce
  <2>2. Picked(t, Q)[k] = t[i]
    BY <1>1, <2>1, PickedAt
  <2>3. i + 1 \in P /\ i \in 1 .. n - 1 /\ i \in Nat
    BY <1>1, <1>4
  <2>4. Rank(P, i + 1) = d + k
    BY <1>5, <2>1, <2>3
  <2> HIDE DEF d
  <2>5. Picked(s, P)[Rank(P, i + 1)] = s[i + 1]
    BY <1>1, <2>3, PickedAt
  <2> QED
    BY <1>1, <2>2, <2>3, <2>4, <2>5
<1>9. 1 \in P => Picked(s, P)[1] = s[1]
  <2> SUFFICES ASSUME 1 \in P PROVE Picked(s, P)[1] = s[1]
    OBVIOUS
  <2>1. P \cap (1 .. 1) = {1}
    OBVIOUS
  <2>2. Rank(P, 1) = 1
    BY <2>1, FS_Singleton DEF Rank
  <2>3. Picked(s, P)[Rank(P, 1)] = s[1]
    BY <1>1, PickedAt, ZenonT(40)
  <2> QED
    BY <2>2, <2>3, Zenon
<1>10. /\ Picked(s, P) \in Seq(S) /\ Len(Picked(s, P)) = Cardinality(P)
       /\ Picked(t, Q) \in Seq(S) /\ Len(Picked(t, Q)) = Cardinality(Q)
  BY <1>1, PickedType
<1>11. s[1] \in S
  BY <1>1, ElementOfSeq
<1> DEFINE h == IF 1 \in P THEN <<s[1]>> ELSE <<>>
           M == Cardinality(Q)
           u == h \o Picked(t, Q)
<1>12. h \in Seq(S) /\ Len(h) = d /\ (1 \in P => h[1] = s[1])
  BY <1>11
<1> HIDE DEF n, t, R, up, h, d, M
<1>13. /\ u \in Seq(S) /\ Len(u) = d + M
       /\ \A k \in 1 .. d + M : u[k] = IF k <= d THEN h[k] ELSE Picked(t, Q)[k - d]
  <2> DEFINE p == Picked(t, Q)
  <2>1. p \in Seq(S) /\ Len(p) = M
    BY <1>10 DEF M
  <2> HIDE DEF p
  <2>2. /\ h \o p \in Seq(S) /\ Len(h \o p) = Len(h) + Len(p)
        /\ \A k \in 1 .. Len(h) + Len(p) :
             (h \o p)[k] = IF k <= Len(h) THEN h[k] ELSE p[k - Len(h)]
    BY <1>12, <2>1, ConcatProperties
  <2> QED
    BY <1>12, <2>1, <2>2 DEF p
<1>14. ASSUME NEW k \in 1 .. d + M PROVE Picked(s, P)[k] = u[k]
  <2>1. CASE k <= d
    <3>1. k = 1 /\ 1 \in P
      BY <1>2, <1>7, <2>1 DEF M
    <3> HIDE DEF u
    <3> QED
      BY <1>9, <1>12, <1>13, <2>1, <3>1
  <2>2. CASE ~(k <= d)
    <3>1. k - d \in 1 .. M /\ d + (k - d) = k
      BY <1>2, <1>7, <2>2 DEF M
    <3> HIDE DEF u
    <3> QED
      BY <1>8, <1>13, <2>2, <3>1 DEF M
  <2> QED
    BY <2>1, <2>2
<1>15. Picked(s, P) = u
  <2> HIDE DEF u
  <2>1. Len(Picked(s, P)) = d + M
    BY <1>6, <1>10 DEF M
  <2> QED
    BY <1>10, <1>13, <1>14, <2>1, SeqEqual
<1> QED
  BY <1>15 DEF h, t

=============================================================================
