--------------------------- MODULE SchedulerProofs ---------------------------
(***************************************************************************)
(* Why no periodic task is lost or queued twice, why every accepted task   *)
(* is owed its run, why the heaps have room, and when the heap is ordered. *)
(*                                                                         *)
(* Two arguments carry the module.  The heap only moves items: however it  *)
(* compares them, the number of times each item is in it changes by the    *)
(* item added or removed (Count), so the sum of an item over the two heaps *)
(* and the two rings (Places) is what the invariant speaks of.  And the    *)
(* loops of the code are iterated functions (Iterated): what one round     *)
(* keeps, the loop keeps, and what makes a measure grow in every round is  *)
(* reached.                                                                *)
(***************************************************************************)
EXTENDS Scheduler, WellFoundedInduction, SequenceTheorems, FiniteSetTheorems, TLAPS

-----------------------------------------------------------------------------
(* Induction over the natural numbers, and loops.                          *)

LEMMA Least ==
  ASSUME NEW T, T \subseteq Nat, T # {}
  PROVE  \E m \in T : \A k \in T : m <= k
<1> DEFINE R == {ss \in Nat \X Nat : ss[1] < ss[2]}
<1>1. IsWellFoundedOn(R, Nat)
  BY NatLessThanWellFounded DEF OpToRel
<1>2. \A j, k \in Nat : <<j, k>> \in R <=> j < k
  OBVIOUS
<1> HIDE DEF R
<1>3. \E x \in T : \A y \in T : ~ (<<y, x>> \in R)
  BY <1>1, WFMin
<1>4. PICK m \in T : \A k \in T : ~ (<<k, m>> \in R)
  BY <1>3
<1>5. ASSUME NEW k \in T PROVE m <= k
  <2>1. ~ (k < m) /\ k \in Nat /\ m \in Nat
    BY <1>2, <1>4
  <2> QED
    BY <2>1
<1> QED
  BY <1>5

LEMMA Induction ==
  ASSUME NEW T, 0 \in T, \A n \in Nat : n \in T => n + 1 \in T
  PROVE  Nat \subseteq T
<1> DEFINE Bad == {n \in Nat : n \notin T}
<1> SUFFICES ASSUME Bad # {} PROVE FALSE
  OBVIOUS
<1>1. PICK m \in Bad : \A k \in Bad : m <= k
  BY Least
<1>2. m # 0 /\ m - 1 \in Nat /\ m - 1 \notin Bad
  BY <1>1
<1> QED
  BY <1>1, <1>2

LEMMA IteratedIs ==
  ASSUME NEW next, NEW s
  PROVE  /\ Iterated(next, s)[0] = s
         /\ \A n \in Nat : Iterated(next, s)[n + 1] = next[Iterated(next, s)[n]]
<1> DEFINE Upto(g, n) == /\ g = [i \in 0 .. n |-> g[i]] /\ g[0] = s
                         /\ \A i \in 0 .. n - 1 : g[i + 1] = next[g[i]]
           Has == {n \in Nat : \E g : Upto(g, n)}
           F == [n \in Nat |-> (CHOOSE g : Upto(g, n))[n]]
<1>1. 0 \in Has
  <2>1. Upto([i \in 0 .. 0 |-> s], 0)
    OBVIOUS
  <2> QED
    BY <2>1
<1>2. ASSUME NEW n \in Nat, n \in Has PROVE n + 1 \in Has
  <2>1. PICK g : Upto(g, n)
    BY <1>2
  <2> DEFINE h == [i \in 0 .. n + 1 |-> IF i = n + 1 THEN next[g[n]] ELSE g[i]]
  <2>2. h = [i \in 0 .. n + 1 |-> h[i]] /\ h[0] = s
    BY <2>1
  <2>3. ASSUME NEW i \in 0 .. n PROVE h[i + 1] = next[h[i]]
    BY <2>1
  <2> HIDE DEF h
  <2>4. \A i \in 0 .. n + 1 - 1 : h[i + 1] = next[h[i]]
    <3>1. n + 1 - 1 = n
      OBVIOUS
    <3> QED
      BY <2>3, <3>1
  <2>5. Upto(h, n + 1)
    BY <2>2, <2>4
  <2>6. n + 1 \in Nat
    OBVIOUS
  <2> HIDE DEF Upto
  <2> QED
    BY <2>5, <2>6
<1>3. Nat \subseteq Has
  BY <1>1, <1>2, Induction
<1>4. \A n \in Nat : Upto(CHOOSE g : Upto(g, n), n)
  BY <1>3
<1>5. ASSUME NEW m \in Nat, NEW n \in Nat, NEW g, NEW h, Upto(g, m), Upto(h, n)
      PROVE  \A i \in Nat : i <= m /\ i <= n => g[i] = h[i]
  <2> DEFINE Same == {i \in Nat : i <= m /\ i <= n => g[i] = h[i]}
  <2>1. 0 \in Same
    BY <1>5
  <2>2. ASSUME NEW i \in Nat, i \in Same PROVE i + 1 \in Same
    <3> SUFFICES ASSUME i + 1 <= m, i + 1 <= n PROVE g[i + 1] = h[i + 1]
      OBVIOUS
    <3>1. i \in 0 .. m - 1 /\ i \in 0 .. n - 1
      OBVIOUS
    <3>2. g[i] = h[i]
      BY <2>2
    <3> QED
      BY <1>5, <3>1, <3>2
  <2> HIDE DEF Same
  <2>3. Nat \subseteq Same
    BY <2>1, <2>2, Induction
  <2> QED
    BY <2>3 DEF Same
<1>6. F[0] = s
  BY <1>4
<1>7. ASSUME NEW n \in Nat PROVE F[n + 1] = next[F[n]]
  <2> DEFINE g == CHOOSE e : Upto(e, n)
             h == CHOOSE e : Upto(e, n + 1)
  <2>1. Upto(g, n) /\ Upto(h, n + 1)
    <3>1. n + 1 \in Nat
      OBVIOUS
    <3> HIDE DEF Upto
    <3> QED
      BY <1>4, <3>1
  <2>2. g[n] = h[n]
    <3>1. n + 1 \in Nat /\ n <= n /\ n <= n + 1
      OBVIOUS
    <3> HIDE DEF Upto, g, h
    <3> QED
      BY <1>5, <2>1, <3>1
  <2>3. h[n + 1] = next[h[n]]
    BY <2>1
  <2> QED
    BY <2>2, <2>3
<1> HIDE DEF F, Upto
<1>8. F = [n \in Nat |-> IF n = 0 THEN s ELSE next[F[n - 1]]]
  <2>1. \A n \in Nat : F[n] = IF n = 0 THEN s ELSE next[F[n - 1]]
    <3> TAKE n \in Nat
    <3>1. CASE n = 0
      BY <1>6, <3>1
    <3>2. CASE n # 0
      <4>1. n - 1 \in Nat /\ n - 1 + 1 = n
        BY <3>2
      <4> QED
        BY <1>7, <3>2, <4>1
    <3> QED
      BY <3>1, <3>2
  <2>2. F = [n \in Nat |-> F[n]]
    BY DEF F
  <2> QED
    BY <2>1, <2>2
<1> DEFINE G == CHOOSE G : G = [n \in Nat |-> IF n = 0 THEN s ELSE next[G[n - 1]]]
<1>9. G = [n \in Nat |-> IF n = 0 THEN s ELSE next[G[n - 1]]]
  BY <1>8
<1>10. Iterated(next, s) = G
  BY DEF Iterated
<1> HIDE DEF G
<1> QED
  BY <1>9, <1>10

-----------------------------------------------------------------------------
(* How often an item is in a sequence.                                     *)

LEMMA CountFinite ==
  ASSUME NEW S, NEW h \in Seq(S), NEW t
  PROVE  /\ IsFiniteSet({i \in DOMAIN h : h[i] = t})
         /\ Count(h, t) \in Nat
         /\ Count(h, t) = 0 <=> \A i \in DOMAIN h : h[i] # t
<1>1. DOMAIN h = 1 .. Len(h) /\ Len(h) \in Nat
  BY LenProperties
<1>2. IsFiniteSet(1 .. Len(h))
  BY <1>1, FS_Interval
<1>3. IsFiniteSet({i \in DOMAIN h : h[i] = t})
  BY <1>1, <1>2, FS_Subset
<1>4. Count(h, t) \in Nat
  BY <1>3, FS_CardinalityType DEF Count
<1>5. Count(h, t) = 0 <=> {i \in DOMAIN h : h[i] = t} = {}
  BY <1>3, FS_EmptySet DEF Count
<1> QED
  BY <1>3, <1>4, <1>5

LEMMA CountEmpty ==
  ASSUME NEW t
  PROVE  Count(<<>>, t) = 0
<1>1. <<>> \in Seq({t}) /\ DOMAIN <<>> = {}
  OBVIOUS
<1> QED
  BY <1>1, CountFinite

(* An item that is not in the set of the sequence's items. *)
LEMMA CountStranger ==
  ASSUME NEW S, NEW h \in Seq(S), NEW t, t \notin S
  PROVE  Count(h, t) = 0
<1>1. \A i \in DOMAIN h : h[i] \in S
  BY LenProperties, ElementOfSeq
<1> QED
  BY <1>1, CountFinite

LEMMA CountAppend ==
  ASSUME NEW S, NEW h \in Seq(S), NEW x \in S, NEW t
  PROVE  Count(Append(h, x), t) = IF t = x THEN Count(h, t) + 1 ELSE Count(h, t)
<1> DEFINE g == Append(h, x)
           n == Len(h) + 1
           Old == {i \in DOMAIN h : h[i] = t}
           New == {i \in DOMAIN g : g[i] = t}
<1>1. /\ DOMAIN h = 1 .. Len(h)
      /\ Len(h) \in Nat
  BY LenProperties
<1>2. /\ g \in Seq(S)
      /\ Len(g) = n
      /\ \A i \in 1 .. Len(h) : g[i] = h[i]
      /\ g[n] = x
  BY AppendProperties
<1>3. DOMAIN g = 1 .. n
  BY <1>2, LenProperties
<1> HIDE DEF g
<1>4. n \notin Old
  BY <1>1
<1>5. CASE t = x
  <2>1. New = Old \cup {n}
    BY <1>1, <1>2, <1>3, <1>5
  <2>2. IsFiniteSet(Old)
    BY CountFinite
  <2>3. Cardinality(New) = Cardinality(Old) + 1
    <3> HIDE DEF Old, New
    <3> QED
      BY <1>4, <2>1, <2>2, FS_AddElement
  <2> QED
    BY <1>5, <2>3 DEF Count, g
<1>6. CASE t # x
  <2>1. New = Old
    BY <1>1, <1>2, <1>3, <1>6
  <2> QED
    BY <1>6, <2>1 DEF Count, g
<1> QED
  BY <1>5, <1>6

(* The item at i of h is at p[i] of g, and r is the way back. *)
Rearranges(p, r, h, g) ==
  /\ \A i \in DOMAIN h : p[i] \in DOMAIN g /\ r[p[i]] = i /\ g[p[i]] = h[i]
  /\ \A j \in DOMAIN g : r[j] \in DOMAIN h /\ p[r[j]] = j

LEMMA CountRearranged ==
  ASSUME NEW S, NEW h \in Seq(S), NEW g \in Seq(S), NEW p, NEW r, Rearranges(p, r, h, g)
  PROVE  \A t : Count(g, t) = Count(h, t)
<1> TAKE t
<1> USE DEF Rearranges
<1> DEFINE A == {i \in DOMAIN h : h[i] = t}
           B == {j \in DOMAIN g : g[j] = t}
           f == [i \in A |-> p[i]]
<1>1. f \in [A -> B]
  OBVIOUS
<1>2. \A i, j \in A : f[i] = f[j] => i = j
  OBVIOUS
<1>3. \A j \in B : \E i \in A : f[i] = j
  <2> TAKE j \in B
  <2>1. r[j] \in A /\ f[r[j]] = j
    OBVIOUS
  <2> QED
    BY <2>1
<1> HIDE DEF f
<1>4. f \in Bijection(A, B)
  BY <1>1, <1>2, <1>3 DEF Bijection, Injection, Surjection, IsInjective
<1>5. IsFiniteSet(A)
  BY ONLY h \in Seq(S), CountFinite
<1>6. Cardinality(B) = Cardinality(A)
  <2> HIDE DEF A, B
  <2> QED
    BY <1>4, <1>5, FS_Bijection DEF ExistsBijection
<1> QED
  BY <1>6 DEF Count

LEMMA CountTail ==
  ASSUME NEW S, NEW q \in Seq(S), q # <<>>, NEW t
  PROVE  Count(q, t) = IF t = Head(q) THEN Count(Tail(q), t) + 1 ELSE Count(Tail(q), t)
<1> DEFINE x == Head(q)
           g == Append(Tail(q), x)
           n == Len(q)
           p == [i \in 1 .. n |-> IF i = 1 THEN n ELSE i - 1]
           r == [i \in 1 .. n |-> IF i = n THEN 1 ELSE i + 1]
<1>1. /\ x \in S
      /\ Tail(q) \in Seq(S)
      /\ Len(Tail(q)) = n - 1
      /\ \A i \in 1 .. Len(Tail(q)) : Tail(q)[i] = q[i + 1]
  BY HeadTailProperties
<1>2. n \in Nat /\ DOMAIN q = 1 .. n /\ n # 0
  BY LenProperties, EmptySeq
<1>3. /\ g \in Seq(S)
      /\ Len(g) = n
      /\ \A i \in 1 .. n - 1 : g[i] = q[i + 1]
      /\ g[n] = x
  <2>1. /\ g \in Seq(S)
        /\ Len(g) = n - 1 + 1
        /\ \A i \in 1 .. n - 1 : g[i] = Tail(q)[i]
        /\ g[n - 1 + 1] = x
    <3> HIDE DEF x, n
    <3> QED
      BY <1>1, AppendProperties
  <2>2. n - 1 + 1 = n
    BY <1>2
  <2> HIDE DEF g
  <2> QED
    BY <1>1, <2>1, <2>2
<1>4. DOMAIN g = 1 .. n
  BY <1>3, LenProperties
<1>5. x = q[1]
  BY <1>2
<1> HIDE DEF g, x
<1>6. p \in [1 .. n -> 1 .. n] /\ r \in [1 .. n -> 1 .. n]
  BY <1>2
<1>7. ASSUME NEW i \in 1 .. n PROVE r[p[i]] = i /\ g[p[i]] = q[i]
  <2>1. CASE i = 1
    <3>1. p[i] = n /\ n \in 1 .. n
      BY <1>2, <2>1
    <3>2. r[n] = 1
      BY <3>1
    <3> HIDE DEF p, r, n
    <3> QED
      BY <1>3, <1>5, <2>1, <3>1, <3>2
  <2>2. CASE i # 1
    <3>1. p[i] = i - 1 /\ i - 1 \in 1 .. n - 1 /\ i - 1 \in 1 .. n /\ i - 1 # n /\ i - 1 + 1 = i
      BY <1>2, <2>2
    <3>2. r[i - 1] = i
      BY <3>1
    <3> HIDE DEF p, r, n
    <3>3. g[i - 1] = q[i]
      BY <1>3, <3>1
    <3> QED
      BY <3>1, <3>2, <3>3
  <2> QED
    BY <2>1, <2>2
<1>8. ASSUME NEW j \in 1 .. n PROVE p[r[j]] = j
  <2>1. CASE j = n
    <3>1. r[j] = 1 /\ 1 \in 1 .. n
      BY <1>2, <2>1
    <3>2. p[1] = n
      BY <3>1
    <3> QED
      BY <2>1, <3>1, <3>2
  <2>2. CASE j # n
    <3>3. j + 1 \in 1 .. n /\ j + 1 # 1 /\ j + 1 - 1 = j
      <4> HIDE DEF n
      <4> QED
        BY <1>2, <2>2
    <3>1. r[j] = j + 1
      BY <2>2
    <3>2. p[j + 1] = j
      BY <3>3
    <3> QED
      BY <3>1, <3>2
  <2> QED
    BY <2>1, <2>2
<1> HIDE DEF p, r, n
<1>9. Count(g, t) = Count(q, t)
  <2>2. \A i \in DOMAIN q : p[i] \in DOMAIN g /\ r[p[i]] = i /\ g[p[i]] = q[i]
    BY <1>2, <1>4, <1>6, <1>7
  <2>3. \A j \in DOMAIN g : r[j] \in DOMAIN q /\ p[r[j]] = j
    BY <1>2, <1>4, <1>6, <1>8
  <2>4. g \in Seq(S)
    BY <1>3
  <2> QED
    <3>1. Rearranges(p, r, q, g)
      BY ONLY <2>2, <2>3 DEF Rearranges
    <3> QED
      BY <2>4, <3>1, CountRearranged
<1>10. Count(g, t) = IF t = x THEN Count(Tail(q), t) + 1 ELSE Count(Tail(q), t)
  <2>1. x \in S
    BY <1>1
  <2> DEFINE rest == Tail(q)
  <2>2. rest \in Seq(S)
    BY <1>1
  <2> HIDE DEF rest
  <2>3. Count(Append(rest, x), t) = IF t = x THEN Count(rest, t) + 1 ELSE Count(rest, t)
    BY <2>1, <2>2, CountAppend
  <2> QED
    BY <2>3 DEF rest, g
<1> QED
  BY <1>9, <1>10 DEF x

LEMMA CountSwap ==
  ASSUME NEW S, NEW h \in Seq(S), NEW i \in 1 .. Len(h), NEW j \in 1 .. Len(h)
  PROVE  /\ SwapAt(h, i, j) \in Seq(S)
         /\ Len(SwapAt(h, i, j)) = Len(h)
         /\ SwapAt(h, i, j)[i] = h[j]
         /\ SwapAt(h, i, j)[j] = h[i]
         /\ \A k \in 1 .. Len(h) : k # i /\ k # j => SwapAt(h, i, j)[k] = h[k]
         /\ \A t : Count(SwapAt(h, i, j), t) = Count(h, t)
<1> DEFINE n == Len(h)
           g == SwapAt(h, i, j)
           p == [k \in 1 .. n |-> IF k = i THEN j ELSE IF k = j THEN i ELSE k]
<1>1. DOMAIN h = 1 .. n /\ n \in Nat /\ h[i] \in S /\ h[j] \in S
  BY LenProperties, ElementOfSeq
<1>2. g = [[h EXCEPT ![i] = h[j]] EXCEPT ![j] = h[i]]
  BY DEF SwapAt
<1> DEFINE e == [h EXCEPT ![i] = h[j]]
<1>3. /\ e \in Seq(S)
      /\ Len(e) = n
      /\ \A k \in 1 .. n : e[k] = IF k = i THEN h[j] ELSE h[k]
  BY <1>1, ExceptSeq
<1>4. /\ [e EXCEPT ![j] = h[i]] \in Seq(S)
      /\ Len([e EXCEPT ![j] = h[i]]) = n
      /\ \A k \in 1 .. n : [e EXCEPT ![j] = h[i]][k] = IF k = j THEN h[i] ELSE e[k]
  <2> HIDE DEF e
  <2>1. j \in 1 .. Len(e)
    BY <1>3
  <2> QED
    BY <1>1, <1>3, <2>1, ExceptSeq
<1>5. g \in Seq(S) /\ Len(g) = n
  BY <1>2, <1>4
<1>6. \A k \in 1 .. n : g[k] = IF k = j THEN h[i] ELSE IF k = i THEN h[j] ELSE h[k]
  BY <1>2, <1>3, <1>4
<1>7. DOMAIN g = 1 .. n
  BY <1>5, LenProperties
<1> HIDE DEF g, e
<1>8. p \in [1 .. n -> 1 .. n]
  BY <1>1
<1>9. \A k \in 1 .. n : p[p[k]] = k /\ g[p[k]] = h[k]
  BY <1>1, <1>6
<1>10. \A t : Count(g, t) = Count(h, t)
  <2> HIDE DEF p
  <2>2. \A k \in DOMAIN h : p[k] \in DOMAIN g /\ p[p[k]] = k /\ g[p[k]] = h[k]
    BY <1>1, <1>7, <1>8, <1>9
  <2>3. \A k \in DOMAIN g : p[k] \in DOMAIN h /\ p[p[k]] = k
    BY <1>1, <1>7, <1>8, <1>9
  <2>4. g \in Seq(S)
    BY <1>5
  <2> QED
    <3>1. Rearranges(p, p, h, g)
      BY ONLY <2>2, <2>3 DEF Rearranges
    <3> QED
      BY <2>4, <3>1, CountRearranged
<1>11. g[i] = h[j] /\ g[j] = h[i]
  BY <1>1, <1>6
<1> QED
  BY <1>1, <1>5, <1>6, <1>10, <1>11 DEF g

-----------------------------------------------------------------------------
(* What the heap does to the items it holds: whatever it compares, it only *)
(* moves them.                                                             *)

SameItems(g, h) == Len(g) = Len(h) /\ \A t : Count(g, t) = Count(h, t)

(* A sift at work on h: a rearrangement of h and a place in it. *)
Sifting(S, h, s) ==
  /\ s \in Seq(S) \X Nat
  /\ s[2] \in 1 .. Len(s[1])
  /\ SameItems(s[1], h)

(* What every round of a loop keeps holds at its end. *)
LEMMA LoopKeeps ==
  ASSUME NEW next, NEW s, NEW P, s \in P, \A r \in P : next[r] \in P
  PROVE  \A n \in Nat : Iterated(next, s)[n] \in P
<1> DEFINE T == {n \in Nat : Iterated(next, s)[n] \in P}
<1>1. 0 \in T
  BY IteratedIs
<1>2. \A n \in Nat : n \in T => n + 1 \in T
  <2> TAKE n \in Nat
  <2>1. Iterated(next, s)[n + 1] = next[Iterated(next, s)[n]]
    BY IteratedIs
  <2> QED
    BY <2>1
<1> HIDE DEF T
<1>3. Nat \subseteq T
  BY <1>1, <1>2, Induction
<1> QED
  BY <1>3 DEF T

(* What one round passes on to the next holds after the last. *)
LEMMA LoopReaches ==
  ASSUME NEW next, NEW s, NEW m \in Nat, NEW P, s \in P[0],
         \A n \in 0 .. m - 1 : \A r \in P[n] : next[r] \in P[n + 1]
  PROVE  Iterated(next, s)[m] \in P[m]
<1> DEFINE T == {n \in Nat : n <= m => Iterated(next, s)[n] \in P[n]}
<1>1. 0 \in T
  BY IteratedIs
<1>2. ASSUME NEW n \in Nat, n \in T PROVE n + 1 \in T
  <2> SUFFICES ASSUME n + 1 <= m PROVE Iterated(next, s)[n + 1] \in P[n + 1]
    OBVIOUS
  <2>1. n <= m /\ n \in 0 .. m - 1
    OBVIOUS
  <2>2. Iterated(next, s)[n] \in P[n]
    BY <1>2, <2>1
  <2>3. Iterated(next, s)[n + 1] = next[Iterated(next, s)[n]]
    BY IteratedIs
  <2> QED
    BY <2>1, <2>2, <2>3
<1> HIDE DEF T
<1>3. m \in T
  BY <1>1, <1>2, Induction
<1> QED
  BY <1>3 DEF T

LEMMA ClimbSifts ==
  ASSUME NEW K, NEW h \in Seq(DOMAIN K), NEW s, Sifting(DOMAIN K, h, s)
  PROVE  Sifting(DOMAIN K, h, Climb(K)[s])
<1> DEFINE S == DOMAIN K
           g == s[1]
           i == s[2]
           p == ParentIdx(i)
           up == SwapAt(g, i, p)
<1>1. /\ g \in Seq(S)
      /\ i \in 1 .. Len(g)
      /\ Len(g) \in Nat
      /\ SameItems(g, h)
  BY LenProperties DEF Sifting
<1>2. Climb(K)[s] = IF i <= 1 THEN s ELSE <<IF K[g[i]] < K[g[p]] THEN up ELSE g, p>>
  <2>1. s \in Seq(S) \X Nat
    BY DEF Sifting
  <2> QED
    BY <2>1 DEF Climb
<1>3. CASE i <= 1
  BY <1>2, <1>3
<1>4. CASE ~ (i <= 1)
  <2>1. p \in 1 .. Len(g) /\ p \in Nat
    BY <1>1, <1>4 DEF ParentIdx
  <2> HIDE DEF S, g, i, p
  <2>2. up \in Seq(S) /\ Len(up) = Len(g) /\ \A t : Count(up, t) = Count(g, t)
    BY <1>1, <2>1, CountSwap
  <2> HIDE DEF up
  <2>3. SameItems(up, h)
    BY <1>1, <2>2 DEF SameItems
  <2>4. Sifting(S, h, <<up, p>>) /\ Sifting(S, h, <<g, p>>)
    BY <1>1, <2>1, <2>2, <2>3 DEF Sifting
  <2>5. Climb(K)[s] = <<up, p>> \/ Climb(K)[s] = <<g, p>>
    BY <1>2, <1>4
  <2>6. Sifting(S, h, Climb(K)[s])
    BY <2>4, <2>5
  <2> QED
    BY <2>6 DEF S
<1> QED
  BY <1>3, <1>4

LEMMA SinkSifts ==
  ASSUME NEW K, NEW h \in Seq(DOMAIN K), NEW s, Sifting(DOMAIN K, h, s)
  PROVE  Sifting(DOMAIN K, h, Sink(K)[s])
<1> DEFINE S == DOMAIN K
           g == s[1]
           i == s[2]
           m == SmallestAt(g, i, K)
           down == SwapAt(g, i, m)
<1>1. /\ g \in Seq(S)
      /\ i \in 1 .. Len(g)
      /\ Len(g) \in Nat
      /\ SameItems(g, h)
  BY LenProperties DEF Sifting
<1>2. Sink(K)[s] = IF m = i THEN s ELSE <<down, m>>
  <2>1. s \in Seq(S) \X Nat
    BY DEF Sifting
  <2> QED
    BY <2>1 DEF Sink
<1>3. CASE m = i
  BY <1>2, <1>3
<1>4. CASE m # i
  <2>1. m \in 1 .. Len(g) /\ m \in Nat
    <3>1. m \in {i, ChildIdx1(i), ChildIdx2(i)}
      BY DEF SmallestAt
    <3>2. m # i => m <= Len(g)
      BY DEF SmallestAt
    <3>3. ChildIdx1(i) \in Nat \ {0} /\ ChildIdx2(i) \in Nat \ {0}
      BY <1>1 DEF ChildIdx1, ChildIdx2
    <3> HIDE DEF m, g, i
    <3> QED
      BY <1>1, <1>4, <3>1, <3>2, <3>3
  <2> HIDE DEF S, g, i, m
  <2>2. down \in Seq(S) /\ Len(down) = Len(g) /\ \A t : Count(down, t) = Count(g, t)
    BY <1>1, <2>1, CountSwap
  <2> HIDE DEF down
  <2>3. SameItems(down, h)
    BY <1>1, <2>2 DEF SameItems
  <2>4. Sifting(S, h, <<down, m>>)
    BY <1>1, <2>1, <2>2, <2>3 DEF Sifting
  <2>5. Sifting(S, h, Sink(K)[s])
    BY <1>2, <1>4, <2>4
  <2> QED
    BY <2>5 DEF S
<1> QED
  BY <1>3, <1>4

LEMMA SiftsKeep ==
  ASSUME NEW K, NEW h \in Seq(DOMAIN K), NEW i \in 1 .. Len(h)
  PROVE  /\ SiftUp(h, i, K) \in Seq(DOMAIN K)
         /\ SameItems(SiftUp(h, i, K), h)
         /\ SiftDown(h, i, K) \in Seq(DOMAIN K)
         /\ SameItems(SiftDown(h, i, K), h)
<1> DEFINE S == DOMAIN K
           P == {s \in Seq(S) \X Nat : Sifting(S, h, s)}
<1>1. Len(h) \in Nat
  BY LenProperties
<1>2. <<h, i>> \in P
  BY <1>1 DEF Sifting, SameItems
<1>3. \A s \in P : Climb(K)[s] \in P
  <2> TAKE s \in P
  <2>1. Sifting(S, h, Climb(K)[s])
    BY ClimbSifts
  <2> QED
    BY <2>1 DEF Sifting
<1>4. \A s \in P : Sink(K)[s] \in P
  <2> TAKE s \in P
  <2>1. Sifting(S, h, Sink(K)[s])
    BY SinkSifts
  <2> QED
    BY <2>1 DEF Sifting
<1> HIDE DEF P
<1>5. Iterated(Climb(K), <<h, i>>)[i] \in P
  <2>1. i \in Nat
    BY <1>1
  <2> QED
    BY <1>2, <1>3, <2>1, LoopKeeps
<1>6. Iterated(Sink(K), <<h, i>>)[Len(h)] \in P
  BY <1>1, <1>2, <1>4, LoopKeeps
<1>7. \A s \in P : s[1] \in Seq(S) /\ SameItems(s[1], h)
  BY DEF P, Sifting
<1> QED
  BY <1>5, <1>6, <1>7 DEF SiftUp, SiftDown

LEMMA HeapAddKeeps ==
  ASSUME NEW K, NEW h \in Seq(DOMAIN K), NEW x \in DOMAIN K
  PROVE  /\ HeapAdd(h, x, K) \in Seq(DOMAIN K)
         /\ Len(HeapAdd(h, x, K)) = Len(h) + 1
         /\ \A t : Count(HeapAdd(h, x, K), t) =
                     IF t = x THEN Count(h, t) + 1 ELSE Count(h, t)
<1> DEFINE S == DOMAIN K
           g == Append(h, x)
           n == Len(h) + 1
<1>1. Len(h) \in Nat
  BY LenProperties
<1>2. g \in Seq(S) /\ Len(g) = n
  BY AppendProperties
<1>3. \A t : Count(g, t) = IF t = x THEN Count(h, t) + 1 ELSE Count(h, t)
  BY CountAppend
<1>4. n \in 1 .. Len(g)
  BY <1>1, <1>2
<1>5. HeapAdd(h, x, K) = SiftUp(g, n, K)
  BY DEF HeapAdd
<1> HIDE DEF g, n
<1>6. SiftUp(g, n, K) \in Seq(S) /\ SameItems(SiftUp(g, n, K), g)
  BY <1>2, <1>4, SiftsKeep
<1>7. Len(SiftUp(g, n, K)) = n /\ \A t : Count(SiftUp(g, n, K), t) = Count(g, t)
  BY <1>2, <1>6 DEF SameItems
<1>8. n = Len(h) + 1
  BY DEF n
<1> QED
  BY <1>3, <1>5, <1>6, <1>7, <1>8

LEMMA HeapIdxFinds ==
  ASSUME NEW S, NEW h \in Seq(S), NEW x, InHeap(h, x)
  PROVE  HeapIdx(h, x) \in 1 .. Len(h) /\ h[HeapIdx(h, x)] = x
<1> DEFINE At == {i \in Nat : i \in DOMAIN h /\ h[i] = x}
<1>1. DOMAIN h = 1 .. Len(h) /\ Len(h) \in Nat
  BY LenProperties
<1>2. At \subseteq Nat /\ At # {}
  BY <1>1 DEF InHeap
<1>3. PICK i \in At : \A j \in At : i <= j
  <2> HIDE DEF At
  <2> QED
    BY <1>2, Least
<1>4. i \in DOMAIN h /\ h[i] = x /\ \A j \in 1 .. (i - 1) : h[j] # x
  <2>1. \A j \in 1 .. (i - 1) : j \in DOMAIN h /\ j \in Nat /\ ~ (i <= j)
    BY <1>1, <1>3
  <2> QED
    BY <1>3, <2>1
<1>5. HeapIdx(h, x) \in DOMAIN h /\ h[HeapIdx(h, x)] = x
  BY <1>4 DEF HeapIdx
<1> QED
  BY <1>1, <1>5

(* The last item in the place of another. *)
LEMMA LastInPlace ==
  ASSUME NEW S, NEW h \in Seq(S), NEW idx \in 1 .. Len(h), NEW n \in Nat, n + 1 = Len(h)
  PROVE  LET cut == SubSeq([h EXCEPT ![idx] = h[n + 1]], 1, n)
         IN  /\ cut \in Seq(S)
             /\ Len(cut) = n
             /\ \A k \in 1 .. n : cut[k] = IF k = idx THEN h[n + 1] ELSE h[k]
<1> DEFINE e == [h EXCEPT ![idx] = h[n + 1]]
           cut == SubSeq(e, 1, n)
<1>1. DOMAIN h = 1 .. Len(h) /\ Len(h) \in Nat /\ n + 1 \in 1 .. Len(h)
  BY LenProperties
<1>2. h[n + 1] \in S
  BY <1>1, ElementOfSeq
<1>3. /\ e \in Seq(S)
      /\ Len(e) = Len(h)
      /\ \A k \in 1 .. Len(h) : e[k] = IF k = idx THEN h[n + 1] ELSE h[k]
  BY <1>2, ExceptSeq
<1> HIDE DEF e
<1>4. \A k \in 1 .. n : e[k] \in S
  BY <1>1, <1>3, ElementOfSeq
<1>5. /\ SubSeq(e, 1, n) \in Seq(S)
      /\ Len(SubSeq(e, 1, n)) = IF 1 <= n THEN n - 1 + 1 ELSE 0
      /\ \A k \in 1 .. n - 1 + 1 : SubSeq(e, 1, n)[k] = e[1 + k - 1]
  BY <1>4, SubSeqProperties
<1>6. n - 1 + 1 = n /\ \A k \in 1 .. n : 1 + k - 1 = k
  OBVIOUS
<1> HIDE DEF cut
<1>7. Len(SubSeq(e, 1, n)) = n
  BY <1>5, <1>6
<1>8. \A k \in 1 .. n : SubSeq(e, 1, n)[k] = e[k]
  BY <1>5, <1>6
<1>9. \A k \in 1 .. n : SubSeq(e, 1, n)[k] = IF k = idx THEN h[n + 1] ELSE h[k]
  BY <1>1, <1>3, <1>8
<1> QED
  BY <1>5, <1>7, <1>9 DEF cut, e

LEMMA HeapRemoveKeeps ==
  ASSUME NEW K, NEW h \in Seq(DOMAIN K), NEW x \in DOMAIN K, InHeap(h, x)
  PROVE  /\ HeapRemove(h, x, K) \in Seq(DOMAIN K)
         /\ Len(HeapRemove(h, x, K)) = Len(h) - 1
         /\ \A t : Count(h, t) =
                     IF t = x THEN Count(HeapRemove(h, x, K), t) + 1
                     ELSE Count(HeapRemove(h, x, K), t)
<1> DEFINE S == DOMAIN K
           idx == HeapIdx(h, x)
           n == Len(h) - 1
           cut == SubSeq([h EXCEPT ![idx] = h[n + 1]], 1, n)
           sw == SwapAt(h, idx, n + 1)
<1>1. DOMAIN h = 1 .. Len(h) /\ Len(h) \in Nat
  BY LenProperties
<1>2. idx \in 1 .. Len(h) /\ h[idx] = x
  BY HeapIdxFinds
<1>3. n \in Nat /\ n + 1 = Len(h) /\ n + 1 \in 1 .. Len(h)
  BY <1>1, <1>2
<1>9. HeapRemove(h, x, K) = IF idx > n THEN cut ELSE SiftDown(cut, idx, K)
  BY DEF HeapRemove
<1> HIDE DEF idx, n
<1>4. /\ sw \in Seq(S)
      /\ Len(sw) = n + 1
      /\ sw[n + 1] = x
      /\ \A t : Count(sw, t) = Count(h, t)
  <2>1. /\ SwapAt(h, idx, n + 1) \in Seq(S)
        /\ Len(SwapAt(h, idx, n + 1)) = Len(h)
        /\ SwapAt(h, idx, n + 1)[n + 1] = h[idx]
        /\ \A t : Count(SwapAt(h, idx, n + 1), t) = Count(h, t)
    BY <1>2, <1>3, CountSwap
  <2> QED
    BY <1>2, <1>3, <2>1
<1>5. /\ sw[idx] = h[n + 1]
      /\ \A k \in 1 .. Len(h) : k # idx /\ k # n + 1 => sw[k] = h[k]
  <2> DEFINE last == n + 1
  <2>1. idx \in 1 .. Len(h) /\ last \in 1 .. Len(h)
    BY <1>2, <1>3
  <2> HIDE DEF last
  <2>2. SwapAt(h, idx, last)[idx] = h[last]
    BY <2>1, CountSwap
  <2>3. \A k \in 1 .. Len(h) : k # idx /\ k # last => SwapAt(h, idx, last)[k] = h[k]
    BY <2>1, CountSwap
  <2> QED
    BY <2>2, <2>3 DEF last
<1>8. /\ cut \in Seq(S)
      /\ Len(cut) = n
      /\ \A k \in 1 .. n : cut[k] = IF k = idx THEN h[n + 1] ELSE h[k]
  BY <1>2, <1>3, LastInPlace
<1> HIDE DEF sw
<1> HIDE DEF cut
<1> DEFINE back == Append(cut, x)
<1>10. sw = back
  <2>1. /\ back \in Seq(S)
        /\ Len(back) = n + 1
        /\ \A k \in 1 .. n : back[k] = cut[k]
        /\ back[n + 1] = x
    BY <1>8, AppendProperties
  <2> HIDE DEF back
  <2>2. ASSUME NEW k \in 1 .. n + 1 PROVE sw[k] = back[k]
    <3>1. CASE k = n + 1
      BY <1>4, <2>1, <3>1
    <3>2. CASE k # n + 1
      <4>1. k \in 1 .. n /\ k \in 1 .. Len(h)
        BY <1>3, <3>2
      <4>2. back[k] = IF k = idx THEN h[n + 1] ELSE h[k]
        BY <1>8, <2>1, <4>1
      <4> QED
        BY <1>5, <3>2, <4>1, <4>2
    <3> QED
      BY <3>1, <3>2
  <2> QED
    BY <1>4, <2>1, <2>2, SeqEqual
<1>11. \A t : Count(h, t) = IF t = x THEN Count(cut, t) + 1 ELSE Count(cut, t)
  <2> TAKE t
  <2>1. Count(back, t) = IF t = x THEN Count(cut, t) + 1 ELSE Count(cut, t)
    BY <1>8, CountAppend
  <2> HIDE DEF back
  <2> QED
    BY <1>4, <1>10, <2>1
<1>12. CASE idx > n
  BY <1>3, <1>8, <1>9, <1>11, <1>12 DEF n
<1>13. CASE ~ (idx > n)
  <2>1. idx \in 1 .. Len(cut)
    BY <1>2, <1>3, <1>8, <1>13
  <2>2. SiftDown(cut, idx, K) \in Seq(S) /\ SameItems(SiftDown(cut, idx, K), cut)
    BY <1>8, <2>1, SiftsKeep
  <2>3. HeapRemove(h, x, K) = SiftDown(cut, idx, K)
    BY <1>9, <1>13
  <2>4. Len(HeapRemove(h, x, K)) = n /\ \A t : Count(HeapRemove(h, x, K), t) = Count(cut, t)
    BY <1>8, <2>2, <2>3 DEF SameItems
  <2> QED
    BY <1>11, <2>2, <2>3, <2>4 DEF n
<1> QED
  BY <1>12, <1>13

LEMMA HeapTopIn ==
  ASSUME NEW S, NEW h \in Seq(S), h # <<>>
  PROVE  HeapTop(h) \in S /\ InHeap(h, HeapTop(h))
<1>1. Len(h) \in Nat \ {0} /\ DOMAIN h = 1 .. Len(h)
  BY EmptySeq, LenProperties
<1>2. 1 \in DOMAIN h /\ h[1] \in S
  BY <1>1, ElementOfSeq
<1> QED
  BY <1>2 DEF HeapTop, InHeap

-----------------------------------------------------------------------------
(* The order of the heap.                                                  *)

(* No item is smaller than its parent. *)
Ordered(h, K) == \A j \in 2 .. Len(h) : K[h[ParentIdx(j)]] <= K[h[j]]

(* Ordered but that the item at i may be smaller than its parent. *)
OrderedAbove(h, i, K) ==
  /\ \A j \in 2 .. Len(h) : j # i => K[h[ParentIdx(j)]] <= K[h[j]]
  /\ i > 1 => \A j \in 2 .. Len(h) : ParentIdx(j) = i => K[h[ParentIdx(i)]] <= K[h[j]]

(* Ordered but that the item at i may be larger than its children. *)
OrderedBelow(h, i, K) ==
  /\ \A j \in 2 .. Len(h) : ParentIdx(j) # i => K[h[ParentIdx(j)]] <= K[h[j]]
  /\ i > 1 => \A j \in 2 .. Len(h) : ParentIdx(j) = i => K[h[ParentIdx(i)]] <= K[h[j]]

LEMMA ParentIdxIs ==
  ASSUME NEW j \in Nat, j >= 2
  PROVE  /\ ParentIdx(j) \in 1 .. j - 1
         /\ \A i \in Nat : ParentIdx(j) = i <=> j = ChildIdx1(i) \/ j = ChildIdx2(i)
BY DEF ParentIdx, ChildIdx1, ChildIdx2

LEMMA SmallestAtIs ==
  ASSUME NEW K, K \in [DOMAIN K -> Nat], NEW h \in Seq(DOMAIN K), NEW i \in 1 .. Len(h)
  PROVE  /\ SmallestAt(h, i, K) \in 1 .. Len(h)
         /\ \/ SmallestAt(h, i, K) = i
            \/ /\ SmallestAt(h, i, K) >= 2
               /\ ParentIdx(SmallestAt(h, i, K)) = i
               /\ K[h[SmallestAt(h, i, K)]] < K[h[i]]
         /\ \A j \in 2 .. Len(h) :
              ParentIdx(j) = i => K[h[SmallestAt(h, i, K)]] <= K[h[j]]
<1> DEFINE First(a, b) == IF b <= Len(h) /\ K[h[b]] < K[h[a]] THEN b ELSE a
           c == ChildIdx1(i)
           d == ChildIdx2(i)
           a == First(i, c)
           m == First(a, d)
<1>1. DOMAIN h = 1 .. Len(h) /\ Len(h) \in Nat
  BY LenProperties
<1>2. \A j \in 1 .. Len(h) : K[h[j]] \in Nat
  <2> TAKE j \in 1 .. Len(h)
  <2>1. h[j] \in DOMAIN K
    BY ElementOfSeq
  <2> QED
    BY <2>1
<1>3. c \in Nat /\ d \in Nat /\ c >= 2 /\ d >= 2
  BY <1>1 DEF ChildIdx1, ChildIdx2
<1>4. ParentIdx(c) = i /\ ParentIdx(d) = i
  <2>1. i \in Nat
    BY <1>1
  <2> QED
    BY <1>3, <2>1, ParentIdxIs
<1>5. \A j \in 2 .. Len(h) : ParentIdx(j) = i => j = c \/ j = d
  <2> TAKE j \in 2 .. Len(h)
  <2>1. i \in Nat /\ j \in Nat /\ j >= 2
    BY <1>1
  <2> QED
    BY <2>1, ParentIdxIs
<1> HIDE DEF c, d
<1>6. /\ a \in 1 .. Len(h)
      /\ a = i \/ (a = c /\ K[h[c]] < K[h[i]])
      /\ K[h[a]] <= K[h[i]]
      /\ c <= Len(h) => K[h[a]] <= K[h[c]]
  BY <1>1, <1>2, <1>3
<1> HIDE DEF a
<1>7. /\ m \in 1 .. Len(h)
      /\ m = a \/ (m = d /\ K[h[d]] < K[h[a]])
      /\ K[h[m]] <= K[h[a]]
      /\ d <= Len(h) => K[h[m]] <= K[h[d]]
  BY <1>1, <1>2, <1>3, <1>6
<1>8. SmallestAt(h, i, K) = m
  BY DEF SmallestAt, m, a, c, d
<1> HIDE DEF m
<1>9. m = i \/ (m >= 2 /\ ParentIdx(m) = i /\ K[h[m]] < K[h[i]])
  <2>1. CASE m = a
    BY <1>3, <1>4, <1>6, <2>1
  <2>2. CASE m # a
    <3>1. m = d /\ K[h[m]] < K[h[a]] /\ K[h[a]] <= K[h[i]]
      BY <1>6, <1>7, <2>2
    <3>2. K[h[m]] \in Nat /\ K[h[a]] \in Nat /\ K[h[i]] \in Nat
      BY <1>2, <1>6, <1>7
    <3> QED
      BY <1>3, <1>4, <3>1, <3>2
  <2> QED
    BY <2>1, <2>2
<1>10. ASSUME NEW j \in 2 .. Len(h), ParentIdx(j) = i PROVE K[h[m]] <= K[h[j]]
  <2>1. K[h[m]] \in Nat /\ K[h[a]] \in Nat /\ K[h[j]] \in Nat
    BY <1>1, <1>2, <1>6, <1>7
  <2>2. j = c \/ j = d
    BY <1>5, <1>10
  <2> QED
    BY <1>1, <1>6, <1>7, <2>1, <2>2
<1> QED
  BY <1>7, <1>8, <1>9, <1>10

(* The keys at the places of a heap. *)
Keys(h, K) == [j \in 1 .. Len(h) |-> K[h[j]]]

LEMMA KeysAre ==
  ASSUME NEW K, K \in [DOMAIN K -> Nat], NEW h \in Seq(DOMAIN K)
  PROVE  /\ \A j \in 1 .. Len(h) : Keys(h, K)[j] = K[h[j]]
         /\ \A j \in 1 .. Len(h) : Keys(h, K)[j] \in Nat
<1>1. \A j \in 1 .. Len(h) : h[j] \in DOMAIN K
  BY ElementOfSeq
<1> QED
  BY <1>1 DEF Keys

LEMMA KeysSwapped ==
  ASSUME NEW K, K \in [DOMAIN K -> Nat], NEW g \in Seq(DOMAIN K),
         NEW i \in 1 .. Len(g), NEW m \in 1 .. Len(g)
  PROVE  \A j \in 1 .. Len(g) :
           Keys(SwapAt(g, i, m), K)[j] = IF j = i THEN Keys(g, K)[m]
                                         ELSE IF j = m THEN Keys(g, K)[i] ELSE Keys(g, K)[j]
<1> DEFINE w == SwapAt(g, i, m)
<1>1. w \in Seq(DOMAIN K) /\ Len(w) = Len(g)
  BY CountSwap
<1>2. w[i] = g[m] /\ w[m] = g[i]
  <2>1. SwapAt(g, i, m)[i] = g[m]
    BY CountSwap
  <2>2. SwapAt(g, i, m)[m] = g[i]
    BY CountSwap
  <2> QED
    BY <2>1, <2>2
<1>3. \A k \in 1 .. Len(g) : k # i /\ k # m => w[k] = g[k]
  BY CountSwap
<1> HIDE DEF w
<1>4. \A j \in 1 .. Len(g) : Keys(w, K)[j] = K[w[j]] /\ Keys(g, K)[j] = K[g[j]]
  BY <1>1, KeysAre
<1>5. \A j \in 1 .. Len(g) :
         Keys(w, K)[j] = IF j = i THEN Keys(g, K)[m]
                         ELSE IF j = m THEN Keys(g, K)[i] ELSE Keys(g, K)[j]
  BY <1>2, <1>3, <1>4
<1> QED
  BY <1>5 DEF w

(* The orders, of the keys. *)
LEMMA OrderOfKeys ==
  ASSUME NEW K, K \in [DOMAIN K -> Nat], NEW h \in Seq(DOMAIN K), NEW i \in 1 .. Len(h)
  PROVE  /\ Ordered(h, K) <=> \A j \in 2 .. Len(h) : Keys(h, K)[ParentIdx(j)] <= Keys(h, K)[j]
         /\ OrderedAbove(h, i, K) <=>
              /\ \A j \in 2 .. Len(h) : j # i => Keys(h, K)[ParentIdx(j)] <= Keys(h, K)[j]
              /\ i > 1 => \A j \in 2 .. Len(h) :
                            ParentIdx(j) = i => Keys(h, K)[ParentIdx(i)] <= Keys(h, K)[j]
         /\ OrderedBelow(h, i, K) <=>
              /\ \A j \in 2 .. Len(h) :
                   ParentIdx(j) # i => Keys(h, K)[ParentIdx(j)] <= Keys(h, K)[j]
              /\ i > 1 => \A j \in 2 .. Len(h) :
                            ParentIdx(j) = i => Keys(h, K)[ParentIdx(i)] <= Keys(h, K)[j]
<1>1. \A j \in 1 .. Len(h) : Keys(h, K)[j] = K[h[j]]
  BY KeysAre
<1>2. Len(h) \in Nat
  BY LenProperties
<1>3. ASSUME NEW j \in 2 .. Len(h)
      PROVE  /\ j \in 1 .. Len(h) /\ ParentIdx(j) \in 1 .. Len(h)
             /\ Keys(h, K)[j] = K[h[j]]
             /\ Keys(h, K)[ParentIdx(j)] = K[h[ParentIdx(j)]]
  <2>1. j \in Nat /\ j >= 2 /\ j \in 1 .. Len(h)
    BY <1>2
  <2>2. ParentIdx(j) \in 1 .. Len(h)
    BY <1>2, <2>1, ParentIdxIs
  <2> QED
    BY <1>1, <2>1, <2>2
<1>4. i > 1 => i \in 2 .. Len(h)
  BY <1>2
<1>5. i > 1 => Keys(h, K)[ParentIdx(i)] = K[h[ParentIdx(i)]]
  BY <1>3, <1>4
<1>6. Ordered(h, K) <=> \A j \in 2 .. Len(h) : Keys(h, K)[ParentIdx(j)] <= Keys(h, K)[j]
  BY <1>3 DEF Ordered
<1>7. /\ (\A j \in 2 .. Len(h) : j # i => K[h[ParentIdx(j)]] <= K[h[j]])
        <=> (\A j \in 2 .. Len(h) : j # i => Keys(h, K)[ParentIdx(j)] <= Keys(h, K)[j])
      /\ (\A j \in 2 .. Len(h) : ParentIdx(j) # i => K[h[ParentIdx(j)]] <= K[h[j]])
        <=> (\A j \in 2 .. Len(h) : ParentIdx(j) # i => Keys(h, K)[ParentIdx(j)] <= Keys(h, K)[j])
      /\ i > 1 =>
           ((\A j \in 2 .. Len(h) : ParentIdx(j) = i => K[h[ParentIdx(i)]] <= K[h[j]])
             <=> (\A j \in 2 .. Len(h) :
                    ParentIdx(j) = i => Keys(h, K)[ParentIdx(i)] <= Keys(h, K)[j]))
  BY <1>3, <1>5
<1> QED
  BY <1>6, <1>7 DEF OrderedAbove, OrderedBelow

(* The parent of a place that is not the root. *)
LEMMA ParentIn ==
  ASSUME NEW n \in Nat, NEW j \in 2 .. n
  PROVE  ParentIdx(j) \in 1 .. j - 1 /\ ParentIdx(j) \in 1 .. n /\ j \in 1 .. n
<1>1. j \in Nat /\ j >= 2
  OBVIOUS
<1>2. ParentIdx(j) \in 1 .. j - 1
  BY <1>1, ParentIdxIs
<1> QED
  BY <1>1, <1>2

(* One round of each sift on the keys alone: v before and w after the *)
(* exchange of places i and m. *)
Exchanged(n, v, w, i, m) ==
  /\ \A j \in 1 .. n : v[j] \in Nat
  /\ \A j \in 1 .. n : w[j] = IF j = i THEN v[m] ELSE IF j = m THEN v[i] ELSE v[j]

LEMMA UpOrders ==
  ASSUME NEW n \in Nat, NEW v, NEW w, NEW i \in 2 .. n, NEW p, p = ParentIdx(i),
         Exchanged(n, v, w, i, p),
         v[i] < v[p],
         \A j \in 2 .. n : j # i => v[ParentIdx(j)] <= v[j],
         \A j \in 2 .. n : ParentIdx(j) = i => v[p] <= v[j]
  PROVE  /\ \A j \in 2 .. n : j # p => w[ParentIdx(j)] <= w[j]
         /\ p > 1 => \A j \in 2 .. n : ParentIdx(j) = p => w[ParentIdx(p)] <= w[j]
<1> USE DEF Exchanged
<1>1. p \in 1 .. i - 1 /\ p \in 1 .. n /\ i \in 1 .. n
  BY ParentIn
<1>2. ASSUME NEW j \in 2 .. n, j # p PROVE w[ParentIdx(j)] <= w[j]
  <2>1. ParentIdx(j) \in 1 .. j - 1 /\ ParentIdx(j) \in 1 .. n /\ j \in 1 .. n
    BY ParentIn
  <2>2. CASE j = i
    <3>1. w[ParentIdx(j)] = v[i] /\ w[j] = v[p]
      BY <1>1, <2>2
    <3> QED
      BY <1>1, <3>1
  <2>3. CASE j # i
    <3>1. w[j] = v[j] /\ v[ParentIdx(j)] <= v[j]
      BY <1>2, <2>1, <2>3
    <3>2. CASE ParentIdx(j) = i
      <4>1. w[ParentIdx(j)] = v[p] /\ v[p] <= v[j]
        BY <1>1, <3>2
      <4> QED
        BY <3>1, <4>1
    <3>3. CASE ParentIdx(j) = p
      <4>1. w[ParentIdx(j)] = v[i]
        BY <1>1, <3>3
      <4>2. v[i] \in Nat /\ v[p] \in Nat /\ v[j] \in Nat /\ v[p] <= v[j]
        BY <1>1, <2>1, <3>1, <3>3
      <4> QED
        BY <3>1, <4>1, <4>2
    <3>4. CASE ParentIdx(j) # i /\ ParentIdx(j) # p
      BY <2>1, <3>1, <3>4
    <3> QED
      BY <3>2, <3>3, <3>4
  <2> QED
    BY <2>2, <2>3
<1>3. ASSUME p > 1, NEW j \in 2 .. n, ParentIdx(j) = p PROVE w[ParentIdx(p)] <= w[j]
  <2>1. p \in 2 .. n /\ p # i /\ j # p /\ j \in 1 .. n
    <3>1. ParentIdx(j) \in 1 .. j - 1
      BY ParentIn
    <3> QED
      BY <1>1, <1>3, <3>1
  <2>2. ParentIdx(p) \in 1 .. p - 1 /\ ParentIdx(p) \in 1 .. n
    BY <2>1, ParentIn
  <2>3. w[ParentIdx(p)] = v[ParentIdx(p)]
    <3>1. ParentIdx(p) # p /\ ParentIdx(p) # i
      BY <1>1, <2>2
    <3> QED
      BY <2>2, <3>1
  <2>4. v[ParentIdx(p)] <= v[p]
    BY <2>1
  <2>5. v[p] <= w[j]
    <3>1. CASE j = i
      BY <1>1, <3>1
    <3>2. CASE j # i
      BY <1>3, <2>1, <3>2
    <3> QED
      BY <3>1, <3>2
  <2>6. w[j] \in Nat /\ v[p] \in Nat /\ v[ParentIdx(p)] \in Nat
    BY <1>1, <2>1, <2>2
  <2> QED
    BY <2>3, <2>4, <2>5, <2>6
<1> QED
  BY <1>2, <1>3

LEMMA DownOrders ==
  ASSUME NEW n \in Nat, NEW v, NEW w, NEW m \in 2 .. n, NEW i, i = ParentIdx(m),
         Exchanged(n, v, w, i, m),
         v[m] < v[i],
         \A j \in 2 .. n : ParentIdx(j) = i => v[m] <= v[j],
         \A j \in 2 .. n : ParentIdx(j) # i => v[ParentIdx(j)] <= v[j],
         i > 1 => \A j \in 2 .. n : ParentIdx(j) = i => v[ParentIdx(i)] <= v[j]
  PROVE  /\ \A j \in 2 .. n : ParentIdx(j) # m => w[ParentIdx(j)] <= w[j]
         /\ \A j \in 2 .. n : ParentIdx(j) = m => w[i] <= w[j]
<1> USE DEF Exchanged
<1>1. i \in 1 .. m - 1 /\ i \in 1 .. n /\ m \in 1 .. n
  BY ParentIn
<1>2. ASSUME NEW j \in 2 .. n, ParentIdx(j) # m PROVE w[ParentIdx(j)] <= w[j]
  <2>1. ParentIdx(j) \in 1 .. j - 1 /\ ParentIdx(j) \in 1 .. n /\ j \in 1 .. n
    BY ParentIn
  <2>2. CASE j = m
    <3>1. w[ParentIdx(j)] = v[m] /\ w[j] = v[i]
      BY <1>1, <2>2
    <3> QED
      BY <1>1, <3>1
  <2>3. CASE j = i
    <3>1. w[j] = v[m]
      BY <1>1, <2>3
    <3>2. w[ParentIdx(j)] = v[ParentIdx(j)]
      BY <1>1, <1>2, <2>1, <2>3
    <3>3. i > 1 /\ v[ParentIdx(i)] <= v[m]
      BY <2>3
    <3> QED
      BY <2>3, <3>1, <3>2, <3>3
  <2>4. CASE j # m /\ j # i
    <3>1. w[j] = v[j]
      BY <2>1, <2>4
    <3>2. CASE ParentIdx(j) = i
      <4>1. w[ParentIdx(j)] = v[m] /\ v[m] <= v[j]
        BY <1>1, <3>2
      <4> QED
        BY <3>1, <4>1
    <3>3. CASE ParentIdx(j) # i
      <4>1. w[ParentIdx(j)] = v[ParentIdx(j)]
        BY <1>2, <2>1, <3>3
      <4> QED
        BY <3>1, <3>3, <4>1
    <3> QED
      BY <3>2, <3>3
  <2> QED
    BY <2>2, <2>3, <2>4
<1>3. ASSUME NEW j \in 2 .. n, ParentIdx(j) = m PROVE w[i] <= w[j]
  <2>1. j \in 1 .. n /\ j # m /\ j # i
    <3>1. ParentIdx(j) \in 1 .. j - 1 /\ j \in 1 .. n
      BY ParentIn
    <3> QED
      BY <1>1, <1>3, <3>1
  <2>2. w[i] = v[m] /\ w[j] = v[j]
    BY <1>1, <2>1
  <2>3. ParentIdx(j) # i
    BY <1>1, <1>3
  <2>4. v[ParentIdx(j)] <= v[j]
    BY <2>3
  <2> QED
    BY <1>3, <2>2, <2>4
<1> QED
  BY <1>2, <1>3

(* The sifts as loops. *)
LEMMA ClimbOrders ==
  ASSUME NEW K, K \in [DOMAIN K -> Nat], NEW g \in Seq(DOMAIN K), NEW i \in 2 .. Len(g),
         OrderedAbove(g, i, K)
  PROVE  \E w \in Seq(DOMAIN K) :
           /\ Climb(K)[<<g, i>>] = <<w, ParentIdx(i)>>
           /\ Len(w) = Len(g)
           /\ ParentIdx(i) \in 1 .. i - 1
           /\ OrderedAbove(w, ParentIdx(i), K)
<1> DEFINE S == DOMAIN K
           p == ParentIdx(i)
           w == SwapAt(g, i, p)
           v == Keys(g, K)
           v2 == Keys(w, K)
<1>1. Len(g) \in Nat /\ i \in Nat /\ i > 1
  BY LenProperties
<1>2. p \in 1 .. i - 1 /\ p \in 1 .. Len(g) /\ i \in 1 .. Len(g)
  BY <1>1, ParentIn
<1>3. Climb(K)[<<g, i>>] = <<IF K[g[i]] < K[g[p]] THEN w ELSE g, p>>
  <2>1. <<g, i>> \in Seq(S) \X Nat /\ ~ (i <= 1)
    BY <1>1
  <2>2. Climb(K)[<<g, i>>] = LET h == <<g, i>>[1]
                                 k == <<g, i>>[2]
                                 q == ParentIdx(k)
                             IN  IF k <= 1 THEN <<g, i>>
                                 ELSE <<IF K[h[k]] < K[h[q]] THEN SwapAt(h, k, q) ELSE h, q>>
    BY <2>1 DEF Climb
  <2>3. <<g, i>>[1] = g /\ <<g, i>>[2] = i
    OBVIOUS
  <2> QED
    BY <2>1, <2>2, <2>3
<1>4. v[i] = K[g[i]] /\ v[p] = K[g[p]] /\ \A j \in 1 .. Len(g) : v[j] \in Nat
  <2> HIDE DEF p
  <2> QED
    BY <1>2, KeysAre
<1>5. /\ \A j \in 2 .. Len(g) : j # i => v[ParentIdx(j)] <= v[j]
      /\ \A j \in 2 .. Len(g) : ParentIdx(j) = i => v[p] <= v[j]
  <2>1. /\ \A j \in 2 .. Len(g) : j # i => Keys(g, K)[ParentIdx(j)] <= Keys(g, K)[j]
        /\ i > 1 => \A j \in 2 .. Len(g) :
                      ParentIdx(j) = i => Keys(g, K)[ParentIdx(i)] <= Keys(g, K)[j]
    BY <1>2, OrderOfKeys
  <2> QED
    BY <1>1, <2>1
<1>6. CASE v[i] < v[p]
  <2>1. w \in Seq(S) /\ Len(w) = Len(g)
    <3> HIDE DEF p
    <3> QED
      BY <1>2, CountSwap
  <2>2. \A j \in 1 .. Len(g) : v2[j] = IF j = i THEN v[p] ELSE IF j = p THEN v[i] ELSE v[j]
    <3> HIDE DEF p
    <3> QED
      BY <1>2, KeysSwapped
  <2>3. p = ParentIdx(i)
    OBVIOUS
  <2> HIDE DEF v, v2, p
  <2>4. /\ \A j \in 2 .. Len(g) : j # p => v2[ParentIdx(j)] <= v2[j]
        /\ p > 1 => \A j \in 2 .. Len(g) : ParentIdx(j) = p => v2[ParentIdx(p)] <= v2[j]
    <3>1. Exchanged(Len(g), v, v2, i, p)
      BY <1>4, <2>2 DEF Exchanged
    <3> HIDE DEF p
    <3>2. /\ Len(g) \in Nat
          /\ i \in 2 .. Len(g)
          /\ p = ParentIdx(i)
          /\ v[i] < v[p]
      BY <1>1, <1>6, <2>3
    <3> QED
      BY <1>5, <3>1, <3>2, UpOrders
  <2> HIDE DEF w
  <2>5. OrderedAbove(w, p, K)
    BY <1>2, <2>1, <2>4, OrderOfKeys DEF v2
  <2>6. Climb(K)[<<g, i>>] = <<w, p>>
    BY <1>3, <1>4, <1>6
  <2> QED
    BY <1>2, <2>1, <2>3, <2>5, <2>6
<1>7. CASE ~ (v[i] < v[p])
  <2>1. p = ParentIdx(i)
    OBVIOUS
  <2> HIDE DEF v, p
  <2>2. v[p] <= v[i]
    BY <1>2, <1>4, <1>7
  <2>3. \A j \in 2 .. Len(g) : v[ParentIdx(j)] <= v[j]
    BY <1>5, <2>1, <2>2
  <2>4. ASSUME p > 1, NEW j \in 2 .. Len(g), ParentIdx(j) = p PROVE v[ParentIdx(p)] <= v[j]
    <3>1. p \in 2 .. Len(g) /\ p \in 1 .. Len(g) /\ j \in 1 .. Len(g)
      BY <1>1, <1>2, <2>4
    <3>2. ParentIdx(p) \in 1 .. Len(g)
      BY <1>1, <3>1, ParentIn
    <3>3. v[ParentIdx(p)] <= v[p] /\ v[p] <= v[j]
      BY <2>3, <2>4, <3>1
    <3>4. v[ParentIdx(p)] \in Nat /\ v[p] \in Nat /\ v[j] \in Nat
      BY <1>4, <3>1, <3>2
    <3> QED
      BY <3>3, <3>4
  <2>5. OrderedAbove(g, p, K)
    BY <1>2, <2>3, <2>4, OrderOfKeys DEF v
  <2>6. Climb(K)[<<g, i>>] = <<g, p>>
    BY <1>3, <1>4, <1>7
  <2> QED
    BY <1>2, <2>1, <2>5, <2>6
<1> QED
  BY <1>6, <1>7

LEMMA SiftUpOrders ==
  ASSUME NEW K, K \in [DOMAIN K -> Nat], NEW h \in Seq(DOMAIN K), NEW i \in 1 .. Len(h),
         OrderedAbove(h, i, K)
  PROVE  Ordered(SiftUp(h, i, K), K)
<1> DEFINE S == DOMAIN K
           next == Climb(K)
           Up(n) == {s \in Seq(S) \X Nat :
                       /\ s[2] \in 1 .. Len(s[1])
                       /\ OrderedAbove(s[1], s[2], K)
                       /\ s[2] = 1 \/ s[2] + n <= i}
           P == [n \in Nat |-> Up(n)]
           s == Iterated(next, <<h, i>>)[i]
<1>1. i \in Nat /\ i >= 1
  BY LenProperties
<1>2. <<h, i>> \in P[0]
  BY <1>1
<1>3. ASSUME NEW n \in 0 .. i - 1, NEW r \in P[n] PROVE next[r] \in P[n + 1]
  <2>1. n \in Nat /\ n + 1 \in Nat
    BY <1>1
  <2>2. r \in Up(n)
    BY <1>3, <2>1
  <2>3. PICK g \in Seq(S), k \in Nat : r = <<g, k>>
    BY <2>2
  <2>4. /\ k \in 1 .. Len(g)
        /\ OrderedAbove(g, k, K)
        /\ k = 1 \/ k + n <= i
    BY <2>2, <2>3
  <2>5. CASE k = 1
    <3>1. next[r] = r
      BY <2>3, <2>5 DEF Climb
    <3>2. r \in Up(n + 1)
      BY <2>3, <2>4, <2>5
    <3> QED
      BY <2>1, <3>1, <3>2
  <2>6. CASE k # 1
    <3>1. k \in 2 .. Len(g)
      BY <2>4, <2>6
    <3>2. PICK w \in Seq(S) : /\ Climb(K)[<<g, k>>] = <<w, ParentIdx(k)>>
                              /\ Len(w) = Len(g)
                              /\ ParentIdx(k) \in 1 .. k - 1
                              /\ OrderedAbove(w, ParentIdx(k), K)
      BY <2>4, <3>1, ClimbOrders
    <3>3. /\ ParentIdx(k) \in 1 .. Len(w)
          /\ ParentIdx(k) + (n + 1) <= i
          /\ ParentIdx(k) \in Nat
      <4>1. ParentIdx(k) \in Nat /\ ParentIdx(k) <= k - 1 /\ ParentIdx(k) >= 1
        BY <3>2
      <4>2. Len(g) \in Nat /\ k <= Len(g)
        BY <2>4, LenProperties
      <4>3. k + n <= i
        BY <2>4, <2>6
      <4> HIDE DEF P, next, Up
      <4>4. ParentIdx(k) + (n + 1) <= i
        BY <1>1, <2>1, <4>1, <4>3
      <4>5. ParentIdx(k) \in 1 .. Len(g)
        BY <4>1, <4>2
      <4> QED
        BY <3>2, <4>1, <4>4, <4>5
    <3>4. <<w, ParentIdx(k)>> \in Up(n + 1)
      BY <3>2, <3>3
    <3>5. next[r] = <<w, ParentIdx(k)>>
      BY <2>3, <3>2
    <3> QED
      BY <2>1, <3>4, <3>5
  <2> QED
    BY <2>5, <2>6
<1>4. s \in Up(i)
  <2> HIDE DEF P, next, Up
  <2>1. s \in P[i]
    BY <1>1, <1>2, <1>3, LoopReaches
  <2> QED
    BY <1>1, <2>1 DEF P
<1>5. SiftUp(h, i, K) = s[1]
  BY DEF SiftUp
<1> HIDE DEF s
<1>6. /\ s[1] \in Seq(S)
      /\ s[2] = 1
      /\ 1 \in 1 .. Len(s[1])
      /\ OrderedAbove(s[1], 1, K)
  BY <1>1, <1>4
<1> DEFINE g == s[1]
<1>7. g \in Seq(S) /\ 1 \in 1 .. Len(g) /\ OrderedAbove(g, 1, K)
  BY <1>6
<1> HIDE DEF g
<1>8. Ordered(g, K)
  <2>1. \A j \in 2 .. Len(g) : j # 1
    OBVIOUS
  <2> QED
    BY <1>7, <2>1 DEF Ordered, OrderedAbove
<1> QED
  BY <1>5, <1>8 DEF g

LEMMA SinkOrders ==
  ASSUME NEW K, K \in [DOMAIN K -> Nat], NEW g \in Seq(DOMAIN K), NEW i \in 1 .. Len(g),
         OrderedBelow(g, i, K)
  PROVE  \/ /\ Sink(K)[<<g, i>>] = <<g, i>>
            /\ Ordered(g, K)
         \/ \E w \in Seq(DOMAIN K), m \in 2 .. Len(g) :
              /\ Sink(K)[<<g, i>>] = <<w, m>>
              /\ Len(w) = Len(g)
              /\ i < m
              /\ OrderedBelow(w, m, K)
<1> DEFINE S == DOMAIN K
           m == SmallestAt(g, i, K)
           w == SwapAt(g, i, m)
           v == Keys(g, K)
           v2 == Keys(w, K)
<1>1. Len(g) \in Nat /\ i \in Nat
  BY LenProperties
<1>2. /\ m \in 1 .. Len(g)
      /\ m = i \/ (m >= 2 /\ ParentIdx(m) = i /\ K[g[m]] < K[g[i]])
      /\ \A j \in 2 .. Len(g) : ParentIdx(j) = i => K[g[m]] <= K[g[j]]
  BY SmallestAtIs
<1>3. Sink(K)[<<g, i>>] = IF m = i THEN <<g, i>> ELSE <<w, m>>
  BY <1>1 DEF Sink
<1> HIDE DEF m
<1>4. CASE m = i
  <2>1. Ordered(g, K)
    BY <1>2, <1>4 DEF Ordered, OrderedBelow
  <2> QED
    BY <1>3, <1>4, <2>1
<1>5. CASE m # i
  <2>1. m \in 2 .. Len(g) /\ i = ParentIdx(m) /\ K[g[m]] < K[g[i]]
    BY <1>1, <1>2, <1>5
  <2>2. i \in 1 .. m - 1
    BY <1>1, <2>1, ParentIn
  <2>3. \A j \in 1 .. Len(g) : v[j] = K[g[j]] /\ v[j] \in Nat
    BY KeysAre
  <2>4. v[m] < v[i]
    BY <1>2, <2>1, <2>3
  <2>5. \A j \in 2 .. Len(g) : ParentIdx(j) = i => v[m] <= v[j]
    BY <1>1, <1>2, <2>3
  <2>6. /\ \A j \in 2 .. Len(g) : ParentIdx(j) # i => v[ParentIdx(j)] <= v[j]
        /\ i > 1 => \A j \in 2 .. Len(g) : ParentIdx(j) = i => v[ParentIdx(i)] <= v[j]
    BY OrderOfKeys
  <2>7. w \in Seq(S) /\ Len(w) = Len(g)
    BY <1>2, CountSwap
  <2>8. \A j \in 1 .. Len(g) : v2[j] = IF j = i THEN v[m] ELSE IF j = m THEN v[i] ELSE v[j]
    BY <1>2, KeysSwapped
  <2> HIDE DEF v, v2, w
  <2>9. /\ \A j \in 2 .. Len(g) : ParentIdx(j) # m => v2[ParentIdx(j)] <= v2[j]
        /\ \A j \in 2 .. Len(g) : ParentIdx(j) = m => v2[i] <= v2[j]
    <3>1. Exchanged(Len(g), v, v2, i, m)
      BY <2>3, <2>8 DEF Exchanged
    <3> QED
      BY <1>1, <2>1, <2>4, <2>5, <2>6, <3>1, DownOrders
  <2>10. OrderedBelow(w, m, K)
    BY <1>2, <2>1, <2>7, <2>9, OrderOfKeys DEF v2
  <2>11. Sink(K)[<<g, i>>] = <<w, m>>
    BY <1>3, <1>5
  <2>12. i < m
    BY <1>1, <2>1, <2>2
  <2> QED
    BY <2>1, <2>7, <2>10, <2>11, <2>12
<1> QED
  BY <1>4, <1>5

LEMMA SiftDownOrders ==
  ASSUME NEW K, K \in [DOMAIN K -> Nat], NEW h \in Seq(DOMAIN K), NEW i \in 1 .. Len(h),
         OrderedBelow(h, i, K)
  PROVE  Ordered(SiftDown(h, i, K), K)
<1> DEFINE S == DOMAIN K
           next == Sink(K)
           Down(n) == {s \in Seq(S) \X Nat :
                         /\ Len(s[1]) = Len(h)
                         /\ s[2] \in 1 .. Len(h)
                         /\ OrderedBelow(s[1], s[2], K)
                         /\ \/ i + n <= s[2]
                            \/ next[s] = s /\ Ordered(s[1], K)}
           P == [n \in Nat |-> Down(n)]
           s == Iterated(next, <<h, i>>)[Len(h)]
<1>1. i \in Nat /\ i >= 1 /\ Len(h) \in Nat
  BY LenProperties
<1>2. <<h, i>> \in P[0]
  BY <1>1
<1>3. ASSUME NEW n \in 0 .. Len(h) - 1, NEW r \in P[n] PROVE next[r] \in P[n + 1]
  <2>1. n \in Nat /\ n + 1 \in Nat
    BY <1>1
  <2>2. r \in Down(n)
    BY <1>3, <2>1
  <2>3. PICK g \in Seq(S), k \in Nat : r = <<g, k>>
    BY <2>2
  <2>4. /\ Len(g) = Len(h)
        /\ k \in 1 .. Len(g)
        /\ OrderedBelow(g, k, K)
        /\ i + n <= k \/ (next[r] = r /\ Ordered(g, K))
    BY <2>2, <2>3
  <2>5. CASE next[r] = r /\ Ordered(g, K)
    <3>1. r \in Down(n + 1)
      BY <2>3, <2>4, <2>5
    <3> QED
      BY <2>1, <2>5, <3>1
  <2>6. CASE i + n <= k
    <3>1. CASE Sink(K)[<<g, k>>] = <<g, k>> /\ Ordered(g, K)
      BY <2>3, <2>5, <3>1
    <3>2. ASSUME NEW w \in Seq(S), NEW m \in 2 .. Len(g),
                 Sink(K)[<<g, k>>] = <<w, m>>, Len(w) = Len(g), k < m, OrderedBelow(w, m, K)
          PROVE  next[r] \in P[n + 1]
      <4>1. m \in Nat /\ m \in 1 .. Len(h) /\ i + (n + 1) <= m
        <5>1. m \in Nat /\ m <= Len(h) /\ m >= 2
          BY <1>1, <2>4, <3>2
        <5>2. i + n <= k /\ k < m
          BY <2>6, <3>2
        <5> HIDE DEF P, next, Down
        <5>3. i + (n + 1) <= m
          BY <1>1, <2>1, <2>3, <5>1, <5>2
        <5> QED
          BY <1>1, <5>1, <5>3
      <4>2. <<w, m>> \in Down(n + 1)
        BY <2>4, <3>2, <4>1
      <4>3. next[r] = <<w, m>>
        BY <2>3, <3>2
      <4> QED
        BY <2>1, <4>2, <4>3
    <3> QED
      BY <2>4, <3>1, <3>2, SinkOrders
  <2> QED
    BY <2>4, <2>5, <2>6
<1>4. s \in Down(Len(h))
  <2> HIDE DEF P, next, Down
  <2>1. s \in P[Len(h)]
    BY <1>1, <1>2, <1>3, LoopReaches
  <2> QED
    BY <1>1, <2>1 DEF P
<1>5. SiftDown(h, i, K) = s[1]
  BY DEF SiftDown
<1> HIDE DEF s, next
<1>6. Ordered(s[1], K)
  BY <1>1, <1>4
<1> QED
  BY <1>5, <1>6

(* The top of an ordered heap is the smallest: the task that Run takes is  *)
(* the most urgent. *)
THEOREM TopOfOrdered ==
  ASSUME NEW K, K \in [DOMAIN K -> Nat], NEW h \in Seq(DOMAIN K), Ordered(h, K)
  PROVE  \A i \in DOMAIN h : K[HeapTop(h)] <= K[h[i]]
<1> DEFINE v == Keys(h, K)
           Bad == {i \in Nat : i \in 1 .. Len(h) /\ ~ (v[1] <= v[i])}
<1>1. DOMAIN h = 1 .. Len(h) /\ Len(h) \in Nat
  BY LenProperties
<1>2. \A i \in 1 .. Len(h) : v[i] = K[h[i]] /\ v[i] \in Nat
  BY KeysAre
<1>3. ASSUME NEW j \in 2 .. Len(h) PROVE v[ParentIdx(j)] <= v[j]
  <2>1. 1 \in 1 .. Len(h)
    BY <1>1
  <2> QED
    BY <2>1, OrderOfKeys
<1> HIDE DEF v
<1>4. Bad = {}
  <2> SUFFICES ASSUME Bad # {} PROVE FALSE
    OBVIOUS
  <2>1. Bad \subseteq Nat
    OBVIOUS
  <2>2. PICK i \in Bad : \A k \in Bad : i <= k
    <3> HIDE DEF Bad
    <3> QED
      BY <2>1, Least
  <2>3. i \in 2 .. Len(h)
    <3>1. i # 1
      BY <1>1, <1>2, <2>2
    <3> QED
      BY <2>2, <3>1
  <2>4. ParentIdx(i) \in 1 .. i - 1 /\ ParentIdx(i) \in 1 .. Len(h) /\ i \in 1 .. Len(h)
    BY <1>1, <2>3, ParentIn
  <2>5. ParentIdx(i) \notin Bad
    BY <2>2, <2>4
  <2>6. v[1] <= v[ParentIdx(i)] /\ v[ParentIdx(i)] <= v[i]
    BY <1>3, <2>3, <2>4, <2>5
  <2>7. v[1] \in Nat /\ v[i] \in Nat /\ v[ParentIdx(i)] \in Nat
    <3>1. 1 \in 1 .. Len(h)
      BY <1>1, <2>3
    <3> QED
      BY <1>2, <2>4, <3>1
  <2>8. v[1] <= v[i]
    BY <2>6, <2>7
  <2> QED
    BY <2>2, <2>8
<1> QED
  BY <1>1, <1>2, <1>4 DEF HeapTop

(* Add keeps the order. *)
THEOREM HeapAddOrders ==
  ASSUME NEW K, K \in [DOMAIN K -> Nat], NEW h \in Seq(DOMAIN K), NEW x \in DOMAIN K,
         Ordered(h, K)
  PROVE  Ordered(HeapAdd(h, x, K), K)
<1> DEFINE g == Append(h, x)
           n == Len(h) + 1
<1>1. Len(h) \in Nat
  BY LenProperties
<1>2. /\ g \in Seq(DOMAIN K)
      /\ Len(g) = n
      /\ \A k \in 1 .. Len(h) : g[k] = h[k]
  BY AppendProperties
<1>3. HeapAdd(h, x, K) = SiftUp(g, n, K)
  BY DEF HeapAdd
<1>4. n \in Nat /\ n \in 1 .. n /\ n - 1 = Len(h)
  BY <1>1
<1> HIDE DEF g, n
<1>5. ASSUME NEW j \in 2 .. n, j # n PROVE K[g[ParentIdx(j)]] <= K[g[j]]
  <2>1. j \in 2 .. Len(h)
    BY <1>1, <1>4, <1>5
  <2>2. ParentIdx(j) \in 1 .. Len(h) /\ j \in 1 .. Len(h)
    BY <1>1, <2>1, ParentIn
  <2>3. K[h[ParentIdx(j)]] <= K[h[j]]
    BY <2>1 DEF Ordered
  <2> QED
    BY <1>2, <2>2, <2>3
<1>6. ASSUME NEW j \in 2 .. n, ParentIdx(j) = n PROVE FALSE
  <2>1. ParentIdx(j) \in 1 .. j - 1
    BY <1>4, ParentIn
  <2> QED
    BY <1>4, <1>6, <2>1
<1>7. OrderedAbove(g, n, K)
  BY <1>2, <1>5, <1>6 DEF OrderedAbove
<1>8. Ordered(SiftUp(g, n, K), K)
  BY <1>2, <1>4, <1>7, SiftUpOrders
<1> QED
  BY <1>3, <1>8

(* Remove keeps the order when the last item is no smaller than the parent *)
(* of the place it comes to.  That is so of the top, which Run takes; it   *)
(* is what Remove does not see to for DisablePeriodic. *)
THEOREM HeapRemoveOrders ==
  ASSUME NEW K, K \in [DOMAIN K -> Nat], NEW h \in Seq(DOMAIN K), NEW x, InHeap(h, x),
         Ordered(h, K),
         \/ HeapIdx(h, x) \in {1, Len(h)}
         \/ K[h[ParentIdx(HeapIdx(h, x))]] <= K[h[Len(h)]]
  PROVE  Ordered(HeapRemove(h, x, K), K)
<1> DEFINE S == DOMAIN K
           idx == HeapIdx(h, x)
           n == Len(h) - 1
           cut == SubSeq([h EXCEPT ![idx] = h[n + 1]], 1, n)
<1>1. DOMAIN h = 1 .. Len(h) /\ Len(h) \in Nat
  BY LenProperties
<1>2. idx \in 1 .. Len(h)
  BY HeapIdxFinds
<1>3. n \in Nat /\ n + 1 = Len(h) /\ idx \in Nat /\ idx >= 1
  BY <1>1, <1>2
<1>4. HeapRemove(h, x, K) = IF idx > n THEN cut ELSE SiftDown(cut, idx, K)
  BY DEF HeapRemove
<1>5. idx \in {1, n + 1} \/ K[h[ParentIdx(idx)]] <= K[h[n + 1]]
  BY <1>3
<1> HIDE DEF idx, n
<1>6. /\ cut \in Seq(S)
      /\ Len(cut) = n
      /\ \A k \in 1 .. n : cut[k] = IF k = idx THEN h[n + 1] ELSE h[k]
  BY <1>2, <1>3, LastInPlace
<1> HIDE DEF cut
<1>7. ASSUME NEW j \in 2 .. n
      PROVE  /\ ParentIdx(j) \in 1 .. j - 1 /\ ParentIdx(j) \in 1 .. n
             /\ j \in 1 .. n /\ j \in 2 .. Len(h)
             /\ K[h[ParentIdx(j)]] <= K[h[j]]
  <2>1. ParentIdx(j) \in 1 .. j - 1 /\ ParentIdx(j) \in 1 .. n /\ j \in 1 .. n
    BY <1>3, ParentIn
  <2>2. j \in 2 .. Len(h)
    BY <1>3
  <2> QED
    BY <2>1, <2>2 DEF Ordered
<1>8. CASE idx > n
  <2>1. ASSUME NEW j \in 2 .. n PROVE K[cut[ParentIdx(j)]] <= K[cut[j]]
    <3>1. ParentIdx(j) \in 1 .. n /\ j \in 1 .. n
      BY <1>7
    <3>2. j # idx /\ ParentIdx(j) # idx
      BY <1>3, <1>8, <3>1
    <3>3. cut[j] = h[j]
      BY <1>6, <3>1, <3>2
    <3>4. cut[ParentIdx(j)] = h[ParentIdx(j)]
      BY <1>6, <3>1, <3>2
    <3> QED
      BY <1>7, <3>3, <3>4
  <2>2. Ordered(cut, K)
    BY <1>6, <2>1 DEF Ordered
  <2> QED
    BY <1>4, <1>8, <2>2
<1>9. CASE ~ (idx > n)
  <2>1. idx \in 1 .. n
    BY <1>3, <1>9
  <2>2. ASSUME NEW j \in 2 .. n, ParentIdx(j) # idx PROVE K[cut[ParentIdx(j)]] <= K[cut[j]]
    <3>1. cut[ParentIdx(j)] = h[ParentIdx(j)]
      BY <1>6, <1>7, <2>2
    <3>2. CASE j = idx
      <4>1. cut[j] = h[n + 1]
        BY <1>6, <2>1, <3>2
      <4>2. K[h[ParentIdx(idx)]] <= K[h[n + 1]]
        BY <1>3, <1>5, <2>1, <3>2
      <4> QED
        BY <3>1, <3>2, <4>1, <4>2
    <3>3. CASE j # idx
      <4>1. cut[j] = h[j]
        BY <1>6, <1>7, <3>3
      <4> QED
        BY <1>7, <3>1, <4>1
    <3> QED
      BY <3>2, <3>3
  <2>3. ASSUME idx > 1, NEW j \in 2 .. n, ParentIdx(j) = idx
        PROVE  K[cut[ParentIdx(idx)]] <= K[cut[j]]
    <3>1. idx \in 2 .. n
      BY <1>3, <2>1, <2>3
    <3>2. ParentIdx(idx) \in 1 .. idx - 1 /\ ParentIdx(idx) \in 1 .. n
      BY <1>7, <3>1
    <3>3. ParentIdx(idx) # idx /\ j # idx
      <4>1. ParentIdx(idx) # idx
        BY <1>3, <3>2
      <4>2. idx \in 1 .. j - 1
        BY <1>7, <2>3
      <4>3. j # idx
        BY <1>3, <4>2
      <4> QED
        BY <4>1, <4>3
    <3>4. cut[ParentIdx(idx)] = h[ParentIdx(idx)] /\ cut[j] = h[j]
      BY <1>6, <1>7, <3>2, <3>3
    <3>5. K[h[ParentIdx(idx)]] <= K[h[idx]] /\ K[h[idx]] <= K[h[j]]
      BY <1>7, <2>3, <3>1
    <3>6. /\ K[h[ParentIdx(idx)]] \in Nat
          /\ K[h[idx]] \in Nat
          /\ K[h[j]] \in Nat
      <4>1. ParentIdx(idx) \in 1 .. Len(h) /\ j \in 1 .. Len(h)
        BY <1>3, <1>7, <3>2
      <4> QED
        BY <1>2, <4>1, KeysAre
    <3> QED
      BY <3>4, <3>5, <3>6
  <2>4. OrderedBelow(cut, idx, K)
    BY <1>6, <2>2, <2>3 DEF OrderedBelow
  <2>5. Ordered(SiftDown(cut, idx, K), K)
    BY <1>6, <2>1, <2>4, SiftDownOrders
  <2> QED
    BY <1>4, <1>9, <2>5
<1> QED
  BY <1>8, <1>9

-----------------------------------------------------------------------------
(* The heaps have room: a sequence that holds none of a set of items more  *)
(* than so often has a length.                                             *)

LEMMA Ranked ==
  ASSUME NEW F, IsFiniteSet(F), NEW m \in Nat, Cardinality(F) <= m
  PROVE  \E r : r \in Injection(F, 1 .. m)
<1> DEFINE n == Cardinality(F)
<1>1. n \in Nat /\ ExistsBijection(1 .. n, F)
  BY FS_CardinalityType
<1>2. PICK p : p \in Bijection(1 .. n, F)
  BY <1>1 DEF ExistsBijection
<1>3. /\ p \in [1 .. n -> F]
      /\ \A d \in F : \E k \in 1 .. n : p[k] = d
  BY <1>2 DEF Bijection, Surjection
<1> HIDE DEF n
<1> DEFINE r == [d \in F |-> CHOOSE k \in 1 .. n : p[k] = d]
<1>4. \A d \in F : r[d] \in 1 .. n /\ p[r[d]] = d
  BY <1>3
<1>5. \A d \in F : r[d] \in 1 .. m
  BY <1>1, <1>4 DEF n
<1>6. r \in [F -> 1 .. m]
  BY <1>5
<1>7. \A a, b \in F : r[a] = r[b] => a = b
  BY <1>4
<1> HIDE DEF r
<1>8. r \in Injection(F, 1 .. m)
  BY <1>6, <1>7 DEF Injection, IsInjective
<1> QED
  BY <1>8

LEMMA Pigeonholes ==
  ASSUME NEW S, IsFiniteSet(S), NEW m \in Nat, NEW D, NEW f,
         \A d \in D : f[d] \in S,
         \A t \in S : IsFiniteSet({d \in D : f[d] = t}) /\ Cardinality({d \in D : f[d] = t}) <= m
  PROVE  Cardinality(D) <= Cardinality(S) * m
<1> DEFINE F(t) == {d \in D : f[d] = t}
           R(t) == CHOOSE r : r \in Injection(F(t), 1 .. m)
           g == [d \in D |-> <<f[d], R(f[d])[d]>>]
<1>1. ASSUME NEW t \in S PROVE R(t) \in Injection(F(t), 1 .. m)
  <2>1. IsFiniteSet(F(t)) /\ Cardinality(F(t)) <= m
    OBVIOUS
  <2> HIDE DEF F
  <2>2. \E r : r \in Injection(F(t), 1 .. m)
    BY <2>1, Ranked
  <2> QED
    BY <2>2
<1> HIDE DEF R
<1>2. ASSUME NEW t \in S
      PROVE  /\ \A d \in F(t) : R(t)[d] \in 1 .. m
             /\ \A a, b \in F(t) : R(t)[a] = R(t)[b] => a = b
  BY <1>1 DEF Injection, IsInjective
<1>3. g \in [D -> S \X (1 .. m)]
  BY <1>2
<1>4. ASSUME NEW a \in D, NEW b \in D, g[a] = g[b] PROVE a = b
  <2>1. f[a] = f[b] /\ R(f[a])[a] = R(f[b])[b]
    BY <1>4
  <2>2. a \in F(f[a]) /\ b \in F(f[a]) /\ f[a] \in S
    BY <2>1
  <2> QED
    BY <1>2, <2>1, <2>2
<1>5. g \in Injection(D, S \X (1 .. m))
  <2> HIDE DEF g
  <2> QED
    BY <1>3, <1>4 DEF Injection, IsInjective
<1>6. IsFiniteSet(1 .. m) /\ Cardinality(1 .. m) = m
  BY FS_Interval
<1>7. IsFiniteSet(S \X (1 .. m)) /\ Cardinality(S \X (1 .. m)) = Cardinality(S) * m
  <2>1. IsFiniteSet(S \X (1 .. m)) /\ Cardinality(S \X (1 .. m)) = Cardinality(S) * Cardinality(1 .. m)
    BY <1>6, FS_Product
  <2> QED
    BY <1>6, <2>1
<1> HIDE DEF g
<1> QED
  BY <1>5, <1>7, FS_Injection

LEMMA PartBound ==
  ASSUME NEW U, NEW h \in Seq(U), NEW S, IsFiniteSet(S), NEW m \in Nat,
         \A t \in S : Count(h, t) <= m
  PROVE  Cardinality({i \in DOMAIN h : h[i] \in S}) <= Cardinality(S) * m
<1> DEFINE D == {i \in DOMAIN h : h[i] \in S}
<1>1. ASSUME NEW t \in S
      PROVE  IsFiniteSet({d \in D : h[d] = t}) /\ Cardinality({d \in D : h[d] = t}) <= m
  <2>1. {d \in D : h[d] = t} = {i \in DOMAIN h : h[i] = t}
    OBVIOUS
  <2>2. IsFiniteSet({i \in DOMAIN h : h[i] = t})
    BY CountFinite
  <2>3. Cardinality({i \in DOMAIN h : h[i] = t}) <= m
    BY DEF Count
  <2> QED
    BY <2>1, <2>2, <2>3
<1>2. \A d \in D : h[d] \in S
  OBVIOUS
<1> HIDE DEF D
<1>3. Cardinality(D) <= Cardinality(S) * m
  BY <1>1, <1>2, Pigeonholes
<1> QED
  BY <1>3 DEF D

(* The tasks that may be in the heap of tasks at once are no more than its *)
(* capacity. *)
LEMMA TasksFit ==
  ASSUME NEW h \in Seq(Task),
         \A t \in Periodic : Count(h, t) <= 1,
         \A t \in OneShot : Count(h, t) <= MaxPending
  PROVE  Len(h) <= TasksCap
<1> DEFINE A == {i \in DOMAIN h : h[i] \in Periodic}
           B == {i \in DOMAIN h : h[i] \in OneShot}
<1>1. DOMAIN h = 1 .. Len(h) /\ Len(h) \in Nat
  BY LenProperties
<1>2. \A i \in 1 .. Len(h) : h[i] \in Task
  BY ElementOfSeq
<1>3. A \cup B = 1 .. Len(h)
  BY <1>1, <1>2 DEF Task
<1>4. A \cap B = {}
  BY SchedulerAssumption
<1>5. IsFiniteSet(1 .. Len(h)) /\ Cardinality(1 .. Len(h)) = Len(h)
  BY <1>1, FS_Interval
<1>6. Cardinality(A) <= Cardinality(Periodic) * 1
  <2>1. IsFiniteSet(Periodic)
    BY SchedulerAssumption
  <2> QED
    BY <2>1, PartBound
<1>7. Cardinality(B) <= Cardinality(OneShot) * MaxPending
  <2>1. IsFiniteSet(OneShot) /\ MaxPending \in Nat
    BY SchedulerAssumption
  <2> QED
    BY <2>1, PartBound
<1>8. IsFiniteSet(A) /\ IsFiniteSet(B)
  BY <1>3, <1>5, FS_Subset
<1> HIDE DEF A, B
<1>9. Len(h) = Cardinality(A) + Cardinality(B)
  <2>1. Cardinality(A \cup B) = Cardinality(A) + Cardinality(B) - Cardinality(A \cap B)
    BY <1>8, FS_Union
  <2>2. Cardinality(A \cap B) = 0
    BY <1>4, FS_EmptySet
  <2>3. Cardinality(A) \in Nat /\ Cardinality(B) \in Nat
    BY <1>8, FS_CardinalityType
  <2>4. Cardinality(A \cup B) = Len(h)
    BY <1>3, <1>5, Zenon
  <2> QED
    BY <2>1, <2>2, <2>3, <2>4
<1>10. /\ Cardinality(Periodic) \in Nat
       /\ Cardinality(OneShot) \in Nat
       /\ MaxPending \in Nat
       /\ TasksCap \in Nat
  BY SchedulerAssumption, FS_CardinalityType
<1>11. Cardinality(A) \in Nat /\ Cardinality(B) \in Nat
  BY <1>8, FS_CardinalityType
<1>12. TasksCap >= Cardinality(Periodic) + MaxPending * Cardinality(OneShot)
  BY SchedulerAssumption
<1>13. MaxPending * Cardinality(OneShot) = Cardinality(OneShot) * MaxPending
  BY <1>10
<1>14. Cardinality(OneShot) * MaxPending \in Nat
  BY <1>10
<1> QED
  BY <1>1, <1>6, <1>7, <1>9, <1>10, <1>11, <1>12, <1>13, <1>14

LEMMA DelayedFit ==
  ASSUME NEW h \in Seq(Periodic), \A t \in Periodic : Count(h, t) <= 1
  PROVE  Len(h) <= DelayedCap
<1> DEFINE A == {i \in DOMAIN h : h[i] \in Periodic}
<1>1. DOMAIN h = 1 .. Len(h) /\ Len(h) \in Nat
  BY LenProperties
<1>2. A = 1 .. Len(h)
  BY <1>1, ElementOfSeq
<1>3. Cardinality(A) = Len(h)
  <2>1. Cardinality(1 .. Len(h)) = Len(h)
    BY <1>1, FS_Interval
  <2> HIDE DEF A
  <2> QED
    BY <1>2, <2>1, Zenon
<1>4. IsFiniteSet(Periodic)
  BY SchedulerAssumption
<1>5. Cardinality(A) <= Cardinality(Periodic) * 1
  BY <1>4, PartBound
<1>6. Cardinality(Periodic) \in Nat /\ DelayedCap \in Nat /\ DelayedCap >= Cardinality(Periodic)
  BY SchedulerAssumption, FS_CardinalityType
<1> HIDE DEF A
<1> QED
  BY <1>1, <1>3, <1>5, <1>6

-----------------------------------------------------------------------------
(* The loops of DelayedHouseKeeping.                                       *)

(* n items of q have moved into h, and those of both are in both. *)
Moving(S, q, h, n) ==
  {s \in Seq(S) \X Seq(S) :
     /\ Len(s[1]) = Len(q) - n
     /\ \A t : Count(s[1], t) + Count(s[2], t) = Count(q, t) + Count(h, t)}

(* Whatever holds no more than q and h together is no longer than cap. *)
HasRoom(S, q, h, cap) ==
  \A g \in Seq(S) : (\A t \in S : Count(g, t) <= Count(q, t) + Count(h, t)) => Len(g) <= cap

LEMMA MoveOneMoves ==
  ASSUME NEW K, NEW cap \in Nat, NEW q \in Seq(DOMAIN K), NEW h \in Seq(DOMAIN K),
         HasRoom(DOMAIN K, q, h, cap),
         NEW n \in 0 .. Len(q) - 1, NEW s \in Moving(DOMAIN K, q, h, n)
  PROVE  MoveOne(K, cap)[s] \in Moving(DOMAIN K, q, h, n + 1)
<1> DEFINE S == DOMAIN K
           r == s[1]
           g == s[2]
           x == Head(r)
           rest == Tail(r)
           more == Append(g, x)
           g2 == HeapAdd(g, x, K)
<1>1. /\ r \in Seq(S)
      /\ g \in Seq(S)
      /\ Len(r) = Len(q) - n
      /\ \A t : Count(r, t) + Count(g, t) = Count(q, t) + Count(h, t)
  BY DEF Moving
<1>2. Len(q) \in Nat /\ Len(g) \in Nat
  BY <1>1, LenProperties
<1>3. r # <<>>
  <2>1. Len(r) # 0
    BY <1>1, <1>2
  <2>2. Len(<<>>) = 0
    OBVIOUS
  <2> HIDE DEF r
  <2> QED
    BY <2>1, <2>2
<1>4. MoveOne(K, cap)[s] = IF r = <<>> \/ Len(g) >= cap THEN s ELSE <<rest, g2>>
  <2>1. s \in Seq(S) \X Seq(S)
    BY DEF Moving
  <2> QED
    BY <2>1 DEF MoveOne
<1> HIDE DEF r, g
<1>5. x \in S /\ rest \in Seq(S) /\ Len(rest) = Len(r) - 1
  BY <1>1, <1>3, HeadTailProperties
<1>6. \A t : Count(r, t) = IF t = x THEN Count(rest, t) + 1 ELSE Count(rest, t)
  BY <1>1, <1>3, CountTail
<1> HIDE DEF x, rest
<1>7. \A t : Count(rest, t) \in Nat /\ Count(g, t) \in Nat
  BY <1>1, <1>5, CountFinite
<1>8. Len(g) < cap
  <2>1. more \in Seq(S) /\ Len(more) = Len(g) + 1
    BY <1>1, <1>5, AppendProperties
  <2>2. \A t : Count(more, t) = IF t = x THEN Count(g, t) + 1 ELSE Count(g, t)
    BY <1>1, <1>5, CountAppend
  <2> HIDE DEF more
  <2>3. ASSUME NEW t PROVE Count(more, t) <= Count(q, t) + Count(h, t)
    <3>1. Count(r, t) + Count(g, t) = Count(q, t) + Count(h, t)
      BY <1>1
    <3> QED
      BY <1>6, <1>7, <2>2, <3>1
  <2>4. Len(more) <= cap
    BY <2>1, <2>3 DEF HasRoom
  <2> QED
    BY <1>2, <2>1, <2>4
<1>9. g2 \in Seq(S) /\ \A t : Count(g2, t) = IF t = x THEN Count(g, t) + 1 ELSE Count(g, t)
  BY <1>1, <1>5, HeapAddKeeps
<1> HIDE DEF g2
<1>10. ASSUME NEW t PROVE Count(rest, t) + Count(g2, t) = Count(q, t) + Count(h, t)
  <2>1. Count(r, t) + Count(g, t) = Count(q, t) + Count(h, t)
    BY <1>1
  <2> QED
    BY <1>6, <1>7, <1>9, <2>1
<1>11. Len(rest) = Len(q) - (n + 1)
  BY <1>1, <1>2, <1>5
<1>12. MoveOne(K, cap)[s] = <<rest, g2>>
  BY <1>2, <1>3, <1>4, <1>8
<1>13. <<rest, g2>> \in Moving(S, q, h, n + 1)
  BY <1>5, <1>9, <1>10, <1>11 DEF Moving
<1> QED
  BY <1>12, <1>13

(* A queue is moved to the last item into a heap that has room for all. *)
LEMMA DrainedAll ==
  ASSUME NEW K, NEW cap \in Nat, NEW q \in Seq(DOMAIN K), NEW h \in Seq(DOMAIN K),
         HasRoom(DOMAIN K, q, h, cap)
  PROVE  /\ Drained(q, h, K, cap).queue = <<>>
         /\ Drained(q, h, K, cap).heap \in Seq(DOMAIN K)
         /\ \A t : Count(Drained(q, h, K, cap).heap, t) = Count(q, t) + Count(h, t)
<1> DEFINE S == DOMAIN K
           next == MoveOne(K, cap)
           P == [n \in Nat |-> Moving(S, q, h, n)]
           s == Iterated(next, <<q, h>>)[Len(q)]
<1>1. Len(q) \in Nat
  BY LenProperties
<1>2. <<q, h>> \in P[0]
  BY <1>1 DEF Moving
<1>3. \A n \in 0 .. Len(q) - 1 : \A r \in P[n] : next[r] \in P[n + 1]
  <2> TAKE n \in 0 .. Len(q) - 1
  <2>1. n \in Nat /\ n + 1 \in Nat
    BY <1>1
  <2>2. \A r \in Moving(S, q, h, n) : next[r] \in Moving(S, q, h, n + 1)
    BY MoveOneMoves
  <2> QED
    BY <2>1, <2>2
<1>4. s \in Moving(S, q, h, Len(q))
  <2> HIDE DEF P, next
  <2>1. s \in P[Len(q)]
    BY <1>1, <1>2, <1>3, LoopReaches
  <2> QED
    BY <1>1, <2>1 DEF P
<1>5. Drained(q, h, K, cap).queue = s[1] /\ Drained(q, h, K, cap).heap = s[2]
  BY DEF Drained
<1> HIDE DEF s
<1>6. /\ s[1] \in Seq(S)
      /\ s[2] \in Seq(S)
      /\ Len(s[1]) = 0
      /\ \A t : Count(s[1], t) + Count(s[2], t) = Count(q, t) + Count(h, t)
  BY <1>1, <1>4 DEF Moving
<1>7. s[1] = <<>>
  <2> DEFINE e == s[1]
  <2>1. e \in Seq(S) /\ Len(e) = 0
    BY <1>6
  <2> HIDE DEF e
  <2>2. e = <<>>
    BY <2>1, EmptySeq
  <2> QED
    BY <2>2 DEF e
<1>8. \A t : Count(s[2], t) = Count(q, t) + Count(h, t)
  <2> TAKE t
  <2>1. Count(s[1], t) = 0
    BY <1>7, CountEmpty
  <2>2. Count(s[2], t) \in Nat
    BY <1>6, CountFinite
  <2> QED
    BY <1>6, <2>1, <2>2
<1> QED
  BY <1>5, <1>6, <1>7, <1>8

LEMMA InHeapCounts ==
  ASSUME NEW S, NEW h \in Seq(S), NEW t
  PROVE  InHeap(h, t) <=> Count(h, t) # 0
BY CountFinite DEF InHeap

(* At most once each periodic task, and the one-shot tasks as often as     *)
(* they may be pending. *)
WithinBounds(d, h) ==
  /\ \A t \in Periodic : Count(d, t) + Count(h, t) <= 1
  /\ \A t \in OneShot : Count(d, t) + Count(h, t) <= MaxPending

(* The items of both heaps are those of d and h, and what has come to the  *)
(* tasks is due. *)
Releasing(d, h) ==
  {s \in Seq(Periodic) \X Seq(Task) :
     /\ \A t : Count(s[1], t) + Count(s[2], t) = Count(d, t) + Count(h, t)
     /\ \A t \in Periodic : InHeap(s[2], t) => InHeap(h, t) \/ wake[t] = 0}

LEMMA ReleaseOneReleases ==
  ASSUME wake \in [Periodic -> Nat], NEW d \in Seq(Periodic), NEW h \in Seq(Task),
         WithinBounds(d, h), NEW s \in Releasing(d, h)
  PROVE  ReleaseOne(0)[s] \in Releasing(d, h)
<1> DEFINE a == s[1]
           b == s[2]
           x == HeapTop(a)
           less == HeapRemove(a, x, wake)
           more == Append(b, x)
           plus == HeapAdd(b, x, Prio)
<1>1. /\ a \in Seq(Periodic)
      /\ b \in Seq(Task)
      /\ \A t : Count(a, t) + Count(b, t) = Count(d, t) + Count(h, t)
      /\ \A t \in Periodic : InHeap(b, t) => InHeap(h, t) \/ wake[t] = 0
  BY DEF Releasing
<1>2. ReleaseOne(0)[s] = IF a = <<>> \/ wake[x] > 0 THEN s
                         ELSE <<less, IF Len(b) < TasksCap THEN plus ELSE b>>
  <2>1. s \in Seq(Periodic) \X Seq(Task)
    BY DEF Releasing
  <2> QED
    BY <2>1 DEF ReleaseOne
<1> HIDE DEF a, b
<1>3. CASE a = <<>> \/ wake[x] > 0
  BY <1>2, <1>3
<1>4. CASE ~ (a = <<>> \/ wake[x] > 0)
  <2>1. x \in Periodic /\ InHeap(a, x)
    BY <1>1, <1>4, HeapTopIn
  <2> HIDE DEF x
  <2>2. wake[x] = 0
    BY <1>4, <2>1
  <2>3. DOMAIN wake = Periodic /\ DOMAIN Prio = Task /\ x \in Task
    BY <2>1, SchedulerAssumption DEF Task
  <2>4. less \in Seq(Periodic) /\ \A t : Count(a, t) = IF t = x THEN Count(less, t) + 1 ELSE Count(less, t)
    BY <1>1, <2>1, <2>3, HeapRemoveKeeps
  <2> HIDE DEF less
  <2>5. \A t : Count(less, t) \in Nat /\ Count(b, t) \in Nat
    BY <1>1, <2>4, CountFinite
  <2>6. Len(b) < TasksCap
    <3>1. more \in Seq(Task) /\ Len(more) = Len(b) + 1
      BY <1>1, <2>3, AppendProperties
    <3>2. \A t : Count(more, t) = IF t = x THEN Count(b, t) + 1 ELSE Count(b, t)
      BY <1>1, <2>3, CountAppend
    <3> HIDE DEF more
    <3>3. ASSUME NEW t PROVE Count(more, t) <= Count(d, t) + Count(h, t)
      <4>1. Count(a, t) + Count(b, t) = Count(d, t) + Count(h, t)
        BY <1>1
      <4> QED
        BY <2>4, <2>5, <3>2, <4>1
    <3>4. \A t : Count(more, t) \in Nat /\ Count(d, t) \in Nat /\ Count(h, t) \in Nat
      BY <3>1, CountFinite
    <3>5. \A t \in Periodic : Count(more, t) <= 1
      BY <3>3, <3>4 DEF WithinBounds
    <3>6. \A t \in OneShot : Count(more, t) <= MaxPending
      BY <3>3, <3>4, SchedulerAssumption DEF WithinBounds
    <3>7. Len(more) <= TasksCap
      BY <3>1, <3>5, <3>6, TasksFit
    <3>8. Len(b) \in Nat /\ TasksCap \in Nat
      BY <1>1, LenProperties, SchedulerAssumption
    <3> QED
      BY <3>1, <3>7, <3>8
  <2>7. plus \in Seq(Task) /\ \A t : Count(plus, t) = IF t = x THEN Count(b, t) + 1 ELSE Count(b, t)
    BY <1>1, <2>3, HeapAddKeeps
  <2> HIDE DEF plus
  <2>8. ASSUME NEW t PROVE Count(less, t) + Count(plus, t) = Count(d, t) + Count(h, t)
    <3>1. Count(a, t) + Count(b, t) = Count(d, t) + Count(h, t)
      BY <1>1
    <3> QED
      BY <2>4, <2>5, <2>7, <3>1
  <2>9. ASSUME NEW t \in Periodic, InHeap(plus, t) PROVE InHeap(h, t) \/ wake[t] = 0
    <3>1. CASE t = x
      BY <2>2, <3>1
    <3>2. CASE t # x
      <4>1. Count(plus, t) # 0
        BY <2>7, <2>9, InHeapCounts
      <4>2. Count(b, t) # 0
        BY <2>7, <3>2, <4>1
      <4>3. InHeap(b, t)
        BY <1>1, <4>2, InHeapCounts
      <4> QED
        BY <1>1, <4>3
    <3> QED
      BY <3>1, <3>2
  <2>10. ReleaseOne(0)[s] = <<less, plus>>
    BY <1>2, <1>4, <2>6
  <2>11. <<less, plus>> \in Releasing(d, h)
    BY <2>4, <2>7, <2>8, <2>9 DEF Releasing
  <2> QED
    BY <2>10, <2>11
<1> QED
  BY <1>3, <1>4

LEMMA ReleasedAll ==
  ASSUME wake \in [Periodic -> Nat], NEW d \in Seq(Periodic), NEW h \in Seq(Task),
         WithinBounds(d, h)
  PROVE  /\ Released(d, h).delayed \in Seq(Periodic)
         /\ Released(d, h).tasks \in Seq(Task)
         /\ \A t : Count(Released(d, h).delayed, t) + Count(Released(d, h).tasks, t)
                     = Count(d, t) + Count(h, t)
         /\ \A t \in Periodic :
              InHeap(Released(d, h).tasks, t) => InHeap(h, t) \/ wake[t] = 0
<1> DEFINE P == Releasing(d, h)
           next == ReleaseOne(0)
           s == Iterated(next, <<d, h>>)[Len(d)]
<1>1. <<d, h>> \in P
  BY DEF Releasing
<1>2. \A r \in P : next[r] \in P
  BY ReleaseOneReleases
<1>3. Len(d) \in Nat
  BY LenProperties
<1>4. s \in P
  <2> HIDE DEF P, next
  <2> QED
    BY <1>1, <1>2, <1>3, LoopKeeps
<1>5. Released(d, h).delayed = s[1] /\ Released(d, h).tasks = s[2]
  BY DEF Released
<1> HIDE DEF s
<1> QED
  BY <1>4, <1>5 DEF Releasing

-----------------------------------------------------------------------------
(* The invariant.                                                          *)

SchedTypeOK ==
  /\ tasks \in Seq(Task) /\ delayed \in Seq(Periodic)
  /\ tasksQ \in Seq(OneShot) /\ delayedQ \in Seq(Periodic)
  /\ enabled \in SUBSET Periodic
  /\ wake \in [Periodic -> Nat]
  /\ current \in Task \cup {NoTask}
  /\ mpc \in {"loop", "callback", "requeue", "return"}
  /\ calls \in 0 .. MaxCalls
  /\ owed \in [OneShot -> 0 .. MaxPending]

(* What the place of the main thread says of the rest. *)
Phases ==
  /\ mpc = "loop" <=> current = NoTask
  /\ mpc = "requeue" => current \in enabled
  /\ mpc \in {"callback", "requeue"} => delayedQ = <<>>

(* No periodic task is queued twice, none while it is disabled, and none   *)
(* that AutoRequeueCb is going to queue. *)
QueuedAtMostOnce ==
  \A t \in Periodic :
    /\ Places(t) <= 1
    /\ t \notin enabled => Places(t) = 0
    /\ t = current /\ mpc \in {"callback", "requeue"} => Places(t) = 0

DueOrNotInTasks == \A t \in Periodic : InHeap(tasks, t) => wake[t] = 0

Inv == SchedTypeOK /\ Phases /\ QueuedAtMostOnce /\ AcceptedRunsOnce /\ DueOrNotInTasks

LEMMA PlacesIsNat ==
  ASSUME SchedTypeOK, NEW t
  PROVE  /\ Places(t) = Count(tasks, t) + Count(delayed, t) + Count(tasksQ, t) + Count(delayedQ, t)
         /\ Count(tasks, t) \in Nat
         /\ Count(delayed, t) \in Nat
         /\ Count(tasksQ, t) \in Nat
         /\ Count(delayedQ, t) \in Nat
         /\ Places(t) \in Nat
         /\ t \in Periodic => Count(tasksQ, t) = 0
         /\ t \in OneShot => Count(delayed, t) = 0 /\ Count(delayedQ, t) = 0
<1>1. /\ tasks \in Seq(Task)
      /\ delayed \in Seq(Periodic)
      /\ tasksQ \in Seq(OneShot)
      /\ delayedQ \in Seq(Periodic)
  BY DEF SchedTypeOK
<1>2. Places(t) = Count(tasks, t) + Count(delayed, t) + Count(tasksQ, t) + Count(delayedQ, t)
  BY DEF Places
<1>3. Count(tasks, t) \in Nat /\ Count(delayed, t) \in Nat
  BY <1>1, CountFinite
<1>4. Count(tasksQ, t) \in Nat /\ Count(delayedQ, t) \in Nat
  BY <1>1, CountFinite
<1>5. t \in Periodic => t \notin OneShot
  BY SchedulerAssumption
<1>6. t \in Periodic => Count(tasksQ, t) = 0
  BY <1>1, <1>5, CountStranger
<1>7. t \in OneShot => Count(delayed, t) = 0 /\ Count(delayedQ, t) = 0
  BY <1>1, <1>5, CountStranger
<1> QED
  BY <1>2, <1>3, <1>4, <1>6, <1>7

(* What DelayedHouseKeeping leaves: empty queues, and every task where it  *)
(* was or one heap further. *)
LEMMA HouseKeeping ==
  ASSUME Inv
  PROVE  /\ HouseKept.tasks \in Seq(Task)
         /\ HouseKept.delayed \in Seq(Periodic)
         /\ HouseKept.tasksQ = <<>>
         /\ HouseKept.delayedQ = <<>>
         /\ \A t : Count(HouseKept.tasks, t) + Count(HouseKept.delayed, t) = Places(t)
         /\ \A t \in Periodic : InHeap(HouseKept.tasks, t) => wake[t] = 0
<1> DEFINE ready == Drained(tasksQ, tasks, Prio, TasksCap)
           late == Drained(delayedQ, delayed, wake, DelayedCap)
           moved == Released(late.heap, ready.heap)
<1>1. /\ tasks \in Seq(Task)
      /\ delayed \in Seq(Periodic)
      /\ tasksQ \in Seq(OneShot)
      /\ delayedQ \in Seq(Periodic)
      /\ wake \in [Periodic -> Nat]
  BY DEF Inv, SchedTypeOK
<1>2. tasksQ \in Seq(Task)
  <2>1. OneShot \subseteq Task
    BY DEF Task
  <2> QED
    BY <1>1, <2>1, SeqMonotonic
<1>3. DOMAIN Prio = Task /\ DOMAIN wake = Periodic /\ TasksCap \in Nat /\ DelayedCap \in Nat
  BY <1>1, SchedulerAssumption
<1>4. \A t \in Periodic : Places(t) <= 1
  BY DEF Inv, QueuedAtMostOnce
<1>5. \A t \in OneShot : Places(t) <= MaxPending
  <2> TAKE t \in OneShot
  <2>1. Places(t) = owed[t]
    BY DEF Inv, AcceptedRunsOnce
  <2>2. owed[t] \in 0 .. MaxPending /\ MaxPending \in Nat
    BY SchedulerAssumption DEF Inv, SchedTypeOK
  <2> QED
    BY <2>1, <2>2
<1>6. \A t : /\ Places(t) = Count(tasks, t) + Count(delayed, t) + Count(tasksQ, t) + Count(delayedQ, t)
             /\ Count(tasks, t) \in Nat
             /\ Count(delayed, t) \in Nat
             /\ Count(tasksQ, t) \in Nat
             /\ Count(delayedQ, t) \in Nat
  BY PlacesIsNat DEF Inv
<1>7. HasRoom(Task, tasksQ, tasks, TasksCap)
  <2> SUFFICES ASSUME NEW g \in Seq(Task), \A t \in Task : Count(g, t) <= Count(tasksQ, t) + Count(tasks, t)
               PROVE  Len(g) <= TasksCap
    BY DEF HasRoom
  <2>1. \A t : Count(g, t) \in Nat
    BY CountFinite
  <2>2. \A t \in Task : Count(g, t) <= Places(t)
    BY <1>6, <2>1
  <2>3. \A t \in Periodic : Count(g, t) <= 1
    BY <1>4, <1>6, <2>1, <2>2 DEF Task
  <2>4. \A t \in OneShot : Count(g, t) <= MaxPending
    <3> TAKE t \in OneShot
    <3>1. Count(g, t) <= Places(t) /\ Places(t) <= MaxPending
      BY <1>5, <2>2 DEF Task
    <3>2. Count(g, t) \in Nat /\ Places(t) \in Nat /\ MaxPending \in Nat
      BY <1>6, <2>1, SchedulerAssumption
    <3> QED
      BY <3>1, <3>2
  <2> QED
    BY <2>3, <2>4, TasksFit
<1>8. HasRoom(Periodic, delayedQ, delayed, DelayedCap)
  <2> SUFFICES ASSUME NEW g \in Seq(Periodic),
                      \A t \in Periodic : Count(g, t) <= Count(delayedQ, t) + Count(delayed, t)
               PROVE  Len(g) <= DelayedCap
    BY DEF HasRoom
  <2>1. \A t : Count(g, t) \in Nat
    BY CountFinite
  <2>2. \A t \in Periodic : Count(g, t) <= 1
    BY <1>4, <1>6, <2>1
  <2> QED
    BY <2>2, DelayedFit
<1>9. /\ ready.queue = <<>>
      /\ ready.heap \in Seq(Task)
      /\ \A t : Count(ready.heap, t) = Count(tasksQ, t) + Count(tasks, t)
  <2>1. tasksQ \in Seq(DOMAIN Prio) /\ tasks \in Seq(DOMAIN Prio) /\ HasRoom(DOMAIN Prio, tasksQ, tasks, TasksCap)
    BY <1>1, <1>2, <1>3, <1>7
  <2>2. /\ ready.queue = <<>>
        /\ ready.heap \in Seq(DOMAIN Prio)
        /\ \A t : Count(ready.heap, t) = Count(tasksQ, t) + Count(tasks, t)
    BY <1>3, <2>1, DrainedAll
  <2> QED
    BY <1>3, <2>2
<1>10. /\ late.queue = <<>>
       /\ late.heap \in Seq(Periodic)
       /\ \A t : Count(late.heap, t) = Count(delayedQ, t) + Count(delayed, t)
  <2>1. delayedQ \in Seq(DOMAIN wake) /\ delayed \in Seq(DOMAIN wake) /\ HasRoom(DOMAIN wake, delayedQ, delayed, DelayedCap)
    BY <1>1, <1>3, <1>8
  <2>2. /\ late.queue = <<>>
        /\ late.heap \in Seq(DOMAIN wake)
        /\ \A t : Count(late.heap, t) = Count(delayedQ, t) + Count(delayed, t)
    BY <1>3, <2>1, DrainedAll
  <2> QED
    BY <1>3, <2>2
<1>11. HouseKept = [tasks |-> moved.tasks, delayed |-> moved.delayed,
                    tasksQ |-> ready.queue, delayedQ |-> late.queue]
  BY DEF HouseKept
<1> DEFINE r == ready.heap
           l == late.heap
<1>12. moved = Released(l, r)
  OBVIOUS
<1>13. r \in Seq(Task) /\ l \in Seq(Periodic)
  BY <1>9, <1>10
<1>14. \A t : Count(l, t) + Count(r, t) = Places(t)
  <2> TAKE t
  <2>1. Count(r, t) = Count(tasksQ, t) + Count(tasks, t)
    BY <1>9
  <2>2. Count(l, t) = Count(delayedQ, t) + Count(delayed, t)
    BY <1>10
  <2> HIDE DEF r, l
  <2> QED
    BY <1>6, <2>1, <2>2
<1>15. \A t \in Periodic : InHeap(r, t) => wake[t] = 0
  <2> SUFFICES ASSUME NEW t \in Periodic, InHeap(r, t) PROVE wake[t] = 0
    OBVIOUS
  <2>1. Count(r, t) = Count(tasksQ, t) + Count(tasks, t)
    BY <1>9
  <2> HIDE DEF r
  <2>2. Count(r, t) # 0
    BY <1>13, InHeapCounts
  <2>3. Count(tasksQ, t) = 0
    BY PlacesIsNat DEF Inv
  <2>4. Count(tasks, t) # 0
    BY <1>6, <2>1, <2>2, <2>3
  <2>5. InHeap(tasks, t)
    BY <1>1, <2>4, InHeapCounts
  <2> QED
    BY <2>5 DEF Inv, DueOrNotInTasks
<1> HIDE DEF moved
<1>16. HouseKept.tasks = moved.tasks /\ HouseKept.delayed = moved.delayed
  BY <1>11
<1>17. HouseKept.tasksQ = <<>> /\ HouseKept.delayedQ = <<>>
  <2>1. HouseKept.tasksQ = ready.queue /\ HouseKept.delayedQ = late.queue
    BY <1>11
  <2> QED
    BY <1>9, <1>10, <2>1
<1> HIDE DEF r, l, ready, late
<1>18. WithinBounds(l, r)
  BY <1>4, <1>5, <1>14 DEF WithinBounds
<1>19. /\ moved.delayed \in Seq(Periodic)
       /\ moved.tasks \in Seq(Task)
       /\ \A t : Count(moved.delayed, t) + Count(moved.tasks, t) = Count(l, t) + Count(r, t)
       /\ \A t \in Periodic : InHeap(moved.tasks, t) => InHeap(r, t) \/ wake[t] = 0
  BY <1>1, <1>12, <1>13, <1>18, ReleasedAll
<1>20. \A t : Count(moved.tasks, t) + Count(moved.delayed, t) = Places(t)
  <2> TAKE t
  <2>1. Count(moved.delayed, t) + Count(moved.tasks, t) = Places(t)
    BY <1>14, <1>19
  <2>2. Count(moved.delayed, t) \in Nat /\ Count(moved.tasks, t) \in Nat
    <3> DEFINE md == moved.delayed
               mt == moved.tasks
    <3>1. md \in Seq(Periodic) /\ mt \in Seq(Task)
      BY <1>19
    <3> HIDE DEF md, mt
    <3>2. Count(md, t) \in Nat /\ Count(mt, t) \in Nat
      BY <3>1, CountFinite
    <3> QED
      BY <3>2 DEF md, mt
  <2> QED
    BY <2>1, <2>2
<1> QED
  BY <1>15, <1>16, <1>17, <1>19, <1>20

-----------------------------------------------------------------------------
(* What each action does to the places of the tasks.                       *)

LEMMA PlacesKept ==
  ASSUME UNCHANGED heaps
  PROVE  /\ \A u : Places(u)' = Places(u)
         /\ tasks' = tasks
         /\ delayed' = delayed
         /\ tasksQ' = tasksQ
         /\ delayedQ' = delayedQ
BY DEF Places, heaps

LEMMA PlacesPrimed ==
  ASSUME NEW u
  PROVE  Places(u)' = Count(tasks', u) + Count(delayed', u) + Count(tasksQ', u) + Count(delayedQ', u)
BY DEF Places

LEMMA EnableQueues ==
  ASSUME Inv, NEW t \in Periodic, EnablePeriodic(t)
  PROVE  /\ delayed' \in Seq(Periodic)
         /\ \A u : Places(u)' = IF u = t /\ t # current THEN Places(u) + 1 ELSE Places(u)
<1>1. delayed \in Seq(Periodic) /\ wake \in [Periodic -> Nat]
  BY DEF Inv, SchedTypeOK
<1>2. \A u : /\ Places(u) = Count(tasks, u) + Count(delayed, u) + Count(tasksQ, u) + Count(delayedQ, u)
             /\ Count(tasks, u) \in Nat
             /\ Count(delayed, u) \in Nat
             /\ Count(tasksQ, u) \in Nat
             /\ Count(delayedQ, u) \in Nat
  BY PlacesIsNat DEF Inv
<1>3. tasks' = tasks /\ tasksQ' = tasksQ /\ delayedQ' = delayedQ
  BY DEF EnablePeriodic
<1>4. Len(delayed) < DelayedCap
  <2> DEFINE more == Append(delayed, t)
  <2>1. more \in Seq(Periodic) /\ Len(more) = Len(delayed) + 1
    BY <1>1, AppendProperties
  <2>2. \A u : Count(more, u) = IF u = t THEN Count(delayed, u) + 1 ELSE Count(delayed, u)
    BY <1>1, CountAppend
  <2> HIDE DEF more
  <2>3. Places(t) = 0
    BY DEF Inv, QueuedAtMostOnce, EnablePeriodic
  <2>4. \A u \in Periodic : Places(u) <= 1
    BY DEF Inv, QueuedAtMostOnce
  <2>5. \A u \in Periodic : Count(more, u) <= 1
    BY <1>2, <2>2, <2>3, <2>4
  <2>6. Len(more) <= DelayedCap
    BY <2>1, <2>5, DelayedFit
  <2>7. Len(delayed) \in Nat /\ DelayedCap \in Nat
    BY <1>1, LenProperties, SchedulerAssumption
  <2> QED
    BY <2>1, <2>6, <2>7
<1>5. delayed' = IF t # current THEN HeapAdd(delayed, t, wake) ELSE delayed
  BY <1>4 DEF EnablePeriodic
<1>6. CASE t = current
  <2>1. delayed' = delayed
    BY <1>5, <1>6
  <2> QED
    BY <1>1, <1>3, <1>6, <2>1, PlacesKept DEF heaps
<1>7. CASE t # current
  <2> DEFINE g == HeapAdd(delayed, t, wake)
  <2>1. DOMAIN wake = Periodic
    BY <1>1
  <2>2. g \in Seq(Periodic) /\ \A u : Count(g, u) = IF u = t THEN Count(delayed, u) + 1 ELSE Count(delayed, u)
    BY <1>1, <2>1, HeapAddKeeps
  <2>3. delayed' = g
    BY <1>5, <1>7
  <2> HIDE DEF g
  <2>4. ASSUME NEW u PROVE Places(u)' = IF u = t THEN Places(u) + 1 ELSE Places(u)
    <3>1. Places(u)' = Count(tasks, u) + Count(g, u) + Count(tasksQ, u) + Count(delayedQ, u)
      BY <1>3, <2>3, PlacesPrimed
    <3> QED
      BY <1>2, <2>2, <3>1
  <2> QED
    BY <1>7, <2>2, <2>3, <2>4
<1> QED
  BY <1>6, <1>7

LEMMA RemoveFromKeeps ==
  ASSUME NEW K, NEW h \in Seq(DOMAIN K), NEW t \in DOMAIN K
  PROVE  /\ RemoveFrom(h, t, K) \in Seq(DOMAIN K)
         /\ \A u : u # t => Count(RemoveFrom(h, t, K), u) = Count(h, u)
         /\ Count(h, t) <= 1 => Count(RemoveFrom(h, t, K), t) = 0
<1> DEFINE g == RemoveFrom(h, t, K)
           S == DOMAIN K
<1>1. CASE InHeap(h, t)
  <2>1. g = HeapRemove(h, t, K)
    BY <1>1 DEF RemoveFrom
  <2>2. g \in Seq(S) /\ \A u : Count(h, u) = IF u = t THEN Count(g, u) + 1 ELSE Count(g, u)
    BY <1>1, <2>1, HeapRemoveKeeps
  <2> HIDE DEF g
  <2>3. Count(g, t) \in Nat /\ Count(h, t) = Count(g, t) + 1
    BY <2>2, CountFinite
  <2>4. Count(h, t) <= 1 => Count(g, t) = 0
    BY <2>3
  <2> QED
    BY <2>2, <2>4 DEF g
<1>2. CASE ~ InHeap(h, t)
  <2>1. g = h
    BY <1>2 DEF RemoveFrom
  <2>2. Count(h, t) = 0
    BY <1>2, InHeapCounts
  <2> QED
    BY <2>1, <2>2
<1> QED
  BY <1>1, <1>2

LEMMA DisableQueues ==
  ASSUME Inv, NEW t \in Periodic, DisablePeriodic(t)
  PROVE  /\ tasks' \in Seq(Task)
         /\ delayed' \in Seq(Periodic)
         /\ tasksQ' = <<>>
         /\ delayedQ' = <<>>
         /\ \A u : Places(u)' = IF u = t THEN 0 ELSE Places(u)
         /\ \A u \in Periodic : InHeap(tasks', u) => wake[u] = 0
<1> DEFINE a == HouseKept.tasks
           b == HouseKept.delayed
           a2 == RemoveFrom(a, t, Prio)
           b2 == RemoveFrom(b, t, wake)
<1>1. /\ a \in Seq(Task)
      /\ b \in Seq(Periodic)
      /\ \A u : Count(a, u) + Count(b, u) = Places(u)
      /\ \A u \in Periodic : InHeap(a, u) => wake[u] = 0
  BY HouseKeeping
<1>2. tasksQ' = <<>> /\ delayedQ' = <<>>
  BY HouseKeeping DEF DisablePeriodic
<1>3. tasks' = a2 /\ delayed' = b2
  BY DEF DisablePeriodic
<1> HIDE DEF a, b
<1>4. DOMAIN Prio = Task /\ DOMAIN wake = Periodic /\ t \in Task
  BY SchedulerAssumption DEF Inv, SchedTypeOK, Task
<1>5. \A u : Count(a, u) \in Nat /\ Count(b, u) \in Nat
  BY <1>1, CountFinite
<1>6. Places(t) <= 1
  BY DEF Inv, QueuedAtMostOnce
<1>7. Count(a, t) <= 1 /\ Count(b, t) <= 1
  <2>1. Count(a, t) + Count(b, t) <= 1
    BY <1>1, <1>6
  <2> QED
    BY <1>5, <2>1
<1>8. a2 \in Seq(Task) /\ Count(a2, t) = 0 /\ \A u : u # t => Count(a2, u) = Count(a, u)
  BY <1>1, <1>4, <1>7, RemoveFromKeeps
<1>9. b2 \in Seq(Periodic) /\ Count(b2, t) = 0 /\ \A u : u # t => Count(b2, u) = Count(b, u)
  BY <1>1, <1>4, <1>7, RemoveFromKeeps
<1> HIDE DEF a2, b2
<1>10. ASSUME NEW u PROVE Places(u)' = IF u = t THEN 0 ELSE Places(u)
  <2>1. Places(u)' = Count(a2, u) + Count(b2, u) + Count(<<>>, u) + Count(<<>>, u)
    BY <1>2, <1>3, PlacesPrimed
  <2>2. Count(<<>>, u) = 0
    BY CountEmpty
  <2>3. Places(u)' = Count(a2, u) + Count(b2, u) + 0 + 0
    BY <2>1, <2>2, Zenon
  <2>4. Count(a2, u) \in Nat /\ Count(b2, u) \in Nat
    BY <1>8, <1>9, CountFinite
  <2>5. Places(u)' = Count(a2, u) + Count(b2, u)
    BY <2>3, <2>4
  <2>6. CASE u = t
    BY <1>8, <1>9, <2>5, <2>6
  <2>7. CASE u # t
    BY <1>1, <1>8, <1>9, <2>5, <2>7
  <2> QED
    BY <2>6, <2>7
<1>11. ASSUME NEW u \in Periodic, InHeap(tasks', u) PROVE wake[u] = 0
  <2>1. InHeap(a2, u)
    BY <1>3, <1>11
  <2>2. Count(a2, u) # 0
    BY <1>8, <2>1, InHeapCounts
  <2>3. Count(a, u) # 0
    BY <1>8, <2>2
  <2>4. InHeap(a, u)
    BY <1>1, <2>3, InHeapCounts
  <2> QED
    BY <1>1, <2>4
<1> QED
  BY <1>2, <1>3, <1>8, <1>9, <1>10, <1>11

LEMMA DispatchQueues ==
  ASSUME Inv, Dispatch
  PROVE  /\ tasks' \in Seq(Task)
         /\ delayed' \in Seq(Periodic)
         /\ tasksQ' = <<>>
         /\ delayedQ' = <<>>
         /\ \A u \in Periodic : InHeap(tasks', u) => wake[u] = 0
         /\ \/ /\ UNCHANGED <<current, mpc, calls, owed>>
               /\ \A u : Places(u)' = Places(u)
            \/ /\ current' \in Task /\ mpc' = "callback" /\ calls' = MaxCalls
               /\ owed' = [u \in OneShot |-> IF u = current' THEN owed[u] - 1 ELSE owed[u]]
               /\ \A u : Places(u) = IF u = current' THEN Places(u)' + 1 ELSE Places(u)'
<1> DEFINE a == HouseKept.tasks
           b == HouseKept.delayed
           x == HeapTop(a)
           a2 == HeapRemove(a, x, Prio)
<1>1. /\ a \in Seq(Task)
      /\ b \in Seq(Periodic)
      /\ \A u : Count(a, u) + Count(b, u) = Places(u)
      /\ \A u \in Periodic : InHeap(a, u) => wake[u] = 0
  BY HouseKeeping
<1>2. tasksQ' = <<>> /\ delayedQ' = <<>>
  BY HouseKeeping DEF Dispatch
<1>3. delayed' = b
  BY DEF Dispatch
<1>4. \A u : Count(a, u) \in Nat /\ Count(b, u) \in Nat
  <2> HIDE DEF a, b
  <2> QED
    BY <1>1, CountFinite
<1>5. ASSUME NEW u PROVE Places(u)' = Count(tasks', u) + Count(b, u) + 0 + 0
  <2>1. Places(u)' = Count(tasks', u) + Count(b, u) + Count(<<>>, u) + Count(<<>>, u)
    BY <1>2, <1>3, PlacesPrimed
  <2>2. Count(<<>>, u) = 0
    BY CountEmpty
  <2> QED
    BY <2>1, <2>2, Zenon
<1>6. CASE a = <<>>
  <2>1. tasks' = a /\ UNCHANGED <<current, mpc, calls, owed>>
    BY <1>6 DEF Dispatch
  <2> HIDE DEF a, b
  <2>2. ASSUME NEW u PROVE Places(u)' = Places(u)
    <3>1. Places(u)' = Count(a, u) + Count(b, u) + 0 + 0
      BY <1>5, <2>1
    <3> QED
      BY <1>1, <1>4, <3>1
  <2> QED
    BY <1>1, <1>2, <1>3, <2>1, <2>2
<1>7. CASE a # <<>>
  <2>1. tasks' = a2 /\ current' = x /\ mpc' = "callback" /\ calls' = MaxCalls
    BY <1>7 DEF Dispatch
  <2>2. owed' = [u \in OneShot |-> IF u = x THEN owed[u] - 1 ELSE owed[u]]
    BY <1>7 DEF Dispatch
  <2> HIDE DEF a, b
  <2>3. x \in Task /\ InHeap(a, x)
    BY <1>1, <1>7, HeapTopIn
  <2> HIDE DEF x
  <2>4. DOMAIN Prio = Task
    BY SchedulerAssumption
  <2>5. a2 \in Seq(Task) /\ \A u : Count(a, u) = IF u = x THEN Count(a2, u) + 1 ELSE Count(a2, u)
    BY <1>1, <2>3, <2>4, HeapRemoveKeeps
  <2> HIDE DEF a2
  <2>6. \A u : Count(a2, u) \in Nat
    BY <2>5, CountFinite
  <2>7. ASSUME NEW u PROVE Places(u) = IF u = x THEN Places(u)' + 1 ELSE Places(u)'
    <3>1. Places(u)' = Count(a2, u) + Count(b, u) + 0 + 0
      BY <1>5, <2>1
    <3>2. Places(u) = Count(a, u) + Count(b, u)
      BY <1>1
    <3> QED
      BY <1>4, <2>5, <2>6, <3>1, <3>2
  <2>8. ASSUME NEW u \in Periodic, InHeap(tasks', u) PROVE wake[u] = 0
    <3>1. InHeap(a2, u)
      BY <2>1, <2>8
    <3>2. Count(a2, u) # 0
      BY <2>5, <3>1, InHeapCounts
    <3>3. Count(a, u) # 0
      BY <2>5, <2>6, <3>2
    <3>4. InHeap(a, u)
      BY <1>1, <3>3, InHeapCounts
    <3> QED
      BY <1>1, <3>4
  <2> QED
    BY <1>1, <1>2, <1>3, <2>1, <2>2, <2>3, <2>5, <2>7, <2>8
<1> QED
  BY <1>6, <1>7

LEMMA RequeueQueues ==
  ASSUME Inv, Requeue
  PROVE  /\ current \in Periodic
         /\ current \in enabled
         /\ delayedQ' \in Seq(Periodic)
         /\ \A u : Places(u)' = IF u = current THEN Places(u) + 1 ELSE Places(u)
<1>1. current \in enabled /\ delayedQ = <<>>
  BY DEF Requeue, Inv, Phases
<1>2. current \in Periodic /\ delayedQ \in Seq(Periodic)
  BY <1>1 DEF Inv, SchedTypeOK
<1>3. ~ IsFull(delayedQ)
  <2>1. Len(<<>>) = 0
    OBVIOUS
  <2>2. QueueSize - 1 # 0
    BY SchedulerAssumption
  <2> QED
    BY <1>1, <2>1, <2>2 DEF IsFull
<1> DEFINE g == Append(delayedQ, current)
<1>4. delayedQ' = g
  BY <1>3 DEF Requeue
<1>5. g \in Seq(Periodic)
  BY <1>2, AppendProperties
<1>6. \A u : Count(g, u) = IF u = current THEN Count(delayedQ, u) + 1 ELSE Count(delayedQ, u)
  BY <1>2, CountAppend
<1> HIDE DEF g
<1>7. ASSUME NEW u PROVE Places(u)' = IF u = current THEN Places(u) + 1 ELSE Places(u)
  <2>1. /\ Places(u) = Count(tasks, u) + Count(delayed, u) + Count(tasksQ, u) + Count(delayedQ, u)
        /\ Count(tasks, u) \in Nat
        /\ Count(delayed, u) \in Nat
        /\ Count(tasksQ, u) \in Nat
        /\ Count(delayedQ, u) \in Nat
    BY PlacesIsNat DEF Inv
  <2>2. tasks' = tasks /\ delayed' = delayed /\ tasksQ' = tasksQ
    BY DEF Requeue
  <2>3. Places(u)' = Count(tasks, u) + Count(delayed, u) + Count(tasksQ, u) + Count(g, u)
    BY <1>4, <2>2, PlacesPrimed
  <2> QED
    BY <1>6, <2>1, <2>3
<1> QED
  BY <1>1, <1>2, <1>4, <1>5, <1>7

LEMMA QueueTaskQueues ==
  ASSUME Inv, NEW t \in OneShot, QueueTask(t)
  PROVE  /\ tasksQ' \in Seq(OneShot)
         /\ \A u : Places(u)' = IF u = t THEN Places(u) + 1 ELSE Places(u)
<1> DEFINE g == Append(tasksQ, t)
<1>1. tasksQ \in Seq(OneShot)
  BY DEF Inv, SchedTypeOK
<1>2. tasksQ' = g /\ tasks' = tasks /\ delayed' = delayed /\ delayedQ' = delayedQ
  BY DEF QueueTask
<1>3. g \in Seq(OneShot)
  BY <1>1, AppendProperties
<1>4. \A u : Count(g, u) = IF u = t THEN Count(tasksQ, u) + 1 ELSE Count(tasksQ, u)
  BY <1>1, CountAppend
<1> HIDE DEF g
<1>5. ASSUME NEW u PROVE Places(u)' = IF u = t THEN Places(u) + 1 ELSE Places(u)
  <2>1. /\ Places(u) = Count(tasks, u) + Count(delayed, u) + Count(tasksQ, u) + Count(delayedQ, u)
        /\ Count(tasks, u) \in Nat
        /\ Count(delayed, u) \in Nat
        /\ Count(tasksQ, u) \in Nat
        /\ Count(delayedQ, u) \in Nat
    BY PlacesIsNat DEF Inv
  <2>2. Places(u)' = Count(tasks, u) + Count(delayed, u) + Count(g, u) + Count(delayedQ, u)
    BY <1>2, PlacesPrimed
  <2> QED
    BY <1>4, <2>1, <2>2
<1> QED
  BY <1>2, <1>3, <1>5

-----------------------------------------------------------------------------
(* Each action keeps the invariant.                                        *)

LEMMA DispatchKeeps ==
  ASSUME Inv, Dispatch
  PROVE  Inv'
<1>1. /\ tasks' \in Seq(Task)
      /\ delayed' \in Seq(Periodic)
      /\ tasksQ' = <<>>
      /\ delayedQ' = <<>>
      /\ \A u \in Periodic : InHeap(tasks', u) => wake[u] = 0
  BY DispatchQueues
<1>2. mpc = "loop" /\ enabled' = enabled /\ wake' = wake
  BY DEF Dispatch
<1>3. current = NoTask
  BY <1>2 DEF Inv, Phases
<1>4. \A u : Places(u) \in Nat
  BY PlacesIsNat DEF Inv
<1>5. \A u : Places(u)' \in Nat
  <2> TAKE u
  <2>1. Count(tasks', u) \in Nat /\ Count(delayed', u) \in Nat
    BY <1>1, CountFinite
  <2>2. Count(tasksQ', u) = 0 /\ Count(delayedQ', u) = 0
    BY <1>1, CountEmpty
  <2> QED
    BY <2>1, <2>2, PlacesPrimed
<1>6. DueOrNotInTasks'
  BY <1>1, <1>2 DEF DueOrNotInTasks
<1>7. tasksQ' \in Seq(OneShot) /\ delayedQ' \in Seq(Periodic)
  BY <1>1, EmptySeq
<1>8. CASE /\ UNCHANGED <<current, mpc, calls, owed>>
           /\ \A u : Places(u)' = Places(u)
  <2>1. SchedTypeOK'
    BY <1>1, <1>2, <1>7, <1>8 DEF Inv, SchedTypeOK
  <2>2. Phases'
    BY <1>2, <1>3, <1>8 DEF Phases
  <2>3. QueuedAtMostOnce'
    BY <1>2, <1>8 DEF Inv, QueuedAtMostOnce
  <2>4. AcceptedRunsOnce'
    BY <1>8 DEF Inv, AcceptedRunsOnce
  <2> QED
    BY <1>6, <2>1, <2>2, <2>3, <2>4 DEF Inv
<1>9. CASE /\ current' \in Task /\ mpc' = "callback" /\ calls' = MaxCalls
           /\ owed' = [u \in OneShot |-> IF u = current' THEN owed[u] - 1 ELSE owed[u]]
           /\ \A u : Places(u) = IF u = current' THEN Places(u)' + 1 ELSE Places(u)'
  <2>1. \A u \in OneShot : Places(u) = owed[u] /\ owed[u] \in 0 .. MaxPending
    BY DEF Inv, AcceptedRunsOnce, SchedTypeOK
  <2>2. ASSUME NEW u \in OneShot PROVE Places(u)' = owed'[u] /\ owed'[u] \in 0 .. MaxPending
    <3>1. owed'[u] = IF u = current' THEN owed[u] - 1 ELSE owed[u]
      BY <1>9
    <3>2. CASE u = current'
      <4>1. Places(u) = Places(u)' + 1 /\ Places(u) = owed[u] /\ owed'[u] = owed[u] - 1
        BY <1>9, <2>1, <3>1, <3>2
      <4>2. Places(u)' \in Nat /\ owed[u] \in 0 .. MaxPending /\ MaxPending \in Nat
        BY <1>5, <2>1, SchedulerAssumption
      <4> QED
        BY <4>1, <4>2
    <3>3. CASE u # current'
      BY <1>9, <2>1, <3>1, <3>3
    <3> QED
      BY <3>2, <3>3
  <2>3. owed' \in [OneShot -> 0 .. MaxPending]
    BY <1>9, <2>2
  <2>4. calls' \in 0 .. MaxCalls
    BY <1>9, SchedulerAssumption
  <2>5. SchedTypeOK'
    BY <1>1, <1>2, <1>7, <1>9, <2>3, <2>4 DEF Inv, SchedTypeOK
  <2>6. Phases'
    BY <1>1, <1>9, SchedulerAssumption DEF Phases
  <2>7. QueuedAtMostOnce'
    <3>1. ASSUME NEW u \in Periodic
          PROVE  /\ Places(u)' <= 1
                 /\ u \notin enabled => Places(u)' = 0
                 /\ u = current' => Places(u)' = 0
      <4>1. Places(u) <= 1 /\ (u \notin enabled => Places(u) = 0)
        BY DEF Inv, QueuedAtMostOnce
      <4>2. Places(u) = IF u = current' THEN Places(u)' + 1 ELSE Places(u)'
        BY <1>9
      <4> QED
        BY <1>4, <1>5, <4>1, <4>2
    <3> QED
      BY <1>2, <3>1 DEF QueuedAtMostOnce
  <2>8. AcceptedRunsOnce'
    BY <2>2 DEF AcceptedRunsOnce
  <2> QED
    BY <1>6, <2>5, <2>6, <2>7, <2>8 DEF Inv
<1> QED
  BY <1>8, <1>9, DispatchQueues

(* The actions that leave the heaps and the debts alone. *)
LEMMA EndCallbackKeeps ==
  ASSUME Inv, EndCallback
  PROVE  Inv'
<1>1. /\ UNCHANGED heaps
      /\ UNCHANGED <<enabled, current, owed>>
      /\ mpc = "callback"
      /\ calls' = 0
  BY DEF EndCallback
<1>2. /\ \A u : Places(u)' = Places(u)
      /\ tasks' = tasks
      /\ delayed' = delayed
      /\ tasksQ' = tasksQ
      /\ delayedQ' = delayedQ
  BY <1>1, PlacesKept
<1>3. \/ current \in enabled /\ mpc' = "requeue" /\ wake' = [wake EXCEPT ![current] = Interval[current]]
      \/ mpc' = "return" /\ wake' = wake
  BY DEF EndCallback
<1>4. wake' \in [Periodic -> Nat]
  <2>1. CASE current \in enabled /\ wake' = [wake EXCEPT ![current] = Interval[current]]
    <3>1. current \in Periodic /\ wake \in [Periodic -> Nat]
      BY <2>1 DEF Inv, SchedTypeOK
    <3>2. Interval[current] \in Nat
      BY <3>1, SchedulerAssumption
    <3> QED
      BY <2>1, <3>1, <3>2
  <2>2. CASE wake' = wake
    BY <2>2 DEF Inv, SchedTypeOK
  <2> QED
    BY <1>3, <2>1, <2>2
<1>5. 0 \in 0 .. MaxCalls
  BY SchedulerAssumption
<1>6. SchedTypeOK'
  BY <1>1, <1>2, <1>3, <1>4, <1>5 DEF Inv, SchedTypeOK
<1>7. Phases'
  BY <1>1, <1>2, <1>3 DEF Inv, Phases
<1>8. QueuedAtMostOnce'
  BY <1>1, <1>2, <1>3 DEF Inv, QueuedAtMostOnce
<1>9. AcceptedRunsOnce'
  BY <1>1, <1>2 DEF Inv, AcceptedRunsOnce
<1>10. DueOrNotInTasks'
  <2> SUFFICES ASSUME NEW t \in Periodic, InHeap(tasks, t) PROVE wake'[t] = 0
    BY <1>2 DEF DueOrNotInTasks
  <2>1. wake[t] = 0 /\ wake \in [Periodic -> Nat]
    BY DEF Inv, DueOrNotInTasks, SchedTypeOK
  <2>2. t # current
    <3>1. Count(tasks, t) # 0
      BY InHeapCounts DEF Inv, SchedTypeOK
    <3>2. Places(t) # 0
      BY <3>1, PlacesIsNat DEF Inv
    <3> QED
      BY <1>1, <3>2 DEF Inv, QueuedAtMostOnce
  <2> QED
    BY <1>3, <2>1, <2>2
<1> QED
  BY <1>6, <1>7, <1>8, <1>9, <1>10 DEF Inv

LEMMA ReturnKeeps ==
  ASSUME Inv, Return
  PROVE  Inv'
<1>1. /\ UNCHANGED heaps
      /\ UNCHANGED <<enabled, wake, calls, owed>>
      /\ mpc' = "loop"
      /\ current' = NoTask
  BY DEF Return
<1>2. /\ \A u : Places(u)' = Places(u)
      /\ tasks' = tasks
      /\ delayed' = delayed
      /\ tasksQ' = tasksQ
      /\ delayedQ' = delayedQ
  BY <1>1, PlacesKept
<1>3. SchedTypeOK'
  BY <1>1, <1>2 DEF Inv, SchedTypeOK
<1>4. Phases'
  BY <1>1 DEF Phases
<1>5. QueuedAtMostOnce'
  BY <1>1, <1>2 DEF Inv, QueuedAtMostOnce
<1>6. AcceptedRunsOnce'
  BY <1>1, <1>2 DEF Inv, AcceptedRunsOnce
<1>7. DueOrNotInTasks'
  BY <1>1, <1>2 DEF Inv, DueOrNotInTasks
<1> QED
  BY <1>3, <1>4, <1>5, <1>6, <1>7 DEF Inv

LEMMA RequeueKeeps ==
  ASSUME Inv, Requeue
  PROVE  Inv'
<1>1. /\ current \in Periodic
      /\ current \in enabled
      /\ delayedQ' \in Seq(Periodic)
      /\ \A u : Places(u)' = IF u = current THEN Places(u) + 1 ELSE Places(u)
  BY RequeueQueues
<1>2. /\ UNCHANGED <<tasks, delayed, tasksQ, enabled, wake, current, calls, owed>>
      /\ mpc = "requeue"
      /\ mpc' = "return"
  BY DEF Requeue
<1>3. SchedTypeOK'
  BY <1>1, <1>2 DEF Inv, SchedTypeOK
<1>4. Phases'
  BY <1>1, <1>2, SchedulerAssumption DEF Inv, Phases, Task
<1>5. QueuedAtMostOnce'
  <2>1. ASSUME NEW u \in Periodic
        PROVE  Places(u)' <= 1 /\ (u \notin enabled => Places(u)' = 0)
    <3>1. /\ Places(u) <= 1
          /\ u \notin enabled => Places(u) = 0
          /\ u = current => Places(u) = 0
      BY <1>2 DEF Inv, QueuedAtMostOnce
    <3> QED
      BY <1>1, <3>1
  <2> QED
    BY <1>2, <2>1 DEF QueuedAtMostOnce
<1>6. AcceptedRunsOnce'
  <2>1. current \notin OneShot
    BY <1>1, SchedulerAssumption
  <2> QED
    BY <1>1, <1>2, <2>1 DEF Inv, AcceptedRunsOnce
<1>7. DueOrNotInTasks'
  BY <1>2 DEF Inv, DueOrNotInTasks
<1> QED
  BY <1>3, <1>4, <1>5, <1>6, <1>7 DEF Inv

LEMMA EnableKeeps ==
  ASSUME Inv, NEW t \in Periodic, EnablePeriodic(t), calls' \in 0 .. MaxCalls
  PROVE  Inv'
<1>1. /\ delayed' \in Seq(Periodic)
      /\ \A u : Places(u)' = IF u = t /\ t # current THEN Places(u) + 1 ELSE Places(u)
  BY EnableQueues
<1>2. /\ UNCHANGED <<tasks, tasksQ, delayedQ, wake, current, mpc, owed>>
      /\ t \notin enabled
      /\ enabled' = enabled \cup {t}
  BY DEF EnablePeriodic
<1>3. SchedTypeOK'
  BY <1>1, <1>2 DEF Inv, SchedTypeOK
<1>4. Phases'
  BY <1>2 DEF Inv, Phases
<1>5. QueuedAtMostOnce'
  <2>1. ASSUME NEW u \in Periodic
        PROVE  /\ Places(u)' <= 1
               /\ u \notin enabled' => Places(u)' = 0
               /\ u = current /\ mpc \in {"callback", "requeue"} => Places(u)' = 0
    <3>1. /\ Places(u) <= 1
          /\ u \notin enabled => Places(u) = 0
          /\ u = current /\ mpc \in {"callback", "requeue"} => Places(u) = 0
      BY DEF Inv, QueuedAtMostOnce
    <3>2. CASE u = t
      BY <1>1, <1>2, <3>1, <3>2
    <3>3. CASE u # t
      BY <1>1, <1>2, <3>1, <3>3
    <3> QED
      BY <3>2, <3>3
  <2> QED
    BY <1>2, <2>1 DEF QueuedAtMostOnce
<1>6. AcceptedRunsOnce'
  <2>1. t \notin OneShot
    BY SchedulerAssumption
  <2> QED
    BY <1>1, <1>2, <2>1 DEF Inv, AcceptedRunsOnce
<1>7. DueOrNotInTasks'
  BY <1>2 DEF Inv, DueOrNotInTasks
<1> QED
  BY <1>3, <1>4, <1>5, <1>6, <1>7 DEF Inv

LEMMA DisableKeeps ==
  ASSUME Inv, NEW t \in Periodic, DisablePeriodic(t), mpc = "callback", calls' \in 0 .. MaxCalls
  PROVE  Inv'
<1>1. /\ tasks' \in Seq(Task)
      /\ delayed' \in Seq(Periodic)
      /\ tasksQ' = <<>>
      /\ delayedQ' = <<>>
      /\ \A u : Places(u)' = IF u = t THEN 0 ELSE Places(u)
      /\ \A u \in Periodic : InHeap(tasks', u) => wake[u] = 0
  BY DisableQueues
<1>2. /\ UNCHANGED <<wake, current, mpc, owed>>
      /\ enabled' = enabled \ {t}
  BY DEF DisablePeriodic
<1>3. tasksQ' \in Seq(OneShot) /\ delayedQ' \in Seq(Periodic)
  BY <1>1, EmptySeq
<1>4. SchedTypeOK'
  BY <1>1, <1>2, <1>3 DEF Inv, SchedTypeOK
<1>5. Phases'
  BY <1>1, <1>2 DEF Inv, Phases
<1>6. QueuedAtMostOnce'
  BY <1>1, <1>2 DEF Inv, QueuedAtMostOnce
<1>7. AcceptedRunsOnce'
  <2>1. t \notin OneShot
    BY SchedulerAssumption
  <2> QED
    BY <1>1, <1>2, <2>1 DEF Inv, AcceptedRunsOnce
<1>8. DueOrNotInTasks'
  BY <1>1, <1>2 DEF DueOrNotInTasks
<1> QED
  BY <1>4, <1>5, <1>6, <1>7, <1>8 DEF Inv

LEMMA QueueTaskKeeps ==
  ASSUME Inv, NEW t \in OneShot, QueueTask(t)
  PROVE  Inv'
<1>1. /\ tasksQ' \in Seq(OneShot)
      /\ \A u : Places(u)' = IF u = t THEN Places(u) + 1 ELSE Places(u)
  BY QueueTaskQueues
<1>2. /\ UNCHANGED <<tasks, delayed, delayedQ, enabled, wake, current, mpc, calls>>
      /\ owed[t] < MaxPending
      /\ owed' = [owed EXCEPT ![t] = @ + 1]
  BY DEF QueueTask
<1>3. owed \in [OneShot -> 0 .. MaxPending] /\ MaxPending \in Nat
  BY SchedulerAssumption DEF Inv, SchedTypeOK
<1>4. owed' \in [OneShot -> 0 .. MaxPending]
  BY <1>2, <1>3
<1>5. SchedTypeOK'
  BY <1>1, <1>2, <1>4 DEF Inv, SchedTypeOK
<1>6. Phases'
  BY <1>2 DEF Inv, Phases
<1>7. QueuedAtMostOnce'
  <2>1. t \notin Periodic
    BY SchedulerAssumption
  <2> QED
    BY <1>1, <1>2, <2>1 DEF Inv, QueuedAtMostOnce
<1>8. AcceptedRunsOnce'
  <2>1. ASSUME NEW u \in OneShot PROVE Places(u)' = owed'[u]
    <3>1. Places(u) = owed[u]
      BY DEF Inv, AcceptedRunsOnce
    <3>2. owed'[u] = IF u = t THEN owed[u] + 1 ELSE owed[u]
      BY <1>2, <1>3
    <3> QED
      BY <1>1, <3>1, <3>2
  <2> QED
    BY <2>1 DEF AcceptedRunsOnce
<1>9. DueOrNotInTasks'
  BY <1>2 DEF Inv, DueOrNotInTasks
<1> QED
  BY <1>5, <1>6, <1>7, <1>8, <1>9 DEF Inv

LEMMA TickKeeps ==
  ASSUME Inv, Tick
  PROVE  Inv'
<1>1. /\ UNCHANGED heaps
      /\ UNCHANGED <<enabled, current, mpc, calls, owed>>
      /\ wake' = [t \in Periodic |-> IF wake[t] > 0 THEN wake[t] - 1 ELSE 0]
  BY DEF Tick
<1>2. /\ \A u : Places(u)' = Places(u)
      /\ tasks' = tasks
      /\ delayed' = delayed
      /\ tasksQ' = tasksQ
      /\ delayedQ' = delayedQ
  BY <1>1, PlacesKept
<1>3. wake \in [Periodic -> Nat]
  BY DEF Inv, SchedTypeOK
<1>4. wake' \in [Periodic -> Nat]
  BY <1>1, <1>3
<1>5. SchedTypeOK'
  BY <1>1, <1>2, <1>4 DEF Inv, SchedTypeOK
<1>6. Phases'
  BY <1>1, <1>2 DEF Inv, Phases
<1>7. QueuedAtMostOnce'
  BY <1>1, <1>2 DEF Inv, QueuedAtMostOnce
<1>8. AcceptedRunsOnce'
  BY <1>1, <1>2 DEF Inv, AcceptedRunsOnce
<1>9. DueOrNotInTasks'
  BY <1>1, <1>2 DEF Inv, DueOrNotInTasks
<1> QED
  BY <1>5, <1>6, <1>7, <1>8, <1>9 DEF Inv

LEMMA InvInit == Init => Inv
<1> SUFFICES ASSUME Init PROVE Inv
  OBVIOUS
<1>1. \A t : Places(t) = 0
  <2> TAKE t
  <2>1. Count(<<>>, t) = 0
    BY CountEmpty
  <2>2. Places(t) = 0 + 0 + 0 + 0
    BY <2>1 DEF Init, Places
  <2> QED
    BY <2>2
<1>2. SchedTypeOK
  <2>1. tasks \in Seq(Task) /\ delayed \in Seq(Periodic)
    BY EmptySeq DEF Init
  <2>2. tasksQ \in Seq(OneShot) /\ delayedQ \in Seq(Periodic)
    BY EmptySeq DEF Init
  <2>3. 0 \in 0 .. MaxPending /\ 0 \in 0 .. MaxCalls
    BY SchedulerAssumption
  <2> QED
    BY <2>1, <2>2, <2>3 DEF Init, SchedTypeOK
<1>3. Phases
  BY DEF Init, Phases
<1>4. QueuedAtMostOnce
  BY <1>1 DEF QueuedAtMostOnce
<1>5. AcceptedRunsOnce
  BY <1>1 DEF Init, AcceptedRunsOnce
<1>6. DueOrNotInTasks
  BY DEF Init, DueOrNotInTasks
<1> QED
  BY <1>2, <1>3, <1>4, <1>5, <1>6 DEF Inv

LEMMA InvStep == Inv /\ [Next]_schedVars => Inv'
<1> SUFFICES ASSUME Inv, [Next]_schedVars PROVE Inv'
  OBVIOUS
<1>1. CASE MainThread
  BY <1>1, DispatchKeeps, EndCallbackKeeps, RequeueKeeps, ReturnKeeps DEF MainThread
<1>2. ASSUME NEW t \in Periodic, CallEnable(t) PROVE Inv'
  <2>1. EnablePeriodic(t) /\ calls' = calls - 1 /\ calls > 0
    BY <1>2 DEF CallEnable
  <2>2. calls' \in 0 .. MaxCalls
    BY <2>1, SchedulerAssumption DEF Inv, SchedTypeOK
  <2> QED
    BY <2>1, <2>2, EnableKeeps
<1>3. ASSUME NEW t \in Periodic, CallDisable(t) PROVE Inv'
  <2>1. DisablePeriodic(t) /\ calls' = calls - 1 /\ calls > 0 /\ mpc = "callback"
    BY <1>3 DEF CallDisable
  <2>2. calls' \in 0 .. MaxCalls
    BY <2>1, SchedulerAssumption DEF Inv, SchedTypeOK
  <2> QED
    BY <2>1, <2>2, DisableKeeps
<1>4. ASSUME NEW t \in OneShot, QueueTask(t) PROVE Inv'
  BY <1>4, QueueTaskKeeps
<1>5. CASE Tick
  BY <1>5, TickKeeps
<1>7. CASE UNCHANGED schedVars
  <2>1. UNCHANGED heaps /\ UNCHANGED <<enabled, wake, current, mpc, calls, owed>>
    BY <1>7 DEF schedVars
  <2>2. /\ \A u : Places(u)' = Places(u)
        /\ tasks' = tasks
        /\ delayed' = delayed
        /\ tasksQ' = tasksQ
        /\ delayedQ' = delayedQ
    BY <2>1, PlacesKept
  <2>3. SchedTypeOK' /\ Phases'
    BY <2>1, <2>2 DEF Inv, SchedTypeOK, Phases
  <2>4. QueuedAtMostOnce'
    BY <2>1, <2>2 DEF Inv, QueuedAtMostOnce
  <2>5. AcceptedRunsOnce'
    BY <2>1, <2>2 DEF Inv, AcceptedRunsOnce
  <2>6. DueOrNotInTasks'
    BY <2>1, <2>2 DEF Inv, DueOrNotInTasks
  <2> QED
    BY <2>3, <2>4, <2>5, <2>6 DEF Inv
<1>8. Next =>
        \/ MainThread
        \/ \E t \in Periodic : CallEnable(t) \/ CallDisable(t)
        \/ \E t \in OneShot : QueueTask(t)
        \/ Tick
  BY DEF Next
<1> QED
  BY <1>1, <1>2, <1>3, <1>4, <1>5, <1>7, <1>8

LEMMA AlwaysInv == Spec => []Inv
<1>1. Init => Inv
  BY InvInit
<1>2. Inv /\ [Next]_schedVars => Inv'
  BY InvStep
<1> QED
  BY <1>1, <1>2, PTL DEF Spec

-----------------------------------------------------------------------------
(* The theorems.                                                           *)

(* The heaps and queues hold tasks of their kind and never more than their *)
(* capacity. *)
HeapsFit == Len(tasks) <= TasksCap /\ Len(delayed) <= DelayedCap

THEOREM SchedulerTypes == Spec => [](SchedTypeOK /\ HeapsFit)
<1>1. Inv => SchedTypeOK
  BY DEF Inv
<1>2. Inv => HeapsFit
  <2> SUFFICES ASSUME Inv PROVE HeapsFit
    OBVIOUS
  <2>1. \A t : /\ Places(t) = Count(tasks, t) + Count(delayed, t) + Count(tasksQ, t) + Count(delayedQ, t)
               /\ Count(tasks, t) \in Nat
               /\ Count(delayed, t) \in Nat
               /\ Count(tasksQ, t) \in Nat
               /\ Count(delayedQ, t) \in Nat
    BY PlacesIsNat DEF Inv
  <2>2. \A t \in Periodic : Places(t) <= 1
    BY DEF Inv, QueuedAtMostOnce
  <2>3. \A t \in OneShot : Count(tasks, t) <= MaxPending
    <3> TAKE t \in OneShot
    <3>1. Places(t) = owed[t] /\ owed[t] \in 0 .. MaxPending /\ MaxPending \in Nat
      BY SchedulerAssumption DEF Inv, AcceptedRunsOnce, SchedTypeOK
    <3> QED
      BY <2>1, <3>1
  <2>4. \A t \in Periodic : Count(tasks, t) <= 1 /\ Count(delayed, t) <= 1
    BY <2>1, <2>2
  <2>5. tasks \in Seq(Task) /\ delayed \in Seq(Periodic)
    BY DEF Inv, SchedTypeOK
  <2>6. Len(tasks) <= TasksCap
    BY <2>3, <2>4, <2>5, TasksFit
  <2>7. Len(delayed) <= DelayedCap
    BY <2>4, <2>5, DelayedFit
  <2> QED
    BY <2>6, <2>7 DEF HeapsFit
<1> QED
  BY <1>1, <1>2, AlwaysInv, PTL

(* Every call of Queue(Task) that was accepted is owed one run, and the    *)
(* task is in the queue or the heap as often as it is owed: nothing that   *)
(* the scheduler does with its heaps loses or doubles one. *)
THEOREM AcceptedTasksRunOnce == Spec => []AcceptedRunsOnce
<1>1. Inv => AcceptedRunsOnce
  BY DEF Inv
<1> QED
  BY <1>1, AlwaysInv, PTL

(* A periodic task comes to the heap of tasks only when its wake time is   *)
(* reached, and AutoRequeueCb gives a new wake time only to a task that is *)
(* in no heap. *)
THEOREM ReadyTasksAreDue == Spec => []ReadyIsDue
<1>1. Inv => ReadyIsDue
  <2> SUFFICES ASSUME Inv, NEW i \in DOMAIN tasks, tasks[i] \in Periodic
               PROVE  wake[tasks[i]] = 0
    BY DEF ReadyIsDue
  <2>1. InHeap(tasks, tasks[i])
    BY DEF InHeap
  <2> QED
    BY <2>1 DEF Inv, DueOrNotInTasks
<1> QED
  BY <1>1, AlwaysInv, PTL

(* An enabled task is queued exactly once or is running and will be        *)
(* queued, and a disabled one is queued nowhere: no order of callbacks     *)
(* that enable and disable one another and themselves, no full ring and no *)
(* tick loses or doubles one. *)
THEOREM EnabledTasksAreScheduled == Spec => []EnabledIsScheduled
<1> DEFINE Sched == Inv /\ EnabledIsScheduled
<1>1. Init => Sched
  <2> SUFFICES ASSUME Init PROVE Sched
    OBVIOUS
  <2>1. Inv
    BY InvInit
  <2>2. \A t \in Periodic : t \notin enabled /\ Places(t) = 0
    BY <2>1 DEF Init, Inv, QueuedAtMostOnce
  <2> QED
    BY <2>1, <2>2 DEF EnabledIsScheduled
<1>2. Sched /\ [Next]_schedVars => Sched'
  <2> SUFFICES ASSUME Sched, [Next]_schedVars PROVE Sched'
    OBVIOUS
  <2>1. Inv'
    BY InvStep
  <2> DEFINE Waits(t) == t = current /\ mpc \in {"callback", "requeue"}
  <2>2. \A t \in Periodic : Places(t) = IF t \notin enabled THEN 0 ELSE IF Waits(t) THEN 0 ELSE 1
    BY DEF EnabledIsScheduled
  <2>3. \A t \in Periodic : /\ t \notin enabled' => Places(t)' = 0
                            /\ Waits(t)' => Places(t)' = 0
    BY <2>1 DEF Inv, QueuedAtMostOnce
  <2>4. ASSUME NEW t \in Periodic, t \in enabled', ~ Waits(t)' PROVE Places(t)' = 1
    <3>1. CASE Dispatch
      <4>1. mpc = "loop" /\ enabled' = enabled
        BY <3>1 DEF Dispatch
      <4>2. Places(t) = 1
        BY <2>2, <2>4, <4>1
      <4>3. CASE \A u : Places(u)' = Places(u)
        BY <4>2, <4>3
      <4>4. CASE /\ mpc' = "callback"
                 /\ \A u : Places(u) = IF u = current' THEN Places(u)' + 1 ELSE Places(u)'
        BY <2>4, <4>2, <4>4
      <4> QED
        BY <3>1, <4>3, <4>4, DispatchQueues
    <3>2. CASE EndCallback
      <4>1. /\ UNCHANGED heaps
            /\ enabled' = enabled
            /\ current' = current
            /\ current \in enabled => mpc' = "requeue"
        BY <3>2 DEF EndCallback
      <4>2. Places(t)' = Places(t)
        BY <4>1, PlacesKept
      <4>3. t # current
        BY <2>4, <4>1
      <4> QED
        BY <2>2, <2>4, <4>1, <4>2, <4>3
    <3>3. CASE Requeue
      <4>1. \A u : Places(u)' = IF u = current THEN Places(u) + 1 ELSE Places(u)
        BY <3>3, RequeueQueues
      <4>2. enabled' = enabled /\ mpc = "requeue"
        BY <3>3 DEF Requeue
      <4> QED
        BY <2>2, <2>4, <4>1, <4>2
    <3>4. CASE Return
      <4>1. UNCHANGED heaps /\ enabled' = enabled /\ mpc = "return"
        BY <3>4 DEF Return
      <4>2. Places(t)' = Places(t)
        BY <4>1, PlacesKept
      <4> QED
        BY <2>2, <2>4, <4>1, <4>2
    <3>5. ASSUME NEW v \in Periodic, CallEnable(v) PROVE Places(t)' = 1
      <4>1. EnablePeriodic(v) /\ mpc = "callback"
        BY <3>5 DEF CallEnable
      <4>2. /\ enabled' = enabled \cup {v}
            /\ v \notin enabled
            /\ current' = current
            /\ mpc' = mpc
        BY <4>1 DEF EnablePeriodic
      <4>3. \A u : Places(u)' = IF u = v /\ v # current THEN Places(u) + 1 ELSE Places(u)
        BY <4>1, EnableQueues
      <4>4. t # current
        BY <2>4, <4>1, <4>2
      <4> QED
        BY <2>2, <2>4, <4>2, <4>3, <4>4
    <3>6. ASSUME NEW v \in Periodic, CallDisable(v) PROVE Places(t)' = 1
      <4>1. DisablePeriodic(v)
        BY <3>6 DEF CallDisable
      <4>2. /\ enabled' = enabled \ {v}
            /\ current' = current
            /\ mpc' = mpc
        BY <4>1 DEF DisablePeriodic
      <4>3. \A u : Places(u)' = IF u = v THEN 0 ELSE Places(u)
        BY <4>1, DisableQueues
      <4> QED
        BY <2>2, <2>4, <4>2, <4>3
    <3>7. ASSUME NEW v \in OneShot, QueueTask(v) PROVE Places(t)' = 1
      <4>1. \A u : Places(u)' = IF u = v THEN Places(u) + 1 ELSE Places(u)
        BY <3>7, QueueTaskQueues
      <4>2. UNCHANGED <<enabled, current, mpc>>
        BY <3>7 DEF QueueTask
      <4>3. t # v
        BY SchedulerAssumption
      <4> QED
        BY <2>2, <2>4, <4>1, <4>2, <4>3
    <3>8. CASE Tick \/ UNCHANGED schedVars
      <4>1. UNCHANGED heaps /\ UNCHANGED <<enabled, current, mpc>>
        BY <3>8 DEF Tick, schedVars
      <4>2. Places(t)' = Places(t)
        BY <4>1, PlacesKept
      <4> QED
        BY <2>2, <2>4, <4>1, <4>2
    <3> QED
      BY <3>1, <3>2, <3>3, <3>4, <3>5, <3>6, <3>7, <3>8 DEF Next, MainThread
  <2>5. \A t \in Periodic :
          Places(t)' = IF t \notin enabled' THEN 0 ELSE IF Waits(t)' THEN 0 ELSE 1
    BY <2>3, <2>4
  <2>6. EnabledIsScheduled'
    BY <2>5 DEF EnabledIsScheduled
  <2> QED
    BY <2>1, <2>6
<1>3. Sched => EnabledIsScheduled
  OBVIOUS
<1> HIDE DEF Sched
<1> QED
  BY <1>1, <1>2, <1>3, PTL DEF Spec

-----------------------------------------------------------------------------
(* Which task Run takes.  Taking an item out of the middle of a heap may   *)
(* leave it unordered (HeapRemoveOrders); these are the proofs that        *)
(* nothing else does.                                                      *)

(* The place of t, if it is in h, is one that the last item may take.      *)
OrderlyFrom(h, t, K) ==
  InHeap(h, t) => \/ HeapIdx(h, t) \in {1, Len(h)}
                  \/ K[h[ParentIdx(HeapIdx(h, t))]] <= K[h[Len(h)]]

OrderlyDisables ==
  \A t \in Periodic :
    DisablePeriodic(t) => /\ OrderlyFrom(HouseKept.tasks, t, Prio)
                          /\ OrderlyFrom(HouseKept.delayed, t, wake)

(* Run leaves no task that is due among the delayed ones, and takes one    *)
(* that is as urgent as any other that is ready.                           *)
MostUrgentFirst ==
  [][Dispatch =>
       /\ \A i \in DOMAIN delayed' : wake[delayed'[i]] > 0
       /\ current' # NoTask => \A i \in DOMAIN tasks' : Prio[current'] <= Prio[tasks'[i]]]_schedVars

OrderedHeaps == Ordered(tasks, Prio) /\ Ordered(delayed, wake)

LEMMA TopIdx ==
  ASSUME NEW S, NEW h \in Seq(S), h # <<>>
  PROVE  HeapIdx(h, HeapTop(h)) = 1 /\ InHeap(h, HeapTop(h)) /\ Len(h) >= 1
<1> DEFINE At(i) == i \in DOMAIN h /\ h[i] = h[1] /\ \A j \in 1 .. (i - 1) : h[j] # h[1]
<1>1. Len(h) \in Nat \ {0} /\ DOMAIN h = 1 .. Len(h)
  BY EmptySeq, LenProperties
<1>2. 1 \in DOMAIN h
  BY <1>1
<1>3. At(1)
  BY <1>2
<1>4. \A i : At(i) => i = 1
  <2> SUFFICES ASSUME NEW i, At(i) PROVE i = 1
    OBVIOUS
  <2>1. i \in Nat /\ i >= 1
    BY <1>1
  <2>2. 1 \notin 1 .. (i - 1)
    OBVIOUS
  <2> QED
    BY <2>1, <2>2
<1>5. (CHOOSE i \in DOMAIN h : h[i] = h[1] /\ \A j \in 1 .. (i - 1) : h[j] # h[1]) = 1
  BY <1>2, <1>3, <1>4
<1>6. HeapIdx(h, HeapTop(h)) = 1
  BY <1>5 DEF HeapIdx, HeapTop
<1> QED
  BY <1>1, <1>6, HeapTopIn

(* Taking the top. *)
LEMMA TakingOrders ==
  ASSUME NEW K, K \in [DOMAIN K -> Nat], NEW h \in Seq(DOMAIN K), h # <<>>, Ordered(h, K)
  PROVE  Ordered(HeapRemove(h, HeapTop(h), K), K)
<1> DEFINE x == HeapTop(h)
<1>1. HeapIdx(h, x) = 1 /\ InHeap(h, x)
  BY TopIdx
<1> HIDE DEF x
<1>2. HeapIdx(h, x) \in {1, Len(h)}
  BY <1>1
<1>3. Ordered(HeapRemove(h, x, K), K)
  BY <1>1, <1>2, HeapRemoveOrders
<1> QED
  BY <1>3 DEF x

LEMMA DrainedOrders ==
  ASSUME NEW K, K \in [DOMAIN K -> Nat], NEW cap, NEW q \in Seq(DOMAIN K),
         NEW h \in Seq(DOMAIN K), Ordered(h, K)
  PROVE  /\ Drained(q, h, K, cap).heap \in Seq(DOMAIN K)
         /\ Ordered(Drained(q, h, K, cap).heap, K)
<1> DEFINE S == DOMAIN K
           next == MoveOne(K, cap)
           P == {s \in Seq(S) \X Seq(S) : Ordered(s[2], K)}
           s == Iterated(next, <<q, h>>)[Len(q)]
<1>1. <<q, h>> \in P
  OBVIOUS
<1>2. ASSUME NEW r \in P PROVE next[r] \in P
  <2>1. PICK a \in Seq(S), b \in Seq(S) : r = <<a, b>>
    OBVIOUS
  <2>2. Ordered(b, K)
    BY <2>1
  <2> DEFINE x == Head(a)
             rest == Tail(a)
             g == HeapAdd(b, x, K)
  <2>3. next[r] = IF a = <<>> \/ Len(b) >= cap THEN r ELSE <<rest, g>>
    BY <2>1 DEF MoveOne
  <2>4. CASE a = <<>> \/ Len(b) >= cap
    BY <2>3, <2>4
  <2>5. CASE ~ (a = <<>> \/ Len(b) >= cap)
    <3>1. x \in S /\ rest \in Seq(S)
      BY <2>5, HeadTailProperties
    <3> HIDE DEF x, rest
    <3>2. g \in Seq(S) /\ Ordered(g, K)
      BY <2>2, <3>1, HeapAddKeeps, HeapAddOrders
    <3> HIDE DEF g
    <3>3. <<rest, g>> \in P
      BY <3>1, <3>2
    <3> QED
      BY <2>3, <2>5, <3>3
  <2> QED
    BY <2>4, <2>5
<1>3. Len(q) \in Nat
  BY LenProperties
<1>4. s \in P
  <2> HIDE DEF P, next
  <2> QED
    BY <1>1, <1>2, <1>3, LoopKeeps
<1>5. Drained(q, h, K, cap).heap = s[2]
  BY DEF Drained
<1> HIDE DEF s
<1> QED
  BY <1>4, <1>5

(* The release of what is due has come to its end. *)
NothingDue(d) == d = <<>> \/ wake[HeapTop(d)] > 0

LEMMA ReleasedOrders ==
  ASSUME wake \in [Periodic -> Nat], NEW d \in Seq(Periodic), NEW h \in Seq(Task),
         Ordered(d, wake), Ordered(h, Prio)
  PROVE  /\ Ordered(Released(d, h).delayed, wake)
         /\ Ordered(Released(d, h).tasks, Prio)
         /\ NothingDue(Released(d, h).delayed)
<1> DEFINE next == ReleaseOne(0)
           Due(n) == {s \in Seq(Periodic) \X Seq(Task) :
                        /\ Ordered(s[1], wake)
                        /\ Ordered(s[2], Prio)
                        /\ NothingDue(s[1]) \/ Len(s[1]) = Len(d) - n}
           P == [n \in Nat |-> Due(n)]
           s == Iterated(next, <<d, h>>)[Len(d)]
<1>1. /\ DOMAIN wake = Periodic
      /\ DOMAIN Prio = Task
      /\ Periodic \subseteq Task
      /\ Prio \in [Task -> Nat]
  BY SchedulerAssumption DEF Task
<1>2. Len(d) \in Nat
  BY LenProperties
<1>3. <<d, h>> \in P[0]
  BY <1>2
<1>4. ASSUME NEW n \in 0 .. Len(d) - 1, NEW r \in P[n] PROVE next[r] \in P[n + 1]
  <2>1. n \in Nat /\ n + 1 \in Nat
    BY <1>2
  <2>2. r \in Due(n)
    BY <1>4, <2>1
  <2>3. PICK a \in Seq(Periodic), b \in Seq(Task) : r = <<a, b>>
    BY <2>2
  <2>4. /\ Ordered(a, wake)
        /\ Ordered(b, Prio)
        /\ NothingDue(a) \/ Len(a) = Len(d) - n
    BY <2>2, <2>3
  <2> DEFINE x == HeapTop(a)
             less == HeapRemove(a, x, wake)
             plus == HeapAdd(b, x, Prio)
             more == IF Len(b) < TasksCap THEN plus ELSE b
  <2>5. next[r] = IF NothingDue(a) THEN r ELSE <<less, more>>
    BY <2>3 DEF ReleaseOne, NothingDue
  <2>6. CASE NothingDue(a)
    <3>1. r \in Due(n + 1)
      BY <2>3, <2>4, <2>6
    <3> QED
      BY <2>1, <2>5, <2>6, <3>1
  <2>7. CASE ~ NothingDue(a)
    <3>1. a # <<>> /\ Len(a) = Len(d) - n
      BY <2>4, <2>7 DEF NothingDue
    <3>2. Ordered(less, wake)
      BY <1>1, <2>4, <3>1, TakingOrders
    <3>3. x \in Periodic /\ InHeap(a, x)
      BY <3>1, HeapTopIn
    <3> HIDE DEF x
    <3>4. less \in Seq(Periodic) /\ Len(less) = Len(a) - 1
      BY <1>1, <3>3, HeapRemoveKeeps
    <3>5. plus \in Seq(Task) /\ Ordered(plus, Prio)
      <4>1. x \in Task
        BY <1>1, <3>3
      <4> QED
        BY <1>1, <2>4, <4>1, HeapAddKeeps, HeapAddOrders
    <3> HIDE DEF less, plus
    <3>6. more \in Seq(Task) /\ Ordered(more, Prio)
      BY <2>4, <3>5
    <3>7. Len(less) = Len(d) - (n + 1)
      BY <1>2, <2>1, <3>1, <3>4
    <3> HIDE DEF more
    <3>8. <<less, more>> \in Due(n + 1)
      BY <3>2, <3>4, <3>6, <3>7
    <3> QED
      BY <2>1, <2>5, <2>7, <3>8
  <2> QED
    BY <2>6, <2>7
<1>5. s \in Due(Len(d))
  <2> HIDE DEF P, next, Due
  <2>1. s \in P[Len(d)]
    BY <1>2, <1>3, <1>4, LoopReaches
  <2> QED
    BY <1>2, <2>1 DEF P
<1>6. Released(d, h).delayed = s[1] /\ Released(d, h).tasks = s[2]
  BY DEF Released
<1> HIDE DEF s
<1>7. /\ s[1] \in Seq(Periodic)
      /\ Ordered(s[1], wake)
      /\ Ordered(s[2], Prio)
      /\ NothingDue(s[1]) \/ Len(s[1]) = 0
  BY <1>2, <1>5
<1>8. NothingDue(s[1])
  <2> DEFINE e == s[1]
  <2>1. e \in Seq(Periodic) /\ (NothingDue(e) \/ Len(e) = 0)
    BY <1>7
  <2> HIDE DEF e
  <2>2. NothingDue(e)
    BY <2>1, EmptySeq DEF NothingDue
  <2> QED
    BY <2>2 DEF e
<1> QED
  BY <1>6, <1>7, <1>8

LEMMA HouseKeepingOrders ==
  ASSUME Inv, OrderedHeaps
  PROVE  /\ Ordered(HouseKept.tasks, Prio)
         /\ Ordered(HouseKept.delayed, wake)
         /\ \A i \in DOMAIN HouseKept.delayed : wake[HouseKept.delayed[i]] > 0
<1> DEFINE r == Drained(tasksQ, tasks, Prio, TasksCap).heap
           l == Drained(delayedQ, delayed, wake, DelayedCap).heap
           d == HouseKept.delayed
<1>1. /\ tasks \in Seq(Task) /\ delayed \in Seq(Periodic)
      /\ tasksQ \in Seq(Task) /\ delayedQ \in Seq(Periodic)
      /\ wake \in [Periodic -> Nat] /\ DOMAIN wake = Periodic
      /\ Prio \in [Task -> Nat] /\ DOMAIN Prio = Task
  <2>1. OneShot \subseteq Task
    BY DEF Task
  <2> QED
    BY <2>1, SchedulerAssumption, SeqMonotonic DEF Inv, SchedTypeOK
<1>2. r \in Seq(Task) /\ Ordered(r, Prio)
  BY <1>1, DrainedOrders DEF OrderedHeaps
<1>3. l \in Seq(Periodic) /\ Ordered(l, wake)
  BY <1>1, DrainedOrders DEF OrderedHeaps
<1>4. HouseKept.tasks = Released(l, r).tasks /\ d = Released(l, r).delayed
  BY DEF HouseKept
<1> HIDE DEF r, l
<1>5. Ordered(HouseKept.tasks, Prio) /\ Ordered(d, wake) /\ NothingDue(d)
  BY <1>1, <1>2, <1>3, <1>4, ReleasedOrders
<1>6. d \in Seq(Periodic)
  BY HouseKeeping
<1>7. ASSUME NEW i \in DOMAIN d PROVE wake[d[i]] > 0
  <2> HIDE DEF d
  <2>1. DOMAIN d = 1 .. Len(d) /\ Len(d) \in Nat /\ d # <<>>
    BY <1>6, <1>7, LenProperties
  <2>2. wake[HeapTop(d)] > 0
    BY <1>5, <2>1 DEF NothingDue
  <2>3. wake[HeapTop(d)] <= wake[d[i]]
    BY <1>1, <1>5, <1>6, <1>7, TopOfOrdered
  <2>4. d[i] \in Periodic /\ HeapTop(d) \in Periodic
    BY <1>6, <1>7, <2>1, ElementOfSeq, HeapTopIn
  <2>5. wake[d[i]] \in Nat /\ wake[HeapTop(d)] \in Nat
    BY <1>1, <2>4
  <2> QED
    BY <2>2, <2>3, <2>5
<1> QED
  BY <1>5, <1>7


(* An order depends on nothing but how the keys compare. *)
LEMMA SameOrder ==
  ASSUME NEW S, NEW h \in Seq(S), NEW K, NEW L, Ordered(h, K),
         \A x, y \in S : K[x] <= K[y] => L[x] <= L[y]
  PROVE  Ordered(h, L)
<1>1. Len(h) \in Nat
  BY LenProperties
<1>2. ASSUME NEW j \in 2 .. Len(h) PROVE L[h[ParentIdx(j)]] <= L[h[j]]
  <2>1. ParentIdx(j) \in 1 .. Len(h) /\ j \in 1 .. Len(h)
    BY <1>1, ParentIn
  <2>2. h[ParentIdx(j)] \in S /\ h[j] \in S
    BY <2>1, ElementOfSeq
  <2> QED
    BY <2>2 DEF Ordered
<1> QED
  BY <1>2 DEF Ordered

LEMMA DispatchOrders ==
  ASSUME Inv, OrderedHeaps, Dispatch
  PROVE  /\ Ordered(tasks', Prio) /\ Ordered(delayed', wake)
         /\ wake' = wake
         /\ \A i \in DOMAIN delayed' : wake[delayed'[i]] > 0
         /\ current' # NoTask => \A i \in DOMAIN tasks' : Prio[current'] <= Prio[tasks'[i]]
<1> DEFINE a == HouseKept.tasks
           x == HeapTop(a)
           a2 == HeapRemove(a, x, Prio)
<1>1. a \in Seq(Task) /\ Ordered(a, Prio)
  BY HouseKeeping, HouseKeepingOrders
<1>2. /\ delayed' = HouseKept.delayed
      /\ wake' = wake
  BY DEF Dispatch
<1>3. /\ Ordered(delayed', wake)
      /\ \A i \in DOMAIN delayed' : wake[delayed'[i]] > 0
  BY <1>2, HouseKeepingOrders
<1>4. Prio \in [Task -> Nat] /\ DOMAIN Prio = Task
  BY SchedulerAssumption
<1>5. CASE a = <<>>
  <2>1. tasks' = a /\ current' = current /\ mpc = "loop"
    BY <1>5 DEF Dispatch
  <2>2. current' = NoTask
    BY <2>1 DEF Inv, Phases
  <2> QED
    BY <1>1, <1>2, <1>3, <2>1, <2>2
<1>6. CASE a # <<>>
  <2>1. tasks' = a2 /\ current' = x
    BY <1>6 DEF Dispatch
  <2> HIDE DEF a
  <2>2. Ordered(a2, Prio)
    BY <1>1, <1>4, <1>6, TakingOrders
  <2>3. \A i \in DOMAIN a : Prio[x] <= Prio[a[i]]
    BY <1>1, <1>4, TopOfOrdered
  <2>4. x \in Task /\ InHeap(a, x)
    BY <1>1, <1>6, HeapTopIn
  <2> HIDE DEF x
  <2>5. a2 \in Seq(Task) /\ \A u : Count(a, u) = IF u = x THEN Count(a2, u) + 1 ELSE Count(a2, u)
    BY <1>1, <1>4, <2>4, HeapRemoveKeeps
  <2> HIDE DEF a2
  <2>6. ASSUME NEW i \in DOMAIN a2 PROVE Prio[x] <= Prio[a2[i]]
    <3> DEFINE u == a2[i]
    <3>1. InHeap(a2, u)
      BY <2>6 DEF InHeap
    <3> HIDE DEF u
    <3>2. Count(a2, u) # 0 /\ Count(a2, u) \in Nat
      BY <2>5, <3>1, InHeapCounts, CountFinite
    <3>3. Count(a, u) # 0
      BY <2>5, <3>2
    <3>4. InHeap(a, u)
      BY <1>1, <3>3, InHeapCounts
    <3>5. PICK j \in DOMAIN a : a[j] = u
      BY <3>4 DEF InHeap
    <3>6. Prio[x] <= Prio[u]
      BY <2>3, <3>5
    <3> QED
      BY <3>6 DEF u
  <2> QED
    BY <1>2, <1>3, <2>1, <2>2, <2>6
<1> QED
  BY <1>5, <1>6

LEMMA RemovingOrders ==
  ASSUME NEW K, K \in [DOMAIN K -> Nat], NEW h \in Seq(DOMAIN K), NEW t,
         Ordered(h, K), OrderlyFrom(h, t, K)
  PROVE  Ordered(RemoveFrom(h, t, K), K)
BY HeapRemoveOrders DEF RemoveFrom, OrderlyFrom

LEMMA OrderStep ==
  ASSUME Inv, OrderedHeaps, [Next]_schedVars, [OrderlyDisables]_schedVars
  PROVE  OrderedHeaps'
<1>1. /\ tasks \in Seq(Task) /\ delayed \in Seq(Periodic)
      /\ enabled \subseteq Periodic
      /\ wake \in [Periodic -> Nat] /\ DOMAIN wake = Periodic
      /\ Prio \in [Task -> Nat] /\ DOMAIN Prio = Task
  BY SchedulerAssumption DEF Inv, SchedTypeOK
<1>2. Ordered(tasks, Prio) /\ Ordered(delayed, wake)
  BY DEF OrderedHeaps
<1>3. SUFFICES Ordered(tasks', Prio) /\ Ordered(delayed', wake')
  BY DEF OrderedHeaps, Ordered
<1>4. CASE Dispatch
  BY <1>4, DispatchOrders
<1>5. CASE EndCallback
  <2>1. /\ tasks' = tasks
        /\ delayed' = delayed
        /\ mpc = "callback"
        /\ wake' # wake => current \in enabled /\ wake' = [wake EXCEPT ![current] = Interval[current]]
    BY <1>5 DEF EndCallback, heaps
  <2>2. CASE wake' = wake
    BY <1>2, <2>1, <2>2
  <2>3. CASE wake' # wake
    <3>1. current \in Periodic /\ wake' = [wake EXCEPT ![current] = Interval[current]]
      BY <1>1, <2>1, <2>3
    <3>2. Places(current) = 0
      BY <2>1, <3>1 DEF Inv, QueuedAtMostOnce
    <3>3. Count(delayed, current) = 0
      <4>1. /\ Places(current) = Count(tasks, current) + Count(delayed, current)
                                   + Count(tasksQ, current) + Count(delayedQ, current)
            /\ Count(tasks, current) \in Nat
            /\ Count(delayed, current) \in Nat
            /\ Count(tasksQ, current) \in Nat
            /\ Count(delayedQ, current) \in Nat
        BY PlacesIsNat DEF Inv
      <4> QED
        BY <3>2, <4>1
    <3>4. \A i \in DOMAIN delayed : delayed[i] # current
      BY <1>1, <3>3, CountFinite
    <3>5. ASSUME NEW j \in 2 .. Len(delayed)
          PROVE  wake'[delayed[ParentIdx(j)]] <= wake'[delayed[j]]
      <4>1. Len(delayed) \in Nat /\ DOMAIN delayed = 1 .. Len(delayed)
        BY <1>1, LenProperties
      <4>2. ParentIdx(j) \in 1 .. Len(delayed) /\ j \in 1 .. Len(delayed)
        BY <4>1, ParentIn
      <4>3. delayed[ParentIdx(j)] \in Periodic /\ delayed[j] \in Periodic
        BY <1>1, <4>2, ElementOfSeq
      <4>4. delayed[ParentIdx(j)] # current /\ delayed[j] # current
        BY <3>4, <4>1, <4>2
      <4>5. wake'[delayed[ParentIdx(j)]] = wake[delayed[ParentIdx(j)]]
        BY <1>1, <3>1, <4>3, <4>4
      <4>6. wake'[delayed[j]] = wake[delayed[j]]
        BY <1>1, <3>1, <4>3, <4>4
      <4>7. wake[delayed[ParentIdx(j)]] <= wake[delayed[j]]
        BY <1>2 DEF Ordered
      <4> QED
        BY <4>5, <4>6, <4>7
    <3>6. Ordered(delayed, wake')
      BY <3>5 DEF Ordered
    <3> QED
      BY <1>2, <2>1, <3>6
  <2> QED
    BY <2>2, <2>3
<1>6. CASE Requeue \/ Return \/ UNCHANGED schedVars \/ \E t \in OneShot : QueueTask(t)
  <2>1. tasks' = tasks /\ delayed' = delayed /\ wake' = wake
    BY <1>6 DEF Requeue, Return, schedVars, heaps, QueueTask
  <2> QED
    BY <1>2, <2>1
<1>7. ASSUME NEW t \in Periodic, EnablePeriodic(t)
      PROVE  Ordered(tasks', Prio) /\ Ordered(delayed', wake')
  <2>1. tasks' = tasks /\ wake' = wake
    BY <1>7 DEF EnablePeriodic
  <2>2. delayed' = delayed \/ delayed' = HeapAdd(delayed, t, wake)
    BY <1>7 DEF EnablePeriodic
  <2>3. Ordered(HeapAdd(delayed, t, wake), wake)
    BY <1>1, <1>2, HeapAddOrders
  <2> QED
    BY <1>2, <2>1, <2>2, <2>3
<1>8. ASSUME NEW t \in Periodic, CallDisable(t)
      PROVE  Ordered(tasks', Prio) /\ Ordered(delayed', wake')
  <2>1. DisablePeriodic(t)
    BY <1>8 DEF CallDisable
  <2>2. OrderlyDisables \/ UNCHANGED schedVars
    OBVIOUS
  <2>3. CASE UNCHANGED schedVars
    BY <1>6, <2>3
  <2>4. CASE OrderlyDisables
    <3>1. /\ OrderlyFrom(HouseKept.tasks, t, Prio)
          /\ OrderlyFrom(HouseKept.delayed, t, wake)
      BY <2>1, <2>4 DEF OrderlyDisables
    <3>2. /\ tasks' = RemoveFrom(HouseKept.tasks, t, Prio)
          /\ delayed' = RemoveFrom(HouseKept.delayed, t, wake)
          /\ wake' = wake
      BY <2>1 DEF DisablePeriodic
    <3>3. /\ HouseKept.tasks \in Seq(Task) /\ HouseKept.delayed \in Seq(Periodic)
          /\ Ordered(HouseKept.tasks, Prio) /\ Ordered(HouseKept.delayed, wake)
      BY HouseKeeping, HouseKeepingOrders
    <3>4. Ordered(RemoveFrom(HouseKept.tasks, t, Prio), Prio)
      BY <1>1, <3>1, <3>3, RemovingOrders
    <3>5. Ordered(RemoveFrom(HouseKept.delayed, t, wake), wake)
      BY <1>1, <3>1, <3>3, RemovingOrders
    <3> QED
      BY <3>2, <3>4, <3>5
  <2> QED
    BY <2>2, <2>3, <2>4
<1>9. CASE Tick
  <2>1. /\ tasks' = tasks
        /\ delayed' = delayed
        /\ wake' = [t \in Periodic |-> IF wake[t] > 0 THEN wake[t] - 1 ELSE 0]
    BY <1>9 DEF Tick, heaps
  <2>2. \A x, y \in Periodic : wake[x] <= wake[y] => wake'[x] <= wake'[y]
    BY <1>1, <2>1
  <2>3. Ordered(delayed, wake')
    BY <1>1, <1>2, <2>2, SameOrder
  <2> QED
    BY <1>2, <2>1, <2>3
<1>10. Next =>
         \/ Dispatch \/ EndCallback \/ Requeue \/ Return \/ Tick
         \/ \E t \in Periodic : EnablePeriodic(t) \/ CallDisable(t)
         \/ \E t \in OneShot : QueueTask(t)
  BY DEF Next, MainThread, CallEnable
<1> QED
  BY <1>4, <1>5, <1>6, <1>7, <1>8, <1>9, <1>10

(* As long as no task is taken out of the middle of a heap where the last  *)
(* item may not take its place, Run always takes a task that is as urgent  *)
(* as any that is ready, and no task whose time has come waits behind a    *)
(* later one, whatever callbacks enable, disable and queue.  So among the  *)
(* calls that Scheduler.h allows, the removal without its sift is the one  *)
(* cause of a task that runs too late. *)
THEOREM MostUrgentRunsFirst ==
  Spec /\ [][OrderlyDisables]_schedVars => MostUrgentFirst
<1> DEFINE Chosen == /\ \A i \in DOMAIN delayed' : wake[delayed'[i]] > 0
                     /\ current' # NoTask =>
                          \A i \in DOMAIN tasks' : Prio[current'] <= Prio[tasks'[i]]
<1>1. Init => OrderedHeaps
  <2>1. Len(<<>>) = 0 /\ 2 .. 0 = {}
    OBVIOUS
  <2> QED
    BY <2>1 DEF Init, OrderedHeaps, Ordered
<1>2. Inv /\ OrderedHeaps /\ [Next]_schedVars /\ [OrderlyDisables]_schedVars => OrderedHeaps'
  BY OrderStep
<1>3. Inv /\ OrderedHeaps => [Dispatch => Chosen]_schedVars
  BY DispatchOrders
<1>4. Spec => Init /\ [][Next]_schedVars
  BY DEF Spec
<1> QED
  BY <1>1, <1>2, <1>3, <1>4, AlwaysInv, PTL DEF MostUrgentFirst
=============================================================================
