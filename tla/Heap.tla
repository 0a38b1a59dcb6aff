-------------------------------- MODULE Heap --------------------------------
(***************************************************************************)
(* Service/Sched/Ds/Heap.h: a binary heap in an array, here a sequence of  *)
(* items with root 1.  Items compare by a function K: the priority for     *)
(* Task::operator<, the wake time for DelayedTask::operator<.              *)
(***************************************************************************)
EXTENDS Integers, Sequences

ParentIdx(i) == i \div 2
ChildIdx1(i) == 2 * i
ChildIdx2(i) == 2 * i + 1

SwapAt(h, i, j) == [h EXCEPT ![i] = h[j], ![j] = h[i]]

(* A loop as a function of the number of its rounds: next is its body, a  *)
(* function on its states that stays where the loop has ended. *)
Iterated(next, s) ==
  LET after[n \in Nat] == IF n = 0 THEN s ELSE next[after[n - 1]] IN after

(* One round of Heapify: compares on every level up to the root. *)
Climb(K) ==
  [s \in Seq(DOMAIN K) \X Nat |->
     LET h == s[1]
         i == s[2]
         p == ParentIdx(i)
     IN  IF i <= 1 THEN s ELSE <<IF K[h[i]] < K[h[p]] THEN SwapAt(h, i, p) ELSE h, p>>]

SiftUp(h, i, K) == Iterated(Climb(K), <<h, i>>)[i][1]

(* The smallest of i and its children. *)
SmallestAt(h, i, K) ==
  LET First(a, b) == IF b <= Len(h) /\ K[h[b]] < K[h[a]] THEN b ELSE a
  IN  First(First(i, ChildIdx1(i)), ChildIdx2(i))

(* One round of ReverseHeapify. *)
Sink(K) ==
  [s \in Seq(DOMAIN K) \X Nat |->
     LET h == s[1]
         i == s[2]
         m == SmallestAt(h, i, K)
     IN  IF m = i THEN s ELSE <<SwapAt(h, i, m), m>>]

SiftDown(h, i, K) == Iterated(Sink(K), <<h, i>>)[Len(h)][1]

HeapAdd(h, x, K) == SiftUp(Append(h, x), Len(h) + 1, K)

InHeap(h, x) == \E i \in DOMAIN h : h[i] = x

(* GetIdx: the first occurrence. *)
HeapIdx(h, x) == CHOOSE i \in DOMAIN h : h[i] = x /\ \A j \in 1 .. (i - 1) : h[j] # x

(* Remove: the last item takes the place of the removed one and is sifted  *)
(* down from there, never up. *)
HeapRemove(h, x, K) ==
  LET idx == HeapIdx(h, x)
      n   == Len(h) - 1
      cut == SubSeq([h EXCEPT ![idx] = h[n + 1]], 1, n)
  IN  IF idx > n THEN cut ELSE SiftDown(cut, idx, K)

HeapTop(h) == h[1]
=============================================================================
