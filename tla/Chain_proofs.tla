---------------------------- MODULE Chain_proofs ----------------------------
(***************************************************************************)
(* Proofs about an actor's event chain: its subscribers (StateChain), for  *)
(* any of them and channels of any capacity, and its recording and replay  *)
(* (Replay), for any programs, exports, host functions and outputs, and    *)
(* any number of calls.  The two share nothing.                            *)
(*                                                                         *)
(* What a subscriber is sent is complete, what an abort costs it, and      *)
(* which senders an eviction leaves.  The invariant counts, for a sender   *)
(* at a position of the Vec, what its channel was sent since it was        *)
(* registered: all events, less the one that is being dispatched if its    *)
(* turn has not come.  It is stated at a position because eviction and     *)
(* removal move senders about, and it needs that a channel registered once *)
(* is there once.                                                          *)
(*                                                                         *)
(* What a replay reports is so, and the same guest repeats the recorded    *)
(* chain: the invariant explains every event by the call it belongs to and *)
(* the guest's program, and has the interceptor in step with the chain.    *)
(***************************************************************************)
EXTENDS StateChain, Replay, TLAPS, NaturalsInduction, WellFoundedInduction, SequenceTheorems

-----------------------------------------------------------------------------
(* The eviction loop.                                                      *)

\* A nonempty set of numbers has a least one.
LEMMA Least ==
    ASSUME NEW B, B \subseteq Nat, B # {}
    PROVE  \E x \in B : \A y \in B : x <= y
<1>1. PICK x \in B : \A y \in B : ~(<<y, x>> \in OpToRel(<, Nat))
  BY WFMin, NatLessThanWellFounded
<1>2. \A y \in B : x <= y
  <2> TAKE y \in B
  <2>1. ~(y < x)
    BY <1>1 DEF OpToRel
  <2> QED
    BY <2>1
<1> QED
  BY <1>2

\* f is what there is after each of n steps from q on, where g has the steps.
IsRun(f, T, q, n, g) == f \in [0..n -> T] /\ f[0] = q /\ \A k \in 1..n : f[k] = g[k][f[k - 1]]

\* Steps that are given for each position and each value can be taken one after
\* the other: what there is after k steps is a function of k.
LEMMA StepsExist ==
    ASSUME NEW T, NEW q \in T, NEW n \in Nat, NEW g \in [1..n -> [T -> T]]
    PROVE  \E f : IsRun(f, T, q, n, g)
<1> USE DEF IsRun
<1> DEFINE Upto(m) == \E f \in [0..m -> T] : f[0] = q /\ \A k \in 1..m : f[k] = g[k][f[k - 1]]
           B == {m \in 0..n : ~Upto(m)}
<1>1. SUFFICES ASSUME B # {} PROVE FALSE
  BY DEF B
<1>2. PICK m \in B : \A y \in B : m <= y
  <2>1. B \subseteq Nat
    OBVIOUS
  <2> HIDE DEF B
  <2> QED
    BY <1>1, <2>1, Least
<1>3. m # 0
  <2> DEFINE f == [k \in 0..0 |-> q]
  <2>1. f \in [0..0 -> T] /\ f[0] = q /\ \A k \in 1..0 : f[k] = g[k][f[k - 1]]
    OBVIOUS
  <2> QED
    BY <2>1
<1>4. m - 1 \in 0..n /\ m - 1 \notin B
  BY <1>2, <1>3
<1>5. PICK f \in [0..(m - 1) -> T] : f[0] = q /\ \A k \in 1..(m - 1) : f[k] = g[k][f[k - 1]]
  BY <1>4
<1> DEFINE h == [k \in 0..m |-> IF k = m THEN g[m][f[m - 1]] ELSE f[k]]
<1>6. g[m][f[m - 1]] \in T
  BY <1>2, <1>3, <1>5
<1>7. h \in [0..m -> T] /\ h[0] = q
  BY <1>2, <1>3, <1>5, <1>6
<1>8. \A k \in 1..m : h[k] = g[k][h[k - 1]]
  <2> TAKE k \in 1..m
  <2>1. k - 1 \in 0..m /\ k - 1 # m /\ h[k - 1] = f[k - 1]
    BY <1>2, <1>3
  <2>2. CASE k = m
    BY <1>2, <2>1, <2>2
  <2>3. CASE k # m
    <3>1. k \in 1..(m - 1) /\ h[k] = f[k]
      BY <1>2, <2>3
    <3> QED
      BY <1>5, <2>1, <3>1
  <2> QED
    BY <2>2, <2>3
<1>9. Upto(m)
  BY <1>7, <1>8
<1> QED
  BY <1>2, <1>9

\* swap_remove shortens the Vec by one, to elements it had.
LEMMA SwapRemoveType ==
    ASSUME NEW S, NEW q \in Seq(S), NEW i
    PROVE  SwapRemove(q, i) \in Seq(S)
<1>1. CASE q = <<>>
  BY <1>1 DEF SwapRemove
<1>2. CASE q # <<>>
  <2>1. Len(q) - 1 \in Nat /\ \A j \in 1..Len(q) : q[j] \in S
    BY <1>2
  <2>2. SwapRemove(q, i) \in [1..(Len(q) - 1) -> S]
    BY <2>1 DEF SwapRemove
  <2> QED
    BY <2>1, <2>2
<1> QED
  BY <1>1, <1>2

\* The eviction is the sequence of its removals.
LEMMA EvictSteps ==
    ASSUME NEW S, NEW q \in Seq(S), NEW c \in Seq(Nat)
    PROVE  \E left \in [0..Len(c) -> Seq(S)] :
              /\ left[0] = q
              /\ \A k \in 1..Len(c) : left[k] = SwapRemove(left[k - 1], c[Len(c) + 1 - k])
              /\ Evict(q, c) = left[Len(c)]
<1> DEFINE n == Len(c)
           g == [k \in 1..n |-> [r \in Seq(S) |-> SwapRemove(r, c[n + 1 - k])]]
           Eq(left) == left = [k \in 0..n |->
                          IF k = 0 THEN q ELSE SwapRemove(left[k - 1], c[n + 1 - k])]
<1>1. n \in Nat
  OBVIOUS
<1>2. g \in [1..n -> [Seq(S) -> Seq(S)]]
  BY SwapRemoveType
<1>3. PICK f : IsRun(f, Seq(S), q, n, g)
  <2> HIDE DEF g, n
  <2> QED
    BY <1>1, <1>2, StepsExist
<1>4. \A k \in 1..n : f[k] = SwapRemove(f[k - 1], c[n + 1 - k])
  <2> TAKE k \in 1..n
  <2>1. k - 1 \in 0..n
    BY <1>1
  <2>2. f[k - 1] \in Seq(S)
    BY <1>3, <2>1 DEF IsRun
  <2> QED
    BY <1>3, <2>2 DEF IsRun
<1>5. Eq(f)
  <2> HIDE DEF n
  <2> QED
    BY <1>1, <1>3, <1>4 DEF IsRun
<1> DEFINE left == CHOOSE left : Eq(left)
<1>6. Eq(left)
  <2> HIDE DEF Eq
  <2> QED
    BY <1>5
<1>7. Evict(q, c) = left[n]
  BY DEF Evict
<1> HIDE DEF left
<1>8. left[0] = q /\ \A k \in 1..n : left[k] = SwapRemove(left[k - 1], c[n + 1 - k])
  <2> HIDE DEF n
  <2>1. 0 \in 0..n /\ \A k \in 1..n : k \in 0..n /\ k # 0
    BY <1>1
  <2>2. \A k \in 0..n : left[k] = IF k = 0 THEN q ELSE SwapRemove(left[k - 1], c[n + 1 - k])
    BY <1>6
  <2> QED
    BY <2>1, <2>2
<1>9. \A k \in 0..n : left[k] \in Seq(S)
  <2> DEFINE B == {k \in 0..n : left[k] \notin Seq(S)}
  <2>1. SUFFICES ASSUME B # {} PROVE FALSE
    BY DEF B
  <2>2. B \subseteq Nat
    OBVIOUS
  <2>3. PICK m \in B : \A y \in B : m <= y
    <3> HIDE DEF B
    <3> QED
      BY <2>1, <2>2, Least
  <2>4. m # 0
    BY <1>8, <2>3
  <2>5. m - 1 \in 0..n /\ m - 1 \notin B
    BY <1>1, <2>3, <2>4
  <2>6. left[m - 1] \in Seq(S) /\ left[m] = SwapRemove(left[m - 1], c[n + 1 - m])
    BY <1>1, <1>8, <2>3, <2>4, <2>5
  <2> QED
    BY <2>3, <2>6, SwapRemoveType
<1>10. left \in [0..n -> Seq(S)]
  BY <1>6, <1>9
<1> QED
  BY <1>7, <1>8, <1>10

\* s is in q once, if at all.
AtMostOnce(q, s) == \A i, j \in DOMAIN q : q[i] = s /\ q[j] = s => i = j

\* r is what is left of q when the elements at the positions in R, which are L or
\* higher, are removed: below L it is as it was, from there on it has the others.
Kept(q, r, L, R) ==
    /\ L - 1 <= Len(r)
    /\ \A j \in 1..(L - 1) : r[j] = q[j]
    /\ \A j \in L..Len(r) : \E p \in L..Len(q) : p \notin R /\ r[j] = q[p]
    /\ \A p \in L..Len(q) : p \notin R => \E j \in L..Len(r) : r[j] = q[p]

\* swap_remove of an element leaves every other, and puts none there twice.
LEMMA SwapRemoveKeeps ==
    ASSUME NEW S, NEW q \in Seq(S), NEW i \in 1..Len(q)
    PROVE  /\ SwapRemove(q, i) \in Seq(S) /\ Len(SwapRemove(q, i)) = Len(q) - 1
           /\ \A j \in 1..(Len(q) - 1) : SwapRemove(q, i)[j] = IF j = i THEN q[Len(q)] ELSE q[j]
           /\ \A s : AtMostOnce(q, s) => AtMostOnce(SwapRemove(q, i), s)
<1>1. SwapRemove(q, i) \in Seq(S)
  BY SwapRemoveType
<1>2. Len(q) - 1 \in Nat /\ SwapRemove(q, i) = [j \in 1..(Len(q) - 1) |-> IF j = i THEN q[Len(q)] ELSE q[j]]
  BY DEF SwapRemove
<1>3. Len(SwapRemove(q, i)) = Len(q) - 1 /\ DOMAIN SwapRemove(q, i) = 1..(Len(q) - 1)
  BY <1>1, <1>2
<1>4. \A j \in 1..(Len(q) - 1) : SwapRemove(q, i)[j] = IF j = i THEN q[Len(q)] ELSE q[j]
  BY <1>2
<1>5. ASSUME NEW s, AtMostOnce(q, s) PROVE AtMostOnce(SwapRemove(q, i), s)
  <2> SUFFICES ASSUME NEW j \in 1..(Len(q) - 1), NEW k \in 1..(Len(q) - 1),
                      SwapRemove(q, i)[j] = s, SwapRemove(q, i)[k] = s
               PROVE  j = k
    BY <1>3 DEF AtMostOnce
  <2>1. /\ j = i => q[Len(q)] = s
        /\ j # i => q[j] = s
        /\ k = i => q[Len(q)] = s
        /\ k # i => q[k] = s
    BY <1>4
  <2>2. \A a, b \in 1..Len(q) : q[a] = s /\ q[b] = s => a = b
    BY <1>5 DEF AtMostOnce
  <2>3. j \in 1..Len(q) /\ k \in 1..Len(q) /\ Len(q) \in 1..Len(q) /\ j # Len(q) /\ k # Len(q)
    BY <1>2
  <2> QED
    BY <2>1, <2>2, <2>3
<1> QED
  BY <1>1, <1>3, <1>4, <1>5

\* The next removal is below those before it, so it removes what was at that
\* position at first.
LEMMA NextRemoval ==
    ASSUME NEW S, NEW q \in Seq(S), NEW r \in Seq(S), NEW L \in Nat, NEW R, NEW i \in Nat,
           i >= 1, i < L, L <= Len(q) + 1, R \subseteq L..Len(q), Kept(q, r, L, R)
    PROVE  /\ i \in 1..Len(r)
           /\ Kept(q, SwapRemove(r, i), i, R \cup {i})
<1>1. i \in 1..Len(r) /\ Len(r) \in Nat /\ Len(q) \in Nat
  BY DEF Kept
<1>2. PICK e \in Seq(S) : e = SwapRemove(r, i)
  BY SwapRemoveType
<1>3. /\ Len(e) = Len(r) - 1
      /\ \A j \in 1..(Len(r) - 1) : e[j] = IF j = i THEN r[Len(r)] ELSE r[j]
  BY <1>1, <1>2, SwapRemoveKeeps
<1>4. i - 1 <= Len(e) /\ \A j \in 1..(i - 1) : e[j] = q[j]
  <2>1. i - 1 <= Len(e)
    BY <1>1, <1>3
  <2>2. ASSUME NEW j \in 1..(i - 1) PROVE e[j] = q[j]
    <3>1. j \in 1..(Len(r) - 1) /\ j # i /\ j \in 1..(L - 1)
      BY <1>1
    <3> QED
      BY <1>3, <3>1 DEF Kept
  <2> QED
    BY <2>1, <2>2
<1>5. ASSUME NEW j \in (i + 1)..Len(r)
      PROVE  \E p \in i..Len(q) : p \notin R \cup {i} /\ r[j] = q[p]
  <2>1. CASE j < L
    <3>1. j \in 1..(L - 1) /\ j \notin L..Len(q) /\ j # i /\ j \in i..Len(q)
      BY <1>1, <2>1
    <3>2. r[j] = q[j] /\ j \notin R
      BY <3>1 DEF Kept
    <3> QED
      BY <3>1, <3>2
  <2>2. CASE j >= L
    <3>1. j \in L..Len(r)
      BY <1>1, <2>2
    <3>2. PICK p \in L..Len(q) : p \notin R /\ r[j] = q[p]
      BY <3>1 DEF Kept
    <3>3. p \in i..Len(q) /\ p # i
      BY <1>1
    <3> QED
      BY <3>2, <3>3
  <2> QED
    BY <1>1, <2>1, <2>2
<1>6. ASSUME NEW j \in i..Len(e)
      PROVE  \E p \in i..Len(q) : p \notin R \cup {i} /\ e[j] = q[p]
  <2>1. CASE j = i
    <3>1. e[j] = r[Len(r)] /\ Len(r) \in (i + 1)..Len(r)
      BY <1>1, <1>3, <2>1
    <3> QED
      BY <1>5, <3>1
  <2>2. CASE j # i
    <3>1. e[j] = r[j] /\ j \in (i + 1)..Len(r)
      BY <1>1, <1>3, <2>2
    <3> QED
      BY <1>5, <3>1
  <2> QED
    BY <2>1, <2>2
<1>7. ASSUME NEW j \in (i + 1)..Len(r)
      PROVE  \E k \in i..Len(e) : e[k] = r[j]
  <2>1. CASE j = Len(r)
    <3>1. i \in i..Len(e) /\ e[i] = r[Len(r)]
      BY <1>1, <1>3
    <3> QED
      BY <2>1, <3>1
  <2>2. CASE j # Len(r)
    <3>1. j \in i..Len(e) /\ e[j] = r[j]
      BY <1>1, <1>3, <2>2
    <3> QED
      BY <3>1
  <2> QED
    BY <2>1, <2>2
<1>8. ASSUME NEW p \in i..Len(q), p \notin R \cup {i}
      PROVE  \E k \in i..Len(e) : e[k] = q[p]
  <2>1. CASE p < L
    <3>1. p \in (i + 1)..Len(r) /\ r[p] = q[p]
      BY <1>1, <1>8, <2>1 DEF Kept
    <3> QED
      BY <1>7, <3>1
  <2>2. CASE p >= L
    <3>1. PICK j \in L..Len(r) : r[j] = q[p]
      BY <1>1, <1>8, <2>2 DEF Kept
    <3>2. j \in (i + 1)..Len(r)
      BY <1>1
    <3> QED
      BY <1>7, <3>1, <3>2
  <2> QED
    BY <1>1, <2>1, <2>2
<1>9. Kept(q, e, i, R \cup {i})
  BY <1>4, <1>6, <1>8 DEF Kept
<1> QED
  BY <1>1, <1>2, <1>9

Ascending(c) == \A i, j \in DOMAIN c : i < j => c[i] < c[j]

\* The eviction leaves the senders at the positions that are not in c, and those
\* that were there once are there once.
LEMMA EvictKeeps ==
    ASSUME NEW S, NEW q \in Seq(S), NEW c \in Seq(Nat), Ascending(c),
           \A k \in DOMAIN c : c[k] \in 1..Len(q)
    PROVE  /\ Evict(q, c) \in Seq(S)
           /\ \A i \in DOMAIN Evict(q, c) : \E p \in DOMAIN q :
                 Evict(q, c)[i] = q[p] /\ \A k \in DOMAIN c : c[k] # p
           /\ \A p \in DOMAIN q : (\A k \in DOMAIN c : c[k] # p) =>
                 \E i \in DOMAIN Evict(q, c) : Evict(q, c)[i] = q[p]
           /\ \A s : AtMostOnce(q, s) => AtMostOnce(Evict(q, c), s)
<1>1. PICK left \in [0..Len(c) -> Seq(S)] :
         /\ left[0] = q
         /\ \A k \in 1..Len(c) : left[k] = SwapRemove(left[k - 1], c[Len(c) + 1 - k])
         /\ Evict(q, c) = left[Len(c)]
  BY EvictSteps
<1>2. PICK n \in Nat : n = Len(c)
  OBVIOUS
<1> DEFINE Low(k) == IF k = 0 THEN Len(q) + 1 ELSE c[n + 1 - k]
           Removed(k) == {c[i] : i \in (n + 1 - k)..n}
           Good(k) == /\ Kept(q, left[k], Low(k), Removed(k))
                      /\ \A s : AtMostOnce(q, s) => AtMostOnce(left[k], s)
           B == {k \in 0..n : ~Good(k)}
<1>3. \A k \in 1..n : c[k] \in 1..Len(q) /\ \A j \in 1..n : k < j => c[k] < c[j]
  <2>1. DOMAIN c = 1..n
    BY <1>2
  <2> QED
    BY <2>1 DEF Ascending
<1>4. Good(0)
  <2>1. Removed(0) = {} /\ Low(0) = Len(q) + 1 /\ Len(q) \in Nat
    BY <1>2
  <2>2. Kept(q, q, Len(q) + 1, {})
    BY <2>1 DEF Kept
  <2> QED
    BY <1>1, <2>1, <2>2
<1>5. ASSUME NEW k \in 1..n, Good(k - 1) PROVE Good(k)
  <2>1. k - 1 \in 0..n /\ n + 1 - k \in 1..n
    BY <1>2
  <2>2. PICK r \in Seq(S) : r = left[k - 1]
    BY <1>1, <1>2, <2>1
  <2>3. PICK i \in Nat : i = c[n + 1 - k]
    BY <1>3, <2>1
  <2>4. PICK L \in Nat : L = Low(k - 1)
    <3>1. CASE k = 1
      BY <3>1
    <3>2. CASE k # 1
      <4>1. n + 1 - (k - 1) \in 1..n /\ k - 1 # 0
        BY <1>2, <3>2
      <4>2. c[n + 1 - (k - 1)] \in Nat
        BY <1>3, <4>1
      <4> QED
        BY <4>1, <4>2
    <3> QED
      BY <3>1, <3>2
  <2>5. i >= 1 /\ i < L /\ L <= Len(q) + 1
    <3>1. i >= 1 /\ i <= Len(q)
      BY <1>3, <2>1, <2>3
    <3>2. CASE k = 1
      BY <2>4, <3>1, <3>2
    <3>3. CASE k # 1
      <4>1. L = c[n + 2 - k] /\ n + 2 - k \in 1..n /\ n + 1 - k < n + 2 - k
        BY <1>2, <2>4, <3>3
      <4> QED
        BY <1>3, <2>1, <2>3, <3>1, <4>1
    <3> QED
      BY <3>2, <3>3
  <2>6. PICK R : R = Removed(k - 1)
    OBVIOUS
  <2>7. R \subseteq L..Len(q)
    <3> SUFFICES ASSUME NEW j \in (n + 1 - (k - 1))..n PROVE c[j] \in L..Len(q)
      BY <2>6
    <3>0. j \in Int /\ n + 2 - k <= j /\ j <= n /\ k \in Int /\ 1 <= k /\ k <= n
      BY <1>2
    <3>1. j \in 1..n /\ n + 2 - k \in 1..n /\ k # 1 /\ (j = n + 2 - k \/ n + 2 - k < j)
      <4>1. k # 1
        BY <1>2, <3>0
      <4>2. n + 2 - k \in 1..n
        BY <1>2, <3>0, <4>1
      <4>3. \A x \in Int : 1 <= x /\ x <= j => j \in 1..n /\ (j = x \/ x < j)
        BY <3>0
      <4>4. n + 2 - k \in Int /\ 1 <= n + 2 - k
        BY <4>2
      <4> QED
        BY <3>0, <4>1, <4>2, <4>3, <4>4
    <3>2. L = c[n + 2 - k]
      BY <1>2, <2>4, <3>1
    <3>3. c[n + 2 - k] <= c[j]
      BY <1>3, <3>1
    <3> QED
      BY <1>3, <3>1, <3>2, <3>3
  <2>8. Kept(q, r, L, R)
    BY <1>5, <2>2, <2>4, <2>6
  <2>9. i \in 1..Len(r) /\ Kept(q, SwapRemove(r, i), i, R \cup {i})
    BY <2>5, <2>7, <2>8, NextRemoval
  <2>10. left[k] = SwapRemove(r, i) /\ Low(k) = i
    BY <1>1, <1>2, <2>2, <2>3
  <2>11. Removed(k) = R \cup {i}
    <3>1. (n + 1 - k)..n = ((n + 1 - (k - 1))..n) \cup {n + 1 - k}
      BY <1>2, <2>1
    <3> QED
      BY <2>3, <2>6, <3>1
  <2>12. \A s : AtMostOnce(q, s) => AtMostOnce(SwapRemove(r, i), s)
    BY <1>5, <2>2, <2>9, SwapRemoveKeeps
  <2> QED
    BY <2>9, <2>10, <2>11, <2>12
<1>6. Good(n)
  <2> HIDE DEF Good
  <2>1. SUFFICES ASSUME B # {} PROVE FALSE
    BY <1>2
  <2>2. B \subseteq Nat
    BY <1>2
  <2>3. PICK m \in B : \A y \in B : m <= y
    <3> HIDE DEF B
    <3> QED
      BY <2>1, <2>2, Least
  <2>4. m \in 0..n /\ ~Good(m) /\ m # 0
    BY <1>4, <2>3
  <2>5. m - 1 \in 0..n /\ m - 1 \notin B
    BY <1>2, <2>3, <2>4
  <2>6. Good(m - 1)
    BY <2>5
  <2> QED
    BY <1>2, <1>5, <2>4, <2>6
<1>7. PICK e \in Seq(S) : e = Evict(q, c) /\ e = left[n]
  BY <1>1, <1>2
<1>8. PICK L : L = Low(n)
  OBVIOUS
<1>9. L \in 1..(Len(q) + 1)
  BY <1>2, <1>3, <1>8
<1>10. PICK R : R = Removed(n)
  OBVIOUS
<1>11. Kept(q, e, L, R) /\ \A s : AtMostOnce(q, s) => AtMostOnce(e, s)
  BY <1>6, <1>7, <1>8, <1>10
<1>12. \A p : p \in R <=> \E k \in DOMAIN c : c[k] = p
  <2>1. (n + 1 - n)..n = DOMAIN c
    BY <1>2
  <2>2. Removed(n) = {c[k] : k \in DOMAIN c}
    BY <2>1
  <2> QED
    BY <1>10, <2>2
<1>13. \A k \in DOMAIN c : c[k] >= L
  <2> SUFFICES ASSUME NEW k \in 1..n PROVE c[k] >= L
    BY <1>2
  <2>1. n # 0 /\ 1 \in 1..n /\ (k = 1 \/ 1 < k) /\ L = c[1]
    BY <1>2, <1>8
  <2> QED
    BY <1>3, <2>1
<1>14. ASSUME NEW i \in DOMAIN e
       PROVE  \E p \in DOMAIN q : e[i] = q[p] /\ \A k \in DOMAIN c : c[k] # p
  <2>1. CASE i < L
    <3>1. e[i] = q[i] /\ i \in DOMAIN q
      BY <1>9, <1>11, <2>1 DEF Kept
    <3>2. \A k \in DOMAIN c : c[k] # i
      BY <1>2, <1>3, <1>9, <1>13, <2>1
    <3> QED
      BY <3>1, <3>2
  <2>2. CASE i >= L
    <3>0. i \in L..Len(e)
      BY <1>9, <2>2
    <3>1. PICK p \in L..Len(q) : p \notin R /\ e[i] = q[p]
      BY <1>11, <3>0 DEF Kept
    <3>2. p \in DOMAIN q /\ \A k \in DOMAIN c : c[k] # p
      BY <1>9, <1>12, <3>1
    <3> QED
      BY <3>1, <3>2
  <2> QED
    BY <1>9, <2>1, <2>2
<1>15. ASSUME NEW p \in DOMAIN q, \A k \in DOMAIN c : c[k] # p
       PROVE  \E i \in DOMAIN e : e[i] = q[p]
  <2>1. CASE p < L
    <3>1. e[p] = q[p] /\ p \in DOMAIN e
      BY <1>9, <1>11, <2>1 DEF Kept
    <3> QED
      BY <3>1
  <2>2. CASE p >= L
    <3>1. p \in L..Len(q) /\ p \notin R
      BY <1>9, <1>12, <1>15, <2>2
    <3>2. PICK j \in L..Len(e) : e[j] = q[p]
      BY <1>11, <3>1 DEF Kept
    <3>3. j \in DOMAIN e
      BY <1>9
    <3> QED
      BY <3>2, <3>3
  <2> QED
    BY <1>9, <2>1, <2>2
<1> QED
  BY <1>7, <1>11, <1>14, <1>15

-----------------------------------------------------------------------------
(* The inductive invariant.                                                *)

\* The closed indices are found from the lowest up.
ClosedAscend == lock # Nobody => Ascending(closed)

\* A command has a subscriber to deal with.
Commands == loop \in {"subscribe", "unsubscribe"} => target \in Subs

\* A channel that was never registered has been sent nothing, and one that was
\* registered once is there once at most.
Registered ==
    \A s \in Subs :
        /\ times[s] = 0 => Stream(s) = <<>> /\ \A p \in DOMAIN subs : subs[p] # s
        /\ times[s] = 1 => AtMostOnce(subs, s)

\* Is the event that is being dispatched still to be sent to position p?
Owed(p) == lock # Nobody /\ p >= idx

\* What the channel at position p was sent, with what it is about to be sent.
Count(p) == since[subs[p]] + Len(Stream(subs[p])) + (IF Owed(p) THEN 1 ELSE 0)

\* It is everything since the registration, or lacks one event after an abort.
Counted ==
    \A p \in DOMAIN subs : subs[p] \in open /\ Once(subs[p]) =>
        /\ Count(p) \in {Len(kinds), Len(kinds) - 1}
        /\ actor # "aborted" => Count(p) = Len(kinds)

\* The event that is being dispatched is in no channel whose turn has not come.
Pending ==
    \A p \in DOMAIN subs : Owed(p) /\ Once(subs[p]) =>
        \A i \in DOMAIN Stream(subs[p]) : Stream(subs[p])[i] < Len(kinds)

\* q is a part of the chain after n events, in order.
InOrder(q, n, len) ==
    /\ \A i \in DOMAIN q : q[i] \in (n + 1)..len
    /\ \A i, j \in DOMAIN q : i < j => q[i] < q[j]

\* q is the chain after n events without a gap.
Consecutive(q, n) == \A i \in DOMAIN q : q[i] = n + i

Streamed ==
    \A s \in Subs : Once(s) =>
        /\ InOrder(Stream(s), since[s], Len(kinds))
        /\ actor # "aborted" => Consecutive(Stream(s), since[s])

Inv == TypeOK /\ ClosedAscend /\ Commands /\ Registered /\ Counted /\ Pending /\ Streamed

-----------------------------------------------------------------------------
(* Streams.                                                                *)

\* A stream is a sequence of event numbers.
LEMMA StreamType ==
    ASSUME TypeOK, NEW s \in Subs
    PROVE  Stream(s) \in Seq(Nat) /\ Len(Stream(s)) = Len(got[s]) + Len(buf[s])
  BY DEF TypeOK, Stream

\* Reading moves the first of the events that wait, and leaves the stream as it is.
LEMMA ReadMoves ==
    ASSUME NEW a \in Seq(Nat), NEW b \in Seq(Nat), b # <<>>
    PROVE  /\ Append(a, Head(b)) \o Tail(b) = a \o b
           /\ Append(a, Head(b)) \in Seq(Nat) /\ Tail(b) \in Seq(Nat) /\ Len(Tail(b)) = Len(b) - 1
<1>1. /\ Head(b) \in Nat /\ Tail(b) \in Seq(Nat) /\ Len(Tail(b)) = Len(b) - 1
  OBVIOUS
<1>2. PICK x \in Nat, r \in Seq(Nat) : x = Head(b) /\ r = Tail(b)
  BY <1>1
<1>3. <<x>> \in Seq(Nat) /\ <<x>> \o r = b
  BY <1>2
<1>4. (a \o <<x>>) \o r = a \o (<<x>> \o r)
  <2>1. PICK u \in Seq(Nat) : u = <<x>>
    BY <1>3
  <2>2. (a \o u) \o r = a \o (u \o r)
    BY ConcatAssociative, SMTT(30)
  <2> QED
    BY <2>1, <2>2
<1>5. Append(a, x) = a \o <<x>> /\ Append(a, x) \in Seq(Nat)
  BY AppendIsConcat, AppendProperties
<1> QED
  BY <1>1, <1>2, <1>3, <1>4, <1>5, Zenon

\* Sending appends to the stream.
LEMMA SendAppends ==
    ASSUME NEW a \in Seq(Nat), NEW b \in Seq(Nat), NEW x \in Nat
    PROVE  a \o Append(b, x) = Append(a \o b, x)
  OBVIOUS

\* An event that is the last of the chain goes after those that came before it.
LEMMA InOrderAppend ==
    ASSUME NEW q \in Seq(Nat), NEW n \in Nat, NEW len \in Nat, InOrder(q, n, len),
           n < len, \A i \in DOMAIN q : q[i] < len
    PROVE  InOrder(Append(q, len), n, len)
<1> DEFINE r == Append(q, len)
<1>1. r \in Seq(Nat) /\ Len(r) = Len(q) + 1 /\ r[Len(q) + 1] = len /\ DOMAIN r = 1..(Len(q) + 1)
  OBVIOUS
<1>2. \A i \in DOMAIN r : i = Len(q) + 1 \/ (i \in DOMAIN q /\ r[i] = q[i])
  OBVIOUS
<1> HIDE DEF r
<1>3. ASSUME NEW i \in DOMAIN r PROVE r[i] \in (n + 1)..len
  <2>1. CASE i = Len(q) + 1
    BY <1>1, <2>1
  <2>2. CASE i \in DOMAIN q /\ r[i] = q[i]
    BY <2>2 DEF InOrder
  <2> QED
    BY <1>2, <2>1, <2>2
<1>4. ASSUME NEW i \in DOMAIN r, NEW j \in DOMAIN r, i < j PROVE r[i] < r[j]
  <2>1. i \in DOMAIN q /\ r[i] = q[i]
    BY <1>1, <1>2, <1>4
  <2>2. CASE j = Len(q) + 1
    BY <1>1, <2>1, <2>2
  <2>3. CASE j # Len(q) + 1
    BY <1>2, <1>4, <2>1, <2>3 DEF InOrder
  <2> QED
    BY <2>2, <2>3
<1>5. InOrder(r, n, len)
  BY <1>3, <1>4 DEF InOrder
<1> QED
  BY <1>5 DEF r

\* The next event leaves no gap.
LEMMA ConsecutiveAppend ==
    ASSUME NEW q \in Seq(Nat), NEW n \in Nat, Consecutive(q, n), NEW len \in Nat, len = n + Len(q) + 1
    PROVE  Consecutive(Append(q, len), n)
  BY DEF Consecutive

\* What was received before the receiver was closed is a beginning of the stream.
LEMMA BeginningInOrder ==
    ASSUME NEW a \in Seq(Nat), NEW b \in Seq(Nat), NEW n \in Nat, NEW len \in Nat
    PROVE  /\ InOrder(a \o b, n, len) => InOrder(a, n, len)
           /\ Consecutive(a \o b, n) => Consecutive(a, n)
<1>1. \A i \in DOMAIN a : i \in DOMAIN (a \o b) /\ (a \o b)[i] = a[i]
  OBVIOUS
<1> QED
  BY <1>1 DEF InOrder, Consecutive

-----------------------------------------------------------------------------
(* The steps.                                                              *)

\* The chain is empty and nobody is subscribed.
LEMMA InitInv == Init => Inv
<1> SUFFICES ASSUME Init PROVE Inv
  OBVIOUS
<1>1. TypeOK
  BY ChainAssumption DEF Init, TypeOK, Loops
<1>2. \A s \in Subs : Stream(s) = <<>>
  <2>1. \A e \in Seq(Nat) : e = <<>> => e \o e = <<>>
    OBVIOUS
  <2>2. <<>> \in Seq(Nat)
    OBVIOUS
  <2>3. \A s \in Subs : got[s] = <<>> /\ buf[s] = <<>>
    BY DEF Init
  <2>4. <<>> \o <<>> = <<>>
    BY <2>1, <2>2
  <2> QED
    BY <2>3, <2>4, Zenon DEF Stream
<1>3. ClosedAscend /\ Commands /\ Counted /\ Pending
  BY DEF Init, ClosedAscend, Commands, Counted, Pending
<1>4. Registered
  <2>1. DOMAIN subs = {} /\ \A s \in Subs : times[s] = 0
    BY DEF Init
  <2>2. \A s \in Subs : times[s] # 1
    <3>1. 0 # 1
      OBVIOUS
    <3> QED
      BY <2>1, <3>1, Zenon
  <2> QED
    BY <1>2, <2>1, <2>2, Zenon DEF Registered
<1>5. Streamed
  BY <1>2 DEF Init, Streamed, InOrder, Consecutive
<1> QED
  BY <1>1, <1>3, <1>4, <1>5 DEF Inv

\* A new event is owed to everybody, and everybody has had those before it.
LEMMA AppendInv ==
    ASSUME Inv, NEW w \in {"actor", "loop"}, NEW k \in {"wasm", "shutdown"}, Append1(w, k),
           UNCHANGED <<subs, buf, got, open, actor, loop, target, since, times>>
    PROVE  Inv'
<1>1. TypeOK'
  <2>1. kinds' \in Seq({"wasm", "shutdown"})
    BY DEF Inv, TypeOK, Append1
  <2>2. lock' \in {"actor", "loop", Nobody} /\ idx' = 1 /\ closed' = <<>>
    BY DEF Append1
  <2>3. /\ subs' \in Seq(Subs) /\ buf' \in [Subs -> Seq(Nat)] /\ \A s \in Subs : Len(buf'[s]) <= Cap
        /\ got' \in [Subs -> Seq(Nat)] /\ open' \subseteq Subs
        /\ actor' \in {"running", "over", "aborted"} /\ loop' \in Loops
        /\ target' \in Subs \cup {Nobody} /\ since' \in [Subs -> Nat] /\ times' \in [Subs -> Nat]
    BY DEF Inv, TypeOK
  <2>4. /\ idx' \in Nat /\ closed' \in Seq(Nat) /\ idx' \in 1 .. Len(subs') + 1
        /\ \A i \in DOMAIN closed' : closed'[i] \in 1 .. idx' - 1
    BY <2>2, <2>3
  <2> QED
    BY <2>1, <2>2, <2>3, <2>4 DEF TypeOK
<1>2. /\ \A s \in Subs : Stream(s)' = Stream(s) /\ Once(s)' = Once(s)
      /\ Len(kinds') = Len(kinds) + 1 /\ Len(kinds) \in Nat
      /\ subs' = subs /\ DOMAIN subs = 1..Len(subs) /\ \A p \in DOMAIN subs : subs[p] \in Subs
      /\ lock = Nobody /\ lock' # Nobody /\ idx' = 1 /\ since \in [Subs -> Nat]
  BY ChainAssumption DEF Inv, TypeOK, Append1, Stream, Once
<1>3. ClosedAscend' /\ Commands'
  BY DEF Inv, ClosedAscend, Ascending, Commands, Append1
<1>4. Registered'
  BY <1>2 DEF Inv, Registered, AtMostOnce
<1>5. ASSUME NEW p \in DOMAIN subs PROVE Owed(p)' /\ Count(p)' = Count(p) + 1
  <2>1. Owed(p)' /\ ~Owed(p)
    BY <1>2 DEF Owed
  <2>2. Stream(subs[p]) \in Seq(Nat)
    BY <1>2, StreamType DEF Inv
  <2>3. Stream(subs[p])' = Stream(subs[p])
    BY <1>2
  <2> QED
    BY <1>2, <2>1, <2>2, <2>3 DEF Count
<1>6. Counted'
  <2> SUFFICES ASSUME NEW p \in DOMAIN subs, subs[p] \in open, Once(subs[p])
               PROVE  /\ Count(p)' \in {Len(kinds'), Len(kinds') - 1}
                      /\ actor # "aborted" => Count(p)' = Len(kinds')
    BY <1>2 DEF Counted
  <2>1. /\ Count(p) \in {Len(kinds), Len(kinds) - 1}
        /\ actor # "aborted" => Count(p) = Len(kinds)
    BY DEF Inv, Counted
  <2> QED
    BY <1>2, <1>5, <2>1
<1>7. Streamed'
  <2> SUFFICES ASSUME NEW s \in Subs, Once(s)
               PROVE  /\ InOrder(Stream(s), since[s], Len(kinds) + 1)
                      /\ actor # "aborted" => Consecutive(Stream(s), since[s])
    BY <1>2 DEF Streamed
  <2>1. /\ InOrder(Stream(s), since[s], Len(kinds))
        /\ actor # "aborted" => Consecutive(Stream(s), since[s])
    BY DEF Inv, Streamed
  <2>2. since[s] \in Nat
    BY <1>2
  <2> QED
    BY <1>2, <2>1, <2>2 DEF InOrder
<1>8. Pending'
  <2> SUFFICES ASSUME NEW p \in DOMAIN subs, Once(subs[p]), NEW i \in DOMAIN Stream(subs[p])
               PROVE  Stream(subs[p])[i] < Len(kinds) + 1
    BY <1>2 DEF Pending
  <2>1. InOrder(Stream(subs[p]), since[subs[p]], Len(kinds))
    BY <1>2 DEF Inv, Streamed
  <2> QED
    BY <1>2, <2>1 DEF InOrder
<1> QED
  BY <1>1, <1>3, <1>4, <1>6, <1>7, <1>8 DEF Inv

\* The event goes to the channel at idx and to no other; that channel had all the
\* events before it.
LEMMA DispatchInv == ASSUME Inv, Dispatch PROVE Inv'
<1>1. PICK s \in Subs : s = subs[idx]
  BY DEF Inv, TypeOK, Dispatch
<1>2. /\ lock # Nobody /\ idx \in DOMAIN subs /\ s \in open /\ Len(buf[s]) < Cap
      /\ buf' = [buf EXCEPT ![s] = Append(@, Len(kinds))] /\ idx' = idx + 1
      /\ UNCHANGED <<kinds, subs, got, open, lock, closed, actor, loop, target, since, times>>
  BY <1>1 DEF Inv, TypeOK, Dispatch
<1>3. /\ Len(kinds) \in Nat /\ idx \in Nat /\ Len(subs) \in Nat /\ DOMAIN subs = 1..Len(subs)
      /\ \A p \in DOMAIN subs : subs[p] \in Subs
      /\ buf \in [Subs -> Seq(Nat)] /\ got \in [Subs -> Seq(Nat)]
      /\ since \in [Subs -> Nat] /\ times \in [Subs -> Nat] /\ Cap \in Nat
  BY ChainAssumption DEF Inv, TypeOK
<1>4. TypeOK'
  <2>1. buf' \in [Subs -> Seq(Nat)] /\ \A x \in Subs : Len(buf'[x]) <= Cap
    <3>1. Append(buf[s], Len(kinds)) \in Seq(Nat) /\ Len(Append(buf[s], Len(kinds))) <= Cap
      BY <1>2, <1>3
    <3> QED
      BY <1>2, <1>3, <3>1 DEF Inv, TypeOK
  <2>2. idx' \in Nat /\ idx' \in 1 .. Len(subs') + 1
        /\ \A i \in DOMAIN closed' : closed'[i] \in 1 .. idx' - 1
    BY <1>2, <1>3 DEF Inv, TypeOK
  <2> QED
    BY <1>2, <2>1, <2>2 DEF Inv, TypeOK
<1>5. /\ Stream(s)' = Append(Stream(s), Len(kinds)) /\ Stream(s) \in Seq(Nat)
      /\ \A x \in Subs : x # s => Stream(x)' = Stream(x)
      /\ \A x \in Subs : Once(x)' = Once(x)
  <2>1. Stream(s)' = Append(Stream(s), Len(kinds))
    BY <1>2, <1>3, SendAppends DEF Stream
  <2> QED
    BY <1>2, <1>3, <2>1, StreamType DEF Inv, Stream, Once
<1>6. ASSUME Once(s) PROVE times[s] = 1 /\ \A p \in DOMAIN subs : subs[p] = s => p = idx
  <2>1. times[s] # 0
    BY <1>1, <1>2 DEF Inv, Registered
  <2>2. times[s] = 1
    BY <1>3, <1>6, <2>1 DEF Once
  <2> QED
    BY <1>1, <1>2, <2>2 DEF Inv, Registered, AtMostOnce
<1>7. ClosedAscend' /\ Commands'
  BY <1>2 DEF Inv, ClosedAscend, Commands
<1>8. Registered'
  <2>1. times[s] # 0
    BY <1>1, <1>2 DEF Inv, Registered
  <2> QED
    BY <1>2, <1>5, <2>1 DEF Inv, Registered
<1>9. ASSUME NEW p \in DOMAIN subs, p # idx, Once(subs[p])
      PROVE  subs[p] # s /\ Stream(subs[p])' = Stream(subs[p]) /\ Owed(p)' = Owed(p) /\ Count(p)' = Count(p)
  <2>1. subs[p] # s
    BY <1>6, <1>9
  <2>2. Stream(subs[p])' = Stream(subs[p])
    BY <1>2, <1>3, <1>5, <2>1
  <2>3. Owed(p)' = Owed(p)
    <3>1. p \in Nat /\ (p >= idx + 1 <=> p >= idx)
      BY <1>3, <1>9
    <3> QED
      BY <1>2, <3>1 DEF Owed
  <2> QED
    BY <1>2, <2>1, <2>2, <2>3 DEF Count
<1>10. ASSUME Once(s)
       PROVE  /\ since[s] + Len(Stream(s)) + 1 \in {Len(kinds), Len(kinds) - 1}
              /\ actor # "aborted" => since[s] + Len(Stream(s)) + 1 = Len(kinds)
              /\ \A i \in DOMAIN Stream(s) : Stream(s)[i] < Len(kinds)
  <2>1. Owed(idx)
    BY <1>2, <1>3 DEF Owed
  <2>2. Count(idx) = since[s] + Len(Stream(s)) + 1
    BY <1>1, <2>1 DEF Count
  <2> QED
    BY <1>1, <1>2, <1>10, <2>1, <2>2 DEF Inv, Counted, Pending
<1>11. Counted'
  <2> SUFFICES ASSUME NEW p \in DOMAIN subs, subs[p] \in open, Once(subs[p])
               PROVE  /\ Count(p)' \in {Len(kinds), Len(kinds) - 1}
                      /\ actor # "aborted" => Count(p)' = Len(kinds)
    BY <1>2, <1>3, <1>5 DEF Counted
  <2>1. CASE p = idx
    <3>1. ~Owed(p)' /\ Once(s)
      BY <1>1, <1>2, <1>3, <2>1 DEF Owed
    <3>2. Len(Append(Stream(s), Len(kinds))) = Len(Stream(s)) + 1
      BY <1>3, <1>5
    <3>3. Stream(subs[p])' = Append(Stream(s), Len(kinds))
      BY <1>1, <1>2, <1>5, <2>1
    <3>4. Count(p)' = since[s] + (Len(Stream(s)) + 1) + 0
      BY <1>1, <1>2, <2>1, <3>1, <3>2, <3>3 DEF Count
    <3>5. Len(Stream(s)) \in Nat /\ since[s] \in Nat
      BY <1>3, <1>5
    <3>6. Count(p)' = since[s] + Len(Stream(s)) + 1
      BY <3>4, <3>5
    <3> QED
      BY <1>10, <3>1, <3>6
  <2>2. CASE p # idx
    BY <1>9, <2>2 DEF Inv, Counted
  <2> QED
    BY <2>1, <2>2
<1>12. Pending'
  <2> SUFFICES ASSUME NEW p \in DOMAIN subs, Owed(p)', Once(subs[p])
               PROVE  \A i \in DOMAIN Stream(subs[p])' : Stream(subs[p])'[i] < Len(kinds)
    BY <1>2, <1>3, <1>5 DEF Pending
  <2>1. p # idx
    BY <1>2, <1>3 DEF Owed
  <2> QED
    BY <1>9, <2>1 DEF Inv, Pending
<1>13. Streamed'
  <2> SUFFICES ASSUME NEW x \in Subs, Once(x)
               PROVE  /\ InOrder(Stream(x)', since[x], Len(kinds))
                      /\ actor # "aborted" => Consecutive(Stream(x)', since[x])
    BY <1>2, <1>5 DEF Streamed
  <2>1. /\ InOrder(Stream(x), since[x], Len(kinds))
        /\ actor # "aborted" => Consecutive(Stream(x), since[x])
    BY DEF Inv, Streamed
  <2>2. CASE x = s
    <3>1. Len(Stream(s)) \in Nat /\ since[s] \in Nat /\ since[s] < Len(kinds)
      BY <1>3, <1>5, <1>10, <2>2
    <3>2. InOrder(Append(Stream(s), Len(kinds)), since[s], Len(kinds))
      BY <1>3, <1>5, <1>10, <2>1, <2>2, <3>1, InOrderAppend
    <3>3. actor # "aborted" => Consecutive(Append(Stream(s), Len(kinds)), since[s])
      BY <1>3, <1>5, <1>10, <2>1, <2>2, <3>1, ConsecutiveAppend
    <3> QED
      BY <1>5, <2>2, <3>2, <3>3
  <2>3. CASE x # s
    BY <1>5, <2>1, <2>3
  <2> QED
    BY <2>2, <2>3
<1> QED
  BY <1>4, <1>7, <1>8, <1>11, <1>12, <1>13 DEF Inv

\* A receiver that is gone is noted, and owed nothing.
LEMMA DispatchClosedInv == ASSUME Inv, DispatchClosed PROVE Inv'
<1>1. /\ lock # Nobody /\ idx \in 1..Len(subs) /\ subs[idx] \notin open
      /\ closed' = Append(closed, idx) /\ idx' = idx + 1
      /\ UNCHANGED <<kinds, subs, buf, got, open, lock, actor, loop, target, since, times>>
  BY DEF Inv, TypeOK, DispatchClosed
<1>2. closed \in Seq(Nat) /\ subs \in Seq(Subs) /\ idx \in Nat
  BY DEF Inv, TypeOK
<1>3. \A i \in DOMAIN closed : closed[i] \in 1 .. idx - 1
  BY <1>1 DEF Inv, TypeOK
<1>4. /\ closed \in Seq(Nat) /\ \A i \in DOMAIN closed : closed[i] \in 1 .. idx - 1
      /\ Len(subs) \in Nat /\ DOMAIN subs = 1..Len(subs) /\ idx \in Nat
      /\ \A p \in DOMAIN subs : subs[p] \in Subs
  BY <1>2, <1>3
<1>5. /\ closed' \in Seq(Nat) /\ Len(closed') = Len(closed) + 1 /\ closed'[Len(closed) + 1] = idx
      /\ \A i \in 1..Len(closed) : closed'[i] = closed[i]
      /\ DOMAIN closed' = 1..(Len(closed) + 1) /\ DOMAIN closed = 1..Len(closed) /\ Len(closed) \in Nat
  BY <1>1, <1>4
<1>6. TypeOK'
  <2>1. \A i \in DOMAIN closed' : closed'[i] \in 1 .. idx' - 1
    BY <1>1, <1>4, <1>5
  <2>2. idx' \in Nat /\ idx' \in 1 .. Len(subs') + 1
    BY <1>1, <1>4
  <2> QED
    BY <1>1, <1>5, <2>1, <2>2 DEF Inv, TypeOK
<1>7. ClosedAscend'
  <2>1. ASSUME NEW i \in DOMAIN closed', NEW j \in DOMAIN closed', i < j PROVE closed'[i] < closed'[j]
    <3>1. i \in DOMAIN closed /\ closed'[i] = closed[i]
      BY <1>5, <2>1
    <3>2. CASE j = Len(closed) + 1
      BY <1>4, <1>5, <3>1, <3>2
    <3>3. CASE j # Len(closed) + 1
      BY <1>1, <1>5, <2>1, <3>1, <3>3 DEF Inv, ClosedAscend, Ascending
    <3> QED
      BY <3>2, <3>3
  <2> QED
    BY <2>1 DEF ClosedAscend, Ascending
<1>8. /\ \A s \in Subs : Stream(s)' = Stream(s) /\ Once(s)' = Once(s)
      /\ \A p \in DOMAIN subs : Owed(p)' => Owed(p)
  BY <1>1, <1>4 DEF Stream, Once, Owed
<1>9. Commands' /\ Registered'
  BY <1>1, <1>8 DEF Inv, Commands, Registered
<1>10. Counted'
  <2> SUFFICES ASSUME NEW p \in DOMAIN subs, subs[p] \in open, Once(subs[p])
               PROVE  Count(p)' = Count(p)
    BY <1>1, <1>4, <1>8 DEF Inv, Counted
  <2>1. Owed(p)' = Owed(p)
    BY <1>1, <1>4 DEF Owed
  <2> QED
    BY <1>1, <1>4, <1>8, <2>1 DEF Count
<1>11. Pending'
  BY <1>1, <1>4, <1>8 DEF Inv, Pending
<1>12. Streamed'
  BY <1>1, <1>8 DEF Inv, Streamed
<1> QED
  BY <1>6, <1>7, <1>9, <1>10, <1>11, <1>12 DEF Inv

\* Senders are removed when nobody dispatches, or everybody has been sent the event:
\* those that are left, wherever they are now, have been sent what they should.
LEMMA SendersRemoved ==
    ASSUME Inv, \A p \in DOMAIN subs : ~Owed(p),
           subs' \in Seq(Subs), lock' = Nobody, Commands', loop' \in Loops,
           target' \in Subs \cup {Nobody},
           \A i \in DOMAIN subs' : \E p \in DOMAIN subs : subs'[i] = subs[p],
           \A s : AtMostOnce(subs, s) => AtMostOnce(subs', s),
           UNCHANGED <<kinds, buf, got, open, idx, closed, actor, since, times>>
    PROVE  Inv'
<1>1. TypeOK'
  BY DEF Inv, TypeOK
<1>2. ClosedAscend' /\ Pending' /\ \A i \in DOMAIN subs' : ~Owed(i)'
  BY DEF ClosedAscend, Pending, Owed
<1>3. \A s \in Subs : Stream(s)' = Stream(s) /\ Once(s)' = Once(s)
  BY DEF Stream, Once
<1>4. Registered'
  BY <1>3 DEF Inv, Registered
<1>5. Counted'
  <2> SUFFICES ASSUME NEW i \in DOMAIN subs', subs'[i] \in open, Once(subs'[i])
               PROVE  /\ Count(i)' \in {Len(kinds), Len(kinds) - 1}
                      /\ actor # "aborted" => Count(i)' = Len(kinds)
    BY DEF Counted, Once
  <2>1. PICK p \in DOMAIN subs : subs'[i] = subs[p]
    OBVIOUS
  <2>2. subs[p] \in Subs
    BY DEF Inv, TypeOK
  <2>3. Count(i)' = Count(p)
    BY <1>2, <1>3, <2>1, <2>2 DEF Count
  <2>4. /\ Count(p) \in {Len(kinds), Len(kinds) - 1}
        /\ actor # "aborted" => Count(p) = Len(kinds)
    BY <2>1 DEF Inv, Counted
  <2> QED
    BY <2>3, <2>4
<1>6. Streamed'
  BY <1>3 DEF Inv, Streamed
<1> QED
  BY <1>1, <1>2, <1>4, <1>5, <1>6 DEF Inv

\* What the eviction at the end of a dispatch does to the Vec.
LEMMA EvictSubs ==
    ASSUME Inv, Dispatched
    PROVE  /\ subs' = Evict(subs, closed) /\ subs' \in Seq(Subs)
           /\ \A i \in DOMAIN subs' : \E p \in DOMAIN subs :
                 subs'[i] = subs[p] /\ \A k \in DOMAIN closed : closed[k] # p
           /\ \A p \in DOMAIN subs : (\A k \in DOMAIN closed : closed[k] # p) =>
                 \E i \in DOMAIN subs' : subs'[i] = subs[p]
           /\ \A s : AtMostOnce(subs, s) => AtMostOnce(subs', s)
<1>1. /\ lock # Nobody /\ subs' = Evict(subs, closed) /\ subs \in Seq(Subs) /\ closed \in Seq(Nat)
      /\ Ascending(closed) /\ idx \in 1 .. Len(subs) + 1
      /\ \A k \in DOMAIN closed : closed[k] \in 1 .. idx - 1
  BY DEF Inv, TypeOK, ClosedAscend, Dispatched
<1>2. \A k \in DOMAIN closed : closed[k] \in 1..Len(subs)
  BY <1>1
<1>3. PICK q \in Seq(Subs), c \in Seq(Nat) : q = subs /\ c = closed
  BY <1>1
<1>4. Ascending(c) /\ \A k \in DOMAIN c : c[k] \in 1..Len(q)
  BY <1>1, <1>2, <1>3
<1>5. /\ Evict(q, c) \in Seq(Subs)
      /\ \A i \in DOMAIN Evict(q, c) : \E p \in DOMAIN q :
            Evict(q, c)[i] = q[p] /\ \A k \in DOMAIN c : c[k] # p
      /\ \A p \in DOMAIN q : (\A k \in DOMAIN c : c[k] # p) =>
            \E i \in DOMAIN Evict(q, c) : Evict(q, c)[i] = q[p]
      /\ \A s : AtMostOnce(q, s) => AtMostOnce(Evict(q, c), s)
  BY <1>4, EvictKeeps
<1>6. subs' = Evict(q, c)
  BY <1>1, <1>3
<1> QED
  BY <1>1, <1>3, <1>5, <1>6

\* The loop over the subscribers is through: the closed ones are evicted and the
\* lock is released.
LEMMA DispatchedInv == ASSUME Inv, Dispatched PROVE Inv'
<1>1. /\ idx > Len(subs) /\ lock' = Nobody
      /\ loop' = (IF lock = "loop" THEN "stopped" ELSE loop)
      /\ UNCHANGED <<kinds, buf, got, open, idx, closed, actor, target, since, times>>
  BY DEF Dispatched
<1>2. \A p \in DOMAIN subs : ~Owed(p)
  BY <1>1 DEF Inv, TypeOK, Owed
<1>3. Commands' /\ loop' \in Loops /\ target' \in Subs \cup {Nobody}
  BY <1>1 DEF Inv, TypeOK, Loops, Commands
<1>4. /\ subs' \in Seq(Subs)
      /\ \A i \in DOMAIN subs' : \E p \in DOMAIN subs : subs'[i] = subs[p]
      /\ \A s : AtMostOnce(subs, s) => AtMostOnce(subs', s)
  BY EvictSubs
<1> QED
  BY <1>1, <1>2, <1>3, <1>4, SendersRemoved

\* remove_subscriber takes at most one sender out of the list.
LEMMA RemoveSubscriberInv == ASSUME Inv, RemoveSubscriber PROVE Inv'
<1>1. /\ lock = Nobody /\ loop' = "idle" /\ target' = Nobody
      /\ UNCHANGED <<kinds, buf, got, open, lock, idx, closed, actor, since, times>>
  BY DEF RemoveSubscriber
<1>2. \A p \in DOMAIN subs : ~Owed(p)
  BY <1>1 DEF Owed
<1>3. Commands' /\ loop' \in Loops /\ target' \in Subs \cup {Nobody} /\ lock' = Nobody
  BY <1>1 DEF Loops, Commands
<1>4. /\ subs' \in Seq(Subs)
      /\ \A i \in DOMAIN subs' : \E p \in DOMAIN subs : subs'[i] = subs[p]
      /\ \A s : AtMostOnce(subs, s) => AtMostOnce(subs', s)
  <2>1. CASE subs' = subs
    BY <2>1 DEF Inv, TypeOK
  <2>2. ASSUME NEW k \in DOMAIN subs, subs' = SwapRemove(subs, k) PROVE <1>4
    <3>0. subs \in Seq(Subs)
      BY DEF Inv, TypeOK
    <3>1. subs \in Seq(Subs) /\ k \in 1..Len(subs)
      BY <3>0
    <3>2. /\ subs' \in Seq(Subs) /\ Len(subs') = Len(subs) - 1
          /\ \A j \in 1..(Len(subs) - 1) : subs'[j] = IF j = k THEN subs[Len(subs)] ELSE subs[j]
          /\ \A s : AtMostOnce(subs, s) => AtMostOnce(subs', s)
      BY <2>2, <3>1, SwapRemoveKeeps
    <3>3. ASSUME NEW i \in DOMAIN subs' PROVE \E p \in DOMAIN subs : subs'[i] = subs[p]
      <4>1. i \in 1..(Len(subs) - 1) /\ i \in DOMAIN subs /\ Len(subs) \in DOMAIN subs
        BY <3>1, <3>2
      <4> QED
        BY <3>2, <4>1
    <3> QED
      BY <3>2, <3>3
  <2> QED
    BY <2>1, <2>2 DEF RemoveSubscriber
<1> QED
  BY <1>1, <1>2, <1>3, <1>4, SendersRemoved

\* A new sender has everything that came after it was registered: nothing yet.
LEMMA AddSubscriberInv == ASSUME Inv, AddSubscriber PROVE Inv'
<1>1. PICK s \in Subs : s = target
  BY DEF Inv, Commands, AddSubscriber
<1>2. /\ lock = Nobody /\ subs' = Append(subs, s) /\ loop' = "idle" /\ target' = Nobody
      /\ since' = [since EXCEPT ![s] = Len(kinds)] /\ times' = [times EXCEPT ![s] = @ + 1]
      /\ UNCHANGED <<kinds, buf, got, open, lock, idx, closed, actor>>
  BY <1>1 DEF AddSubscriber
<1>3. /\ subs \in Seq(Subs) /\ Len(kinds) \in Nat
      /\ since \in [Subs -> Nat] /\ times \in [Subs -> Nat]
  BY DEF Inv, TypeOK
<1>4. /\ subs' \in Seq(Subs) /\ DOMAIN subs' = 1..(Len(subs) + 1) /\ subs'[Len(subs) + 1] = s
      /\ DOMAIN subs = 1..Len(subs) /\ Len(subs) \in Nat
      /\ \A p \in DOMAIN subs : p \in DOMAIN subs' /\ subs'[p] = subs[p] /\ subs[p] \in Subs
      /\ \A p \in DOMAIN subs' : p = Len(subs) + 1 \/ p \in DOMAIN subs
  <2>1. /\ Append(subs, s) \in Seq(Subs) /\ Append(subs, s)[Len(subs) + 1] = s
        /\ DOMAIN Append(subs, s) = 1..(Len(subs) + 1) /\ Len(subs) \in Nat
        /\ DOMAIN subs = 1..Len(subs)
    BY <1>3
  <2>2. \A p \in 1..Len(subs) : Append(subs, s)[p] = subs[p] /\ subs[p] \in Subs
    BY <1>3
  <2> QED
    BY <1>2, <2>1, <2>2
<1>5. /\ since'[s] = Len(kinds) /\ times'[s] = times[s] + 1
      /\ \A x \in Subs : x # s => since'[x] = since[x] /\ times'[x] = times[x]
      /\ since' \in [Subs -> Nat] /\ times' \in [Subs -> Nat]
  BY <1>2, <1>3
<1>6. TypeOK'
  BY <1>2, <1>4, <1>5 DEF Inv, TypeOK, Loops
<1>7. ClosedAscend' /\ Commands' /\ Pending' /\ \A p : ~Owed(p) /\ ~Owed(p)'
  BY <1>2 DEF ClosedAscend, Commands, Pending, Owed
<1>8. /\ \A x \in Subs : Stream(x)' = Stream(x)
      /\ \A x \in Subs : x # s => Once(x)' = Once(x)
  BY <1>2, <1>5 DEF Stream, Once
<1>9. ASSUME Once(s)'
      PROVE  times[s] = 0 /\ Stream(s) = <<>> /\ \A p \in DOMAIN subs : subs[p] # s
  <2>1. times[s] = 0
    BY <1>3, <1>5, <1>9 DEF Once
  <2> QED
    BY <2>1 DEF Inv, Registered
<1>10. Registered'
  <2> SUFFICES ASSUME NEW x \in Subs
               PROVE  /\ times'[x] = 0 => Stream(x) = <<>> /\ \A p \in DOMAIN subs' : subs'[p] # x
                      /\ times'[x] = 1 => AtMostOnce(subs', x)
    BY <1>8 DEF Registered
  <2>1. CASE x = s
    <3>1. times'[x] # 0
      BY <1>3, <1>5, <2>1
    <3>2. ASSUME times'[x] = 1 PROVE AtMostOnce(subs', x)
      <4>1. Once(s)'
        BY <2>1, <3>2 DEF Once
      <4>2. \A p \in DOMAIN subs' : subs'[p] = x => p = Len(subs) + 1
        BY <1>4, <1>9, <2>1, <4>1
      <4> QED
        BY <4>2 DEF AtMostOnce
    <3> QED
      BY <3>1, <3>2
  <2>2. CASE x # s
    <3>1. \A p \in DOMAIN subs' : subs'[p] = x => p \in DOMAIN subs /\ subs[p] = x
      BY <1>4, <2>2
    <3>2. times'[x] = 0 => Stream(x) = <<>> /\ \A p \in DOMAIN subs' : subs'[p] # x
      BY <1>5, <2>2, <3>1 DEF Inv, Registered
    <3>3. times'[x] = 1 => AtMostOnce(subs', x)
      BY <1>5, <2>2, <3>1 DEF Inv, Registered, AtMostOnce
    <3> QED
      BY <3>2, <3>3
  <2> QED
    BY <2>1, <2>2
<1>11. Counted'
  <2> SUFFICES ASSUME NEW p \in DOMAIN subs', NEW x \in Subs, x = subs'[p], x \in open, Once(x)'
               PROVE  /\ Count(p)' \in {Len(kinds), Len(kinds) - 1}
                      /\ actor # "aborted" => Count(p)' = Len(kinds)
    <3>1. \A p \in DOMAIN subs' : subs'[p] \in Subs
      BY <1>4
    <3> QED
      BY <1>2, <3>1 DEF Counted, Once
  <2>1. Count(p)' = since'[x] + Len(Stream(x)') + 0
    BY <1>7 DEF Count, Stream
  <2>2. CASE x = s
    <3>1. Stream(x)' = <<>>
      BY <1>8, <1>9, <2>2
    <3>2. Len(Stream(x)') = 0
      BY <3>1
    <3> QED
      BY <1>3, <1>5, <2>1, <2>2, <3>2
  <2>3. CASE x # s
    <3>1. p \in DOMAIN subs /\ x = subs[p]
      BY <1>4, <2>3
    <3>2. Once(x) /\ Stream(x)' = Stream(x) /\ since'[x] = since[x]
      BY <1>5, <1>8, <2>3
    <3>3. Count(p) = since[x] + Len(Stream(x)) + 0
      BY <1>7, <3>1 DEF Count
    <3>4. /\ Count(p) \in {Len(kinds), Len(kinds) - 1}
          /\ actor # "aborted" => Count(p) = Len(kinds)
      BY <3>1, <3>2 DEF Inv, Counted
    <3> QED
      BY <2>1, <3>2, <3>3, <3>4
  <2> QED
    BY <2>2, <2>3
<1>12. Streamed'
  <2> SUFFICES ASSUME NEW x \in Subs, Once(x)'
               PROVE  /\ InOrder(Stream(x), since'[x], Len(kinds))
                      /\ actor # "aborted" => Consecutive(Stream(x), since'[x])
    BY <1>2, <1>8 DEF Streamed
  <2>1. CASE x = s
    <3>1. Stream(x) = <<>>
      BY <1>9, <2>1
    <3> QED
      BY <3>1 DEF InOrder, Consecutive
  <2>2. CASE x # s
    BY <1>5, <1>8, <2>2 DEF Inv, Streamed
  <2> QED
    BY <2>1, <2>2
<1> QED
  BY <1>6, <1>7, <1>10, <1>11, <1>12 DEF Inv

\* An abort: whoever was still owed the event has now lost it.
LEMMA ActorAbortInv == ASSUME Inv, ActorAbort PROVE Inv'
<1>1. /\ actor = "running" /\ actor' = "aborted" /\ lock' = Nobody
      /\ UNCHANGED <<kinds, subs, buf, got, open, idx, closed, loop, target, since, times>>
  BY DEF ActorAbort
<1>2. TypeOK'
  BY <1>1 DEF Inv, TypeOK
<1>3. ClosedAscend' /\ Pending' /\ \A p : ~Owed(p)'
  BY <1>1 DEF ClosedAscend, Pending, Owed
<1>4. \A s \in Subs : Stream(s)' = Stream(s) /\ Once(s)' = Once(s)
  BY <1>1 DEF Stream, Once
<1>5. Commands' /\ Registered' /\ Streamed'
  BY <1>1, <1>4 DEF Inv, Commands, Registered, Streamed
<1>6. Counted'
  <2> SUFFICES ASSUME NEW p \in DOMAIN subs, subs[p] \in open, Once(subs[p])
               PROVE  Count(p)' \in {Len(kinds), Len(kinds) - 1}
    BY <1>1 DEF Counted, Once
  <2>1. PICK x \in Subs : x = subs[p]
    BY DEF Inv, TypeOK
  <2>2. Len(kinds) \in Nat /\ since[x] \in Nat /\ Stream(x) \in Seq(Nat)
    <3>1. Stream(x) \in Seq(Nat)
      BY StreamType DEF Inv
    <3> QED
      BY <3>1 DEF Inv, TypeOK
  <2>3. Count(p) = Len(kinds)
    BY <1>1 DEF Inv, Counted
  <2>4. since[x] + Len(Stream(x)) \in {Len(kinds), Len(kinds) - 1}
    BY <2>1, <2>2, <2>3 DEF Count
  <2>5. Count(p)' = since[x] + Len(Stream(x))
    BY <1>1, <1>3, <1>4, <2>1, <2>2 DEF Count
  <2> QED
    BY <2>4, <2>5
<1> QED
  BY <1>2, <1>3, <1>5, <1>6 DEF Inv

\* A subscriber takes the oldest event of its buffer.
LEMMA ReceiveInv == ASSUME Inv, NEW s \in Subs, Receive(s) PROVE Inv'
<1>1. /\ buf[s] # <<>>
      /\ got' = [got EXCEPT ![s] = Append(@, Head(buf[s]))] /\ buf' = [buf EXCEPT ![s] = Tail(@)]
      /\ UNCHANGED <<kinds, subs, open, lock, idx, closed, actor, loop, target, since, times>>
  BY DEF Receive
<1>2. /\ buf \in [Subs -> Seq(Nat)] /\ got \in [Subs -> Seq(Nat)] /\ Cap \in Nat
      /\ \A x \in Subs : Len(buf[x]) <= Cap
  BY ChainAssumption DEF Inv, TypeOK
<1>3. /\ Append(got[s], Head(buf[s])) \o Tail(buf[s]) = got[s] \o buf[s]
      /\ Append(got[s], Head(buf[s])) \in Seq(Nat) /\ Tail(buf[s]) \in Seq(Nat)
      /\ Len(Tail(buf[s])) = Len(buf[s]) - 1
  BY <1>1, <1>2, ReadMoves
<1>4. TypeOK'
  <2>1. buf' \in [Subs -> Seq(Nat)] /\ got' \in [Subs -> Seq(Nat)]
    BY <1>1, <1>2, <1>3
  <2>2. \A x \in Subs : Len(buf'[x]) <= Cap
    BY <1>1, <1>2, <1>3
  <2> QED
    BY <1>1, <2>1, <2>2 DEF Inv, TypeOK
<1>5. /\ \A x \in Subs : Stream(x)' = Stream(x) /\ Once(x)' = Once(x)
      /\ \A p : Owed(p)' = Owed(p)
      /\ \A p \in DOMAIN subs : subs[p] \in Subs
  <2>1. \A x \in Subs : Stream(x)' = Stream(x)
    <3> TAKE x \in Subs
    <3>1. CASE x = s
      BY <1>1, <1>2, <1>3, <3>1 DEF Stream
    <3>2. CASE x # s
      BY <1>1, <1>2, <3>2 DEF Stream
    <3> QED
      BY <3>1, <3>2
  <2>2. \A p \in DOMAIN subs : subs[p] \in Subs
    BY DEF Inv, TypeOK
  <2> QED
    BY <1>1, <2>1, <2>2 DEF Once, Owed
<1>6. ClosedAscend' /\ Commands' /\ Registered' /\ Pending' /\ Streamed'
  BY <1>1, <1>5 DEF Inv, ClosedAscend, Commands, Registered, Pending, Streamed
<1>7. Counted'
  BY <1>1, <1>5 DEF Inv, Counted, Count
<1> QED
  BY <1>4, <1>6, <1>7 DEF Inv

\* What was not read when the receiver is closed is lost, and nothing before it.
LEMMA CloseReceiverInv == ASSUME Inv, NEW s \in Subs, CloseReceiver(s) PROVE Inv'
<1>1. /\ open' = open \ {s} /\ buf' = [buf EXCEPT ![s] = <<>>]
      /\ UNCHANGED <<kinds, subs, got, lock, idx, closed, actor, loop, target, since, times>>
  BY DEF CloseReceiver
<1>2. /\ buf \in [Subs -> Seq(Nat)] /\ got \in [Subs -> Seq(Nat)] /\ Cap \in Nat
      /\ \A x \in Subs : Len(buf[x]) <= Cap
      /\ Len(kinds) \in Nat /\ since \in [Subs -> Nat]
  BY ChainAssumption DEF Inv, TypeOK
<1>3. TypeOK'
  <2>1. buf' \in [Subs -> Seq(Nat)] /\ open' \subseteq Subs
    BY <1>1, <1>2 DEF Inv, TypeOK
  <2>2. ASSUME NEW x \in Subs PROVE Len(buf'[x]) <= Cap
    <3>1. CASE x = s
      BY <1>1, <1>2, <3>1
    <3>2. CASE x # s
      BY <1>1, <1>2, <3>2
    <3> QED
      BY <3>1, <3>2
  <2> QED
    BY <1>1, <2>1, <2>2 DEF Inv, TypeOK
<1>4. /\ Stream(s)' = got[s] /\ \A x \in Subs : x # s => Stream(x)' = Stream(x)
      /\ \A x \in Subs : Once(x)' = Once(x)
      /\ \A p : Owed(p)' = Owed(p)
      /\ \A p \in DOMAIN subs : subs[p] \in Subs
  <2>1. \A a \in Seq(Nat) : a \o <<>> = a
    OBVIOUS
  <2>2. Stream(s)' = got[s]
    BY <1>1, <1>2, <2>1 DEF Stream
  <2>3. \A x \in Subs : x # s => Stream(x)' = Stream(x)
    BY <1>1, <1>2 DEF Stream
  <2>4. \A p \in DOMAIN subs : subs[p] \in Subs
    BY DEF Inv, TypeOK
  <2> QED
    BY <1>1, <2>2, <2>3, <2>4 DEF Once, Owed
<1>5. ClosedAscend' /\ Commands'
  BY <1>1 DEF Inv, ClosedAscend, Commands
<1>6. \A i \in DOMAIN got[s] : i \in DOMAIN Stream(s) /\ Stream(s)[i] = got[s][i]
  <2>1. got[s] \in Seq(Nat) /\ buf[s] \in Seq(Nat)
    BY <1>2
  <2>2. \A a, b \in Seq(Nat) : \A i \in DOMAIN a : i \in DOMAIN (a \o b) /\ (a \o b)[i] = a[i]
    OBVIOUS
  <2> QED
    BY <2>1, <2>2, Zenon DEF Stream
<1>7. Registered'
  <2>1. Stream(s) = <<>> => got[s] = <<>>
    <3>1. got[s] \in Seq(Nat) /\ Stream(s) \in Seq(Nat) /\ Len(Stream(s)) = Len(got[s]) + Len(buf[s])
          /\ Len(buf[s]) \in Nat
      BY <1>2, StreamType DEF Inv
    <3>2. Stream(s) = <<>> => Len(Stream(s)) = 0
      OBVIOUS
    <3>3. \A a \in Seq(Nat) : Len(a) = 0 => a = <<>>
      OBVIOUS
    <3>4. Stream(s) = <<>> => Len(got[s]) = 0
      <4>1. Len(got[s]) \in Nat
        BY <3>1
      <4>2. Len(Stream(s)) = 0 => Len(got[s]) = 0
        <5>1. \A a, b \in Nat : a + b = 0 => a = 0
          OBVIOUS
        <5> QED
          BY <3>1, <4>1, <5>1, Zenon
      <4> QED
        BY <3>2, <4>2, Zenon
    <3> QED
      BY <3>1, <3>3, <3>4
  <2> QED
    BY <1>1, <1>4, <2>1 DEF Inv, Registered
<1>8. Counted'
  <2> SUFFICES ASSUME NEW p \in DOMAIN subs, subs[p] \in open \ {s}, Once(subs[p])
               PROVE  Count(p)' = Count(p)
    BY <1>1, <1>4 DEF Inv, Counted
  <2> QED
    BY <1>1, <1>4 DEF Count
<1>9. Pending'
  <2> SUFFICES ASSUME NEW p \in DOMAIN subs, Owed(p), Once(subs[p])
               PROVE  \A i \in DOMAIN Stream(subs[p])' : Stream(subs[p])'[i] < Len(kinds)
    BY <1>1, <1>4 DEF Pending
  <2>1. \A i \in DOMAIN Stream(subs[p]) : Stream(subs[p])[i] < Len(kinds)
    BY DEF Inv, Pending
  <2>2. CASE subs[p] = s
    <3>1. Stream(subs[p])' = got[s]
      BY <1>1, <1>4, <2>2
    <3> QED
      BY <1>6, <2>1, <2>2, <3>1
  <2>3. CASE subs[p] # s
    BY <1>1, <1>4, <2>1, <2>3
  <2> QED
    BY <2>2, <2>3
<1>10. Streamed'
  <2> SUFFICES ASSUME NEW x \in Subs, Once(x)
               PROVE  /\ InOrder(Stream(x)', since[x], Len(kinds))
                      /\ actor # "aborted" => Consecutive(Stream(x)', since[x])
    BY <1>1, <1>4 DEF Streamed
  <2>1. /\ InOrder(Stream(x), since[x], Len(kinds))
        /\ actor # "aborted" => Consecutive(Stream(x), since[x])
    BY DEF Inv, Streamed
  <2>2. CASE x = s
    <3>1. got[s] \in Seq(Nat) /\ buf[s] \in Seq(Nat) /\ since[s] \in Nat
      BY <1>2
    <3> QED
      BY <1>2, <1>4, <2>1, <2>2, <3>1, BeginningInOrder DEF Stream
  <2>3. CASE x # s
    BY <1>4, <2>1, <2>3
  <2> QED
    BY <2>2, <2>3
<1> QED
  BY <1>3, <1>5, <1>7, <1>8, <1>9, <1>10 DEF Inv

\* A command is taken, or the operation loop ends: the chain is not touched.
LEMMA QuietInv ==
    ASSUME Inv, Commands', loop' \in Loops, target' \in Subs \cup {Nobody},
           actor' \in {"running", "over", "aborted"}, actor' # "aborted" => actor # "aborted",
           UNCHANGED <<kinds, subs, buf, got, open, lock, idx, closed, since, times>>
    PROVE  Inv'
<1>1. TypeOK'
  BY DEF Inv, TypeOK
<1>2. /\ \A x \in Subs : Stream(x)' = Stream(x) /\ Once(x)' = Once(x)
      /\ \A p : Owed(p)' = Owed(p)
      /\ \A p \in DOMAIN subs : subs[p] \in Subs
  BY DEF Inv, TypeOK, Stream, Once, Owed
<1>3. ClosedAscend' /\ Registered' /\ Pending' /\ Streamed'
  BY <1>2 DEF Inv, ClosedAscend, Registered, Pending, Streamed
<1>4. Counted'
  BY <1>2 DEF Inv, Counted, Count
<1> QED
  BY <1>1, <1>3, <1>4 DEF Inv

\* Every step keeps the invariant.
LEMMA NextInv == Inv /\ [Next]_vars => Inv'
<1> SUFFICES ASSUME Inv, [Next]_vars PROVE Inv'
  OBVIOUS
<1>1. CASE UNCHANGED vars
  BY <1>1, QuietInv DEF Inv, TypeOK, Commands, vars
<1>2. CASE ActorEvent
  BY <1>2, AppendInv DEF ActorEvent
<1>3. CASE LoopEvent
  BY <1>3, AppendInv DEF LoopEvent
<1>4. CASE Dispatch
  BY <1>4, DispatchInv
<1>5. CASE DispatchClosed
  BY <1>5, DispatchClosedInv
<1>6. CASE Dispatched
  BY <1>6, DispatchedInv
<1>7. CASE AddSubscriber
  BY <1>7, AddSubscriberInv
<1>8. CASE RemoveSubscriber
  BY <1>8, RemoveSubscriberInv
<1>9. CASE ActorAbort
  BY <1>9, ActorAbortInv
<1>10. CASE ActorEnds
  BY <1>10, QuietInv DEF ActorEnds, Inv, TypeOK, Commands
<1>11. ASSUME NEW c \in {"subscribe", "unsubscribe", "stop"}, NEW s \in Subs, LoopCommand(c, s)
       PROVE  Inv'
  <2>1. Commands' /\ loop' \in Loops /\ target' \in Subs \cup {Nobody}
    BY <1>11 DEF LoopCommand, Commands, Loops
  <2> QED
    BY <1>11, <2>1, QuietInv DEF LoopCommand, Inv, TypeOK
<1>12. ASSUME NEW s \in Subs, Receive(s) PROVE Inv'
  BY <1>12, ReceiveInv
<1>13. ASSUME NEW s \in Subs, CloseReceiver(s) PROVE Inv'
  BY <1>13, CloseReceiverInv
<1> QED
  BY <1>1, <1>2, <1>3, <1>4, <1>5, <1>6, <1>7, <1>8, <1>9, <1>10, <1>11, <1>12, <1>13
  DEF Next, ChainStep, LoopStep

-----------------------------------------------------------------------------
(* The theorems.                                                           *)

\* The invariant holds of add_typed_event, the subscriptions and every way in which
\* an operation loop or a receiver ends.
THEOREM ChainInvariant == Spec => []Inv
  BY InitInv, NextInv, PTL DEF Spec

\* With the invariant a subscriber has been sent everything when nobody dispatches.
LEMMA InvComplete == Inv => Completeness
<1> SUFFICES ASSUME Inv PROVE Completeness
  OBVIOUS
<1>1. ASSUME actor # "aborted" PROVE HashLinksVerify
  BY <1>1 DEF Inv, Streamed, Consecutive, HashLinksVerify
<1>2. ASSUME actor # "aborted", NEW s \in Subs, Once(s), Subscribed(s), lock = Nobody
      PROVE  Len(Stream(s)) = Len(kinds) - since[s]
  <2>1. PICK p \in DOMAIN subs : subs[p] = s
    BY <1>2 DEF Subscribed
  <2>2. Count(p) = Len(kinds) /\ Count(p) = since[s] + Len(Stream(s)) + 0
    BY <1>2, <2>1 DEF Inv, Counted, Count, Owed, Subscribed
  <2>3. Len(kinds) \in Nat /\ since[s] \in Nat
    BY DEF Inv, TypeOK
  <2>4. Len(Stream(s)) \in Nat
    BY StreamType DEF Inv
  <2> QED
    BY <2>2, <2>3, <2>4
<1> QED
  BY <1>1, <1>2 DEF Completeness, Inv

\* "Chain completeness is preserved", by add_typed_event with subscribers that come,
\* go, lag and close while it dispatches: a channel that is registered once is sent
\* every event from its registration on, in order and without a gap, until an
\* operation loop is aborted in a dispatch.
THEOREM CompletenessHolds == Spec => []Completeness
  BY ChainInvariant, InvComplete, PTL

\* With the invariant nobody lacks more than one event.
LEMMA InvLosesOne == Inv => AbortLosesOne
<1> SUFFICES ASSUME Inv, NEW s \in Subs, Once(s)
             PROVE  /\ \A i \in DOMAIN Stream(s) : Stream(s)[i] \in since[s] + 1 .. Len(kinds)
                    /\ \A i, j \in DOMAIN Stream(s) : i < j => Stream(s)[i] < Stream(s)[j]
                    /\ Subscribed(s) /\ lock = Nobody => Len(Stream(s)) >= Len(kinds) - since[s] - 1
  BY DEF AbortLosesOne
<1>1. InOrder(Stream(s), since[s], Len(kinds))
  BY DEF Inv, Streamed
<1>2. ASSUME Subscribed(s), lock = Nobody PROVE Len(Stream(s)) >= Len(kinds) - since[s] - 1
  <2>1. PICK p \in DOMAIN subs : subs[p] = s
    BY <1>2 DEF Subscribed
  <2>2. /\ Count(p) \in {Len(kinds), Len(kinds) - 1}
        /\ Count(p) = since[s] + Len(Stream(s)) + 0
    BY <1>2, <2>1 DEF Inv, Counted, Count, Owed, Subscribed
  <2>3. Len(kinds) \in Nat /\ since[s] \in Nat
    BY DEF Inv, TypeOK
  <2>4. Len(Stream(s)) \in Nat
    BY StreamType DEF Inv
  <2> QED
    BY <2>2, <2>3, <2>4
<1> QED
  BY <1>1, <1>2 DEF InOrder

\* The abort of an operation loop that waits in send().await, after which the head
\* hash is that of an event not everybody was sent, costs a subscriber one event at
\* most, and no subscriber ever sees an event twice or out of order.
THEOREM AbortLosesOneHolds == Spec => []AbortLosesOne
  BY ChainInvariant, InvLosesOne, PTL

\* What the end of a dispatch does to the Vec, by swap_remove from the highest of
\* closed_indices down.
LEMMA EvictionStep ==
    ASSUME Inv, [Next]_vars, lock # Nobody, lock' = Nobody, idx > Len(subs), NEW s \in Subs
    PROVE  (\E i \in DOMAIN subs' : subs'[i] = s)
             <=> (\E i \in DOMAIN subs : subs[i] = s /\ \A k \in DOMAIN closed : closed[k] # i)
<1>1. Dispatched
  <2>1. lock' # lock /\ ~ActorAbort
    BY DEF Inv, TypeOK, ActorAbort
  <2> QED
    BY <2>1, ChainAssumption DEF Next, ChainStep, LoopStep, vars, ActorEvent, LoopEvent, Append1, Dispatch,
       DispatchClosed, AddSubscriber, RemoveSubscriber, ActorEnds, LoopCommand, Receive, CloseReceiver
<1> QED
  BY <1>1, EvictSubs

\* A dispatch removes exactly the senders whose send failed, although swap_remove
\* moves others to their places.
THEOREM EvictionExactHolds == Spec => EvictionExact
<1> DEFINE Exact ==
      (lock # Nobody /\ lock' = Nobody /\ idx > Len(subs)) =>
          \A s \in Subs :
              (\E i \in DOMAIN subs' : subs'[i] = s)
                <=> (\E i \in DOMAIN subs : subs[i] = s /\ \A k \in DOMAIN closed : closed[k] # i)
<1>1. Inv /\ [Next]_vars => [Exact]_vars
  BY EvictionStep
<1> QED
  BY <1>1, ChainInvariant, PTL DEF Spec, EvictionExact

-----------------------------------------------------------------------------
(* Recording and replay.                                                   *)

\* Before the replay is set up nothing of it has happened.
Recording ==
    phase = "record" =>
        /\ guest = Original /\ hpc = "none" /\ vpc = "done"
        /\ expected = <<>> /\ position = 1 /\ index = 1 /\ real = 0 /\ outside = 0
        /\ verified = 0 /\ divergence = FALSE

\* The guest is at a place of its program.
Placed == cur # None /\ cur.f \in Exports => cur.outs \in DOMAIN Program[guest][cur.f]

\* The handler sends a call only when there is one.
CallDue == hpc \in {"send", "left"} => calls_to_replay # {}

\* What has been verified is the same, and success needs all of it; the task runs
\* only while there is something to verify.
VerifiedSame ==
    /\ \A i \in 1..verified : chain[i] = expected[i]
    /\ hpc = "ok" => verified = Len(expected)
    /\ vpc = "run" => verified < Len(expected) \/ expected = <<>>

ReplayInv == ReplayTypeOK /\ Recording /\ Placed /\ CallDue /\ VerifiedSame

-----------------------------------------------------------------------------
\* After n events of c, the call that began with the j-th is at work.
InCall(c, j, n) ==
    /\ j \in 1..n /\ c[j].k = "call"
    /\ \A i \in (j + 1)..n : c[i].k = "host"

\* What its host functions have returned.
Returned(c, j, n) == [i \in 1..(n - j) |-> c[j + i].out]

\* The event that a guest's decision d in function f becomes.
Becomes(d, f, e) ==
    \/ d.do = "host" /\ e.k = "host" /\ e.g = d.g
    \/ d.do = "return" /\ e.k = "result" /\ e.f = f /\ e.v = d.v
    \/ d.do = "trap" /\ e.k = "error" /\ e.f = f

\* Every event of c is the beginning of a call where none was at work, or what the
\* original guest does next in the one that is.
Begins(c, n) == c[n].k = "call" /\ c[n].f \in Exports /\ (n = 1 \/ c[n - 1].k = "result")

Follows(c, n) ==
    \E j \in 1..(n - 1) :
        /\ InCall(c, j, n - 1) /\ c[j].f \in Exports
        /\ Becomes(Program[Original][c[j].f][Returned(c, j, n - 1)], c[j].f, c[n])

Explained(c) == \A n \in 1..Len(c) : Begins(c, n) \/ Follows(c, n)

\* cur is the call at work after all of c.
Tracked(c) ==
    /\ cur = None => c = <<>> \/ c[Len(c)].k \in {"result", "error"}
    /\ cur # None =>
         \E j \in 1..Len(c) :
            InCall(c, j, Len(c)) /\ cur.f = c[j].f /\ cur.outs = Returned(c, j, Len(c))

Recorded == phase = "record" /\ ~Stopped(chain) => Explained(chain) /\ Tracked(chain)

\* The chains agree as far as both go, and neither the interceptor nor the handler
\* is ahead of the chain or has left behind what it still needs.
InStep ==
    /\ \A i \in 1..Len(chain) : i <= Len(expected) => chain[i] = expected[i]
    /\ expected = <<>> => chain = <<>>
    /\ position <= Len(chain) + 1 /\ index <= Len(chain) + 1
    /\ \A i \in position..Len(expected) : expected[i].k = "host" => i > Len(chain)
    /\ \A i \in index..Len(expected) : expected[i].k = "call" => i > Len(chain)
    /\ real > 0 => Len(chain) > Len(expected)
    /\ ~divergence

Replayed == Undisturbed => Explained(expected) /\ Tracked(chain) /\ InStep

SameInv == ReplayInv /\ Recorded /\ Replayed

-----------------------------------------------------------------------------
\* First takes the least of the indices found, where there are any.
LEMMA FirstLeast ==
    ASSUME NEW m \in Nat, NEW n \in Nat, NEW found, found \subseteq m..n, found # {}
    PROVE  /\ First(found) \in found
           /\ \A y \in found : First(found) <= y
<1>1. found \subseteq Nat
  OBVIOUS
<1>2. PICK x \in found : \A y \in found : ~(<<y, x>> \in OpToRel(<, Nat))
  BY <1>1, WFMin, NatLessThanWellFounded
<1>3. \A y \in found : x <= y
  <2> TAKE y \in found
  <2>1. ~(y < x)
    BY <1>1, <1>2 DEF OpToRel
  <2> QED
    BY <1>1, <2>1
<1> QED
  BY <1>3 DEF First

\* An event more leaves the others where they are.
LEMMA EventAppended ==
    ASSUME NEW S, NEW c \in Seq(S), NEW e \in S
    PROVE  /\ Append(c, e) \in Seq(S) /\ Len(Append(c, e)) = Len(c) + 1
           /\ Append(c, e)[Len(c) + 1] = e
           /\ \A i \in 1..Len(c) : Append(c, e)[i] = c[i]
  OBVIOUS

\* A step of the guest in an exported function is a decision of its program; in any
\* other function it is an error.
LEMMA StepDecides ==
    ASSUME ReplayTypeOK, Placed, cur # None
    PROVE  /\ Step \in Decision
           /\ cur.f \notin Exports => Step.do = "trap"
           /\ cur.f \in Exports => Step = Program[guest][cur.f][cur.outs]
<1> cur \in Working
  BY DEF ReplayTypeOK
<1>1. CASE cur.f \in Exports
  BY <1>1, ReplayAssumption DEF ReplayTypeOK, Placed, Step
<1>2. CASE cur.f \notin Exports
  BY <1>2 DEF Step, Decision
<1> QED
  BY <1>1, <1>2

\* The kinds of decision and what they carry.
LEMMA DecisionKinds ==
    ASSUME NEW d \in Decision
    PROVE  /\ d.do \in {"host", "return", "trap"}
           /\ d.do = "host" => d.g \in Hosts
           /\ d.do = "return" => d.v \in Outputs
  BY DEF Decision

\* The kinds of event and what they carry.
LEMMA EventKinds ==
    ASSUME NEW e \in Event
    PROVE  /\ e.k \in {"call", "error", "result", "host", "stop"}
           /\ e.k \in {"call", "error", "stop"} => e.f \in Exports \cup {"shutdown"}
           /\ e.k = "host" => e.g \in Hosts /\ e.out \in Outputs /\ e = [k |-> "host", g |-> e.g, out |-> e.out]
           /\ e.k = "result" => e = [k |-> "result", f |-> e.f, v |-> e.v]
           /\ e.k \in {"call", "error"} => e = [k |-> e.k, f |-> e.f]
  BY DEF Event

\* A call in work goes on with one output more.
LEMMA WorkGoesOn ==
    ASSUME NEW w \in Working, NEW out \in Outputs
    PROVE  /\ [w EXCEPT !.outs = Append(@, out)] \in Working
           /\ [w EXCEPT !.outs = Append(@, out)].f = w.f
           /\ [w EXCEPT !.outs = Append(@, out)].outs = Append(w.outs, out)
<1>1. w.outs \in Seq(Outputs) /\ w.f \in Exports \cup {"shutdown"} /\ w.by \in {"replay", "other"}
  BY DEF Working
<1>2. Append(w.outs, out) \in Seq(Outputs)
  BY <1>1, EventAppended
<1>3. [w EXCEPT !.outs = Append(@, out)] = [f |-> w.f, outs |-> Append(w.outs, out), by |-> w.by]
  BY SMTT(30) DEF Working
<1> HIDE DEF Working
<1> QED
  BY <1>1, <1>2, <1>3 DEF Working

\* find_next_host_call answers from the next recorded call of the function, and what
\* it records is that event again.
LEMMA ReplaysAt ==
    ASSUME ReplayTypeOK, Placed, ReplayHost
    PROVE  \E i \in position..Len(expected) :
              /\ expected[i].k = "host" /\ expected[i].g = Step.g
              /\ \A j \in position..(i - 1) : ~(expected[j].k = "host" /\ expected[j].g = Step.g)
              /\ position' = i + 1
              /\ chain' = Append(chain, expected[i])
              /\ cur # None /\ cur' = [cur EXCEPT !.outs = Append(@, expected[i].out)]
              /\ Step \in Decision /\ Step.do = "host"
<1>1. Len(expected) \in Nat /\ position \in Nat /\ Matches(Step.g) # {}
  BY DEF ReplayTypeOK, ReplayHost
<1>2. Matches(Step.g) \subseteq position..Len(expected)
  BY DEF Matches
<1> DEFINE i == First(Matches(Step.g))
<1>3. i \in Matches(Step.g) /\ \A y \in Matches(Step.g) : i <= y
  BY <1>1, <1>2, FirstLeast
<1>4. /\ position' = i + 1 /\ cur # None
      /\ chain' = Append(chain, [k |-> "host", g |-> Step.g, out |-> expected[i].out])
      /\ cur' = [cur EXCEPT !.outs = Append(@, expected[i].out)]
      /\ Step.do = "host"
  BY DEF ReplayHost, HostReturns, Records
<1> HIDE DEF i
<1>5. i \in position..Len(expected) /\ expected[i].k = "host" /\ expected[i].g = Step.g
  BY <1>3 DEF Matches
<1>6. \A j \in position..(i - 1) : ~(expected[j].k = "host" /\ expected[j].g = Step.g)
  BY <1>1, <1>3, <1>5 DEF Matches
<1>7. expected[i] \in Event
  BY <1>5 DEF ReplayTypeOK
<1>8. expected[i] = [k |-> "host", g |-> Step.g, out |-> expected[i].out]
  BY <1>5, <1>7, EventKinds
<1>9. Step \in Decision
  BY <1>4, StepDecides
<1> QED
  BY <1>4, <1>5, <1>6, <1>8, <1>9

\* The handler makes the next of the recorded calls.
LEMMA CallsAt ==
    ASSUME ReplayTypeOK, CallDue, HandlerCalls
    PROVE  \E i \in index..Len(expected) :
              /\ expected[i].k \in {"call", "stop"} /\ expected[i].f \in Exports \cup {"shutdown"}
              /\ \A j \in index..(i - 1) : expected[j].k \notin {"call", "stop"}
              /\ index' = i + 1
              /\ chain' = Append(chain, [k |-> "call", f |-> expected[i].f])
              /\ cur = None /\ cur' = [f |-> expected[i].f, outs |-> <<>>, by |-> "replay"]
<1>1. Len(expected) \in Nat /\ index \in Nat /\ calls_to_replay # {}
  BY DEF ReplayTypeOK, HandlerCalls, CallDue
<1>2. calls_to_replay \subseteq index..Len(expected)
  BY DEF calls_to_replay
<1> DEFINE i == First(calls_to_replay)
<1>3. i \in calls_to_replay /\ \A y \in calls_to_replay : i <= y
  BY <1>1, <1>2, FirstLeast
<1>4. /\ index' = i + 1 /\ cur = None
      /\ chain' = Append(chain, [k |-> "call", f |-> expected[i].f])
      /\ cur' = [f |-> expected[i].f, outs |-> <<>>, by |-> "replay"]
  BY DEF HandlerCalls, Starts, Records
<1> HIDE DEF i
<1>5. i \in index..Len(expected) /\ expected[i].k \in {"call", "stop"}
  BY <1>3 DEF calls_to_replay
<1>6. \A j \in index..(i - 1) : expected[j].k \notin {"call", "stop"}
  BY <1>1, <1>3, <1>5 DEF calls_to_replay
<1>7. expected[i] \in Event
  BY <1>5 DEF ReplayTypeOK
<1> QED
  BY <1>4, <1>5, <1>6, <1>7, EventKinds

\* Every step keeps the types: what is found in the recording lies inside it, and
\* every event is one.
LEMMA TypeStep ==
    ASSUME ReplayTypeOK, Recording, Placed, CallDue, [ReplayNext]_replayVars
    PROVE  ReplayTypeOK'
<1> USE ReplayAssumption DEF ReplayTypeOK, Recording, CallDue, recVars, hVars, vVars
<1>1. CASE GuestReturns
  BY <1>1, StepDecides, DecisionKinds, SMTT(30)
     DEF GuestReturns, Records, Room, Step, Outcome, Event, Working
<1>2. CASE GuestFails
  BY <1>2, StepDecides, DecisionKinds
     DEF GuestFails, Records, Room, Step, Outcome, Event, Working
<1>3. CASE ReplayHost
  <2>1. PICK i \in position..Len(expected) :
              /\ position' = i + 1 /\ chain' = Append(chain, expected[i])
              /\ cur # None /\ cur' = [cur EXCEPT !.outs = Append(@, expected[i].out)]
              /\ expected[i].k = "host"
    BY <1>3, ReplaysAt
  <2>2. i \in 1..Len(expected) /\ expected[i] \in Event
    OBVIOUS
  <2>3. expected[i].out \in Outputs
    BY <2>1, <2>2, EventKinds
  <2>4. chain' \in Seq(Event) /\ Len(chain') = Len(chain) + 1
    BY <2>1, <2>2, EventAppended
  <2>5. cur' \in Working
    BY <2>1, <2>3, WorkGoesOn
  <2>6. position' \in 1..(Len(expected) + 1)
    BY <2>1, <2>2, SMTT(30)
  <2> QED
    BY <1>3, <2>4, <2>5, <2>6 DEF ReplayHost
<1>4. CASE HandlerCalls
  <2>1. PICK i \in index..Len(expected) :
              /\ expected[i].f \in Exports \cup {"shutdown"} /\ index' = i + 1
              /\ chain' = Append(chain, [k |-> "call", f |-> expected[i].f])
              /\ cur' = [f |-> expected[i].f, outs |-> <<>>, by |-> "replay"]
    BY <1>4, CallsAt
  <2>2. [k |-> "call", f |-> expected[i].f] \in Event
    BY <2>1 DEF Event
  <2>3. chain' \in Seq(Event) /\ Len(chain') = Len(chain) + 1
    BY <2>1, <2>2, EventAppended
  <2>4. cur' \in Working
    BY <2>1 DEF Working
  <2> QED
    BY <1>4, <2>1, <2>3, <2>4 DEF HandlerCalls
<1>5. ASSUME NEW out \in Outputs, RecordHost(out) PROVE ReplayTypeOK'
  <2>1. [k |-> "host", g |-> Step.g, out |-> out] \in Event /\ Step.do = "host" /\ cur # None
    BY <1>5, StepDecides, DecisionKinds DEF RecordHost, Event
  <2>2. chain' \in Seq(Event) /\ Len(chain') = Len(chain) + 1
    BY <1>5, <2>1, EventAppended DEF RecordHost, HostReturns, Records
  <2>3. cur' \in Working
    BY <1>5, <2>1, WorkGoesOn DEF RecordHost, HostReturns
  <2> QED
    BY <1>5, <2>2, <2>3 DEF RecordHost
<1>6. ASSUME NEW out \in Outputs, RealHost(out) PROVE ReplayTypeOK'
  <2>1. [k |-> "host", g |-> Step.g, out |-> out] \in Event /\ Step.do = "host" /\ cur # None
    BY <1>6, StepDecides, DecisionKinds DEF RealHost, Event
  <2>2. chain' \in Seq(Event) /\ Len(chain') = Len(chain) + 1
    BY <1>6, <2>1, EventAppended DEF RealHost, HostReturns, Records
  <2>3. cur' \in Working
    BY <1>6, <2>1, WorkGoesOn DEF RealHost, HostReturns
  <2> QED
    BY <1>6, <2>2, <2>3 DEF RealHost
<1>7. CASE HandlerChecks
  BY <1>7 DEF HandlerChecks
<1>8. CASE HandlerRefused
  BY <1>8 DEF HandlerRefused
<1>9. CASE HandlerWaits
  BY <1>9 DEF HandlerWaits
<1>10. CASE HandlerEnds
  BY <1>10 DEF HandlerEnds
<1>11. CASE Verify
  <2>1. CASE verified >= Len(expected) \/ ~SameUpTo(verified + 1)
    BY <1>11, <2>1 DEF Verify
  <2>2. CASE ~(verified >= Len(expected) \/ ~SameUpTo(verified + 1))
    BY <1>11, <2>2 DEF Verify
  <2> QED
    BY <2>1, <2>2
<1>12. CASE HandlerStops
  BY <1>12 DEF HandlerStops
<1>13. ASSUME NEW f \in Exports, RecordCall(f) PROVE ReplayTypeOK'
  BY <1>13 DEF RecordCall, Starts, Records, Room, Event, Working
<1>14. ASSUME NEW f \in Exports, OutsideCall(f) PROVE ReplayTypeOK'
  BY <1>14 DEF OutsideCall, Starts, Records, Room, Event, Working
<1>15. CASE RecordStop
  BY <1>15 DEF RecordStop, Records, Room, Event, Working
<1>16. ASSUME NEW g \in Guests, SetupReplay(g) PROVE ReplayTypeOK'
  BY <1>16 DEF SetupReplay
<1>17. CASE UNCHANGED replayVars
  BY <1>17 DEF replayVars
<1> QED
  BY <1>1, <1>2, <1>3, <1>4, <1>5, <1>6, <1>7, <1>8, <1>9, <1>10, <1>11, <1>12, <1>13, <1>14,
     <1>15, <1>16, <1>17 DEF ReplayNext, ActorStep, HandlerStep

\* Only SetupReplay begins the replay.
LEMMA RecordingStep ==
    ASSUME ReplayTypeOK, Recording, Placed, CallDue, [ReplayNext]_replayVars
    PROVE  Recording'
<1> USE DEF Recording, CallDue, recVars, hVars, vVars
<1>1. CASE GuestReturns
  BY <1>1 DEF GuestReturns, Records, Room, Step, Outcome
<1>2. CASE GuestFails
  BY <1>2 DEF GuestFails, Records, Room, Step, Outcome
<1>3. CASE ReplayHost
  BY <1>3 DEF ReplayHost, Records, Room, Step, HostReturns
<1>4. CASE HandlerCalls
  BY <1>4 DEF HandlerCalls, Starts, Records, Room
<1>5. ASSUME NEW out \in Outputs, RecordHost(out) PROVE Recording'
  BY <1>5 DEF RecordHost, Records, Room, Step, HostReturns
<1>6. ASSUME NEW out \in Outputs, RealHost(out) PROVE Recording'
  BY <1>6 DEF RealHost, Records, Room, Step, HostReturns
<1>7. CASE HandlerChecks
  BY <1>7 DEF HandlerChecks
<1>8. CASE HandlerRefused
  BY <1>8 DEF HandlerRefused
<1>9. CASE HandlerWaits
  BY <1>9 DEF HandlerWaits
<1>10. CASE HandlerEnds
  BY <1>10 DEF HandlerEnds
<1>11. CASE Verify
  BY <1>11 DEF Verify, SameUpTo
<1>12. CASE HandlerStops
  BY <1>12 DEF HandlerStops
<1>13. ASSUME NEW f \in Exports, RecordCall(f) PROVE Recording'
  BY <1>13 DEF RecordCall, Starts, Records, Room
<1>14. ASSUME NEW f \in Exports, OutsideCall(f) PROVE Recording'
  BY <1>14 DEF OutsideCall, Starts, Records, Room
<1>15. CASE RecordStop
  BY <1>15 DEF RecordStop, Records, Room
<1>16. ASSUME NEW g \in Guests, SetupReplay(g) PROVE Recording'
  BY <1>16 DEF SetupReplay
<1>17. CASE UNCHANGED replayVars
  BY <1>17 DEF replayVars
<1> QED
  BY <1>1, <1>2, <1>3, <1>4, <1>5, <1>6, <1>7, <1>8, <1>9, <1>10, <1>11, <1>12, <1>13, <1>14,
     <1>15, <1>16, <1>17 DEF ReplayNext, ActorStep, HandlerStep

\* A call begins at the beginning of its function and goes on with each output.
LEMMA PlacedStep ==
    ASSUME ReplayTypeOK, Recording, Placed, CallDue, [ReplayNext]_replayVars
    PROVE  Placed'
<1> USE ReplayAssumption DEF ReplayTypeOK, Recording, CallDue, Placed, Working,
            recVars, hVars, vVars
<1>1. CASE GuestReturns
  BY <1>1, StepDecides, DecisionKinds DEF GuestReturns, Records, Room, Step, Outcome
<1>2. CASE GuestFails
  BY <1>2, StepDecides, DecisionKinds DEF GuestFails, Records, Room, Step, Outcome
<1>3. CASE ReplayHost
  <2>1. PICK i \in position..Len(expected) :
              /\ cur # None /\ cur' = [cur EXCEPT !.outs = Append(@, expected[i].out)]
              /\ expected[i].k = "host" /\ Step.do = "host"
    BY <1>3, ReplaysAt
  <2>2. i \in 1..Len(expected) /\ expected[i] \in Event
    OBVIOUS
  <2>3. expected[i].out \in Outputs
    BY <2>1, <2>2, EventKinds
  <2> QED
    BY <1>3, <2>1, <2>3, StepDecides DEF ReplayHost
<1>4. CASE HandlerCalls
  BY <1>4 DEF HandlerCalls, Starts, Records, Room
<1>5. ASSUME NEW out \in Outputs, RecordHost(out) PROVE Placed'
  BY <1>5, StepDecides, DecisionKinds DEF RecordHost, Records, Room, Step, HostReturns
<1>6. ASSUME NEW out \in Outputs, RealHost(out) PROVE Placed'
  BY <1>6, StepDecides, DecisionKinds DEF RealHost, Records, Room, Step, HostReturns
<1>7. CASE HandlerChecks
  BY <1>7 DEF HandlerChecks
<1>8. CASE HandlerRefused
  BY <1>8 DEF HandlerRefused
<1>9. CASE HandlerWaits
  BY <1>9 DEF HandlerWaits
<1>10. CASE HandlerEnds
  BY <1>10 DEF HandlerEnds
<1>11. CASE Verify
  BY <1>11 DEF Verify, SameUpTo
<1>12. CASE HandlerStops
  BY <1>12 DEF HandlerStops
<1>13. ASSUME NEW f \in Exports, RecordCall(f) PROVE Placed'
  BY <1>13 DEF RecordCall, Starts, Records, Room
<1>14. ASSUME NEW f \in Exports, OutsideCall(f) PROVE Placed'
  BY <1>14 DEF OutsideCall, Starts, Records, Room
<1>15. CASE RecordStop
  BY <1>15 DEF RecordStop, Records, Room
<1>16. ASSUME NEW g \in Guests, SetupReplay(g) PROVE Placed'
  BY <1>16 DEF SetupReplay
<1>17. CASE UNCHANGED replayVars
  BY <1>17 DEF replayVars
<1> QED
  BY <1>1, <1>2, <1>3, <1>4, <1>5, <1>6, <1>7, <1>8, <1>9, <1>10, <1>11, <1>12, <1>13, <1>14,
     <1>15, <1>16, <1>17 DEF ReplayNext, ActorStep, HandlerStep

\* The handler goes to its next call only when it has seen that there is one.
LEMMA DueStep ==
    ASSUME ReplayTypeOK, Recording, Placed, CallDue, [ReplayNext]_replayVars
    PROVE  CallDue'
<1> USE DEF CallDue, calls_to_replay, Recording, recVars, hVars, vVars
<1>1. CASE GuestReturns
  BY <1>1 DEF GuestReturns, Records, Room, Step, Outcome
<1>2. CASE GuestFails
  BY <1>2 DEF GuestFails, Records, Room, Step, Outcome
<1>3. CASE ReplayHost
  BY <1>3 DEF ReplayHost, Records, Room, Step, HostReturns
<1>4. CASE HandlerCalls
  BY <1>4 DEF HandlerCalls, Starts, Records, Room
<1>5. ASSUME NEW out \in Outputs, RecordHost(out) PROVE CallDue'
  BY <1>5 DEF RecordHost, Records, Room, Step, HostReturns
<1>6. ASSUME NEW out \in Outputs, RealHost(out) PROVE CallDue'
  BY <1>6 DEF RealHost, Records, Room, Step, HostReturns
<1>7. CASE HandlerChecks
  BY <1>7 DEF HandlerChecks
<1>8. CASE HandlerRefused
  BY <1>8 DEF HandlerRefused
<1>9. CASE HandlerWaits
  BY <1>9 DEF HandlerWaits
<1>10. CASE HandlerEnds
  BY <1>10 DEF HandlerEnds
<1>11. CASE Verify
  BY <1>11 DEF Verify, SameUpTo
<1>12. CASE HandlerStops
  BY <1>12 DEF HandlerStops
<1>13. ASSUME NEW f \in Exports, RecordCall(f) PROVE CallDue'
  BY <1>13 DEF RecordCall, Starts, Records, Room
<1>14. ASSUME NEW f \in Exports, OutsideCall(f) PROVE CallDue'
  BY <1>14 DEF OutsideCall, Starts, Records, Room
<1>15. CASE RecordStop
  BY <1>15 DEF RecordStop, Records, Room
<1>16. ASSUME NEW g \in Guests, SetupReplay(g) PROVE CallDue'
  BY <1>16 DEF SetupReplay
<1>17. CASE UNCHANGED replayVars
  BY <1>17 DEF replayVars
<1> QED
  BY <1>1, <1>2, <1>3, <1>4, <1>5, <1>6, <1>7, <1>8, <1>9, <1>10, <1>11, <1>12, <1>13, <1>14,
     <1>15, <1>16, <1>17 DEF ReplayNext, ActorStep, HandlerStep

\* What has been verified stays verified.
LEMMA VerifiedStep ==
    ASSUME ReplayTypeOK, Recording, Placed, CallDue, [ReplayNext]_replayVars, VerifiedSame
    PROVE  VerifiedSame'
<1> USE DEF ReplayTypeOK, VerifiedSame, Recording, CallDue, recVars, hVars, vVars
<1>1. CASE GuestReturns
  BY <1>1, SMTT(30) DEF GuestReturns, Records, Room, Step, Outcome
<1>2. CASE GuestFails
  BY <1>2 DEF GuestFails, Records, Room, Step, Outcome
<1>3. CASE ReplayHost
  <2>1. PICK i \in position..Len(expected) : chain' = Append(chain, expected[i])
    BY <1>3, ReplaysAt
  <2>2. expected[i] \in Event
    OBVIOUS
  <2>3. \A j \in 1..Len(chain) : chain'[j] = chain[j]
    BY <2>1, <2>2, EventAppended
  <2>4. UNCHANGED <<verified, expected, hpc, vpc>> /\ verified \in 0..Len(chain)
    BY <1>3 DEF ReplayHost
  <2> HIDE DEF ReplayTypeOK, Recording, CallDue
  <2> QED
    BY <2>3, <2>4
<1>4. CASE HandlerCalls
  BY <1>4 DEF HandlerCalls, Starts, Records, Room
<1>5. ASSUME NEW out \in Outputs, RecordHost(out) PROVE VerifiedSame'
  BY <1>5 DEF RecordHost, Records, Room, Step, HostReturns
<1>6. ASSUME NEW out \in Outputs, RealHost(out) PROVE VerifiedSame'
  BY <1>6 DEF RealHost, Records, Room, Step, HostReturns
<1>7. CASE HandlerChecks
  BY <1>7 DEF HandlerChecks
<1>8. CASE HandlerRefused
  BY <1>8 DEF HandlerRefused
<1>9. CASE HandlerWaits
  BY <1>9 DEF HandlerWaits
<1>10. CASE HandlerEnds
  BY <1>10 DEF HandlerEnds
<1>11. CASE Verify
  BY <1>11 DEF Verify, SameUpTo
<1>12. CASE HandlerStops
  BY <1>12 DEF HandlerStops
<1>13. ASSUME NEW f \in Exports, RecordCall(f) PROVE VerifiedSame'
  BY <1>13 DEF RecordCall, Starts, Records, Room
<1>14. ASSUME NEW f \in Exports, OutsideCall(f) PROVE VerifiedSame'
  BY <1>14 DEF OutsideCall, Starts, Records, Room
<1>15. CASE RecordStop
  BY <1>15 DEF RecordStop, Records, Room
<1>16. ASSUME NEW g \in Guests, SetupReplay(g) PROVE VerifiedSame'
  BY <1>16 DEF SetupReplay
<1>17. CASE UNCHANGED replayVars
  BY <1>17 DEF replayVars
<1> QED
  BY <1>1, <1>2, <1>3, <1>4, <1>5, <1>6, <1>7, <1>8, <1>9, <1>10, <1>11, <1>12, <1>13, <1>14,
     <1>15, <1>16, <1>17 DEF ReplayNext, ActorStep, HandlerStep

-----------------------------------------------------------------------------
\* At most one call is at work.
LEMMA InCallUnique ==
    ASSUME NEW c, NEW n \in Nat, NEW i, NEW j, InCall(c, i, n), InCall(c, j, n)
    PROVE  i = j
  BY DEF InCall

\* The call at work depends on the events so far.
LEMMA InCallPrefix ==
    ASSUME NEW c, NEW d, NEW n \in Nat, \A i \in 1..n : c[i] = d[i], NEW j, InCall(c, j, n)
    PROVE  InCall(d, j, n) /\ Returned(d, j, n) = Returned(c, j, n)
<1>1. j \in 1..n /\ \A i \in 1..(n - j) : j + i \in 1..n
  BY DEF InCall
<1>2. InCall(d, j, n)
  BY <1>1 DEF InCall
<1>3. \A i \in 1..(n - j) : c[j + i] = d[j + i]
  BY <1>1
<1> QED
  BY <1>2, <1>3 DEF Returned

\* What is explained stays so when an explained event is added.
LEMMA ExplainedGrows ==
    ASSUME NEW c \in Seq(Event), NEW e \in Event, Explained(c),
           LET d == Append(c, e) IN Begins(d, Len(d)) \/ Follows(d, Len(d))
    PROVE  Explained(Append(c, e))
<1> DEFINE d == Append(c, e)
<1>1. Len(c) \in Nat /\ d \in Seq(Event) /\ Len(d) = Len(c) + 1 /\ \A i \in 1..Len(c) : d[i] = c[i]
  BY EventAppended
<1> HIDE DEF d
<1> SUFFICES ASSUME NEW n \in 1..Len(c) PROVE Begins(d, n) \/ Follows(d, n)
  BY <1>1 DEF Explained, d
<1>2. CASE Begins(c, n)
  BY <1>1, <1>2 DEF Begins
<1>3. CASE Follows(c, n)
  <2>1. PICK j \in 1..(n - 1) :
          /\ InCall(c, j, n - 1) /\ c[j].f \in Exports
          /\ Becomes(Program[Original][c[j].f][Returned(c, j, n - 1)], c[j].f, c[n])
    BY <1>3 DEF Follows
  <2>2. n - 1 \in Nat /\ \A i \in 1..(n - 1) : c[i] = d[i]
    BY <1>1
  <2>3. InCall(d, j, n - 1) /\ Returned(d, j, n - 1) = Returned(c, j, n - 1)
    BY <2>1, <2>2, InCallPrefix, SMTT(30)
  <2>4. d[j] = c[j] /\ d[n] = c[n]
    BY <1>1, <2>2
  <2> QED
    BY <2>1, <2>3, <2>4 DEF Follows
<1> QED
  BY <1>2, <1>3 DEF Explained

\* A recorded call is of an exported function.
LEMMA CallExported ==
    ASSUME NEW c, Explained(c), NEW j \in 1..Len(c), c[j].k = "call"
    PROVE  c[j].f \in Exports
  BY DEF Explained, Begins, Follows, Becomes

\* What comes next in a recording is decided by the call at work after the events
\* before it: the same that a chain with those events has at work.
LEMMA NextRecorded ==
    ASSUME NEW c \in Seq(Event), NEW d \in Seq(Event), Len(c) < Len(d),
           \A i \in 1..Len(c) : c[i] = d[i], Explained(d), Tracked(c)
    PROVE  /\ cur = None => d[Len(c) + 1].k = "call" /\ d[Len(c) + 1].f \in Exports
           /\ cur # None => /\ cur.f \in Exports
                            /\ Becomes(Program[Original][cur.f][cur.outs], cur.f, d[Len(c) + 1])
<1> DEFINE n == Len(c)
<1>1. n \in Nat /\ n + 1 \in 1..Len(d) /\ (n + 1) - 1 = n
  OBVIOUS
<1>2. Begins(d, n + 1) \/ Follows(d, n + 1)
  BY <1>1 DEF Explained
<1>3. ASSUME cur = None PROVE d[n + 1].k = "call" /\ d[n + 1].f \in Exports
  <2>1. n = 0 \/ d[n].k \in {"result", "error"}
    BY <1>1, <1>3 DEF Tracked
  <2>2. ~\E j \in 1..n : InCall(d, j, n)
    BY <1>1, <2>1 DEF InCall
  <2> QED
    BY <1>1, <1>2, <2>2 DEF Begins, Follows
<1>4. ASSUME cur # None
      PROVE  /\ cur.f \in Exports
             /\ Becomes(Program[Original][cur.f][cur.outs], cur.f, d[n + 1])
  <2>1. PICK j \in 1..n : InCall(c, j, n) /\ cur.f = c[j].f /\ cur.outs = Returned(c, j, n)
    BY <1>4 DEF Tracked
  <2>2. InCall(d, j, n) /\ Returned(d, j, n) = Returned(c, j, n)
    BY <1>1, <2>1, InCallPrefix, ZenonT(30)
  <2>3. d[n].k \in {"call", "host"} /\ n >= 1
    BY <1>1, <2>1, <2>2 DEF InCall
  <2>4. Follows(d, n + 1)
    BY <1>1, <1>2, <2>3 DEF Begins
  <2>5. PICK i \in 1..n :
          /\ InCall(d, i, n) /\ d[i].f \in Exports
          /\ Becomes(Program[Original][d[i].f][Returned(d, i, n)], d[i].f, d[n + 1])
    BY <1>1, <2>4 DEF Follows
  <2>6. i = j /\ d[j] = c[j]
    BY <1>1, <2>2, <2>5, InCallUnique
  <2> QED
    BY <2>1, <2>2, <2>5, <2>6
<1> QED
  BY <1>3, <1>4

\* The event that follows the call at work is explained.
LEMMA FollowsWork ==
    ASSUME NEW c \in Seq(Event), NEW e \in Event, Explained(c), Tracked(c), cur # None,
           Becomes(Program[Original][cur.f][cur.outs], cur.f, e)
    PROVE  Explained(Append(c, e))
<1> DEFINE d == Append(c, e)  n == Len(c)
<1>1. n \in Nat /\ Len(d) = n + 1 /\ d[n + 1] = e /\ \A i \in 1..n : c[i] = d[i]
  BY EventAppended
<1>2. PICK j \in 1..n : InCall(c, j, n) /\ cur.f = c[j].f /\ cur.outs = Returned(c, j, n)
  BY DEF Tracked
<1> HIDE DEF d
<1>3. InCall(d, j, n) /\ Returned(d, j, n) = Returned(c, j, n) /\ d[j] = c[j]
  BY <1>1, <1>2, InCallPrefix, ZenonT(30)
<1>4. c[j].f \in Exports
  BY <1>2, CallExported DEF InCall
<1>5. Follows(d, n + 1)
  <2>1. (n + 1) - 1 = n
    BY <1>1
  <2> QED
    BY <1>1, <1>2, <1>3, <1>4, <2>1 DEF Follows
<1> QED
  BY <1>1, <1>5, ExplainedGrows DEF d

\* The call at work after a host function has returned, a call has begun or ended.
LEMMA TrackedHost ==
    ASSUME NEW e \in Event, ReplayTypeOK, Tracked(chain), cur # None, e.k = "host",
           chain' = Append(chain, e), cur' = [cur EXCEPT !.outs = Append(@, e.out)]
    PROVE  Tracked(chain)'
<1> DEFINE n == Len(chain)
<1>1. /\ n \in Nat /\ Len(chain') = n + 1 /\ chain'[n + 1] = e
      /\ \A i \in 1..n : chain'[i] = chain[i]
  BY EventAppended DEF ReplayTypeOK
<1>2. cur \in Working /\ e.out \in Outputs
  BY EventKinds DEF ReplayTypeOK
<1>3. cur' # None /\ cur'.f = cur.f /\ cur'.outs = Append(cur.outs, e.out)
  BY <1>2, WorkGoesOn, ReplayAssumption
<1>4. PICK j \in 1..n :
        InCall(chain, j, n) /\ cur.f = chain[j].f /\ cur.outs = Returned(chain, j, n)
  BY DEF Tracked
<1>5. InCall(chain', j, n + 1)
  BY <1>1, <1>4 DEF InCall
<1>6. Append(cur.outs, e.out) = Returned(chain', j, n + 1)
  <2>1. cur.outs \in Seq(Outputs)
    BY <1>2 DEF Working
  <2>2. Len(cur.outs) = n - j
    <3>1. DOMAIN cur.outs = 1..(n - j)
      BY <1>4 DEF Returned
    <3>2. n - j \in Nat /\ Len(cur.outs) \in Nat /\ DOMAIN cur.outs = 1..Len(cur.outs)
      BY <1>1, <2>1
    <3> QED
      BY <3>1, <3>2
  <2>3. Append(cur.outs, e.out) = [i \in 1..(n - j + 1) |-> IF i = n - j + 1 THEN e.out ELSE cur.outs[i]]
    BY <2>1, <2>2
  <2>4. \A i \in 1..(n - j) : cur.outs[i] = chain'[j + i].out
    BY <1>1, <1>4 DEF Returned
  <2>5. j + (n - j + 1) = n + 1 /\ (n + 1) - j = n - j + 1
    BY <1>1
  <2>6. \A i \in 1..(n - j + 1) : (IF i = n - j + 1 THEN e.out ELSE cur.outs[i]) = chain'[j + i].out
    <3> TAKE i \in 1..(n - j + 1)
    <3>1. CASE i = n - j + 1
      BY <1>1, <2>5, <3>1
    <3>2. CASE i # n - j + 1
      <4>1. i \in 1..(n - j)
        BY <1>1, <3>2
      <4> QED
        BY <2>4, <3>2, <4>1
    <3> QED
      BY <3>1, <3>2
  <2> QED
    BY <2>3, <2>5, <2>6 DEF Returned
<1>7. chain'[j] = chain[j]
  BY <1>1
<1> QED
  BY <1>1, <1>3, <1>4, <1>5, <1>6, <1>7 DEF Tracked

\* Likewise when a call has begun.
LEMMA TrackedCall ==
    ASSUME NEW f \in Exports \cup {"shutdown"}, NEW by \in {"replay", "other"},
           ReplayTypeOK,
           chain' = Append(chain, [k |-> "call", f |-> f]),
           cur' = [f |-> f, outs |-> <<>>, by |-> by]
    PROVE  Tracked(chain)'
<1> DEFINE n == Len(chain)
<1>1. [k |-> "call", f |-> f] \in Event /\ cur' \in Working
  BY DEF Event, Working
<1>2. n \in Nat /\ Len(chain') = n + 1 /\ chain'[n + 1] = [k |-> "call", f |-> f]
  BY <1>1, EventAppended DEF ReplayTypeOK
<1>3. InCall(chain', n + 1, n + 1)
  BY <1>2 DEF InCall
<1>4. Returned(chain', n + 1, n + 1) = <<>>
  <2>1. (n + 1) - (n + 1) = 0
    BY <1>2
  <2> QED
    BY <2>1 DEF Returned
<1> QED
  BY <1>1, <1>2, <1>3, <1>4, ReplayAssumption DEF Tracked

\* And when one has ended.
LEMMA TrackedEnd ==
    ASSUME NEW e \in Event, ReplayTypeOK, e.k \in {"result", "error"},
           chain' = Append(chain, e), cur' = None
    PROVE  Tracked(chain)'
  BY EventAppended DEF Tracked, ReplayTypeOK

\* A stop in a chain stays there.
LEMMA StoppedStays ==
    ASSUME NEW c \in Seq(Event), NEW e \in Event
    PROVE  Stopped(c) => Stopped(Append(c, e))
  BY EventAppended DEF Stopped

\* The call at work in a recording is of an exported function.
LEMMA WorkExported ==
    ASSUME NEW c, Explained(c), Tracked(c), cur # None
    PROVE  cur.f \in Exports
  BY CallExported DEF Tracked, InCall

\* What the original guest does next is what its program says.
LEMMA GuestDoes ==
    ASSUME ReplayTypeOK, Placed, guest = Original, cur # None, cur.f \in Exports
    PROVE  /\ Step = Program[Original][cur.f][cur.outs]
           /\ Step.do = "return" => LET e == [k |-> "result", f |-> cur.f, v |-> Step.v] IN
                e \in Event /\ Becomes(Step, cur.f, e)
           /\ Step.do = "trap" => LET e == [k |-> "error", f |-> cur.f] IN
                e \in Event /\ Becomes(Step, cur.f, e)
           /\ Step.do = "host" => \A out \in Outputs :
                LET e == [k |-> "host", g |-> Step.g, out |-> out] IN
                e \in Event /\ Becomes(Step, cur.f, e)
  BY StepDecides, DecisionKinds DEF Event, Becomes

\* What is recorded, up to a stop, is explained by the program of the guest.
LEMMA RecordedStep ==
    ASSUME ReplayInv, Recorded, [ReplayNext]_replayVars
    PROVE  Recorded'
<1> USE DEF ReplayInv
<1> SUFFICES ASSUME phase' = "record", ~Stopped(chain)'
             PROVE  Explained(chain)' /\ Tracked(chain)'
  BY DEF Recorded
<1>1. ASSUME NEW e \in Event, chain' = Append(chain, e), phase = "record"
      PROVE  Explained(chain) /\ Tracked(chain)
  BY <1>1, StoppedStays DEF Recorded, ReplayTypeOK
<1>2. CASE GuestReturns
  <2> DEFINE e == [k |-> "result", f |-> cur.f, v |-> Step.v]
  <2>1. cur # None /\ Step.do = "return" /\ chain' = Append(chain, e) /\ cur' = None /\ phase = "record"
    BY <1>2 DEF GuestReturns, Records
  <2>2. e \in Event
    BY <2>1, StepDecides, DecisionKinds DEF Event
  <2>3. Explained(chain) /\ Tracked(chain)
    BY <1>1, <2>1, <2>2
  <2>4. Becomes(Step, cur.f, e) /\ Step = Program[Original][cur.f][cur.outs]
    BY <2>1, <2>3, GuestDoes, WorkExported DEF Recording
  <2>5. e.k \in {"result", "error"}
    OBVIOUS
  <2> HIDE DEF e
  <2> QED
    BY <2>1, <2>2, <2>3, <2>4, <2>5, FollowsWork, TrackedEnd DEF ReplayTypeOK
<1>3. CASE GuestFails
  <2> DEFINE e == [k |-> "error", f |-> cur.f]
  <2>1. cur # None /\ Step.do = "trap" /\ chain' = Append(chain, e) /\ cur' = None /\ phase = "record"
    BY <1>3 DEF GuestFails, Records
  <2>2. e \in Event
    BY <2>1 DEF Event, ReplayTypeOK, Working
  <2>3. Explained(chain) /\ Tracked(chain)
    BY <1>1, <2>1, <2>2
  <2>4. Becomes(Step, cur.f, e) /\ Step = Program[Original][cur.f][cur.outs]
    BY <2>1, <2>3, GuestDoes, WorkExported DEF Recording
  <2>5. e.k \in {"result", "error"}
    OBVIOUS
  <2> HIDE DEF e
  <2> QED
    BY <2>1, <2>2, <2>3, <2>4, <2>5, FollowsWork, TrackedEnd DEF ReplayTypeOK
<1>4. ASSUME NEW out \in Outputs, RecordHost(out)
      PROVE  Explained(chain)' /\ Tracked(chain)'
  <2> DEFINE e == [k |-> "host", g |-> Step.g, out |-> out]
  <2>1. /\ cur # None /\ Step.do = "host" /\ chain' = Append(chain, e) /\ phase = "record"
        /\ cur' = [cur EXCEPT !.outs = Append(@, out)]
    BY <1>4 DEF RecordHost, HostReturns, Records
  <2>2. e \in Event
    BY <2>1, StepDecides, DecisionKinds DEF Event
  <2>3. Explained(chain) /\ Tracked(chain)
    BY <1>1, <2>1, <2>2
  <2>4. Becomes(Step, cur.f, e) /\ Step = Program[Original][cur.f][cur.outs]
    BY <2>1, <2>3, GuestDoes, WorkExported DEF Recording
  <2>5. e.k = "host" /\ e.out = out
    OBVIOUS
  <2> HIDE DEF e
  <2> QED
    BY <2>1, <2>2, <2>3, <2>4, <2>5, FollowsWork, TrackedHost DEF ReplayTypeOK
<1>5. ASSUME NEW f \in Exports, RecordCall(f)
      PROVE  Explained(chain)' /\ Tracked(chain)'
  <2> DEFINE e == [k |-> "call", f |-> f]
  <2>1. /\ chain' = Append(chain, e) /\ phase = "record" /\ ~Trapped(chain) /\ cur = None
        /\ cur' = [f |-> f, outs |-> <<>>, by |-> "other"]
    BY <1>5 DEF RecordCall, Starts, Records
  <2>2. e \in Event /\ e.k = "call" /\ e.f = f
    BY DEF Event
  <2>3. Explained(chain) /\ Tracked(chain)
    BY <1>1, <2>1, <2>2
  <2>4. chain \in Seq(Event) /\ Len(chain) \in Nat
    BY DEF ReplayTypeOK
  <2>5. Len(chain) = 0 \/ chain[Len(chain)].k = "result"
    BY <2>1, <2>3, <2>4 DEF Tracked, Trapped
  <2>6. Tracked(chain)'
    BY <2>1, TrackedCall
  <2> HIDE DEF e
  <2>7. /\ Len(chain') = Len(chain) + 1 /\ chain'[Len(chain) + 1] = e
        /\ \A i \in 1..Len(chain) : chain'[i] = chain[i]
    BY <2>1, <2>2, <2>4, EventAppended
  <2>8. Begins(chain', Len(chain'))
    BY <2>2, <2>4, <2>5, <2>7 DEF Begins
  <2> QED
    BY <2>1, <2>2, <2>3, <2>4, <2>6, <2>8, ExplainedGrows
<1>6. CASE RecordStop
  <2> DEFINE e == [k |-> "stop", f |-> "shutdown"]
  <2>1. chain' = Append(chain, e) /\ e \in Event /\ e.k = "stop"
    BY <1>6 DEF RecordStop, Records, Event
  <2> HIDE DEF e
  <2>2. Stopped(chain')
    BY <2>1, EventAppended DEF ReplayTypeOK, Stopped
  <2> QED
    BY <2>2
<1>7. ~ReplayHost
  BY DEF ReplayHost, Recording
<1>8. ~HandlerCalls
  BY DEF HandlerCalls, Recording
<1>9. ~(\E out \in Outputs : RealHost(out))
  BY DEF RealHost, Recording
<1>10. ~(\E f \in Exports : OutsideCall(f))
  BY DEF OutsideCall, Recording
<1>11. ~(\E g \in Guests : SetupReplay(g))
  BY DEF SetupReplay, Recording
<1>12. ASSUME UNCHANGED <<phase, chain, cur>> PROVE Explained(chain)' /\ Tracked(chain)'
  BY <1>12 DEF Recorded, Tracked
<1>13. CASE HandlerChecks
  BY <1>12, <1>13 DEF HandlerChecks
<1>14. CASE HandlerRefused
  BY <1>12, <1>14 DEF HandlerRefused
<1>15. CASE HandlerWaits
  BY <1>12, <1>15 DEF HandlerWaits
<1>16. CASE HandlerEnds
  BY <1>12, <1>16 DEF HandlerEnds
<1>17. CASE Verify
  BY <1>12, <1>17 DEF Verify
<1>18. CASE HandlerStops
  BY <1>12, <1>18 DEF HandlerStops
<1>19. CASE UNCHANGED replayVars
  BY <1>12, <1>19 DEF replayVars
<1> QED
  BY <1>2, <1>3, <1>4, <1>5, <1>6, <1>7, <1>8, <1>9, <1>10, <1>11, <1>13, <1>14, <1>15, <1>16,
     <1>17, <1>18, <1>19
     DEF ReplayNext, ActorStep, HandlerStep

\* The chains stay in step when the event that is added is the one recorded next,
\* and what it was answered from, or called from, is left behind with it.
LEMMA InStepGrows ==
    ASSUME NEW e \in Event, ReplayTypeOK, InStep, expected # <<>>, expected' = expected,
           chain' = Append(chain, e), divergence' = divergence,
           Len(chain) < Len(expected) => e = expected[Len(chain) + 1],
           \/ position' = position /\ (Len(chain) < Len(expected) => e.k # "host")
           \/ Len(chain) < Len(expected) /\ position' = Len(chain) + 2
           \/ Len(chain) >= Len(expected) /\ position' = Len(expected) + 1,
           \/ index' = index /\ (Len(chain) < Len(expected) => e.k # "call")
           \/ Len(chain) < Len(expected) /\ index' = Len(chain) + 2,
           real' = real \/ Len(chain) >= Len(expected)
    PROVE  InStep'
<1> USE DEF ReplayTypeOK
<1>1. /\ Len(chain) \in Nat /\ Len(expected) \in Nat /\ Len(chain') = Len(chain) + 1
      /\ chain'[Len(chain) + 1] = e /\ \A i \in 1..Len(chain) : chain'[i] = chain[i]
  BY EventAppended
<1>2. \A i \in 1..Len(chain') : i <= Len(expected) => chain'[i] = expected[i]
  BY <1>1 DEF InStep
<1>3. position' <= Len(chain') + 1 /\ index' <= Len(chain') + 1
  BY <1>1 DEF InStep
<1>4. \A i \in position'..Len(expected) : expected[i].k = "host" => i > Len(chain')
  BY <1>1 DEF InStep
<1>5. \A i \in index'..Len(expected) : expected[i].k = "call" => i > Len(chain')
  BY <1>1 DEF InStep
<1>6. real' > 0 => Len(chain') > Len(expected)
  BY <1>1 DEF InStep
<1> QED
  BY <1>2, <1>3, <1>4, <1>5, <1>6 DEF InStep

\* In an undisturbed replay a call at work has events, and the recording is not empty.
LEMMA WorkNotEmpty ==
    ASSUME ReplayTypeOK, Tracked(chain), InStep, cur # None
    PROVE  expected # <<>>
  BY DEF Tracked, InStep, ReplayTypeOK

\* An undisturbed replay stays in step with the recording.
LEMMA ReplayedStep ==
    ASSUME ReplayInv, Recorded, Replayed, [ReplayNext]_replayVars
    PROVE  Replayed'
<1> USE DEF ReplayInv
<1> SUFFICES ASSUME Undisturbed'
             PROVE  Explained(expected)' /\ Tracked(chain)' /\ InStep'
  BY DEF Replayed
<1> DEFINE n == Len(chain)
<1>1. n \in Nat /\ Len(expected) \in Nat /\ chain \in Seq(Event) /\ expected \in Seq(Event)
  BY DEF ReplayTypeOK
<1>2. ASSUME UNCHANGED <<phase, guest, outside, expected>>
      PROVE  /\ Undisturbed /\ Explained(expected) /\ Explained(expected)'
             /\ Tracked(chain) /\ InStep /\ guest = Original
             /\ n < Len(expected) => \A i \in 1..n : chain[i] = expected[i]
  <2>1. Undisturbed
    BY <1>2 DEF Undisturbed, Stopped
  <2> QED
    BY <1>1, <1>2, <2>1 DEF Replayed, InStep, Undisturbed
<1>3. ASSUME Undisturbed, Explained(expected), Tracked(chain), n < Len(expected),
             \A i \in 1..n : chain[i] = expected[i]
      PROVE  /\ expected[n + 1] \in Event
             /\ cur = None => expected[n + 1].k = "call" /\ expected[n + 1].f \in Exports
             /\ cur # None => /\ cur.f \in Exports /\ Step = Program[Original][cur.f][cur.outs]
                              /\ Becomes(Step, cur.f, expected[n + 1])
  BY <1>1, <1>3, NextRecorded, StepDecides DEF Undisturbed
<1>4. CASE GuestReturns
  <2> DEFINE e == [k |-> "result", f |-> cur.f, v |-> Step.v]
  <2>1. /\ cur # None /\ Step.do = "return" /\ chain' = Append(chain, e) /\ cur' = None
        /\ UNCHANGED <<phase, guest, outside, expected, position, index, real, divergence>>
    BY <1>4 DEF GuestReturns, Records, recVars, vVars
  <2>2. e \in Event
    BY <2>1, StepDecides, DecisionKinds DEF Event
  <2>3. n < Len(expected) => e = expected[n + 1]
    BY <1>2, <1>3, <2>1, EventKinds DEF Becomes
  <2>4. e.k = "result"
    OBVIOUS
  <2> HIDE DEF e
  <2>5. Tracked(chain)'
    BY <2>1, <2>2, <2>4, TrackedEnd
  <2>6. InStep'
    BY <1>2, <2>1, <2>2, <2>3, <2>4, InStepGrows, WorkNotEmpty
  <2> QED
    BY <1>2, <2>1, <2>5, <2>6
<1>5. CASE GuestFails
  <2> DEFINE e == [k |-> "error", f |-> cur.f]
  <2>1. /\ cur # None /\ Step.do = "trap" /\ chain' = Append(chain, e) /\ cur' = None
        /\ UNCHANGED <<phase, guest, outside, expected, position, index, real, divergence>>
    BY <1>5 DEF GuestFails, Records, recVars, vVars
  <2>2. e \in Event
    BY <2>1 DEF Event, ReplayTypeOK, Working
  <2>3. n < Len(expected) => e = expected[n + 1]
    BY <1>2, <1>3, <2>1, EventKinds DEF Becomes
  <2>4. e.k = "error"
    OBVIOUS
  <2> HIDE DEF e
  <2>5. Tracked(chain)'
    BY <2>1, <2>2, <2>4, TrackedEnd
  <2>6. InStep'
    BY <1>2, <2>1, <2>2, <2>3, <2>4, InStepGrows, WorkNotEmpty
  <2> QED
    BY <1>2, <2>1, <2>5, <2>6
<1>6. CASE ReplayHost
  <2>1. PICK i \in position..Len(expected) :
              /\ expected[i].k = "host" /\ expected[i].g = Step.g
              /\ \A j \in position..(i - 1) : ~(expected[j].k = "host" /\ expected[j].g = Step.g)
              /\ position' = i + 1
              /\ chain' = Append(chain, expected[i])
              /\ cur # None /\ cur' = [cur EXCEPT !.outs = Append(@, expected[i].out)]
              /\ Step \in Decision /\ Step.do = "host"
    BY <1>6, ReplaysAt
  <2>2. UNCHANGED <<phase, guest, outside, expected, index, real, divergence>>
    BY <1>6 DEF ReplayHost, recVars, hVars, vVars
  <2>3. position \in Nat /\ position <= n + 1 /\ i > n /\ expected[i] \in Event
    BY <1>1, <1>2, <2>1, <2>2 DEF InStep, ReplayTypeOK
  <2>4. n < Len(expected)
    BY <1>1, <2>3
  <2>5. expected[n + 1].k = "host" /\ expected[n + 1].g = Step.g
    BY <1>2, <1>3, <2>1, <2>2, <2>4 DEF Becomes
  <2>6. i = n + 1
    BY <1>1, <2>1, <2>3, <2>5
  <2>7. Tracked(chain)'
    BY <1>2, <2>1, <2>2, <2>3, TrackedHost
  <2>8. InStep'
    <3>1. position' = n + 2 /\ expected[i] = expected[n + 1] /\ expected[i].k # "call"
      BY <1>1, <2>1, <2>6
    <3> QED
      BY <1>2, <2>1, <2>2, <2>3, <2>4, <3>1, InStepGrows, WorkNotEmpty
  <2> QED
    BY <1>2, <2>2, <2>7, <2>8
<1>7. CASE HandlerCalls
  <2>1. PICK i \in index..Len(expected) :
              /\ expected[i].k \in {"call", "stop"} /\ expected[i].f \in Exports \cup {"shutdown"}
              /\ \A j \in index..(i - 1) : expected[j].k \notin {"call", "stop"}
              /\ index' = i + 1
              /\ chain' = Append(chain, [k |-> "call", f |-> expected[i].f])
              /\ cur = None /\ cur' = [f |-> expected[i].f, outs |-> <<>>, by |-> "replay"]
    BY <1>7, CallsAt
  <2>2. UNCHANGED <<phase, guest, outside, expected, position, real, divergence>>
    BY <1>7 DEF HandlerCalls, recVars, vVars
  <2>3. index \in Nat /\ index >= 1 /\ i \in 1..Len(expected) /\ expected[i] \in Event
    BY <1>1, <2>1 DEF ReplayTypeOK
  <2>4. expected[i].k = "call"
    BY <1>1, <1>2, <2>1, <2>2, <2>3 DEF Undisturbed, Stopped
  <2>5. index <= n + 1 /\ i > n /\ n < Len(expected)
    BY <1>1, <1>2, <2>1, <2>2, <2>3, <2>4 DEF InStep
  <2>6. expected[n + 1].k = "call"
    BY <1>2, <1>3, <2>1, <2>2, <2>5
  <2>7. i = n + 1
    BY <1>1, <2>1, <2>3, <2>5, <2>6
  <2>8. expected[i] = [k |-> "call", f |-> expected[i].f]
    BY <2>3, <2>4, EventKinds
  <2>9. Tracked(chain)'
    BY <2>1, TrackedCall
  <2>10. InStep'
    <3>1. index' = n + 2 /\ chain' = Append(chain, expected[i]) /\ expected[i] = expected[n + 1]
      BY <1>1, <2>1, <2>7, <2>8
    <3>2. expected # <<>>
      BY <2>3
    <3> QED
      BY <1>2, <2>2, <2>3, <2>4, <2>5, <3>1, <3>2, InStepGrows
  <2> QED
    BY <1>2, <2>2, <2>9, <2>10
<1>8. ASSUME NEW out \in Outputs, RealHost(out)
      PROVE  Explained(expected)' /\ Tracked(chain)' /\ InStep'
  <2> DEFINE e == [k |-> "host", g |-> Step.g, out |-> out]
  <2>1. /\ cur # None /\ Step.do = "host" /\ chain' = Append(chain, e)
        /\ cur' = [cur EXCEPT !.outs = Append(@, out)] /\ Matches(Step.g) = {}
        /\ position' = Len(expected) + 1
        /\ UNCHANGED <<phase, guest, outside, expected, index, divergence>>
    BY <1>8 DEF RealHost, HostReturns, Records, recVars, hVars, vVars
  <2>2. e \in Event
    BY <2>1, StepDecides, DecisionKinds DEF Event
  <2>3. n >= Len(expected)
    <3>1. SUFFICES ASSUME n < Len(expected) PROVE FALSE
      BY <1>1
    <3>2. expected[n + 1].k = "host" /\ expected[n + 1].g = Step.g
      BY <1>2, <1>3, <2>1, <3>1 DEF Becomes
    <3>3. position <= n + 1 /\ position \in Nat
      BY <1>2, <2>1 DEF InStep, ReplayTypeOK
    <3>4. n + 1 \in Matches(Step.g)
      BY <1>1, <3>1, <3>2, <3>3 DEF Matches
    <3> QED
      BY <2>1, <3>4
  <2>4. e.k = "host" /\ e.out = out
    OBVIOUS
  <2> HIDE DEF e
  <2>5. Tracked(chain)'
    BY <1>2, <2>1, <2>2, <2>4, TrackedHost
  <2>6. InStep'
    <3>1. ~(n < Len(expected))
      BY <1>1, <2>3
    <3> QED
      BY <1>2, <2>1, <2>2, <2>3, <2>4, <3>1, InStepGrows, WorkNotEmpty
  <2> QED
    BY <1>2, <2>1, <2>5, <2>6
<1>9. CASE Verify
  <2>1. UNCHANGED <<phase, guest, outside, expected, chain, cur, position, index, real>>
    BY <1>9 DEF Verify, recVars, hVars
  <2>2. verified < n /\ vpc = "run" /\ verified \in Nat
    BY <1>9 DEF Verify, ReplayTypeOK
  <2>3. expected # <<>>
    BY <1>1, <1>2, <2>1, <2>2 DEF InStep
  <2>4. verified < Len(expected)
    BY <2>2, <2>3 DEF VerifiedSame
  <2>5. \A i \in 1..(verified + 1) : chain[i] = expected[i]
    BY <1>1, <1>2, <2>1, <2>2, <2>4 DEF InStep
  <2>6. SameUpTo(verified + 1)
    BY <1>1, <2>2, <2>4, <2>5 DEF SameUpTo
  <2>7. divergence' = divergence
    BY <1>1, <1>9, <2>2, <2>4, <2>6 DEF Verify
  <2> QED
    BY <1>2, <2>1, <2>7 DEF Tracked, InStep
<1>10. ASSUME NEW g \in Guests, SetupReplay(g)
       PROVE  Explained(expected)' /\ Tracked(chain)' /\ InStep'
  <2>1. /\ phase = "record" /\ expected' = chain /\ chain' = <<>> /\ cur' = None
        /\ UNCHANGED <<position, index, real, divergence>>
    BY <1>10 DEF SetupReplay
  <2>2. ~Stopped(chain)
    BY <2>1 DEF Undisturbed, Stopped
  <2>3. Explained(expected)'
    BY <2>1, <2>2 DEF Recorded
  <2>4. Tracked(chain)'
    BY <2>1 DEF Tracked
  <2>5. InStep'
    BY <1>1, <2>1 DEF InStep, Recording
  <2> QED
    BY <2>3, <2>4, <2>5
<1>11. ~\E f \in Exports : OutsideCall(f)
  BY DEF OutsideCall, Undisturbed, ReplayTypeOK
<1>12. ~(\E out \in Outputs : RecordHost(out)) /\ ~(\E f \in Exports : RecordCall(f)) /\ ~RecordStop
  BY DEF RecordHost, RecordCall, RecordStop, Undisturbed
<1>13. ASSUME UNCHANGED <<phase, guest, outside, expected, chain, cur, position, index, real,
              divergence>>
       PROVE  Explained(expected)' /\ Tracked(chain)' /\ InStep'
  BY <1>2, <1>13 DEF Tracked, InStep
<1>14. CASE HandlerChecks
  BY <1>13, <1>14 DEF HandlerChecks, recVars, vVars
<1>15. CASE HandlerRefused
  BY <1>13, <1>15 DEF HandlerRefused, recVars, vVars
<1>16. CASE HandlerWaits
  BY <1>13, <1>16 DEF HandlerWaits, recVars, vVars
<1>17. CASE HandlerEnds
  BY <1>13, <1>17 DEF HandlerEnds, recVars, vVars
<1>18. CASE HandlerStops
  BY <1>13, <1>18 DEF HandlerStops, recVars, vVars
<1>19. CASE UNCHANGED replayVars
  BY <1>13, <1>19 DEF replayVars, recVars, hVars, vVars
<1> QED
  BY <1>4, <1>5, <1>6, <1>7, <1>8, <1>9, <1>10, <1>11, <1>12, <1>14, <1>15, <1>16, <1>17, <1>18,
     <1>19 DEF ReplayNext, ActorStep, HandlerStep

-----------------------------------------------------------------------------
\* The reachable states satisfy SameInv.
THEOREM SameInvariant == ReplaySpec => []SameInv
<1>1. ReplayInit => SameInv
  <2> SUFFICES ASSUME ReplayInit PROVE SameInv
    OBVIOUS
  <2>1. ReplayTypeOK
    <3>1. chain \in Seq(Event) /\ Len(chain) = 0 /\ expected \in Seq(Event) /\ Len(expected) = 0
      BY DEF ReplayInit
    <3>2. 1 \in 1..(0 + 1) /\ 0 \in 0..MaxCalls /\ 0 \in 0..MaxOutside /\ Original \in Guests
      BY ReplayAssumption
    <3>3. /\ position \in 1..(Len(expected) + 1) /\ index \in 1..(Len(expected) + 1)
          /\ verified \in 0..Len(expected) /\ verified <= Len(chain) /\ real \in Nat
      BY <3>1, <3>2 DEF ReplayInit
    <3> QED
      BY <3>1, <3>2, <3>3, Zenon DEF ReplayInit, ReplayTypeOK
  <2>2. Recording /\ Placed /\ CallDue /\ VerifiedSame
    BY DEF ReplayInit, Recording, Placed, CallDue, VerifiedSame
  <2>3. Recorded /\ Replayed
    BY DEF ReplayInit, Recorded, Replayed, Undisturbed, Explained, Tracked
  <2> QED
    BY <2>1, <2>2, <2>3 DEF SameInv, ReplayInv
<1>2. SameInv /\ [ReplayNext]_replayVars => SameInv'
  BY TypeStep, RecordingStep, PlacedStep, DueStep, VerifiedStep, RecordedStep, ReplayedStep
     DEF SameInv, ReplayInv
<1> QED
  BY <1>1, <1>2, PTL DEF ReplaySpec

\* A replay that reports success has produced the recorded chain, whatever guest ran
\* and whatever calls came in between.
THEOREM OkMeansSameHolds == ReplaySpec => []OkMeansSame
<1>1. SameInv => OkMeansSame
  <2> SUFFICES ASSUME SameInv, hpc = "ok" PROVE IsPrefix(expected, chain)
    BY DEF OkMeansSame, SameInv, ReplayInv
  <2>1. /\ chain \in Seq(Event) /\ expected \in Seq(Event) /\ Len(expected) <= Len(chain)
        /\ \A i \in 1..Len(expected) : chain[i] = expected[i]
    BY DEF SameInv, ReplayInv, ReplayTypeOK, VerifiedSame
  <2> QED
    BY <2>1 DEF IsPrefix
<1> QED
  BY <1>1, SameInvariant, PTL

\* The replay of the same guest, alone and on the chain of an actor that nobody
\* stopped, repeats the recording whatever its program is: no divergence is ever
\* reported, and a host function is executed only beyond the recording's end.
THEOREM SameGuestSameHolds == ReplaySpec => []SameGuestSame
<1>1. SameInv => SameGuestSame
  <2> SUFFICES ASSUME SameInv, Undisturbed
               PROVE  IsPrefix(chain, expected) \/ IsPrefix(expected, chain)
    BY DEF SameGuestSame, SameInv, Replayed, InStep
  <2>1. /\ chain \in Seq(Event) /\ expected \in Seq(Event)
        /\ \A i \in 1..Len(chain) : i <= Len(expected) => chain[i] = expected[i]
    BY DEF SameInv, ReplayInv, ReplayTypeOK, Replayed, InStep
  <2>2. CASE Len(chain) <= Len(expected)
    BY <2>1, <2>2 DEF IsPrefix
  <2>3. CASE Len(expected) <= Len(chain)
    BY <2>1, <2>3 DEF IsPrefix
  <2> QED
    BY <2>1, <2>2, <2>3
<1> QED
  BY <1>1, SameInvariant, PTL

=============================================================================
