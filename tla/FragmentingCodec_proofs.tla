---------------------- MODULE FragmentingCodec_proofs ----------------------
(***************************************************************************)
(* Proofs about FragmentingCodec, for messages of any sizes, any fragment  *)
(* size and frame limit such that a fragment fits in a frame, any number   *)
(* of messages and any time that passes: what decode returns was encoded,  *)
(* and what it does not return was refused or has expired.                 *)
(*                                                                         *)
(* The invariant says that there are a message and an index for each frame *)
(* on its way, which follow one another as encode puts them there, and a   *)
(* message for each one returned, all before them; what the table holds    *)
(* lies between the two.                                                   *)
(***************************************************************************)
EXTENDS FragmentingCodec, FiniteSetTheorems, NaturalsInduction, WellFoundedInduction,
        SequenceTheorems, TLAPS

\* Of the n-th of the messages in s: whether it is sent in fragments, its bytes, the
\* number of its frames, its id if it is sent in fragments, and its i-th frame.
Long(s, n)  == Size[s[n]] > FragmentSize
Whole(s, n) == Data(n, s[n])
Total(s, n) == DivCeil(Size[s[n]], FragmentSize)
Count(s, n) == IF Long(s, n) THEN Total(s, n) ELSE 1
Longs(s, n) == {k \in 1..n : Long(s, k)}
Id(s, n)    == Cardinality(Longs(s, n))
Frame(s, n, i) ==
    IF Long(s, n) THEN Fragment(Id(s, n), i, Total(s, n), Chunk(Whole(s, n), i))
    ELSE Complete(Whole(s, n))

-----------------------------------------------------------------------------
(* The messages and their frames.                                          *)

\* A nonempty set of numbers has a least one.
LEMMA LeastOne ==
    ASSUME NEW B, B \subseteq Nat, B # {}
    PROVE  \E x \in B : \A y \in B : x <= y
<1>1. PICK x \in B : \A y \in B : ~(<<y, x>> \in OpToRel(<, Nat))
  BY WFMin, NatLessThanWellFounded
<1>2. \A y \in B : x <= y
  <2> TAKE y \in B
  <2>1. ~(y < x)
    BY <1>1 DEF OpToRel
  <2> QED
    BY <2>1
<1> QED
  BY <1>2

\* Cutting a sequence and putting it together again.
LEMMA Rejoined ==
    ASSUME NEW S, NEW q \in Seq(S), NEW a \in 0..Len(q), NEW b \in a..Len(q)
    PROVE  SubSeq(q, 1, a) \o SubSeq(q, a + 1, b) = SubSeq(q, 1, b)
<1> DEFINE x == SubSeq(q, 1, a)
           y == SubSeq(q, a + 1, b)
           z == SubSeq(q, 1, b)
<1>1. /\ x \in Seq(S) /\ Len(x) = a /\ \A i \in 1..a : x[i] = q[i]
      /\ y \in Seq(S) /\ Len(y) = b - a /\ \A i \in 1..(b - a) : y[i] = q[a + i]
      /\ z \in Seq(S) /\ Len(z) = b /\ \A i \in 1..b : z[i] = q[i]
  OBVIOUS
<1>2. a \in Nat /\ b \in Nat /\ a <= b
  OBVIOUS
<1> HIDE DEF x, y, z
<1>3. x \o y \in Seq(S) /\ Len(x \o y) = Len(z)
  BY <1>1, <1>2, ConcatProperties
<1>4. \A i \in 1..Len(z) : (x \o y)[i] = z[i]
  <2> SUFFICES ASSUME NEW i \in 1..b PROVE (x \o y)[i] = q[i]
    BY <1>1
  <2>0. i \in Nat /\ a \in Nat /\ (i <= a \/ i > a)
    BY <1>2
  <2>1. CASE i <= a
    BY <1>1, <1>2, <2>1
  <2>2. CASE i > a
    <3>1. i - a \in 1..(b - a) /\ (x \o y)[i] = y[i - a]
      BY <1>1, <1>2, <2>2
    <3> QED
      BY <1>1, <1>2, <3>1
  <2> QED
    BY <2>0, <2>1, <2>2
<1>5. x \o y = z
  BY <1>1, <1>3, <1>4, SeqEqual
<1> QED
  BY <1>5 DEF x, y, z

\* The elements of two sequences that are put together.
LEMMA Joined ==
    ASSUME NEW S, NEW a \in Seq(S), NEW b \in Seq(S)
    PROVE  /\ a \o b \in Seq(S) /\ Len(a) \in Nat /\ Len(b) \in Nat
           /\ Len(a \o b) = Len(a) + Len(b)
           /\ \A k \in 1..Len(a) : (a \o b)[k] = a[k]
           /\ \A k \in (Len(a) + 1)..(Len(a) + Len(b)) : (a \o b)[k] = b[k - Len(a)]
  BY ConcatProperties

\* It does not matter which of three sequences are put together first.
LEMMA Reassociated ==
    ASSUME NEW S, NEW a \in Seq(S), NEW b \in Seq(S), NEW c \in Seq(S)
    PROVE  (a \o b) \o c = a \o (b \o c)
<1> DEFINE x == (a \o b) \o c
           y == a \o (b \o c)
<1>1. /\ a \o b \in Seq(S) /\ Len(a \o b) = Len(a) + Len(b)
      /\ b \o c \in Seq(S) /\ Len(b \o c) = Len(b) + Len(c)
      /\ Len(a) \in Nat /\ Len(b) \in Nat /\ Len(c) \in Nat
  BY Joined
<1>2. /\ x \in Seq(S) /\ y \in Seq(S) /\ Len(x) = Len(a) + Len(b) + Len(c)
      /\ Len(y) = Len(a) + Len(b) + Len(c)
  BY <1>1, Joined
<1>3. \A k \in 1..Len(x) : x[k] = y[k]
  BY <1>1, <1>2
<1> HIDE DEF x, y
<1>4. x = y
  BY <1>2, <1>3, SeqEqual
<1> QED
  BY <1>4 DEF x, y

\* Rounding up: the last fragment is not empty, and one is not enough for more
\* than a fragment.
LEMMA Ceiling ==
    ASSUME NEW a \in Nat, NEW b \in Nat \ {0}
    PROVE  /\ DivCeil(a, b) \in Nat /\ DivCeil(a, b) * b >= a
           /\ a > b => DivCeil(a, b) > 1
           /\ a > 0 => (DivCeil(a, b) - 1) * b < a
  BY DEF DivCeil

\* The sizes and the frames of a message.
LEMMA Sizes ==
    ASSUME NEW s \in Seq(Messages), NEW n \in 1..Len(s)
    PROVE  /\ Size[s[n]] \in Nat /\ Len(Whole(s, n)) = Size[s[n]]
           /\ Whole(s, n) \in Seq({n} \X Nat)
           /\ Long(s, n) => Total(s, n) \in Nat /\ Total(s, n) > 1
           /\ Count(s, n) \in Nat \ {0}
<1>1. Size[s[n]] \in Nat
  BY CodecAssumption
<1>2. Whole(s, n) = [i \in 1..Size[s[n]] |-> <<n, i>>]
  BY DEF Whole, Data
<1>3. Len(Whole(s, n)) = Size[s[n]] /\ Whole(s, n) \in Seq({n} \X Nat)
  BY <1>1, <1>2
<1>4. Long(s, n) => Total(s, n) \in Nat /\ Total(s, n) > 1
  BY <1>1, CodecAssumption, Ceiling DEF Long, Total
<1> QED
  BY <1>1, <1>3, <1>4 DEF Count

\* Putting the chunks of a message together gives the message.
LEMMA Reassembled ==
    ASSUME NEW s \in Seq(Messages), NEW n \in 1..Len(s), NEW e, Long(s, n),
           e.total = Total(s, n), \A i \in 1..e.total : e.parts[i] = Chunk(Whole(s, n), i)
    PROVE  Reassemble(e) = Whole(s, n)
<1> DEFINE W == Whole(s, n)
           F == FragmentSize
           L == Len(W)
           T == e.total
           Eq(u) == u = [i \in 0..T |-> IF i = 0 THEN <<>> ELSE u[i - 1] \o e.parts[i]]
           g == [i \in 0..T |-> SubSeq(W, 1, Least(i * F, L))]
<1>1. /\ F \in Nat \ {0} /\ L \in Nat /\ T \in Nat /\ T > 1 /\ T * F >= L /\ (T - 1) * F < L
      /\ W \in Seq({n} \X Nat)
  <2>1. Size[s[n]] \in Nat /\ Size[s[n]] > 0
    BY Sizes, CodecAssumption DEF Long
  <2>2. Total(s, n) * F >= Size[s[n]] /\ (Total(s, n) - 1) * F < Size[s[n]]
    BY <2>1, Ceiling, CodecAssumption DEF Total
  <2>3. L = Size[s[n]] /\ W \in Seq({n} \X Nat) /\ T = Total(s, n) /\ T \in Nat /\ T > 1
    <3>1. Len(Whole(s, n)) = Size[s[n]] /\ Whole(s, n) \in Seq({n} \X Nat)
      BY Sizes
    <3>2. Total(s, n) \in Nat /\ Total(s, n) > 1
      BY Sizes
    <3> QED
      BY <3>1, <3>2
  <2>4. F \in Nat \ {0}
    BY CodecAssumption
  <2> HIDE DEF W, F, L, T
  <2> QED
    BY <2>1, <2>2, <2>3, <2>4
<1> HIDE DEF W, F, L, T
<1>2. \A i \in 1..T : SubSeq(W, 1, Least((i - 1) * F, L)) \o e.parts[i] = SubSeq(W, 1, Least(i * F, L))
  <2> SUFFICES ASSUME NEW i \in 1..T
               PROVE  SubSeq(W, 1, Least((i - 1) * F, L)) \o e.parts[i] = SubSeq(W, 1, Least(i * F, L))
    OBVIOUS
  <2> DEFINE a == (i - 1) * F
             b == Least(i * F, L)
  <2>1. /\ a \in Nat /\ b \in Nat /\ a <= b /\ b <= L /\ Least((i - 1) * F, L) = a
        /\ e.parts[i] = SubSeq(W, a + 1, b)
    <3>1. i * F = (i - 1) * F + F /\ (i - 1) * F <= (T - 1) * F /\ (i - 1) * F \in Nat
      <4>1. i - 1 \in Nat /\ T - 1 \in Nat /\ i - 1 <= T - 1
        BY <1>1
      <4>2. PICK u \in Nat, z \in Nat : u = i - 1 /\ z = T - 1 /\ i = u + 1
        BY <1>1, <4>1
      <4>3. u * F \in Nat /\ (u + 1) * F = u * F + F
        BY <1>1
      <4>4. u * F <= z * F
        BY <1>1, <4>1, <4>2
      <4> QED
        BY <4>2, <4>3, <4>4
    <3>2. e.parts[i] = SubSeq(W, (i - 1) * F + 1, Least(i * F, L))
      BY DEF Chunk, W, F, L, T
    <3>3. PICK x, y : x = (i - 1) * F /\ y = (T - 1) * F
      OBVIOUS
    <3>4. x \in Nat /\ x <= y /\ y < L /\ i * F = x + F
      BY <1>1, <3>1, <3>3
    <3>5. Least(x, L) = x /\ Least(x + F, L) \in Nat /\ x <= Least(x + F, L) /\ Least(x + F, L) <= L
      BY <1>1, <3>4 DEF Least
    <3> QED
      BY <3>2, <3>3, <3>4, <3>5
  <2> HIDE DEF a, b
  <2>2. SubSeq(W, 1, a) \o SubSeq(W, a + 1, b) = SubSeq(W, 1, b)
    <3>1. a \in 0..Len(W) /\ b \in a..Len(W)
      BY <1>1, <2>1 DEF L
    <3> QED
      BY <1>1, <3>1, Rejoined
  <2> QED
    BY <2>1, <2>2 DEF b
<1>3. Eq(g)
  <2>1. g[0] = <<>>
    <3>1. 0 * F = 0 /\ Least(0, L) = 0
      BY <1>1 DEF Least
    <3> QED
      BY <1>1, <3>1
  <2>2. \A i \in 0..T : i # 0 => i - 1 \in 0..T /\ i \in 1..T
    BY <1>1
  <2> QED
    BY <1>2, <2>1, <2>2
<1> DEFINE u == CHOOSE x : Eq(x)
<1>4. Eq(u)
  <2> HIDE DEF Eq
  <2> QED
    BY <1>3
<1>5. Reassemble(e) = u[T]
  BY DEF Reassemble, T
<1>6. u[0] = <<>> /\ \A i \in 1..T : u[i] = u[i - 1] \o e.parts[i]
  <2> HIDE DEF u
  <2>1. 0 \in 0..T /\ \A i \in 1..T : i \in 0..T /\ i # 0
    BY <1>1
  <2>2. \A i \in 0..T : u[i] = IF i = 0 THEN <<>> ELSE u[i - 1] \o e.parts[i]
    BY <1>4
  <2> QED
    BY <2>1, <2>2
<1> HIDE DEF u, Eq
<1>7. \A i \in 0..T : u[i] = g[i]
  <2> DEFINE B == {i \in 0..T : u[i] # g[i]}
  <2> SUFFICES ASSUME B # {} PROVE FALSE
    OBVIOUS
  <2>1. PICK m \in B : \A y \in B : m <= y
    <3>1. B \subseteq Nat
      OBVIOUS
    <3> HIDE DEF B
    <3> QED
      BY <3>1, LeastOne
  <2>2. g[0] = <<>> /\ \A i \in 1..T : g[i] = g[i - 1] \o e.parts[i]
    <3> HIDE DEF g
    <3>1. 0 \in 0..T /\ \A i \in 1..T : i \in 0..T /\ i # 0
      BY <1>1
    <3>2. \A i \in 0..T : g[i] = IF i = 0 THEN <<>> ELSE g[i - 1] \o e.parts[i]
      BY <1>3 DEF Eq
    <3> QED
      BY <3>1, <3>2
  <2> HIDE DEF g
  <2>3. m # 0 /\ m - 1 \in 0..T /\ m \in 1..T
    <3>1. m \in 0..T /\ u[m] # g[m]
      BY <2>1
    <3> QED
      BY <1>1, <3>1, <2>2, <1>6
  <2>4. u[m - 1] = g[m - 1]
    BY <2>1, <2>3
  <2> QED
    BY <2>1, <2>2, <2>3, <2>4, <1>6
<1>8. g[T] = W
  <2>1. Least(T * F, L) = L
    BY <1>1 DEF Least
  <2>2. SubSeq(W, 1, L) = W
    BY <1>1 DEF L
  <2> QED
    BY <1>1, <2>1, <2>2
<1>9. T \in 0..T
  BY <1>1
<1> QED
  BY <1>5, <1>7, <1>8, <1>9 DEF W

\* Ids grow with the messages that are sent in fragments, so that no two of them
\* have the same.
LEMMA Ids ==
    ASSUME NEW s \in Seq(Messages)
    PROVE  /\ \A n \in 0..Len(s) : IsFiniteSet(Longs(s, n)) /\ Id(s, n) \in Nat /\ Id(s, n) <= n
           /\ \A n, m \in 0..Len(s) : n <= m => Id(s, n) <= Id(s, m)
           /\ \A n, m \in 0..Len(s) : n < m /\ Long(s, m) => Id(s, n) < Id(s, m)
           /\ \A n \in 1..Len(s) : Long(s, n) => Id(s, n) \in 1..Id(s, Len(s))
           /\ \A n, m \in 1..Len(s) : Long(s, n) /\ Long(s, m) /\ Id(s, n) = Id(s, m) => n = m
<1>0. Len(s) \in Nat
  OBVIOUS
<1>1. ASSUME NEW n \in 0..Len(s)
      PROVE  IsFiniteSet(Longs(s, n)) /\ Id(s, n) \in Nat /\ Id(s, n) <= n
  <2>1. IsFiniteSet(1..n) /\ Cardinality(1..n) = n
    BY <1>0, FS_Interval
  <2>2. Longs(s, n) \subseteq 1..n
    BY DEF Longs
  <2> QED
    BY <2>1, <2>2, FS_Subset, FS_CardinalityType DEF Id
<1>2. ASSUME NEW n \in 0..Len(s), NEW m \in 0..Len(s), n <= m
      PROVE  Id(s, n) <= Id(s, m)
  <2>1. Longs(s, n) \subseteq Longs(s, m)
    BY <1>0, <1>2 DEF Longs
  <2> QED
    BY <1>1, <2>1, FS_Subset DEF Id
<1>3. ASSUME NEW n \in 0..Len(s), NEW m \in 0..Len(s), n < m, Long(s, m)
      PROVE  Id(s, n) < Id(s, m)
  <2>1. Longs(s, n) \subseteq Longs(s, m) /\ m \in Longs(s, m) /\ m \notin Longs(s, n)
    BY <1>0, <1>3 DEF Longs
  <2>2. Cardinality(Longs(s, n)) <= Cardinality(Longs(s, m))
        /\ (Cardinality(Longs(s, n)) = Cardinality(Longs(s, m)) => Longs(s, n) = Longs(s, m))
    BY <1>1, <2>1, FS_Subset
  <2> QED
    BY <1>1, <2>1, <2>2 DEF Id
<1>4. ASSUME NEW n \in 1..Len(s), Long(s, n) PROVE Id(s, n) \in 1..Id(s, Len(s))
  <2>1. 0 \in 0..Len(s) /\ n \in 0..Len(s) /\ 0 < n /\ Len(s) \in 0..Len(s) /\ n <= Len(s)
    BY <1>0
  <2>2. Id(s, 0) < Id(s, n) /\ Id(s, n) <= Id(s, Len(s))
    BY <1>2, <1>3, <1>4, <2>1
  <2>3. Id(s, 0) \in Nat /\ Id(s, n) \in Nat /\ Id(s, Len(s)) \in Nat
    BY <1>1, <2>1
  <2> QED
    BY <2>2, <2>3
<1>5. ASSUME NEW n \in 1..Len(s), NEW m \in 1..Len(s), Long(s, n), Long(s, m), Id(s, n) = Id(s, m)
      PROVE  n = m
  <2>1. n \in 0..Len(s) /\ m \in 0..Len(s) /\ (n < m \/ m < n \/ n = m)
    BY <1>0
  <2>2. Id(s, n) \in Nat /\ Id(s, m) \in Nat
    BY <1>1, <2>1
  <2> QED
    BY <1>3, <1>5, <2>1, <2>2
<1> QED
  BY <1>1, <1>2, <1>3, <1>4, <1>5

\* A message that is added changes nothing for the others.
LEMMA Grown ==
    ASSUME NEW s \in Seq(Messages), NEW m \in Messages
    PROVE  LET t == Append(s, m) IN
           /\ t \in Seq(Messages) /\ Len(t) = Len(s) + 1
           /\ \A n \in 1..Len(s) : /\ Long(t, n) = Long(s, n) /\ Whole(t, n) = Whole(s, n)
                                   /\ Total(t, n) = Total(s, n) /\ Count(t, n) = Count(s, n)
                                   /\ Id(t, n) = Id(s, n)
                                   /\ \A i : Frame(t, n, i) = Frame(s, n, i)
           /\ Long(t, Len(s) + 1) = (Size[m] > FragmentSize)
           /\ Whole(t, Len(s) + 1) = Data(Len(s) + 1, m)
           /\ Total(t, Len(s) + 1) = DivCeil(Size[m], FragmentSize)
           /\ Id(t, Len(s) + 1) = Id(s, Len(s)) + IF Size[m] > FragmentSize THEN 1 ELSE 0
<1> DEFINE t == Append(s, m)
<1>1. /\ Len(s) \in Nat /\ t \in Seq(Messages) /\ Len(t) = Len(s) + 1 /\ t[Len(s) + 1] = m
      /\ \A n \in 1..Len(s) : t[n] = s[n]
  OBVIOUS
<1> HIDE DEF t
<1>2. ASSUME NEW n \in 0..Len(s) PROVE Longs(t, n) = Longs(s, n)
  <2>1. \A k \in 1..n : t[k] = s[k]
    BY <1>1
  <2> QED
    BY <2>1 DEF Longs, Long
<1>3. ASSUME NEW n \in 1..Len(s)
      PROVE  /\ Long(t, n) = Long(s, n) /\ Whole(t, n) = Whole(s, n)
             /\ Total(t, n) = Total(s, n) /\ Count(t, n) = Count(s, n) /\ Id(t, n) = Id(s, n)
             /\ \A i : Frame(t, n, i) = Frame(s, n, i)
  <2>1. t[n] = s[n] /\ n \in 0..Len(s)
    BY <1>1
  <2>2. Long(t, n) = Long(s, n) /\ Whole(t, n) = Whole(s, n) /\ Total(t, n) = Total(s, n)
    BY <2>1 DEF Long, Whole, Total
  <2>3. Id(t, n) = Id(s, n)
    BY <1>2, <2>1 DEF Id
  <2> QED
    BY <2>2, <2>3 DEF Count, Frame
<1>4. /\ Long(t, Len(s) + 1) = (Size[m] > FragmentSize)
      /\ Whole(t, Len(s) + 1) = Data(Len(s) + 1, m)
      /\ Total(t, Len(s) + 1) = DivCeil(Size[m], FragmentSize)
  BY <1>1 DEF Long, Whole, Total
<1>5. Id(t, Len(s) + 1) = Id(s, Len(s)) + IF Size[m] > FragmentSize THEN 1 ELSE 0
  <2>1. Longs(t, Len(s)) = Longs(s, Len(s)) /\ Len(s) \in 0..Len(s)
    BY <1>1, <1>2
  <2>2. 1..(Len(s) + 1) = (1..Len(s)) \cup {Len(s) + 1}
    BY <1>1
  <2>3. Longs(t, Len(s) + 1) =
          IF Size[m] > FragmentSize THEN Longs(t, Len(s)) \cup {Len(s) + 1} ELSE Longs(t, Len(s))
    BY <1>4, <2>2 DEF Longs
  <2>4. Len(s) + 1 \notin Longs(s, Len(s))
    BY <1>1 DEF Longs
  <2>5. IsFiniteSet(Longs(s, Len(s))) /\ Id(s, Len(s)) \in Nat
    BY <2>1, Ids
  <2>6. Cardinality(Longs(s, Len(s)) \cup {Len(s) + 1}) = Cardinality(Longs(s, Len(s))) + 1
    BY <2>4, <2>5, FS_AddElement
  <2> QED
    BY <2>1, <2>3, <2>5, <2>6 DEF Id
<1> QED
  BY <1>1, <1>3, <1>4, <1>5 DEF t

\* A message is complete when it has all its fragments.
LEMMA AllThere ==
    ASSUME NEW n \in Nat, NEW S, S \subseteq 1..n
    PROVE  /\ IsFiniteSet(S) /\ Cardinality(S) \in Nat /\ Cardinality(S) <= n
           /\ Cardinality(S) = n <=> S = 1..n
<1>1. IsFiniteSet(1..n) /\ Cardinality(1..n) = n
  BY FS_Interval
<1> QED
  BY <1>1, FS_Subset, FS_CardinalityType

-----------------------------------------------------------------------------
(* The invariant.  It is about s, the messages that were sent, r, those that  *)
(* were refused, p, the frames on their way, w, which message each of them is *)
(* of and its index, g, the messages returned, f, which they are, t, the      *)
(* table, and ex, the ids that expired.                                       *)

Unit == [n : Nat, i : Nat]
AnyFrame ==
    [kind : {"complete"}, data : Seq(AllBytes)]
    \cup [kind : {"fragment"}, id : Nat, index : Nat, total : Nat, data : Seq(AllBytes)]

\* After a fragment comes the next of its message, and after the last one the first
\* frame of a later message.
Follows(s, u, v) ==
    IF u.i < Count(s, u.n) THEN v.n = u.n /\ v.i = u.i + 1 ELSE v.n > u.n /\ v.i = 1

Placed(s, r, p, w) ==
    /\ w \in Seq(Unit) /\ Len(w) = Len(p)
    /\ \A k \in 1..Len(w) :
         /\ w[k].n \in (1..Len(s)) \ r /\ w[k].i \in 1..Count(s, w[k].n)
         /\ p[k] = Frame(s, w[k].n, w[k].i)
    /\ \A k \in 1..(Len(w) - 1) : Follows(s, w[k], w[k + 1])

\* The last message on its way is there to its end.
Ended(s, w) == w # <<>> => w[Len(w)].i = Count(s, w[Len(w)].n)

\* What was returned comes before what is on its way.
Returned(s, r, g, w, f) ==
    /\ f \in [1..Len(g) -> (1..Len(s)) \ r]
    /\ \A i \in 1..Len(g) : g[i] = Whole(s, f[i]) /\ (w # <<>> => f[i] < w[1].n)
    /\ \A i, j \in 1..Len(g) : i < j => f[i] < f[j]

\* What is in the table of the n-th message are fragments of it.
Entry(s, e, n) ==
    /\ Long(s, n)
    /\ e = [age |-> e.age, total |-> Total(s, n), parts |-> e.parts]
    /\ DOMAIN e.parts \subseteq 1..Total(s, n)
    /\ \A i \in DOMAIN e.parts : e.parts[i] = Chunk(Whole(s, n), i)

\* They came before what is on its way; and if none of them were cleaned up they are
\* all there are before it, unless the stream was broken behind them.
Kept(ex, w, b, id, n, e) ==
    /\ w # <<>> => n <= w[1].n /\ (n = w[1].n => \A i \in DOMAIN e.parts : i < w[1].i)
    /\ id \notin ex => /\ b \/ w # <<>>
                       /\ w # <<>> => n = w[1].n /\ DOMAIN e.parts = 1..(w[1].i - 1)

\* The table; b says whether the stream was broken.
Tabled(s, t, ex, w, b) ==
    /\ \A id \in DOMAIN t : \E n \in 1..Len(s) :
         Id(s, n) = id /\ Entry(s, t[id], n) /\ ~IsComplete(t[id]) /\ Kept(ex, w, b, id, n, t[id])
    /\ \A id, jd \in (DOMAIN t) \ ex : id = jd
    /\ w # <<>> /\ w[1].i > 1 /\ Id(s, w[1].n) \notin ex => Id(s, w[1].n) \in DOMAIN t

\* Every message was returned or refused, or expired, or its end is on its way.
Accounted(s, r, ex, w, g, f) ==
    \A n \in 1..Len(s) :
        \/ \E i \in 1..Len(g) : f[i] = n
        \/ n \in r
        \/ Long(s, n) /\ Id(s, n) \in ex
        \/ \E k \in 1..Len(w) : w[k].n = n /\ w[k].i = Count(s, n)

Good(w, f) ==
    /\ Placed(sent, refused, buf \o wire, w)
    /\ Returned(sent, refused, got, w, f)
    /\ Tabled(sent, partial, expired, w, writer = "broken")
    /\ writer # "broken" => Ended(sent, w) /\ Accounted(sent, refused, expired, w, got, f)

\* The types, and that no message is refused that is sent in fragments.
Basic ==
    /\ sent \in Seq(Messages) /\ Len(sent) <= MaxSent
    /\ refused \subseteq 1..Len(sent) /\ \A n \in refused : ~Long(sent, n)
    /\ nextId = Id(sent, Len(sent)) + 1
    /\ wire \in Seq(AnyFrame) /\ buf \in Seq(AnyFrame)
    /\ torn \in BOOLEAN
    /\ writer \in {"open", "closed", "broken"}
    /\ reader \in {"decode", "read", "eof", "end", "error"}
    /\ \A id \in DOMAIN partial : partial[id].age \in 0..ticks
    /\ since \in 0..Period /\ ticks \in 0..MaxTicks
    /\ got \in Seq(Seq(AllBytes))
    /\ expired \subseteq 1..(nextId - 1)

CodecInv == Basic /\ \E w, f : Good(w, f)

-----------------------------------------------------------------------------
(* encode.                                                                 *)

\* What is on its way is so also when there is one more message.
LEMMA PlacedGrown ==
    ASSUME NEW s \in Seq(Messages), NEW m \in Messages, NEW r, NEW q, NEW p, NEW w,
           Placed(s, r, p, w), q \subseteq r \cup {Len(s) + 1}
    PROVE  /\ Placed(Append(s, m), q, p, w)
           /\ Ended(s, w) => Ended(Append(s, m), w)
<1> DEFINE t == Append(s, m)
<1>0. Len(s) \in Nat
  OBVIOUS
<1>1. /\ Len(t) = Len(s) + 1
      /\ \A n \in 1..Len(s) : Count(t, n) = Count(s, n) /\ \A i : Frame(t, n, i) = Frame(s, n, i)
  BY Grown
<1> HIDE DEF t
<1>2. \A n \in (1..Len(s)) \ r : n \in (1..Len(t)) \ q
  BY <1>0, <1>1
<1>3. \A k \in 1..Len(w) : /\ w[k].n \in (1..Len(t)) \ q /\ w[k].i \in 1..Count(t, w[k].n)
                           /\ p[k] = Frame(t, w[k].n, w[k].i)
  BY <1>1, <1>2 DEF Placed
<1>4. \A k \in 1..(Len(w) - 1) : Follows(t, w[k], w[k + 1])
  <2> TAKE k \in 1..(Len(w) - 1)
  <2>1. k \in 1..Len(w) /\ Follows(s, w[k], w[k + 1])
    BY DEF Placed
  <2>2. Count(t, w[k].n) = Count(s, w[k].n)
    BY <1>1, <2>1 DEF Placed
  <2> QED
    BY <2>1, <2>2 DEF Follows
<1>5. Ended(s, w) => Ended(t, w)
  <2> SUFFICES ASSUME w # <<>>, Ended(s, w) PROVE w[Len(w)].i = Count(t, w[Len(w)].n)
    BY DEF Ended
  <2>1. Len(w) \in 1..Len(w)
    BY DEF Placed
  <2>2. Count(t, w[Len(w)].n) = Count(s, w[Len(w)].n)
    BY <1>1, <2>1 DEF Placed
  <2> QED
    BY <2>2 DEF Ended
<1> QED
  BY <1>3, <1>4, <1>5 DEF Placed, t

\* The frames of a message are put behind those on their way, which end with the
\* last frame of a message.
LEMMA PlacedBehind ==
    ASSUME NEW s \in Seq(Messages), NEW r, NEW p \in Seq(AnyFrame), NEW q \in Seq(AnyFrame),
           NEW w, NEW v \in Seq(Unit), NEW n \in (1..Len(s)) \ r,
           Placed(s, r, p, w), Ended(s, w), \A k \in 1..Len(w) : w[k].n < n,
           Len(q) = Count(s, n), Len(v) = Len(q),
           \A k \in 1..Len(v) : v[k].n = n /\ v[k].i = k /\ q[k] = Frame(s, n, k)
    PROVE  Placed(s, r, p \o q, w \o v) /\ Ended(s, w \o v)
<1> DEFINE x == w \o v
           c == Count(s, n)
<1>1. w \in Seq(Unit) /\ Len(w) \in Nat /\ Len(p) = Len(w) /\ c \in Nat \ {0}
  <2>1. c \in Nat \ {0}
    BY Sizes
  <2> QED
    BY <2>1 DEF Placed
<1>2. /\ x \in Seq(Unit) /\ Len(x) = Len(w) + c
      /\ \A k \in 1..Len(w) : x[k] = w[k]
      /\ \A k \in (Len(w) + 1)..(Len(w) + c) : x[k] = v[k - Len(w)]
  <2>1. Len(v) = c
    OBVIOUS
  <2>2. w \in Seq(Unit) /\ v \in Seq(Unit)
    BY <1>1
  <2>3. /\ w \o v \in Seq(Unit) /\ Len(w \o v) = Len(w) + Len(v)
        /\ \A k \in 1..Len(w) : (w \o v)[k] = w[k]
        /\ \A k \in (Len(w) + 1)..(Len(w) + Len(v)) : (w \o v)[k] = v[k - Len(w)]
    BY ONLY <2>2, Joined
  <2> QED
    BY <2>1, <2>3
<1>3. /\ Len(p \o q) = Len(w) + c
      /\ \A k \in 1..Len(w) : (p \o q)[k] = p[k]
      /\ \A k \in (Len(w) + 1)..(Len(w) + c) : (p \o q)[k] = q[k - Len(w)]
  BY <1>1, ConcatProperties
<1> HIDE DEF x
<1>4. \A k \in 1..Len(x) : \/ k \in 1..Len(w)
                           \/ k \in (Len(w) + 1)..(Len(w) + c) /\ k - Len(w) \in 1..Len(v)
  BY <1>1, <1>2
<1>5. ASSUME NEW k \in (Len(w) + 1)..(Len(w) + c)
      PROVE  x[k].n = n /\ x[k].i = k - Len(w) /\ (p \o q)[k] = Frame(s, n, k - Len(w))
  <2>1. k - Len(w) \in 1..Len(v)
    BY <1>1
  <2> QED
    BY <2>1, <1>2, <1>3
<1>6. ASSUME NEW k \in 1..Len(x)
      PROVE  /\ x[k].n \in (1..Len(s)) \ r /\ x[k].i \in 1..Count(s, x[k].n)
             /\ (p \o q)[k] = Frame(s, x[k].n, x[k].i)
  <2>1. CASE k \in 1..Len(w)
    BY <2>1, <1>2, <1>3 DEF Placed
  <2>2. CASE k \in (Len(w) + 1)..(Len(w) + c) /\ k - Len(w) \in 1..Len(v)
    BY <2>2, <1>5
  <2> QED
    BY <1>4, <2>1, <2>2
<1>7. ASSUME NEW k \in 1..(Len(x) - 1) PROVE Follows(s, x[k], x[k + 1])
  <2>0. k \in Nat
    BY <1>1, <1>2
  <2>1. CASE k < Len(w)
    <3>1. k \in 1..Len(w) /\ k + 1 \in 1..Len(w) /\ k \in 1..(Len(w) - 1)
      BY <2>0, <2>1, <1>1
    <3> QED
      BY <3>1, <1>2 DEF Placed
  <2>2. CASE k = Len(w)
    <3>1. k \in 1..Len(w) /\ w # <<>> /\ k + 1 \in (Len(w) + 1)..(Len(w) + c)
      BY <2>0, <2>2, <1>1
    <3>2. x[k] = w[Len(w)] /\ w[Len(w)].i = Count(s, w[Len(w)].n) /\ w[Len(w)].n < n
      BY <2>2, <3>1, <1>2 DEF Ended
    <3>3. w[Len(w)].n \in 1..Len(s) /\ Count(s, w[Len(w)].n) \in Nat
      BY <2>2, <3>1, Sizes DEF Placed
    <3>4. x[k + 1].n = n /\ x[k + 1].i = 1
      BY <3>1, <2>2, <1>1, <1>5
    <3> QED
      BY <3>2, <3>3, <3>4 DEF Follows
  <2>3. CASE k > Len(w)
    <3>1. /\ k \in (Len(w) + 1)..(Len(w) + c) /\ k + 1 \in (Len(w) + 1)..(Len(w) + c)
          /\ k - Len(w) < c /\ (k + 1) - Len(w) = (k - Len(w)) + 1
      BY <2>0, <2>3, <1>1, <1>2
    <3>2. /\ x[k].n = n /\ x[k].i = k - Len(w)
          /\ x[k + 1].n = n /\ x[k + 1].i = (k + 1) - Len(w)
      BY <3>1, <1>5
    <3> QED
      BY <3>1, <3>2 DEF Follows
  <2> QED
    BY <2>0, <2>1, <2>2, <2>3, <1>1
<1>8. Ended(s, x)
  <2>1. Len(x) \in (Len(w) + 1)..(Len(w) + c) /\ Len(x) - Len(w) = c
    BY <1>1, <1>2
  <2> QED
    BY <2>1, <1>5 DEF Ended
<1> QED
  BY <1>2, <1>3, <1>6, <1>7, <1>8 DEF Placed, x

\* What was returned is not touched by a message that is added.
LEMMA ReturnedGrown ==
    ASSUME NEW s \in Seq(Messages), NEW m \in Messages, NEW r, NEW q, NEW g, NEW w, NEW v, NEW f,
           Returned(s, r, g, w, f), q \subseteq r \cup {Len(s) + 1},
           v # <<>> => v[1].n = Len(s) + 1 \/ (w # <<>> /\ v[1] = w[1])
    PROVE  Returned(Append(s, m), q, g, v, f)
<1> DEFINE t == Append(s, m)
<1>0. Len(s) \in Nat
  OBVIOUS
<1>1. Len(t) = Len(s) + 1 /\ \A n \in 1..Len(s) : Whole(t, n) = Whole(s, n)
  BY Grown
<1> HIDE DEF t
<1>2. \A n \in (1..Len(s)) \ r : n \in (1..Len(t)) \ q /\ n < Len(s) + 1
  BY <1>0, <1>1
<1>3. f \in [1..Len(g) -> (1..Len(t)) \ q]
  BY <1>2 DEF Returned
<1>4. ASSUME NEW i \in 1..Len(g) PROVE g[i] = Whole(t, f[i]) /\ (v # <<>> => f[i] < v[1].n)
  <2>1. /\ f[i] \in (1..Len(s)) \ r /\ g[i] = Whole(s, f[i])
        /\ w # <<>> => f[i] < w[1].n
    BY DEF Returned
  <2> QED
    BY <1>1, <1>2, <2>1
<1> QED
  BY <1>3, <1>4 DEF Returned, t

\* Nor is the table.  A fragment of the new message is the first that is on its
\* way only when no message in the table waits for one.
LEMMA TabledGrown ==
    ASSUME NEW s \in Seq(Messages), NEW m \in Messages, NEW r, NEW p, NEW t, NEW ex, NEW w, NEW v,
           Placed(s, r, p, w), Tabled(s, t, ex, w, FALSE),
           IF w = <<>> THEN v # <<>> => v[1].n = Len(s) + 1 /\ v[1].i = 1
                       ELSE v # <<>> /\ v[1] = w[1]
    PROVE  Tabled(Append(s, m), t, ex, v, FALSE)
<1> DEFINE z == Append(s, m)
<1>0. Len(s) \in Nat
  OBVIOUS
<1>1. /\ Len(z) = Len(s) + 1
      /\ \A n \in 1..Len(s) : /\ Long(z, n) = Long(s, n) /\ Whole(z, n) = Whole(s, n)
                              /\ Total(z, n) = Total(s, n) /\ Id(z, n) = Id(s, n)
  BY Grown
<1> HIDE DEF z
<1>2. ASSUME NEW id \in DOMAIN t
      PROVE  \E n \in 1..Len(z) : /\ Id(z, n) = id /\ Entry(z, t[id], n) /\ ~IsComplete(t[id])
                                  /\ Kept(ex, v, FALSE, id, n, t[id])
  <2>1. PICK n \in 1..Len(s) : /\ Id(s, n) = id /\ Entry(s, t[id], n) /\ ~IsComplete(t[id])
                               /\ Kept(ex, w, FALSE, id, n, t[id])
    BY DEF Tabled
  <2>2. n \in 1..Len(z) /\ Id(z, n) = id
    BY <1>0, <1>1, <2>1
  <2>3. Entry(z, t[id], n)
    BY <1>1, <2>1 DEF Entry
  <2>4. Kept(ex, v, FALSE, id, n, t[id])
    <3>1. CASE w # <<>>
      BY <2>1, <3>1 DEF Kept
    <3>2. CASE w = <<>>
      <4>1. n < Len(s) + 1
        BY <1>0
      <4> QED
        BY <2>1, <3>2, <4>1 DEF Kept
    <3> QED
      BY <3>1, <3>2
  <2> QED
    BY <2>1, <2>2, <2>3, <2>4
<1>3. \A id, jd \in (DOMAIN t) \ ex : id = jd
  BY DEF Tabled
<1>4. ASSUME v # <<>>, v[1].i > 1, Id(z, v[1].n) \notin ex PROVE Id(z, v[1].n) \in DOMAIN t
  <2>1. w # <<>> /\ v[1] = w[1]
    BY <1>4
  <2>2. 1 \in 1..Len(w)
    BY <2>1 DEF Placed
  <2>3. w[1].n \in 1..Len(s)
    BY <2>2 DEF Placed
  <2> QED
    BY <1>1, <1>4, <2>1, <2>3 DEF Tabled
<1> QED
  BY <1>2, <1>3, <1>4 DEF Tabled, z

\* Every message is accounted for, also the one that is added.
LEMMA AccountedGrown ==
    ASSUME NEW s \in Seq(Messages), NEW m \in Messages, NEW r, NEW q, NEW ex, NEW w, NEW v,
           NEW g, NEW f, NEW x, Accounted(s, r, ex, w, g, f), r \subseteq q,
           w \in Seq(Unit), x \in Seq(Unit), v = w \o x,
           \/ Len(s) + 1 \in q
           \/ \E k \in 1..Len(x) : x[k].n = Len(s) + 1 /\ x[k].i = Count(Append(s, m), Len(s) + 1)
    PROVE  Accounted(Append(s, m), q, ex, v, g, f)
<1> DEFINE z == Append(s, m)
<1>0. Len(s) \in Nat /\ Len(w) \in Nat
  OBVIOUS
<1>1. /\ Len(z) = Len(s) + 1
      /\ \A n \in 1..Len(s) : Long(z, n) = Long(s, n) /\ Id(z, n) = Id(s, n) /\ Count(z, n) = Count(s, n)
  BY Grown
<1>2. /\ \A k \in 1..Len(w) : k \in 1..Len(v) /\ v[k] = w[k]
      /\ \A k \in 1..Len(x) : Len(w) + k \in 1..Len(v) /\ v[Len(w) + k] = x[k]
  BY ConcatProperties
<1> HIDE DEF z
<1> SUFFICES ASSUME NEW n \in 1..Len(z)
             PROVE  \/ \E i \in 1..Len(g) : f[i] = n
                    \/ n \in q
                    \/ Long(z, n) /\ Id(z, n) \in ex
                    \/ \E k \in 1..Len(v) : v[k].n = n /\ v[k].i = Count(z, n)
  BY DEF Accounted, z
<1>3. CASE n \in 1..Len(s)
  <2>1. \/ \E i \in 1..Len(g) : f[i] = n
        \/ n \in r
        \/ Long(s, n) /\ Id(s, n) \in ex
        \/ \E k \in 1..Len(w) : w[k].n = n /\ w[k].i = Count(s, n)
    BY <1>3 DEF Accounted
  <2>2. ASSUME NEW k \in 1..Len(w), w[k].n = n /\ w[k].i = Count(s, n)
        PROVE  k \in 1..Len(v) /\ v[k].n = n /\ v[k].i = Count(z, n)
    BY <1>1, <1>2, <1>3, <2>2
  <2> QED
    BY <1>1, <1>3, <2>1, <2>2
<1>4. CASE n = Len(s) + 1
  <2>1. CASE Len(s) + 1 \in q
    BY <1>4, <2>1
  <2>2. ASSUME NEW k \in 1..Len(x), x[k].n = Len(s) + 1,
               x[k].i = Count(Append(s, m), Len(s) + 1)
        PROVE  \E j \in 1..Len(v) : v[j].n = n /\ v[j].i = Count(z, n)
    <3>1. Len(w) + k \in 1..Len(v) /\ v[Len(w) + k] = x[k] /\ Count(z, n) = Count(Append(s, m), n)
      BY <1>2 DEF z
    <3> QED
      BY <1>4, <2>2, <3>1
  <2> QED
    BY <2>1, <2>2
<1> QED
  BY <1>0, <1>1, <1>3, <1>4

\* A message that is added with all its frames, or refused.
LEMMA Added1 ==
    ASSUME Basic, NEW w, NEW f, Good(w, f), writer = "open", NEW m \in Messages,
           NEW q \in Seq(AnyFrame), NEW r,
           \/ /\ r = refused
              /\ Len(q) = Count(Append(sent, m), Len(sent) + 1)
              /\ \A k \in 1..Len(q) : q[k] = Frame(Append(sent, m), Len(sent) + 1, k)
           \/ r = refused \cup {Len(sent) + 1} /\ q = <<>>
    PROVE  \E v : /\ Placed(Append(sent, m), r, buf \o (wire \o q), v)
                  /\ Returned(Append(sent, m), r, got, v, f)
                  /\ Tabled(Append(sent, m), partial, expired, v, FALSE)
                  /\ Ended(Append(sent, m), v)
                  /\ Accounted(Append(sent, m), r, expired, v, got, f)
<1> DEFINE t == Append(sent, m)
           N == Len(sent) + 1
           x == [k \in 1..Len(q) |-> [n |-> N, i |-> k]]
           v == w \o x
           p == buf \o wire
<1>1. /\ sent \in Seq(Messages) /\ refused \subseteq 1..Len(sent) /\ Len(sent) \in Nat
      /\ buf \in Seq(AnyFrame) /\ wire \in Seq(AnyFrame)
  BY DEF Basic
<1>2. /\ Placed(sent, refused, p, w) /\ Returned(sent, refused, got, w, f)
      /\ Tabled(sent, partial, expired, w, FALSE)
      /\ Ended(sent, w) /\ Accounted(sent, refused, expired, w, got, f)
  BY DEF Good
<1>3. buf \o (wire \o q) = p \o q /\ p \in Seq(AnyFrame)
  <2>1. p \in Seq(AnyFrame)
    BY <1>1, Joined
  <2>2. (buf \o wire) \o q = buf \o (wire \o q)
    <3>1. buf \in Seq(AnyFrame) /\ wire \in Seq(AnyFrame) /\ q \in Seq(AnyFrame)
      BY <1>1
    <3> QED
      BY ONLY <3>1, Reassociated
  <2> QED
    BY <2>1, <2>2
<1>4. w \in Seq(Unit) /\ Len(w) \in Nat
  BY <1>2 DEF Placed
<1>5. Len(q) \in Nat /\ x \in Seq(Unit) /\ Len(x) = Len(q) /\ \A k \in 1..Len(q) : x[k].n = N /\ x[k].i = k
  <2>1. Len(q) \in Nat
    OBVIOUS
  <2>2. x \in [1..Len(q) -> Unit]
    BY <1>1, <2>1 DEF Unit
  <2> QED
    BY <2>1, <2>2
<1> HIDE DEF x, p
<1>6. /\ v \in Seq(Unit) /\ Len(v) = Len(w) + Len(x)
      /\ \A k \in 1..Len(w) : v[k] = w[k]
      /\ \A k \in (Len(w) + 1)..(Len(w) + Len(x)) : v[k] = x[k - Len(w)]
  <2>1. w \in Seq(Unit) /\ x \in Seq(Unit)
    BY <1>4, <1>5
  <2> QED
    BY ONLY <2>1, Joined
<1>7. q = <<>> => v = w
  <2> SUFFICES ASSUME q = <<>> PROVE v = w
    OBVIOUS
  <2>1. x = <<>>
    BY <1>5
  <2> QED
    BY <1>4, <2>1, ConcatEmptySeq
<1>8. /\ t \in Seq(Messages) /\ Len(t) = N
      /\ r \subseteq refused \cup {N} /\ refused \subseteq r
  BY <1>1, Grown
<1>9. Placed(t, r, p \o q, v) /\ Ended(t, v)
  <2>1. CASE r = refused /\ Len(q) = Count(t, N) /\ \A k \in 1..Len(q) : q[k] = Frame(t, N, k)
    <3>1. Placed(t, r, p, w) /\ Ended(t, w)
      BY <1>1, <1>2, <1>8, PlacedGrown
    <3>2. N \in (1..Len(t)) \ r /\ \A k \in 1..Len(w) : w[k].n < N
      <4>1. \A k \in 1..Len(w) : w[k].n \in 1..Len(sent)
        BY <1>2 DEF Placed
      <4> QED
        BY <1>1, <1>8, <2>1, <4>1
    <3>3. \A k \in 1..Len(x) : x[k].n = N /\ x[k].i = k /\ q[k] = Frame(t, N, k)
      BY <1>5, <2>1
    <3>4. /\ t \in Seq(Messages) /\ p \in Seq(AnyFrame) /\ q \in Seq(AnyFrame) /\ x \in Seq(Unit)
          /\ Len(q) = Count(t, N) /\ Len(x) = Len(q)
      BY <1>3, <1>5, <1>8, <2>1
    <3> HIDE DEF t, N
    <3> QED
      BY ONLY <3>1, <3>2, <3>3, <3>4, PlacedBehind
  <2>2. CASE r = refused \cup {N} /\ q = <<>>
    <3>1. Placed(t, r, p, w) /\ Ended(t, w)
      BY <1>1, <1>2, <1>8, PlacedGrown
    <3>2. p \o q = p
      BY <1>3, <2>2, ConcatEmptySeq
    <3> QED
      BY <3>1, <3>2, <2>2, <1>7
  <2> QED
    BY <2>1, <2>2
<1>10. /\ w # <<>> => v # <<>> /\ v[1] = w[1]
       /\ w = <<>> /\ v # <<>> => v[1].n = N /\ v[1].i = 1
  <2>1. ASSUME w # <<>> PROVE v # <<>> /\ v[1] = w[1]
    <3>1. 1 \in 1..Len(w)
      BY <1>4, <2>1
    <3>2. v[1] = w[1] /\ Len(v) # 0
      BY <1>4, <1>5, <1>6, <3>1
    <3> HIDE DEF v
    <3> QED
      BY <3>2
  <2>2. ASSUME w = <<>>, v # <<>> PROVE v[1].n = N /\ v[1].i = 1
    <3>1. v = x
      BY <1>5, <2>2, ConcatEmptySeq
    <3>2. 1 \in 1..Len(q)
      BY <1>5, <2>2, <3>1
    <3> QED
      BY <1>5, <3>1, <3>2
  <2> QED
    BY <2>1, <2>2
<1>11. Accounted(t, r, expired, v, got, f)
  <2>1. N \in r \/ \E k \in 1..Len(x) : x[k].n = N /\ x[k].i = Count(t, N)
    <3>1. CASE r = refused \cup {N}
      BY <3>1
    <3>2. CASE Len(q) = Count(t, N)
      <4>1. N \in 1..Len(t)
        BY <1>1, <1>8
      <4>2. Count(t, N) \in Nat \ {0}
        BY <1>8, <4>1, Sizes
      <4> QED
        BY <1>5, <3>2, <4>2
    <3> QED
      BY <3>1, <3>2
  <2> QED
    BY <1>1, <1>2, <1>4, <1>5, <1>8, <2>1, AccountedGrown
<1>12. Returned(t, r, got, v, f)
  BY <1>1, <1>2, <1>8, <1>10, ReturnedGrown
<1>13. Tabled(t, partial, expired, v, FALSE)
  <2>1. IF w = <<>> THEN v # <<>> => v[1].n = N /\ v[1].i = 1 ELSE v # <<>> /\ v[1] = w[1]
    BY <1>10
  <2> HIDE DEF v
  <2> QED
    BY <1>1, <1>2, <2>1, TabledGrown
<1> HIDE DEF v
<1> QED
  BY <1>3, <1>9, <1>11, <1>12, <1>13

\* The bytes of a message, and of a part of it.
LEMMA BytesType ==
    ASSUME NEW n \in 1..MaxSent, NEW m \in Messages
    PROVE  /\ Data(n, m) \in Seq(AllBytes) /\ Len(Data(n, m)) = Size[m] /\ Size[m] \in Nat
           /\ \A a, b \in Nat : SubSeq(Data(n, m), a + 1, b) \in Seq(AllBytes)
                                \/ b > Size[m]
<1>1. Size[m] \in Nat
  BY CodecAssumption
<1>2. Data(n, m) \in [1..Size[m] -> AllBytes]
  BY <1>1 DEF Data, AllBytes
<1>3. Data(n, m) \in Seq(AllBytes) /\ Len(Data(n, m)) = Size[m]
  BY <1>1, <1>2
<1> QED
  BY <1>1, <1>3

\* Every fragment is at most of the fragment size, and fits into a frame.
LEMMA Chunks ==
    ASSUME NEW n \in 1..MaxSent, NEW m \in Messages, Size[m] > FragmentSize,
           NEW i \in 1..DivCeil(Size[m], FragmentSize)
    PROVE  /\ Chunk(Data(n, m), i) \in Seq(AllBytes)
           /\ FragmentLen(Chunk(Data(n, m), i)) <= FrameLimit
<1> DEFINE D == Data(n, m)
           a == (i - 1) * FragmentSize
           b == Least(i * FragmentSize, Size[m])
<1>1. /\ D \in Seq(AllBytes) /\ Len(D) = Size[m] /\ Size[m] \in Nat
      /\ FragmentSize \in Nat \ {0}
  BY BytesType, CodecAssumption
<1>2. a \in Nat /\ i * FragmentSize = a + FragmentSize
  <2>1. DivCeil(Size[m], FragmentSize) \in Nat
    BY <1>1, Ceiling
  <2>2. i - 1 \in Nat
    BY <2>1
  <2> QED
    BY <1>1, <2>2
<1> HIDE DEF D, a
<1>3. b \in Nat /\ b <= Size[m] /\ b <= a + FragmentSize
  BY <1>1, <1>2 DEF Least
<1> HIDE DEF b
<1>4. Chunk(D, i) = SubSeq(D, a + 1, b)
  BY <1>1 DEF Chunk, a, b
<1>5. Chunk(D, i) \in Seq(AllBytes) /\ Len(Chunk(D, i)) \in Nat /\ Len(Chunk(D, i)) <= FragmentSize
  <2>1. \A k \in 1..(b - a) : a + k \in 1..Len(D)
    BY <1>1, <1>2, <1>3
  <2>2. CASE a + 1 <= b
    BY <1>1, <1>2, <1>3, <1>4, <2>2
  <2>3. CASE ~(a + 1 <= b)
    BY <1>1, <1>2, <1>3, <1>4, <2>3
  <2> QED
    BY <2>2, <2>3
<1>6. FragmentLen(Chunk(D, i)) <= FrameLimit
  <2> DEFINE l == Len(Chunk(D, i))
  <2>1. l \in Nat /\ l <= FragmentSize
    BY <1>5
  <2> HIDE DEF l
  <2>2. DivCeil(l, 3) \in Nat /\ DivCeil(l, 3) <= DivCeil(FragmentSize, 3) /\ DivCeil(FragmentSize, 3) \in Nat
    BY <1>1, <2>1 DEF DivCeil
  <2>3. 4 * DivCeil(l, 3) + FragmentOverhead <= FrameLimit
    BY <2>2, CodecAssumption
  <2> QED
    BY <2>3 DEF FragmentLen, l
<1> QED
  BY <1>5, <1>6 DEF D

\* A message is added, with its frames or refused: the invariant is kept.
LEMMA EncodedInv ==
    ASSUME CodecInv, writer = "open", Len(sent) < MaxSent, NEW m \in Messages, NEW q \in Seq(AnyFrame),
           sent' = Append(sent, m), wire' = wire \o q,
           nextId' = nextId + IF Size[m] > FragmentSize THEN 1 ELSE 0,
           \/ /\ refused' = refused
              /\ Len(q) = Count(Append(sent, m), Len(sent) + 1)
              /\ \A k \in 1..Len(q) : q[k] = Frame(Append(sent, m), Len(sent) + 1, k)
           \/ refused' = refused \cup {Len(sent) + 1} /\ q = <<>> /\ ~(Size[m] > FragmentSize),
           UNCHANGED <<torn, writer, buf, reader, partial, since, expired, ticks, got>>
    PROVE  CodecInv'
<1> DEFINE t == Append(sent, m)
           N == Len(sent) + 1
<1>0. Basic
  BY DEF CodecInv
<1>1. /\ sent \in Seq(Messages) /\ refused \subseteq 1..Len(sent) /\ \A n \in refused : ~Long(sent, n)
      /\ Len(sent) \in Nat /\ wire \in Seq(AnyFrame) /\ nextId = Id(sent, Len(sent)) + 1
      /\ expired \subseteq 1..(nextId - 1)
  BY <1>0 DEF Basic
<1>2. /\ t \in Seq(Messages) /\ Len(t) = N /\ \A n \in 1..Len(sent) : Long(t, n) = Long(sent, n)
      /\ Long(t, N) = (Size[m] > FragmentSize)
      /\ Id(t, N) = Id(sent, Len(sent)) + IF Size[m] > FragmentSize THEN 1 ELSE 0
  BY <1>1, Grown
<1>3. Basic'
  <2>1. wire' \in Seq(AnyFrame)
    BY <1>1, ConcatProperties
  <2>2. refused' \subseteq 1..Len(sent') /\ \A n \in refused' : ~Long(t, n)
    <3>1. Len(sent') = N /\ 1..N = (1..Len(sent)) \cup {N}
      BY <1>1, <1>2
    <3>2. refused' = refused \/ (refused' = refused \cup {N} /\ ~Long(t, N))
      BY <1>2
    <3> HIDE DEF N, t
    <3> QED
      BY <1>1, <1>2, <3>1, <3>2
  <2>3. Id(sent, Len(sent)) \in Nat
    <3>1. Len(sent) \in 0..Len(sent)
      BY <1>1
    <3> QED
      BY <1>1, <3>1, Ids
  <2>4. nextId' = Id(t, Len(t)) + 1 /\ expired' \subseteq 1..(nextId' - 1)
    <3>1. nextId' = Id(t, N) + 1
      BY <1>1, <1>2, <2>3
    <3>2. nextId' >= nextId /\ nextId \in Nat /\ nextId' \in Nat
      BY <1>1, <2>3
    <3> QED
      BY <1>1, <1>2, <3>1, <3>2
  <2>5. sent' \in Seq(Messages) /\ Len(sent') <= MaxSent
    BY <1>1, <1>2, CodecAssumption
  <2>6. \A n \in refused' : ~Long(sent', n)
    BY <2>2
  <2> HIDE DEF t, N
  <2>7. nextId' = Id(sent', Len(sent')) + 1
    BY <2>4 DEF t
  <2> QED
    BY <1>0, <2>1, <2>2, <2>4, <2>5, <2>6, <2>7 DEF Basic, Long, Id, Longs
<1>4. PICK w, f : Good(w, f)
  BY DEF CodecInv
<1>5. PICK v : /\ Placed(t, refused', buf \o (wire \o q), v)
               /\ Returned(t, refused', got, v, f)
               /\ Tabled(t, partial, expired, v, FALSE)
               /\ Ended(t, v)
               /\ Accounted(t, refused', expired, v, got, f)
  <2> DEFINE r == refused'
  <2>1. \/ /\ r = refused
           /\ Len(q) = Count(Append(sent, m), Len(sent) + 1)
           /\ \A k \in 1..Len(q) : q[k] = Frame(Append(sent, m), Len(sent) + 1, k)
        \/ r = refused \cup {Len(sent) + 1} /\ q = <<>>
    OBVIOUS
  <2> HIDE DEF r
  <2>2. \E v : /\ Placed(t, r, buf \o (wire \o q), v)
               /\ Returned(t, r, got, v, f)
               /\ Tabled(t, partial, expired, v, FALSE)
               /\ Ended(t, v)
               /\ Accounted(t, r, expired, v, got, f)
    BY <1>0, <1>4, <2>1, Added1
  <2> QED
    BY <2>2 DEF r
<1>6. (writer = "broken")' = FALSE
  OBVIOUS
<1>7. Good(v, f)'
  BY <1>5, <1>6 DEF Good
<1> QED
  BY <1>3, <1>7 DEF CodecInv

\* A short message: one frame, or an error.
LEMMA EncodeCompleteInv ==
    ASSUME CodecInv, NEW m \in Messages, EncodeComplete(m)
    PROVE  CodecInv'
<1> DEFINE N == Len(sent) + 1
           fr == Complete(Data(N, m))
<1>1. /\ sent \in Seq(Messages) /\ Len(sent) \in Nat /\ wire \in Seq(AnyFrame) /\ Len(sent) < MaxSent
      /\ nextId = Id(sent, Len(sent)) + 1
  BY DEF CodecInv, Basic, EncodeComplete
<1>2. N \in 1..MaxSent /\ Size[m] \in Nat /\ ~(Size[m] > FragmentSize)
  BY <1>1, CodecAssumption DEF EncodeComplete
<1>3. fr \in AnyFrame
  BY <1>2, BytesType DEF Complete, AnyFrame
<1>4. nextId' = nextId + IF Size[m] > FragmentSize THEN 1 ELSE 0
  <2>1. Id(sent, Len(sent)) \in Nat
    <3>1. Len(sent) \in 0..Len(sent)
      BY <1>1
    <3> QED
      BY <1>1, <3>1, Ids
  <2> QED
    BY <1>1, <1>2, <2>1 DEF EncodeComplete
<1>5. UNCHANGED <<torn, writer, buf, reader, partial, since, expired, ticks, got>>
  BY DEF EncodeComplete, tableVars
<1>6. CASE CompleteLen(m) <= FrameLimit
  <2> DEFINE q == <<fr>>
  <2>1. wire' = wire \o q /\ refused' = refused
    BY <1>1, <1>3, <1>6 DEF EncodeComplete
  <2>2. /\ q \in Seq(AnyFrame) /\ Len(q) = 1 /\ Count(Append(sent, m), N) = 1
        /\ \A k \in 1..1 : q[k] = Frame(Append(sent, m), N, k)
    <3>1. ~Long(Append(sent, m), N) /\ Whole(Append(sent, m), N) = Data(N, m)
      BY <1>1, <1>2, Grown
    <3> QED
      BY <1>3, <3>1 DEF Count, Frame
  <2> HIDE DEF q
  <2> QED
    BY <1>1, <1>4, <1>5, <2>1, <2>2, EncodedInv DEF EncodeComplete
<1>7. CASE ~(CompleteLen(m) <= FrameLimit)
  <2> DEFINE q == <<>>
  <2>1. wire' = wire \o q /\ refused' = refused \cup {N} /\ q \in Seq(AnyFrame) /\ q = <<>>
    BY <1>1, <1>7, ConcatEmptySeq DEF EncodeComplete
  <2> HIDE DEF q
  <2> QED
    BY <1>1, <1>2, <1>4, <1>5, <2>1, EncodedInv DEF EncodeComplete
<1> QED
  BY <1>6, <1>7

\* A long one: its fragments, which all fit.
LEMMA EncodeFragmentsInv ==
    ASSUME CodecInv, NEW m \in Messages, EncodeFragments(m)
    PROVE  CodecInv'
<1> DEFINE N == Len(sent) + 1
           T == DivCeil(Size[m], FragmentSize)
           frs == Fragments(nextId, Data(N, m))
           fit == {i \in DOMAIN frs : \A j \in 1..i : FragmentLen(frs[j].data) <= FrameLimit}
<1>1. /\ sent \in Seq(Messages) /\ Len(sent) \in Nat /\ wire \in Seq(AnyFrame) /\ Len(sent) < MaxSent
      /\ nextId = Id(sent, Len(sent)) + 1
  BY DEF CodecInv, Basic, EncodeFragments
<1>2. /\ N \in 1..MaxSent /\ Size[m] \in Nat /\ Size[m] > FragmentSize
      /\ T \in Nat /\ nextId \in Nat /\ Len(Data(N, m)) = Size[m]
  <2>1. N \in 1..MaxSent /\ Size[m] \in Nat /\ Size[m] > FragmentSize
    BY <1>1, CodecAssumption DEF EncodeFragments
  <2>2. T \in Nat
    BY <2>1, CodecAssumption, Ceiling
  <2>3. Len(sent) \in 0..Len(sent)
    BY <1>1
  <2>4. Id(sent, Len(sent)) \in Nat
    BY <1>1, <2>3, Ids
  <2> QED
    BY <1>1, <2>1, <2>2, <2>4, BytesType
<1>3. frs = [i \in 1..T |-> Fragment(nextId, i, T, Chunk(Data(N, m), i))]
  BY <1>2 DEF Fragments
<1>4. \A i \in 1..T : /\ Chunk(Data(N, m), i) \in Seq(AllBytes)
                      /\ FragmentLen(Chunk(Data(N, m), i)) <= FrameLimit
  BY <1>2, Chunks
<1>5. \A i \in 1..T : /\ Fragment(nextId, i, T, Chunk(Data(N, m), i)) \in AnyFrame
                      /\ Fragment(nextId, i, T, Chunk(Data(N, m), i)).data = Chunk(Data(N, m), i)
  BY <1>2, <1>4 DEF Fragment, AnyFrame
<1>6. /\ frs \in Seq(AnyFrame) /\ Len(frs) = T /\ DOMAIN frs = 1..T
      /\ \A i \in 1..T : frs[i] = Fragment(nextId, i, T, Chunk(Data(N, m), i))
  <2> HIDE DEF frs, T
  <2>1. frs \in [1..T -> AnyFrame]
    BY <1>3, <1>5
  <2> QED
    BY <1>2, <1>3, <2>1
<1>7. fit = DOMAIN frs
  <2> HIDE DEF frs, T
  <2>1. \A i \in 1..T : \A j \in 1..i : j \in 1..T
    BY <1>2
  <2> QED
    BY <1>4, <1>5, <1>6, <2>1
<1>8. wire' = wire \o frs /\ refused' = refused
  <2>1. wire' = wire \o SubSeq(frs, 1, Cardinality(fit))
        /\ refused' = IF fit = DOMAIN frs THEN refused ELSE refused \cup {N}
    BY DEF EncodeFragments
  <2> HIDE DEF frs, fit, T
  <2>2. Cardinality(1..T) = T
    BY <1>2, FS_Interval
  <2>3. SubSeq(frs, 1, T) = frs
    BY <1>6, SubSeqFull
  <2> QED
    BY <1>6, <1>7, <2>1, <2>2, <2>3
<1>9. /\ Len(frs) = Count(Append(sent, m), N)
      /\ \A k \in 1..Len(frs) : frs[k] = Frame(Append(sent, m), N, k)
  <2>1. /\ Long(Append(sent, m), N) /\ Whole(Append(sent, m), N) = Data(N, m)
        /\ Total(Append(sent, m), N) = T /\ Id(Append(sent, m), N) = nextId
    BY <1>1, <1>2, Grown
  <2> HIDE DEF frs, T
  <2> QED
    BY <1>6, <2>1 DEF Count, Frame
<1>10. nextId' = nextId + IF Size[m] > FragmentSize THEN 1 ELSE 0
  BY <1>2 DEF EncodeFragments
<1>11. /\ UNCHANGED <<torn, writer, buf, reader, partial, since, expired, ticks, got>>
       /\ writer = "open" /\ sent' = Append(sent, m)
  BY DEF EncodeFragments, tableVars
<1> HIDE DEF frs
<1> QED
  BY <1>1, <1>6, <1>8, <1>9, <1>10, <1>11, EncodedInv

-----------------------------------------------------------------------------
(* The stream, and time.                                                   *)

\* The writer closes the connection, and Framed reads what there is: the frames on
\* their way are the same.
LEMMA SameInv ==
    ASSUME CodecInv, wire' \in Seq(AnyFrame), buf' \in Seq(AnyFrame), buf' \o wire' = buf \o wire,
           writer' \in {"open", "closed", "broken"}, (writer' = "broken") = (writer = "broken"),
           reader' \in {"decode", "read", "eof", "end", "error"},
           UNCHANGED <<sent, refused, nextId, torn, partial, since, expired, ticks, got>>
    PROVE  CodecInv'
<1>1. Basic'
  BY DEF CodecInv, Basic, Id, Longs, Long
<1>2. PICK w, f : Good(w, f)
  BY DEF CodecInv
<1>3. Good(w, f)'
  BY <1>2 DEF Good
<1> QED
  BY <1>1, <1>3 DEF CodecInv

\* The stream breaks: some of the frames are left, in front.
LEMMA BreaksInv ==
    ASSUME CodecInv, WriterBreaks
    PROVE  CodecInv'
<1>1. /\ buf \in Seq(AnyFrame) /\ wire \in Seq(AnyFrame) /\ writer' = "broken"
      /\ Len(buf) \in Nat /\ Len(wire) \in Nat /\ sent \in Seq(Messages)
      /\ UNCHANGED <<sent, refused, nextId, buf, reader, partial, since, expired, ticks, got>>
  BY DEF CodecInv, Basic, WriterBreaks, tableVars
<1>2. PICK n \in 0..Len(wire) : wire' = SubSeq(wire, 1, n) /\ torn' = (n < Len(wire))
  BY DEF WriterBreaks
<1>3. wire' \in Seq(AnyFrame) /\ Len(wire') = n /\ \A k \in 1..n : wire'[k] = wire[k]
  BY <1>1, <1>2
<1>4. Basic'
  BY <1>1, <1>2, <1>3 DEF CodecInv, Basic, Id, Longs, Long
<1>5. PICK w, f : Good(w, f)
  BY DEF CodecInv
<1> DEFINE p == buf \o wire
           K == Len(buf) + n
<1>6. /\ Placed(sent, refused, p, w) /\ Returned(sent, refused, got, w, f)
      /\ Tabled(sent, partial, expired, w, writer = "broken")
  BY <1>5 DEF Good
<1>7. /\ Len(buf \o wire') = K /\ K \in 0..Len(w)
      /\ \A k \in 1..K : (buf \o wire')[k] = p[k]
  <2>1. /\ Len(buf \o wire') = Len(buf) + n
        /\ \A k \in 1..Len(buf) : (buf \o wire')[k] = buf[k]
        /\ \A k \in (Len(buf) + 1)..(Len(buf) + n) : (buf \o wire')[k] = wire'[k - Len(buf)]
    <3>1. buf \in Seq(AnyFrame) /\ wire' \in Seq(AnyFrame) /\ Len(wire') = n
      BY <1>1, <1>3
    <3> QED
      BY ONLY <3>1, Joined
  <2>2. /\ Len(p) = Len(buf) + Len(wire)
        /\ \A k \in 1..Len(buf) : p[k] = buf[k]
        /\ \A k \in (Len(buf) + 1)..(Len(buf) + Len(wire)) : p[k] = wire[k - Len(buf)]
    BY <1>1, Joined
  <2>3. Len(w) = Len(p)
    BY <1>6 DEF Placed
  <2> HIDE DEF p
  <2>4. K \in 0..Len(w)
    BY <1>1, <1>2, <2>2, <2>3
  <2>5. ASSUME NEW k \in 1..K PROVE (buf \o wire')[k] = p[k]
    <3>1. CASE k <= Len(buf)
      BY <1>1, <2>1, <2>2, <3>1
    <3>2. CASE k > Len(buf)
      <4>1. k \in (Len(buf) + 1)..(Len(buf) + n) /\ k \in (Len(buf) + 1)..(Len(buf) + Len(wire))
            /\ k - Len(buf) \in 1..n
        BY <1>1, <1>2, <3>2
      <4> QED
        BY <1>3, <2>1, <2>2, <4>1
    <3>3. k \in Nat /\ (k <= Len(buf) \/ k > Len(buf))
      BY <1>1, <1>2
    <3> QED
      BY <3>1, <3>2, <3>3
  <2> QED
    BY <2>1, <2>4, <2>5
<1>8. PICK v : v \in Seq(Unit) /\ Len(v) = K /\ \A k \in 1..K : v[k] = w[k] /\ k \in 1..Len(w)
  <2>1. w \in Seq(Unit)
    BY <1>6 DEF Placed
  <2>2. K \in 0..Len(w)
    BY <1>7
  <2> HIDE DEF K
  <2> DEFINE x == SubSeq(w, 1, K)
  <2>3. x \in Seq(Unit) /\ Len(x) = K /\ \A k \in 1..K : x[k] = w[k] /\ k \in 1..Len(w)
    BY <2>1, <2>2
  <2> QED
    BY <2>3
<1> HIDE DEF K, p
<1>9. v # <<>> => w # <<>> /\ v[1] = w[1]
  <2> SUFFICES ASSUME v # <<>> PROVE w # <<>> /\ v[1] = w[1]
    OBVIOUS
  <2>1. 1 \in 1..K
    BY <1>8
  <2>2. 1 \in 1..Len(w) /\ v[1] = w[1]
    BY <1>8, <2>1
  <2> QED
    BY <2>2
<1>10. Placed(sent, refused, buf \o wire', v)
  <2>1. \A k \in 1..K : /\ v[k].n \in (1..Len(sent)) \ refused /\ v[k].i \in 1..Count(sent, v[k].n)
                        /\ (buf \o wire')[k] = Frame(sent, v[k].n, v[k].i)
    BY <1>6, <1>7, <1>8 DEF Placed
  <2>2. \A k \in 1..(K - 1) : Follows(sent, v[k], v[k + 1])
    <3> TAKE k \in 1..(K - 1)
    <3>1. k \in 1..K /\ k + 1 \in 1..K /\ k \in 1..(Len(w) - 1)
      BY <1>7
    <3> QED
      BY <1>6, <1>8, <3>1 DEF Placed
  <2> QED
    BY <1>7, <1>8, <2>1, <2>2 DEF Placed
<1>11. Returned(sent, refused, got, v, f)
  BY <1>6, <1>9 DEF Returned
<1>12. Tabled(sent, partial, expired, v, TRUE)
  <2>1. ASSUME NEW id \in DOMAIN partial, NEW k \in 1..Len(sent),
               Kept(expired, w, writer = "broken", id, k, partial[id])
        PROVE  Kept(expired, v, TRUE, id, k, partial[id])
    BY <1>9, <2>1 DEF Kept
  <2> QED
    BY <1>6, <1>9, <2>1 DEF Tabled
<1>13. Good(v, f)'
  <2>1. (writer = "broken")' = TRUE
    BY <1>1
  <2> QED
    BY <1>1, <1>10, <1>11, <1>12, <2>1 DEF Good
<1> QED
  BY <1>4, <1>13 DEF CodecInv

\* Framed reads some of the frames.
LEMMA ReadInv ==
    ASSUME CodecInv, FramedRead
    PROVE  CodecInv'
<1>1. /\ buf \in Seq(AnyFrame) /\ wire \in Seq(AnyFrame) /\ Len(wire) \in Nat /\ reader' = "decode"
      /\ UNCHANGED <<sent, refused, nextId, writer, torn, partial, since, expired, ticks, got>>
      /\ writer \in {"open", "closed", "broken"}
  BY DEF CodecInv, Basic, FramedRead, writerVars, tableVars
<1>2. PICK n \in 1..Len(wire) : /\ buf' = buf \o SubSeq(wire, 1, n)
                                /\ wire' = SubSeq(wire, n + 1, Len(wire))
  BY DEF FramedRead
<1> DEFINE a == SubSeq(wire, 1, n)
           b == SubSeq(wire, n + 1, Len(wire))
<1>3. a \in Seq(AnyFrame) /\ b \in Seq(AnyFrame) /\ a \o b = wire
  <2>1. n \in 0..Len(wire) /\ Len(wire) \in n..Len(wire)
    BY <1>1
  <2>2. a \o b = SubSeq(wire, 1, Len(wire))
    BY <1>1, <2>1, Rejoined
  <2>3. SubSeq(wire, 1, Len(wire)) = wire
    BY <1>1, SubSeqFull
  <2>4. a \in Seq(AnyFrame) /\ b \in Seq(AnyFrame)
    BY <1>1, <2>1
  <2> HIDE DEF a, b
  <2> QED
    BY <2>2, <2>3, <2>4
<1> HIDE DEF a, b
<1>4. (buf \o a) \o b = buf \o wire /\ buf \o a \in Seq(AnyFrame)
  <2>1. buf \in Seq(AnyFrame)
    BY <1>1
  <2>2. (buf \o a) \o b = buf \o (a \o b)
    <3>1. buf \in Seq(AnyFrame) /\ a \in Seq(AnyFrame) /\ b \in Seq(AnyFrame)
      BY <1>3, <2>1
    <3> QED
      BY ONLY <3>1, Reassociated, SMTT(30)
  <2>3. buf \o a \in Seq(AnyFrame)
    BY ONLY <1>3, <2>1, Joined
  <2> QED
    BY <1>3, <2>2, <2>3
<1>5. buf' = buf \o a /\ wire' = b
  BY <1>2 DEF a, b
<1> QED
  BY <1>1, <1>3, <1>4, <1>5, SameInv

\* Time passes: what is in the table grows older.
LEMMA TickInv ==
    ASSUME CodecInv, Tick
    PROVE  CodecInv'
<1>1. /\ ticks' = ticks + 1 /\ since' = Period /\ ticks < MaxTicks
      /\ partial' = [id \in DOMAIN partial |-> [partial[id] EXCEPT !.age = @ + 1]]
      /\ UNCHANGED <<sent, refused, nextId, writer, wire, torn, buf, reader, got, expired>>
  BY DEF Tick, writerVars
<1>2. PICK w, f : Good(w, f)
  BY DEF CodecInv
<1>3. Tabled(sent, partial, expired, w, writer = "broken")
  BY <1>2 DEF Good
<1>4. ASSUME NEW id \in DOMAIN partial
      PROVE  /\ partial'[id].total = partial[id].total /\ partial'[id].parts = partial[id].parts
             /\ partial'[id].age = partial[id].age + 1
             /\ partial'[id] = [age |-> partial'[id].age, total |-> partial'[id].total,
                                parts |-> partial'[id].parts]
  <2>1. PICK n \in 1..Len(sent) : Entry(sent, partial[id], n)
    BY <1>3 DEF Tabled
  <2>2. partial[id] = [age |-> partial[id].age, total |-> Total(sent, n), parts |-> partial[id].parts]
    BY <2>1 DEF Entry
  <2>3. PICK a, b, c : partial[id] = [age |-> a, total |-> b, parts |-> c]
    BY <2>2
  <2>4. partial'[id] = [[age |-> a, total |-> b, parts |-> c] EXCEPT !.age = @ + 1]
    BY <1>1, <2>3
  <2>5. partial'[id] = [age |-> a + 1, total |-> b, parts |-> c]
    BY <2>4
  <2> QED
    BY <2>3, <2>5
<1>5. DOMAIN partial' = DOMAIN partial
  BY <1>1
<1>6. Basic'
  <2>1. \A id \in DOMAIN partial' : partial'[id].age \in 0..ticks'
    <3>1. ticks \in Nat /\ \A id \in DOMAIN partial : partial[id].age \in 0..ticks
      BY DEF CodecInv, Basic
    <3> SUFFICES ASSUME NEW id \in DOMAIN partial PROVE partial'[id].age \in 0..(ticks + 1)
      BY <1>1, <1>5
    <3>2. partial'[id].age = partial[id].age + 1 /\ partial[id].age \in 0..ticks
      BY <1>4, <3>1
    <3> QED
      BY <3>1, <3>2
  <2>2. since' \in 0..Period /\ ticks' \in 0..MaxTicks
    BY <1>1, CodecAssumption DEF CodecInv, Basic, Period
  <2> QED
    BY <1>1, <2>1, <2>2 DEF CodecInv, Basic, Id, Longs, Long
<1>7. Tabled(sent, partial', expired, w, writer = "broken")
  <2>1. ASSUME NEW id \in DOMAIN partial
        PROVE  \E n \in 1..Len(sent) :
                  /\ Id(sent, n) = id /\ Entry(sent, partial'[id], n) /\ ~IsComplete(partial'[id])
                  /\ Kept(expired, w, writer = "broken", id, n, partial'[id])
    <3>1. PICK n \in 1..Len(sent) :
             /\ Id(sent, n) = id /\ Entry(sent, partial[id], n) /\ ~IsComplete(partial[id])
             /\ Kept(expired, w, writer = "broken", id, n, partial[id])
      BY <1>3 DEF Tabled
    <3>2. partial[id].total = Total(sent, n)
      <4>1. partial[id] = [age |-> partial[id].age, total |-> Total(sent, n), parts |-> partial[id].parts]
        BY <3>1 DEF Entry
      <4>2. [age |-> partial[id].age, total |-> Total(sent, n), parts |-> partial[id].parts].total
              = Total(sent, n)
        OBVIOUS
      <4> QED
        BY <4>1, <4>2
    <3>3. Entry(sent, partial'[id], n)
      BY <3>1, <3>2, <1>4 DEF Entry
    <3>4. ~IsComplete(partial'[id])
      BY <3>1, <1>4 DEF IsComplete
    <3>5. Kept(expired, w, writer = "broken", id, n, partial'[id])
      BY <3>1, <1>4 DEF Kept
    <3> QED
      BY <3>1, <3>3, <3>4, <3>5
  <2> QED
    BY <1>3, <1>5, <2>1 DEF Tabled
<1>8. Good(w, f)'
  BY <1>1, <1>2, <1>7 DEF Good
<1> QED
  BY <1>6, <1>8 DEF CodecInv

-----------------------------------------------------------------------------
(* decode.                                                                 *)

\* The clean-up takes out of the table what it counts as expired.
LEMMA TabledCleaned ==
    ASSUME NEW s, NEW t, NEW ex, NEW y, NEW w, NEW b, NEW D, Tabled(s, t, ex, w, b),
           D \subseteq DOMAIN t, ex \subseteq y, \A id \in (DOMAIN t) \ D : id \in y
    PROVE  Tabled(s, [id \in D |-> t[id]], y, w, b)
<1> DEFINE c == [id \in D |-> t[id]]
<1>1. DOMAIN c = D /\ \A id \in D : c[id] = t[id]
  OBVIOUS
<1> HIDE DEF c
<1>2. ASSUME NEW id \in D
      PROVE  \E n \in 1..Len(s) : /\ Id(s, n) = id /\ Entry(s, t[id], n) /\ ~IsComplete(t[id])
                                  /\ Kept(y, w, b, id, n, t[id])
  <2>1. PICK n \in 1..Len(s) : /\ Id(s, n) = id /\ Entry(s, t[id], n) /\ ~IsComplete(t[id])
                               /\ Kept(ex, w, b, id, n, t[id])
    BY DEF Tabled
  <2>2. Kept(y, w, b, id, n, t[id])
    BY <2>1 DEF Kept
  <2> QED
    BY <2>1, <2>2
<1>3. \A id, jd \in D \ y : id = jd
  BY DEF Tabled
<1>4. w # <<>> /\ w[1].i > 1 /\ Id(s, w[1].n) \notin y => Id(s, w[1].n) \in D
  BY DEF Tabled
<1>5. Tabled(s, c, y, w, b)
  BY <1>1, <1>2, <1>3, <1>4 DEF Tabled
<1> QED
  BY <1>5 DEF c

\* Who is accounted for stays so when more has expired.
LEMMA AccountedCleaned ==
    ASSUME NEW s, NEW r, NEW ex, NEW y, NEW w, NEW g, NEW f, Accounted(s, r, ex, w, g, f), ex \subseteq y
    PROVE  Accounted(s, r, y, w, g, f)
  BY DEF Accounted

\* The first frame on its way in w, the i-th of the n-th message, is taken, and v is
\* left.  What comes first there is of the same or of a later message, it begins a
\* later message, or it follows the frame.
Front(w, n, i)      == w # <<>> /\ n = w[1].n /\ i = w[1].i
Popped(w, v)        == /\ Len(w) \in Nat \ {0} /\ Len(v) = Len(w) - 1
                       /\ \A j \in 1..(Len(w) - 1) : v[j] = w[j + 1]
NotBefore(v, n)     == v # <<>> => v[1].n \in Nat /\ v[1].n >= n
Later(v, n)         == v # <<>> => v[1].n \in Nat /\ v[1].n > n /\ v[1].i = 1
FollowedBy(s, w, v) == v # <<>> => v[1].n \in Nat /\ v[1].i \in Nat /\ Follows(s, w[1], v[1])

\* The stream is broken, or a message of which nothing is left is at its end.
BrokenOrEnd(s, v, n, i, b) == b \/ (v = <<>> => i = Count(s, n))

\* The table t is c without the n-th message and perhaps others.
Rest(s, n, c, t) ==
    /\ DOMAIN t \subseteq DOMAIN c /\ \A id \in DOMAIN t : t[id] = c[id]
    /\ Long(s, n) => Id(s, n) \notin DOMAIN t

\* What was returned, and which they are, goes on from g and f to k and h.
Prolongs(k, h, g, f) ==
    Len(g) \in Nat /\ Len(k) \in Nat /\ Len(g) <= Len(k) /\ \A i \in 1..Len(g) : h[i] = f[i]

\* If the i-th frame is its last, the n-th message is returned or has expired.
Settled(s, y, n, i, k, h) ==
    i = Count(s, n) => (\E j \in 1..Len(k) : h[j] = n) \/ (Long(s, n) /\ Id(s, n) \in y)

\* The first frame is taken.
LEMMA PlacedPopped ==
    ASSUME NEW s, NEW r, NEW p, NEW q, NEW w, NEW v, NEW n, NEW i, Placed(s, r, p, w),
           Front(w, n, i), Popped(p, q), v = Tail(w)
    PROVE  /\ Placed(s, r, q, v)
           /\ Ended(s, w) => Ended(s, v)
           /\ Ended(s, w) => BrokenOrEnd(s, v, n, i, FALSE)
           /\ FollowedBy(s, w, v) /\ Popped(w, v)
<1>1. w \in Seq(Unit) /\ Len(w) \in Nat \ {0} /\ Len(p) = Len(w)
  BY DEF Placed, Front
<1>2. /\ v \in Seq(Unit) /\ Len(v) = Len(w) - 1 /\ \A k \in 1..(Len(w) - 1) : v[k] = w[k + 1]
  BY <1>1
<1>3. \A k \in 1..(Len(w) - 1) : k + 1 \in 1..Len(w)
  BY <1>1
<1>4. \A k \in 1..Len(v) : /\ v[k].n \in (1..Len(s)) \ r /\ v[k].i \in 1..Count(s, v[k].n)
                           /\ q[k] = Frame(s, v[k].n, v[k].i)
  BY <1>1, <1>2, <1>3 DEF Placed, Popped
<1>5. \A k \in 1..(Len(v) - 1) : Follows(s, v[k], v[k + 1])
  <2> TAKE k \in 1..(Len(v) - 1)
  <2>1. /\ k \in 1..(Len(w) - 1) /\ k + 1 \in 1..(Len(w) - 1)
        /\ v[k] = w[k + 1] /\ v[k + 1] = w[(k + 1) + 1]
    BY <1>1, <1>2
  <2> QED
    BY <2>1 DEF Placed
<1>6. Placed(s, r, q, v)
  BY <1>1, <1>2, <1>4, <1>5 DEF Placed, Popped
<1>7. v # <<>> => Len(v) \in 1..(Len(w) - 1) /\ Len(v) + 1 = Len(w) /\ 1 \in 1..(Len(w) - 1)
  BY <1>1, <1>2
<1>8. FollowedBy(s, w, v) /\ Popped(w, v)
  <2>1. v # <<>> => Follows(s, w[1], v[1])
    BY <1>2, <1>7 DEF Placed
  <2>2. v # <<>> => v[1] \in Unit
    BY <1>2, <1>7
  <2>3. v # <<>> => v[1].n \in Nat /\ v[1].i \in Nat
    BY <2>2 DEF Unit
  <2> QED
    BY <1>1, <1>2, <2>1, <2>3 DEF FollowedBy, Popped
<1>9. Ended(s, w) => Ended(s, v)
  BY <1>2, <1>7 DEF Ended
<1>10. Ended(s, w) /\ v = <<>> => i = Count(s, n)
  <2>1. v = <<>> => Len(w) = 1
    BY <1>1, <1>2
  <2> QED
    BY <2>1 DEF Ended, Front
<1> QED
  BY <1>6, <1>8, <1>9, <1>10 DEF BrokenOrEnd

\* Nothing is returned for a frame.
LEMMA ReturnedPopped ==
    ASSUME NEW s, NEW r, NEW g, NEW w, NEW v, NEW f, NEW n \in Nat, NEW i,
           Returned(s, r, g, w, f), Front(w, n, i), NotBefore(v, n)
    PROVE  Returned(s, r, g, v, f)
<1>1. ASSUME NEW j \in 1..Len(g), v # <<>> PROVE f[j] < v[1].n
  <2>1. f[j] \in 1..Len(s) /\ f[j] < n
    BY DEF Returned, Front
  <2>2. f[j] \in Int /\ v[1].n \in Nat /\ v[1].n >= n
    BY <1>1, <2>1 DEF NotBefore
  <2> QED
    BY <1>1, <2>1, <2>2
<1> QED
  BY <1>1 DEF Returned

\* The message of the first frame is returned.
LEMMA ReturnedMore ==
    ASSUME NEW s \in Seq(Messages), NEW r, NEW g \in Seq(Seq(AllBytes)), NEW w, NEW v, NEW f,
           NEW n \in (1..Len(s)) \ r, NEW k, Returned(s, r, g, w, f), Front(w, n, k), Later(v, n),
           Whole(s, n) \in Seq(AllBytes)
    PROVE  \E h : /\ Returned(s, r, Append(g, Whole(s, n)), v, h)
                  /\ Prolongs(Append(g, Whole(s, n)), h, g, f)
                  /\ \E i \in 1..Len(Append(g, Whole(s, n))) : h[i] = n
<1> DEFINE h == [i \in 1..(Len(g) + 1) |-> IF i = Len(g) + 1 THEN n ELSE f[i]]
           z == Append(g, Whole(s, n))
<1>1. /\ Len(g) \in Nat /\ Len(z) = Len(g) + 1 /\ z[Len(g) + 1] = Whole(s, n)
      /\ \A i \in 1..Len(g) : z[i] = g[i]
  OBVIOUS
<1>2. /\ f \in [1..Len(g) -> (1..Len(s)) \ r]
      /\ \A i \in 1..Len(g) : g[i] = Whole(s, f[i]) /\ f[i] < n
      /\ \A i, j \in 1..Len(g) : i < j => f[i] < f[j]
  BY DEF Returned, Front
<1>3. /\ h \in [1..(Len(g) + 1) -> (1..Len(s)) \ r] /\ h[Len(g) + 1] = n
      /\ \A i \in 1..Len(g) : h[i] = f[i]
  BY <1>1, <1>2
<1> HIDE DEF h, z
<1>4. \A i \in 1..(Len(g) + 1) : i \in 1..Len(g) \/ i = Len(g) + 1
  BY <1>1
<1>5. ASSUME NEW i \in 1..(Len(g) + 1) PROVE z[i] = Whole(s, h[i]) /\ (v # <<>> => h[i] < v[1].n)
  <2>1. CASE i \in 1..Len(g)
    <3>1. z[i] = Whole(s, h[i]) /\ h[i] < n /\ h[i] \in 1..Len(s)
      BY <1>1, <1>2, <1>3, <2>1
    <3>2. h[i] \in Int /\ n \in Int
      BY <3>1
    <3>3. v # <<>> => h[i] < v[1].n
      <4> SUFFICES ASSUME v # <<>> PROVE h[i] < v[1].n
        OBVIOUS
      <4>1. v[1].n \in Nat /\ v[1].n > n
        BY DEF Later
      <4> QED
        BY <3>1, <3>2, <4>1
    <3> QED
      BY <3>1, <3>3
  <2>2. CASE i = Len(g) + 1
    BY <1>1, <1>3, <2>2 DEF Later
  <2> QED
    BY <1>4, <2>1, <2>2
<1>6. ASSUME NEW i \in 1..(Len(g) + 1), NEW j \in 1..(Len(g) + 1), i < j PROVE h[i] < h[j]
  <2>1. i \in 1..Len(g)
    BY <1>1, <1>6
  <2> QED
    BY <1>2, <1>3, <1>4, <1>6, <2>1
<1>7. Returned(s, r, z, v, h)
  BY <1>1, <1>3, <1>5, <1>6 DEF Returned
<1>8. Prolongs(z, h, g, f) /\ \E i \in 1..Len(z) : h[i] = n
  <2>1. Len(g) + 1 \in 1..Len(z)
    BY <1>1
  <2>2. Len(z) \in Nat /\ Len(g) <= Len(z)
    BY <1>1
  <2>3. Prolongs(z, h, g, f)
    BY <1>1, <1>3, <2>2 DEF Prolongs
  <2> QED
    BY <1>3, <2>1, <2>3
<1> QED
  BY <1>7, <1>8 DEF z

\* A fragment comes: what has come of its message is complete with the last of
\* them, and only then, unless some of it was cleaned up; and it is the message.
Came(s, c, y, n, i, id, t) ==
    /\ DOMAIN t = DOMAIN c \cup {id}
    /\ \A j \in (DOMAIN c) \ {id} : t[j] = c[j]
    /\ Entry(s, t[id], n)
    /\ t[id].age = IF id \in DOMAIN c THEN c[id].age ELSE 0
    /\ \A j \in DOMAIN t[id].parts : j <= i
    /\ id \notin y => DOMAIN t[id].parts = 1..i
    /\ IsComplete(t[id]) => i = Total(s, n) /\ Reassemble(t[id]) = Whole(s, n)
    /\ id \notin y /\ i = Total(s, n) => IsComplete(t[id])

\* That is so of the table with the first frame on its way added.
LEMMA FragmentComes ==
    ASSUME NEW s \in Seq(Messages), NEW c, NEW y, NEW w, NEW b, NEW t, NEW n \in 1..Len(s),
           NEW i \in 1..Total(s, n), NEW id, Tabled(s, c, y, w, b), Front(w, n, i),
           id = Id(s, n), Long(s, n), t = Added(c, Frame(s, n, i))
    PROVE  Came(s, c, y, n, i, id, t)
<1> DEFINE T == Total(s, n)
<1>2. n \in 1..Len(s) /\ Long(s, n) /\ T \in Nat /\ T > 1 /\ i \in 1..T
  BY Sizes
<1>3. ASSUME id \in DOMAIN c
      PROVE  /\ Entry(s, c[id], n) /\ \A j \in DOMAIN c[id].parts : j < i
             /\ id \notin y => DOMAIN c[id].parts = 1..(i - 1)
  <2>1. PICK m \in 1..Len(s) : Id(s, m) = id /\ Entry(s, c[id], m) /\ Kept(y, w, b, id, m, c[id])
    BY <1>3 DEF Tabled
  <2>2. Long(s, m)
    BY <2>1 DEF Entry
  <2>3. m = n
    BY <1>2, <2>1, <2>2, Ids
  <2> QED
    BY <2>1, <2>3 DEF Kept, Front
<1>4. t = Added(c, Frame(s, n, i))
  OBVIOUS
<1>5. /\ DOMAIN t = DOMAIN c \cup {id}
      /\ \A j \in (DOMAIN c) \ {id} : t[j] = c[j]
      /\ Entry(s, t[id], n) /\ t[id].total = T
      /\ t[id].age = IF id \in DOMAIN c THEN c[id].age ELSE 0
      /\ DOMAIN t[id].parts = (IF id \in DOMAIN c THEN DOMAIN c[id].parts ELSE {}) \cup {i}
  <2> DEFINE fr == Frame(s, n, i)
             x  == Chunk(Whole(s, n), i)
  <2>1. fr.id = id /\ fr.index = i /\ fr.total = Total(s, n) /\ fr.data = x
    BY <1>2 DEF Frame, Fragment
  <2>0. t = Added(c, fr)
    BY <1>4
  <2> HIDE DEF fr
  <2>2. PICK a, q : /\ (IF id \in DOMAIN c THEN c[id]
                        ELSE [age |-> 0, total |-> Total(s, n), parts |-> <<>>])
                         = [age |-> a, total |-> Total(s, n), parts |-> q]
                    /\ a = IF id \in DOMAIN c THEN c[id].age ELSE 0
                    /\ DOMAIN q = IF id \in DOMAIN c THEN DOMAIN c[id].parts ELSE {}
                    /\ DOMAIN q \subseteq 1..Total(s, n)
                    /\ \A j \in DOMAIN q : q[j] = Chunk(Whole(s, n), j)
    <3>1. CASE id \in DOMAIN c
      <4>1. c[id] = [age |-> c[id].age, total |-> Total(s, n), parts |-> c[id].parts]
        BY <1>3, <3>1 DEF Entry
      <4>2. /\ DOMAIN c[id].parts \subseteq 1..Total(s, n)
            /\ \A j \in DOMAIN c[id].parts : c[id].parts[j] = Chunk(Whole(s, n), j)
        BY <1>3, <3>1 DEF Entry
      <4>3. PICK a, q : a = c[id].age /\ q = c[id].parts
        OBVIOUS
      <4>4. c[id] = [age |-> a, total |-> Total(s, n), parts |-> q]
        BY <4>1, <4>3
      <4> QED
        BY <3>1, <4>2, <4>3, <4>4
    <3>2. CASE id \notin DOMAIN c
      <4>1. DOMAIN <<>> = {}
        OBVIOUS
      <4> QED
        BY <3>2, <4>1
    <3> QED
      BY <3>1, <3>2
  <2> DEFINE new == [j \in DOMAIN q \cup {i} |-> IF j = i THEN x ELSE q[j]]
             e   == [age |-> a, total |-> Total(s, n), parts |-> new]
  <2>3. t = [j \in DOMAIN c \cup {id} |-> IF j = id THEN e ELSE c[j]]
    <3> DEFINE old == IF fr.id \in DOMAIN c THEN c[fr.id]
                      ELSE [age |-> 0, total |-> fr.total, parts |-> <<>>]
               nw  == [old EXCEPT !.parts = [j \in DOMAIN @ \cup {fr.index} |->
                                                IF j = fr.index THEN fr.data ELSE @[j]]]
    <3>1. old = [age |-> a, total |-> Total(s, n), parts |-> q]
      BY <2>1, <2>2
    <3>2. t = [j \in DOMAIN c \cup {fr.id} |-> IF j = fr.id THEN nw ELSE c[j]]
      BY <2>0 DEF Added
    <3> HIDE DEF old
    <3>3. nw = [[age |-> a, total |-> Total(s, n), parts |-> q]
                  EXCEPT !.parts = [j \in DOMAIN @ \cup {i} |-> IF j = i THEN x ELSE @[j]]]
      BY <2>1, <3>1
    <3>4. nw = e
      BY <3>3
    <3> HIDE DEF nw, e
    <3> QED
      BY <2>1, <3>2, <3>4
  <2>4. t[id] = e /\ DOMAIN t = DOMAIN c \cup {id} /\ \A j \in (DOMAIN c) \ {id} : t[j] = c[j]
    <3> HIDE DEF e
    <3> QED
      BY <2>3
  <2>5. /\ e.total = Total(s, n) /\ e.age = a /\ e.parts = new
        /\ e = [age |-> e.age, total |-> Total(s, n), parts |-> e.parts]
    <3> HIDE DEF new
    <3> QED
      OBVIOUS
  <2>6. DOMAIN new = DOMAIN q \cup {i} /\ \A j \in DOMAIN new : new[j] = Chunk(Whole(s, n), j)
    BY <2>2
  <2> HIDE DEF e, new
  <2>7. Entry(s, e, n)
    BY <1>2, <2>2, <2>5, <2>6 DEF Entry
  <2> QED
    BY <2>2, <2>4, <2>5, <2>6, <2>7
<1>6. DOMAIN t[id].parts \subseteq 1..T
  BY <1>5 DEF Entry
<1>7. \A j \in DOMAIN t[id].parts : j <= i
  <2> TAKE j \in DOMAIN t[id].parts
  <2>1. j \in 1..T /\ (j = i \/ j < i)
    BY <1>3, <1>5, <1>6
  <2> QED
    BY <1>2, <2>1
<1>8. id \notin y => DOMAIN t[id].parts = 1..i
  <2> SUFFICES ASSUME id \notin y PROVE DOMAIN t[id].parts = 1..i
    OBVIOUS
  <2>1. CASE id \in DOMAIN c
    <3>1. DOMAIN t[id].parts = (1..(i - 1)) \cup {i}
      BY <1>3, <1>5, <2>1
    <3> QED
      BY <1>2, <3>1
  <2>2. CASE id \notin DOMAIN c
    <3>1. ~(i > 1)
      BY <2>2 DEF Tabled, Front
    <3>2. i = 1
      BY <1>2, <3>1
    <3> QED
      BY <1>5, <2>2, <3>2
  <2> QED
    BY <2>1, <2>2
<1>9. IsComplete(t[id]) <=> DOMAIN t[id].parts = 1..T
  <2>1. Cardinality(DOMAIN t[id].parts) = T <=> DOMAIN t[id].parts = 1..T
    BY <1>2, <1>6, AllThere
  <2> QED
    BY <1>5, <2>1 DEF IsComplete
<1>10. IsComplete(t[id]) => i = T
  <2> SUFFICES ASSUME IsComplete(t[id]) PROVE i = T
    OBVIOUS
  <2>1. T \in 1..T
    BY <1>2
  <2>2. T <= i
    BY <1>7, <1>9, <2>1
  <2> QED
    BY <1>2, <2>2
<1>11. IsComplete(t[id]) => Reassemble(t[id]) = Whole(s, n)
  <2> SUFFICES ASSUME IsComplete(t[id]) PROVE Reassemble(t[id]) = Whole(s, n)
    OBVIOUS
  <2>1. t[id].total = Total(s, n) /\ \A j \in 1..t[id].total : t[id].parts[j] = Chunk(Whole(s, n), j)
    BY <1>5, <1>9 DEF Entry
  <2> QED
    BY <1>2, <2>1, Reassembled
<1>12. id \notin y /\ i = T => IsComplete(t[id])
  BY <1>8, <1>9
<1> HIDE DEF T
<1> QED
  BY <1>5, <1>7, <1>8, <1>10, <1>11, <1>12 DEF T, Came

\* A message leaves the table, or was never there: the others in it have lost
\* fragments to a clean-up.
LEMMA TabledDone ==
    ASSUME NEW s \in Seq(Messages), NEW c, NEW y, NEW w, NEW v, NEW b, NEW t,
           NEW k \in 1..Len(s), NEW i, Tabled(s, c, y, w, b), Front(w, k, i), Later(v, k),
           Rest(s, k, c, t)
    PROVE  Tabled(s, t, y, v, b)
<1>1. ASSUME NEW id \in DOMAIN t
      PROVE  /\ id \in y
             /\ \E n \in 1..Len(s) : /\ Id(s, n) = id /\ Entry(s, t[id], n) /\ ~IsComplete(t[id])
                                     /\ Kept(y, v, b, id, n, t[id])
  <2>1. id \in DOMAIN c /\ t[id] = c[id]
    BY DEF Rest
  <2>2. PICK n \in 1..Len(s) : /\ Id(s, n) = id /\ Entry(s, t[id], n) /\ ~IsComplete(t[id])
                               /\ Kept(y, w, b, id, n, t[id])
    BY <2>1 DEF Tabled
  <2>3. Long(s, n)
    BY <2>2 DEF Entry
  <2>4. n # k
    BY <2>2, <2>3 DEF Rest
  <2>5. n < k /\ n \in Nat /\ id \in y
    BY <2>2, <2>4 DEF Kept, Front
  <2>6. v # <<>> => n < v[1].n /\ v[1].n \in Nat
    BY <2>5 DEF Later
  <2>7. Kept(y, v, b, id, n, t[id])
    BY <2>5, <2>6 DEF Kept
  <2> QED
    BY <2>2, <2>5, <2>7
<1> QED
  BY <1>1 DEF Tabled, Later

\* A fragment stays in the table.
LEMMA TabledMore ==
    ASSUME NEW s \in Seq(Messages), NEW c, NEW y, NEW w, NEW v, NEW b, NEW t, NEW n \in 1..Len(s),
           NEW i \in 1..Total(s, n), NEW id, Tabled(s, c, y, w, b), Front(w, n, i), id = Id(s, n),
           Long(s, n), FollowedBy(s, w, v), BrokenOrEnd(s, v, n, i, b),
           t = Added(c, Frame(s, n, i)), ~IsComplete(t[id])
    PROVE  Tabled(s, t, y, v, b)
<1>2. /\ DOMAIN t = DOMAIN c \cup {id}
      /\ \A j \in (DOMAIN c) \ {id} : t[j] = c[j]
      /\ Entry(s, t[id], n)
      /\ \A j \in DOMAIN t[id].parts : j <= i
      /\ id \notin y => DOMAIN t[id].parts = 1..i
      /\ id \notin y /\ i = Total(s, n) => IsComplete(t[id])
  <2>1. Came(s, c, y, n, i, id, t)
    BY FragmentComes
  <2> QED
    BY <2>1 DEF Came
<1>3. Count(s, n) = Total(s, n) /\ Total(s, n) \in Nat /\ i \in 1..Total(s, n) /\ n \in Nat
  <2>1. Total(s, n) \in Nat
    BY Sizes
  <2> QED
    BY <2>1 DEF Count
<1>4. id \notin y => i < Total(s, n)
  BY <1>2, <1>3
<1>5. v # <<>> => IF i < Total(s, n) THEN v[1].n = n /\ v[1].i = i + 1
                                     ELSE v[1].n > n /\ v[1].i = 1
  BY <1>3 DEF Front, FollowedBy, Follows
<1>6. Kept(y, v, b, id, n, t[id])
  <2>1. DOMAIN t[id].parts \subseteq 1..Total(s, n)
    BY <1>2 DEF Entry
  <2>2. v # <<>> => n <= v[1].n /\ (n = v[1].n => \A j \in DOMAIN t[id].parts : j < v[1].i)
    <3> SUFFICES ASSUME v # <<>>
                 PROVE  n <= v[1].n /\ (n = v[1].n => \A j \in DOMAIN t[id].parts : j < v[1].i)
      OBVIOUS
    <3>1. CASE i < Total(s, n)
      <4>1. v[1].n = n /\ v[1].i = i + 1
        BY <1>5, <3>1
      <4>2. \A j \in DOMAIN t[id].parts : j \in Nat /\ j <= i
        BY <1>2, <2>1
      <4> QED
        BY <1>3, <4>1, <4>2
    <3>2. CASE ~(i < Total(s, n))
      BY <1>3, <1>5, <3>2 DEF FollowedBy
    <3> QED
      BY <3>1, <3>2
  <2>3. ASSUME id \notin y
        PROVE  (b \/ v # <<>>) /\ (v # <<>> => n = v[1].n /\ DOMAIN t[id].parts = 1..(v[1].i - 1))
    <3>1. i < Total(s, n) /\ DOMAIN t[id].parts = 1..i
      BY <1>2, <1>4, <2>3
    <3>2. b \/ v # <<>>
      BY <1>3, <3>1 DEF BrokenOrEnd
    <3>3. v # <<>> => n = v[1].n /\ v[1].i - 1 = i
      BY <1>3, <1>5, <3>1
    <3> QED
      BY <3>1, <3>2, <3>3
  <2> QED
    BY <2>2, <2>3 DEF Kept
<1>7. ASSUME NEW j \in DOMAIN c, j # id
      PROVE  /\ j \in y
             /\ \E k \in 1..Len(s) : /\ Id(s, k) = j /\ Entry(s, t[j], k) /\ ~IsComplete(t[j])
                                     /\ Kept(y, v, b, j, k, t[j])
  <2>1. t[j] = c[j]
    BY <1>2, <1>7
  <2>2. PICK k \in 1..Len(s) : /\ Id(s, k) = j /\ Entry(s, t[j], k) /\ ~IsComplete(t[j])
                               /\ Kept(y, w, b, j, k, t[j])
    BY <2>1 DEF Tabled
  <2>3. k # n
    BY <1>7, <2>2
  <2>4. k < n /\ k \in Nat /\ j \in y
    BY <2>2, <2>3 DEF Kept, Front
  <2>5. v # <<>> => k < v[1].n /\ v[1].n \in Nat
    BY <1>3, <1>5, <2>4 DEF FollowedBy
  <2>6. Kept(y, v, b, j, k, t[j])
    BY <2>4, <2>5 DEF Kept
  <2> QED
    BY <2>2, <2>4, <2>6
<1>8. \A j \in DOMAIN t : \E k \in 1..Len(s) :
         Id(s, k) = j /\ Entry(s, t[j], k) /\ ~IsComplete(t[j]) /\ Kept(y, v, b, j, k, t[j])
  BY <1>2, <1>6, <1>7
<1>9. \A j, k \in (DOMAIN t) \ y : j = k
  BY <1>2, <1>7
<1>10. v # <<>> /\ v[1].i > 1 /\ Id(s, v[1].n) \notin y => Id(s, v[1].n) \in DOMAIN t
  BY <1>2, <1>5
<1> QED
  BY <1>8, <1>9, <1>10 DEF Tabled

\* The first frame is taken: if it is the last of its message, that is returned, or
\* has expired.
LEMMA AccountedPopped ==
    ASSUME NEW s, NEW r, NEW y, NEW w, NEW v, NEW g, NEW f, NEW k, NEW h, NEW m, NEW l,
           Accounted(s, r, y, w, g, f), Popped(w, v), Prolongs(k, h, g, f), Front(w, m, l),
           Settled(s, y, m, l, k, h)
    PROVE  Accounted(s, r, y, v, k, h)
<1> SUFFICES ASSUME NEW n \in 1..Len(s)
             PROVE  \/ \E i \in 1..Len(k) : h[i] = n
                    \/ n \in r
                    \/ Long(s, n) /\ Id(s, n) \in y
                    \/ \E j \in 1..Len(v) : v[j].n = n /\ v[j].i = Count(s, n)
  BY DEF Accounted
<1>1. CASE \E i \in 1..Len(g) : f[i] = n
  <2>1. PICK i \in 1..Len(g) : f[i] = n
    BY <1>1
  <2>2. i \in 1..Len(k) /\ h[i] = n
    BY <2>1 DEF Prolongs
  <2> QED
    BY <2>2
<1>2. CASE \E j \in 1..Len(w) : w[j].n = n /\ w[j].i = Count(s, n)
  <2>1. PICK j \in 1..Len(w) : w[j].n = n /\ w[j].i = Count(s, n)
    BY <1>2
  <2>2. CASE j = 1
    BY <2>1, <2>2 DEF Front, Settled
  <2>3. CASE j # 1
    <3>1. j - 1 \in 1..(Len(w) - 1) /\ (j - 1) + 1 = j
      BY <2>3 DEF Popped
    <3>2. v[j - 1] = w[j] /\ j - 1 \in 1..Len(v)
      BY <3>1 DEF Popped
    <3> QED
      BY <2>1, <3>1, <3>2
  <2> QED
    BY <2>2, <2>3
<1> QED
  BY <1>1, <1>2 DEF Accounted

\* What Good says, of any values; and what a call of decode makes of the frames on
\* their way, the messages returned and the table when there is a frame.
Holds(s, r, p, g, t, y, b, w, f) ==
    /\ Placed(s, r, p, w) /\ Returned(s, r, g, w, f) /\ Tabled(s, t, y, w, b)
    /\ ~b => Ended(s, w) /\ Accounted(s, r, y, w, g, f)

Taken(p, g, c, q, k, d) ==
    LET t    == IF p[1].kind = "fragment" THEN Added(c, p[1]) ELSE c
        some == p[1].kind = "complete" \/ IsComplete(t[p[1].id])
    IN  /\ Popped(p, q)
        /\ d = IF some /\ p[1].kind = "fragment" THEN Without(t, p[1].id) ELSE t
        /\ k = IF ~some THEN g
               ELSE Append(g, IF p[1].kind = "complete" THEN p[1].data ELSE Reassemble(t[p[1].id]))

\* No message in the table is younger than it was, but for a new one.
Aged(c, d) == \A id \in DOMAIN d : d[id].age = 0 \/ (id \in DOMAIN c /\ d[id].age = c[id].age)

\* What is taken in a call: the three cases.
LEMMA TakenHolds ==
    ASSUME NEW s \in Seq(Messages), Len(s) <= MaxSent, NEW r, NEW p, NEW g \in Seq(Seq(AllBytes)),
           NEW c, NEW y, NEW b \in BOOLEAN, NEW w, NEW f, NEW q, NEW k, NEW d,
           Holds(s, r, p, g, c, y, b, w, f), Taken(p, g, c, q, k, d)
    PROVE  /\ \E v, h : Holds(s, r, q, k, d, y, b, v, h)
           /\ k \in Seq(Seq(AllBytes)) /\ Aged(c, d)
<1>1. /\ Placed(s, r, p, w) /\ Returned(s, r, g, w, f) /\ Tabled(s, c, y, w, b)
      /\ ~b => Ended(s, w) /\ Accounted(s, r, y, w, g, f)
  BY DEF Holds
<1>2. Popped(p, q)
  BY DEF Taken
<1>3. w # <<>> /\ 1 \in 1..Len(w) /\ Len(w) \in Nat
  BY <1>1, <1>2 DEF Placed, Popped
<1>4. PICK n, i : n = w[1].n /\ i = w[1].i
  OBVIOUS
<1>5. /\ n \in (1..Len(s)) \ r /\ i \in 1..Count(s, n) /\ p[1] = Frame(s, n, i) /\ n \in Nat
  BY <1>1, <1>3, <1>4 DEF Placed
<1>6. PICK v : v = Tail(w)
  OBVIOUS
<1>7. /\ Placed(s, r, q, v) /\ FollowedBy(s, w, v) /\ Popped(w, v)
      /\ Ended(s, w) => Ended(s, v)
      /\ Ended(s, w) /\ v = <<>> => i = Count(s, n)
  <2>1. Front(w, n, i)
    BY <1>3, <1>4 DEF Front
  <2>2. Placed(s, r, p, w)
    BY <1>1
  <2>3. Placed(s, r, q, v)
    BY ONLY <2>1, <2>2, <1>2, <1>6, PlacedPopped
  <2>4. FollowedBy(s, w, v) /\ Popped(w, v)
    BY ONLY <2>1, <2>2, <1>2, <1>6, PlacedPopped
  <2>5. Ended(s, w) => Ended(s, v)
    BY ONLY <2>1, <2>2, <1>2, <1>6, PlacedPopped
  <2>6. Ended(s, w) => BrokenOrEnd(s, v, n, i, FALSE)
    BY ONLY <2>1, <2>2, <1>2, <1>6, PlacedPopped
  <2> QED
    BY <2>3, <2>4, <2>5, <2>6 DEF BrokenOrEnd
<1>8. Front(w, n, i)
  BY <1>3, <1>4 DEF Front
<1>9. Count(s, n) \in Nat \ {0} /\ i \in Nat
  <2>1. n \in 1..Len(s)
    BY <1>5
  <2>2. Count(s, n) \in Nat \ {0}
    BY <2>1, Sizes
  <2> QED
    BY <1>5, <2>2
<1>10. i = Count(s, n) => Later(v, n)
  BY <1>4, <1>7, <1>9 DEF FollowedBy, Follows, Later
<1>11. NotBefore(v, n)
  <2> SUFFICES ASSUME v # <<>> PROVE v[1].n \in Nat /\ v[1].n >= n
    BY DEF NotBefore
  <2>1. v[1].n \in Nat /\ (v[1].n = n \/ v[1].n > n)
    BY <1>4, <1>7 DEF FollowedBy, Follows
  <2> QED
    BY <1>5, <2>1
<1>12. BrokenOrEnd(s, v, n, i, b)
  BY <1>1, <1>7 DEF BrokenOrEnd
<1>13. Whole(s, n) \in Seq(AllBytes)
  <2>1. n \in 1..MaxSent /\ s[n] \in Messages
    BY <1>5, CodecAssumption
  <2> QED
    BY <2>1, BytesType DEF Whole
<1>14. ASSUME k = Append(g, Whole(s, n)), Rest(s, n, c, d), i = Count(s, n)
       PROVE  (\E h : Holds(s, r, q, k, d, y, b, v, h)) /\ k \in Seq(Seq(AllBytes)) /\ Aged(c, d)
  <2>1. Later(v, n)
    BY <1>10, <1>14
  <2>2. PICK h : /\ Returned(s, r, Append(g, Whole(s, n)), v, h)
                 /\ Prolongs(Append(g, Whole(s, n)), h, g, f)
                 /\ \E j \in 1..Len(Append(g, Whole(s, n))) : h[j] = n
    BY <1>1, <1>5, <1>8, <1>13, <2>1, ReturnedMore
  <2>3. Tabled(s, d, y, v, b)
    BY <1>1, <1>5, <1>8, <1>14, <2>1, TabledDone
  <2>4. Settled(s, y, n, i, k, h)
    BY <1>14, <2>2 DEF Settled
  <2>5. ~b => Accounted(s, r, y, v, k, h)
    BY <1>1, <1>7, <1>8, <1>14, <2>2, <2>4, AccountedPopped
  <2>6. Holds(s, r, q, k, d, y, b, v, h)
    BY <1>1, <1>7, <1>14, <2>2, <2>3, <2>5 DEF Holds
  <2>7. k \in Seq(Seq(AllBytes))
    BY <1>13, <1>14
  <2>8. Aged(c, d)
    BY <1>14 DEF Rest, Aged
  <2> QED
    BY <2>6, <2>7, <2>8
<1>15. CASE ~Long(s, n)
  <2>1. p[1].kind = "complete" /\ p[1].data = Whole(s, n) /\ Count(s, n) = 1
    BY <1>5, <1>15 DEF Frame, Complete, Count
  <2>2. k = Append(g, Whole(s, n)) /\ d = c
    BY <2>1 DEF Taken
  <2>3. Rest(s, n, c, d) /\ i = Count(s, n)
    BY <1>5, <1>15, <2>1, <2>2 DEF Rest
  <2> QED
    BY <1>14, <2>2, <2>3
<1>16. CASE Long(s, n)
  <2>1. PICK id : id = Id(s, n)
    OBVIOUS
  <2>2. p[1].kind = "fragment" /\ p[1].id = id /\ Count(s, n) = Total(s, n)
    BY <1>5, <1>16, <2>1 DEF Frame, Fragment, Count
  <2>3. PICK t : t = Added(c, Frame(s, n, i))
    OBVIOUS
  <2>4. Came(s, c, y, n, i, id, t)
    BY <1>1, <1>5, <1>8, <1>16, <2>1, <2>2, <2>3, FragmentComes
  <2>5. /\ d = IF IsComplete(t[id]) THEN Without(t, id) ELSE t
        /\ k = IF IsComplete(t[id]) THEN Append(g, Reassemble(t[id])) ELSE g
    BY <1>5, <2>2, <2>3 DEF Taken
  <2>6. CASE IsComplete(t[id])
    <3>1. k = Append(g, Whole(s, n)) /\ i = Count(s, n)
      BY <2>2, <2>4, <2>5, <2>6 DEF Came
    <3>2. d = [j \in (DOMAIN t) \ {id} |-> t[j]]
      BY <2>5, <2>6 DEF Without
    <3>3. Rest(s, n, c, d)
      BY <2>1, <2>4, <3>2 DEF Rest, Came
    <3> QED
      BY <1>14, <3>1, <3>3
  <2>7. CASE ~IsComplete(t[id])
    <3>1. k = g /\ d = t
      BY <2>5, <2>7
    <3>2. Tabled(s, t, y, v, b)
      BY <1>1, <1>5, <1>7, <1>8, <1>12, <1>16, <2>1, <2>2, <2>3, <2>7, TabledMore
    <3>3. Returned(s, r, g, v, f)
      BY <1>1, <1>5, <1>8, <1>11, ReturnedPopped
    <3>4. Settled(s, y, n, i, g, f) /\ Prolongs(g, f, g, f)
      BY <1>16, <2>1, <2>2, <2>4, <2>7 DEF Settled, Prolongs, Came
    <3>5. ~b => Accounted(s, r, y, v, g, f)
      BY <1>1, <1>7, <1>8, <3>4, AccountedPopped
    <3>6. Holds(s, r, q, k, d, y, b, v, f)
      BY <1>1, <1>7, <3>1, <3>2, <3>3, <3>5 DEF Holds
    <3>7. Aged(c, d)
      BY <2>4, <3>1 DEF Came, Aged
    <3> QED
      BY <3>1, <3>6, <3>7
  <2> QED
    BY <2>6, <2>7
<1> QED
  BY <1>15, <1>16

\* What is in the table was sent.
LEMMA TabledIds ==
    ASSUME NEW s \in Seq(Messages), NEW t, NEW y, NEW w, NEW b, Tabled(s, t, y, w, b)
    PROVE  DOMAIN t \subseteq 1..Id(s, Len(s))
<1> SUFFICES ASSUME NEW id \in DOMAIN t PROVE id \in 1..Id(s, Len(s))
  OBVIOUS
<1>1. PICK n \in 1..Len(s) : Id(s, n) = id /\ Long(s, n)
  BY DEF Tabled, Entry
<1> QED
  BY <1>1, Ids

\* A call of decode.
LEMMA DecodeInv ==
    ASSUME CodecInv, NEW some \in BOOLEAN, Decode(some), CleanupDone,
           UNCHANGED <<sent, refused, nextId, writer, wire, torn, ticks>>,
           reader' \in {"decode", "read", "eof", "end", "error"}
    PROVE  CodecInv'
<1>1. /\ sent \in Seq(Messages) /\ Len(sent) <= MaxSent /\ nextId = Id(sent, Len(sent)) + 1
      /\ buf \in Seq(AnyFrame) /\ wire \in Seq(AnyFrame) /\ got \in Seq(Seq(AllBytes))
      /\ Len(buf) \in Nat /\ Len(wire) \in Nat /\ ticks \in Nat
      /\ \A id \in DOMAIN partial : partial[id].age \in 0..ticks
      /\ expired \subseteq 1..(nextId - 1) /\ since \in 0..Period
  BY DEF CodecInv, Basic
<1>2. PICK w, f : Good(w, f)
  BY DEF CodecInv
<1>3. PICK b \in BOOLEAN : b = (writer = "broken")
  OBVIOUS
<1>4. Tabled(sent, partial, expired, w, b)
  BY <1>2, <1>3 DEF Good
<1>5. PICK y : y = expired'
  OBVIOUS
<1>6. y = expired \cup {id \in DOMAIN partial : since >= Period /\ partial[id].age > Timeout}
  BY <1>5 DEF CleanupDone
<1>7. PICK c : c = Cleaned(partial)
  OBVIOUS
<1> DEFINE D == {id \in DOMAIN partial : since < Period \/ partial[id].age <= Timeout}
<1>8. c = [id \in D |-> partial[id]]
  BY <1>7 DEF Cleaned
<1>9. D \subseteq DOMAIN partial /\ expired \subseteq y /\ \A id \in (DOMAIN partial) \ D : id \in y
  <2>1. ASSUME NEW id \in (DOMAIN partial) \ D PROVE since >= Period /\ partial[id].age > Timeout
    <3>1. ~(since < Period) /\ ~(partial[id].age <= Timeout) /\ partial[id].age \in 0..ticks
      BY <1>1
    <3> QED
      BY <1>1, <3>1 DEF Period, Timeout
  <2> QED
    BY <1>6, <2>1
<1> HIDE DEF D
<1>10. Tabled(sent, c, y, w, b)
  BY <1>4, <1>8, <1>9, TabledCleaned
<1>11. Holds(sent, refused, buf \o wire, got, c, y, b, w, f)
  <2>1. ~b => Accounted(sent, refused, y, w, got, f)
    <3>1. ~b => Accounted(sent, refused, expired, w, got, f)
      BY <1>2, <1>3 DEF Good
    <3> QED
      BY <1>9, <3>1, AccountedCleaned
  <2> QED
    BY <1>2, <1>3, <1>10, <2>1 DEF Good, Holds
<1>12. y \subseteq 1..(nextId - 1)
  <2>1. DOMAIN partial \subseteq 1..Id(sent, Len(sent))
    BY <1>1, <1>4, TabledIds
  <2>2. Id(sent, Len(sent)) \in Nat
    <3>1. Len(sent) \in 0..Len(sent)
      BY <1>1
    <3> QED
      BY <1>1, <3>1, Ids
  <2>3. nextId - 1 = Id(sent, Len(sent))
    BY <1>1, <2>2
  <2> QED
    BY <1>1, <1>6, <2>1, <2>3
<1>13. \A id \in DOMAIN c : c[id].age \in 0..ticks
  BY <1>1, <1>8, <1>9
<1>14. since' \in 0..Period
  BY <1>1 DEF CleanupDone, Period
<1>15. SUFFICES /\ buf' \in Seq(AnyFrame) /\ got' \in Seq(Seq(AllBytes)) /\ Aged(c, partial')
                /\ \E v, h : Holds(sent, refused, buf' \o wire, got', partial', y, b, v, h)
  <2>1. \A id \in DOMAIN partial' : partial'[id].age \in 0..ticks
    <3> SUFFICES ASSUME NEW id \in DOMAIN partial' PROVE partial'[id].age \in 0..ticks
      OBVIOUS
    <3>1. partial'[id].age = 0 \/ (id \in DOMAIN c /\ partial'[id].age = c[id].age)
      BY <1>15 DEF Aged
    <3> QED
      BY <1>1, <1>13, <3>1
  <2>2. Basic'
    BY <1>5, <1>12, <1>14, <1>15, <2>1 DEF CodecInv, Basic, Id, Longs, Long
  <2>3. PICK v, h : Holds(sent, refused, buf' \o wire, got', partial', y, b, v, h)
    BY <1>15
  <2>4. Good(v, h)'
    BY <1>3, <1>5, <2>3 DEF Holds, Good
  <2> QED
    BY <2>2, <2>4 DEF CodecInv
<1>16. CASE buf = <<>>
  <2>1. buf' = buf /\ partial' = c /\ got' = got
    BY <1>7, <1>16 DEF Decode
  <2>2. Aged(c, c)
    BY DEF Aged
  <2> QED
    BY <1>1, <1>11, <2>1, <2>2
<1>17. CASE buf # <<>>
  <2>1. buf' = Tail(buf) /\ Tail(buf) \in Seq(AnyFrame)
    BY <1>1, <1>17 DEF Decode
  <2>2. PICK p, q, fr : p = buf \o wire /\ q = Tail(buf) \o wire /\ fr = Head(buf)
    OBVIOUS
  <2>3. Popped(p, q) /\ p[1] = fr
    <3>1. Len(buf) \in Nat \ {0} /\ Len(Tail(buf)) = Len(buf) - 1 /\ fr = buf[1]
          /\ \A j \in 1..(Len(buf) - 1) : Tail(buf)[j] = buf[j + 1]
      BY <1>1, <1>17, <2>2
    <3>2. /\ p \in Seq(AnyFrame) /\ Len(p) = Len(buf) + Len(wire)
          /\ \A k \in 1..Len(buf) : p[k] = buf[k]
          /\ \A k \in (Len(buf) + 1)..(Len(buf) + Len(wire)) : p[k] = wire[k - Len(buf)]
      BY <1>1, <2>2, Joined
    <3>3. /\ Len(q) = (Len(buf) - 1) + Len(wire)
          /\ \A k \in 1..(Len(buf) - 1) : q[k] = Tail(buf)[k]
          /\ \A k \in ((Len(buf) - 1) + 1)..((Len(buf) - 1) + Len(wire)) :
                q[k] = wire[k - (Len(buf) - 1)]
      BY <1>1, <2>1, <2>2, <3>1, Joined
    <3>4. ASSUME NEW j \in 1..(Len(p) - 1) PROVE q[j] = p[j + 1]
      <4>1. CASE j <= Len(buf) - 1
        <5>1. j \in 1..(Len(buf) - 1) /\ j + 1 \in 1..Len(buf)
          BY <1>1, <3>1, <3>2, <4>1
        <5> QED
          BY <3>1, <3>2, <3>3, <5>1
      <4>2. CASE j > Len(buf) - 1
        <5>1. /\ j \in ((Len(buf) - 1) + 1)..((Len(buf) - 1) + Len(wire))
              /\ j + 1 \in (Len(buf) + 1)..(Len(buf) + Len(wire))
              /\ (j + 1) - Len(buf) = j - (Len(buf) - 1)
          BY <1>1, <3>1, <3>2, <4>2
        <5> QED
          BY <3>2, <3>3, <5>1
      <4> QED
        BY <3>1, <3>2, <4>1, <4>2
    <3>5. Len(p) \in Nat \ {0} /\ Len(q) = Len(p) - 1 /\ 1 \in 1..Len(buf)
      BY <1>1, <3>1, <3>2, <3>3
    <3> QED
      BY <3>1, <3>2, <3>4, <3>5 DEF Popped
  <2>4. Taken(p, got, c, q, got', partial')
    BY <1>7, <1>17, <2>2, <2>3 DEF Decode, Taken
  <2>5. PICK k, d : k = got' /\ d = partial'
    OBVIOUS
  <2>6. /\ \E v, h : Holds(sent, refused, q, k, d, y, b, v, h)
        /\ k \in Seq(Seq(AllBytes)) /\ Aged(c, d)
    BY <1>1, <1>11, <2>2, <2>4, <2>5, TakenHolds
  <2> QED
    BY <2>1, <2>2, <2>5, <2>6
<1> QED
  BY <1>16, <1>17

-----------------------------------------------------------------------------
(* The theorems.                                                           *)

\* The invariant holds initially, with nothing on its way.
LEMMA InitInv == Init => CodecInv
<1> SUFFICES ASSUME Init PROVE CodecInv
  OBVIOUS
<1>1. /\ sent = <<>> /\ refused = {} /\ nextId = 1 /\ wire = <<>> /\ torn = FALSE /\ writer = "open"
      /\ buf = <<>> /\ reader = "decode" /\ partial = <<>> /\ since = 0 /\ ticks = 0 /\ got = <<>>
      /\ expired = {}
  BY DEF Init
<1>2. sent \in Seq(Messages) /\ Len(sent) = 0 /\ DOMAIN partial = {} /\ Len(got) = 0
  BY <1>1
<1>3. Id(sent, 0) = 0
  <2>1. Longs(sent, 0) = {}
    BY DEF Longs
  <2> QED
    BY <2>1, FS_EmptySet DEF Id
<1>4. Basic
  <2>1. MaxSent \in Nat /\ MaxTicks \in Nat
    BY CodecAssumption
  <2>2. wire \in Seq(AnyFrame) /\ buf \in Seq(AnyFrame) /\ got \in Seq(Seq(AllBytes))
    BY <1>1
  <2> QED
    <3>1. nextId = Id(sent, Len(sent)) + 1 /\ Len(sent) <= MaxSent
      BY <1>1, <1>2, <1>3, <2>1
    <3>2. since \in 0..Period /\ ticks \in 0..MaxTicks
      BY <1>1, <2>1 DEF Period
    <3> QED
      BY <1>1, <1>2, <2>2, <3>1, <3>2 DEF Basic
<1>5. Good(<<>>, <<>>)
  <2>1. Len(<<>>) = 0 /\ <<>> \in Seq(Unit) /\ buf \o wire = <<>> /\ <<>> \in [1..0 -> (1..0) \ {}]
    BY <1>1
  <2>2. Placed(sent, refused, buf \o wire, <<>>)
    BY <2>1 DEF Placed
  <2>3. Returned(sent, refused, got, <<>>, <<>>)
    BY <1>1, <1>2, <2>1 DEF Returned
  <2>4. Tabled(sent, partial, expired, <<>>, writer = "broken")
    BY <1>2 DEF Tabled
  <2>5. Ended(sent, <<>>) /\ Accounted(sent, refused, expired, <<>>, got, <<>>)
    BY <1>2 DEF Ended, Accounted
  <2> QED
    BY <2>2, <2>3, <2>4, <2>5 DEF Good
<1> QED
  BY <1>4, <1>5 DEF CodecInv

\* Every step keeps it.
LEMMA StepInv ==
    ASSUME CodecInv, [Next]_vars
    PROVE  CodecInv'
<1>1. /\ wire \in Seq(AnyFrame) /\ buf \in Seq(AnyFrame) /\ writer \in {"open", "closed", "broken"}
      /\ reader \in {"decode", "read", "eof", "end", "error"}
  BY DEF CodecInv, Basic
<1>2. ASSUME NEW m \in Messages, EncodeComplete(m) PROVE CodecInv'
  BY <1>2, EncodeCompleteInv
<1>3. ASSUME NEW m \in Messages, EncodeFragments(m) PROVE CodecInv'
  BY <1>3, EncodeFragmentsInv
<1>4. CASE WriterCloses
  <2>1. /\ writer' = "closed" /\ writer = "open"
        /\ UNCHANGED <<sent, refused, nextId, wire, torn, buf, reader, partial, since, expired,
                       ticks, got>>
    BY <1>4 DEF WriterCloses, tableVars
  <2> QED
    BY <1>1, <2>1, SameInv
<1>5. CASE WriterBreaks
  BY <1>5, BreaksInv
<1>6. CASE FramedDecode
  <2>1. PICK some \in BOOLEAN : Decode(some) /\ reader' = IF some THEN "decode" ELSE "read"
    BY <1>6 DEF FramedDecode
  <2>2. CleanupDone /\ UNCHANGED <<sent, refused, nextId, writer, wire, torn, ticks>>
    BY <1>6 DEF FramedDecode, writerVars
  <2>3. reader' \in {"decode", "read", "eof", "end", "error"}
    BY <2>1
  <2> QED
    BY <2>1, <2>2, <2>3, DecodeInv
<1>7. CASE FramedDecodeEof
  <2>1. PICK some \in BOOLEAN :
           /\ Decode(some)
           /\ reader' = IF some THEN "eof" ELSE IF buf' # <<>> \/ torn THEN "error" ELSE "end"
    BY <1>7 DEF FramedDecodeEof
  <2>2. CleanupDone /\ UNCHANGED <<sent, refused, nextId, writer, wire, torn, ticks>>
    BY <1>7 DEF FramedDecodeEof, writerVars
  <2>3. reader' \in {"decode", "read", "eof", "end", "error"}
    BY <2>1
  <2> QED
    BY <2>1, <2>2, <2>3, DecodeInv
<1>8. CASE FramedRead
  BY <1>8, ReadInv
<1>9. CASE FramedReadEof
  <2>1. /\ reader' = "eof"
        /\ UNCHANGED <<sent, refused, nextId, writer, wire, torn, buf, partial, since, expired,
                       ticks, got>>
    BY <1>9 DEF FramedReadEof, writerVars, tableVars
  <2> QED
    BY <1>1, <2>1, SameInv
<1>10. CASE Tick
  BY <1>10, TickInv
<1>11. CASE UNCHANGED vars
  <2>1. UNCHANGED <<sent, refused, nextId, writer, wire, torn, buf, reader, partial, since, expired,
                    ticks, got>>
    BY <1>11 DEF vars, writerVars, tableVars
  <2> QED
    BY <1>1, <2>1, SameInv
<1> QED
  BY <1>2, <1>3, <1>4, <1>5, <1>6, <1>7, <1>8, <1>9, <1>10, <1>11 DEF Next

\* The frames on their way are those of the messages that were sent, in their order;
\* the table holds what came before them, all of it but for what was cleaned up; and
\* every message is accounted for as long as the stream is not broken.
THEOREM CodecInvariant == Spec => []CodecInv
<1>1. CodecInv /\ [Next]_vars => CodecInv'
  BY StepInv
<1> QED
  BY InitInv, <1>1, PTL DEF Spec

\* The types follow: the frames are those of messages.
LEMMA InvType == CodecInv => TypeOK
<1> SUFFICES ASSUME CodecInv PROVE TypeOK
  OBVIOUS
<1>1. /\ sent \in Seq(Messages) /\ Len(sent) <= MaxSent /\ nextId = Id(sent, Len(sent)) + 1
      /\ buf \in Seq(AnyFrame) /\ wire \in Seq(AnyFrame) /\ ticks \in 0..MaxTicks
      /\ MaxSent \in Nat /\ MaxTicks \in Nat /\ Len(sent) \in Nat
      /\ \A id \in DOMAIN partial : partial[id].age \in 0..ticks
  BY CodecAssumption DEF CodecInv, Basic
<1>2. PICK w, f : Good(w, f)
  BY DEF CodecInv
<1>3. Id(sent, Len(sent)) \in Nat /\ Id(sent, Len(sent)) <= Len(sent)
  <2>1. Len(sent) \in 0..Len(sent)
    BY <1>1
  <2> QED
    BY <1>1, <2>1, Ids
<1>4. nextId \in 1..(MaxSent + 1) /\ nextId - 1 = Id(sent, Len(sent))
  BY <1>1, <1>3
<1>5. PICK b : b = (writer = "broken")
  OBVIOUS
<1>6. Tabled(sent, partial, expired, w, b)
  BY <1>2, <1>5 DEF Good
<1>7. DOMAIN partial \subseteq 1..(nextId - 1)
  BY <1>1, <1>4, <1>6, TabledIds
<1>8. ASSUME NEW id \in DOMAIN partial
      PROVE  partial[id].age \in 0..MaxTicks /\ DOMAIN partial[id].parts \subseteq 1..partial[id].total
  <2>1. PICK n \in 1..Len(sent) : Entry(sent, partial[id], n)
    BY <1>6 DEF Tabled
  <2>2. partial[id] = [age |-> partial[id].age, total |-> Total(sent, n), parts |-> partial[id].parts]
    BY <2>1 DEF Entry
  <2>3. [age |-> partial[id].age, total |-> Total(sent, n), parts |-> partial[id].parts].total
          = Total(sent, n)
    OBVIOUS
  <2>4. partial[id].total = Total(sent, n)
    BY <2>2, <2>3
  <2>5. partial[id].age \in 0..MaxTicks
    BY <1>1
  <2> QED
    BY <2>1, <2>4, <2>5 DEF Entry
<1>9. ASSUME NEW fr \in AnyFrame, NEW k \in 1..Len(buf \o wire), fr = (buf \o wire)[k]
      PROVE  /\ fr.kind \in {"complete", "fragment"} /\ fr.data \in Seq(AllBytes)
             /\ fr.kind = "fragment" => fr.id < nextId /\ fr.index \in 1..fr.total
  <2>1. fr.kind \in {"complete", "fragment"} /\ fr.data \in Seq(AllBytes)
    BY DEF AnyFrame
  <2>2. Placed(sent, refused, buf \o wire, w)
    BY <1>2 DEF Good
  <2>3. PICK n, i : n = w[k].n /\ i = w[k].i
    OBVIOUS
  <2>4. n \in 1..Len(sent) /\ i \in 1..Count(sent, n) /\ fr = Frame(sent, n, i)
    BY <1>9, <2>2, <2>3 DEF Placed
  <2>5. ASSUME fr.kind = "fragment" PROVE fr.id < nextId /\ fr.index \in 1..fr.total
    <3>1. Long(sent, n)
      BY <2>4, <2>5 DEF Frame, Complete
    <3>2. fr.id = Id(sent, n) /\ fr.index = i /\ fr.total = Total(sent, n)
          /\ Count(sent, n) = Total(sent, n)
      BY <2>4, <3>1 DEF Frame, Fragment, Count
    <3>3. Id(sent, n) \in 1..Id(sent, Len(sent))
      BY <1>1, <2>4, <3>1, Ids
    <3> QED
      BY <1>1, <1>3, <2>4, <3>2, <3>3
  <2> QED
    BY <2>1, <2>5
<1>10. ASSUME NEW s \in {wire, buf}, NEW j \in DOMAIN s
       PROVE  /\ s[j].kind \in {"complete", "fragment"} /\ s[j].data \in Seq(AllBytes)
              /\ s[j].kind = "fragment" => s[j].id < nextId /\ s[j].index \in 1..s[j].total
  <2>1. \E k \in 1..Len(buf \o wire) : s[j] = (buf \o wire)[k]
    <3>1. /\ Len(buf \o wire) = Len(buf) + Len(wire) /\ Len(buf) \in Nat /\ Len(wire) \in Nat
          /\ \A k \in 1..Len(buf) : (buf \o wire)[k] = buf[k]
          /\ \A k \in (Len(buf) + 1)..(Len(buf) + Len(wire)) : (buf \o wire)[k] = wire[k - Len(buf)]
      BY <1>1, Joined
    <3>2. CASE s = buf
      <4>1. j \in 1..Len(buf) /\ j \in 1..Len(buf \o wire)
        BY <1>1, <3>1, <3>2
      <4> QED
        BY <3>1, <3>2, <4>1
    <3>3. CASE s = wire
      <4>1. j \in 1..Len(wire)
        BY <1>1, <3>3
      <4>2. /\ Len(buf) + j \in (Len(buf) + 1)..(Len(buf) + Len(wire))
            /\ Len(buf) + j \in 1..Len(buf \o wire) /\ (Len(buf) + j) - Len(buf) = j
        BY <3>1, <4>1
      <4> QED
        BY <3>1, <3>3, <4>2
    <3> QED
      BY <3>2, <3>3
  <2>2. s[j] \in AnyFrame
    BY <1>1
  <2> QED
    BY <1>9, <2>1, <2>2
<1> QED
  BY <1>1, <1>4, <1>7, <1>8, <1>10 DEF CodecInv, Basic, TypeOK

\* What decode returns are messages that were encoded, whole, in their order and none
\* twice, for messages and fragments of any size, however the stream is read, whatever
\* is cleaned up and wherever it breaks.
THEOREM DecodedWasEncodedHolds == Spec => []DecodedWasEncoded
<1>1. CodecInv => DecodedWasEncoded
  <2> SUFFICES ASSUME CodecInv PROVE DecodedWasEncoded
    OBVIOUS
  <2>1. PICK w, f : Good(w, f)
    BY DEF CodecInv
  <2>2. /\ f \in [1..Len(got) -> (1..Len(sent)) \ refused]
        /\ \A i \in 1..Len(got) : got[i] = Whole(sent, f[i])
        /\ \A i, j \in 1..Len(got) : i < j => f[i] < f[j]
    BY <2>1 DEF Good, Returned
  <2>3. f \in [1..Len(got) -> 1..Len(sent)]
    BY <2>2
  <2>4. \A i \in 1..Len(got) : got[i] = Bytes(f[i]) /\ f[i] \notin refused
    BY <2>2 DEF Whole, Bytes
  <2> QED
    BY <2>2, <2>3, <2>4 DEF DecodedWasEncoded
<1> QED
  BY CodecInvariant, <1>1, PTL

\* A message that was not refused is lost only to the clean-up, and the table holds one
\* message that can be completed at most.
THEOREM LostOnlyByExpiryHolds == Spec => []LostOnlyByExpiry
<1>1. CodecInv => LostOnlyByExpiry
  <2> SUFFICES ASSUME CodecInv PROVE LostOnlyByExpiry
    OBVIOUS
  <2>1. PICK w, f : Good(w, f)
    BY DEF CodecInv
  <2>2. TableHoldsOne
    <3> DEFINE S == {id \in DOMAIN partial : id \notin expired}
    <3>1. PICK b : Tabled(sent, partial, expired, w, b)
      BY <2>1 DEF Good
    <3>2. \A id \in DOMAIN partial : ~IsComplete(partial[id])
      BY <3>1 DEF Tabled
    <3>3. \A id, jd \in S : id = jd
      BY <3>1 DEF Tabled
    <3> HIDE DEF S
    <3>4. S = {} \/ \E x : S = {x}
      BY <3>3
    <3>5. Cardinality(S) <= 1
      <4>1. CASE S = {}
        BY <4>1, FS_EmptySet
      <4>2. ASSUME NEW x, S = {x} PROVE Cardinality(S) <= 1
        <5>1. Cardinality({x}) = 1
          BY FS_Singleton
        <5> QED
          BY <4>2, <5>1
      <4> QED
        BY <3>4, <4>1, <4>2
    <3> QED
      BY <3>2, <3>5 DEF TableHoldsOne, S
  <2>3. ASSUME NEW n \in 1..Len(sent), writer # "broken", wire = <<>>, buf = <<>>
        PROVE  Resolved(n)
    <3>1. Len(w) = 0
      <4>1. Len(w) = Len(buf \o wire)
        BY <2>1 DEF Good, Placed
      <4> QED
        BY <2>3, <4>1
    <3>2. \/ \E i \in 1..Len(got) : f[i] = n
          \/ n \in refused
          \/ Long(sent, n) /\ Id(sent, n) \in expired
      BY <2>1, <2>3, <3>1 DEF Good, Accounted
    <3>3. \A i \in 1..Len(got) : f[i] = n => got[i] = Bytes(n)
      BY <2>1 DEF Good, Returned, Whole, Bytes
    <3>4. n \in refused => ~IsLong(n)
      BY DEF CodecInv, Basic, Long, IsLong
    <3>5. Long(sent, n) /\ Id(sent, n) \in expired => IsLong(n) /\ IdOf(n) \in expired
      BY DEF Long, Longs, Id, IsLong, IdOf
    <3>6. CASE \E i \in 1..Len(got) : f[i] = n
      <4>1. PICK i \in 1..Len(got) : f[i] = n
        BY <3>6
      <4>2. got[i] = Bytes(n)
        BY <4>1, <3>3
      <4> QED
        BY <4>1, <4>2 DEF Resolved
    <3>7. CASE n \in refused
      BY <3>7, <3>4 DEF Resolved
    <3>8. CASE Long(sent, n) /\ Id(sent, n) \in expired
      BY <3>8, <3>5 DEF Resolved
    <3> QED
      BY <3>2, <3>6, <3>7, <3>8
  <2> QED
    BY <2>2, <2>3, InvType DEF LostOnlyByExpiry
<1> QED
  BY CodecInvariant, <1>1, PTL

=============================================================================
