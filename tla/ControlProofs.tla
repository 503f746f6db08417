---------------------------- MODULE ControlProofs ---------------------------
(***************************************************************************)
(* The proofs that control clients get the output of the panes as Control  *)
(* says, for any clients, panes and sessions and any amount of output.     *)
(***************************************************************************)
EXTENDS Control, TailQueueProofs

(* Removing one element of a queue. *)
LEMMA RemoveAtFacts ==
    ASSUME NEW S, NEW s \in Seq(S), NEW i \in 1 .. Len(s)
    PROVE  /\ RemoveAt(s, i) \in Seq(S)
           /\ Len(RemoveAt(s, i)) = Len(s) - 1
           /\ \A k \in 1 .. i - 1 : RemoveAt(s, i)[k] = s[k]
           /\ \A k \in i .. Len(s) - 1 : RemoveAt(s, i)[k] = s[k + 1]
<1> DEFINE a == SubSeq(s, 1, i - 1)
           b == SubSeq(s, i + 1, Len(s))
           t == a \o b
<1>1. /\ a \in Seq(S) /\ Len(a) = i - 1 /\ \A k \in 1 .. i - 1 : a[k] = s[k]
      /\ b \in Seq(S) /\ Len(b) = Len(s) - i
      /\ \A k \in 1 .. Len(s) - i : b[k] = s[i + k]
      /\ Len(s) \in Nat /\ i \in Nat
  OBVIOUS
<1> HIDE DEF a, b
<1>2. t \in Seq(S) /\ Len(t) = Len(a) + Len(b)
  BY <1>1, ConcatProperties
<1>3. Len(t) = Len(s) - 1
  BY <1>1, <1>2
<1>4. ASSUME NEW k \in 1 .. i - 1 PROVE t[k] = s[k]
  <2>1. t[k] = a[k]
    BY <1>1
  <2> QED
    BY <1>1, <2>1
<1>5. ASSUME NEW k \in i .. Len(s) - 1 PROVE t[k] = s[k + 1]
  <2>1. k - (i - 1) \in 1 .. Len(s) - i /\ i + (k - (i - 1)) = k + 1 /\ k > Len(a)
        /\ k \in 1 .. Len(a) + Len(b) /\ k - Len(a) = k - (i - 1)
    BY <1>1
  <2>2. t[k] = b[k - (i - 1)]
    BY <1>1, <2>1
  <2>3. b[k - (i - 1)] = s[i + (k - (i - 1))]
    BY <1>1, <2>1
  <2> QED
    BY <2>1, <2>2, <2>3
<1>6. RemoveAt(s, i) = t
  BY DEF RemoveAt, a, b
<1> HIDE DEF t
<1> QED
  BY <1>2, <1>3, <1>4, <1>5, <1>6

-----------------------------------------------------------------------------
(* How many bytes of a pane are ahead of a place in a queue of blocks.      *)

Blocks == Seq(Block)

(* What one block adds. *)
Adds(b, p) == IF b.of = p THEN b.size ELSE 0

(* The fields of a block have their types. *)
LEMMA BlockFacts ==
    ASSUME NEW s \in Blocks, NEW k \in 1 .. Len(s)
    PROVE  /\ s[k] \in Block /\ s[k].size \in Nat /\ s[k].of \in Pane \cup {Line}
           /\ s[k].after \in [Pane -> Nat]
           /\ \A p : Adds(s[k], p) \in Nat
<1>1. s[k] \in Block
  BY DEF Blocks
<1> QED
  BY <1>1 DEF Block, Position, Adds

(* The recursion by which Ahead is defined. *)
LEMMA AheadStep ==
    ASSUME NEW s \in Blocks, NEW p
    PROVE  /\ Ahead(s, p, 0) = 0
           /\ \A n \in 1 .. Len(s) : Ahead(s, p, n) = Ahead(s, p, n - 1) + Adds(s[n], p)
<1> DEFINE L == Len(s)
           Upto(N, f) == f = [n \in 0 .. N |-> IF n = 0 THEN 0
                                              ELSE f[n - 1] + Adds(s[n], p)]
           sum == CHOOSE f : Upto(L, f)
<1>1. L \in Nat
  BY DEF Blocks
<1>2. \A n : Ahead(s, p, n) = sum[n]
  BY DEF Ahead, Adds
<1>3. \E f : Upto(L, f)
  <2> DEFINE P == {n \in 0 .. L : \E f : Upto(n, f)}
  <2>1. 0 \in P
    <3> DEFINE f == [n \in 0 .. 0 |-> 0]
    <3>1. f = [n \in 0 .. 0 |-> IF n = 0 THEN 0 ELSE f[n - 1] + Adds(s[n], p)]
      <4>1. \A n \in 0 .. 0 : n = 0
        OBVIOUS
      <4> QED
        BY <4>1
    <3>2. \E g : Upto(0, g)
      BY <3>1
    <3> QED
      BY <3>2, <1>1
  <2>2. ASSUME NEW n \in 0 .. L, n + 1 \in 0 .. L, n \in P
        PROVE  n + 1 \in P
    <3>1. PICK f : Upto(n, f)
      BY <2>2
    <3> DEFINE g == [k \in 0 .. n + 1 |-> IF k <= n THEN f[k]
                                         ELSE f[n] + Adds(s[n + 1], p)]
    <3>2. \A k \in 0 .. n : g[k] = f[k]
      BY <1>1
    <3>3. g[n + 1] = f[n] + Adds(s[n + 1], p)
      BY <1>1
    <3>4. \A k \in 0 .. n + 1 : g[k] = IF k = 0 THEN 0 ELSE g[k - 1] + Adds(s[k], p)
      <4> SUFFICES ASSUME NEW k \in 0 .. n + 1
                   PROVE  g[k] = IF k = 0 THEN 0 ELSE g[k - 1] + Adds(s[k], p)
        OBVIOUS
      <4>1. CASE k = n + 1
        <5>1. g[k - 1] = f[n] /\ k # 0
          BY <3>2, <4>1, <1>1
        <5> HIDE DEF g
        <5> QED
          BY <3>3, <4>1, <5>1, <1>1
      <4>2. CASE k # n + 1
        <5>1. g[k] = f[k] /\ k \in 0 .. n /\ (k # 0 => g[k - 1] = f[k - 1])
          BY <3>2, <4>2, <1>1
        <5>2. f[k] = IF k = 0 THEN 0 ELSE f[k - 1] + Adds(s[k], p)
          BY <3>1, <5>1
        <5> HIDE DEF g
        <5> QED
          BY <5>1, <5>2
      <4> QED
        BY <4>1, <4>2
    <3>5. Upto(n + 1, g)
      <4>1. g = [k \in 0 .. n + 1 |-> g[k]]
        OBVIOUS
      <4> HIDE DEF g
      <4> QED
        BY <3>4, <4>1
    <3> QED
      BY <3>5, <2>2
  <2>3. 0 .. L \subseteq P
    <3> HIDE DEF P
    <3> QED
      BY <2>1, <2>2, <1>1, UpTo
  <2>4. L \in P
    <3>1. L \in 0 .. L
      BY <1>1
    <3> HIDE DEF P
    <3> QED
      BY <2>3, <3>1
  <2> QED
    BY <2>4
<1>4. Upto(L, sum)
  BY <1>3
<1> HIDE DEF sum
<1>5. \A n \in 0 .. L : sum[n] = IF n = 0 THEN 0 ELSE sum[n - 1] + Adds(s[n], p)
  BY <1>4
<1> HIDE DEF Upto
<1>6. 0 \in 0 .. L /\ \A n \in 1 .. L : n \in 0 .. L /\ n # 0
  BY <1>1
<1>7. sum[0] = 0 /\ \A n \in 1 .. L : sum[n] = sum[n - 1] + Adds(s[n], p)
  BY <1>5, <1>6
<1> QED
  BY <1>2, <1>7

(* One more block adds what it stands for. *)
LEMMA AheadNext ==
    ASSUME NEW s \in Blocks, NEW p, NEW n \in 1 .. Len(s)
    PROVE  Ahead(s, p, n) = Ahead(s, p, n - 1) + Adds(s[n], p)
BY AheadStep

(* Blocks stand for a natural number of bytes. *)
LEMMA AheadNat ==
    ASSUME NEW s \in Blocks, NEW p, NEW n \in 0 .. Len(s)
    PROVE  Ahead(s, p, n) \in Nat
<1> DEFINE P == {k \in 0 .. Len(s) : Ahead(s, p, k) \in Nat}
<1>0. Len(s) \in Nat
  BY DEF Blocks
<1>1. 0 \in P
  BY <1>0, AheadStep
<1>2. ASSUME NEW k \in 0 .. Len(s), k + 1 \in 0 .. Len(s), k \in P
      PROVE  k + 1 \in P
  <2>1. k + 1 \in 1 .. Len(s) /\ k + 1 - 1 = k
    BY <1>0, <1>2
  <2>2. Ahead(s, p, k + 1) = Ahead(s, p, k) + Adds(s[k + 1], p)
    BY <2>1, AheadNext
  <2>3. Adds(s[k + 1], p) \in Nat
    BY <2>1, BlockFacts
  <2> QED
    BY <1>2, <2>2, <2>3
<1> HIDE DEF P
<1>3. 0 .. Len(s) \subseteq P
  BY <1>0, <1>1, <1>2, UpTo
<1> QED
  BY <1>3 DEF P

(* N blocks of s and of t, behind a and behind b blocks, add the same; there *)
(* is as much in them.                                                       *)
Agree(s, a, t, b, N, p) == \A k \in 1 .. N : Adds(s[a + k], p) = Adds(t[b + k], p)
Even(s, a, t, b, N, p) ==
    \A k \in 0 .. N :
        Ahead(s, p, a + k) = Ahead(s, p, a) + Ahead(t, p, b + k) - Ahead(t, p, b)

(* Two queues that agree on N blocks have the same bytes in them. *)
LEMMA AheadShift ==
    ASSUME NEW s \in Blocks, NEW t \in Blocks, NEW p, NEW a \in Nat, NEW b \in Nat,
           NEW N \in Nat, a + N <= Len(s), b + N <= Len(t),
           Agree(s, a, t, b, N, p)
    PROVE  Even(s, a, t, b, N, p)
<1> DEFINE P == {k \in 0 .. N : Ahead(s, p, a + k) =
                   Ahead(s, p, a) + Ahead(t, p, b + k) - Ahead(t, p, b)}
<1>0. Len(s) \in Nat /\ Len(t) \in Nat
  BY DEF Blocks
<1>a. /\ \A k \in 0 .. N : a + k \in 0 .. Len(s) /\ b + k \in 0 .. Len(t)
      /\ a \in 0 .. Len(s) /\ b \in 0 .. Len(t)
  BY <1>0
<1>n. /\ \A k \in 0 .. N : Ahead(s, p, a + k) \in Nat /\ Ahead(t, p, b + k) \in Nat
      /\ Ahead(s, p, a) \in Nat /\ Ahead(t, p, b) \in Nat
  BY <1>a, AheadNat
<1>1. 0 \in P
  <2>1. a + 0 = a /\ b + 0 = b /\ 0 \in 0 .. N
    OBVIOUS
  <2> QED
    BY <2>1, <1>n
<1>2. ASSUME NEW k \in 0 .. N, k + 1 \in 0 .. N, k \in P
      PROVE  k + 1 \in P
  <2>1. /\ a + (k + 1) \in 1 .. Len(s) /\ a + (k + 1) - 1 = a + k
        /\ b + (k + 1) \in 1 .. Len(t) /\ b + (k + 1) - 1 = b + k
        /\ k + 1 \in 1 .. N
    BY <1>0, <1>2
  <2>2. Ahead(s, p, a + (k + 1)) = Ahead(s, p, a + k) + Adds(s[a + (k + 1)], p)
    BY <2>1, AheadNext
  <2>3. Ahead(t, p, b + (k + 1)) = Ahead(t, p, b + k) + Adds(t[b + (k + 1)], p)
    BY <2>1, AheadNext
  <2>4. Adds(s[a + (k + 1)], p) = Adds(t[b + (k + 1)], p)
    BY <2>1 DEF Agree
  <2>5. Adds(t[b + (k + 1)], p) \in Nat
    BY <2>1, BlockFacts
  <2>6. Ahead(s, p, a + k) = Ahead(s, p, a) + Ahead(t, p, b + k) - Ahead(t, p, b)
    BY <1>2
  <2>7. /\ Ahead(s, p, a + k) \in Nat /\ Ahead(t, p, b + k) \in Nat
        /\ Ahead(s, p, a) \in Nat /\ Ahead(t, p, b) \in Nat
    BY <1>2, <1>n
  <2> DEFINE s1 == Ahead(s, p, a + (k + 1))
             s0 == Ahead(s, p, a + k)
             t1 == Ahead(t, p, b + (k + 1))
             t0 == Ahead(t, p, b + k)
             x == Adds(s[a + (k + 1)], p)
             y == Adds(t[b + (k + 1)], p)
             sa == Ahead(s, p, a)
             tb == Ahead(t, p, b)
  <2>9. /\ s1 = s0 + x /\ t1 = t0 + y /\ x = y /\ y \in Nat
        /\ s0 = sa + t0 - tb
        /\ s0 \in Nat /\ t0 \in Nat /\ sa \in Nat /\ tb \in Nat
    BY <2>2, <2>3, <2>4, <2>5, <2>6, <2>7
  <2> HIDE DEF P, s1, s0, t1, t0, x, y, sa, tb
  <2>10. s1 = sa + t1 - tb
    BY <2>9
  <2>8. Ahead(s, p, a + (k + 1)) = Ahead(s, p, a) + Ahead(t, p, b + (k + 1)) - Ahead(t, p, b)
    BY <2>10 DEF s1, sa, t1, tb
  <2> QED
    BY <1>2, <2>8 DEF P
<1> HIDE DEF P
<1>3. 0 .. N \subseteq P
  BY <1>1, <1>2, UpTo
<1> QED
  BY <1>3 DEF P, Even

(* Bytes only add up. *)
LEMMA AheadGrows ==
    ASSUME NEW s \in Blocks, NEW p, NEW m \in 0 .. Len(s), NEW n \in 0 .. Len(s), m <= n
    PROVE  Ahead(s, p, m) <= Ahead(s, p, n)
<1> DEFINE N == Len(s) - m
           P == {k \in 0 .. N : Ahead(s, p, m) <= Ahead(s, p, m + k)}
<1>0. Len(s) \in Nat /\ N \in Nat
  BY DEF Blocks
<1>1. 0 \in P
  <2>1. m + 0 = m /\ 0 \in 0 .. N /\ Ahead(s, p, m) \in Nat
    BY <1>0, AheadNat
  <2> QED
    BY <2>1
<1>2. ASSUME NEW k \in 0 .. N, k + 1 \in 0 .. N, k \in P
      PROVE  k + 1 \in P
  <2>1. m + (k + 1) \in 1 .. Len(s) /\ m + (k + 1) - 1 = m + k /\ m + k \in 0 .. Len(s)
    BY <1>0, <1>2
  <2>2. Ahead(s, p, m + (k + 1)) = Ahead(s, p, m + k) + Adds(s[m + (k + 1)], p)
    BY <2>1, AheadNext
  <2>3. Adds(s[m + (k + 1)], p) \in Nat
    BY <2>1, BlockFacts
  <2>4. Ahead(s, p, m) \in Nat /\ Ahead(s, p, m + k) \in Nat
    BY <2>1, AheadNat
  <2>5. Ahead(s, p, m) <= Ahead(s, p, m + k)
    BY <1>2
  <2> HIDE DEF N
  <2> QED
    BY <1>2, <2>2, <2>3, <2>4, <2>5
<1>3. 0 .. N \subseteq P
  <2> HIDE DEF P, N
  <2> QED
    BY <1>0, <1>1, <1>2, UpTo
<1>4. n - m \in 0 .. N /\ m + (n - m) = n
  BY <1>0
<1> QED
  BY <1>3, <1>4

(* Blocks that have nothing of a pane. *)
LEMMA AheadNone ==
    ASSUME NEW s \in Blocks, NEW p, NEW N \in 0 .. Len(s),
           \A k \in 1 .. N : s[k].of # p
    PROVE  \A k \in 0 .. N : Ahead(s, p, k) = 0
<1> DEFINE P == {k \in 0 .. N : Ahead(s, p, k) = 0}
<1>0. Len(s) \in Nat /\ N \in Nat
  BY DEF Blocks
<1>1. 0 \in P
  BY <1>0, AheadStep
<1>2. ASSUME NEW k \in 0 .. N, k + 1 \in 0 .. N, k \in P
      PROVE  k + 1 \in P
  <2>1. k + 1 \in 1 .. Len(s) /\ k + 1 - 1 = k /\ k + 1 \in 1 .. N
    BY <1>0, <1>2
  <2>2. Ahead(s, p, k + 1) = Ahead(s, p, k) + Adds(s[k + 1], p)
    BY <2>1, AheadNext
  <2>3. Adds(s[k + 1], p) = 0
    BY <2>1 DEF Adds
  <2> QED
    BY <1>2, <2>2, <2>3
<1> HIDE DEF P
<1>3. 0 .. N \subseteq P
  BY <1>0, <1>1, <1>2, UpTo
<1> QED
  BY <1>3 DEF P

(* Queues that begin alike have as much ahead in their beginnings. *)
LEMMA AheadPrefix ==
    ASSUME NEW s \in Blocks, NEW t \in Blocks, NEW p,
           NEW N \in Nat, N <= Len(s), N <= Len(t),
           \A k \in 1 .. N : Adds(s[k], p) = Adds(t[k], p)
    PROVE  \A k \in 0 .. N : Ahead(s, p, k) = Ahead(t, p, k)
<1>1. \A k \in 1 .. N : Adds(s[0 + k], p) = Adds(t[0 + k], p)
  OBVIOUS
<1>2. \A k \in 0 .. N :
        Ahead(s, p, 0 + k) = Ahead(s, p, 0) + Ahead(t, p, 0 + k) - Ahead(t, p, 0)
  <2>1. 0 \in Nat /\ 0 + N <= Len(s) /\ 0 + N <= Len(t)
    OBVIOUS
  <2>2. Agree(s, 0, t, 0, N, p)
    BY <1>1 DEF Agree
  <2>3. Even(s, 0, t, 0, N, p)
    BY <2>1, <2>2, AheadShift
  <2> QED
    BY <2>3 DEF Even
<1>3. Ahead(s, p, 0) = 0 /\ Ahead(t, p, 0) = 0
  BY AheadStep
<1>4. \A k \in 0 .. N : 0 + k = k /\ k \in 0 .. Len(t)
  BY DEF Blocks
<1> QED
  <2> TAKE k \in 0 .. N
  <2>1. Ahead(t, p, k) \in Nat
    BY <1>4, AheadNat
  <2>2. Ahead(s, p, k) = 0 + Ahead(t, p, k) - 0
    BY <1>2, <1>3, <1>4
  <2> QED
    BY <2>1, <2>2

(* The blocks t are what is left of s when n bytes of p are taken from it and *)
(* blocks that stand for none of p go.                                        *)
Left(s, t, p, n) ==
    /\ (\E k \in DOMAIN t : t[k].of = p) => \E k \in DOMAIN s : s[k].of = p
    /\ \A k \in 1 .. Len(t) : \E j \in 1 .. Len(s) :
          t[k].after = s[j].after /\ Ahead(s, p, j - 1) <= n + Ahead(t, p, k - 1)
    /\ Ahead(s, p, Len(s)) = n + Ahead(t, p, Len(t))

(* The blocks behind the first d, none of which is of p. *)
LEMMA LeftTail ==
    ASSUME NEW s \in Blocks, NEW p, NEW d \in 0 .. Len(s),
           \A k \in 1 .. d : s[k].of # p
    PROVE  /\ SubSeq(s, d + 1, Len(s)) \in Blocks
           /\ Left(s, SubSeq(s, d + 1, Len(s)), p, 0)
<1> DEFINE t == SubSeq(s, d + 1, Len(s))
           N == Len(s) - d
<1>1. /\ t \in Blocks /\ Len(t) = N /\ \A k \in 1 .. N : t[k] = s[d + k]
      /\ N \in Nat /\ Len(s) \in Nat /\ d \in Nat /\ d + N = Len(s)
      /\ DOMAIN s = 1 .. Len(s) /\ DOMAIN t = 1 .. N
  BY DEF Blocks
<1> HIDE DEF t
<1>2. \A k \in 0 .. N : Ahead(s, p, d + k) = Ahead(s, p, d) + Ahead(t, p, 0 + k) - Ahead(t, p, 0)
  <2>1. 0 \in Nat /\ d + N <= Len(s) /\ 0 + N <= Len(t)
    BY <1>1
  <2>2. Agree(s, d, t, 0, N, p)
    BY <1>1 DEF Agree
  <2> HIDE DEF N
  <2>3. Even(s, d, t, 0, N, p)
    BY <1>1, <2>1, <2>2, AheadShift
  <2> QED
    BY <2>3 DEF Even
<1>3. Ahead(s, p, d) = 0 /\ Ahead(t, p, 0) = 0
  <2>1. Ahead(s, p, d) = 0
    BY <1>1, AheadNone
  <2> QED
    BY <1>1, <2>1, AheadStep
<1>4. \A k \in 0 .. N : Ahead(s, p, d + k) = Ahead(t, p, k)
  <2> TAKE k \in 0 .. N
  <2>1. Ahead(t, p, k) \in Nat
    BY <1>1, AheadNat
  <2>2. 0 + k = k /\ Ahead(s, p, d + k) = 0 + Ahead(t, p, 0 + k) - 0
    BY <1>2, <1>3
  <2> QED
    BY <2>1, <2>2
<1> HIDE DEF N
<1>5. (\E k \in DOMAIN t : t[k].of = p) => \E k \in DOMAIN s : s[k].of = p
  <2> SUFFICES ASSUME NEW k \in DOMAIN t, t[k].of = p
               PROVE  \E j \in DOMAIN s : s[j].of = p
    OBVIOUS
  <2>1. d + k \in DOMAIN s /\ s[d + k].of = p
    BY <1>1
  <2> QED
    BY <2>1
<1>6. ASSUME NEW k \in 1 .. Len(t)
      PROVE  \E j \in 1 .. Len(s) :
               t[k].after = s[j].after /\ Ahead(s, p, j - 1) <= 0 + Ahead(t, p, k - 1)
  <2>1. d + k \in 1 .. Len(s) /\ k - 1 \in 0 .. N /\ d + k - 1 = d + (k - 1)
    BY <1>1
  <2>2. t[k] = s[d + k] /\ Ahead(s, p, d + k - 1) = Ahead(t, p, k - 1)
    BY <1>1, <1>4, <2>1
  <2>3. Ahead(t, p, k - 1) \in Nat
    BY <1>1, <2>1, AheadNat
  <2>4. Ahead(s, p, d + k - 1) <= 0 + Ahead(t, p, k - 1)
    BY <2>2, <2>3
  <2> QED
    BY <2>1, <2>2, <2>4
<1>7. Ahead(s, p, Len(s)) = 0 + Ahead(t, p, Len(t))
  <2>1. N \in 0 .. N /\ Ahead(t, p, N) \in Nat
    BY <1>1, AheadNat
  <2> QED
    BY <1>1, <1>4, <2>1
<1>8. Left(s, t, p, 0)
  BY <1>5, <1>6, <1>7 DEF Left
<1> QED
  BY <1>1, <1>8 DEF t

(* Taking block i away. *)
LEMMA LeftRemoved ==
    ASSUME NEW s \in Blocks, NEW p, NEW i \in 1 .. Len(s)
    PROVE  /\ RemoveAt(s, i) \in Blocks
           /\ Left(s, RemoveAt(s, i), p, Adds(s[i], p))
<1> DEFINE t == RemoveAt(s, i)
           n == Adds(s[i], p)
           N == Len(s) - i
<1>1. /\ t \in Blocks /\ Len(t) = Len(s) - 1
      /\ \A k \in 1 .. i - 1 : t[k] = s[k]
      /\ \A k \in i .. Len(s) - 1 : t[k] = s[k + 1]
  BY RemoveAtFacts DEF Blocks
<1>2. /\ N \in Nat /\ Len(s) \in Nat /\ i \in Nat /\ i + N = Len(s)
      /\ (i - 1) + N = Len(t) /\ i - 1 \in Nat
      /\ DOMAIN s = 1 .. Len(s) /\ DOMAIN t = 1 .. Len(t)
  BY <1>1 DEF Blocks
<1> HIDE DEF t
<1>3. \A k \in 0 .. i - 1 : Ahead(s, p, k) = Ahead(t, p, k)
  <2>1. i - 1 \in Nat /\ i - 1 <= Len(s) /\ i - 1 <= Len(t)
    BY <1>2
  <2>2. \A k \in 1 .. i - 1 : Adds(s[k], p) = Adds(t[k], p)
    BY <1>1
  <2> QED
    BY <1>1, <2>1, <2>2, AheadPrefix
<1>4. \A k \in 0 .. N :
        Ahead(s, p, i + k) = Ahead(s, p, i) + Ahead(t, p, (i - 1) + k) - Ahead(t, p, i - 1)
  <2>1. ASSUME NEW k \in 1 .. N
        PROVE  Adds(s[i + k], p) = Adds(t[(i - 1) + k], p)
    <3>1. (i - 1) + k \in i .. Len(s) - 1 /\ (i - 1) + k + 1 = i + k
      BY <1>2
    <3>2. t[(i - 1) + k] = s[i + k]
      BY <1>1, <3>1
    <3> QED
      BY <3>2
  <2>2. i + N <= Len(s) /\ (i - 1) + N <= Len(t)
    BY <1>2
  <2> DEFINE b == i - 1
  <2>3. b \in Nat /\ b + N <= Len(t) /\ Agree(s, i, t, b, N, p)
    BY <1>2, <2>1, <2>2 DEF Agree
  <2> HIDE DEF N, b
  <2>4. Even(s, i, t, b, N, p)
    BY <1>1, <1>2, <2>2, <2>3, AheadShift
  <2> QED
    BY <2>4 DEF b, Even
<1>5. n \in Nat /\ Ahead(s, p, i) = Ahead(s, p, i - 1) + n
  BY AheadNext, BlockFacts
<1>6. ASSUME NEW k \in 0 .. N
      PROVE  Ahead(s, p, i + k) = n + Ahead(t, p, (i - 1) + k)
  <2>1. i - 1 \in 0 .. Len(t) /\ (i - 1) + k \in 0 .. Len(t) /\ i - 1 \in 0 .. i - 1
    BY <1>2
  <2>2. Ahead(t, p, i - 1) \in Nat /\ Ahead(t, p, (i - 1) + k) \in Nat
    BY <1>1, <2>1, AheadNat
  <2>3. Ahead(s, p, i - 1) = Ahead(t, p, i - 1)
    BY <1>3, <2>1
  <2>4. Ahead(s, p, i + k) = Ahead(s, p, i) + Ahead(t, p, (i - 1) + k) - Ahead(t, p, i - 1)
    BY <1>4
  <2> DEFINE x == Ahead(s, p, i + k)
             y == Ahead(t, p, (i - 1) + k)
             z == Ahead(t, p, i - 1)
  <2>5. x = z + n + y - z /\ y \in Nat /\ z \in Nat
    BY <1>5, <2>2, <2>3, <2>4
  <2> HIDE DEF x, y, z, n, N
  <2>6. x = n + y
    BY <2>5, <1>5
  <2> QED
    BY <2>6 DEF x, y
<1> HIDE DEF N, n
<1>7. (\E k \in DOMAIN t : t[k].of = p) => \E k \in DOMAIN s : s[k].of = p
  <2> SUFFICES ASSUME NEW k \in DOMAIN t, t[k].of = p
               PROVE  \E j \in DOMAIN s : s[j].of = p
    OBVIOUS
  <2>1. CASE k <= i - 1
    <3>1. k \in DOMAIN s /\ t[k] = s[k]
      BY <1>1, <1>2, <2>1
    <3> QED
      BY <3>1
  <2>2. CASE k > i - 1
    <3>1. k + 1 \in DOMAIN s /\ t[k] = s[k + 1]
      BY <1>1, <1>2, <2>2
    <3> QED
      BY <3>1
  <2> QED
    BY <1>2, <2>1, <2>2
<1>8. ASSUME NEW k \in 1 .. Len(t)
      PROVE  \E j \in 1 .. Len(s) :
               t[k].after = s[j].after /\ Ahead(s, p, j - 1) <= n + Ahead(t, p, k - 1)
  <2>0. k - 1 \in 0 .. Len(t) /\ Ahead(t, p, k - 1) \in Nat
    BY <1>1, <1>2, AheadNat
  <2>1. CASE k <= i - 1
    <3>1. k \in 1 .. Len(s) /\ k - 1 \in 0 .. i - 1 /\ k \in 1 .. i - 1
      BY <1>2, <2>1
    <3>2. t[k] = s[k] /\ Ahead(s, p, k - 1) = Ahead(t, p, k - 1)
      BY <1>1, <1>3, <3>1
    <3>3. Ahead(s, p, k - 1) <= n + Ahead(t, p, k - 1)
      BY <1>5, <2>0, <3>2
    <3> QED
      BY <3>1, <3>2, <3>3
  <2>2. CASE k > i - 1
    <3>1. /\ k + 1 \in 1 .. Len(s) /\ k \in i .. Len(s) - 1 /\ k - i \in 0 .. N
          /\ i + (k - i) = k + 1 - 1 /\ (i - 1) + (k - i) = k - 1
      BY <1>1, <1>2, <2>2
    <3>2. t[k] = s[k + 1] /\ Ahead(s, p, k + 1 - 1) = n + Ahead(t, p, k - 1)
      BY <1>1, <1>6, <3>1
    <3>3. Ahead(s, p, k + 1 - 1) <= n + Ahead(t, p, k - 1)
      BY <1>5, <2>0, <3>2
    <3> QED
      BY <3>1, <3>2, <3>3
  <2> QED
    BY <1>2, <2>1, <2>2
<1>9. Ahead(s, p, Len(s)) = n + Ahead(t, p, Len(t))
  <2>1. N \in 0 .. N
    BY <1>2
  <2> QED
    BY <1>2, <1>6, <2>1
<1>10. Left(s, t, p, n)
  BY <1>7, <1>8, <1>9 DEF Left
<1> QED
  BY <1>1, <1>10 DEF t, n

(* Taking n bytes of block i. *)
LEMMA LeftSmaller ==
    ASSUME NEW s \in Blocks, NEW t \in Blocks, NEW p, NEW i \in 1 .. Len(s), NEW n \in Nat,
           Len(t) = Len(s), \A k \in 1 .. Len(s) : k # i => t[k] = s[k],
           t[i].of = s[i].of, t[i].after = s[i].after, s[i].size = t[i].size + n
    PROVE  Left(s, t, p, IF s[i].of = p THEN n ELSE 0)
<1> DEFINE m == IF s[i].of = p THEN n ELSE 0
           N == Len(s) - i
<1>1. /\ N \in Nat /\ Len(s) \in Nat /\ i \in Nat /\ i + N = Len(s) /\ i - 1 \in Nat
      /\ DOMAIN s = 1 .. Len(s) /\ DOMAIN t = 1 .. Len(s) /\ m \in Nat
  BY DEF Blocks
<1>2. Adds(s[i], p) = Adds(t[i], p) + m /\ Adds(t[i], p) \in Nat /\ Adds(s[i], p) \in Nat
  <2>1. Adds(t[i], p) \in Nat /\ Adds(s[i], p) \in Nat
    BY <1>1, BlockFacts
  <2>2. CASE s[i].of = p
    BY <2>1, <2>2 DEF Adds
  <2>3. CASE s[i].of # p
    BY <2>1, <2>3 DEF Adds
  <2> QED
    BY <2>1, <2>2, <2>3
<1>3. \A k \in 0 .. i - 1 : Ahead(s, p, k) = Ahead(t, p, k)
  <2>1. i - 1 <= Len(s) /\ i - 1 <= Len(t)
    BY <1>1
  <2>2. \A k \in 1 .. i - 1 : Adds(s[k], p) = Adds(t[k], p)
    BY <1>1
  <2> QED
    BY <1>1, <2>1, <2>2, AheadPrefix
<1>4. Even(s, i, t, i, N, p)
  <2>1. Agree(s, i, t, i, N, p)
    <3> SUFFICES ASSUME NEW k \in 1 .. N PROVE Adds(s[i + k], p) = Adds(t[i + k], p)
      BY DEF Agree
    <3>1. i + k \in 1 .. Len(s) /\ i + k # i
      BY <1>1
    <3> QED
      BY <3>1
  <2>2. i + N <= Len(s) /\ i + N <= Len(t)
    BY <1>1
  <2> HIDE DEF N
  <2> QED
    BY <1>1, <2>1, <2>2, AheadShift
<1>5. Ahead(s, p, i) = Ahead(t, p, i) + m
  <2>1. Ahead(s, p, i) = Ahead(s, p, i - 1) + Adds(s[i], p)
    BY AheadNext
  <2>2. Ahead(t, p, i) = Ahead(t, p, i - 1) + Adds(t[i], p)
    BY <1>1, AheadNext
  <2>3. Ahead(s, p, i - 1) = Ahead(t, p, i - 1) /\ Ahead(t, p, i - 1) \in Nat
    <3>1. i - 1 \in 0 .. i - 1 /\ i - 1 \in 0 .. Len(t)
      BY <1>1
    <3> QED
      BY <1>3, <3>1, AheadNat
  <2> HIDE DEF m
  <2> QED
    BY <1>1, <1>2, <2>1, <2>2, <2>3
<1>6. ASSUME NEW k \in 0 .. N
      PROVE  Ahead(s, p, i + k) = m + Ahead(t, p, i + k)
  <2>1. i \in 0 .. Len(t) /\ i + k \in 0 .. Len(t)
    BY <1>1
  <2>2. Ahead(t, p, i) \in Nat /\ Ahead(t, p, i + k) \in Nat
    BY <2>1, AheadNat
  <2>3. Ahead(s, p, i + k) = Ahead(s, p, i) + Ahead(t, p, i + k) - Ahead(t, p, i)
    BY <1>4 DEF Even
  <2> DEFINE x == Ahead(s, p, i + k)
             y == Ahead(t, p, i + k)
             z == Ahead(t, p, i)
  <2>4. x = (z + m) + y - z /\ y \in Nat /\ z \in Nat
    BY <1>5, <2>2, <2>3
  <2> HIDE DEF x, y, z, m, N
  <2>5. x = m + y
    BY <1>1, <2>4
  <2> QED
    BY <2>5 DEF x, y
<1> HIDE DEF N, m
<1>7. (\E k \in DOMAIN t : t[k].of = p) => \E k \in DOMAIN s : s[k].of = p
  BY <1>1
<1>8. ASSUME NEW k \in 1 .. Len(t)
      PROVE  \E j \in 1 .. Len(s) :
               t[k].after = s[j].after /\ Ahead(s, p, j - 1) <= m + Ahead(t, p, k - 1)
  <2>0. k \in 1 .. Len(s) /\ t[k].after = s[k].after /\ k - 1 \in 0 .. Len(t)
    BY <1>1
  <2>1. Ahead(t, p, k - 1) \in Nat
    BY <2>0, AheadNat
  <2>2. CASE k <= i
    <3>1. k - 1 \in 0 .. i - 1
      BY <1>1, <2>2
    <3>2. Ahead(s, p, k - 1) = Ahead(t, p, k - 1)
      BY <1>3, <3>1
    <3>3. Ahead(s, p, k - 1) <= m + Ahead(t, p, k - 1)
      BY <1>1, <2>1, <3>2
    <3> QED
      BY <2>0, <3>3
  <2>3. CASE k > i
    <3>1. k - 1 - i \in 0 .. N /\ i + (k - 1 - i) = k - 1
      BY <1>1, <2>3
    <3>2. Ahead(s, p, k - 1) = m + Ahead(t, p, k - 1)
      BY <1>6, <3>1
    <3>3. Ahead(s, p, k - 1) <= m + Ahead(t, p, k - 1)
      BY <1>1, <2>1, <3>2
    <3> QED
      BY <2>0, <3>3
  <2> QED
    BY <1>1, <2>2, <2>3
<1>9. Ahead(s, p, Len(s)) = m + Ahead(t, p, Len(t))
  <2>1. N \in 0 .. N
    BY <1>1
  <2> QED
    BY <1>1, <1>6, <2>1
<1>10. Left(s, t, p, m)
  BY <1>7, <1>8, <1>9 DEF Left
<1> QED
  BY <1>10 DEF m

(* t is s with a block e behind the others. *)
Appended(s, t, e) ==
    /\ Len(t) = Len(s) + 1
    /\ \A k \in 1 .. Len(s) : t[k] = s[k]
    /\ t[Len(s) + 1] = e

(* A block behind all others is appended. *)
LEMMA AppendIs ==
    ASSUME NEW s \in Blocks, NEW e \in Block
    PROVE  Append(s, e) \in Blocks /\ Appended(s, Append(s, e), e)
BY DEF Blocks, Appended

(* An appended block is behind what there was. *)
LEMMA AheadAppend ==
    ASSUME NEW s \in Blocks, NEW t \in Blocks, NEW e \in Block, NEW p, Appended(s, t, e)
    PROVE  /\ \A k \in 0 .. Len(s) : Ahead(t, p, k) = Ahead(s, p, k)
           /\ Ahead(t, p, Len(s) + 1) = Ahead(s, p, Len(s)) + Adds(e, p)
<1>1. /\ Len(t) = Len(s) + 1 /\ Len(s) \in Nat
      /\ \A k \in 1 .. Len(s) : t[k] = s[k]
      /\ t[Len(s) + 1] = e
  BY DEF Blocks, Appended
<1>2. \A k \in 0 .. Len(s) : Ahead(t, p, k) = Ahead(s, p, k)
  <2>1. Len(s) \in Nat /\ Len(s) <= Len(s) /\ Len(s) <= Len(t)
    BY <1>1
  <2>2. \A k \in 1 .. Len(s) : Adds(t[k], p) = Adds(s[k], p)
    BY <1>1
  <2> QED
    BY <2>1, <2>2, AheadPrefix
<1>3. Ahead(t, p, Len(s) + 1) = Ahead(t, p, Len(s) + 1 - 1) + Adds(t[Len(s) + 1], p)
  <2>1. Len(s) + 1 \in 1 .. Len(t)
    BY <1>1
  <2> QED
    BY <2>1, AheadNext
<1>4. Len(s) + 1 - 1 = Len(s) /\ Len(s) \in 0 .. Len(s)
  BY <1>1
<1> QED
  BY <1>1, <1>2, <1>3, <1>4

(* Taking blocks of other panes away. *)
LEMMA LeftWithout ==
    ASSUME NEW s \in Blocks, NEW D, NEW p, \A b \in D : b.of # p
    PROVE  Left(s, Without(s, D), p, 0)
<1> DEFINE L == Len(s)
<1>1. L \in Nat /\ DOMAIN s = 1 .. L /\ s \in Seq(Block) /\ \A n \in 1 .. L : s[n] \in Block
  BY DEF Blocks
<1>a. PICK kept : Keeps(s, D, kept)
  BY <1>1, WithoutKept
<1>2. /\ Without(s, D) = kept[Len(s)] /\ kept[0] = <<>>
      /\ \A n \in 1 .. Len(s) :
            kept[n] = IF s[n] \in D THEN kept[n - 1] ELSE Append(kept[n - 1], s[n])
  BY <1>a DEF Keeps
<1> DEFINE Good(n, t) ==
             /\ t \in Blocks
             /\ Ahead(t, p, Len(t)) = Ahead(s, p, n)
             /\ \A k \in 1 .. Len(t) : \E j \in 1 .. n :
                  t[k] = s[j] /\ Ahead(t, p, k - 1) = Ahead(s, p, j - 1)
           P == {n \in 0 .. L : Good(n, kept[n])}
<1>3. 0 \in P
  <2>1. kept[0] \in Blocks /\ Len(kept[0]) = 0
    BY <1>2 DEF Blocks
  <2>2. Ahead(kept[0], p, 0) = 0 /\ Ahead(s, p, 0) = 0
    BY <2>1, AheadStep
  <2>3. Good(0, kept[0])
    BY <2>1, <2>2
  <2> HIDE DEF Good
  <2> QED
    BY <1>1, <2>3
<1>4. ASSUME NEW n \in 0 .. L, n + 1 \in 0 .. L, n \in P
      PROVE  n + 1 \in P
  <2> DEFINE q == kept[n]
             x == s[n + 1]
  <2>1. Good(n, q) /\ n + 1 \in 1 .. L /\ n \in Nat /\ n + 1 - 1 = n /\ x \in Block
    BY <1>1, <1>4
  <2>2. kept[n + 1] = IF x \in D THEN q ELSE Append(q, x)
    BY <1>2, <2>1
  <2>3. Ahead(s, p, n + 1) = Ahead(s, p, n) + Adds(x, p)
    BY <2>1, AheadNext
  <2>4. Ahead(s, p, n) \in Nat
    BY AheadNat
  <2> HIDE DEF q, x
  <2>5. q \in Blocks /\ Ahead(q, p, Len(q)) = Ahead(s, p, n)
    BY <2>1
  <2>6. \A k \in 1 .. Len(q) : \E j \in 1 .. n :
            q[k] = s[j] /\ Ahead(q, p, k - 1) = Ahead(s, p, j - 1)
    BY <2>1
  <2>7. Good(n + 1, kept[n + 1])
    <3>1. CASE x \in D
      <4>1. Adds(x, p) = 0
        BY <3>1 DEF Adds
      <4>2. Ahead(s, p, n + 1) = Ahead(s, p, n)
        BY <2>3, <2>4, <4>1
      <4>3. \A k \in 1 .. Len(q) : \E j \in 1 .. n + 1 :
              q[k] = s[j] /\ Ahead(q, p, k - 1) = Ahead(s, p, j - 1)
        <5>1. \A j \in 1 .. n : j \in 1 .. n + 1
          BY <2>1
        <5> QED
          BY <2>6, <5>1
      <4>4. kept[n + 1] = q
        BY <2>2, <3>1
      <4> QED
        BY <2>5, <4>2, <4>3, <4>4
    <3>2. CASE x \notin D
      <4> DEFINE t == Append(q, x)
      <4>1. kept[n + 1] = t
        BY <2>2, <3>2
      <4>a. t \in Blocks /\ Appended(q, t, x)
        BY <2>1, <2>5, AppendIs
      <4> HIDE DEF t
      <4>2. /\ t \in Blocks /\ Len(t) = Len(q) + 1 /\ Len(q) \in Nat
            /\ \A k \in 1 .. Len(q) : t[k] = q[k]
            /\ t[Len(q) + 1] = x
        BY <2>5, <4>a DEF Blocks, Appended
      <4>3. /\ \A k \in 0 .. Len(q) : Ahead(t, p, k) = Ahead(q, p, k)
            /\ Ahead(t, p, Len(q) + 1) = Ahead(q, p, Len(q)) + Adds(x, p)
        BY <2>1, <2>5, <4>a, AheadAppend
      <4>4. Ahead(t, p, Len(t)) = Ahead(s, p, n + 1)
        BY <2>3, <2>5, <4>2, <4>3
      <4>5. ASSUME NEW k \in 1 .. Len(t)
            PROVE  \E j \in 1 .. n + 1 :
                     t[k] = s[j] /\ Ahead(t, p, k - 1) = Ahead(s, p, j - 1)
        <5>1. CASE k \in 1 .. Len(q)
          <6>1. PICK j \in 1 .. n : q[k] = s[j] /\ Ahead(q, p, k - 1) = Ahead(s, p, j - 1)
            BY <2>6, <5>1
          <6>2. t[k] = q[k] /\ k - 1 \in 0 .. Len(q) /\ j \in 1 .. n + 1
            BY <2>1, <4>2, <5>1
          <6>3. Ahead(t, p, k - 1) = Ahead(q, p, k - 1)
            BY <4>3, <6>2
          <6> QED
            BY <6>1, <6>2, <6>3
        <5>2. CASE k = Len(q) + 1
          <6>1. /\ t[k] = s[n + 1] /\ n + 1 \in 1 .. n + 1 /\ k - 1 = Len(q)
                /\ Len(q) \in 0 .. Len(q)
            BY <2>1, <4>2, <5>2 DEF x
          <6>2. Ahead(t, p, k - 1) = Ahead(s, p, n + 1 - 1)
            BY <2>1, <2>5, <4>3, <6>1
          <6> QED
            BY <6>1, <6>2
        <5> QED
          BY <4>2, <5>1, <5>2
      <4> QED
        BY <4>1, <4>2, <4>4, <4>5
    <3> QED
      BY <3>1, <3>2
  <2> HIDE DEF Good
  <2> QED
    BY <1>4, <2>7
<1>5. 0 .. L \subseteq P
  <2> HIDE DEF P
  <2> QED
    BY <1>1, <1>3, <1>4, UpTo
<1>6. Good(L, kept[L])
  <2>1. L \in 0 .. L
    BY <1>1
  <2> HIDE DEF Good
  <2> QED
    BY <1>5, <2>1
<1> DEFINE t == Without(s, D)
<1>7. Good(L, t)
  BY <1>2, <1>6
<1> HIDE DEF t
<1>8. t \in Blocks /\ DOMAIN t = 1 .. Len(t)
  BY <1>7 DEF Blocks
<1>9. (\E k \in DOMAIN t : t[k].of = p) => \E k \in DOMAIN s : s[k].of = p
  BY <1>1, <1>7, <1>8
<1>10. ASSUME NEW k \in 1 .. Len(t)
       PROVE  \E j \in 1 .. Len(s) :
                t[k].after = s[j].after /\ Ahead(s, p, j - 1) <= 0 + Ahead(t, p, k - 1)
  <2>1. PICK j \in 1 .. L : t[k] = s[j] /\ Ahead(t, p, k - 1) = Ahead(s, p, j - 1)
    BY <1>7
  <2>2. j - 1 \in 0 .. Len(s)
    BY <1>1
  <2>3. Ahead(s, p, j - 1) \in Nat
    BY <2>2, AheadNat
  <2>4. Ahead(s, p, j - 1) <= 0 + Ahead(t, p, k - 1)
    BY <2>1, <2>3
  <2> QED
    BY <2>1, <2>4
<1>11. Ahead(s, p, Len(s)) = 0 + Ahead(t, p, Len(t))
  <2>1. L \in 0 .. Len(s)
    BY <1>1
  <2>2. Ahead(s, p, L) \in Nat
    BY <2>1, AheadNat
  <2> QED
    BY <1>7, <2>2
<1>12. Left(s, t, p, 0)
  BY <1>9, <1>10, <1>11 DEF Left
<1> QED
  BY <1>12 DEF t

-----------------------------------------------------------------------------
(* The inductive invariant, of a client x and a pane p whose record is b and  *)
(* of which m bytes are read but not yet written.                             *)

(* c is sent the output of p when it is not silent. *)
Streams(x, p) ==
    /\ x.status \in {"attached", "suspended"}
    /\ p \in x.known /\ ~x.cp[p].paused /\ ~x.cp[p].off

(* Only a pane that is neither paused nor off has blocks, and it has its turn. *)
Scheduled(x, p) ==
    HasBlocks(x, p) =>
        /\ p \in x.known /\ ~x.cp[p].paused /\ ~x.cp[p].off
        /\ p \in Range(x.pending) /\ x.armed

(* Nothing is queued, and no line is put behind, what has not been read.      *)
Read(x, p, b) ==
    /\ x.cp[p].queued <= b.parsed
    /\ x.past[p] <= b.parsed
    /\ \A i \in DOMAIN x.all : x.all[i].after[p] <= b.parsed
    /\ p \in x.known =>
          /\ x.past[p] <= x.cp[p].queued
          /\ \A i \in DOMAIN x.all : x.all[i].after[p] <= x.cp[p].queued
    /\ Streams(x, p) /\ ~x.silent => b.base <= x.cp[p].offset

Expects(x, p, m) == Streams(x, p) => x.due[p] + m = x.cp[p].offset

(* The blocks stand for the bytes between the two offsets. *)
Exact(x, p) == x.cp[p].offset + Bytes(x, p) = x.cp[p].queued

(* A line waits for no byte that is queued behind it, and none that it waits  *)
(* for is still to be written when it is.                                     *)
InOrder(x, p, m) ==
    Streams(x, p) /\ Exact(x, p) =>
        /\ x.past[p] + m <= x.cp[p].offset
        /\ \A i \in DOMAIN x.all :
              x.all[i].after[p] <= x.cp[p].offset + Ahead(x.all, p, i - 1)

AtPane(x, p, b, m) ==
    Scheduled(x, p) /\ Read(x, p, b) /\ Expects(x, p, m) /\ InOrder(x, p, m)

(* The positions of a pane's buffer are natural numbers. *)
LEMMA PaneFacts ==
    ASSUME NEW b \in PaneType
    PROVE  b.base \in Nat /\ b.end \in Nat /\ b.parsed \in Nat
BY DEF PaneType, Position

(* The fields of a client have their types. *)
LEMMA ClientFacts ==
    ASSUME NEW x \in ClientType
    PROVE  /\ x.all \in Blocks /\ Len(x.all) \in Nat /\ DOMAIN x.all = 1 .. Len(x.all)
           /\ x.pending \in Seq(Pane) /\ x.known \subseteq Pane /\ x.view \in View
           /\ x.fill \in Nat /\ x.armed \in BOOLEAN /\ x.silent \in BOOLEAN
           /\ x.cp \in [Pane -> ControlPane]
           /\ x.due \in [Pane -> Nat] /\ x.past \in [Pane -> Nat]
BY DEF ClientType, Blocks, Position

(* What a client keeps of one pane has its type. *)
LEMMA AtClient ==
    ASSUME NEW x \in ClientType, NEW p \in Pane
    PROVE  /\ x.cp[p] \in ControlPane
           /\ x.cp[p].offset \in Nat /\ x.cp[p].queued \in Nat
           /\ x.cp[p].off \in BOOLEAN /\ x.cp[p].paused \in BOOLEAN
           /\ x.due[p] \in Nat /\ x.past[p] \in Nat /\ Bytes(x, p) \in Nat
           /\ \A i \in 1 .. Len(x.all) :
                 x.all[i].after[p] \in Nat /\ Ahead(x.all, p, i - 1) \in Nat
<1>1. x.cp[p] \in ControlPane /\ x.due[p] \in Nat /\ x.past[p] \in Nat
  BY ClientFacts
<1>2. x.all \in Blocks /\ Len(x.all) \in Nat
  BY ClientFacts
<1>3. Bytes(x, p) \in Nat
  BY <1>2, AheadNat DEF Bytes
<1>4. ASSUME NEW i \in 1 .. Len(x.all)
      PROVE  x.all[i].after[p] \in Nat /\ Ahead(x.all, p, i - 1) \in Nat
  <2>1. x.all[i].after \in [Pane -> Nat]
    BY <1>2, BlockFacts
  <2>2. i - 1 \in 0 .. Len(x.all)
    BY <1>2
  <2> QED
    BY <1>2, <2>1, <2>2, AheadNat
<1> QED
  BY <1>1, <1>3, <1>4 DEF ControlPane, Position

-----------------------------------------------------------------------------
(* What a change of a client does at one pane.                               *)

(* y is x but for the bytes of p that have been taken from its queue, n, and *)
(* written.                                                                  *)
Follows(x, y, p, n) ==
    /\ Left(x.all, y.all, p, n)
    /\ Streams(y, p) => Streams(x, p)
    /\ y.silent = x.silent
    /\ p \in y.known <=> p \in x.known
    /\ y.cp[p].paused = x.cp[p].paused /\ y.cp[p].off = x.cp[p].off
    /\ y.cp[p].queued = x.cp[p].queued
    /\ y.cp[p].offset = x.cp[p].offset + n
    /\ y.past[p] = x.past[p]
    /\ x.armed => y.armed \/ ~HasBlocks(y, p)
    /\ p \in Range(x.pending) => p \in Range(y.pending) \/ ~HasBlocks(y, p)

(* The pane stays in order when bytes of it are taken or written. *)
LEMMA AtFollows ==
    ASSUME NEW x \in ClientType, NEW y \in ClientType, NEW p \in Pane,
           NEW b \in PaneType, NEW m \in Nat, NEW k \in Nat, NEW n \in Nat,
           AtPane(x, p, b, m), Follows(x, y, p, n),
           y.due[p] + k = x.due[p] + m + n, k <= m + n
    PROVE  AtPane(y, p, b, k)
<1> USE ClientFacts, AtClient, PaneFacts
<1>1. /\ Left(x.all, y.all, p, n)
      /\ Streams(y, p) => Streams(x, p)
      /\ y.silent = x.silent
      /\ p \in y.known <=> p \in x.known
      /\ y.cp[p].queued = x.cp[p].queued
      /\ y.cp[p].offset = x.cp[p].offset + n
      /\ y.past[p] = x.past[p]
  BY DEF Follows
<1>2. Scheduled(y, p)
  <2>1. HasBlocks(y, p) => HasBlocks(x, p)
    BY <1>1 DEF Left, HasBlocks
  <2> QED
    BY <2>1 DEF AtPane, Scheduled, Follows
<1>3. \A i \in 1 .. Len(y.all) : \E j \in 1 .. Len(x.all) :
          /\ y.all[i].after = x.all[j].after
          /\ Ahead(x.all, p, j - 1) <= n + Ahead(y.all, p, i - 1)
  BY <1>1 DEF Left
<1>4. Read(y, p, b)
  <2>1. Read(x, p, b)
    BY DEF AtPane
  <2>2. \A i \in DOMAIN y.all : y.all[i].after[p] <= b.parsed
    BY <1>3, <2>1 DEF Read
  <2>3. p \in y.known => \A i \in DOMAIN y.all : y.all[i].after[p] <= y.cp[p].queued
    BY <1>1, <1>3, <2>1 DEF Read
  <2>4. Streams(y, p) /\ ~y.silent => b.base <= y.cp[p].offset
    <3>1. /\ b.base \in Nat /\ x.cp[p].offset \in Nat
          /\ Streams(x, p) /\ ~x.silent => b.base <= x.cp[p].offset
      BY <2>1 DEF Read
    <3> QED
      BY <1>1, <3>1
  <2> QED
    BY <1>1, <2>1, <2>2, <2>3, <2>4 DEF Read
<1>5. Expects(y, p, k)
  BY <1>1 DEF AtPane, Expects
<1>6. InOrder(y, p, k)
  <2> SUFFICES ASSUME Streams(y, p), Exact(y, p)
               PROVE  /\ y.past[p] + k <= y.cp[p].offset
                      /\ \A i \in DOMAIN y.all :
                           y.all[i].after[p] <= y.cp[p].offset + Ahead(y.all, p, i - 1)
    BY DEF InOrder
  <2>1. Bytes(x, p) = n + Bytes(y, p)
    BY <1>1 DEF Left, Bytes
  <2>2. Exact(x, p)
    BY <1>1, <2>1 DEF Exact
  <2>3. /\ x.past[p] + m <= x.cp[p].offset
        /\ \A i \in 1 .. Len(x.all) :
              x.all[i].after[p] <= x.cp[p].offset + Ahead(x.all, p, i - 1)
    BY <1>1, <2>2 DEF AtPane, InOrder
  <2>4. y.past[p] + k <= y.cp[p].offset
    BY <1>1, <2>3
  <2>5. ASSUME NEW i \in DOMAIN y.all
        PROVE  y.all[i].after[p] <= y.cp[p].offset + Ahead(y.all, p, i - 1)
    <3>0. i \in 1 .. Len(y.all)
      OBVIOUS
    <3>1. PICK j \in 1 .. Len(x.all) :
            /\ y.all[i].after = x.all[j].after
            /\ Ahead(x.all, p, j - 1) <= n + Ahead(y.all, p, i - 1)
      BY <1>3, <3>0
    <3>2. /\ x.all[j].after[p] <= x.cp[p].offset + Ahead(x.all, p, j - 1)
          /\ x.all[j].after[p] \in Nat /\ Ahead(x.all, p, j - 1) \in Nat
          /\ Ahead(y.all, p, i - 1) \in Nat /\ x.cp[p].offset \in Nat
      BY <2>3, <3>0
    <3> DEFINE v == x.all[j].after[p]
               u == Ahead(x.all, p, j - 1)
               a == Ahead(y.all, p, i - 1)
               o == x.cp[p].offset
    <3>3. /\ v <= o + u /\ u <= n + a /\ v \in Nat /\ u \in Nat /\ a \in Nat
          /\ o \in Nat /\ y.all[i].after[p] = v /\ y.cp[p].offset = o + n
      BY <1>1, <3>1, <3>2
    <3> HIDE DEF v, u, a, o
    <3>4. v <= (o + n) + a
      BY <3>3
    <3> QED
      BY <3>3, <3>4 DEF a
  <2> QED
    BY <2>4, <2>5
<1> QED
  BY <1>2, <1>4, <1>5, <1>6 DEF AtPane

(* The lines of y were lines of x. *)
Fewer(x, y) ==
    \A i \in 1 .. Len(y.all) : \E j \in 1 .. Len(x.all) : y.all[i].after = x.all[j].after

(* The client is not sent the pane (any more). *)
LEMMA AtStopped ==
    ASSUME NEW x \in ClientType, NEW y \in ClientType, NEW p \in Pane,
           NEW b \in PaneType, NEW m \in Nat, NEW k \in Nat,
           AtPane(x, p, b, m), Fewer(x, y), Scheduled(y, p), ~Streams(y, p),
           p \in y.known => p \in x.known /\ y.cp[p].queued = x.cp[p].queued,
           y.cp[p].queued <= b.parsed, y.past[p] = x.past[p]
    PROVE  AtPane(y, p, b, k)
<1>1. Read(x, p, b)
  BY DEF AtPane
<1>2. DOMAIN y.all = 1 .. Len(y.all) /\ DOMAIN x.all = 1 .. Len(x.all)
  BY ClientFacts
<1>3. Read(y, p, b)
  BY <1>1, <1>2 DEF Read, Fewer
<1> QED
  BY <1>3 DEF AtPane, Expects, InOrder

(* Both offsets are where the parser is. *)
LEMMA AtRestart ==
    ASSUME NEW x \in ClientType, NEW y \in ClientType, NEW p \in Pane,
           NEW b \in PaneType, AtPane(x, p, b, 0), Fewer(x, y), Scheduled(y, p),
           y.cp[p].offset = b.parsed, y.cp[p].queued = b.parsed, y.due[p] = b.parsed,
           y.past[p] = x.past[p], b.base <= b.parsed
    PROVE  AtPane(y, p, b, 0)
<1> USE ClientFacts, AtClient, PaneFacts
<1>1. Read(x, p, b)
  BY DEF AtPane
<1>2. \A i \in 1 .. Len(y.all) : y.all[i].after[p] <= b.parsed
  BY <1>1 DEF Read, Fewer
<1>3. Read(y, p, b)
  <2>1. y.cp[p].queued <= b.parsed /\ y.past[p] <= b.parsed
    BY <1>1 DEF Read
  <2>2. \A i \in DOMAIN y.all : y.all[i].after[p] <= b.parsed
    BY <1>2
  <2>3. y.past[p] <= y.cp[p].queued
    BY <2>1
  <2>4. \A i \in DOMAIN y.all : y.all[i].after[p] <= y.cp[p].queued
    BY <2>2
  <2>5. b.base <= y.cp[p].offset
    OBVIOUS
  <2> QED
    BY <2>1, <2>2, <2>3, <2>4, <2>5 DEF Read
<1>4. Expects(y, p, 0)
  BY DEF Expects
<1>5. InOrder(y, p, 0)
  <2>1. y.past[p] + 0 <= y.cp[p].offset
    BY <1>1 DEF Read
  <2>2. ASSUME NEW i \in 1 .. Len(y.all)
        PROVE  y.all[i].after[p] <= y.cp[p].offset + Ahead(y.all, p, i - 1)
    <3>1. y.all[i].after[p] \in Nat /\ Ahead(y.all, p, i - 1) \in Nat
      OBVIOUS
    <3>2. y.all[i].after[p] <= y.cp[p].offset /\ y.cp[p].offset \in Nat
      BY <1>2
    <3> DEFINE v == y.all[i].after[p]
               u == Ahead(y.all, p, i - 1)
               o == y.cp[p].offset
    <3> HIDE DEF v, u, o
    <3>3. v <= o + u
      BY <3>1, <3>2 DEF v, u, o
    <3> QED
      BY <3>3 DEF v, u, o
  <2> QED
    BY <2>1, <2>2 DEF InOrder
<1> QED
  BY <1>3, <1>4, <1>5 DEF AtPane

(* The blocks of p, if any, are gone and all else is as it was. *)
LEMMA AtDiscard ==
    ASSUME NEW x \in ClientType, NEW y \in ClientType, NEW p \in Pane,
           NEW b \in PaneType, AtPane(x, p, b, 0), Fewer(x, y), ~HasBlocks(y, p),
           Streams(y, p) => Streams(x, p),
           p \in y.known => p \in x.known,
           y.silent = x.silent, y.cp[p] = x.cp[p], y.due[p] = x.due[p],
           y.past[p] = x.past[p]
    PROVE  AtPane(y, p, b, 0)
<1> USE ClientFacts, AtClient, PaneFacts
<1>1. Read(x, p, b)
  BY DEF AtPane
<1>2. Read(y, p, b)
  <2>1. \A i \in DOMAIN y.all :
          /\ y.all[i].after[p] <= b.parsed
          /\ p \in y.known => y.all[i].after[p] <= y.cp[p].queued
    BY <1>1 DEF Read, Fewer
  <2> QED
    BY <1>1, <2>1 DEF Read
<1>3. Expects(y, p, 0)
  BY DEF AtPane, Expects
<1>4. InOrder(y, p, 0)
  <2> SUFFICES ASSUME Streams(y, p), Exact(y, p)
               PROVE  /\ y.past[p] + 0 <= y.cp[p].offset
                      /\ \A i \in DOMAIN y.all :
                           y.all[i].after[p] <= y.cp[p].offset + Ahead(y.all, p, i - 1)
    BY DEF InOrder
  <2>1. Bytes(y, p) = 0
    <3>1. /\ Len(y.all) \in 0 .. Len(y.all) /\ y.all \in Blocks
          /\ \A k \in 1 .. Len(y.all) : y.all[k].of # p
      BY DEF HasBlocks
    <3> QED
      BY <3>1, AheadNone DEF Bytes
  <2>2. y.cp[p].offset = y.cp[p].queued
    BY <2>1 DEF Exact
  <2>3. p \in y.known
    BY DEF Streams
  <2>4. y.past[p] + 0 <= y.cp[p].offset
    BY <1>2, <2>2, <2>3 DEF Read
  <2>5. ASSUME NEW i \in 1 .. Len(y.all)
        PROVE  y.all[i].after[p] <= y.cp[p].offset + Ahead(y.all, p, i - 1)
    <3>1. y.all[i].after[p] \in Nat /\ Ahead(y.all, p, i - 1) \in Nat
      OBVIOUS
    <3>2. y.all[i].after[p] <= y.cp[p].offset
      BY <1>2, <2>2, <2>3 DEF Read
    <3> QED
      BY <3>1, <3>2
  <2> QED
    BY <2>4, <2>5
<1>5. Scheduled(y, p)
  BY DEF Scheduled
<1> QED
  BY <1>2, <1>3, <1>4, <1>5 DEF AtPane

(* A block goes to the end of the queue. *)
LEMMA AtAppend ==
    ASSUME NEW x \in ClientType, NEW y \in ClientType, NEW p \in Pane,
           NEW b \in PaneType, NEW m \in Nat, NEW e \in Block,
           AtPane(x, p, b, m), Appended(x.all, y.all, e), Scheduled(y, p),
           Streams(y, p) => Streams(x, p), y.silent = x.silent,
           p \in y.known <=> p \in x.known,
           y.cp[p].offset = x.cp[p].offset,
           y.cp[p].queued = x.cp[p].queued + Adds(e, p), y.cp[p].queued <= b.parsed,
           y.due[p] = x.due[p], y.past[p] = x.past[p],
           e.after[p] <= x.cp[p].queued
    PROVE  AtPane(y, p, b, m)
<1> DEFINE L == Len(x.all)
           o == x.cp[p].offset
           q == x.cp[p].queued
           n == Adds(e, p)
<1>1. /\ q <= b.parsed
      /\ x.past[p] <= b.parsed
      /\ \A i \in 1 .. L : x.all[i].after[p] <= b.parsed
      /\ p \in x.known => x.past[p] <= q
      /\ p \in x.known => \A i \in 1 .. L : x.all[i].after[p] <= q
      /\ Streams(x, p) /\ ~x.silent => b.base <= o
  BY ClientFacts DEF AtPane, Read
<1>2. /\ Len(y.all) = L + 1 /\ L \in Nat
      /\ \A k \in 1 .. L : y.all[k] = x.all[k]
      /\ y.all[L + 1] = e
      /\ DOMAIN y.all = 1 .. L + 1
  BY ClientFacts DEF Appended
<1>3. /\ \A k \in 0 .. L : Ahead(y.all, p, k) = Ahead(x.all, p, k)
      /\ Ahead(y.all, p, L + 1) = Ahead(x.all, p, L) + n
  BY ClientFacts, AheadAppend
<1>4. /\ n \in Nat /\ e.after[p] \in Nat /\ q \in Nat /\ o \in Nat /\ b.parsed \in Nat
      /\ x.past[p] \in Nat /\ Bytes(x, p) \in Nat
      /\ \A i \in 1 .. L : x.all[i].after[p] \in Nat
  BY AtClient, PaneFacts DEF Adds, Block, Position
<1>5. \A k \in DOMAIN y.all : k \in 1 .. L \/ k = L + 1
  BY <1>2
<1>y. y.cp[p].offset = o /\ y.cp[p].queued = q + n /\ q + n <= b.parsed /\ e.after[p] <= q
  OBVIOUS
<1> HIDE DEF L, o, q, n
<1>6. Read(y, p, b)
  <2>1. ASSUME NEW k \in DOMAIN y.all
        PROVE  /\ y.all[k].after[p] <= b.parsed
               /\ p \in y.known => y.all[k].after[p] <= q + n
    <3>1. CASE k \in 1 .. L
      <4>1. y.all[k] = x.all[k]
        BY <1>2, <3>1
      <4>2. /\ x.all[k].after[p] <= b.parsed /\ x.all[k].after[p] \in Nat
            /\ p \in x.known => x.all[k].after[p] <= q
        BY <1>1, <1>4, <3>1
      <4>3. p \in x.known => x.all[k].after[p] <= q + n
        BY <1>4, <4>2
      <4> QED
        BY <4>1, <4>2, <4>3
    <3>2. CASE k = L + 1
      <4>1. y.all[k] = e
        BY <1>2, <3>2
      <4>2. e.after[p] <= q + n /\ e.after[p] <= b.parsed
        BY <1>1, <1>4, <1>y
      <4> QED
        BY <4>1, <4>2
    <3> QED
      BY <1>5, <3>1, <3>2
  <2>2. p \in y.known => y.past[p] <= q + n
    BY <1>1, <1>4
  <2>3. Streams(y, p) /\ ~y.silent => b.base <= o
    BY <1>1
  <2>4. y.past[p] <= b.parsed
    BY <1>1
  <2> QED
    BY <1>y, <2>1, <2>2, <2>3, <2>4 DEF Read
<1>7. Expects(y, p, m)
  BY DEF AtPane, Expects
<1>8. InOrder(y, p, m)
  <2> SUFFICES ASSUME Streams(y, p), Exact(y, p)
               PROVE  /\ y.past[p] + m <= y.cp[p].offset
                      /\ \A i \in DOMAIN y.all :
                           y.all[i].after[p] <= y.cp[p].offset + Ahead(y.all, p, i - 1)
    BY DEF InOrder
  <2>1. Bytes(y, p) = Bytes(x, p) + n
    BY <1>2, <1>3 DEF Bytes, L
  <2>2. o + Bytes(x, p) = q
    <3>1. o + (Bytes(x, p) + n) = q + n
      BY <1>y, <2>1 DEF Exact
    <3> QED
      BY <1>4, <3>1
  <2>3. Exact(x, p)
    BY <2>2 DEF Exact, o, q
  <2>4. /\ x.past[p] + m <= o
        /\ \A i \in 1 .. L : x.all[i].after[p] <= o + Ahead(x.all, p, i - 1)
    BY <2>3, ClientFacts DEF AtPane, InOrder, o, L
  <2>5. ASSUME NEW i \in DOMAIN y.all
        PROVE  y.all[i].after[p] <= o + Ahead(y.all, p, i - 1)
    <3>1. CASE i \in 1 .. L
      <4>1. y.all[i] = x.all[i] /\ i - 1 \in 0 .. L
        BY <1>2, <3>1
      <4>2. Ahead(y.all, p, i - 1) = Ahead(x.all, p, i - 1)
        BY <1>3, <4>1
      <4> QED
        BY <2>4, <3>1, <4>1, <4>2
    <3>2. CASE i = L + 1
      <4>0. L \in Nat
        BY <1>2
      <4>1. i - 1 = L /\ L \in 0 .. L
        BY <4>0, <3>2
      <4>a. y.all[i] = e
        BY <1>2, <3>2
      <4>2. Ahead(y.all, p, i - 1) = Bytes(x, p)
        BY <1>3, <4>1 DEF Bytes, L
      <4> QED
        BY <1>y, <2>2, <4>1, <4>a, <4>2
    <3> QED
      BY <1>5, <3>1, <3>2
  <2> QED
    BY <1>y, <2>4, <2>5
<1> QED
  BY <1>6, <1>7, <1>8 DEF AtPane

(* Lines have been written, and so has what they waited for. *)
LEMMA AtPast ==
    ASSUME NEW x \in ClientType, NEW y \in ClientType, NEW p \in Pane,
           NEW b \in PaneType, AtPane(x, p, b, 0),
           y.all = x.all, y.status = x.status, y.silent = x.silent,
           y.known = x.known, y.cp = x.cp, y.due = x.due, y.pending = x.pending,
           x.armed => y.armed,
           y.past[p] <= b.parsed,
           p \in x.known => y.past[p] <= x.cp[p].queued,
           Streams(x, p) /\ Exact(x, p) => y.past[p] <= x.cp[p].offset
    PROVE  AtPane(y, p, b, 0)
<1>1. Streams(y, p) <=> Streams(x, p)
  BY DEF Streams
<1>2. Exact(y, p) <=> Exact(x, p)
  BY DEF Exact, Bytes
<1>3. Scheduled(y, p)
  BY DEF AtPane, Scheduled, HasBlocks
<1>4. Read(y, p, b)
  BY <1>1 DEF AtPane, Read
<1>5. Expects(y, p, 0)
  BY <1>1 DEF AtPane, Expects
<1>6. InOrder(y, p, 0)
  <2>1. y.past[p] + 0 = y.past[p]
    BY AtClient
  <2> QED
    BY <1>1, <1>2, <2>1 DEF AtPane, InOrder
<1> QED
  BY <1>3, <1>4, <1>5, <1>6 DEF AtPane

(* The parser reads on. *)
LEMMA AtGrown ==
    ASSUME NEW x \in ClientType, NEW p \in Pane, NEW b \in PaneType,
           NEW d \in PaneType, NEW m \in Nat, AtPane(x, p, b, m),
           b.parsed <= d.parsed, d.base = b.base
    PROVE  AtPane(x, p, d, m)
<1>1. Read(x, p, b)
  BY DEF AtPane
<1>2. /\ b.parsed \in Nat /\ d.parsed \in Nat /\ x.cp[p].queued \in Nat /\ x.past[p] \in Nat
      /\ \A i \in DOMAIN x.all : x.all[i].after[p] \in Nat
  BY PaneFacts, AtClient, ClientFacts
<1>3. Read(x, p, d)
  BY <1>1, <1>2 DEF Read
<1> QED
  BY <1>3 DEF AtPane

-----------------------------------------------------------------------------
(* A client that is in order at every pane; pn is the panes and m the bytes   *)
(* of each that are read but not yet written.                                 *)

Good(x, pn, m) ==
    /\ x \in ClientType
    /\ IsInjective(x.pending)
    /\ \A p \in Pane : AtPane(x, p, pn[p], m[p])

Panes == [Pane -> PaneType]

(* The buffers hold what the parser has yet to read. *)
Drained(pn) == \A p \in Pane : pn[p].base <= pn[p].parsed

(* An unchanged queue. *)
LEMMA LeftSame ==
    ASSUME NEW s \in Blocks, NEW p
    PROVE  Left(s, s, p, 0)
<1>1. Len(s) \in Nat /\ Len(s) \in 0 .. Len(s)
  BY DEF Blocks
<1>2. \A k \in 1 .. Len(s) : Ahead(s, p, k - 1) <= 0 + Ahead(s, p, k - 1)
  <2> TAKE k \in 1 .. Len(s)
  <2>1. k - 1 \in 0 .. Len(s)
    BY <1>1
  <2> QED
    BY <2>1, AheadNat
<1>3. Ahead(s, p, Len(s)) = 0 + Ahead(s, p, Len(s))
  BY <1>1, AheadNat
<1> QED
  BY <1>2, <1>3 DEF Left

(* Fields that no function of one pane changes, and the other panes.         *)
Elsewhere(x, y, p) ==
    /\ y.status = x.status /\ y.silent = x.silent /\ y.past = x.past
    /\ y.pending = x.pending /\ (x.armed => y.armed)
    /\ \A q \in Pane \ {p} :
          /\ Left(x.all, y.all, q, 0)
          /\ y.cp[q] = x.cp[q] /\ y.due[q] = x.due[q]
          /\ q \in y.known <=> q \in x.known

(* The other panes stay in order when only p is concerned. *)
LEMMA ElsewhereGood ==
    ASSUME NEW x, NEW y \in ClientType, NEW p \in Pane, NEW pn \in Panes,
           NEW m \in [Pane -> Nat], NEW k \in [Pane -> Nat],
           Good(x, pn, m), Elsewhere(x, y, p), AtPane(y, p, pn[p], k[p]),
           \A q \in Pane \ {p} : k[q] = m[q]
    PROVE  Good(y, pn, k)
<1>0. x \in ClientType /\ IsInjective(x.pending)
  BY DEF Good
<1>1. ASSUME NEW q \in Pane, q # p
      PROVE  AtPane(y, q, pn[q], k[q])
  <2>1. /\ y.status = x.status /\ y.silent = x.silent /\ y.past = x.past
        /\ y.pending = x.pending /\ (x.armed => y.armed)
        /\ Left(x.all, y.all, q, 0)
        /\ y.cp[q] = x.cp[q] /\ y.due[q] = x.due[q]
        /\ q \in y.known <=> q \in x.known
    BY <1>1 DEF Elsewhere
  <2>2. Follows(x, y, q, 0)
    <3>1. x.cp[q].offset + 0 = x.cp[q].offset
      BY <1>0, AtClient
    <3>2. Streams(y, q) => Streams(x, q)
      BY <2>1 DEF Streams
    <3> QED
      BY <2>1, <3>1, <3>2 DEF Follows
  <2>3. /\ pn[q] \in PaneType /\ m[q] \in Nat /\ k[q] = m[q]
        /\ AtPane(x, q, pn[q], m[q])
    BY <1>1 DEF Panes, Good
  <2>4. y.due[q] + m[q] = x.due[q] + m[q] + 0 /\ m[q] <= m[q] + 0
    BY <1>0, <2>1, <2>3, AtClient
  <2>5. AtPane(y, q, pn[q], m[q])
    <3> DEFINE b == pn[q]
               j == m[q]
    <3>1. /\ b \in PaneType /\ j \in Nat /\ AtPane(x, q, b, j) /\ 0 \in Nat
          /\ y.due[q] + j = x.due[q] + j + 0 /\ j <= j + 0
      BY <2>3, <2>4
    <3> HIDE DEF b, j
    <3>2. AtPane(y, q, b, j)
      BY <1>0, <1>1, <2>2, <3>1, AtFollows
    <3> QED
      BY <3>2 DEF b, j
  <2> QED
    BY <2>3, <2>5
<1>2. IsInjective(y.pending)
  BY <1>0 DEF Elsewhere
<1> QED
  BY <1>1, <1>2 DEF Good

(* Only what control_write_callback or a command does to the whole client. *)
SameOutput(x, y) ==
    /\ y.silent = x.silent /\ y.past = x.past /\ y.due = x.due /\ y.cp = x.cp
    /\ y.pending = x.pending /\ y.known = x.known /\ y.all = x.all
    /\ x.armed => y.armed
    /\ \A p \in Pane : Streams(y, p) => Streams(x, p)

(* The client stays in order when its output does not change. *)
LEMMA SameGood ==
    ASSUME NEW x, NEW y \in ClientType, NEW pn \in Panes, NEW m \in [Pane -> Nat],
           Good(x, pn, m), SameOutput(x, y)
    PROVE  Good(y, pn, m)
<1>0. x \in ClientType /\ IsInjective(x.pending)
  BY DEF Good
<1>1. ASSUME NEW q \in Pane
      PROVE  AtPane(y, q, pn[q], m[q])
  <2>1. AtPane(x, q, pn[q], m[q])
    BY DEF Good
  <2>2. Scheduled(y, q)
    BY <2>1 DEF AtPane, Scheduled, HasBlocks, SameOutput
  <2>3. Read(y, q, pn[q])
    BY <2>1 DEF AtPane, Read, SameOutput
  <2>4. Expects(y, q, m[q])
    BY <2>1 DEF AtPane, Expects, SameOutput
  <2>5. Bytes(y, q) = Bytes(x, q) /\ y.cp = x.cp /\ y.all = x.all /\ y.past = x.past
    BY DEF Bytes, SameOutput
  <2>6. InOrder(y, q, m[q])
    BY <2>1, <2>5 DEF AtPane, InOrder, SameOutput, Exact
  <2> QED
    BY <2>2, <2>3, <2>4, <2>6 DEF AtPane
<1> QED
  BY <1>0, <1>1 DEF Good, SameOutput

(* A client that is sent nothing. *)
LEMMA StopGood ==
    ASSUME NEW x, NEW y \in ClientType, NEW pn \in Panes,
           NEW m \in [Pane -> Nat], NEW k \in [Pane -> Nat], Good(x, pn, m),
           IsInjective(y.pending), Fewer(x, y), y.past = x.past,
           \A p \in Pane : ~HasBlocks(y, p) /\ ~Streams(y, p),
           \/ y.known = x.known /\ y.cp = x.cp
           \/ y.known = {} /\ y.cp = [p \in Pane |-> NoPane]
    PROVE  Good(y, pn, k)
<1>0. x \in ClientType
  BY DEF Good
<1>1. ASSUME NEW q \in Pane
      PROVE  AtPane(y, q, pn[q], k[q])
  <2>1. /\ AtPane(x, q, pn[q], m[q]) /\ pn[q] \in PaneType /\ m[q] \in Nat /\ k[q] \in Nat
        /\ y.past[q] = x.past[q]
    BY DEF Good, Panes
  <2>2. Scheduled(y, q) /\ ~Streams(y, q)
    BY DEF Scheduled
  <2>3. q \in y.known => q \in x.known /\ y.cp[q].queued = x.cp[q].queued
    OBVIOUS
  <2>4. y.cp[q].queued <= pn[q].parsed
    <3>1. x.cp[q].queued <= pn[q].parsed /\ pn[q].parsed \in Nat
      BY <2>1, PaneFacts DEF AtPane, Read
    <3>2. y.cp[q].queued = x.cp[q].queued \/ y.cp[q].queued = 0
      BY DEF NoPane
    <3> QED
      BY <3>1, <3>2
  <2> DEFINE b == pn[q]
             i == m[q]
             j == k[q]
  <2>5. /\ AtPane(x, q, b, i) /\ b \in PaneType /\ i \in Nat /\ j \in Nat
        /\ y.cp[q].queued <= b.parsed
    BY <2>1, <2>4
  <2> HIDE DEF b, i, j
  <2>6. AtPane(y, q, b, j)
    BY <1>0, <2>1, <2>2, <2>3, <2>5, AtStopped
  <2> QED
    BY <2>6 DEF b, j
<1> QED
  BY <1>1 DEF Good

(* The parsers read on. *)
LEMMA GrownGood ==
    ASSUME NEW x, NEW pn \in Panes, NEW pm \in Panes, NEW m \in [Pane -> Nat],
           Good(x, pn, m),
           \A p \in Pane : pn[p].parsed <= pm[p].parsed /\ pm[p].base = pn[p].base
    PROVE  Good(x, pm, m)
<1>0. x \in ClientType
  BY DEF Good
<1>1. ASSUME NEW q \in Pane
      PROVE  AtPane(x, q, pm[q], m[q])
  <2> DEFINE b == pn[q]
             d == pm[q]
             i == m[q]
  <2>1. /\ AtPane(x, q, b, i) /\ b \in PaneType /\ d \in PaneType /\ i \in Nat
        /\ b.parsed <= d.parsed /\ d.base = b.base
    BY DEF Good, Panes
  <2> HIDE DEF b, d, i
  <2>2. AtPane(x, q, d, i)
    BY <1>0, <2>1, AtGrown
  <2> QED
    BY <2>2 DEF d, i
<1> QED
  BY <1>0, <1>1 DEF Good

-----------------------------------------------------------------------------
(* The functions of control.c, one by one.  Nowhere: no message is on its way. *)

(* No message is being put together. *)
LEMMA NowhereFacts == Nowhere \in [Pane -> Nat] /\ \A p \in Pane : Nowhere[p] = 0
BY DEF Nowhere

(* A client with the same blocks. *)
LEMMA SameAll ==
    ASSUME NEW x \in ClientType, NEW y, y.all = x.all
    PROVE  Fewer(x, y) /\ \A q \in Pane : Left(x.all, y.all, q, 0)
BY ClientFacts, LeftSame DEF Fewer

(* The blocks that are left when some are discarded. *)
LEMMA DiscardedAll ==
    ASSUME NEW x \in ClientType, NEW y, NEW D, y.all = Without(x.all, D)
    PROVE  /\ y.all \in Blocks /\ Fewer(x, y)
           /\ \A k \in DOMAIN y.all : y.all[k] \in Range(x.all) \ D
           /\ \A q \in Pane : (\A b \in D : b.of # q) => Left(x.all, y.all, q, 0)
<1> DEFINE s == x.all
           t == y.all
<1>1. s \in Blocks /\ DOMAIN s = 1 .. Len(s) /\ t = Without(s, D)
  BY ClientFacts
<1> HIDE DEF s, t
<1>2. t \in Blocks /\ Range(t) = Range(s) \ D
  BY <1>1, WithoutFacts DEF Blocks
<1>3. \A k \in DOMAIN t : t[k] \in Range(s) \ D
  BY <1>2 DEF Range
<1>4. ASSUME NEW k \in 1 .. Len(t)
      PROVE  \E j \in 1 .. Len(s) : t[k].after = s[j].after
  <2>1. k \in DOMAIN t
    BY <1>2 DEF Blocks
  <2>2. PICK j \in DOMAIN s : t[k] = s[j]
    BY <1>3, <2>1 DEF Range
  <2> QED
    BY <1>1, <2>2
<1>5. Fewer(x, y)
  BY <1>4 DEF Fewer, s, t
<1>6. ASSUME NEW q \in Pane, \A b \in D : b.of # q
      PROVE  Left(s, t, q, 0)
  BY <1>1, <1>6, LeftWithout
<1> QED
  BY <1>2, <1>3, <1>5, <1>6 DEF s, t

(* Removing elements makes no element appear twice. *)
LEMMA WithoutInjective ==
    ASSUME NEW S, NEW s \in Seq(S), NEW D, IsInjective(s)
    PROVE  Without(s, D) \in Seq(S) /\ IsInjective(Without(s, D))
<1> DEFINE t == Without(s, D)
<1>1. t \in Seq(S)
  BY WithoutFacts
<1>2. \A m, n \in 1 .. Len(t) : m < n =>
        \E j, k \in 1 .. Len(s) : j < k /\ t[m] = s[j] /\ t[n] = s[k]
  BY WithoutFacts
<1> HIDE DEF t
<1>3. DOMAIN t = 1 .. Len(t) /\ DOMAIN s = 1 .. Len(s)
  BY <1>1
<1>4. ASSUME NEW m \in 1 .. Len(t), NEW n \in 1 .. Len(t), m < n
      PROVE  t[m] # t[n]
  <2>1. PICK j \in 1 .. Len(s), k \in 1 .. Len(s) : j < k /\ t[m] = s[j] /\ t[n] = s[k]
    BY <1>2, <1>4
  <2> QED
    BY <1>3, <2>1 DEF IsInjective
<1>5. ASSUME NEW m \in 1 .. Len(t), NEW n \in 1 .. Len(t), t[m] = t[n]
      PROVE  m = n
  <2>1. ~(m < n) /\ ~(n < m)
    BY <1>4, <1>5
  <2> QED
    BY <2>1
<1>6. IsInjective(t)
  BY <1>3, <1>5 DEF IsInjective
<1> QED
  BY <1>1, <1>6 DEF t

(* Both offsets of p move to where the parser is. *)
LEMMA RestartGood ==
    ASSUME NEW x, NEW y \in ClientType, NEW p \in Pane, NEW pn \in Panes,
           Drained(pn), Good(x, pn, Nowhere), Elsewhere(x, y, p), Fewer(x, y),
           Scheduled(y, p), y.cp[p].offset = pn[p].parsed,
           y.cp[p].queued = pn[p].parsed, y.due[p] = pn[p].parsed
    PROVE  Good(y, pn, Nowhere)
<1>0. x \in ClientType
  BY DEF Good
<1>1. y.past[p] = x.past[p] /\ Nowhere[p] = 0
  BY NowhereFacts DEF Elsewhere
<1>2. pn[p] \in PaneType /\ pn[p].base <= pn[p].parsed /\ AtPane(x, p, pn[p], 0)
  BY <1>1 DEF Panes, Drained, Good
<1> DEFINE b == pn[p]
<1>3. /\ b \in PaneType /\ b.base <= b.parsed /\ AtPane(x, p, b, 0)
      /\ y.cp[p].offset = b.parsed /\ y.cp[p].queued = b.parsed /\ y.due[p] = b.parsed
  BY <1>2
<1> HIDE DEF b
<1>4. AtPane(y, p, b, 0)
  BY <1>0, <1>1, <1>3, AtRestart
<1>5. AtPane(y, p, pn[p], Nowhere[p])
  BY <1>1, <1>4 DEF b
<1> QED
  BY <1>5, NowhereFacts, ElsewhereGood

(* MoveTo, field by field. *)
LEMMA MoveToIs ==
    ASSUME NEW x \in ClientType, NEW p \in Pane, NEW n \in Nat, NEW y,
           y = MoveTo(x, p, n)
    PROVE  /\ y \in ClientType
           /\ y.status = x.status /\ y.silent = x.silent /\ y.past = x.past
           /\ y.pending = x.pending /\ y.armed = x.armed /\ y.all = x.all
           /\ y.known = x.known /\ y.view = x.view /\ y.pausing = x.pausing
           /\ y.fill = x.fill
           /\ y.cp[p].offset = n /\ y.cp[p].queued = n /\ y.due[p] = n
           /\ y.cp[p].off = x.cp[p].off /\ y.cp[p].paused = x.cp[p].paused
           /\ \A q \in Pane \ {p} : y.cp[q] = x.cp[q] /\ y.due[q] = x.due[q]
<1> DEFINE c == [[x.cp EXCEPT ![p].offset = n] EXCEPT ![p].queued = n]
           d == [x.due EXCEPT ![p] = n]
<1>1. c \in [Pane -> ControlPane] /\ d \in [Pane -> Position]
  BY DEF ClientType, ControlPane, Position
<1>2. y = [x EXCEPT !.cp = c, !.due = d]
  BY DEF MoveTo, ClientType
<1>3. /\ c[p].offset = n /\ c[p].queued = n /\ d[p] = n
      /\ c[p].off = x.cp[p].off /\ c[p].paused = x.cp[p].paused
      /\ \A q \in Pane \ {p} : c[q] = x.cp[q] /\ d[q] = x.due[q]
  BY DEF ClientType, ControlPane
<1> HIDE DEF c, d
<1>4. y \in ClientType
  BY <1>1, <1>2 DEF ClientType
<1>5. /\ y.status = x.status /\ y.silent = x.silent /\ y.past = x.past
      /\ y.pending = x.pending /\ y.armed = x.armed /\ y.all = x.all
      /\ y.known = x.known /\ y.view = x.view /\ y.pausing = x.pausing
      /\ y.fill = x.fill /\ y.cp = c /\ y.due = d
  BY <1>2 DEF ClientType
<1> QED
  BY <1>3, <1>4, <1>5

(* Moving both offsets to the parser keeps the client in order. *)
LEMMA MoveToGood ==
    ASSUME NEW x, NEW p \in Pane, NEW pn \in Panes, Drained(pn), Good(x, pn, Nowhere)
    PROVE  Good(MoveTo(x, p, pn[p].parsed), pn, Nowhere)
<1> DEFINE n == pn[p].parsed
           y == MoveTo(x, p, n)
<1>1. x \in ClientType /\ n \in Nat
  BY PaneFacts DEF Good, Panes
<1>a. y = MoveTo(x, p, n)
  OBVIOUS
<1> HIDE DEF y, n
<1>2. /\ y \in ClientType
      /\ y.status = x.status /\ y.silent = x.silent /\ y.past = x.past
      /\ y.pending = x.pending /\ y.armed = x.armed /\ y.all = x.all
      /\ y.known = x.known
      /\ y.cp[p].offset = n /\ y.cp[p].queued = n /\ y.due[p] = n
      /\ y.cp[p].off = x.cp[p].off /\ y.cp[p].paused = x.cp[p].paused
      /\ \A q \in Pane \ {p} : y.cp[q] = x.cp[q] /\ y.due[q] = x.due[q]
  BY <1>1, <1>a, MoveToIs
<1>3. Fewer(x, y) /\ \A q \in Pane : Left(x.all, y.all, q, 0)
  BY <1>1, <1>2, SameAll
<1>4. Elsewhere(x, y, p)
  BY <1>2, <1>3 DEF Elsewhere
<1>5. Scheduled(y, p)
  <2>1. Scheduled(x, p)
    BY DEF Good, AtPane
  <2> QED
    BY <1>2, <2>1 DEF Scheduled, HasBlocks
<1>6. Good(y, pn, Nowhere)
  BY <1>2, <1>3, <1>4, <1>5, RestartGood DEF n
<1> QED
  BY <1>6 DEF y, n

(* A pane whose offsets are where the parser is, without blocks, is turned on *)
(* or off, paused or continued.                                               *)
LEMMA ToggleGood ==
    ASSUME NEW x, NEW p \in Pane, NEW pn \in Panes, NEW v \in BOOLEAN, NEW y,
           Drained(pn), Good(x, pn, Nowhere), ~HasBlocks(x, p),
           x.cp[p].offset = pn[p].parsed, x.cp[p].queued = pn[p].parsed,
           x.due[p] = pn[p].parsed,
           y = [x EXCEPT !.cp[p].off = v] \/ y = [x EXCEPT !.cp[p].paused = v]
    PROVE  Good(y, pn, Nowhere)
<1> DEFINE c == y.cp
<1>1. x \in ClientType
  BY DEF Good
<1>c. y = [x EXCEPT !.cp = c]
  BY <1>1 DEF ClientType
<1>2. /\ c \in [Pane -> ControlPane]
      /\ c[p].offset = x.cp[p].offset /\ c[p].queued = x.cp[p].queued
      /\ \A q \in Pane \ {p} : c[q] = x.cp[q]
  <2>1. CASE y = [x EXCEPT !.cp[p].off = v]
    <3>1. c = [x.cp EXCEPT ![p].off = v]
      BY <1>1, <2>1 DEF ClientType
    <3> HIDE DEF c
    <3> QED
      BY <1>1, <3>1 DEF ClientType, ControlPane
  <2>2. CASE y = [x EXCEPT !.cp[p].paused = v]
    <3>1. c = [x.cp EXCEPT ![p].paused = v]
      BY <1>1, <2>2 DEF ClientType
    <3> HIDE DEF c
    <3> QED
      BY <1>1, <3>1 DEF ClientType, ControlPane
  <2> QED
    BY <2>1, <2>2
<1> HIDE DEF c
<1>3. y \in ClientType
  BY <1>1, <1>2, <1>c DEF ClientType
<1>4. /\ y.status = x.status /\ y.silent = x.silent /\ y.past = x.past
      /\ y.pending = x.pending /\ y.armed = x.armed /\ y.all = x.all
      /\ y.known = x.known /\ y.cp = c /\ y.due = x.due
  BY <1>1, <1>c DEF ClientType
<1>5. Fewer(x, y) /\ \A q \in Pane : Left(x.all, y.all, q, 0)
  BY <1>1, <1>4, SameAll
<1>6. Elsewhere(x, y, p)
  BY <1>2, <1>4, <1>5 DEF Elsewhere
<1>7. Scheduled(y, p)
  BY <1>4 DEF Scheduled, HasBlocks
<1>8. y.cp[p].offset = pn[p].parsed /\ y.cp[p].queued = pn[p].parsed /\ y.due[p] = pn[p].parsed
  BY <1>2, <1>4
<1> QED
  BY <1>3, <1>5, <1>6, <1>7, <1>8, RestartGood

(* So does getting to know a pane. *)
LEMMA AddPaneGood ==
    ASSUME NEW x, NEW p \in Pane, pane \in Panes, Drained(pane), Good(x, pane, Nowhere)
    PROVE  /\ Good(AddPane(x, p), pane, Nowhere)
           /\ p \in AddPane(x, p).known
           /\ AddPane(x, p).status = x.status /\ AddPane(x, p).silent = x.silent
<1>0. x \in ClientType /\ Scheduled(x, p)
  BY DEF Good, AtPane
<1>1. CASE p \in x.known
  BY <1>1 DEF AddPane
<1>2. CASE p \notin x.known
  <2> DEFINE n == pane[p].parsed
             z == MoveTo(x, p, n)
             y == [z EXCEPT !.known = @ \cup {p}]
  <2>1. n \in Nat
    BY PaneFacts DEF Panes
  <2>z. z = MoveTo(x, p, n)
    OBVIOUS
  <2> HIDE DEF z, n
  <2>2. /\ z \in ClientType
        /\ z.status = x.status /\ z.silent = x.silent /\ z.past = x.past
        /\ z.pending = x.pending /\ z.armed = x.armed /\ z.all = x.all
        /\ z.known = x.known
        /\ z.cp[p].offset = n /\ z.cp[p].queued = n /\ z.due[p] = n
        /\ \A q \in Pane \ {p} : z.cp[q] = x.cp[q] /\ z.due[q] = x.due[q]
    BY <1>0, <2>1, <2>z, MoveToIs
  <2>3. y \in ClientType
    BY <2>2 DEF ClientType
  <2>4. /\ y.status = z.status /\ y.silent = z.silent /\ y.past = z.past
        /\ y.pending = z.pending /\ y.armed = z.armed /\ y.all = z.all
        /\ y.known = z.known \cup {p} /\ y.cp = z.cp /\ y.due = z.due
    BY <2>2 DEF ClientType
  <2>a. AddPane(x, p) = y
    BY <1>2 DEF AddPane, z, n
  <2> HIDE DEF y
  <2>5. Fewer(x, y) /\ \A q \in Pane : Left(x.all, y.all, q, 0)
    BY <1>0, <2>2, <2>4, SameAll
  <2>6. Elsewhere(x, y, p)
    BY <2>2, <2>4, <2>5 DEF Elsewhere
  <2>7. Scheduled(y, p)
    BY <1>0, <1>2, <2>2, <2>4 DEF Scheduled, HasBlocks
  <2>8. y.cp[p].offset = n /\ y.cp[p].queued = n /\ y.due[p] = n
    BY <2>2, <2>4
  <2>9. Good(y, pane, Nowhere)
    BY <2>3, <2>5, <2>6, <2>7, <2>8, RestartGood DEF n
  <2> QED
    BY <2>2, <2>4, <2>a, <2>9
<1> QED
  BY <1>1, <1>2

(* Discard, field by field. *)
LEMMA DiscardIs ==
    ASSUME NEW x \in ClientType, NEW p \in Pane, NEW y, y = Discard(x, p)
    PROVE  /\ y \in ClientType
           /\ y.status = x.status /\ y.silent = x.silent /\ y.past = x.past
           /\ y.pending = x.pending /\ y.armed = x.armed /\ y.known = x.known
           /\ y.cp = x.cp /\ y.due = x.due /\ y.view = x.view /\ y.pausing = x.pausing
           /\ y.fill = x.fill
           /\ ~HasBlocks(y, p) /\ Fewer(x, y)
           /\ \A q \in Pane \ {p} : Left(x.all, y.all, q, 0)
<1> DEFINE D == {b \in Range(x.all) : b.of = p}
           t == Without(x.all, D)
<1>1. y = [x EXCEPT !.all = t]
  BY DEF Discard
<1>2. y.all = t
  BY <1>1 DEF ClientType
<1> HIDE DEF t
<1>3. /\ y.all \in Blocks /\ Fewer(x, y)
      /\ \A k \in DOMAIN y.all : y.all[k] \in Range(x.all) \ D
      /\ \A q \in Pane : (\A b \in D : b.of # q) => Left(x.all, y.all, q, 0)
  <2>1. y.all = Without(x.all, D)
    BY <1>2 DEF t
  <2> HIDE DEF D
  <2> QED
    BY <2>1, DiscardedAll
<1>4. ~HasBlocks(y, p)
  BY <1>3 DEF HasBlocks
<1>5. \A q \in Pane \ {p} : Left(x.all, y.all, q, 0)
  BY <1>3
<1>6. y \in ClientType
  BY <1>1, <1>2, <1>3 DEF ClientType, Blocks
<1>7. /\ y.status = x.status /\ y.silent = x.silent /\ y.past = x.past
      /\ y.pending = x.pending /\ y.armed = x.armed /\ y.known = x.known
      /\ y.cp = x.cp /\ y.due = x.due /\ y.view = x.view /\ y.pausing = x.pausing
      /\ y.fill = x.fill
  BY <1>1 DEF ClientType
<1> QED
  BY <1>3, <1>4, <1>5, <1>6, <1>7

(* Discarding the blocks of a pane keeps the client in order. *)
LEMMA DiscardGood ==
    ASSUME NEW x, NEW p \in Pane, NEW pn \in Panes, NEW m \in [Pane -> Nat],
           Good(x, pn, m), m[p] = 0
    PROVE  Good(Discard(x, p), pn, m)
<1> DEFINE y == Discard(x, p)
<1>0. x \in ClientType /\ y = Discard(x, p)
  BY DEF Good
<1> HIDE DEF y
<1>1. /\ y \in ClientType
      /\ y.status = x.status /\ y.silent = x.silent /\ y.past = x.past
      /\ y.pending = x.pending /\ y.armed = x.armed /\ y.known = x.known
      /\ y.cp = x.cp /\ y.due = x.due
      /\ ~HasBlocks(y, p) /\ Fewer(x, y)
      /\ \A q \in Pane \ {p} : Left(x.all, y.all, q, 0)
  BY <1>0, DiscardIs
<1>2. Elsewhere(x, y, p)
  BY <1>1 DEF Elsewhere
<1>3. AtPane(y, p, pn[p], m[p])
  <2> DEFINE b == pn[p]
  <2>1. b \in PaneType /\ AtPane(x, p, b, 0)
    BY DEF Panes, Good
  <2>2. Streams(y, p) => Streams(x, p)
    BY <1>1 DEF Streams
  <2>3. y.cp[p] = x.cp[p] /\ y.due[p] = x.due[p] /\ y.past[p] = x.past[p]
    BY <1>1
  <2> HIDE DEF b
  <2>4. AtPane(y, p, b, 0)
    BY <1>0, <1>1, <2>1, <2>2, <2>3, AtDiscard
  <2> QED
    BY <2>4 DEF b
<1>4. Good(y, pn, m)
  BY <1>1, <1>2, <1>3, ElsewhereGood
<1> QED
  BY <1>4 DEF y

(* The blocks of p go and the client pauses it. *)
LEMMA DropGood ==
    ASSUME NEW x, NEW p \in Pane, NEW pn \in Panes,
           NEW m \in [Pane -> Nat], NEW k \in [Pane -> Nat],
           Good(x, pn, m), \A q \in Pane \ {p} : k[q] = m[q]
    PROVE  Good(Discard([x EXCEPT !.cp[p].paused = TRUE], p), pn, k)
<1> DEFINE c == [x.cp EXCEPT ![p].paused = TRUE]
           z == [x EXCEPT !.cp = c]
           y == Discard(z, p)
<1>0. x \in ClientType
  BY DEF Good
<1>1. /\ c \in [Pane -> ControlPane] /\ c[p].paused = TRUE
      /\ c[p].queued = x.cp[p].queued
      /\ \A q \in Pane \ {p} : c[q] = x.cp[q]
  BY <1>0 DEF ClientType, ControlPane
<1>2. Discard([x EXCEPT !.cp[p].paused = TRUE], p) = y
  <2>1. [x EXCEPT !.cp[p].paused = TRUE] = z
    BY <1>0 DEF ClientType
  <2> QED
    BY <2>1
<1> HIDE DEF c
<1>3. z \in ClientType
  BY <1>0, <1>1 DEF ClientType
<1>4. /\ z.status = x.status /\ z.silent = x.silent /\ z.past = x.past
      /\ z.pending = x.pending /\ z.armed = x.armed /\ z.known = x.known
      /\ z.cp = c /\ z.due = x.due /\ z.all = x.all
  BY <1>0 DEF ClientType
<1>y. y = Discard(z, p)
  OBVIOUS
<1> HIDE DEF z, y
<1>5. /\ y \in ClientType
      /\ y.status = z.status /\ y.silent = z.silent /\ y.past = z.past
      /\ y.pending = z.pending /\ y.armed = z.armed /\ y.known = z.known
      /\ y.cp = z.cp /\ y.due = z.due
      /\ ~HasBlocks(y, p) /\ Fewer(z, y)
      /\ \A q \in Pane \ {p} : Left(z.all, y.all, q, 0)
  BY <1>3, <1>y, DiscardIs
<1>6. Elsewhere(x, y, p)
  BY <1>1, <1>4, <1>5 DEF Elsewhere
<1>7. AtPane(y, p, pn[p], k[p])
  <2> DEFINE b == pn[p]
             i == m[p]
             j == k[p]
  <2>1. /\ b \in PaneType /\ AtPane(x, p, b, i) /\ i \in Nat /\ j \in Nat
        /\ x.cp[p].queued <= b.parsed
    BY DEF Panes, Good, AtPane, Read
  <2>2. Fewer(x, y)
    BY <1>4, <1>5 DEF Fewer
  <2>3. Scheduled(y, p) /\ ~Streams(y, p)
    BY <1>1, <1>4, <1>5 DEF Scheduled, Streams
  <2>4. /\ p \in y.known => p \in x.known /\ y.cp[p].queued = x.cp[p].queued
        /\ y.cp[p].queued <= b.parsed /\ y.past[p] = x.past[p]
    BY <1>1, <1>4, <1>5, <2>1
  <2> HIDE DEF b, i, j
  <2>5. AtPane(y, p, b, j)
    BY <1>0, <1>5, <2>1, <2>2, <2>3, <2>4, AtStopped
  <2> QED
    BY <2>5 DEF b, j
<1>8. Good(y, pn, k)
  BY <1>5, <1>6, <1>7, ElsewhereGood
<1> QED
  BY <1>2, <1>8

-----------------------------------------------------------------------------
(* Lines.                                                                    *)

(* A set of natural numbers has a least element. *)
LEMMA LeastIs ==
    ASSUME NEW S \in SUBSET Nat, S # {}
    PROVE  Min(S) \in S /\ \A y \in S : Min(S) <= y
<1>1. \E x \in S : \A y \in S : x <= y
  BY LeastNumber
<1> QED
  BY <1>1 DEF Min

(* A bounded set of natural numbers has a greatest element. *)
LEMMA GreatestIs ==
    ASSUME NEW S \in SUBSET Nat, S # {}, NEW B \in Nat, \A y \in S : y <= B
    PROVE  Max(S) \in S /\ \A y \in S : y <= Max(S)
<1> DEFINE U == {b \in Nat : \A y \in S : y <= b}
<1>1. U \in SUBSET Nat /\ U # {}
  OBVIOUS
<1>2. PICK b \in U : \A c \in U : b <= c
  BY <1>1, LeastNumber
<1>3. b \in S
  <2> SUFFICES ASSUME b \notin S PROVE FALSE
    OBVIOUS
  <2>1. \A y \in S : y <= b /\ y # b /\ y \in Nat /\ b \in Nat
    BY <1>2
  <2>2. \A y \in S : y <= b - 1
    BY <2>1
  <2>3. PICK y \in S : TRUE
    OBVIOUS
  <2>4. b - 1 \in Nat
    BY <2>1, <2>3
  <2>5. b - 1 \in U
    BY <2>2, <2>4
  <2>6. b <= b - 1 /\ b \in Nat
    BY <1>2, <2>5
  <2> QED
    BY <2>6
<1>4. \E x \in S : \A y \in S : x >= y
  BY <1>2, <1>3
<1>5. Max(S) \in S /\ \A y \in S : Max(S) >= y
  BY <1>4 DEF Max
<1> QED
  BY <1>5

(* The client writes lines. *)
LEMMA PastGood ==
    ASSUME NEW x, NEW y \in ClientType, NEW pn \in Panes, Good(x, pn, Nowhere),
           y.all = x.all, y.status = x.status, y.silent = x.silent,
           y.known = x.known, y.cp = x.cp, y.due = x.due, y.pending = x.pending,
           x.armed => y.armed,
           \A p \in Pane :
              /\ y.past[p] <= pn[p].parsed
              /\ p \in x.known => y.past[p] <= x.cp[p].queued
              /\ Streams(x, p) /\ Exact(x, p) => y.past[p] <= x.cp[p].offset
    PROVE  Good(y, pn, Nowhere)
<1>0. x \in ClientType /\ IsInjective(x.pending)
  BY DEF Good
<1>1. ASSUME NEW p \in Pane
      PROVE  AtPane(y, p, pn[p], Nowhere[p])
  <2> DEFINE b == pn[p]
  <2>1. b \in PaneType /\ AtPane(x, p, b, 0) /\ y.past[p] <= b.parsed
    BY NowhereFacts DEF Panes, Good
  <2> HIDE DEF b
  <2>2. AtPane(y, p, b, 0)
    BY <1>0, <2>1, AtPast
  <2> QED
    BY <2>2, NowhereFacts DEF b
<1> QED
  BY <1>0, <1>1 DEF Good

(* A line waits for no more than what is queued, which has been read. *)
LEMMA QueuedFacts ==
    ASSUME NEW x, NEW pn \in Panes, NEW m \in [Pane -> Nat], Good(x, pn, m)
    PROVE  /\ Queued(x) \in [Pane -> Nat]
           /\ \A p \in Pane : /\ Queued(x)[p] <= x.cp[p].queued
                              /\ Queued(x)[p] <= pn[p].parsed
<1>0. x \in ClientType
  BY DEF Good
<1>1. ASSUME NEW p \in Pane
      PROVE  /\ Queued(x)[p] \in Nat /\ Queued(x)[p] <= x.cp[p].queued
             /\ Queued(x)[p] <= pn[p].parsed
  <2>1. AtPane(x, p, pn[p], m[p]) /\ pn[p] \in PaneType
    BY DEF Good, Panes
  <2>2. x.cp[p].queued \in Nat /\ pn[p].parsed \in Nat /\ x.cp[p].queued <= pn[p].parsed
    BY <1>0, <2>1, AtClient, PaneFacts DEF AtPane, Read
  <2>3. Queued(x)[p] = IF p \in x.known THEN x.cp[p].queued ELSE 0
    BY DEF Queued
  <2> QED
    BY <2>2, <2>3
<1>2. Queued(x) \in [Pane -> Nat]
  BY <1>1 DEF Queued
<1> QED
  BY <1>1, <1>2

(* Writing a line, or queuing it, keeps the client in order. *)
LEMMA WriteLineGood ==
    ASSUME NEW x, NEW pn \in Panes, Good(x, pn, Nowhere)
    PROVE  Good(WriteLine(x), pn, Nowhere)
<1>0. x \in ClientType
  BY DEF Good
<1>q. /\ Queued(x) \in [Pane -> Nat]
      /\ \A p \in Pane : /\ Queued(x)[p] <= x.cp[p].queued
                         /\ Queued(x)[p] <= pn[p].parsed
  BY NowhereFacts, QueuedFacts
<1>1. CASE x.all = <<>>
  <2> DEFINE v == [p \in Pane |-> Larger(x.past[p], Queued(x)[p])]
             f == x.fill + 1
             y == [x EXCEPT !.fill = f, !.armed = TRUE, !.past = v]
  <2>1. v \in [Pane -> Nat] /\ \A p \in Pane : v[p] = x.past[p] \/ v[p] = Queued(x)[p]
    BY <1>0, <1>q, AtClient DEF Larger
  <2>2. WriteLine(x) = y
    BY <1>1 DEF WriteLine
  <2>f. f \in Nat /\ v \in [Pane -> Position]
    BY <1>0, <2>1, ClientFacts DEF Position
  <2> HIDE DEF v, f
  <2>3. y \in ClientType
    BY <1>0, <2>f DEF ClientType
  <2>4. /\ y.all = x.all /\ y.status = x.status /\ y.silent = x.silent
        /\ y.known = x.known /\ y.cp = x.cp /\ y.due = x.due /\ y.pending = x.pending
        /\ (x.armed => y.armed) /\ y.past = v
    BY <1>0 DEF ClientType
  <2> HIDE DEF y
  <2>5. ASSUME NEW p \in Pane
        PROVE  /\ y.past[p] <= pn[p].parsed
               /\ p \in x.known => y.past[p] <= x.cp[p].queued
               /\ Streams(x, p) /\ Exact(x, p) => y.past[p] <= x.cp[p].offset
    <3>1. AtPane(x, p, pn[p], 0) /\ pn[p] \in PaneType
      BY NowhereFacts DEF Good, Panes
    <3>2. /\ x.past[p] <= pn[p].parsed
          /\ p \in x.known => x.past[p] <= x.cp[p].queued
          /\ Streams(x, p) => p \in x.known
      BY <3>1 DEF AtPane, Read, Streams
    <3>3. y.past[p] <= pn[p].parsed /\ (p \in x.known => y.past[p] <= x.cp[p].queued)
      BY <1>q, <2>1, <2>4, <3>2
    <3>4. Bytes(x, p) = 0
      BY <1>0, <1>1, ClientFacts, AheadStep DEF Bytes
    <3>5. Exact(x, p) => x.cp[p].queued = x.cp[p].offset
      BY <1>0, <3>4, AtClient DEF Exact
    <3> QED
      BY <3>2, <3>3, <3>5
  <2>6. Good(y, pn, Nowhere)
    BY <2>3, <2>4, <2>5, PastGood
  <2> QED
    BY <2>2, <2>6
<1>2. CASE x.all # <<>>
  <2> DEFINE e == [of |-> Line, size |-> 0, after |-> Queued(x)]
             t == Append(x.all, e)
             y == [x EXCEPT !.armed = TRUE, !.all = t]
  <2>1. e \in Block /\ \A p \in Pane : Adds(e, p) = 0 /\ e.after[p] = Queued(x)[p]
    BY <1>q, ControlAssumption DEF Block, Position, Adds
  <2>2. WriteLine(x) = y
    BY <1>2 DEF WriteLine
  <2> HIDE DEF e
  <2>3. t \in Blocks /\ Appended(x.all, t, e)
    BY <1>0, <2>1, ClientFacts, AppendIs
  <2>e. e.of = Line
    BY DEF e
  <2> HIDE DEF t
  <2>4. y \in ClientType
    BY <1>0, <2>3 DEF ClientType, Blocks
  <2>5. /\ y.all = t /\ y.status = x.status /\ y.silent = x.silent
        /\ y.known = x.known /\ y.cp = x.cp /\ y.due = x.due /\ y.pending = x.pending
        /\ y.armed /\ y.past = x.past
    BY <1>0 DEF ClientType
  <2> HIDE DEF y
  <2>6. ASSUME NEW p \in Pane
        PROVE  AtPane(y, p, pn[p], Nowhere[p])
    <3> DEFINE b == pn[p]
    <3>1. b \in PaneType /\ AtPane(x, p, b, 0) /\ x.cp[p].queued <= b.parsed
      BY NowhereFacts DEF Good, Panes, AtPane, Read
    <3> HIDE DEF b
    <3>2. HasBlocks(y, p) => HasBlocks(x, p)
      <4> SUFFICES ASSUME NEW k \in DOMAIN t, t[k].of = p
                   PROVE  \E j \in DOMAIN x.all : x.all[j].of = p
        BY <2>5 DEF HasBlocks
      <4>0. /\ DOMAIN t = 1 .. Len(t) /\ DOMAIN x.all = 1 .. Len(x.all)
            /\ Len(x.all) \in Nat /\ Len(t) = Len(x.all) + 1
        BY <1>0, <2>3, ClientFacts DEF Blocks, Appended
      <4>1. k # Len(x.all) + 1
        BY <2>3, <2>e, ControlAssumption DEF Appended
      <4>2. k \in 1 .. Len(x.all)
        BY <4>0, <4>1
      <4>3. t[k] = x.all[k]
        BY <2>3, <4>2 DEF Appended
      <4> QED
        BY <4>0, <4>2, <4>3
    <3>3. Scheduled(y, p)
      BY <2>5, <3>1, <3>2 DEF AtPane, Scheduled
    <3>4. /\ Streams(y, p) => Streams(x, p)
          /\ y.cp[p].offset = x.cp[p].offset
          /\ y.cp[p].queued = x.cp[p].queued + Adds(e, p)
          /\ y.cp[p].queued <= b.parsed
          /\ y.due[p] = x.due[p] /\ y.past[p] = x.past[p]
          /\ e.after[p] <= x.cp[p].queued
      BY <1>0, <1>q, <2>1, <2>5, <3>1, AtClient DEF Streams
    <3>5. AtPane(y, p, b, 0)
      <4>1. 0 \in Nat /\ Appended(x.all, y.all, e)
        BY <2>3, <2>5
      <4> QED
        BY <1>0, <2>1, <2>4, <2>5, <3>1, <3>3, <3>4, <4>1, AtAppend
    <3> QED
      BY <3>5, NowhereFacts DEF b
  <2>7. Good(y, pn, Nowhere)
    <3>1. IsInjective(y.pending)
      BY <2>5 DEF Good
    <3> QED
      BY <2>4, <2>6, <3>1 DEF Good
  <2> QED
    BY <2>2, <2>7
<1> QED
  BY <1>1, <1>2

(* Writing the lines ahead of all output keeps the client in order. *)
LEMMA FlushLinesGood ==
    ASSUME NEW x, NEW pn \in Panes, Good(x, pn, Nowhere)
    PROVE  Good(FlushLines(x), pn, Nowhere)
<1> DEFINE L == Len(x.all)
           out == {i \in DOMAIN x.all : IsOutput(x.all[i])}
           n == IF out = {} THEN L ELSE Min(out) - 1
           S(p) == {x.past[p]} \cup {x.all[i].after[p] : i \in 1 .. n}
           v == [p \in Pane |-> Max(S(p))]
           f == x.fill + n
           t == SubSeq(x.all, n + 1, L)
           z == [x EXCEPT !.fill = f, !.past = v]
           y == [z EXCEPT !.all = t]
<1>0. /\ x \in ClientType /\ L \in Nat /\ DOMAIN x.all = 1 .. L
      /\ \A p \in Pane : AtPane(x, p, pn[p], 0) /\ pn[p] \in PaneType
  BY ClientFacts, NowhereFacts DEF Good, Panes
<1>1. n \in 0 .. L /\ \A i \in 1 .. n : x.all[i].of = Line
  <2>1. CASE out = {}
    BY <1>0, <2>1 DEF IsOutput
  <2>2. CASE out # {}
    <3>1. out \in SUBSET Nat
      BY <1>0
    <3>2. Min(out) \in out /\ \A i \in out : Min(out) <= i
      BY <2>2, <3>1, LeastIs
    <3> DEFINE k == Min(out)
    <3>3. k \in 1 .. L /\ n = k - 1 /\ \A i \in out : k <= i
      BY <1>0, <2>2, <3>2
    <3>4. \A i \in 1 .. L : x.all[i].of # Line => i \in out
      BY <1>0 DEF IsOutput
    <3> HIDE DEF k, out, n, L
    <3>5. ASSUME NEW i \in 1 .. n
          PROVE  x.all[i].of = Line
      <4>1. i \in 1 .. L /\ ~(k <= i)
        BY <1>0, <3>3
      <4> QED
        BY <3>3, <3>4, <4>1
    <3>6. n \in 0 .. L
      BY <1>0, <3>3
    <3> QED
      BY <3>5, <3>6
  <2> QED
    BY <2>1, <2>2
<1>2. FlushLines(x) = [x EXCEPT !.all = t, !.fill = f, !.past = v]
  <2>1. FlushLines(x) = [x EXCEPT !.all = SubSeq(@, n + 1, Len(@)), !.fill = @ + n,
          !.past = [p \in Pane |->
                      Max({@[p]} \cup {x.all[i].after[p] : i \in 1 .. n})]]
    BY DEF FlushLines
  <2> HIDE DEF n
  <2> QED
    BY <1>0, <2>1 DEF ClientType
<1> HIDE DEF n, out
<1>3. ASSUME NEW p \in Pane
      PROVE  v[p] \in Nat /\ v[p] \in S(p)
  <2>1. /\ x.past[p] \in Nat /\ x.past[p] <= pn[p].parsed /\ pn[p].parsed \in Nat
        /\ \A i \in 1 .. L : x.all[i].after[p] \in Nat /\ x.all[i].after[p] <= pn[p].parsed
    BY <1>0, AtClient, PaneFacts DEF AtPane, Read
  <2>2. \A i \in 1 .. n : i \in 1 .. L
    BY <1>0, <1>1
  <2>3. /\ S(p) \in SUBSET Nat /\ S(p) # {} /\ pn[p].parsed \in Nat
        /\ \A j \in S(p) : j <= pn[p].parsed
    BY <2>1, <2>2
  <2> DEFINE R == S(p)
             B == pn[p].parsed
  <2>4. R \in SUBSET Nat /\ R # {} /\ B \in Nat /\ \A j \in R : j <= B
    BY <2>3
  <2> HIDE DEF R, B
  <2>5. Max(R) \in R
    BY <2>4, GreatestIs
  <2>6. v[p] = Max(R)
    BY DEF R
  <2>7. v[p] \in R /\ v[p] \in Nat
    BY <2>4, <2>5, <2>6
  <2> QED
    BY <2>7 DEF R
<1>4. v \in [Pane -> Position] /\ f \in Nat /\ t \in Blocks
  <2>1. n \in Nat /\ x.fill \in Nat /\ x.all \in Seq(Block)
    BY <1>0, <1>1, ClientFacts DEF Blocks
  <2>2. f \in Nat
    BY <2>1
  <2>3. t \in Blocks
    BY <1>1, <2>1, <1>0 DEF Blocks
  <2>4. \A p \in Pane : v[p] \in Position
    BY <1>3 DEF Position
  <2>5. v = [p \in Pane |-> v[p]]
    OBVIOUS
  <2> HIDE DEF v
  <2>6. v \in [Pane -> Position]
    BY <2>4, <2>5
  <2> QED
    BY <2>2, <2>3, <2>6
<1>5. \A p \in Pane : Left(x.all, t, p, 0)
  <2> TAKE p \in Pane
  <2>1. x.all \in Blocks /\ \A i \in 1 .. n : x.all[i].of # p
    BY <1>0, <1>1, ClientFacts, ControlAssumption
  <2> QED
    BY <1>1, <2>1, LeftTail
<1>6. ASSUME NEW p \in Pane
      PROVE  v[p] = x.past[p] \/ \E i \in 1 .. n : v[p] = x.all[i].after[p]
  BY <1>3
<1>7. \A p \in Pane : \A i \in 1 .. n : i \in 1 .. L /\ Ahead(x.all, p, i - 1) = 0
  <2> TAKE p \in Pane
  <2>1. x.all \in Blocks /\ \A i \in 1 .. n : x.all[i].of # p
    BY <1>0, <1>1, ClientFacts, ControlAssumption
  <2>2. \A i \in 0 .. n : Ahead(x.all, p, i) = 0
    BY <1>1, <2>1, AheadNone
  <2>3. \A i \in 1 .. n : i \in 1 .. L /\ i - 1 \in 0 .. n
    BY <1>0, <1>1
  <2> QED
    BY <2>2, <2>3
<1>y. FlushLines(x) = y
  BY <1>0, <1>2 DEF ClientType
<1> HIDE DEF v, t, f, S
<1>8. z \in ClientType
  BY <1>0, <1>4 DEF ClientType
<1>9. /\ z.all = x.all /\ z.status = x.status /\ z.silent = x.silent
      /\ z.known = x.known /\ z.cp = x.cp /\ z.due = x.due /\ z.pending = x.pending
      /\ z.armed = x.armed /\ z.past = v
  BY <1>0 DEF ClientType
<1> HIDE DEF z
<1>10. ASSUME NEW p \in Pane
       PROVE  /\ z.past[p] <= pn[p].parsed
              /\ p \in x.known => z.past[p] <= x.cp[p].queued
              /\ Streams(x, p) /\ Exact(x, p) => z.past[p] <= x.cp[p].offset
  <2>1. /\ x.past[p] <= pn[p].parsed
        /\ \A i \in 1 .. L : x.all[i].after[p] <= pn[p].parsed
        /\ p \in x.known => x.past[p] <= x.cp[p].queued
        /\ p \in x.known => \A i \in 1 .. L : x.all[i].after[p] <= x.cp[p].queued
    BY <1>0 DEF AtPane, Read
  <2>2. Streams(x, p) /\ Exact(x, p) =>
          /\ x.past[p] + 0 <= x.cp[p].offset
          /\ \A i \in 1 .. L : x.all[i].after[p] <= x.cp[p].offset + Ahead(x.all, p, i - 1)
    BY <1>0 DEF AtPane, InOrder
  <2>3. z.past[p] = v[p] /\ x.past[p] \in Nat /\ x.cp[p].offset \in Nat
    BY <1>0, <1>9, AtClient
  <2>4. CASE v[p] = x.past[p]
    BY <2>1, <2>2, <2>3, <2>4
  <2>5. CASE \E i \in 1 .. n : v[p] = x.all[i].after[p]
    <3>1. PICK i \in 1 .. n : v[p] = x.all[i].after[p]
      BY <2>5
    <3>2. i \in 1 .. L /\ Ahead(x.all, p, i - 1) = 0
      BY <1>7
    <3>3. Streams(x, p) /\ Exact(x, p) => x.all[i].after[p] <= x.cp[p].offset + 0
      BY <2>2, <3>2
    <3>4. x.all[i].after[p] <= pn[p].parsed
      BY <2>1, <3>2
    <3>5. p \in x.known => x.all[i].after[p] <= x.cp[p].queued
      BY <2>1, <3>2
    <3> QED
      BY <2>3, <3>1, <3>3, <3>4, <3>5
  <2> QED
    BY <1>6, <2>4, <2>5
<1>11. Good(z, pn, Nowhere)
  BY <1>8, <1>9, <1>10, PastGood
<1>12. y \in ClientType
  BY <1>4, <1>8 DEF ClientType, Blocks
<1>13. /\ y.all = t /\ y.status = z.status /\ y.silent = z.silent
       /\ y.known = z.known /\ y.cp = z.cp /\ y.due = z.due /\ y.pending = z.pending
       /\ y.armed = z.armed /\ y.past = z.past
  BY <1>8 DEF ClientType
<1> HIDE DEF y
<1>14. ASSUME NEW p \in Pane
       PROVE  AtPane(y, p, pn[p], Nowhere[p])
  <2> DEFINE b == pn[p]
  <2>1. b \in PaneType /\ AtPane(z, p, b, 0)
    BY <1>0, <1>11, NowhereFacts DEF Good
  <2>2. Follows(z, y, p, 0)
    <3>1. Left(z.all, y.all, p, 0)
      BY <1>5, <1>9, <1>13
    <3>2. z.cp[p].offset + 0 = z.cp[p].offset
      BY <1>8, AtClient
    <3>3. Streams(y, p) => Streams(z, p)
      BY <1>13 DEF Streams
    <3> QED
      BY <1>13, <3>1, <3>2, <3>3 DEF Follows
  <2>3. y.due[p] + 0 = z.due[p] + 0 + 0
    BY <1>8, <1>13, AtClient
  <2> HIDE DEF b
  <2>4. AtPane(y, p, b, 0)
    <3>1. 0 \in Nat /\ 0 <= 0 + 0
      OBVIOUS
    <3> QED
      BY <1>8, <1>12, <2>1, <2>2, <2>3, <3>1, AtFollows
  <2> QED
    BY <2>4, NowhereFacts DEF b
<1>15. Good(y, pn, Nowhere)
  <2>1. IsInjective(y.pending)
    BY <1>11, <1>13 DEF Good
  <2> QED
    BY <1>12, <1>14, <2>1 DEF Good
<1> QED
  BY <1>y, <1>15

-----------------------------------------------------------------------------
(* Clients that are sent nothing any more, and blocks of output.             *)

(* DiscardAll, field by field. *)
LEMMA DiscardAllIs ==
    ASSUME NEW x \in ClientType, NEW y, y = DiscardAll(x)
    PROVE  /\ y \in ClientType
           /\ y.status = x.status /\ y.silent = x.silent /\ y.past = x.past
           /\ y.pending = x.pending /\ y.armed = x.armed /\ y.known = x.known
           /\ y.cp = x.cp /\ y.due = x.due /\ y.view = x.view /\ y.pausing = x.pausing
           /\ y.fill = x.fill
           /\ Fewer(x, y) /\ \A p \in Pane : ~HasBlocks(y, p)
<1> DEFINE D == {b \in Range(x.all) : IsOutput(b)}
           t == Without(x.all, D)
<1>1. y = [x EXCEPT !.all = t]
  BY DEF DiscardAll
<1>2. y.all = t
  BY <1>1 DEF ClientType
<1> HIDE DEF t
<1>3. /\ y.all \in Blocks /\ Fewer(x, y)
      /\ \A k \in DOMAIN y.all : y.all[k] \in Range(x.all) \ D
  <2>1. y.all = Without(x.all, D)
    BY <1>2 DEF t
  <2> HIDE DEF D
  <2> QED
    BY <2>1, DiscardedAll
<1>4. \A p \in Pane : ~HasBlocks(y, p)
  <2>1. \A k \in DOMAIN y.all : y.all[k].of = Line
    BY <1>3 DEF IsOutput
  <2> QED
    BY <2>1, ControlAssumption DEF HasBlocks
<1>6. y \in ClientType
  BY <1>1, <1>2, <1>3 DEF ClientType, Blocks
<1>7. /\ y.status = x.status /\ y.silent = x.silent /\ y.past = x.past
      /\ y.pending = x.pending /\ y.armed = x.armed /\ y.known = x.known
      /\ y.cp = x.cp /\ y.due = x.due /\ y.view = x.view /\ y.pausing = x.pausing
      /\ y.fill = x.fill
  BY <1>1 DEF ClientType
<1> QED
  BY <1>3, <1>4, <1>6, <1>7

(* A new status changes nothing else. *)
LEMMA StatusIs ==
    ASSUME NEW x \in ClientType, NEW y,
           NEW st \in {"attached", "suspended", "exiting", "exited", "lost"},
           y = [x EXCEPT !.status = st]
    PROVE  /\ y \in ClientType
           /\ y.status = st /\ y.silent = x.silent /\ y.past = x.past
           /\ y.pending = x.pending /\ y.armed = x.armed /\ y.known = x.known
           /\ y.cp = x.cp /\ y.due = x.due /\ y.view = x.view /\ y.pausing = x.pausing
           /\ y.fill = x.fill /\ y.all = x.all
BY DEF ClientType

(* A client that exits is sent nothing any more. *)
LEMMA ExitingGood ==
    ASSUME NEW x, NEW pn \in Panes, NEW m \in [Pane -> Nat], NEW k \in [Pane -> Nat],
           Good(x, pn, m)
    PROVE  Good(Exiting(x), pn, k)
<1> DEFINE z == DiscardAll(x)
           y == [z EXCEPT !.status = "exiting"]
<1>0. x \in ClientType /\ IsInjective(x.pending) /\ z = DiscardAll(x)
  BY DEF Good
<1>1. Exiting(x) = y
  BY DEF Exiting
<1> HIDE DEF z
<1>2. /\ z \in ClientType /\ z.past = x.past /\ z.pending = x.pending
      /\ z.known = x.known /\ z.cp = x.cp
      /\ Fewer(x, z) /\ \A p \in Pane : ~HasBlocks(z, p)
  BY <1>0, DiscardAllIs
<1>3. /\ y \in ClientType /\ y.status = "exiting" /\ y.past = z.past
      /\ y.pending = z.pending /\ y.known = z.known /\ y.cp = z.cp /\ y.all = z.all
  BY <1>2 DEF ClientType
<1> HIDE DEF y
<1>4. Fewer(x, y) /\ \A p \in Pane : ~HasBlocks(y, p) /\ ~Streams(y, p)
  BY <1>2, <1>3 DEF Fewer, HasBlocks, Streams
<1>5. IsInjective(y.pending) /\ y.past = x.past /\ y.known = x.known /\ y.cp = x.cp
  BY <1>0, <1>2, <1>3
<1>6. Good(y, pn, k)
  BY <1>3, <1>4, <1>5, StopGood
<1> QED
  BY <1>1, <1>6

(* server_client_check_exit changes only clients that are exiting. *)
LEMMA CheckExitGood ==
    ASSUME NEW x, NEW pn \in Panes, NEW m \in [Pane -> Nat], Good(x, pn, m)
    PROVE  /\ Good(CheckExit(x), pn, m)
           /\ CheckExit(x).status \in {"attached", "suspended"} =>
                 CheckExit(x) = x
           /\ CheckExit(x).status # "lost" <=> x.status # "lost"
<1> DEFINE z == DiscardAll(x)
           y == [z EXCEPT !.status = "exited"]
<1>0. x \in ClientType /\ IsInjective(x.pending) /\ z = DiscardAll(x)
  BY DEF Good
<1>1. CheckExit(x) = x \/ (x.status = "exiting" /\ (CheckExit(x) = z \/ CheckExit(x) = y))
  <2> DEFINE none == z.all = <<>> /\ z.fill = 0
  <2>1. CASE x.status # "exiting"
    <3>1. CheckExit(x) = x
      BY <2>1 DEF CheckExit
    <3> QED
      BY <3>1
  <2>2. CASE x.status = "exiting" /\ none
    <3>1. CheckExit(x) = [DiscardAll(x) EXCEPT !.status = "exited"]
      BY <2>2 DEF CheckExit
    <3> QED
      BY <2>2, <3>1
  <2>3. CASE x.status = "exiting" /\ ~none
    <3>1. CheckExit(x) = DiscardAll(x)
      BY <2>3 DEF CheckExit
    <3> QED
      BY <2>3, <3>1
  <2> QED
    BY <2>1, <2>2, <2>3
<1> HIDE DEF z
<1>2. /\ z \in ClientType /\ z.past = x.past /\ z.pending = x.pending
      /\ z.known = x.known /\ z.cp = x.cp /\ z.status = x.status
      /\ Fewer(x, z) /\ \A p \in Pane : ~HasBlocks(z, p)
  BY <1>0, DiscardAllIs
<1>3. /\ y \in ClientType /\ y.status = "exited" /\ y.past = z.past
      /\ y.pending = z.pending /\ y.known = z.known /\ y.cp = z.cp /\ y.all = z.all
  BY <1>2 DEF ClientType
<1> HIDE DEF y
<1>4. CASE x.status = "exiting" /\ CheckExit(x) = z
  <2>1. \A p \in Pane : ~HasBlocks(z, p) /\ ~Streams(z, p)
    BY <1>2, <1>4 DEF Streams
  <2>2. Good(z, pn, m)
    BY <1>0, <1>2, <2>1, StopGood
  <2> QED
    BY <1>2, <1>4, <2>2
<1>5. CASE x.status = "exiting" /\ CheckExit(x) = y
  <2>1. Fewer(x, y) /\ \A p \in Pane : ~HasBlocks(y, p) /\ ~Streams(y, p)
    BY <1>2, <1>3 DEF Fewer, HasBlocks, Streams
  <2>2. IsInjective(y.pending) /\ y.past = x.past /\ y.known = x.known /\ y.cp = x.cp
    BY <1>0, <1>2, <1>3
  <2>3. Good(y, pn, m)
    BY <1>3, <2>1, <2>2, StopGood
  <2> QED
    BY <1>3, <1>5, <2>3
<1> QED
  BY <1>1, <1>4, <1>5

(* A pane that is too far behind is paused, or the client exits. *)
LEMMA TooOldGood ==
    ASSUME NEW x, NEW p \in Pane, NEW pn \in Panes, NEW m \in [Pane -> Nat],
           Good(x, pn, m), \A q \in Pane \ {p} : m[q] = 0
    PROVE  Good(TooOld(x, p), pn, Nowhere)
<1>1. \A q \in Pane \ {p} : Nowhere[q] = m[q]
  BY NowhereFacts
<1>2. Good(Discard([x EXCEPT !.cp[p].paused = TRUE], p), pn, Nowhere)
  BY <1>1, NowhereFacts, DropGood
<1>3. Good(WriteLine(Discard([x EXCEPT !.cp[p].paused = TRUE], p)), pn, Nowhere)
  BY <1>2, WriteLineGood
<1>4. Good(Exiting(x), pn, Nowhere)
  BY NowhereFacts, ExitingGood
<1> QED
  BY <1>3, <1>4 DEF TooOld

(* A client that forgets all its offsets. *)
LEMMA ResetGood ==
    ASSUME NEW x, NEW pn \in Panes, NEW on \in BOOLEAN, Good(x, pn, Nowhere)
    PROVE  Good(ResetOffsets([x EXCEPT !.silent = on]), pn, Nowhere)
<1> DEFINE a == [x EXCEPT !.silent = on]
           z == DiscardAll(a)
           c == [p \in Pane |-> NoPane]
           none == {}
           empty == <<>>
           y == [z EXCEPT !.known = none, !.pending = empty, !.cp = c, !.due = Nowhere]
<1>0. x \in ClientType
  BY DEF Good
<1>1. a \in ClientType /\ a.past = x.past /\ a.all = x.all
  BY <1>0 DEF ClientType
<1>z. z = DiscardAll(a) /\ ResetOffsets(a) = y
  BY DEF ResetOffsets
<1>c. /\ c \in [Pane -> ControlPane] /\ Nowhere \in [Pane -> Position]
      /\ none \in SUBSET Pane /\ empty \in Seq(Pane)
  BY NowhereFacts DEF ControlPane, NoPane, Position
<1> HIDE DEF z, a
<1>2. /\ z \in ClientType /\ z.past = a.past
      /\ Fewer(a, z) /\ \A p \in Pane : ~HasBlocks(z, p)
  BY <1>1, <1>z, DiscardAllIs
<1> HIDE DEF c, none, empty
<1>3. y \in ClientType
  BY <1>2, <1>c DEF ClientType
<1> USE DEF none, empty
<1>4. y.known = {} /\ y.pending = <<>> /\ y.cp = c /\ y.past = z.past /\ y.all = z.all
  BY <1>2 DEF ClientType
<1> HIDE DEF y
<1>5. Fewer(x, y) /\ \A p \in Pane : ~HasBlocks(y, p) /\ ~Streams(y, p)
  BY <1>1, <1>2, <1>4 DEF Fewer, HasBlocks, Streams
<1>6. IsInjective(y.pending) /\ y.past = x.past
  BY <1>1, <1>2, <1>4 DEF IsInjective
<1>7. y.known = {} /\ y.cp = [p \in Pane |-> NoPane]
  BY <1>4 DEF c
<1>8. Good(y, pn, Nowhere)
  BY <1>3, <1>5, <1>6, <1>7, NowhereFacts, StopGood
<1> QED
  BY <1>z, <1>8 DEF a

(* A new block of p. *)
LEMMA EnqueuedGood ==
    ASSUME NEW x, NEW p \in Pane, NEW pn \in Panes, Good(x, pn, Nowhere),
           p \in x.known, ~x.cp[p].off, ~x.cp[p].paused
    PROVE  Good(Enqueued(x, p, pn[p].parsed), pn, Nowhere)
<1> DEFINE end == pn[p].parsed
           e == [of |-> p, size |-> end - x.cp[p].queued, after |-> Nowhere]
           t == Append(x.all, e)
           c == [x.cp EXCEPT ![p].queued = end]
           d == IF p \in Range(x.pending) THEN x.pending ELSE Append(x.pending, p)
           y == [x EXCEPT !.all = t, !.cp = c, !.pending = d, !.armed = TRUE]
<1>0. /\ x \in ClientType /\ IsInjective(x.pending) /\ end \in Nat
      /\ \A q \in Pane : AtPane(x, q, pn[q], 0) /\ pn[q] \in PaneType
  BY NowhereFacts, PaneFacts DEF Good, Panes
<1>1. x.cp[p].queued \in Nat /\ x.cp[p].queued <= end
  BY <1>0, AtClient DEF AtPane, Read
<1>2. Enqueued(x, p, end) = y
  BY <1>0 DEF Enqueued, ClientType
<1>3. /\ c \in [Pane -> ControlPane]
      /\ c[p].queued = end /\ c[p].offset = x.cp[p].offset
      /\ c[p].off = x.cp[p].off /\ c[p].paused = x.cp[p].paused
      /\ \A q \in Pane \ {p} : c[q] = x.cp[q]
  BY <1>0 DEF ClientType, ControlPane, Position
<1>4. /\ e \in Block /\ Adds(e, p) = end - x.cp[p].queued
      /\ \A q \in Pane : q # p => Adds(e, q) = 0
      /\ \A q \in Pane : e.after[q] = 0
  <2>1. end - x.cp[p].queued \in Nat
    BY <1>0, <1>1
  <2> HIDE DEF end
  <2> QED
    BY <2>1, NowhereFacts DEF Block, Position, Adds
<1>5. e.of = p
  OBVIOUS
<1>6. /\ d \in Seq(Pane) /\ IsInjective(d) /\ p \in Range(d)
      /\ \A q \in Range(x.pending) : q \in Range(d)
  <2> DEFINE s == x.pending
  <2>1. s \in Seq(Pane) /\ IsInjective(s)
    BY <1>0, ClientFacts
  <2> HIDE DEF s
  <2>2. CASE p \in Range(s)
    BY <2>1, <2>2 DEF s
  <2>3. CASE p \notin Range(s)
    <3> DEFINE u == Append(s, p)
    <3>1. d = u
      BY <2>3 DEF s
    <3>2. /\ u \in Seq(Pane) /\ DOMAIN u = 1 .. Len(s) + 1 /\ Len(s) \in Nat
          /\ DOMAIN s = 1 .. Len(s)
          /\ \A k \in 1 .. Len(s) : u[k] = s[k]
          /\ u[Len(s) + 1] = p
      BY <2>1
    <3> HIDE DEF u
    <3>3. \A k \in 1 .. Len(s) : s[k] # p
      BY <2>3, <3>2 DEF Range
    <3>4. IsInjective(u)
      <4> SUFFICES ASSUME NEW a \in DOMAIN u, NEW b \in DOMAIN u, u[a] = u[b]
                   PROVE  a = b
        BY DEF IsInjective
      <4>1. CASE a \in 1 .. Len(s) /\ b \in 1 .. Len(s)
        BY <2>1, <3>2, <4>1 DEF IsInjective
      <4>2. CASE a = Len(s) + 1 \/ b = Len(s) + 1
        <5>1. \A k \in DOMAIN u : k \in 1 .. Len(s) \/ k = Len(s) + 1
          BY <3>2
        <5>2. \A k \in DOMAIN u : u[k] = p => k = Len(s) + 1
          BY <3>2, <3>3, <5>1
        <5> QED
          BY <3>2, <4>2, <5>2
      <4> QED
        BY <3>2, <4>1, <4>2
    <3>5. p \in Range(u)
      <4>1. Len(s) + 1 \in DOMAIN u
        BY <3>2
      <4> QED
        BY <3>2, <4>1 DEF Range
    <3>6. \A q \in Range(s) : q \in Range(u)
      <4>1. \A k \in DOMAIN s : k \in DOMAIN u
        BY <3>2
      <4> QED
        BY <3>2, <4>1 DEF Range
    <3> QED
      BY <3>1, <3>2, <3>4, <3>5, <3>6 DEF s
  <2> QED
    BY <2>2, <2>3
<1> HIDE DEF e, c, d
<1>7. t \in Blocks /\ Appended(x.all, t, e)
  BY <1>0, <1>4, ClientFacts, AppendIs
<1> HIDE DEF t
<1>8. y \in ClientType
  BY <1>0, <1>3, <1>6, <1>7 DEF ClientType, Blocks
<1>9. /\ y.all = t /\ y.status = x.status /\ y.silent = x.silent
      /\ y.known = x.known /\ y.cp = c /\ y.due = x.due /\ y.pending = d
      /\ y.armed /\ y.past = x.past
  BY <1>0 DEF ClientType
<1> HIDE DEF y
<1>10. ASSUME NEW q \in Pane
       PROVE  AtPane(y, q, pn[q], 0)
  <2> DEFINE b == pn[q]
  <2>1. b \in PaneType /\ AtPane(x, q, b, 0) /\ x.cp[q].queued <= b.parsed
    BY <1>0 DEF AtPane, Read
  <2>2. /\ c[q].offset = x.cp[q].offset
        /\ c[q].off = x.cp[q].off /\ c[q].paused = x.cp[q].paused
    BY <1>3
  <2>3. c[q].queued = x.cp[q].queued + Adds(e, q) /\ c[q].queued <= b.parsed
    <3>1. CASE q = p
      BY <1>0, <1>1, <1>3, <1>4, <3>1
    <3>2. CASE q # p
      <4>1. c[q] = x.cp[q] /\ x.cp[q].queued \in Nat /\ Adds(e, q) = 0
        BY <1>0, <1>3, <1>4, <3>2, AtClient
      <4> QED
        BY <2>1, <4>1
    <3> QED
      BY <3>1, <3>2
  <2>4. HasBlocks(y, q) => HasBlocks(x, q) \/ q = p
    <3> SUFFICES ASSUME NEW k \in DOMAIN t, t[k].of = q, q # p
                 PROVE  \E j \in DOMAIN x.all : x.all[j].of = q
      BY <1>9 DEF HasBlocks
    <3>0. /\ DOMAIN t = 1 .. Len(t) /\ DOMAIN x.all = 1 .. Len(x.all)
          /\ Len(x.all) \in Nat /\ Len(t) = Len(x.all) + 1
      BY <1>0, <1>7, ClientFacts DEF Blocks, Appended
    <3>1. k # Len(x.all) + 1
      BY <1>5, <1>7 DEF Appended, e
    <3>2. k \in 1 .. Len(x.all)
      BY <3>0, <3>1
    <3>3. t[k] = x.all[k]
      BY <1>7, <3>2 DEF Appended
    <3> QED
      BY <3>0, <3>2, <3>3
  <2>5. Scheduled(y, q)
    <3> SUFFICES ASSUME HasBlocks(y, q)
                 PROVE  /\ q \in x.known /\ ~c[q].paused /\ ~c[q].off
                        /\ q \in Range(d)
      BY <1>9 DEF Scheduled
    <3>1. CASE q = p
      BY <1>3, <1>6, <3>1
    <3>2. CASE q # p
      BY <1>6, <2>1, <2>2, <2>4, <3>2 DEF AtPane, Scheduled
    <3> QED
      BY <3>1, <3>2
  <2>6. Streams(y, q) => Streams(x, q)
    BY <1>9, <2>2 DEF Streams
  <2>7. e.after[q] <= x.cp[q].queued
    <3>1. e.after[q] = 0 /\ x.cp[q].queued \in Nat
      BY <1>0, <1>4, AtClient
    <3> QED
      BY <3>1
  <2>8. /\ y.cp[q].offset = x.cp[q].offset
        /\ y.cp[q].queued = x.cp[q].queued + Adds(e, q) /\ y.cp[q].queued <= b.parsed
        /\ y.due[q] = x.due[q] /\ y.past[q] = x.past[q]
    BY <1>9, <2>2, <2>3
  <2> HIDE DEF b
  <2>9. AtPane(y, q, b, 0)
    <3>1. 0 \in Nat /\ Appended(x.all, y.all, e)
      BY <1>7, <1>9
    <3> QED
      BY <1>0, <1>4, <1>8, <1>9, <2>1, <2>5, <2>6, <2>7, <2>8, <3>1, AtAppend
  <2> QED
    BY <2>9 DEF b
<1>11. Good(y, pn, Nowhere)
  BY <1>6, <1>8, <1>9, <1>10, NowhereFacts DEF Good
<1> QED
  BY <1>2, <1>11

(* control_write_output keeps a client in order when the buffer of p grows. *)
LEMMA WriteOutputGood ==
    ASSUME NEW x, NEW p \in Pane, pane \in Panes, Drained(pane), NEW pm \in Panes,
           Good(x, pane, Nowhere), pane[p].parsed <= pm[p].parsed,
           pm[p].base = pane[p].base, \A q \in Pane \ {p} : pm[q] = pane[q],
           NEW old
    PROVE  Good(WriteOutput(x, p, pm[p].parsed, old), pm, Nowhere)
<1> DEFINE y == AddPane(x, p)
           end == pm[p].parsed
<1>0. Good(y, pane, Nowhere) /\ p \in y.known
  BY AddPaneGood
<1>1. \A q \in Pane : pane[q].parsed <= pm[q].parsed /\ pm[q].base = pane[q].base
  <2> TAKE q \in Pane
  <2>1. pane[q] \in PaneType
    BY DEF Panes
  <2>2. q # p => pm[q] = pane[q]
    OBVIOUS
  <2> QED
    BY <2>1, <2>2, PaneFacts
<1>2. Drained(pm)
  <2> SUFFICES ASSUME NEW q \in Pane PROVE pm[q].base <= pm[q].parsed
    BY DEF Drained
  <2>1. /\ pane[q].base <= pane[q].parsed /\ pane[q] \in PaneType /\ pm[q] \in PaneType
    BY DEF Drained, Panes
  <2> QED
    BY <1>1, <2>1, PaneFacts
<1>3. Good(x, pm, Nowhere)
  BY <1>1, NowhereFacts, GrownGood
<1> HIDE DEF y
<1>4. Good(y, pm, Nowhere)
  BY <1>0, <1>1, NowhereFacts, GrownGood
<1>5. Good(Ignored(x, p, end), pm, Nowhere) /\ Good(Ignored(y, p, end), pm, Nowhere)
  BY <1>2, <1>3, <1>4, MoveToGood DEF Ignored
<1>6. Good(TooOld(y, p), pm, Nowhere)
  <2>1. \A q \in Pane \ {p} : Nowhere[q] = 0
    BY NowhereFacts
  <2> QED
    BY <1>4, <2>1, NowhereFacts, TooOldGood
<1>7. ~(y.cp[p].off \/ y.cp[p].paused) => Good(Enqueued(y, p, end), pm, Nowhere)
  BY <1>0, <1>4, EnqueuedGood
<1> QED
  BY <1>3, <1>5, <1>6, <1>7 DEF WriteOutput, y

-----------------------------------------------------------------------------
(* What control_write_callback does to its client.                           *)

(* Bytes of p are taken from the queue or written. *)
LEMMA StepGood ==
    ASSUME NEW x, NEW y \in ClientType, NEW p \in Pane, NEW pn \in Panes,
           NEW m \in [Pane -> Nat], NEW k \in [Pane -> Nat], NEW n \in Nat,
           Good(x, pn, m), Elsewhere(x, y, p), Follows(x, y, p, n),
           y.due[p] + k[p] = x.due[p] + m[p] + n, k[p] <= m[p] + n,
           \A q \in Pane \ {p} : k[q] = m[q]
    PROVE  Good(y, pn, k)
<1>0. x \in ClientType
  BY DEF Good
<1> DEFINE b == pn[p]
           i == m[p]
           j == k[p]
<1>1. /\ b \in PaneType /\ i \in Nat /\ j \in Nat /\ AtPane(x, p, b, i)
      /\ y.due[p] + j = x.due[p] + i + n /\ j <= i + n
  BY DEF Panes, Good
<1> HIDE DEF b, i, j
<1>2. AtPane(y, p, b, j)
  BY <1>0, <1>1, AtFollows
<1>3. AtPane(y, p, pn[p], k[p])
  BY <1>2 DEF b, j
<1> QED
  BY <1>3, ElsewhereGood

(* A pane without blocks is no longer pending. *)
LEMMA NotPendingGood ==
    ASSUME NEW x, NEW p \in Pane, NEW pn \in Panes, NEW m \in [Pane -> Nat],
           Good(x, pn, m), ~HasBlocks(x, p)
    PROVE  Good([x EXCEPT !.pending = Without(@, {p})], pn, m)
<1> DEFINE t == Without(x.pending, {p})
           y == [x EXCEPT !.pending = t]
<1>0. x \in ClientType /\ IsInjective(x.pending) /\ x.pending \in Seq(Pane)
  BY ClientFacts DEF Good
<1>1. t \in Seq(Pane) /\ IsInjective(t) /\ Range(t) = Range(x.pending) \ {p}
  <2>1. t \in Seq(Pane) /\ IsInjective(t)
    BY <1>0, WithoutInjective
  <2>2. Range(t) = Range(x.pending) \ {p}
    BY <1>0, WithoutFacts
  <2> QED
    BY <2>1, <2>2
<1> HIDE DEF t
<1>2. y \in ClientType
  BY <1>0, <1>1 DEF ClientType
<1>3. /\ y.all = x.all /\ y.status = x.status /\ y.silent = x.silent
      /\ y.known = x.known /\ y.cp = x.cp /\ y.due = x.due /\ y.pending = t
      /\ y.armed = x.armed /\ y.past = x.past
  BY <1>0 DEF ClientType
<1>y. [x EXCEPT !.pending = Without(@, {p})] = y
  BY <1>0 DEF ClientType, t
<1> HIDE DEF y
<1>4. ASSUME NEW q \in Pane
      PROVE  AtPane(y, q, pn[q], m[q])
  <2> DEFINE b == pn[q]
             i == m[q]
  <2>1. b \in PaneType /\ i \in Nat /\ AtPane(x, q, b, i)
    BY DEF Panes, Good
  <2>2. Follows(x, y, q, 0)
    <3>1. Left(x.all, y.all, q, 0) /\ x.cp[q].offset + 0 = x.cp[q].offset
      <4>1. x.all \in Blocks /\ y.all = x.all
        BY <1>0, <1>3, ClientFacts
      <4>2. x.cp[q].offset \in Nat
        BY <1>0, AtClient
      <4>3. Left(x.all, x.all, q, 0)
        BY <4>1, LeftSame
      <4> QED
        BY <4>1, <4>2, <4>3
    <3>2. Streams(y, q) => Streams(x, q)
      BY <1>3 DEF Streams
    <3>3. q \in Range(x.pending) => q \in Range(y.pending) \/ ~HasBlocks(y, q)
      BY <1>1, <1>3 DEF HasBlocks
    <3> QED
      BY <1>3, <3>1, <3>2, <3>3 DEF Follows
  <2>3. y.due[q] + i = x.due[q] + i + 0 /\ i <= i + 0
    BY <1>0, <1>3, <2>1, AtClient
  <2> HIDE DEF b, i
  <2>4. AtPane(y, q, b, i)
    <3>1. 0 \in Nat
      OBVIOUS
    <3> QED
      BY <1>0, <1>2, <2>1, <2>2, <2>3, <3>1, AtFollows
  <2> QED
    BY <2>4 DEF b, i
<1>5. Good(y, pn, m)
  BY <1>1, <1>2, <1>3, <1>4 DEF Good
<1> QED
  BY <1>y, <1>5

-----------------------------------------------------------------------------
(* The inductive invariant.                                                  *)

Message(c) == [p \in Pane |-> InMessage(c, p)]

OutputInv ==
    /\ phase \in {"events", "commands"}
    /\ pane \in Panes /\ Drained(pane)
    /\ served \subseteq Client
    /\ moves \in 0 .. MaxMoves
    /\ fault \in {"none", "overrun", "not enough data"}
    /\ writing \in WriteType
    /\ phase = "commands" => writing = NotWriting
    /\ writing.client = NoClient => writing = NotWriting
    /\ writing.todo = <<>> => writing.used = 0
    /\ writing.used = 0 => writing.message = 0
    /\ cli \in [Client -> ClientType]
    /\ \A c \in Client : Good(cli[c], pane, Message(c))

(* control_write_callback is not running. *)
LEMMA NotWritingFacts ==
    /\ NotWriting \in WriteType
    /\ NotWriting.client = NoClient /\ NotWriting.todo = <<>>
    /\ NotWriting.used = 0 /\ NotWriting.message = 0
<1> DEFINE empty == <<>>
<1>1. empty \in Seq(Pane)
  OBVIOUS
<1> HIDE DEF empty
<1>2. [client |-> NoClient, todo |-> empty, limit |-> 0, used |-> 0, message |-> 0]
        \in WriteType
  BY <1>1 DEF WriteType
<1>3. NotWriting \in WriteType
  BY <1>2 DEF NotWriting, empty
<1> QED
  BY <1>3 DEF NotWriting

(* Only the client that is being written to has a message, of one pane. *)
LEMMA NoMessage ==
    ASSUME NEW c, writing.client # c \/ writing.todo = <<>>
    PROVE  Message(c) = Nowhere
BY DEF Message, InMessage, Nowhere

(* The same after a step. *)
LEMMA NoMessageNext ==
    ASSUME NEW c, writing'.client # c \/ writing'.todo = <<>>
    PROVE  Message(c)' = Nowhere
BY DEF Message, InMessage, Nowhere

(* Outside control_write_callback every client is in order as it stands. *)
LEMMA QuietFacts ==
    ASSUME OutputInv, writing = NotWriting, NEW c \in Client
    PROVE  Good(cli[c], pane, Nowhere)
<1>1. Message(c) = Nowhere
  <2>1. writing.todo = <<>>
    BY NotWritingFacts
  <2> QED
    BY <2>1, NoMessage
<1>2. Good(cli[c], pane, Message(c))
  BY DEF OutputInv
<1> QED
  BY <1>1, <1>2, Zenon

(* A step outside control_write_callback. *)
LEMMA QuietStep ==
    ASSUME OutputInv, writing' = NotWriting,
           phase' \in {"events", "commands"}, pane' \in Panes, Drained(pane'),
           served' \subseteq Client, moves' \in 0 .. MaxMoves,
           fault' \in {"none", "overrun", "not enough data"},
           cli' \in [Client -> ClientType],
           \A c \in Client : Good(cli'[c], pane', Nowhere)
    PROVE  OutputInv'
<1>1. \A c \in Client : Message(c)' = Nowhere
  BY NotWritingFacts, NoMessageNext
<1>2. \A c \in Client : Good(cli'[c], pane', Message(c)')
  BY <1>1
<1>3. /\ writing' \in WriteType
      /\ (phase' = "commands" => writing' = NotWriting)
      /\ (writing'.client = NoClient => writing' = NotWriting)
      /\ (writing'.todo = <<>> => writing'.used = 0)
      /\ (writing'.used = 0 => writing'.message = 0)
  BY NotWritingFacts
<1> QED
  BY <1>2, <1>3 DEF OutputInv

(* One client changes, outside control_write_callback. *)
LEMMA OneClient ==
    ASSUME OutputInv, writing = NotWriting, NEW c \in Client, NEW x,
           cli' = [cli EXCEPT ![c] = x], Good(x, pane, Nowhere)
    PROVE  /\ cli' \in [Client -> ClientType]
           /\ \A d \in Client : Good(cli'[d], pane, Nowhere)
<1>1. cli \in [Client -> ClientType] /\ x \in ClientType
  BY DEF OutputInv, Good
<1>2. cli' \in [Client -> ClientType]
  BY <1>1
<1>3. \A d \in Client : Good(cli[d], pane, Nowhere)
  BY QuietFacts
<1>4. \A d \in Client : Good(cli'[d], pane, Nowhere)
  <2> TAKE d \in Client
  <2>1. cli'[d] = IF d = c THEN x ELSE cli[d]
    BY <1>1
  <2> QED
    BY <1>3, <2>1
<1> QED
  BY <1>2, <1>4

(* The panes change, but not what is read of them. *)
LEMMA PanesStep ==
    ASSUME OutputInv, writing = NotWriting, NEW pm \in Panes,
           \A q \in Pane : pm[q].parsed = pane[q].parsed /\ pm[q].base = pane[q].base
    PROVE  Drained(pm) /\ \A c \in Client : Good(cli[c], pm, Nowhere)
<1>1. pane \in Panes /\ Drained(pane)
  BY DEF OutputInv
<1>2. Drained(pm)
  BY <1>1 DEF Drained
<1>3. \A q \in Pane : pane[q].parsed <= pm[q].parsed /\ pm[q].base = pane[q].base
  <2> TAKE q \in Pane
  <2>1. pane[q] \in PaneType
    BY <1>1 DEF Panes
  <2> QED
    BY <2>1, PaneFacts
<1>4. ASSUME NEW c \in Client PROVE Good(cli[c], pm, Nowhere)
  BY <1>1, <1>3, QuietFacts, NowhereFacts, GrownGood
<1> QED
  BY <1>2, <1>4

-----------------------------------------------------------------------------
(* Callbacks.                                                                *)

(* From here, one lemma for each action. *)
LEMMA PaneReadInv ==
    ASSUME OutputInv, NEW p \in Pane, NEW n \in 1 .. MaxBytes, PaneRead(p, n)
    PROVE  OutputInv'
<1> DEFINE end == pane[p].end + n
<1>0. /\ writing = NotWriting /\ writing' = writing /\ phase' = phase
      /\ served' = served /\ moves' = moves /\ fault' = fault
      /\ pane \in Panes /\ Drained(pane) /\ MaxBytes \in Nat
  BY ControlAssumption DEF PaneRead, Idle, OutputInv
<1>1. PICK old \in SUBSET Client :
        cli' = [c \in Client |-> WriteOutput(cli[c], p, end, c \in old)]
  BY DEF PaneRead
<1>2. /\ pane[p] \in PaneType /\ pane[p].parsed <= pane[p].end
      /\ pane' = [pane EXCEPT ![p].end = end, ![p].parsed = end, ![p].reading = FALSE]
  BY <1>0 DEF PaneRead, Panes
<1>3. end \in Nat /\ pane[p].parsed <= end
  BY <1>0, <1>2, PaneFacts
<1> HIDE DEF end
<1>4. /\ pane' \in Panes /\ pane'[p].parsed = end /\ pane'[p].base = pane[p].base
      /\ \A q \in Pane \ {p} : pane'[q] = pane[q]
  <2> DEFINE r == [pane[p] EXCEPT !.end = end, !.parsed = end, !.reading = FALSE]
  <2>1. pane' = [pane EXCEPT ![p] = r]
    BY <1>0, <1>2 DEF Panes
  <2>2. r \in PaneType /\ r.parsed = end /\ r.base = pane[p].base
    BY <1>2, <1>3 DEF PaneType, Position
  <2> HIDE DEF r
  <2> QED
    BY <1>0, <2>1, <2>2 DEF Panes
<1>5. ASSUME NEW c \in Client
      PROVE  Good(cli'[c], pane', Nowhere)
  <2> DEFINE pm == pane'
             old1 == c \in old
  <2>1. Good(cli[c], pane, Nowhere)
    BY <1>0, QuietFacts
  <2>2. /\ pm \in Panes /\ pm[p].parsed = end /\ pm[p].base = pane[p].base
        /\ \A q \in Pane \ {p} : pm[q] = pane[q]
    BY <1>4
  <2> HIDE DEF pm, old1
  <2>3. Good(WriteOutput(cli[c], p, pm[p].parsed, old1), pm, Nowhere)
    BY <1>0, <1>3, <2>1, <2>2, WriteOutputGood
  <2>4. cli'[c] = WriteOutput(cli[c], p, end, old1)
    BY <1>1 DEF old1
  <2> QED
    BY <2>2, <2>3, <2>4 DEF pm
<1>6. Drained(pane')
  <2> SUFFICES ASSUME NEW q \in Pane PROVE pane'[q].base <= pane'[q].parsed
    BY DEF Drained
  <2>1. pane[q].base <= pane[q].parsed /\ pane[q] \in PaneType
    BY <1>0 DEF Drained, Panes
  <2>2. CASE q = p
    BY <1>2, <1>3, <1>4, <2>1, <2>2, PaneFacts
  <2>3. CASE q # p
    BY <1>4, <2>1, <2>3
  <2> QED
    BY <2>2, <2>3
<1>7. cli' \in [Client -> ClientType]
  BY <1>1, <1>5 DEF Good
<1>8. /\ phase' \in {"events", "commands"} /\ served' \subseteq Client
      /\ moves' \in 0 .. MaxMoves /\ fault' \in {"none", "overrun", "not enough data"}
  BY <1>0 DEF OutputInv
<1> QED
  BY <1>0, <1>4, <1>5, <1>6, <1>7, <1>8, QuietStep

LEMMA PaneOverrunInv ==
    ASSUME OutputInv, NEW p \in Pane, PaneOverrun(p)
    PROVE  OutputInv'
<1>1. /\ writing = NotWriting /\ UNCHANGED <<phase, pane, cli, served, writing, moves>>
      /\ fault' = "overrun"
  BY DEF PaneOverrun, Idle
<1>2. \A c \in Client : Good(cli'[c], pane', Nowhere)
  BY <1>1, QuietFacts
<1> QED
  BY <1>1, <1>2, QuietStep DEF OutputInv

LEMMA PaneExitsInv ==
    ASSUME OutputInv, NEW p \in Pane, PaneExits(p)
    PROVE  OutputInv'
<1>1. /\ writing = NotWriting /\ UNCHANGED <<phase, cli, served, writing, moves, fault>>
      /\ pane' = [pane EXCEPT ![p].live = FALSE, ![p].reading = FALSE]
      /\ pane \in Panes
  BY DEF PaneExits, Idle, OutputInv
<1>2. /\ pane' \in Panes
      /\ \A q \in Pane : pane'[q].parsed = pane[q].parsed /\ pane'[q].base = pane[q].base
  BY <1>1 DEF Panes, PaneType
<1>3. Drained(pane') /\ \A c \in Client : Good(cli[c], pane', Nowhere)
  BY <1>1, <1>2, PanesStep
<1>4. \A c \in Client : Good(cli'[c], pane', Nowhere)
  BY <1>1, <1>3
<1> QED
  BY <1>1, <1>2, <1>3, <1>4, QuietStep DEF OutputInv

LEMMA WritableInv ==
    ASSUME OutputInv, NEW c \in Client, Writable(c)
    PROVE  OutputInv'
<1>0. /\ writing = NotWriting /\ phase = "events" /\ served' = served \cup {c}
      /\ UNCHANGED <<phase, pane, moves, fault>>
  BY DEF Writable, Idle
<1>1. PICK left \in 0 .. Larger(cli[c].fill - 1, 0) :
        LET x == [cli[c] EXCEPT !.fill = left] IN
          IF left <= Low
          THEN /\ cli' = [cli EXCEPT ![c] = FlushLines(x)]
               /\ writing' = [NotWriting EXCEPT !.client = c]
          ELSE /\ cli' = [cli EXCEPT ![c] = x]
               /\ UNCHANGED writing
  BY DEF Writable
<1> DEFINE x == [cli[c] EXCEPT !.fill = left]
<1>2. Good(cli[c], pane, Nowhere) /\ cli[c] \in ClientType
  BY <1>0, QuietFacts DEF Good
<1>3. Good(x, pane, Nowhere)
  <2>1. left \in Nat
    BY <1>2, ClientFacts DEF Larger
  <2>2. x \in ClientType
    BY <1>2, <2>1 DEF ClientType
  <2>3. /\ x.all = cli[c].all /\ x.status = cli[c].status /\ x.silent = cli[c].silent
        /\ x.known = cli[c].known /\ x.cp = cli[c].cp /\ x.due = cli[c].due
        /\ x.pending = cli[c].pending /\ x.armed = cli[c].armed /\ x.past = cli[c].past
    BY <1>2 DEF ClientType
  <2> HIDE DEF x
  <2>4. SameOutput(cli[c], x)
    BY <2>3 DEF SameOutput, Streams
  <2> QED
    BY <1>2, <2>2, <2>4, NowhereFacts, SameGood DEF OutputInv
<1>4. Good(FlushLines(x), pane, Nowhere)
  BY <1>3, FlushLinesGood DEF OutputInv
<1>5. /\ writing' \in WriteType /\ writing'.todo = <<>> /\ writing'.used = 0
      /\ writing'.message = 0 /\ (writing'.client = NoClient => writing' = NotWriting)
  <2>1. writing' = NotWriting \/ writing' = [NotWriting EXCEPT !.client = c]
    BY <1>0, <1>1
  <2>2. c # NoClient
    BY ControlAssumption
  <2> QED
    BY <2>1, <2>2, NotWritingFacts DEF WriteType
<1>6. /\ cli' \in [Client -> ClientType]
      /\ \A d \in Client : Good(cli'[d], pane, Nowhere)
  <2>1. CASE left <= Low
    <3>1. cli' = [cli EXCEPT ![c] = FlushLines(x)]
      BY <1>1, <2>1
    <3> HIDE DEF x
    <3> QED
      BY <1>0, <1>4, <3>1, OneClient
  <2>2. CASE ~(left <= Low)
    <3>1. cli' = [cli EXCEPT ![c] = x]
      BY <1>1, <2>2
    <3> HIDE DEF x
    <3> QED
      BY <1>0, <1>3, <3>1, OneClient
  <2> QED
    BY <2>1, <2>2
<1>7. \A d \in Client : Good(cli'[d], pane', Message(d)')
  BY <1>0, <1>5, <1>6, NoMessageNext
<1>8. /\ phase' = "events" /\ pane' \in Panes /\ Drained(pane')
      /\ served' \subseteq Client /\ moves' \in 0 .. MaxMoves
      /\ fault' \in {"none", "overrun", "not enough data"}
  BY <1>0 DEF OutputInv
<1> QED
  BY <1>5, <1>6, <1>7, <1>8 DEF OutputInv

(* A client's status changes and with it, at most, what it is sent. *)
LEMMA StatusInv ==
    ASSUME OutputInv, NEW c \in Client,
           NEW st \in {"attached", "suspended", "exiting"},
           cli[c].status \in {"attached", "suspended"}
    PROVE  Good(cli[c], pane, Nowhere) => Good([cli[c] EXCEPT !.status = st], pane, Nowhere)
<1> DEFINE x == cli[c]
           y == [x EXCEPT !.status = st]
<1>1. x \in ClientType /\ pane \in Panes
  BY DEF OutputInv
<1>y. y = [x EXCEPT !.status = st] /\ x.status \in {"attached", "suspended"}
  OBVIOUS
<1> HIDE DEF x, y
<1>2. /\ y \in ClientType
      /\ y.status = st /\ y.silent = x.silent /\ y.past = x.past
      /\ y.pending = x.pending /\ y.armed = x.armed /\ y.known = x.known
      /\ y.cp = x.cp /\ y.due = x.due /\ y.all = x.all
  BY <1>1, <1>y, StatusIs
<1>3. SameOutput(x, y)
  BY <1>2, <1>y DEF SameOutput, Streams
<1>4. Good(x, pane, Nowhere) => Good(y, pane, Nowhere)
  BY <1>1, <1>2, <1>3, NowhereFacts, SameGood
<1> QED
  BY <1>4 DEF x, y

LEMMA HangUpInv ==
    ASSUME OutputInv, NEW c \in Client, HangUp(c) \/ WakeUp(c)
    PROVE  OutputInv'
<1>0. /\ writing = NotWriting /\ UNCHANGED <<phase, pane, served, writing, moves, fault>>
      /\ cli[c].status \in {"attached", "suspended"}
  BY DEF HangUp, WakeUp, Idle
<1>1. PICK st \in {"attached", "suspended", "exiting"} :
        cli' = [cli EXCEPT ![c] = [cli[c] EXCEPT !.status = st]]
  <2>0. cli \in [Client -> ClientType]
    BY DEF OutputInv
  <2>1. CASE HangUp(c)
    BY <2>0, <2>1 DEF HangUp
  <2>2. CASE WakeUp(c)
    BY <2>0, <2>2 DEF WakeUp
  <2> QED
    BY <2>1, <2>2
<1>2. Good([cli[c] EXCEPT !.status = st], pane, Nowhere)
  BY <1>0, QuietFacts, StatusInv
<1> DEFINE x == [cli[c] EXCEPT !.status = st]
<1>3. /\ cli' \in [Client -> ClientType]
      /\ \A d \in Client : Good(cli'[d], pane, Nowhere)
  <2>1. cli' = [cli EXCEPT ![c] = x] /\ Good(x, pane, Nowhere)
    BY <1>1, <1>2
  <2> HIDE DEF x
  <2> QED
    BY <1>0, <2>1, OneClient
<1>4. \A d \in Client : Good(cli'[d], pane', Nowhere)
  BY <1>0, <1>3
<1> QED
  BY <1>0, <1>3, <1>4, QuietStep DEF OutputInv

(* A client that has never been sent anything. *)
LEMMA NewGood ==
    ASSUME NEW v \in View, NEW pausing \in BOOLEAN, NEW pn \in Panes
    PROVE  Good(NewClient(v, pausing), pn, Nowhere) /\ Good(Gone(v), pn, Nowhere)
<1> DEFINE c == [p \in Pane |-> NoPane]
           none == {}
           empty == <<>>
           new(b) == [view |-> v, status |-> "attached", pausing |-> b,
                      silent |-> FALSE, known |-> none, cp |-> c, all |-> empty,
                      pending |-> empty, fill |-> 0, armed |-> FALSE,
                      due |-> Nowhere, past |-> Nowhere]
<1>1. /\ c \in [Pane -> ControlPane] /\ Nowhere \in [Pane -> Position]
      /\ none \in SUBSET Pane /\ empty \in Seq(Pane) /\ empty \in Seq(Block)
      /\ \A p \in Pane : c[p].queued = 0
      /\ DOMAIN empty = {}
  BY NowhereFacts DEF ControlPane, NoPane, Position
<1>2. \A b : NewClient(v, b) = new(b)
  BY DEF NewClient
<1>3. \A p \in Pane : p \notin none
  OBVIOUS
<1> HIDE DEF c, none, empty
<1>4. ASSUME NEW x \in ClientType, x.known = none, x.cp = c, x.all = empty,
             x.pending = empty, x.past = Nowhere
      PROVE  Good(x, pn, Nowhere)
  <2>1. ASSUME NEW p \in Pane
        PROVE  AtPane(x, p, pn[p], Nowhere[p])
    <3>1. ~HasBlocks(x, p)
      BY <1>1, <1>4 DEF HasBlocks
    <3>2. ~Streams(x, p)
      BY <1>3, <1>4 DEF Streams
    <3>3. pn[p].parsed \in Nat /\ x.cp[p].queued = 0 /\ x.past[p] = 0 /\ p \notin x.known
      BY <1>1, <1>3, <1>4, NowhereFacts, PaneFacts DEF Panes
    <3>4. Read(x, p, pn[p])
      BY <1>1, <1>4, <3>2, <3>3 DEF Read
    <3> QED
      BY <3>1, <3>2, <3>4 DEF AtPane, Scheduled, Expects, InOrder
  <2>2. IsInjective(x.pending)
    BY <1>1, <1>4 DEF IsInjective
  <2> QED
    BY <2>1, <2>2 DEF Good
<1>5. ASSUME NEW b \in BOOLEAN
      PROVE  /\ new(b) \in ClientType
             /\ new(b).known = none /\ new(b).cp = c /\ new(b).all = empty
             /\ new(b).pending = empty /\ new(b).past = Nowhere
  BY <1>1 DEF ClientType
<1> HIDE DEF new
<1>6. Good(NewClient(v, pausing), pn, Nowhere)
  BY <1>2, <1>4, <1>5
<1>7. Good(Gone(v), pn, Nowhere)
  <2> DEFINE z == new(FALSE)
             y == [z EXCEPT !.status = "lost"]
  <2>1. /\ z \in ClientType /\ z.known = none /\ z.cp = c /\ z.all = empty
        /\ z.pending = empty /\ z.past = Nowhere
    BY <1>5
  <2>2. y = [z EXCEPT !.status = "lost"]
    OBVIOUS
  <2>3. Gone(v) = y
    BY <1>2 DEF Gone
  <2> HIDE DEF z, y
  <2>4. /\ y \in ClientType /\ y.known = none /\ y.cp = c /\ y.all = empty
        /\ y.pending = empty /\ y.past = Nowhere
    BY <2>1, <2>2, StatusIs
  <2> QED
    BY <1>4, <2>3, <2>4
<1> QED
  BY <1>6, <1>7

LEMMA ClientLostInv ==
    ASSUME OutputInv, NEW c \in Client, ClientLost(c)
    PROVE  OutputInv'
<1> DEFINE x == Gone(cli[c].view)
<1>0. /\ writing = NotWriting /\ UNCHANGED <<phase, pane, served, writing, moves, fault>>
      /\ cli' = [cli EXCEPT ![c] = x] /\ pane \in Panes
      /\ cli[c].view \in View
  BY ClientFacts DEF ClientLost, Idle, OutputInv
<1>1. Good(x, pane, Nowhere)
  BY <1>0, NewGood
<1> HIDE DEF x
<1>2. /\ cli' \in [Client -> ClientType]
      /\ \A d \in Client : Good(cli'[d], pane, Nowhere)
  BY <1>0, <1>1, OneClient
<1>3. \A d \in Client : Good(cli'[d], pane', Nowhere)
  BY <1>0, <1>2
<1> QED
  BY <1>0, <1>2, <1>3, QuietStep DEF OutputInv

LEMMA EventsDoneInv ==
    ASSUME OutputInv, EventsDone
    PROVE  OutputInv'
<1>1. /\ writing = NotWriting /\ UNCHANGED <<pane, cli, served, writing, moves, fault>>
      /\ phase' = "commands"
  BY DEF EventsDone, Idle
<1>2. \A c \in Client : Good(cli'[c], pane', Nowhere)
  BY <1>1, QuietFacts
<1> QED
  BY <1>1, <1>2, QuietStep DEF OutputInv

-----------------------------------------------------------------------------
(* control_write_callback.                                                   *)

(* What control_write_callback works on. *)
LEMMA VisitingFacts ==
    ASSUME OutputInv, w # NoClient
    PROVE  /\ w \in Client /\ wx \in ClientType /\ phase = "events"
           /\ Good(wx, pane, Message(w)) /\ writing \in WriteType
           /\ Message(w) \in [Pane -> Nat]
           /\ writing.todo \in Seq(Pane) /\ writing.limit \in Nat
           /\ writing.used \in Nat /\ writing.message \in Nat
           /\ writing.todo # <<>> =>
                 /\ First \in Pane /\ Tail(writing.todo) \in Seq(Pane)
                 /\ Message(w)[First] = writing.message
                 /\ \A q \in Pane \ {First} : Message(w)[q] = 0
<1>1. /\ w \in Client /\ writing \in WriteType
      /\ writing.todo \in Seq(Pane) /\ writing.limit \in Nat
      /\ writing.used \in Nat /\ writing.message \in Nat
  BY DEF OutputInv, w, WriteType
<1>2. Good(wx, pane, Message(w))
  BY <1>1 DEF OutputInv, wx
<1>3. wx \in ClientType
  BY <1>2 DEF Good
<1>4. phase = "events"
  <2>1. phase = "commands" => writing = NotWriting
    BY DEF OutputInv
  <2>2. NotWriting.client = NoClient
    BY NotWritingFacts
  <2>3. phase # "commands"
    BY <2>1, <2>2 DEF w
  <2> QED
    BY <2>3 DEF OutputInv
<1>5. Message(w) \in [Pane -> Nat]
  <2>1. \A p \in Pane : InMessage(w, p) \in Nat
    BY <1>1 DEF InMessage
  <2> QED
    BY <2>1 DEF Message
<1>6. ASSUME writing.todo # <<>>
      PROVE  /\ First \in Pane /\ Tail(writing.todo) \in Seq(Pane)
             /\ Message(w)[First] = writing.message
             /\ \A q \in Pane \ {First} : Message(w)[q] = 0
  <2>1. First \in Pane /\ Tail(writing.todo) \in Seq(Pane)
    BY <1>1, <1>6 DEF First
  <2>2. \A q \in Pane : Message(w)[q] = IF First = q THEN writing.message ELSE 0
    BY <1>6 DEF Message, InMessage, w, First
  <2> QED
    BY <2>1, <2>2
<1> QED
  BY <1>1, <1>2, <1>3, <1>4, <1>5, <1>6

(* The client changes and is as good as what has become of the message. *)
LEMMA WriteStep ==
    ASSUME OutputInv, NEW c, c = w, c # NoClient, NEW x, NEW m \in [Pane -> Nat],
           cli' = [cli EXCEPT ![c] = x], Good(x, pane, m), Message(c)' = m,
           UNCHANGED <<phase, pane, served, moves, fault>>,
           writing' \in WriteType,
           writing'.client = c \/ writing' = NotWriting,
           writing'.todo = <<>> => writing'.used = 0,
           writing'.used = 0 => writing'.message = 0
    PROVE  OutputInv'
<1>1. c \in Client /\ phase = "events"
  BY VisitingFacts
<1>2. /\ cli \in [Client -> ClientType] /\ x \in ClientType
      /\ \A d \in Client : Good(cli[d], pane, Message(d))
  BY DEF OutputInv, Good
<1>c. writing.client = c
  BY DEF w
<1>3. cli' \in [Client -> ClientType]
  BY <1>1, <1>2, <1>c
<1>4. ASSUME NEW d \in Client
      PROVE  Good(cli'[d], pane', Message(d)')
  <2>1. CASE d = c
    <3>1. cli'[d] = x /\ pane' = pane /\ Message(d)' = m
      BY <1>1, <1>2, <2>1
    <3>2. Good(x, pane, m)
      OBVIOUS
    <3> QED
      BY <3>1, <3>2, Zenon
  <2>2. CASE d # c
    <3>1. Message(d) = Nowhere
      BY <1>c, <2>2, NoMessage
    <3>2. Message(d)' = Nowhere
      <4>1. writing'.client # d \/ writing'.todo = <<>>
        BY <1>c, <2>2, NotWritingFacts
      <4> QED
        BY <4>1, NoMessageNext
    <3>3. cli'[d] = cli[d] /\ pane' = pane
      BY <1>2, <1>c, <2>2
    <3>4. Good(cli[d], pane, Nowhere)
      BY <1>2, <3>1
    <3> QED
      BY <3>2, <3>3, <3>4, Zenon
  <2> QED
    BY <2>1, <2>2
<1>5. writing'.client = NoClient => writing' = NotWriting
  BY <1>c
<1>6. /\ phase' = "events" /\ pane' \in Panes /\ Drained(pane')
      /\ served' \subseteq Client /\ moves' \in 0 .. MaxMoves
      /\ fault' \in {"none", "overrun", "not enough data"}
  BY <1>1 DEF OutputInv
<1> QED
  BY <1>3, <1>4, <1>5, <1>6 DEF OutputInv

(* control_write_callback goes on to the next pane of the turn. *)
LEMMA NextPaneInv ==
    ASSUME OutputInv, w # NoClient, writing.todo # <<>>, NEW x,
           Good(x, pane, Nowhere), NextPane(x, First),
           UNCHANGED <<phase, pane, served, moves, fault>>
    PROVE  OutputInv'
<1> DEFINE p == First
           y == IF HasBlocks(x, p) THEN x
                ELSE [x EXCEPT !.pending = Without(@, {p})]
           t == Tail(writing.todo)
<1>1. /\ p \in Pane /\ t \in Seq(Pane) /\ pane \in Panes /\ writing \in WriteType
  BY VisitingFacts DEF OutputInv
<1>2. Good(y, pane, Nowhere)
  <2>1. ASSUME ~HasBlocks(x, p)
        PROVE  Good([x EXCEPT !.pending = Without(@, {p})], pane, Nowhere)
    <3> HIDE DEF p
    <3> QED
      BY <1>1, <2>1, NowhereFacts, NotPendingGood
  <2> QED
    BY <2>1
<1>3. /\ cli' = [cli EXCEPT ![w] = y]
      /\ writing' = [writing EXCEPT !.todo = t, !.used = 0, !.message = 0]
  BY DEF NextPane
<1> HIDE DEF p, y, t
<1>c. PICK c : c = w
  OBVIOUS
<1>4. /\ writing' \in WriteType /\ writing'.client = c /\ writing'.used = 0
      /\ writing'.message = 0
  BY <1>1, <1>3, <1>c DEF WriteType, w
<1>5. Message(c)' = Nowhere
  <2>1. \A q : InMessage(c, q)' = 0
    BY <1>4 DEF InMessage
  <2> QED
    BY <2>1 DEF Message, Nowhere
<1>6. cli' = [cli EXCEPT ![c] = y] /\ c # NoClient
  BY <1>3, <1>c
<1> QED
  BY <1>2, <1>c, <1>4, <1>5, <1>6, NowhereFacts, WriteStep

(* EV_WRITE is taken away only when nothing is left to write. *)
LEMMA DisarmedGood ==
    ASSUME NEW x, NEW pn \in Panes, NEW m \in [Pane -> Nat], Good(x, pn, m),
           x.fill > 0 \/ x.pending = <<>>
    PROVE  Good(Disarmed(x), pn, m)
<1> DEFINE a == x.armed /\ x.fill > 0
           y == [x EXCEPT !.armed = a]
<1>0. x \in ClientType /\ x.armed \in BOOLEAN /\ x.fill \in Nat
  BY ClientFacts DEF Good
<1>1. Disarmed(x) = y /\ a \in BOOLEAN /\ (x.armed => a \/ x.pending = <<>>)
  BY <1>0 DEF Disarmed
<1> HIDE DEF a
<1>2. y \in ClientType
  BY <1>0, <1>1 DEF ClientType
<1>3. /\ y.all = x.all /\ y.status = x.status /\ y.silent = x.silent
      /\ y.known = x.known /\ y.cp = x.cp /\ y.due = x.due /\ y.pending = x.pending
      /\ y.armed = a /\ y.past = x.past
  BY <1>0 DEF ClientType
<1> HIDE DEF y
<1>4. ASSUME x.pending = <<>>, NEW p \in Pane
      PROVE  ~HasBlocks(x, p)
  <2>1. Scheduled(x, p)
    BY DEF Good, AtPane
  <2>2. Range(x.pending) = {}
    BY <1>4 DEF Range
  <2> QED
    BY <2>1, <2>2 DEF Scheduled
<1>5. ASSUME NEW q \in Pane
      PROVE  AtPane(y, q, pn[q], m[q])
  <2> DEFINE b == pn[q]
             i == m[q]
  <2>1. b \in PaneType /\ i \in Nat /\ AtPane(x, q, b, i)
    BY DEF Panes, Good
  <2>2. Follows(x, y, q, 0)
    <3>1. Left(x.all, y.all, q, 0) /\ x.cp[q].offset + 0 = x.cp[q].offset
      <4>1. x.all \in Blocks /\ y.all = x.all
        BY <1>0, <1>3, ClientFacts
      <4>2. x.cp[q].offset \in Nat
        BY <1>0, AtClient
      <4>3. Left(x.all, x.all, q, 0)
        BY <4>1, LeftSame
      <4> QED
        BY <4>1, <4>2, <4>3
    <3>2. Streams(y, q) => Streams(x, q)
      BY <1>3 DEF Streams
    <3>3. x.armed => y.armed \/ ~HasBlocks(y, q)
      BY <1>1, <1>3, <1>4 DEF HasBlocks
    <3> QED
      BY <1>3, <3>1, <3>2, <3>3 DEF Follows
  <2>3. y.due[q] + i = x.due[q] + i + 0 /\ i <= i + 0
    BY <1>0, <1>3, <2>1, AtClient
  <2> HIDE DEF b, i
  <2>4. AtPane(y, q, b, i)
    <3>1. 0 \in Nat
      OBVIOUS
    <3> QED
      BY <1>0, <1>2, <2>1, <2>2, <2>3, <3>1, AtFollows
  <2> QED
    BY <2>4 DEF b, i
<1>6. Good(y, pn, m)
  <2>1. IsInjective(y.pending)
    BY <1>3 DEF Good
  <2> QED
    BY <1>2, <1>5, <2>1 DEF Good
<1> QED
  BY <1>1, <1>6

LEMMA NextTurnInv ==
    ASSUME OutputInv, NextTurn
    PROVE  OutputInv'
<1>0. /\ w # NoClient /\ writing.todo = <<>>
      /\ UNCHANGED <<phase, pane, served, moves, fault>>
  BY DEF NextTurn
<1>1. PICK c : c = w
  OBVIOUS
<1>2. /\ cli[c] \in ClientType /\ Good(cli[c], pane, Nowhere) /\ c \in Client
      /\ wx = cli[c] /\ writing \in WriteType /\ cli \in [Client -> ClientType]
      /\ writing.client = c /\ writing.used = 0 /\ writing.message = 0
  <2>1. Message(c) = Nowhere
    BY <1>0, NoMessage
  <2>2. wx = cli[c] /\ c \in Client /\ writing \in WriteType /\ writing.client = c
    BY <1>0, <1>1, VisitingFacts DEF wx, w
  <2>3. Good(cli[c], pane, Nowhere)
    BY <2>1, <2>2 DEF OutputInv
  <2> QED
    BY <1>0, <2>2, <2>3 DEF OutputInv, Good
<1>3. CASE wx.fill < High /\ wx.pending # <<>>
  <2> DEFINE n == Larger((High - wx.fill) \div Len(wx.pending), 1)
             t == wx.pending
  <2>1. writing' = [writing EXCEPT !.todo = t, !.limit = n] /\ UNCHANGED cli
    BY <1>3 DEF NextTurn
  <2>2. n \in Nat /\ t \in Seq(Pane)
    <3>1. /\ wx.fill \in Nat /\ wx.pending \in Seq(Pane) /\ Len(wx.pending) \in Nat
          /\ High \in Nat
      BY <1>2, ClientFacts, ControlAssumption
    <3>2. Len(wx.pending) > 0
      BY <1>3, <3>1
    <3>3. (High - wx.fill) \in Nat
      BY <1>3, <3>1
    <3> DEFINE a == High - wx.fill
               b == Len(wx.pending)
    <3>4. a \in Nat /\ b \in Nat /\ b > 0
      BY <3>1, <3>2, <3>3
    <3> HIDE DEF a, b
    <3>5. a \div b \in Int
      BY <3>4
    <3>6. Larger(a \div b, 1) \in Nat
      BY <3>5 DEF Larger
    <3> QED
      BY <3>1, <3>6 DEF a, b
  <2> HIDE DEF n, t
  <2>3. /\ writing' \in WriteType /\ writing'.client = c /\ writing'.used = 0
        /\ writing'.message = 0
    BY <1>2, <2>1, <2>2 DEF WriteType
  <2>4. Message(c)' = Nowhere
    <3>1. \A q : InMessage(c, q)' = 0
      BY <2>3 DEF InMessage
    <3> QED
      BY <3>1 DEF Message, Nowhere
  <2>5. cli' = [cli EXCEPT ![c] = cli[c]]
    BY <1>2, <2>1
  <2> QED
    BY <1>0, <1>1, <1>2, <2>3, <2>4, <2>5, NowhereFacts, WriteStep
<1>4. CASE ~(wx.fill < High /\ wx.pending # <<>>)
  <2>1. cli' = [cli EXCEPT ![c] = Disarmed(cli[c])] /\ writing' = NotWriting
    BY <1>1, <1>2, <1>4 DEF NextTurn
  <2>2. Good(Disarmed(cli[c]), pane, Nowhere)
    <3>1. cli[c].fill > 0 \/ cli[c].pending = <<>>
      <4>1. cli[c].fill \in Nat /\ High \in Nat /\ High > 0
        BY <1>2, ClientFacts, ControlAssumption
      <4> QED
        BY <1>2, <1>4, <4>1
    <3>2. pane \in Panes
      BY DEF OutputInv
    <3> QED
      BY <1>2, <3>1, <3>2, NowhereFacts, DisarmedGood
  <2>3. Message(c)' = Nowhere
    BY <2>1, NotWritingFacts, NoMessageNext
  <2> DEFINE x == Disarmed(cli[c])
  <2> HIDE DEF x
  <2>4. cli' = [cli EXCEPT ![c] = x] /\ Good(x, pane, Nowhere)
    BY <2>1, <2>2 DEF x
  <2> QED
    BY <1>0, <1>1, <2>1, <2>3, <2>4, NowhereFacts, NotWritingFacts, WriteStep
<1> QED
  BY <1>3, <1>4

LEMMA TurnFullInv ==
    ASSUME OutputInv, TurnFull
    PROVE  OutputInv'
<1>0. /\ w # NoClient /\ writing.used = 0 /\ writing.todo # <<>>
      /\ writing' = [writing EXCEPT !.todo = <<>>]
      /\ UNCHANGED <<phase, pane, cli, served, moves, fault>>
  BY DEF TurnFull, Visiting
<1>1. PICK c : c = w
  OBVIOUS
<1>2. /\ c \in Client /\ writing \in WriteType /\ writing.client = c
      /\ writing.message = 0 /\ cli \in [Client -> ClientType]
  BY <1>0, <1>1, VisitingFacts DEF OutputInv, w
<1>3. /\ writing' \in WriteType /\ writing'.client = c /\ writing'.used = 0
      /\ writing'.message = 0
  <2> DEFINE empty == <<>>
  <2>1. empty \in Seq(Pane) /\ writing' = [writing EXCEPT !.todo = empty]
    BY <1>0
  <2> HIDE DEF empty
  <2> QED
    BY <1>0, <1>2, <2>1 DEF WriteType
<1>4. Message(c) = Nowhere
  <2>1. \A q : InMessage(c, q) = 0
    BY <1>2 DEF InMessage
  <2> QED
    BY <2>1 DEF Message, Nowhere
<1>5. Message(c)' = Nowhere
  <2>1. \A q : InMessage(c, q)' = 0
    BY <1>3 DEF InMessage
  <2> QED
    BY <2>1 DEF Message, Nowhere
<1>6. Good(cli[c], pane, Nowhere)
  <2>1. Good(cli[c], pane, Message(c))
    BY <1>2 DEF OutputInv
  <2> QED
    BY <1>4, <2>1, Zenon
<1>7. cli' = [cli EXCEPT ![c] = cli[c]]
  BY <1>0, <1>2
<1> QED
  BY <1>0, <1>1, <1>3, <1>5, <1>6, <1>7, NowhereFacts, WriteStep

LEMMA PaneGoneInv ==
    ASSUME OutputInv, PaneGone
    PROVE  OutputInv'
<1>0. /\ w # NoClient /\ writing.used = 0 /\ writing.todo # <<>>
      /\ NextPane(FlushLines(Discard(wx, First)), First)
      /\ UNCHANGED <<phase, pane, served, moves, fault>> /\ pane \in Panes
  BY DEF PaneGone, Visiting, OutputInv
<1>1. Good(wx, pane, Nowhere)
  <2>1. writing.message = 0
    BY <1>0 DEF OutputInv
  <2>2. \A q : InMessage(w, q) = 0
    BY <2>1 DEF InMessage
  <2>3. Message(w) = Nowhere
    BY <2>2 DEF Message, Nowhere
  <2>4. Good(wx, pane, Message(w))
    BY <1>0, VisitingFacts
  <2> QED
    BY <2>3, <2>4, Zenon
<1>2. First \in Pane
  BY <1>0, VisitingFacts
<1>3. Good(FlushLines(Discard(wx, First)), pane, Nowhere)
  <2> DEFINE p == First
             x == wx
  <2>1. Good(x, pane, Nowhere) /\ p \in Pane
    BY <1>1, <1>2
  <2> HIDE DEF p, x
  <2>2. Good(Discard(x, p), pane, Nowhere)
    BY <1>0, <2>1, NowhereFacts, DiscardGood
  <2>3. Good(FlushLines(Discard(x, p)), pane, Nowhere)
    BY <1>0, <2>2, FlushLinesGood
  <2> QED
    BY <2>3 DEF p, x
<1> QED
  BY <1>0, <1>3, NextPaneInv

LEMMA PaneDoneInv ==
    ASSUME OutputInv, PaneDone
    PROVE  OutputInv'
<1>0. /\ w # NoClient /\ writing.todo # <<>>
      /\ NextPane(Sent(wx, First), First)
      /\ UNCHANGED <<phase, pane, served, moves, fault>> /\ pane \in Panes
  BY DEF PaneDone, InTurn, Visiting, OutputInv
<1> DEFINE p == First
           x == wx
           m == Message(w)
           g == writing.message
           f == x.fill + g
           d == [x.due EXCEPT ![p] = @ + g]
           y == [x EXCEPT !.fill = f, !.due = d]
<1>1. /\ Good(x, pane, m) /\ p \in Pane /\ m \in [Pane -> Nat] /\ g \in Nat
      /\ m[p] = g /\ (\A q \in Pane \ {p} : m[q] = 0) /\ x \in ClientType
  BY <1>0, VisitingFacts
<1>2. Sent(x, p) = y
  BY <1>1 DEF Sent, ClientType
<1> HIDE DEF p, x, m, g
<1>3. /\ f \in Nat /\ d \in [Pane -> Nat] /\ d[p] = x.due[p] + g
      /\ \A q \in Pane \ {p} : d[q] = x.due[q]
  BY <1>1, ClientFacts
<1> HIDE DEF f, d
<1>4. y \in ClientType
  BY <1>1, <1>3 DEF ClientType, Position
<1>5. /\ y.all = x.all /\ y.status = x.status /\ y.silent = x.silent
      /\ y.known = x.known /\ y.cp = x.cp /\ y.due = d /\ y.pending = x.pending
      /\ y.armed = x.armed /\ y.past = x.past
  BY <1>1 DEF ClientType
<1> HIDE DEF y
<1>6. \A q \in Pane : Left(x.all, y.all, q, 0)
  BY <1>1, <1>5, ClientFacts, LeftSame
<1>7. Elsewhere(x, y, p)
  BY <1>3, <1>5, <1>6 DEF Elsewhere
<1>8. Follows(x, y, p, 0)
  <2>1. x.cp[p].offset + 0 = x.cp[p].offset
    BY <1>1, AtClient
  <2> QED
    BY <1>1, <1>5, <1>6, <2>1 DEF Follows, Streams
<1>9. Good(y, pane, Nowhere)
  <2>1. y.due[p] + Nowhere[p] = x.due[p] + m[p] + 0
    BY <1>1, <1>3, <1>5, NowhereFacts, AtClient
  <2>2. Nowhere[p] <= m[p] + 0 /\ (\A q \in Pane \ {p} : Nowhere[q] = m[q])
    BY <1>1, NowhereFacts
  <2>3. 0 \in Nat
    OBVIOUS
  <2> QED
    BY <1>0, <1>1, <1>4, <1>7, <1>8, <2>1, <2>2, <2>3, NowhereFacts, StepGood
<1>10. Good(Sent(wx, First), pane, Nowhere)
  BY <1>2, <1>9 DEF x, p
<1> QED
  BY <1>0, <1>10, NextPaneInv

LEMMA PaneBehindInv ==
    ASSUME OutputInv, PaneBehind
    PROVE  OutputInv'
<1>0. /\ w # NoClient /\ writing.todo # <<>>
      /\ NextPane(TooOld(wx, First), First)
      /\ UNCHANGED <<phase, pane, served, moves, fault>> /\ pane \in Panes
  BY DEF PaneBehind, InTurn, Visiting, OutputInv
<1> DEFINE p == First
           x == wx
           m == Message(w)
<1>1. /\ Good(x, pane, m) /\ p \in Pane /\ m \in [Pane -> Nat]
      /\ (\A q \in Pane \ {p} : m[q] = 0)
  BY <1>0, VisitingFacts
<1> HIDE DEF p, x, m
<1>2. Good(TooOld(x, p), pane, Nowhere)
  BY <1>0, <1>1, TooOldGood
<1>3. Good(TooOld(wx, First), pane, Nowhere)
  BY <1>2 DEF x, p
<1> QED
  BY <1>0, <1>3, NextPaneInv

LEMMA NotEnoughDataInv ==
    ASSUME OutputInv, NotEnoughData
    PROVE  OutputInv'
<1>1. /\ UNCHANGED <<phase, pane, cli, served, writing, moves>>
      /\ fault' = "not enough data"
  BY DEF NotEnoughData
<1>2. \A c : Message(c)' = Message(c)
  BY <1>1 DEF Message, InMessage
<1>3. ASSUME NEW c \in Client
      PROVE  Good(cli'[c], pane', Message(c)')
  <2>1. Good(cli[c], pane, Message(c))
    BY DEF OutputInv
  <2> QED
    BY <1>1, <1>2, <2>1, Zenon
<1> QED
  BY <1>1, <1>3 DEF OutputInv

(* A pane with blocks has an oldest one. *)
LEMMA OldestIs ==
    ASSUME NEW x \in ClientType, NEW p, HasBlocks(x, p), NEW i, i = Oldest(x, p)
    PROVE  i \in 1 .. Len(x.all) /\ x.all[i].of = p
<1>1. DOMAIN x.all = 1 .. Len(x.all) /\ Len(x.all) \in Nat
  BY ClientFacts
<1> DEFINE S == {k \in DOMAIN x.all : x.all[k].of = p}
<1>2. S \in SUBSET Nat /\ S # {}
  BY <1>1 DEF HasBlocks
<1>3. PICK j \in S : \A k \in S : j <= k
  <2> HIDE DEF S
  <2> QED
    BY <1>2, LeastNumber
<1>4. j \in DOMAIN x.all /\ x.all[j].of = p /\ \A k \in 1 .. j - 1 : x.all[k].of # p
  BY <1>1, <1>3
<1>5. i \in DOMAIN x.all /\ x.all[i].of = p
  BY <1>4 DEF Oldest
<1> QED
  BY <1>1, <1>5

(* n bytes of the i-th block of p are taken from the queue, which becomes t. *)
LEMMA TakenGood ==
    ASSUME NEW x, NEW p \in Pane, NEW pn \in Panes, NEW m \in [Pane -> Nat],
           NEW k \in [Pane -> Nat], NEW n \in Nat, NEW t \in Seq(Block), NEW f \in Nat,
           NEW g \in Nat, Good(x, pn, m),
           \A q \in Pane : Left(x.all, t, q, IF q = p THEN n ELSE 0),
           g + k[p] = m[p] + n, \A q \in Pane \ {p} : k[q] = m[q]
    PROVE  Good([[[[x EXCEPT !.cp[p].offset = @ + n] EXCEPT !.all = t]
                    EXCEPT !.fill = f] EXCEPT !.due[p] = @ + g], pn, k)
<1> DEFINE o == x.cp[p].offset + n
           c == [x.cp EXCEPT ![p].offset = o]
           d == [x.due EXCEPT ![p] = @ + g]
           y == [x EXCEPT !.cp = c, !.all = t, !.fill = f, !.due = d]
<1>0. x \in ClientType
  BY DEF Good
<1>1. /\ x.cp \in [Pane -> ControlPane] /\ x.cp[p] \in ControlPane
      /\ x.cp[p].offset \in Nat /\ x.due \in [Pane -> Nat] /\ x.due[p] \in Nat
      /\ m[p] \in Nat /\ k[p] \in Nat
  BY <1>0, ClientFacts, AtClient
<1>2. o \in Nat /\ o = x.cp[p].offset + n
  BY <1>1
<1>y. [[[[x EXCEPT !.cp[p].offset = @ + n] EXCEPT !.all = t]
           EXCEPT !.fill = f] EXCEPT !.due[p] = @ + g] = y
  BY <1>0, <1>1 DEF ClientType
<1> HIDE DEF o
<1>3. /\ c \in [Pane -> ControlPane]
      /\ c[p].offset = o /\ c[p].queued = x.cp[p].queued
      /\ c[p].off = x.cp[p].off /\ c[p].paused = x.cp[p].paused
      /\ \A q \in Pane \ {p} : c[q] = x.cp[q]
  <2> DEFINE e == [x.cp[p] EXCEPT !.offset = o]
  <2>1. c = [x.cp EXCEPT ![p] = e]
    BY <1>1
  <2>2. /\ e \in ControlPane /\ e.offset = o /\ e.queued = x.cp[p].queued
        /\ e.off = x.cp[p].off /\ e.paused = x.cp[p].paused
    BY <1>1, <1>2 DEF ControlPane, Position
  <2> HIDE DEF e
  <2> QED
    BY <1>1, <2>1, <2>2
<1>4. /\ d \in [Pane -> Nat] /\ d[p] = x.due[p] + g
      /\ \A q \in Pane \ {p} : d[q] = x.due[q]
  BY <1>1
<1> HIDE DEF c, d
<1>5. y \in ClientType
  BY <1>0, <1>3, <1>4 DEF ClientType, Position
<1>6. /\ y.all = t /\ y.status = x.status /\ y.silent = x.silent
      /\ y.known = x.known /\ y.cp = c /\ y.due = d /\ y.pending = x.pending
      /\ y.armed = x.armed /\ y.past = x.past
  BY <1>0 DEF ClientType
<1> HIDE DEF y
<1>7. Elsewhere(x, y, p)
  <2> SUFFICES ASSUME NEW q \in Pane \ {p}
               PROVE  Left(x.all, y.all, q, 0)
    BY <1>3, <1>4, <1>6 DEF Elsewhere
  <2> QED
    BY <1>6
<1>8. Follows(x, y, p, n)
  <2>1. Left(x.all, y.all, p, n)
    BY <1>6
  <2> QED
    BY <1>2, <1>3, <1>6, <2>1 DEF Follows, Streams
<1>9. y.due[p] + k[p] = x.due[p] + m[p] + n /\ k[p] <= m[p] + n
  <2> DEFINE v == x.due[p]
             a == m[p]
             b == k[p]
  <2>1. y.due[p] = v + g /\ g + b = a + n /\ v \in Nat /\ a \in Nat /\ b \in Nat
    BY <1>1, <1>4, <1>6
  <2> HIDE DEF v, a, b
  <2>2. y.due[p] + b = v + a + n /\ b <= a + n
    BY <2>1
  <2> QED
    BY <2>2 DEF v, a, b
<1>10. Good(y, pn, k)
  BY <1>5, <1>7, <1>8, <1>9, StepGood
<1> QED
  BY <1>y, <1>10

LEMMA TakeBlockInv ==
    ASSUME OutputInv, TakeBlock
    PROVE  OutputInv'
<1> DEFINE p == First
           i == Oldest(wx, p)
           n == Taking
           x == [wx EXCEPT !.cp[p].offset = @ + n]
           message == writing.message + n
           rest == RemoveAt(wx.all, i)
           v == wx
           m == Message(w)
<1>0. /\ w # NoClient /\ writing.todo # <<>> /\ HasBlocks(v, p)
      /\ writing.used < writing.limit
      /\ UNCHANGED <<phase, pane, served, moves, fault>> /\ pane \in Panes
  BY DEF TakeBlock, InTurn, Visiting, OutputInv
<1>1. /\ Good(v, pane, m) /\ p \in Pane /\ m \in [Pane -> Nat]
      /\ m[p] = writing.message /\ (\A q \in Pane \ {p} : m[q] = 0)
      /\ v \in ClientType /\ writing \in WriteType
      /\ writing.used \in Nat /\ writing.limit \in Nat /\ writing.message \in Nat
      /\ writing.todo \in Seq(Pane)
  BY <1>0, VisitingFacts
<1>2. /\ i \in 1 .. Len(v.all) /\ v.all[i].of = p /\ v.all \in Blocks
      /\ v.all \in Seq(Block) /\ v.all[i] \in Block /\ v.all[i].size \in Nat
  <2>1. i = Oldest(v, p)
    OBVIOUS
  <2> HIDE DEF i, v, p
  <2>2. i \in 1 .. Len(v.all) /\ v.all[i].of = p
    BY <1>0, <1>1, <2>1, OldestIs
  <2>3. v.all \in Blocks
    BY <1>1, ClientFacts
  <2> QED
    BY <2>2, <2>3, BlockFacts DEF Blocks
<1>3. n \in Nat /\ n <= v.all[i].size /\ message \in Nat /\ message = m[p] + n
  <2> DEFINE a == v.all[i].size
             b == writing.limit - writing.used
  <2>1. n = Smaller(a, b)
    BY DEF Taking
  <2>2. a \in Nat /\ b \in Nat
    BY <1>0, <1>1, <1>2
  <2> HIDE DEF a, b, n
  <2>3. n \in Nat /\ n <= a
    BY <2>1, <2>2 DEF Smaller
  <2> QED
    BY <1>1, <2>3 DEF a
<1>x. x \in ClientType /\ x.all = v.all /\ x.fill = v.fill /\ x.due = v.due
  <2>1. v.cp \in [Pane -> ControlPane] /\ v.cp[p].offset \in Nat
    BY <1>1, ClientFacts, AtClient
  <2> DEFINE o == v.cp[p].offset + n
             c == [v.cp EXCEPT ![p].offset = o]
  <2>2. o \in Nat
    BY <1>3, <2>1
  <2>3. x = [v EXCEPT !.cp = c]
    BY <1>1, <2>1 DEF ClientType
  <2> HIDE DEF o, x, v
  <2>4. c \in [Pane -> ControlPane]
    BY <2>1, <2>2 DEF ControlPane, Position
  <2> HIDE DEF c
  <2> QED
    BY <1>1, <2>3, <2>4 DEF ClientType
<1>t. /\ n < v.all[i].size =>
            /\ cli' = [cli EXCEPT ![w] = [x EXCEPT !.all[i].size = @ - n]]
            /\ writing' = [writing EXCEPT !.used = @ + n, !.message = message]
      /\ ~(n < v.all[i].size) /\ rest # <<>> /\ ~IsOutput(Head(rest)) =>
            /\ cli' = [cli EXCEPT ![w] =
                  FlushLines([x EXCEPT !.all = rest, !.fill = @ + message,
                                       !.due[p] = @ + message])]
            /\ writing' = [writing EXCEPT !.used = @ + n, !.message = 0]
      /\ ~(n < v.all[i].size) /\ ~(rest # <<>> /\ ~IsOutput(Head(rest))) =>
            /\ cli' = [cli EXCEPT ![w] = [x EXCEPT !.all = rest]]
            /\ writing' = [writing EXCEPT !.used = @ + n, !.message = message]
  BY <1>x DEF TakeBlock
<1>v. x = [v EXCEPT !.cp[p].offset = @ + n]
  OBVIOUS
<1>c. PICK c : c = w
  OBVIOUS
<1>w. ASSUME NEW g \in Nat, writing' = [writing EXCEPT !.used = @ + n, !.message = g],
             writing.used + n = 0 => g = 0
      PROVE  /\ writing' \in WriteType /\ writing'.client = c
             /\ (writing'.todo = <<>> => writing'.used = 0)
             /\ (writing'.used = 0 => writing'.message = 0)
             /\ Message(c)' = [m EXCEPT ![p] = g]
  <2>1. writing.client = c
    BY <1>c DEF w
  <2> DEFINE u == writing.used + n
  <2>2. u \in Nat /\ writing' = [writing EXCEPT !.used = u, !.message = g]
    BY <1>1, <1>3, <1>w
  <2> HIDE DEF n, u
  <2>3. /\ writing' \in WriteType /\ writing'.client = c /\ writing'.used = u
        /\ writing'.message = g /\ writing'.todo = writing.todo
    BY <1>1, <2>1, <2>2 DEF WriteType
  <2>4. (writing'.todo = <<>> => writing'.used = 0) /\ (u = 0 => g = 0)
    BY <1>0, <1>w, <2>3 DEF u
  <2>5. \A q : InMessage(c, q)' = IF q = p THEN g ELSE 0
    BY <1>0, <2>3 DEF InMessage, First
  <2>6. Message(c)' = [q \in Pane |-> IF q = p THEN g ELSE 0]
    BY <2>5 DEF Message
  <2> HIDE DEF p, m
  <2>7. [m EXCEPT ![p] = g] = [q \in Pane |-> IF q = p THEN g ELSE 0]
    BY <1>1
  <2> QED
    BY <2>3, <2>4, <2>6, <2>7
<1>m. ASSUME NEW g \in Nat
      PROVE  /\ [m EXCEPT ![p] = g] \in [Pane -> Nat]
             /\ [m EXCEPT ![p] = g][p] = g
             /\ \A q \in Pane \ {p} : [m EXCEPT ![p] = g][q] = m[q]
  <2> HIDE DEF p, m
  <2> QED
    BY <1>1
<1>z. writing.used + n = 0 => message = 0
  <2>1. writing.used = 0 => writing.message = 0
    BY DEF OutputInv
  <2> QED
    BY <1>1, <1>3, <2>1
<1> HIDE DEF p, i, n, x, v, m, message, rest
<1>4. ASSUME NEW y, NEW g \in Nat, Good(y, pane, [m EXCEPT ![p] = g]),
             cli' = [cli EXCEPT ![w] = y],
             writing' = [writing EXCEPT !.used = @ + n, !.message = g],
             writing.used + n = 0 => g = 0
      PROVE  OutputInv'
  <2>1. /\ writing' \in WriteType /\ writing'.client = c
        /\ (writing'.todo = <<>> => writing'.used = 0)
        /\ (writing'.used = 0 => writing'.message = 0)
        /\ Message(c)' = [m EXCEPT ![p] = g]
    BY <1>4, <1>w
  <2> DEFINE k == [m EXCEPT ![p] = g]
  <2>2. k \in [Pane -> Nat] /\ Good(y, pane, k) /\ Message(c)' = k
    BY <1>4, <1>m, <2>1
  <2> HIDE DEF k
  <2>3. cli' = [cli EXCEPT ![c] = y] /\ c # NoClient
    BY <1>0, <1>4, <1>c
  <2> QED
    BY <1>0, <1>c, <2>1, <2>2, <2>3, WriteStep
<1>5. CASE n < v.all[i].size
  <2> DEFINE e == [v.all[i] EXCEPT !.size = @ - n]
             t == [v.all EXCEPT ![i] = e]
             y == [x EXCEPT !.all[i].size = @ - n]
  <2>1. /\ e \in Block /\ e.of = v.all[i].of /\ e.after = v.all[i].after
        /\ v.all[i].size = e.size + n
    <3> DEFINE b == v.all[i]
               z == b.size - n
    <3>1. b \in Block /\ z \in Nat /\ b.size = z + n /\ e = [b EXCEPT !.size = z]
      BY <1>2, <1>3, <1>5
    <3> HIDE DEF b, z
    <3>2. [b EXCEPT !.size = z] \in Block
      BY <3>1 DEF Block, Position
    <3>3. /\ [b EXCEPT !.size = z].of = b.of /\ [b EXCEPT !.size = z].after = b.after
          /\ [b EXCEPT !.size = z].size = z
      BY <3>1 DEF Block
    <3> QED
      BY <3>1, <3>2, <3>3 DEF b
  <2>2. y = [x EXCEPT !.all = t]
    BY <1>x, <1>2 DEF ClientType
  <2> HIDE DEF e
  <2>3. /\ t \in Seq(Block) /\ Len(t) = Len(v.all) /\ t[i] = e
        /\ \A k \in 1 .. Len(v.all) : k # i => t[k] = v.all[k]
    BY <1>2, <2>1
  <2> HIDE DEF t, y
  <2>4. \A q \in Pane : Left(v.all, t, q, IF q = p THEN n ELSE 0)
    <3> TAKE q \in Pane
    <3>1. t \in Blocks
      BY <2>3 DEF Blocks
    <3>2. Left(v.all, t, q, IF v.all[i].of = q THEN n ELSE 0)
      BY <1>2, <1>3, <2>1, <2>3, <3>1, LeftSmaller
    <3>3. (IF v.all[i].of = q THEN n ELSE 0) = (IF q = p THEN n ELSE 0)
      BY <1>2
    <3> QED
      BY <3>2, <3>3, Zenon
  <2>5. Good(y, pane, [m EXCEPT ![p] = message])
    <3> DEFINE k == [m EXCEPT ![p] = message]
               f == v.fill
               a == [[[[v EXCEPT !.cp[p].offset = @ + n] EXCEPT !.all = t]
                        EXCEPT !.fill = f] EXCEPT !.due[p] = @ + 0]
    <3>1. k \in [Pane -> Nat] /\ k[p] = message /\ \A q \in Pane \ {p} : k[q] = m[q]
      BY <1>3, <1>m
    <3>2. f \in Nat /\ 0 + k[p] = m[p] + n /\ 0 \in Nat
      BY <1>1, <1>3, <3>1, ClientFacts
    <3>3. y = a
      <4> DEFINE z == [x EXCEPT !.all = t]
      <4>1. z \in ClientType /\ z.fill = f /\ z.due \in [Pane -> Nat] /\ z.due[p] \in Nat
        BY <1>1, <1>x, <2>3, ClientFacts DEF ClientType
      <4>2. a = [[z EXCEPT !.fill = f] EXCEPT !.due[p] = @ + 0]
        BY <1>v
      <4> HIDE DEF z, a
      <4>3. [z EXCEPT !.fill = f] = z
        BY <4>1 DEF ClientType
      <4>4. z.due[p] + 0 = z.due[p]
        BY <4>1
      <4>5. [z EXCEPT !.due[p] = @ + 0] = z
        BY <4>1, <4>4 DEF ClientType
      <4> QED
        BY <2>2, <4>2, <4>3, <4>5 DEF z
    <3> HIDE DEF k, f
    <3>4. Good(a, pane, k)
      BY <1>0, <1>1, <1>3, <2>3, <2>4, <3>1, <3>2, TakenGood
    <3> QED
      BY <3>3, <3>4 DEF k
  <2> QED
    BY <1>3, <1>4, <1>5, <1>t, <1>z, <2>5 DEF y
<1>6. CASE ~(n < v.all[i].size)
  <2>1. n = v.all[i].size
    BY <1>2, <1>3, <1>6
  <2>2. /\ rest \in Seq(Block)
        /\ \A q \in Pane : Left(v.all, rest, q, IF q = p THEN n ELSE 0)
    <3>1. ASSUME NEW q \in Pane
          PROVE  /\ rest \in Blocks
                 /\ Left(v.all, rest, q, IF q = p THEN n ELSE 0)
      <4>1. RemoveAt(v.all, i) \in Blocks
            /\ Left(v.all, RemoveAt(v.all, i), q, Adds(v.all[i], q))
        BY <1>2, LeftRemoved
      <4>2. Adds(v.all[i], q) = IF q = p THEN n ELSE 0
        BY <1>2, <2>1 DEF Adds
      <4>3. rest = RemoveAt(v.all, i)
        BY DEF rest, v
      <4> QED
        BY <4>1, <4>2, <4>3, Zenon
    <3> QED
      BY <1>1, <3>1 DEF Blocks
  <2>3. ASSUME NEW f \in Nat, NEW g \in Nat, NEW h \in Nat, h + g = message
        PROVE  Good([[[x EXCEPT !.all = rest] EXCEPT !.fill = f] EXCEPT !.due[p] = @ + h],
                    pane, [m EXCEPT ![p] = g])
    <3> DEFINE k == [m EXCEPT ![p] = g]
               a == [[[[v EXCEPT !.cp[p].offset = @ + n] EXCEPT !.all = rest]
                        EXCEPT !.fill = f] EXCEPT !.due[p] = @ + h]
    <3>1. k \in [Pane -> Nat] /\ k[p] = g /\ \A q \in Pane \ {p} : k[q] = m[q]
      BY <1>m
    <3>2. h + k[p] = m[p] + n
      BY <1>3, <2>3, <3>1
    <3>3. a = [[[x EXCEPT !.all = rest] EXCEPT !.fill = f] EXCEPT !.due[p] = @ + h]
      BY <1>v
    <3> HIDE DEF k
    <3>4. Good(a, pane, k)
      BY <1>0, <1>1, <1>3, <2>2, <2>3, <3>1, <3>2, TakenGood
    <3> QED
      BY <3>3, <3>4 DEF k
  <2> DEFINE f == v.fill
             z == [x EXCEPT !.all = rest]
  <2>4. /\ z \in ClientType /\ z.fill = f /\ f \in Nat
        /\ z.due \in [Pane -> Nat] /\ z.due[p] \in Nat
    BY <1>1, <1>x, <2>2, ClientFacts DEF ClientType
  <2>5. CASE rest # <<>> /\ ~IsOutput(Head(rest))
    <3> DEFINE y == [x EXCEPT !.all = rest, !.fill = @ + message, !.due[p] = @ + message]
               h == f + message
               a == [[[x EXCEPT !.all = rest] EXCEPT !.fill = h]
                        EXCEPT !.due[p] = @ + message]
    <3>1. h \in Nat /\ message + 0 = message /\ 0 \in Nat
      BY <1>3, <2>4
    <3>2. y = a
      BY <1>x, <2>4 DEF ClientType
    <3> HIDE DEF h, y
    <3>3. Good(a, pane, [m EXCEPT ![p] = 0])
      BY <1>3, <2>3, <3>1
    <3>4. [m EXCEPT ![p] = 0] = Nowhere
      BY <1>1 DEF Nowhere
    <3>5. Good(y, pane, Nowhere)
      BY <3>2, <3>3, <3>4
    <3>6. Good(FlushLines(y), pane, [m EXCEPT ![p] = 0])
      BY <1>0, <3>4, <3>5, FlushLinesGood
    <3> DEFINE u == FlushLines(y)
    <3>7. cli' = [cli EXCEPT ![w] = u]
          /\ writing' = [writing EXCEPT !.used = @ + n, !.message = 0]
      BY <1>t, <1>6, <2>5 DEF y
    <3> HIDE DEF u
    <3>8. Good(u, pane, [m EXCEPT ![p] = 0])
      BY <3>6 DEF u
    <3> QED
      BY <1>4, <3>1, <3>7, <3>8
  <2>6. CASE ~(rest # <<>> /\ ~IsOutput(Head(rest)))
    <3>1. Good([[z EXCEPT !.fill = f] EXCEPT !.due[p] = @ + 0],
               pane, [m EXCEPT ![p] = message])
      <4>1. 0 \in Nat /\ 0 + message = message
        BY <1>3
      <4> QED
        BY <1>3, <2>3, <2>4, <4>1
    <3>2. cli' = [cli EXCEPT ![w] = z]
          /\ writing' = [writing EXCEPT !.used = @ + n, !.message = message]
      BY <1>t, <1>6, <2>6
    <3> HIDE DEF z, f
    <3>3. [[z EXCEPT !.fill = f] EXCEPT !.due[p] = @ + 0] = z
      <4>1. [z EXCEPT !.fill = f] = z
        BY <2>4 DEF ClientType
      <4>2. z.due[p] + 0 = z.due[p]
        BY <2>4
      <4>3. [z EXCEPT !.due[p] = @ + 0] = z
        BY <2>4, <4>2 DEF ClientType
      <4> QED
        BY <4>1, <4>3
    <3>4. Good(z, pane, [m EXCEPT ![p] = message])
      BY <3>1, <3>3
    <3> QED
      BY <1>3, <1>4, <1>z, <3>2, <3>4
  <2> QED
    BY <2>5, <2>6
<1> QED
  BY <1>5, <1>6

LEMMA WriteCallbackInv ==
    ASSUME OutputInv, WriteCallback
    PROVE  OutputInv'
BY NextTurnInv, TurnFullInv, PaneGoneInv, PaneDoneInv, PaneBehindInv,
   NotEnoughDataInv, TakeBlockInv DEF WriteCallback

-----------------------------------------------------------------------------
(* server_client_loop.                                                       *)

(* The buffers are drained, but not past what the client has yet to read. *)
LEMMA DrainedGood ==
    ASSUME NEW x, NEW pn \in Panes, NEW pm \in Panes, NEW m \in [Pane -> Nat],
           Good(x, pn, m),
           \A p \in Pane : pm[p].parsed = pn[p].parsed,
           \A p \in Pane : Streams(x, p) /\ ~x.silent => pm[p].base <= x.cp[p].offset
    PROVE  Good(x, pm, m)
<1>1. ASSUME NEW q \in Pane
      PROVE  AtPane(x, q, pm[q], m[q])
  <2> DEFINE b == pn[q]
             d == pm[q]
  <2>1. /\ AtPane(x, q, b, m[q]) /\ d.parsed = b.parsed
        /\ (Streams(x, q) /\ ~x.silent => d.base <= x.cp[q].offset)
    BY DEF Good
  <2> HIDE DEF b, d
  <2>2. Read(x, q, d)
    BY <2>1 DEF AtPane, Read
  <2>3. AtPane(x, q, d, m[q])
    BY <2>1, <2>2 DEF AtPane
  <2> QED
    BY <2>3 DEF d
<1> QED
  BY <1>1 DEF Good

(* How far the buffer of a pane is drained. *)
LEMMA BaseIs ==
    ASSUME OutputInv, NEW p \in Pane, NEW f,
           \A c \in Client : f[c] \in ClientType
    PROVE  /\ Min(ReadTo(f, p)) \in Nat /\ Min(ReadTo(f, p)) <= pane[p].parsed
           /\ \A c \in Listed : Counts(f[c], p) => Min(ReadTo(f, p)) <= f[c].cp[p].offset
<1> DEFINE S == ReadTo(f, p)
<1>1. pane[p].parsed \in S /\ pane[p].parsed \in Nat
  BY PaneFacts DEF ReadTo, OutputInv, Panes
<1>2. S \in SUBSET Nat
  <2>1. \A c \in Listed : f[c].cp[p].offset \in Nat
    BY AtClient DEF Listed
  <2> QED
    BY <1>1, <2>1 DEF ReadTo
<1>3. \A c \in Listed : Counts(f[c], p) => f[c].cp[p].offset \in S
  BY DEF ReadTo
<1> HIDE DEF S
<1>4. Min(S) \in S /\ \A y \in S : Min(S) <= y
  BY <1>1, <1>2, LeastIs
<1>5. /\ Min(S) \in Nat /\ Min(S) <= pane[p].parsed
      /\ \A c \in Listed : Counts(f[c], p) => Min(S) <= f[c].cp[p].offset
  BY <1>1, <1>2, <1>3, <1>4
<1> QED
  BY <1>5 DEF S

LEMMA ServerLoopInv ==
    ASSUME OutputInv, ServerLoop
    PROVE  OutputInv'
<1> DEFINE f == [c \in Client |-> CheckExit(cli[c])]
<1>0. /\ phase' = "events" /\ writing = NotWriting
      /\ UNCHANGED <<writing, moves, fault>> /\ cli' = f
      /\ pane' = [p \in Pane |->
                    IF pane[p].live THEN CheckPaneBuffer(f, p) ELSE pane[p]]
      /\ served' \subseteq Client
      /\ pane \in Panes /\ Drained(pane) /\ cli \in [Client -> ClientType]
  BY DEF ServerLoop, OutputInv
<1>1. ASSUME NEW c \in Client
      PROVE  /\ Good(f[c], pane, Nowhere) /\ f[c] \in ClientType
             /\ f[c].status \in {"attached", "suspended"} => c \in Listed
  <2>1. Good(cli[c], pane, Nowhere)
    BY <1>0, QuietFacts
  <2> DEFINE x == cli[c]
  <2>2. /\ Good(CheckExit(x), pane, Nowhere)
        /\ (CheckExit(x).status # "lost" <=> x.status # "lost")
    <3>1. Good(x, pane, Nowhere)
      BY <2>1
    <3> HIDE DEF x
    <3> QED
      BY <1>0, <3>1, NowhereFacts, CheckExitGood
  <2>3. f[c] = CheckExit(x)
    OBVIOUS
  <2> HIDE DEF f
  <2>4. Good(f[c], pane, Nowhere)
    BY <2>2, <2>3
  <2>5. f[c].status \in {"attached", "suspended"} => c \in Listed
    BY <2>2, <2>3 DEF Listed
  <2> QED
    BY <2>4, <2>5 DEF Good
<1>2. f = [c \in Client |-> f[c]]
  OBVIOUS
<1> HIDE DEF f
<1>3. ASSUME NEW p \in Pane
      PROVE  /\ pane'[p] \in PaneType /\ pane'[p].parsed = pane[p].parsed
             /\ pane'[p].base <= pane[p].parsed
             /\ pane[p].live => \A c \in Listed : Counts(f[c], p) =>
                                   pane'[p].base <= f[c].cp[p].offset
             /\ ~pane[p].live => pane'[p].base = pane[p].base
  <2>1. /\ pane[p] \in PaneType /\ pane[p].base <= pane[p].parsed
    BY <1>0 DEF Drained, Panes
  <2>2. CASE ~pane[p].live
    BY <1>0, <2>1, <2>2
  <2>3. CASE pane[p].live
    <3> DEFINE b == Min(ReadTo(f, p))
               e == Larger(pane[p].end, b)
               r == ~(Listed # {} /\ \A c \in Listed : TakesNothing(f[c], p))
               d == [pane[p] EXCEPT !.base = b, !.end = e, !.reading = r]
    <3>1. /\ b \in Nat /\ b <= pane[p].parsed
          /\ \A c \in Listed : Counts(f[c], p) => b <= f[c].cp[p].offset
      BY <1>1, BaseIs
    <3>2. e \in Nat
      BY <2>1, <3>1, PaneFacts DEF Larger
    <3>3. r \in BOOLEAN
      OBVIOUS
    <3>4. pane'[p] = d
      BY <1>0, <2>1, <2>3 DEF CheckPaneBuffer, PaneType
    <3> HIDE DEF b, e, r
    <3>5. d \in PaneType /\ d.parsed = pane[p].parsed /\ d.base = b
      BY <2>1, <3>1, <3>2, <3>3 DEF PaneType, Position
    <3> HIDE DEF d
    <3> QED
      BY <2>1, <2>3, <3>1, <3>4, <3>5
  <2> QED
    BY <2>2, <2>3
<1>4. pane' \in Panes /\ Drained(pane')
  BY <1>0, <1>3 DEF Panes, Drained
<1>5. ASSUME NEW c \in Client
      PROVE  Good(f[c], pane', Nowhere)
  <2> DEFINE x == f[c]
             pm == pane'
  <2>1. /\ Good(x, pane, Nowhere) /\ pm \in Panes
        /\ \A p \in Pane : pm[p].parsed = pane[p].parsed
    BY <1>1, <1>3, <1>4
  <2>2. ASSUME NEW p \in Pane, Streams(x, p), ~x.silent
        PROVE  pm[p].base <= x.cp[p].offset
    <3>1. CASE pane[p].live
      <4>1. c \in Listed /\ Counts(f[c], p)
        BY <1>1, <2>2 DEF Streams, Counts
      <4> QED
        BY <1>3, <3>1, <4>1
    <3>2. CASE ~pane[p].live
      <4>1. Read(x, p, pane[p])
        BY <2>1 DEF Good, AtPane
      <4>2. pane[p].base <= x.cp[p].offset
        BY <2>2, <4>1 DEF Read
      <4> QED
        BY <1>3, <3>2, <4>2
    <3> QED
      BY <3>1, <3>2
  <2> HIDE DEF x, pm
  <2>3. Good(x, pm, Nowhere)
    BY <1>0, <2>1, <2>2, NowhereFacts, DrainedGood
  <2> QED
    BY <2>3 DEF x, pm
<1>6. cli' \in [Client -> ClientType] /\ \A c \in Client : Good(cli'[c], pane', Nowhere)
  BY <1>0, <1>1, <1>2, <1>5
<1>7. /\ writing' = NotWriting /\ moves' \in 0 .. MaxMoves
      /\ fault' \in {"none", "overrun", "not enough data"}
  BY <1>0 DEF OutputInv
<1> QED
  BY <1>0, <1>4, <1>6, <1>7, QuietStep

-----------------------------------------------------------------------------
(* Commands.                                                                 *)

(* When a command runs, no callback does. *)
LEMMA CommandingFacts ==
    ASSUME OutputInv, Commanding
    PROVE  /\ writing = NotWriting /\ phase = "commands"
           /\ UNCHANGED <<phase, served, writing, fault>> /\ moves' \in 0 .. MaxMoves
           /\ pane \in Panes /\ Drained(pane)
           /\ \A c \in Client : Good(cli[c], pane, Nowhere) /\ cli[c] \in ClientType
<1>1. /\ writing = NotWriting /\ phase = "commands" /\ pane \in Panes /\ Drained(pane)
      /\ UNCHANGED <<phase, served, writing, fault>>
      /\ cli \in [Client -> ClientType]
  BY DEF Commanding, OutputInv
<1>2. moves' \in 0 .. MaxMoves
  <2>1. /\ moves \in 0 .. MaxMoves /\ MaxMoves \in Nat /\ moves < MaxMoves
        /\ moves' = moves + 1
    BY ControlAssumption DEF Commanding, OutputInv
  <2> QED
    BY <2>1
<1>3. \A c \in Client : Good(cli[c], pane, Nowhere)
  BY <1>1, QuietFacts
<1> QED
  BY <1>1, <1>2, <1>3

(* A command that concerns one client. *)
LEMMA CommandStep ==
    ASSUME OutputInv, Commanding, NEW c \in Client, NEW x, Becomes(c, x),
           Good(x, pane, Nowhere)
    PROVE  OutputInv'
<1>1. /\ writing = NotWriting /\ UNCHANGED <<phase, pane, served, writing, fault>>
      /\ cli' = [cli EXCEPT ![c] = x] /\ moves' \in 0 .. MaxMoves
  BY CommandingFacts DEF Becomes
<1>2. /\ cli' \in [Client -> ClientType]
      /\ \A d \in Client : Good(cli'[d], pane, Nowhere)
  BY <1>1, OneClient
<1>3. \A d \in Client : Good(cli'[d], pane', Nowhere)
  BY <1>1, <1>2
<1>4. /\ phase' \in {"events", "commands"} /\ pane' \in Panes /\ Drained(pane')
      /\ served' \subseteq Client /\ writing' = NotWriting
      /\ fault' \in {"none", "overrun", "not enough data"}
  BY <1>1 DEF OutputInv
<1> QED
  BY <1>1, <1>2, <1>3, <1>4, QuietStep

(* A pane of x that is off or paused, or has no blocks, starts again. *)
LEMMA SwitchedGood ==
    ASSUME NEW x, NEW p \in Pane, NEW pn \in Panes, Drained(pn), NEW v \in BOOLEAN,
           Good(x, pn, Nowhere), x.cp[p].off \/ x.cp[p].paused \/ ~HasBlocks(x, p)
    PROVE  /\ Good([MoveTo(x, p, pn[p].parsed) EXCEPT !.cp[p].off = v], pn, Nowhere)
           /\ Good([MoveTo(x, p, pn[p].parsed) EXCEPT !.cp[p].paused = v], pn, Nowhere)
<1> DEFINE n == pn[p].parsed
           z == MoveTo(x, p, n)
<1>1. x \in ClientType /\ Scheduled(x, p) /\ n \in Nat
  BY PaneFacts DEF Good, AtPane, Panes
<1>2. ~HasBlocks(x, p)
  BY <1>1 DEF Scheduled
<1>3. Good(z, pn, Nowhere)
  BY MoveToGood
<1>4. z = MoveTo(x, p, n) /\ n = pn[p].parsed
  OBVIOUS
<1> HIDE DEF z, n
<1>5. /\ z.all = x.all /\ z.cp[p].offset = n /\ z.cp[p].queued = n /\ z.due[p] = n
  BY <1>1, <1>4, MoveToIs
<1>6. ~HasBlocks(z, p)
  BY <1>2, <1>5 DEF HasBlocks
<1>7. ASSUME NEW y, y = [z EXCEPT !.cp[p].off = v] \/ y = [z EXCEPT !.cp[p].paused = v]
      PROVE  Good(y, pn, Nowhere)
  BY <1>3, <1>4, <1>5, <1>6, <1>7, ToggleGood
<1>8. /\ Good([z EXCEPT !.cp[p].off = v], pn, Nowhere)
      /\ Good([z EXCEPT !.cp[p].paused = v], pn, Nowhere)
  BY <1>7
<1> QED
  BY <1>8 DEF z, n

LEMMA NotifyInv ==
    ASSUME OutputInv, NEW c \in Client, Notify(c)
    PROVE  OutputInv'
<1>1. Commanding /\ Becomes(c, WriteLine(cli[c]))
  BY DEF Notify
<1>2. Good(WriteLine(cli[c]), pane, Nowhere)
  BY <1>1, CommandingFacts, WriteLineGood
<1> QED
  BY <1>1, <1>2, CommandStep

LEMMA SetPaneOnInv ==
    ASSUME OutputInv, NEW c \in Client, NEW p \in Pane, SetPaneOn(c, p)
    PROVE  OutputInv'
<1> DEFINE y == [MoveTo(cli[c], p, pane[p].parsed) EXCEPT !.cp[p].off = FALSE]
<1>1. Commanding /\ Becomes(c, y) /\ cli[c].cp[p].off
  BY DEF SetPaneOn
<1>2. Good(y, pane, Nowhere)
  <2> DEFINE x == cli[c]
  <2>1. Good(x, pane, Nowhere) /\ x.cp[p].off /\ pane \in Panes /\ Drained(pane)
    BY <1>1, CommandingFacts
  <2> HIDE DEF x
  <2>2. Good([MoveTo(x, p, pane[p].parsed) EXCEPT !.cp[p].off = FALSE], pane, Nowhere)
    BY <2>1, SwitchedGood
  <2> QED
    BY <2>2 DEF x
<1> HIDE DEF y
<1> QED
  BY <1>1, <1>2, CommandStep

LEMMA SetPaneOffInv ==
    ASSUME OutputInv, NEW c \in Client, NEW p \in Pane, SetPaneOff(c, p)
    PROVE  OutputInv'
<1> DEFINE a == AddPane(cli[c], p)
           x == Discard(a, p)
           y == [MoveTo(x, p, pane[p].parsed) EXCEPT !.cp[p].off = TRUE]
<1>1. Commanding /\ Becomes(c, y)
  BY DEF SetPaneOff
<1>2. pane \in Panes /\ Drained(pane) /\ Good(cli[c], pane, Nowhere)
  BY <1>1, CommandingFacts
<1>3. Good(a, pane, Nowhere)
  BY <1>2, AddPaneGood
<1>4. a \in ClientType /\ x = Discard(a, p)
  BY <1>3 DEF Good
<1> HIDE DEF a
<1>5. Good(Discard(a, p), pane, Nowhere)
  BY <1>2, <1>3, NowhereFacts, DiscardGood
<1> HIDE DEF x
<1>6. Good(x, pane, Nowhere) /\ ~HasBlocks(x, p)
  BY <1>4, <1>5, DiscardIs
<1>7. Good(y, pane, Nowhere)
  BY <1>2, <1>6, SwitchedGood
<1> HIDE DEF y
<1> QED
  BY <1>1, <1>7, CommandStep

LEMMA ContinuePaneInv ==
    ASSUME OutputInv, NEW c \in Client, NEW p \in Pane, ContinuePane(c, p)
    PROVE  OutputInv'
<1> DEFINE y == [MoveTo(cli[c], p, pane[p].parsed) EXCEPT !.cp[p].paused = FALSE]
<1>1. Commanding /\ Becomes(c, WriteLine(y)) /\ cli[c].cp[p].paused
  BY DEF ContinuePane
<1>2. Good(y, pane, Nowhere)
  <2> DEFINE x == cli[c]
  <2>1. Good(x, pane, Nowhere) /\ x.cp[p].paused /\ pane \in Panes /\ Drained(pane)
    BY <1>1, CommandingFacts
  <2> HIDE DEF x
  <2>2. Good([MoveTo(x, p, pane[p].parsed) EXCEPT !.cp[p].paused = FALSE],
             pane, Nowhere)
    BY <2>1, SwitchedGood
  <2> QED
    BY <2>2 DEF x
<1> HIDE DEF y
<1>3. Good(WriteLine(y), pane, Nowhere)
  BY <1>1, <1>2, CommandingFacts, WriteLineGood
<1> QED
  BY <1>1, <1>3, CommandStep

LEMMA PausePaneInv ==
    ASSUME OutputInv, NEW c \in Client, NEW p \in Pane, PausePane(c, p)
    PROVE  OutputInv'
<1> DEFINE x == AddPane(cli[c], p)
           y == Discard([x EXCEPT !.cp[p].paused = TRUE], p)
<1>1. Commanding /\ Becomes(c, WriteLine(y))
  BY DEF PausePane
<1>2. pane \in Panes /\ Drained(pane) /\ Good(cli[c], pane, Nowhere)
  BY <1>1, CommandingFacts
<1>3. Good(x, pane, Nowhere)
  BY <1>2, AddPaneGood
<1> HIDE DEF x
<1>4. Good(y, pane, Nowhere)
  BY <1>2, <1>3, NowhereFacts, DropGood
<1> HIDE DEF y
<1>5. Good(WriteLine(y), pane, Nowhere)
  BY <1>2, <1>4, WriteLineGood
<1> QED
  BY <1>1, <1>5, CommandStep

LEMMA SetPauseAfterInv ==
    ASSUME OutputInv, NEW c \in Client, SetPauseAfter(c)
    PROVE  OutputInv'
<1> DEFINE x == cli[c]
           b == ~x.pausing
           y == [x EXCEPT !.pausing = b]
<1>1. Commanding /\ Becomes(c, y) /\ b \in BOOLEAN
  <2>1. [cli[c] EXCEPT !.pausing = ~@] = y
    BY CommandingFacts DEF SetPauseAfter, ClientType
  <2> QED
    BY <2>1 DEF SetPauseAfter
<1>2. Good(x, pane, Nowhere) /\ x \in ClientType /\ pane \in Panes
  BY <1>1, CommandingFacts
<1> HIDE DEF x, b
<1>3. y \in ClientType
  BY <1>1, <1>2 DEF ClientType
<1>4. /\ y.all = x.all /\ y.status = x.status /\ y.silent = x.silent
      /\ y.known = x.known /\ y.cp = x.cp /\ y.due = x.due
      /\ y.pending = x.pending /\ y.armed = x.armed /\ y.past = x.past
  BY <1>2 DEF ClientType
<1> HIDE DEF y
<1>5. SameOutput(x, y)
  BY <1>4 DEF SameOutput, Streams
<1>6. Good(y, pane, Nowhere)
  BY <1>2, <1>3, <1>5, NowhereFacts, SameGood
<1> QED
  BY <1>1, <1>6, CommandStep

LEMMA SwitchClientInv ==
    ASSUME OutputInv, NEW c \in Client, NEW v \in View, SwitchClient(c, v)
    PROVE  OutputInv'
<1> DEFINE x == cli[c]
           y == [x EXCEPT !.view = v]
<1>1. Commanding /\ Becomes(c, WriteLine(y))
  BY DEF SwitchClient
<1>2. Good(x, pane, Nowhere) /\ x \in ClientType /\ pane \in Panes
  BY <1>1, CommandingFacts
<1> HIDE DEF x
<1>3. y \in ClientType
  BY <1>2 DEF ClientType
<1>4. /\ y.all = x.all /\ y.status = x.status /\ y.silent = x.silent
      /\ y.known = x.known /\ y.cp = x.cp /\ y.due = x.due
      /\ y.pending = x.pending /\ y.armed = x.armed /\ y.past = x.past
  BY <1>2 DEF ClientType
<1> HIDE DEF y
<1>5. SameOutput(x, y)
  BY <1>4 DEF SameOutput, Streams
<1>6. Good(y, pane, Nowhere)
  BY <1>2, <1>3, <1>5, NowhereFacts, SameGood
<1>7. Good(WriteLine(y), pane, Nowhere)
  BY <1>2, <1>6, WriteLineGood
<1> QED
  BY <1>1, <1>7, CommandStep

LEMMA SetNoOutputInv ==
    ASSUME OutputInv, NEW c \in Client, NEW on \in BOOLEAN, SetNoOutput(c, on)
    PROVE  OutputInv'
<1> DEFINE y == ResetOffsets([cli[c] EXCEPT !.silent = on])
<1>1. Commanding /\ Becomes(c, y)
  BY DEF SetNoOutput
<1>2. Good(y, pane, Nowhere)
  BY <1>1, CommandingFacts, ResetGood
<1> HIDE DEF y
<1> QED
  BY <1>1, <1>2, CommandStep

LEMMA SuspendClientInv ==
    ASSUME OutputInv, NEW c \in Client, SuspendClient(c) \/ DetachClient(c)
    PROVE  OutputInv'
<1>0. Commanding /\ cli[c].status \in {"attached", "suspended"}
  BY DEF SuspendClient, DetachClient
<1>1. PICK st \in {"attached", "suspended", "exiting"} :
        Becomes(c, [cli[c] EXCEPT !.status = st])
  BY DEF SuspendClient, DetachClient
<1>2. Good([cli[c] EXCEPT !.status = st], pane, Nowhere)
  BY <1>0, CommandingFacts, StatusInv
<1> QED
  BY <1>0, <1>1, <1>2, CommandStep

LEMMA RespawnPaneInv ==
    ASSUME OutputInv, NEW p \in Pane, RespawnPane(p)
    PROVE  OutputInv'
<1>0. Commanding /\ UNCHANGED cli
      /\ pane' = [pane EXCEPT ![p].end = pane[p].base, ![p].reading = TRUE,
                              ![p].live = TRUE]
  BY DEF RespawnPane
<1>1. /\ writing = NotWriting /\ UNCHANGED <<phase, served, writing, fault>>
      /\ moves' \in 0 .. MaxMoves /\ pane \in Panes
  BY <1>0, CommandingFacts
<1>2. /\ pane' \in Panes
      /\ \A q \in Pane : pane'[q].parsed = pane[q].parsed /\ pane'[q].base = pane[q].base
  <2> DEFINE r == [pane[p] EXCEPT !.end = pane[p].base, !.reading = TRUE, !.live = TRUE]
  <2>1. pane[p] \in PaneType
    BY <1>1 DEF Panes
  <2>2. r \in PaneType /\ r.parsed = pane[p].parsed /\ r.base = pane[p].base
    BY <2>1 DEF PaneType, Position
  <2>3. pane' = [pane EXCEPT ![p] = r]
    BY <1>0, <1>1 DEF Panes
  <2> HIDE DEF r
  <2> QED
    BY <1>1, <2>2, <2>3 DEF Panes
<1>3. Drained(pane') /\ \A c \in Client : Good(cli[c], pane', Nowhere)
  BY <1>1, <1>2, PanesStep
<1>4. \A c \in Client : Good(cli'[c], pane', Nowhere)
  BY <1>0, <1>3
<1> QED
  BY <1>0, <1>1, <1>2, <1>3, <1>4, QuietStep DEF OutputInv

LEMMA CommandInv ==
    ASSUME OutputInv, Command
    PROVE  OutputInv'
BY NotifyInv, SetPauseAfterInv, SetNoOutputInv, SuspendClientInv, SwitchClientInv,
   SetPaneOnInv, SetPaneOffInv, ContinuePaneInv, PausePaneInv, RespawnPaneInv
   DEF Command

LEMMA CallbackInv ==
    ASSUME OutputInv, Callback
    PROVE  OutputInv'
BY PaneExitsInv, PaneOverrunInv, PaneReadInv, WritableInv, HangUpInv, ClientLostInv,
   EventsDoneInv DEF Callback

-----------------------------------------------------------------------------
(* The invariant holds, and what it implies.                                 *)

(* The invariant holds in the beginning. *)
LEMMA StartsInOrder ==
    ASSUME ControlInit
    PROVE  OutputInv
<1>1. PICK start \in Start :
        /\ pane = [p \in Pane |->
              [base |-> start.read, end |-> start.read, parsed |-> start.read,
               reading |-> p \in start.panes, live |-> p \in start.panes]]
        /\ \E v \in View, pausing \in BOOLEAN :
              cli = [c \in Client |-> IF c \in start.clients
                                     THEN NewClient(v, pausing) ELSE Gone(v)]
        /\ moves = start.moves
  BY DEF ControlInit
<1>2. PICK v \in View, pausing \in BOOLEAN :
        cli = [c \in Client |-> IF c \in start.clients
                               THEN NewClient(v, pausing) ELSE Gone(v)]
  BY <1>1
<1>3. start.read \in Nat /\ start.moves \in 0 .. MaxMoves
  BY ControlAssumption
<1>4. pane \in Panes /\ Drained(pane)
  <2> DEFINE n == start.read
             b(p) == p \in start.panes
  <2>1. pane = [p \in Pane |-> [base |-> n, end |-> n, parsed |-> n,
                                reading |-> b(p), live |-> b(p)]]
    BY <1>1
  <2>2. \A p \in Pane : b(p) \in BOOLEAN
    OBVIOUS
  <2>3. n \in Nat
    BY <1>3
  <2> HIDE DEF n, b
  <2> QED
    BY <2>1, <2>2, <2>3 DEF Panes, PaneType, Position, Drained
<1>5. Good(NewClient(v, pausing), pane, Nowhere) /\ Good(Gone(v), pane, Nowhere)
  BY <1>4, NewGood
<1>6. ASSUME NEW c \in Client
      PROVE  Good(cli[c], pane, Nowhere)
  <2>1. cli[c] = NewClient(v, pausing) \/ cli[c] = Gone(v)
    BY <1>2
  <2> QED
    BY <1>5, <2>1
<1>7. cli \in [Client -> ClientType]
  BY <1>2, <1>6 DEF Good
<1>8. /\ phase = "commands" /\ served = Client /\ writing = NotWriting
      /\ fault = "none" /\ moves \in 0 .. MaxMoves
  BY <1>1, <1>3 DEF ControlInit
<1>9. ASSUME NEW c \in Client
      PROVE  Good(cli[c], pane, Message(c))
  <2>1. Message(c) = Nowhere
    BY <1>8, NotWritingFacts, NoMessage
  <2> QED
    BY <1>6, <2>1, Zenon
<1> QED
  BY <1>4, <1>7, <1>8, <1>9, NotWritingFacts DEF OutputInv

(* Every step keeps the invariant. *)
LEMMA StepsInOrder ==
    ASSUME OutputInv, [ControlNext]_vars
    PROVE  OutputInv'
<1>1. CASE Callback
  BY <1>1, CallbackInv
<1>2. CASE WriteCallback
  BY <1>2, WriteCallbackInv
<1>3. CASE Command
  BY <1>3, CommandInv
<1>4. CASE ServerLoop
  BY <1>4, ServerLoopInv
<1>5. CASE UNCHANGED vars
  <2>1. UNCHANGED <<phase, pane, cli, served, writing, moves, fault>>
    BY <1>5 DEF vars
  <2>2. ASSUME NEW c \in Client
        PROVE  Good(cli'[c], pane', Message(c)')
    <3>1. Message(c)' = Message(c)
      BY <2>1 DEF Message, InMessage
    <3>2. Good(cli[c], pane, Message(c))
      BY DEF OutputInv
    <3> QED
      BY <2>1, <3>1, <3>2, Zenon
  <2> QED
    BY <2>1, <2>2 DEF OutputInv
<1> QED
  BY <1>1, <1>2, <1>3, <1>4, <1>5 DEF ControlNext

(* Every control client is in order at every pane: only panes it takes output *)
(* of have blocks, nothing is queued or waited for that the parser has not    *)
(* read, the next byte to be written is the one it expects, and its lines are *)
(* behind the output that came before them.                                   *)
THEOREM OutputInvariant == ControlSpec => []OutputInv
<1>1. ControlInit => OutputInv
  BY StartsInOrder
<1>2. OutputInv /\ [ControlNext]_vars => OutputInv'
  BY StepsInOrder
<1> QED
  BY <1>1, <1>2, PTL DEF ControlSpec

(* What the invariant says of a client that is sent the output of a pane. *)
LEMMA ReceivesFacts ==
    ASSUME OutputInv, NEW c \in Client, NEW p \in Pane, Receives(c, p)
    PROVE  /\ cli[c] \in ClientType /\ InMessage(c, p) \in Nat
           /\ cli[c].cp[p].offset \in Nat /\ cli[c].past[p] \in Nat
           /\ cli[c].due[p] \in Nat
           /\ pane[p].base <= cli[c].cp[p].offset
           /\ cli[c].cp[p].queued <= pane[p].parsed
           /\ cli[c].past[p] + InMessage(c, p) <= cli[c].cp[p].offset
           /\ cli[c].due[p] + InMessage(c, p) = cli[c].cp[p].offset
<1>1. /\ AtPane(cli[c], p, pane[p], Message(c)[p]) /\ cli[c] \in ClientType
  BY DEF OutputInv, Good
<1>2. Message(c)[p] = InMessage(c, p)
  BY DEF Message
<1>3. InMessage(c, p) \in Nat
  BY DEF OutputInv, InMessage, WriteType
<1>4. /\ Streams(cli[c], p) /\ ~cli[c].silent /\ Exact(cli[c], p)
  BY DEF Receives, Counts, Streams, Exact
<1>5. /\ cli[c].cp[p].offset \in Nat /\ cli[c].past[p] \in Nat /\ cli[c].due[p] \in Nat
  BY <1>1, AtClient
<1> DEFINE x == cli[c]
           b == pane[p]
           m == InMessage(c, p)
<1>6. AtPane(x, p, b, m) /\ Streams(x, p) /\ ~x.silent /\ Exact(x, p)
  BY <1>1, <1>2, <1>4
<1> HIDE DEF x, b, m
<1>7. /\ b.base <= x.cp[p].offset /\ x.cp[p].queued <= b.parsed
      /\ x.past[p] + m <= x.cp[p].offset
      /\ x.due[p] + m = x.cp[p].offset
  BY <1>6 DEF AtPane, Read, Expects, InOrder
<1> QED
  BY <1>1, <1>3, <1>5, <1>7 DEF x, b, m

(* The types, and output that is queued has its pane pending, once, and       *)
(* EV_WRITE set.                                                              *)
THEOREM QueuedOutputIsScheduled == ControlSpec => []ControlInv
<1>1. OutputInv => ControlTypeOK
  BY DEF OutputInv, ControlTypeOK, Panes
<1>2. OutputInv => OutputScheduled
  <2> SUFFICES ASSUME OutputInv, NEW c \in Listed
               PROVE  /\ \A p \in Pane : HasBlocks(cli[c], p) =>
                            p \in Range(cli[c].pending) /\ cli[c].armed
                      /\ IsInjective(cli[c].pending)
    BY DEF OutputScheduled
  <2>1. Good(cli[c], pane, Message(c))
    BY DEF OutputInv, Listed
  <2>2. ASSUME NEW p \in Pane
        PROVE  Scheduled(cli[c], p)
    BY <2>1 DEF Good, AtPane
  <2> QED
    BY <2>1, <2>2 DEF Good, Scheduled
<1>3. OutputInv => ControlInv
  BY <1>1, <1>2 DEF ControlInv
<1> QED
  BY <1>3, OutputInvariant, PTL

(* server_client_check_pane_buffer drains nothing that the parser or a        *)
(* control client has yet to read.                                            *)
THEOREM NothingDrainedUnread == ControlSpec => []BufferKept
<1>1. OutputInv => BufferKept
  <2> SUFFICES ASSUME OutputInv, NEW p \in Pane, pane[p].live,
                      pane[p].parsed <= pane[p].end
               PROVE  /\ pane[p].base <= pane[p].parsed
                      /\ \A c \in Client : Receives(c, p) =>
                            /\ pane[p].base <= cli[c].cp[p].offset
                            /\ cli[c].cp[p].queued <= pane[p].end
    BY DEF BufferKept
  <2>1. pane[p].base <= pane[p].parsed /\ pane[p] \in PaneType
    BY DEF OutputInv, Drained, Panes
  <2>2. ASSUME NEW c \in Client, Receives(c, p)
        PROVE  /\ pane[p].base <= cli[c].cp[p].offset
               /\ cli[c].cp[p].queued <= pane[p].end
    <3>1. /\ pane[p].base <= cli[c].cp[p].offset
          /\ cli[c].cp[p].queued <= pane[p].parsed /\ cli[c] \in ClientType
      BY <2>2, ReceivesFacts
    <3>2. cli[c].cp[p].queued \in Nat
      BY <3>1, AtClient
    <3> QED
      BY <2>1, <3>1, <3>2, PaneFacts
  <2> QED
    BY <2>1, <2>2
<1> QED
  BY <1>1, OutputInvariant, PTL

(* No byte of a pane is sent after a line that was written when the byte was  *)
(* already queued.                                                            *)
THEOREM LinesStayBehindOutput == ControlSpec => []LineAfterOutput
<1>1. OutputInv => LineAfterOutput
  <2> SUFFICES ASSUME OutputInv, NEW c \in Client, NEW p \in Pane, Receives(c, p)
               PROVE  cli[c].past[p] <= cli[c].cp[p].offset - InMessage(c, p)
    BY DEF LineAfterOutput
  <2> DEFINE o == cli[c].cp[p].offset
             a == cli[c].past[p]
             m == InMessage(c, p)
  <2>1. o \in Nat /\ a \in Nat /\ m \in Nat /\ a + m <= o
    BY ReceivesFacts
  <2> HIDE DEF o, a, m
  <2>2. a <= o - m
    BY <2>1
  <2> QED
    BY <2>2 DEF o, a, m
<1> QED
  BY <1>1, OutputInvariant, PTL

(* A client misses no byte of a pane and gets none twice. *)
THEOREM OutputHasNoGap == ControlSpec => []NoGap
<1>1. OutputInv => NoGap
  <2> SUFFICES ASSUME OutputInv, NEW c \in Client, NEW p \in Pane, Receives(c, p)
               PROVE  cli[c].due[p] = cli[c].cp[p].offset - InMessage(c, p)
    BY DEF NoGap
  <2> DEFINE o == cli[c].cp[p].offset
             a == cli[c].due[p]
             m == InMessage(c, p)
  <2>1. o \in Nat /\ a \in Nat /\ m \in Nat /\ a + m = o
    BY ReceivesFacts
  <2> HIDE DEF o, a, m
  <2>2. a = o - m
    BY <2>1
  <2> QED
    BY <2>2 DEF o, a, m
<1> QED
  BY <1>1, OutputInvariant, PTL
=============================================================================
