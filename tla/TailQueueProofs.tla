--------------------------- MODULE TailQueueProofs --------------------------
(***************************************************************************)
(* What the operators of TailQueue return, for every queue.                *)
(***************************************************************************)
EXTENDS TailQueue, SequenceTheorems, Functions, NaturalsInduction, WellFoundedInduction, TLAPS

(* A set of numbers that is not empty has a least one. *)
LEMMA LeastNumber ==
    ASSUME NEW S \in SUBSET Nat, S # {}
    PROVE  \E x \in S : \A y \in S : x <= y
<1>1. IsWellFoundedOn(OpToRel(<, Nat), Nat)
  BY NatLessThanWellFounded
<1>2. PICK x \in S : \A y \in S : <<y, x>> \notin OpToRel(<, Nat)
  BY <1>1, WFMin
<1>3. \A y \in S : x <= y
  <2> SUFFICES ASSUME NEW y \in S PROVE ~(y < x)
    OBVIOUS
  <2>1. <<y, x>> \in Nat \X Nat /\ <<y, x>>[1] = y /\ <<y, x>>[2] = x
    OBVIOUS
  <2> QED
    BY <1>2, <2>1 DEF OpToRel
<1> QED
  BY <1>3

(* Induction over 0 .. N, for a set. *)
LEMMA UpTo ==
    ASSUME NEW N \in Nat, NEW P, 0 \in P,
           \A n \in 0 .. N : n + 1 \in 0 .. N /\ n \in P => n + 1 \in P
    PROVE  0 .. N \subseteq P
<1> SUFFICES ASSUME (0 .. N) \ P # {} PROVE FALSE
  OBVIOUS
<1>1. PICK x \in (0 .. N) \ P : \A y \in (0 .. N) \ P : x <= y
  <2>1. (0 .. N) \ P \in SUBSET Nat
    OBVIOUS
  <2> QED
    BY <2>1, LeastNumber
<1>2. x # 0 /\ x - 1 \in 0 .. N /\ x - 1 + 1 = x
  BY <1>1
<1>3. x - 1 \in P
  BY <1>1, <1>2
<1> QED
  BY <1>1, <1>2, <1>3

(* What an inserted element does to a queue. *)
LEMMA InsertBehindFacts ==
    ASSUME NEW S, NEW s \in Seq(S), NEW x \in S, NEW n \in 0 .. Len(s)
    PROVE  /\ InsertBehind(s, n, x) \in Seq(S)
           /\ Len(InsertBehind(s, n, x)) = Len(s) + 1
           /\ \A m \in 1 .. n : InsertBehind(s, n, x)[m] = s[m]
           /\ InsertBehind(s, n, x)[n + 1] = x
           /\ \A m \in n + 2 .. Len(s) + 1 : InsertBehind(s, n, x)[m] = s[m - 1]
           /\ Range(InsertBehind(s, n, x)) = Range(s) \cup {x}
<1> DEFINE a == SubSeq(s, 1, n)
           b == SubSeq(s, n + 1, Len(s))
           t == InsertBehind(s, n, x)
<1>1. /\ a \in Seq(S) /\ Len(a) = n
      /\ \A m \in 1 .. n : a[m] = s[m]
      /\ b \in Seq(S) /\ Len(b) = Len(s) - n
      /\ \A m \in 1 .. Len(s) - n : b[m] = s[n + m]
  OBVIOUS
<1>2. t = a \o <<x>> \o b
  BY DEF InsertBehind
<1> HIDE DEF a, b, t
<1> DEFINE d == a \o <<x>>
<1>d. /\ d \in Seq(S) /\ Len(d) = n + 1
      /\ \A m \in 1 .. n : d[m] = s[m]
      /\ d[n + 1] = x
  BY <1>1
<1> HIDE DEF d
<1>t. t = d \o b
  BY <1>2 DEF d
<1>3. /\ t \in Seq(S) /\ Len(t) = Len(s) + 1
      /\ \A m \in 1 .. Len(s) + 1 :
           t[m] = IF m <= n THEN s[m] ELSE IF m = n + 1 THEN x ELSE s[m - 1]
  <2>1. t \in Seq(S) /\ Len(t) = Len(s) + 1
    <3>1. d \o b \in Seq(S) /\ Len(d \o b) = Len(d) + Len(b)
      BY <1>1, <1>d, ConcatProperties
    <3>2. Len(s) \in Nat /\ n \in Nat /\ (n + 1) + (Len(s) - n) = Len(s) + 1
      OBVIOUS
    <3> QED
      BY <1>1, <1>d, <1>t, <3>1, <3>2
  <2>2. \A m \in 1 .. n + 1 : t[m] = d[m]
    BY <1>1, <1>d, <1>t
  <2>3. \A m \in n + 2 .. Len(s) + 1 : t[m] = b[m - (n + 1)] /\ b[m - (n + 1)] = s[m - 1]
    <3> SUFFICES ASSUME NEW m \in n + 2 .. Len(s) + 1
                 PROVE  t[m] = b[m - (n + 1)] /\ b[m - (n + 1)] = s[m - 1]
      OBVIOUS
    <3>1. m - (n + 1) \in 1 .. Len(s) - n /\ n + (m - (n + 1)) = m - 1
      OBVIOUS
    <3>2. b[m - (n + 1)] = s[m - 1]
      BY <1>1, <3>1
    <3> QED
      BY <1>1, <1>d, <1>t, <3>1, <3>2
  <2>4. ASSUME NEW m \in 1 .. Len(s) + 1
        PROVE  t[m] = IF m <= n THEN s[m] ELSE IF m = n + 1 THEN x ELSE s[m - 1]
    <3>1. CASE m <= n
      BY <1>d, <2>2, <3>1
    <3>2. CASE m = n + 1
      BY <1>d, <2>2, <3>2
    <3>3. CASE m > n + 1
      BY <2>3, <3>3
    <3> QED
      BY <3>1, <3>2, <3>3
  <2> QED
    BY <2>1, <2>4
<1>4. Range(t) = Range(s) \cup {x}
  <2>1. DOMAIN t = 1 .. Len(s) + 1 /\ DOMAIN s = 1 .. Len(s)
    BY <1>3
  <2>2. ASSUME NEW m \in 1 .. Len(s) + 1 PROVE t[m] \in Range(s) \cup {x}
    <3>1. \A k \in 1 .. Len(s) : s[k] \in Range(s)
      BY <2>1 DEF Range
    <3>2. CASE m <= n
      BY <3>1, <3>2, <1>3
    <3>3. CASE m = n + 1
      BY <3>3, <1>3
    <3>4. CASE m > n + 1
      <4>1. m - 1 \in 1 .. Len(s) /\ t[m] = s[m - 1]
        BY <3>4, <1>3
      <4> QED
        BY <4>1, <3>1
    <3> QED
      BY <3>2, <3>3, <3>4
  <2>3. x = t[n + 1] /\ n + 1 \in DOMAIN t
    BY <1>3, <2>1
  <2>4. ASSUME NEW m \in DOMAIN s PROVE s[m] \in Range(t)
    <3>1. CASE m <= n
      BY <3>1, <1>3, <2>1 DEF Range
    <3>2. CASE m > n
      <4>1. t[m + 1] = s[m] /\ m + 1 \in DOMAIN t
        BY <3>2, <1>3, <2>1
      <4> QED
        BY <4>1 DEF Range
    <3> QED
      BY <3>1, <3>2, <2>1
  <2> QED
    BY <2>1, <2>2, <2>3, <2>4 DEF Range
<1>5. /\ \A m \in 1 .. n : t[m] = s[m]
      /\ t[n + 1] = x
      /\ \A m \in n + 2 .. Len(s) + 1 : t[m] = s[m - 1]
  <2>0. n \in Nat /\ n <= Len(s) /\ Len(s) \in Nat
    OBVIOUS
  <2>1. ASSUME NEW m \in 1 .. n PROVE t[m] = s[m]
    <3>1. m \in 1 .. Len(s) + 1 /\ m <= n
      BY <2>0
    <3> QED
      BY <1>3, <3>1
  <2>2. t[n + 1] = x
    <3>1. n + 1 \in 1 .. Len(s) + 1 /\ ~(n + 1 <= n)
      BY <2>0
    <3> QED
      BY <1>3, <3>1
  <2>3. ASSUME NEW m \in n + 2 .. Len(s) + 1 PROVE t[m] = s[m - 1]
    <3>1. m \in 1 .. Len(s) + 1 /\ ~(m <= n) /\ m # n + 1
      BY <2>0
    <3> QED
      BY <1>3, <3>1
  <2> QED
    BY <2>1, <2>2, <2>3
<1> QED
  BY <1>3, <1>4, <1>5 DEF t

(* What is kept of the first elements of a queue, one after another. *)
Keeps(s, D, kept) ==
    /\ Without(s, D) = kept[Len(s)]
    /\ kept[0] = <<>>
    /\ \A n \in 1 .. Len(s) :
          kept[n] = IF s[n] \in D THEN kept[n - 1] ELSE Append(kept[n - 1], s[n])

(* Without, element by element. *)
LEMMA WithoutKept ==
    ASSUME NEW S, NEW s \in Seq(S), NEW D
    PROVE  \E kept : Keeps(s, D, kept)
<1> DEFINE L == Len(s)
           Next(f, n) == IF s[n] \in D THEN f[n - 1] ELSE Append(f[n - 1], s[n])
           Upto(N, f) == f = [n \in 0 .. N |-> IF n = 0 THEN <<>> ELSE Next(f, n)]
           kept == CHOOSE f : Upto(L, f)
<1>1. L \in Nat /\ DOMAIN s = 1 .. L /\ \A n \in 1 .. L : s[n] \in S
  OBVIOUS
<1>2. Without(s, D) = kept[L]
  BY DEF Without
<1>3. \E f : Upto(L, f)
  <2> DEFINE P == {n \in 0 .. L : \E f : Upto(n, f)}
  <2>1. 0 \in P
    <3> DEFINE f == [n \in 0 .. 0 |-> <<>>]
    <3>1. f = [n \in 0 .. 0 |-> IF n = 0 THEN <<>> ELSE Next(f, n)]
      <4>1. \A n \in 0 .. 0 : n = 0
        OBVIOUS
      <4> HIDE DEF Next
      <4> QED
        BY <4>1
    <3>2. \E g : Upto(0, g)
      BY <3>1
    <3> QED
      BY <3>2, <1>1
  <2>2. ASSUME NEW n \in 0 .. L, n + 1 \in 0 .. L, n \in P
        PROVE  n + 1 \in P
    <3>1. PICK f : Upto(n, f)
      BY <2>2
    <3> DEFINE g == [k \in 0 .. n + 1 |-> IF k <= n THEN f[k] ELSE Next(f, n + 1)]
    <3>2. \A k \in 0 .. n : g[k] = f[k]
      BY <1>1
    <3>3. g[n + 1] = Next(f, n + 1)
      BY <1>1
    <3>4. \A k \in 0 .. n + 1 : g[k] = IF k = 0 THEN <<>> ELSE Next(g, k)
      <4> SUFFICES ASSUME NEW k \in 0 .. n + 1
                   PROVE  g[k] = IF k = 0 THEN <<>> ELSE Next(g, k)
        OBVIOUS
      <4>1. CASE k = n + 1
        <5>1. g[k - 1] = f[n] /\ k # 0
          BY <3>2, <4>1, <1>1
        <5> HIDE DEF g
        <5> QED
          BY <3>3, <4>1, <5>1, <1>1
      <4>2. CASE k # n + 1
        <5>1. g[k] = f[k] /\ k \in 0 .. n /\ (k # 0 => g[k - 1] = f[k - 1])
          BY <3>2, <4>2, <1>1
        <5>2. f[k] = IF k = 0 THEN <<>> ELSE Next(f, k)
          BY <3>1, <5>1
        <5> HIDE DEF g
        <5> QED
          BY <5>1, <5>2
      <4> QED
        BY <4>1, <4>2
    <3>5. Upto(n + 1, g)
      <4>1. g = [k \in 0 .. n + 1 |-> g[k]]
        OBVIOUS
      <4> HIDE DEF g
      <4> QED
        BY <3>4, <4>1
    <3> QED
      BY <3>5, <2>2
  <2>3. 0 .. L \subseteq P
    <3> HIDE DEF P
    <3> QED
      BY <2>1, <2>2, <1>1, UpTo
  <2>4. L \in P
    <3>1. L \in 0 .. L
      BY <1>1
    <3> HIDE DEF P
    <3> QED
      BY <2>3, <3>1
  <2> QED
    BY <2>4
<1>4. Upto(L, kept)
  BY <1>3
<1> HIDE DEF kept
<1>5. kept[0] = <<>> /\ \A n \in 1 .. L : kept[n] = Next(kept, n)
  <2>1. kept = [n \in 0 .. L |-> IF n = 0 THEN <<>> ELSE Next(kept, n)]
    BY <1>4
  <2>2. \A n \in 0 .. L : kept[n] = IF n = 0 THEN <<>> ELSE Next(kept, n)
    <3> HIDE DEF Next
    <3> QED
      BY <2>1
  <2>3. 0 \in 0 .. L /\ \A n \in 1 .. L : n \in 0 .. L /\ n # 0
    BY <1>1
  <2> HIDE DEF Next
  <2> QED
    BY <2>2, <2>3
<1>6. Keeps(s, D, kept)
  BY <1>2, <1>5 DEF Keeps
<1> QED
  BY <1>6

(* Removing elements leaves the others, in their order. *)
LEMMA WithoutFacts ==
    ASSUME NEW S, NEW s \in Seq(S), NEW D
    PROVE  /\ Without(s, D) \in Seq(S)
           /\ Range(Without(s, D)) = Range(s) \ D
           /\ \A m, n \in 1 .. Len(Without(s, D)) : m < n =>
                \E j, k \in 1 .. Len(s) :
                  j < k /\ Without(s, D)[m] = s[j] /\ Without(s, D)[n] = s[k]
<1> DEFINE L == Len(s)
<1>1. L \in Nat /\ DOMAIN s = 1 .. L /\ \A n \in 1 .. L : s[n] \in S
  OBVIOUS
<1>0. PICK kept : Keeps(s, D, kept)
  BY WithoutKept
<1>2. Without(s, D) = kept[L]
  BY <1>0 DEF Keeps
<1>5. /\ kept[0] = <<>>
      /\ \A n \in 1 .. L : kept[n] = IF s[n] \in D THEN kept[n - 1]
                                     ELSE Append(kept[n - 1], s[n])
  BY <1>0 DEF Keeps
<1> DEFINE Good(n) ==
             /\ kept[n] \in Seq(S)
             /\ \A k \in 1 .. Len(kept[n]) : \E j \in 1 .. n : kept[n][k] = s[j] /\ s[j] \notin D
             /\ \A j \in 1 .. n : s[j] \notin D => \E k \in 1 .. Len(kept[n]) : kept[n][k] = s[j]
             /\ \A k, m \in 1 .. Len(kept[n]) : k < m =>
                  \E i, j \in 1 .. n : i < j /\ kept[n][k] = s[i] /\ kept[n][m] = s[j]
<1>6. \A n \in 0 .. L : Good(n)
  <2> DEFINE P == {n \in 0 .. L : Good(n)}
  <2>1. 0 \in P
    <3>1. Len(kept[0]) = 0 /\ kept[0] \in Seq(S)
      BY <1>5
    <3> QED
      BY <3>1, <1>1
  <2>2. ASSUME NEW n \in 0 .. L, n + 1 \in 0 .. L, n \in P
        PROVE  n + 1 \in P
    <3>1. Good(n) /\ n \in Nat /\ n + 1 \in 1 .. L
      BY <2>2, <1>1
    <3>2. kept[n + 1] = IF s[n + 1] \in D THEN kept[n] ELSE Append(kept[n], s[n + 1])
      BY <1>5, <3>1
    <3>3. CASE s[n + 1] \in D
      <4> DEFINE q == kept[n]
      <4>1. kept[n + 1] = q
        BY <3>2, <3>3
      <4>2. /\ q \in Seq(S)
            /\ \A k \in 1 .. Len(q) : \E j \in 1 .. n : q[k] = s[j] /\ s[j] \notin D
            /\ \A j \in 1 .. n : s[j] \notin D => \E k \in 1 .. Len(q) : q[k] = s[j]
            /\ \A k, m \in 1 .. Len(q) : k < m =>
                 \E i, j \in 1 .. n : i < j /\ q[k] = s[i] /\ q[m] = s[j]
        BY <3>1
      <4> HIDE DEF q
      <4>3. \A j \in 1 .. n + 1 : j \in 1 .. n \/ s[j] \in D
        BY <3>1, <3>3
      <4>4. \A j \in 1 .. n : j \in 1 .. n + 1
        BY <3>1
      <4>5. \A j \in 1 .. n + 1 : s[j] \notin D => \E k \in 1 .. Len(q) : q[k] = s[j]
        BY <4>2, <4>3
      <4>6. \A k \in 1 .. Len(q) : \E j \in 1 .. n + 1 : q[k] = s[j] /\ s[j] \notin D
        BY <4>2, <4>4
      <4>7. \A k, m \in 1 .. Len(q) : k < m =>
              \E i, j \in 1 .. n + 1 : i < j /\ q[k] = s[i] /\ q[m] = s[j]
        BY <4>2, <4>4
      <4>8. Good(n + 1)
        BY <4>1, <4>2, <4>5, <4>6, <4>7
      <4> QED
        BY <4>8, <2>2
    <3>4. CASE s[n + 1] \notin D
      <4> DEFINE q == kept[n]
                 t == kept[n + 1]
                 x == s[n + 1]
      <4>1. /\ q \in Seq(S) /\ x \in S /\ t = Append(q, x)
        BY <1>1, <3>1, <3>2, <3>4
      <4>2. /\ t \in Seq(S) /\ Len(t) = Len(q) + 1 /\ Len(q) \in Nat
            /\ \A k \in 1 .. Len(q) : t[k] = q[k]
            /\ t[Len(q) + 1] = x
        BY <4>1
      <4>3. \A k \in 1 .. Len(t) : \E j \in 1 .. n + 1 : t[k] = s[j] /\ s[j] \notin D
        <5> SUFFICES ASSUME NEW k \in 1 .. Len(t)
                     PROVE  \E j \in 1 .. n + 1 : t[k] = s[j] /\ s[j] \notin D
          OBVIOUS
        <5>1. CASE k \in 1 .. Len(q)
          <6>1. PICK j \in 1 .. n : q[k] = s[j] /\ s[j] \notin D
            BY <3>1, <5>1
          <6>2. j \in 1 .. n + 1 /\ t[k] = q[k]
            BY <3>1, <4>2, <5>1
          <6> QED
            BY <6>1, <6>2
        <5>2. CASE k = Len(q) + 1
          <6>1. t[k] = x /\ n + 1 \in 1 .. n + 1
            BY <4>2, <5>2, <3>1
          <6> QED
            BY <6>1, <3>4
        <5> QED
          BY <4>2, <5>1, <5>2
      <4>4. \A j \in 1 .. n + 1 : s[j] \notin D => \E k \in 1 .. Len(t) : t[k] = s[j]
        <5> SUFFICES ASSUME NEW j \in 1 .. n + 1, s[j] \notin D
                     PROVE  \E k \in 1 .. Len(t) : t[k] = s[j]
          OBVIOUS
        <5>1. CASE j \in 1 .. n
          <6>1. PICK k \in 1 .. Len(q) : q[k] = s[j]
            BY <3>1, <5>1
          <6>2. k \in 1 .. Len(t) /\ t[k] = q[k]
            BY <4>2
          <6> QED
            BY <6>1, <6>2
        <5>2. CASE j = n + 1
          BY <4>2, <5>2
        <5> QED
          BY <3>1, <5>1, <5>2
      <4>5. \A k, m \in 1 .. Len(t) : k < m =>
              \E i, j \in 1 .. n + 1 : i < j /\ t[k] = s[i] /\ t[m] = s[j]
        <5> SUFFICES ASSUME NEW k \in 1 .. Len(t), NEW m \in 1 .. Len(t), k < m
                     PROVE  \E i, j \in 1 .. n + 1 : i < j /\ t[k] = s[i] /\ t[m] = s[j]
          OBVIOUS
        <5>1. k \in 1 .. Len(q) /\ t[k] = q[k]
          BY <4>2
        <5>2. CASE m \in 1 .. Len(q)
          <6>1. PICK i \in 1 .. n, j \in 1 .. n : i < j /\ q[k] = s[i] /\ q[m] = s[j]
            BY <3>1, <5>1, <5>2
          <6>2. t[m] = q[m] /\ i \in 1 .. n + 1 /\ j \in 1 .. n + 1
            BY <4>2, <5>2, <3>1
          <6> QED
            BY <6>1, <6>2, <5>1
        <5>3. CASE m = Len(q) + 1
          <6>1. PICK i \in 1 .. n : q[k] = s[i]
            BY <3>1, <5>1
          <6>2. i \in 1 .. n + 1 /\ i < n + 1 /\ n + 1 \in 1 .. n + 1 /\ t[m] = s[n + 1]
            BY <4>2, <5>3, <3>1
          <6> QED
            BY <6>1, <6>2, <5>1
        <5> QED
          BY <4>2, <5>2, <5>3
      <4> QED
        BY <4>2, <4>3, <4>4, <4>5, <3>1
    <3> QED
      BY <3>3, <3>4
  <2> HIDE DEF Good
  <2> QED
    BY <2>1, <2>2, <1>1, UpTo
<1> HIDE DEF Good
<1>7. Good(L)
  BY <1>6, <1>1
<1> DEFINE t == kept[L]
<1>8. /\ t \in Seq(S)
      /\ \A k \in 1 .. Len(t) : \E j \in 1 .. L : t[k] = s[j] /\ s[j] \notin D
      /\ \A j \in 1 .. L : s[j] \notin D => \E k \in 1 .. Len(t) : t[k] = s[j]
      /\ \A k, m \in 1 .. Len(t) : k < m =>
           \E i, j \in 1 .. L : i < j /\ t[k] = s[i] /\ t[m] = s[j]
  BY <1>7 DEF Good
<1> HIDE DEF t
<1>9. DOMAIN t = 1 .. Len(t)
  BY <1>8
<1>10. Range(t) = Range(s) \ D
  <2>1. ASSUME NEW y \in Range(t) PROVE y \in Range(s) \ D
    <3>1. PICK k \in 1 .. Len(t) : y = t[k]
      BY <2>1, <1>9 DEF Range
    <3>2. PICK j \in 1 .. L : t[k] = s[j] /\ s[j] \notin D
      BY <1>8
    <3> QED
      BY <1>1, <3>1, <3>2 DEF Range
  <2>2. ASSUME NEW y \in Range(s), y \notin D PROVE y \in Range(t)
    <3>1. PICK j \in 1 .. L : y = s[j]
      BY <2>2, <1>1 DEF Range
    <3>2. PICK k \in 1 .. Len(t) : t[k] = s[j]
      BY <1>8, <2>2, <3>1
    <3> QED
      BY <1>9, <3>1, <3>2 DEF Range
  <2> QED
    BY <2>1, <2>2
<1> QED
  BY <1>2, <1>8, <1>10 DEF t

(* Two that are left were in the queue, in the same order. *)
LEMMA WithoutOrder ==
    ASSUME NEW S, NEW s \in Seq(S), NEW D,
           NEW m \in 1 .. Len(Without(s, D)), NEW n \in 1 .. Len(Without(s, D)), m < n
    PROVE  \E j, k \in 1 .. Len(s) :
             j < k /\ Without(s, D)[m] = s[j] /\ Without(s, D)[n] = s[k]
<1> DEFINE t == Without(s, D)
<1>1. \A a, b \in 1 .. Len(t) : a < b =>
        \E j, k \in 1 .. Len(s) : j < k /\ t[a] = s[j] /\ t[b] = s[k]
  BY WithoutFacts
<1> HIDE DEF t
<1>2. m \in 1 .. Len(t) /\ n \in 1 .. Len(t)
  BY DEF t
<1>3. \E j, k \in 1 .. Len(s) : j < k /\ t[m] = s[j] /\ t[n] = s[k]
  BY <1>1, <1>2
<1> QED
  BY <1>3 DEF t
=============================================================================
