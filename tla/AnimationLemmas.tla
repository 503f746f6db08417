--------------------------- MODULE AnimationLemmas ---------------------------
(***************************************************************************)
(* The invariants of Animation, for any clients, sessions and windows.     *)
(* The handlers call back into one another, so what holds between two      *)
(* handlers is kept in between by what is still on the agenda.  This module *)
(* has that invariant, AnimationCore, with what is captured for a layout   *)
(* animation, AnimationIInv, and shows that what starts a handler keeps it. *)
(***************************************************************************)
EXTENDS Animation, TailQueueProofs, FiniteSetTheorems, FunctionTheorems

Faults == {"none", "pane", "winlink", "session", "picture", "overlay"}

(* The variables have their types, captures aside. *)
TypesKept ==
    /\ cli \in [Client -> ClientType]
    /\ ses \in [Session -> SessionType]
    /\ win \in [Window -> WindowType]
    /\ defer \in [Defer -> DeferType]
    /\ agenda \in Seq(Work)
    /\ fault \in Faults
    /\ moves \in 0 .. MaxMoves

Cleared(c) == [op |-> "cleared", client |-> c]
Finalizing(d) == [op |-> "finalize", defer |-> d]

Has(q, x) == \E k \in DOMAIN q : q[k] = x
Occurrences(q, x) == {k \in DOMAIN q : q[k] = x}

(* The calls that end an animation, a pane or a window come first, the rest *)
(* of a command last; nothing comes between the clearing of an overlay and  *)
(* what takes its place.                                                    *)
InOrder(q) ==
    \A k \in DOMAIN q :
        /\ q[k].op \in {"clear", "finalize", "kill"} => k = 1
        /\ q[k].op \in {"set", "lost", "prompt", "scroll"} => k = Len(q)
        /\ q[k].op = "picture" => k + 1 \in DOMAIN q /\ q[k + 1].op = "scroll"
        /\ q[k].op \in {"picture", "set", "lost"} /\ k # 1
             => q[k - 1] \in {Clear(q[k].client), Cleared(q[k].client)}

(* A client's overlay and animation, while the calls q are to be made.      *)
Owns(k, c, q) ==
    /\ k.anim.kind # "none" => k.overlay = "animation"
    /\ k.overlay = "animation" => k.listed /\ k.sized
    /\ k.overlay = "animation" /\ k.anim.kind = "none" => Has(q, Cleared(c))
    /\ k.anim.kind = "none" => k.anim = NoAnimation
    /\ ~k.listed => k.session = 0
    /\ \A i, j \in DOMAIN q : q[i] = Cleared(c) /\ q[j] = Cleared(c) => i = j
    /\ Has(q, Cleared(c)) => k.anim.kind = "none" /\ k.overlay # "none" /\ ~Has(q, Clear(c))
    /\ Has(q, Cleared(c)) /\ q[1] # Cleared(c) => k.overlay = "animation"
    /\ Has(q, Clear(c)) => k.overlay # "none"
    /\ \A i \in DOMAIN q : q[i].op = "picture" /\ q[i].client = c => k.listed /\ k.sized
    /\ q # <<>> /\ q[1].op \in {"picture", "set", "lost"} /\ q[1].client = c => k.overlay = "none"

OverlaysOwned == \A c \in Client : Owns(cli[c], c, agenda)

(* A deferred close is in use while some animation carries it or it is being *)
(* made; a pane waits to be closed exactly when one names it.                *)
DefersNamed ==
    /\ \A d \in Defer :
         /\ defer[d] # NoDefer => defer[d].win # 0 /\ defer[d].pane # 0
         /\ defer[d].pending = 0 => defer[d] = NoDefer \/ (agenda # <<>> /\ agenda[1] = Finalizing(d))
         /\ Has(agenda, Finalizing(d)) => defer[d].pending = 0 /\ defer[d] # NoDefer
    /\ \A d, e \in Defer :
         defer[d] # NoDefer /\ defer[d].win = defer[e].win /\ defer[d].pane = defer[e].pane => d = e
    /\ \A w \in Window, p \in PaneId :
         /\ win[w].panes[p] \in {"closing", "revived"}
              => \E d \in Defer : defer[d].win = w /\ defer[d].pane = p
         /\ win[w].panes[p] = "running" => \A d \in Defer : defer[d].win # w \/ defer[d].pane # p

Deferred(w) == {d \in Defer : defer[d].win = w}

(* Every reference has an owner, a call that is still to drop it among them. *)
RefsCounted ==
    \A w \in Window :
        win[w].refs = Cardinality(Linking(w)) + win[w].noted + Cardinality(Deferred(w))
                      + Cardinality(Occurrences(agenda, Unref(w)))

(* A window without a reference is being destroyed, one that has lost its    *)
(* last pane is being killed.                                                *)
PanesKept ==
    \A w \in Window :
        /\ win[w].refs = 0 =>
             \/ Panes(w) = {}
             \/ \E k \in DOMAIN agenda : agenda[k].op = "invalidate" /\ agenda[k].win = w
        /\ \A k \in DOMAIN agenda : agenda[k].op = "invalidate" /\ agenda[k].win = w => win[w].refs = 0
        /\ Linking(w) # {} /\ Panes(w) = {} =>
             /\ agenda # <<>> /\ agenda[1].op = "kill" /\ agenda[1].win = w
             /\ Linking(w) \subseteq agenda[1].todo

(* An animation that draws a window without references is found by the calls *)
(* that destroy it.                                                          *)
Found(c, w, q) ==
    \E k \in DOMAIN q : /\ q[k].op = "invalidate" /\ q[k].win = w
                        /\ c \in q[k].todo \/ q[1] = Clear(c)

DrawnKept ==
    \A c \in Client : cli[c].anim.win # 0 =>
        win[cli[c].anim.win].refs > 0 \/ Found(c, cli[c].anim.win, agenda)

AnimationCore ==
    /\ TypesKept /\ CurrentWindowLinked /\ CarriersCounted
    /\ InOrder(agenda) /\ OverlaysOwned /\ DefersNamed
    /\ RefsCounted /\ PanesKept /\ DrawnKept

CapturesOK == capture \in [Client -> Window \cup {0}] /\ CapturesKept

AnimationIInv == AnimationCore /\ CapturesOK

----------------------------------------------------------------------------
(* What is left of the agenda when the first call has been made and others  *)
(* were put before the rest.                                                *)
Shifted(q, work, r) ==
    /\ Len(r) = Len(work) + Len(q) - 1 /\ DOMAIN r = 1 .. Len(r)
    /\ DOMAIN q = 1 .. Len(q) /\ DOMAIN work = 1 .. Len(work)
    /\ Len(q) \in Nat \ {0} /\ Len(work) \in Nat
    /\ \A k \in 1 .. Len(work) : r[k] = work[k]
    /\ \A k \in 2 .. Len(q) : r[k + Len(work) - 1] = q[k]
    /\ \A k \in Len(work) + 1 .. Len(r) : r[k] = q[k - Len(work) + 1]

(* The calls of the running one take its place, the others move back. *)
LEMMA ShiftFacts ==
    ASSUME NEW S, NEW q \in Seq(S), q # <<>>, NEW work \in Seq(S)
    PROVE  work \o Tail(q) \in Seq(S) /\ Shifted(q, work, work \o Tail(q))
<1> DEFINE t == Tail(q)
           r == work \o t
<1>1. /\ t \in Seq(S) /\ Len(t) = Len(q) - 1 /\ Len(q) \in Nat \ {0}
      /\ \A k \in 1 .. Len(q) - 1 : t[k] = q[k + 1]
  OBVIOUS
<1> HIDE DEF t
<1>2. /\ r \in Seq(S) /\ Len(r) = Len(work) + Len(t) /\ Len(work) \in Nat
      /\ \A k \in 1 .. Len(work) : r[k] = work[k]
      /\ \A k \in 1 .. Len(t) : r[k + Len(work)] = t[k]
  <2>1. r \in Seq(S) /\ Len(r) = Len(work) + Len(t)
    BY <1>1, ConcatProperties
  <2>2. \A k \in 1 .. Len(r) : r[k] = IF k <= Len(work) THEN work[k] ELSE t[k - Len(work)]
    BY <1>1, ConcatProperties
  <2> HIDE DEF r
  <2>3. Len(work) \in Nat
    OBVIOUS
  <2>4. ASSUME NEW k \in 1 .. Len(work) PROVE r[k] = work[k]
    <3>1. k \in 1 .. Len(r) /\ k <= Len(work)
      BY <1>1, <2>1, <2>3
    <3> QED
      BY <2>2, <3>1
  <2>5. ASSUME NEW k \in 1 .. Len(t) PROVE r[k + Len(work)] = t[k]
    <3>1. k + Len(work) \in 1 .. Len(r) /\ ~(k + Len(work) <= Len(work))
          /\ k + Len(work) - Len(work) = k
      BY <1>1, <2>1, <2>3
    <3> QED
      BY <2>2, <3>1
  <2> QED
    BY <2>1, <2>3, <2>4, <2>5
<1> HIDE DEF r
<1>3. \A k \in 2 .. Len(q) : r[k + Len(work) - 1] = q[k]
  <2> TAKE k \in 2 .. Len(q)
  <2>1. k - 1 \in 1 .. Len(q) - 1 /\ (k - 1) + 1 = k /\ (k - 1) + Len(work) = k + Len(work) - 1
    BY <1>1, <1>2
  <2> QED
    BY <1>1, <1>2, <2>1
<1>4. \A k \in Len(work) + 1 .. Len(r) : r[k] = q[k - Len(work) + 1]
  <2> TAKE k \in Len(work) + 1 .. Len(r)
  <2>1. k - Len(work) \in 1 .. Len(t) /\ (k - Len(work)) + Len(work) = k
    BY <1>1, <1>2
  <2> QED
    BY <1>1, <1>2, <2>1
<1>5. Shifted(q, work, r)
  BY <1>1, <1>2, <1>3, <1>4 DEF Shifted
<1> QED
  BY <1>2, <1>5 DEF r, t

(* A call y put in front of t is counted, and the first one made. *)
CountedWith(r, y, t, x) ==
    /\ Cardinality(Occurrences(t, x)) \in Nat /\ Cardinality(Occurrences(r, x)) \in Nat
    /\ y = x => Cardinality(Occurrences(r, x)) = Cardinality(Occurrences(t, x)) + 1
    /\ y # x => Cardinality(Occurrences(r, x)) = Cardinality(Occurrences(t, x))

(* A call is put before the others. *)
LEMMA OccurrencesPushed ==
    ASSUME NEW S, NEW t \in Seq(S), NEW x, NEW y \in S, NEW r, r = <<y>> \o t
    PROVE  CountedWith(r, y, t, x)
<1> DEFINE A == Occurrences(t, x)
           B == {k + 1 : k \in A}
           f == [k \in A |-> k + 1]
<1>1. DOMAIN t = 1 .. Len(t) /\ Len(t) \in Nat
  OBVIOUS
<1>2. /\ DOMAIN r = 1 .. Len(t) + 1 /\ r[1] = y
      /\ \A k \in 1 .. Len(t) : r[k + 1] = t[k]
  BY <1>1
<1>3. A \subseteq 1 .. Len(t)
  BY <1>1 DEF Occurrences
<1>4. IsFiniteSet(A)
  <2>1. IsFiniteSet(1 .. Len(t))
    BY <1>1, FS_Interval
  <2> QED
    BY <1>3, <2>1, FS_Subset
<1>5. IsFiniteSet(B) /\ Cardinality(B) = Cardinality(A)
  <2>1. f \in Bijection(A, B)
    <3>1. f \in [A -> B]
      OBVIOUS
    <3>2. \A a, b \in A : f[a] = f[b] => a = b
      BY <1>1, <1>3
    <3>3. \A b \in B : \E a \in A : f[a] = b
      OBVIOUS
    <3> QED
      BY <3>1, <3>2, <3>3, Fun_IsBij
  <2>2. ExistsBijection(A, B)
    BY <2>1 DEF ExistsBijection
  <2> QED
    BY <1>4, <2>2, FS_Bijection
<1>6. Occurrences(r, x) = IF y = x THEN B \cup {1} ELSE B
  <2>1. ASSUME NEW k \in DOMAIN r, r[k] = x
        PROVE  k \in IF y = x THEN B \cup {1} ELSE B
    <3>1. CASE k = 1
      BY <1>2, <2>1, <3>1
    <3>2. CASE k # 1
      <4>1. k - 1 \in 1 .. Len(t) /\ (k - 1) + 1 = k
        BY <1>1, <1>2, <3>2
      <4>2. k - 1 \in A
        BY <1>1, <1>2, <2>1, <4>1 DEF Occurrences
      <4> QED
        BY <4>1, <4>2
    <3> QED
      BY <3>1, <3>2
  <2>2. ASSUME NEW k \in B PROVE k \in DOMAIN r /\ r[k] = x
    <3>1. PICK a \in A : k = a + 1
      OBVIOUS
    <3>2. a \in 1 .. Len(t) /\ t[a] = x
      BY <1>1 DEF Occurrences
    <3> QED
      BY <1>1, <1>2, <3>1, <3>2
  <2>3. 1 \in DOMAIN r /\ r[1] = y
    BY <1>1, <1>2
  <2> QED
    BY <2>1, <2>2, <2>3 DEF Occurrences
<1>7. 1 \notin B
  BY <1>1, <1>3
<1>8. Cardinality(A) \in Nat
  BY <1>4, FS_CardinalityType
<1> HIDE DEF A, B
<1>9. CASE y = x
  <2>1. Cardinality(Occurrences(r, x)) = Cardinality(A) + 1
    BY <1>5, <1>6, <1>7, <1>9, FS_AddElement
  <2> QED
    BY <1>8, <1>9, <2>1 DEF A, CountedWith
<1>10. CASE y # x
  <2>1. Cardinality(Occurrences(r, x)) = Cardinality(A)
    BY <1>5, <1>6, <1>10
  <2> QED
    BY <1>8, <1>10, <2>1 DEF A, CountedWith
<1> QED
  BY <1>9, <1>10

(* The first call is taken off. *)
LEMMA OccurrencesPopped ==
    ASSUME NEW S, NEW q \in Seq(S), q # <<>>, NEW x
    PROVE  CountedWith(q, q[1], Tail(q), x)
<1>1. q = <<q[1]>> \o Tail(q) /\ q[1] \in S /\ Tail(q) \in Seq(S)
  OBVIOUS
<1> QED
  BY <1>1, OccurrencesPushed

(* An empty agenda has no calls. *)
LEMMA NoOccurrences ==
    ASSUME NEW x PROVE Occurrences(<<>>, x) = {} /\ Cardinality(Occurrences(<<>>, x)) = 0
BY FS_EmptySet DEF Occurrences

(* What a running call may put in its place. *)
Fits(first, work) ==
    /\ \A k \in DOMAIN work :
         /\ work[k].op \in {"clear", "finalize", "kill"} => k = 1
         /\ work[k].op \notin {"set", "lost", "prompt"}
         /\ work[k].op = "scroll" => k = Len(work) /\ first.op = "scroll"
         /\ work[k].op = "picture" => /\ k + 1 \in DOMAIN work /\ work[k + 1].op = "scroll"
                                      /\ k # 1 => work[k - 1] = Clear(work[k].client)
    /\ first.op \in {"clear", "cleared"} /\ work # <<>> =>
         first.op = "clear" /\ work[Len(work)] = Cleared(first.client)

(* The agenda stays in order if the running call puts the right ones on it. *)
LEMMA OrderKept ==
    ASSUME NEW S, NEW q \in Seq(S), q # <<>>, NEW work \in Seq(S), NEW r, r = work \o Tail(q),
           InOrder(q), Fits(q[1], work)
    PROVE  InOrder(r)
<1>1. Shifted(q, work, r)
  BY ShiftFacts
<1> DEFINE n == Len(work)
           l == Len(q)
           m == Len(r)
<1>2. /\ n \in Nat /\ l \in Nat \ {0} /\ m = n + l - 1
      /\ DOMAIN q = 1 .. l /\ DOMAIN work = 1 .. n /\ DOMAIN r = 1 .. m
      /\ \A k \in 1 .. n : r[k] = work[k]
      /\ \A k \in n + 1 .. m : r[k] = q[k - n + 1]
  BY <1>1 DEF Shifted
<1>3. work # <<>> <=> n # 0
  OBVIOUS
<1>4. n = Len(work) /\ l = Len(q) /\ m = Len(r)
  OBVIOUS
<1> HIDE DEF n, l, m
<1> SUFFICES ASSUME NEW k \in 1 .. m
    PROVE /\ r[k].op \in {"clear", "finalize", "kill"} => k = 1
          /\ r[k].op \in {"set", "lost", "prompt", "scroll"} => k = m
          /\ r[k].op = "picture" => k + 1 \in 1 .. m /\ r[k + 1].op = "scroll"
          /\ r[k].op \in {"picture", "set", "lost"} /\ k # 1
                => r[k - 1] \in {Clear(r[k].client), Cleared(r[k].client)}
  BY <1>2, <1>4 DEF InOrder
<1>5. CASE k <= n
  <2>1. k \in 1 .. n /\ r[k] = work[k]
    BY <1>2, <1>5
  <2>2. /\ work[k].op \in {"clear", "finalize", "kill"} => k = 1
        /\ work[k].op \notin {"set", "lost", "prompt"}
        /\ work[k].op = "scroll" => k = n /\ q[1].op = "scroll"
        /\ work[k].op = "picture" => /\ k + 1 \in 1 .. n /\ work[k + 1].op = "scroll"
                                     /\ k # 1 => work[k - 1] = Clear(work[k].client)
    BY <1>2, <1>4, <2>1 DEF Fits
  <2>3. q[1].op = "scroll" => l = 1
    BY <1>2, <1>4 DEF InOrder
  <2>4. k + 1 \in 1 .. n => k + 1 \in 1 .. m /\ r[k + 1] = work[k + 1]
    BY <1>2
  <2>5. k # 1 => k - 1 \in 1 .. n
    BY <1>2, <2>1
  <2>6. k # 1 => r[k - 1] = work[k - 1]
    BY <1>2, <2>5
  <2>7. l = 1 /\ k = n => k = m
    BY <1>2
  <2> QED
    BY <2>1, <2>2, <2>3, <2>4, <2>6, <2>7
<1>6. CASE k > n
  <2> DEFINE j == k - n + 1
  <2>1. j \in 2 .. l /\ r[k] = q[j] /\ (j = l <=> k = m) /\ j # 1
    BY <1>2, <1>6
  <2>2. /\ q[j].op \notin {"clear", "finalize", "kill"}
        /\ q[j].op \in {"set", "lost", "prompt", "scroll"} => j = l
        /\ q[j].op = "picture" => j + 1 \in 1 .. l /\ q[j + 1].op = "scroll"
        /\ q[j].op \in {"picture", "set", "lost"}
                => q[j - 1] \in {Clear(q[j].client), Cleared(q[j].client)}
    <3>1. j \in DOMAIN q /\ j # 1
      BY <1>2, <2>1
    <3> HIDE DEF j
    <3> QED
      BY <1>2, <1>4, <3>1 DEF InOrder
  <2>3. j + 1 \in 1 .. l => k + 1 \in 1 .. m /\ r[k + 1] = q[j + 1]
    <3> SUFFICES ASSUME j + 1 \in 1 .. l PROVE k + 1 \in 1 .. m /\ r[k + 1] = q[j + 1]
      OBVIOUS
    <3>1. k + 1 \in n + 1 .. m /\ (k + 1) - n + 1 = j + 1 /\ k + 1 \in 1 .. m
      BY <1>2, <2>1
    <3> QED
      BY <1>2, <3>1
  <2>4. ASSUME k # 1, q[j].op \in {"picture", "set", "lost"}
        PROVE  r[k - 1] \in {Clear(q[j].client), Cleared(q[j].client)}
    <3>1. CASE k = n + 1
      <4>1. j = 2 /\ j - 1 = 1 /\ n # 0 /\ k - 1 = n /\ n \in 1 .. n
        BY <1>2, <2>4, <3>1
      <4>2. q[1] \in {Clear(q[2].client), Cleared(q[2].client)} /\ work # <<>>
        BY <2>2, <2>4, <4>1, <1>3
      <4>3. /\ q[1].op \in {"clear", "cleared"} /\ q[1].client = q[2].client
        BY <4>2 DEF Clear, Cleared
      <4>4. work[n] = Cleared(q[2].client)
        BY <4>2, <4>3, <1>4 DEF Fits
      <4>5. r[n] = work[n]
        BY <1>2, <4>1
      <4> QED
        BY <4>1, <4>4, <4>5
    <3>2. CASE k # n + 1
      <4>1. k - 1 \in n + 1 .. m /\ (k - 1) - n + 1 = j - 1
        BY <1>2, <1>6, <3>2
      <4>2. r[k - 1] = q[j - 1]
        BY <1>2, <4>1
      <4> QED
        BY <2>2, <2>4, <4>2
    <3> QED
      BY <3>1, <3>2
  <2> HIDE DEF j
  <2> QED
    BY <2>1, <2>2, <2>3, <2>4
<1> QED
  BY <1>2, <1>5, <1>6

(* Where the calls that are still to be made come from. *)
Placed(q, work, r) ==
    /\ \A k \in DOMAIN r : \/ k \in DOMAIN work /\ r[k] = work[k]
                           \/ \E j \in DOMAIN q : j # 1 /\ r[k] = q[j] /\ k = j + Len(work) - 1
    /\ \A k \in DOMAIN work : k \in DOMAIN r /\ r[k] = work[k]
    /\ \A j \in DOMAIN q : j # 1 => j + Len(work) - 1 \in DOMAIN r /\ r[j + Len(work) - 1] = q[j]
    /\ DOMAIN q \subseteq Nat \ {0} /\ 1 \in DOMAIN q /\ DOMAIN r \subseteq Nat \ {0}
    /\ DOMAIN work = 1 .. Len(work) /\ Len(work) \in Nat
    /\ r = <<>> <=> 1 \notin DOMAIN r

(* Every call on the agenda is of the running one or was there before. *)
LEMMA Places ==
    ASSUME NEW S, NEW q \in Seq(S), q # <<>>, NEW work \in Seq(S), NEW r, r = work \o Tail(q)
    PROVE  r \in Seq(S) /\ Placed(q, work, r)
<1>1. r \in Seq(S) /\ Shifted(q, work, r)
  BY ShiftFacts
<1>2. r = <<>> <=> 1 \notin DOMAIN r
  BY <1>1
<1> DEFINE n == Len(work)
           l == Len(q)
           m == Len(r)
<1>3. /\ n \in Nat /\ l \in Nat \ {0} /\ m = n + l - 1
      /\ DOMAIN q = 1 .. l /\ DOMAIN work = 1 .. n /\ DOMAIN r = 1 .. m
      /\ \A k \in 1 .. n : r[k] = work[k]
      /\ \A k \in n + 1 .. m : r[k] = q[k - n + 1]
      /\ \A k \in 2 .. l : r[k + n - 1] = q[k]
  BY <1>1 DEF Shifted
<1> HIDE DEF n, l, m
<1>4. ASSUME NEW k \in 1 .. m
      PROVE  \/ k \in 1 .. n /\ r[k] = work[k]
             \/ \E j \in 1 .. l : j # 1 /\ r[k] = q[j] /\ k = j + n - 1
  <2>1. CASE k <= n
    BY <1>3, <2>1
  <2>2. CASE k > n
    <3>1. k - n + 1 \in 1 .. l /\ k - n + 1 # 1 /\ k = (k - n + 1) + n - 1 /\ k \in n + 1 .. m
      BY <1>3, <2>2
    <3>2. r[k] = q[k - n + 1]
      BY <1>3, <3>1
    <3> QED
      BY <3>1, <3>2
  <2> QED
    BY <1>3, <2>1, <2>2
<1>5. \A k \in 1 .. n : k \in 1 .. m
  BY <1>3
<1>6. ASSUME NEW j \in 1 .. l, j # 1 PROVE j + n - 1 \in 1 .. m /\ r[j + n - 1] = q[j]
  <2>1. j \in 2 .. l /\ j + n - 1 \in 1 .. m
    BY <1>3, <1>6
  <2> QED
    BY <1>3, <2>1
<1>7. n = Len(work)
  BY DEF n
<1>8. 1 \in 1 .. l /\ 1 .. l \subseteq Nat \ {0} /\ 1 .. m \subseteq Nat \ {0}
  BY <1>3
<1>9. \A j \in 1 .. l : j # 1 => j + n - 1 \in 1 .. m /\ r[j + n - 1] = q[j]
  BY <1>6
<1>10. \A k \in 1 .. n : k \in 1 .. m /\ r[k] = work[k]
  BY <1>3, <1>5
<1>11. /\ DOMAIN q = 1 .. l /\ DOMAIN work = 1 .. n /\ DOMAIN r = 1 .. m /\ n \in Nat
  BY <1>3
<1>12. Placed(q, work, r)
  BY <1>2, <1>4, <1>7, <1>8, <1>9, <1>10, <1>11 DEF Placed
<1> QED
  BY <1>1, <1>12

(* How a client may change while handlers run: it gets an animation, unless *)
(* one that is over it is being cleared, or a session or a size.            *)
Moved(k, l) ==
    /\ l.listed = k.listed /\ (k.sized => l.sized) /\ (l.session = k.session \/ k.listed)
    /\ l.anim.defer = k.anim.defer
    /\ \/ /\ l.overlay = k.overlay /\ l.anim.kind = k.anim.kind
          /\ k.anim.kind = "none" => l.anim = k.anim
       \/ /\ k.listed /\ k.sized /\ (k.overlay # "animation" \/ k.anim.kind # "none")
          /\ l.overlay = "animation" /\ l.anim.kind # "none"
          /\ l.anim.defer # 0 => l.anim.kind = "slide"

(* Calls that may be put on the agenda, as client c with record l sees them. *)
Admits(l, c, q, work) ==
    /\ \A i \in DOMAIN work :
         /\ work[i] # Cleared(c) /\ work[i].op \notin {"set", "lost"}
         /\ work[i].op = "picture" /\ work[i].client = c =>
              l.listed /\ l.sized /\ (i = 1 => l.overlay = "none")
    /\ Has(work, Clear(c)) => l.overlay # "none" /\ ~Has(q, Cleared(c))

(* A running call that does not end what the client shows keeps it in step  *)
(* with its overlay.                                                        *)
LEMMA OwnsKept ==
    ASSUME NEW S, NEW q \in Seq(S), q # <<>>, NEW work \in Seq(S), NEW r, r = work \o Tail(q),
           NEW k, NEW l, NEW c, InOrder(q), Owns(k, c, q), Moved(k, l),
           q[1] # Clear(c), q[1] # Cleared(c), Admits(l, c, q, work)
    PROVE  Owns(l, c, r)
<1>1. Placed(q, work, r)
  BY Places
<1>2. ASSUME NEW i \in DOMAIN r, r[i] = Cleared(c)
      PROVE  \E j \in DOMAIN q : q[j] = Cleared(c) /\ i = j + Len(work) - 1
  <2>1. i \notin DOMAIN work \/ r[i] # work[i]
    BY <1>2 DEF Admits, Cleared
  <2> QED
    BY <1>1, <1>2, <2>1 DEF Placed
<1>3. Has(r, Cleared(c)) => Has(q, Cleared(c))
  BY <1>2 DEF Has
<1>4. Has(q, Cleared(c)) => Has(r, Cleared(c))
  <2> SUFFICES ASSUME NEW j \in DOMAIN q, q[j] = Cleared(c) PROVE Has(r, Cleared(c))
    BY DEF Has
  <2>1. j # 1
    OBVIOUS
  <2>2. j + Len(work) - 1 \in DOMAIN r /\ r[j + Len(work) - 1] = Cleared(c)
    BY <1>1, <2>1 DEF Placed
  <2> QED
    BY <2>2 DEF Has
<1>5. Has(r, Clear(c)) => l.overlay # "none" /\ ~Has(q, Cleared(c))
  <2> SUFFICES ASSUME NEW i \in DOMAIN r, r[i] = Clear(c)
               PROVE  l.overlay # "none" /\ ~Has(q, Cleared(c))
    BY DEF Has
  <2>1. ASSUME NEW j \in DOMAIN q, j # 1 PROVE q[j] # Clear(c)
    <3>1. q[j].op # "clear"
      BY <2>1 DEF InOrder
    <3> QED
      BY <3>1 DEF Clear
  <2>2. i \in DOMAIN work /\ work[i] = Clear(c)
    BY <1>1, <2>1 DEF Placed
  <2> QED
    BY <2>2 DEF Admits, Has
<1>6. \A i, j \in DOMAIN r : r[i] = Cleared(c) /\ r[j] = Cleared(c) => i = j
  <2> SUFFICES ASSUME NEW i \in DOMAIN r, NEW j \in DOMAIN r, r[i] = Cleared(c), r[j] = Cleared(c)
               PROVE  i = j
    OBVIOUS
  <2>1. PICK a \in DOMAIN q : q[a] = Cleared(c) /\ i = a + Len(work) - 1
    BY <1>2
  <2>2. PICK b \in DOMAIN q : q[b] = Cleared(c) /\ j = b + Len(work) - 1
    BY <1>2
  <2>3. a = b
    BY <2>1, <2>2 DEF Owns
  <2> QED
    BY <2>1, <2>2, <2>3
<1>7. ASSUME NEW i \in DOMAIN r, r[i].op = "picture", r[i].client = c
      PROVE  l.listed /\ l.sized
  <2>1. CASE i \in DOMAIN work /\ r[i] = work[i]
    BY <1>7, <2>1 DEF Admits
  <2>2. CASE ~(i \in DOMAIN work /\ r[i] = work[i])
    <3>1. PICK j \in DOMAIN q : r[i] = q[j]
      BY <1>1, <2>2 DEF Placed
    <3>2. k.listed /\ k.sized
      BY <1>7, <3>1 DEF Owns
    <3> QED
      BY <3>2 DEF Moved
  <2> QED
    BY <2>1, <2>2
<1>8. ASSUME r # <<>>, r[1].op \in {"picture", "set", "lost"}, r[1].client = c
      PROVE  l.overlay = "none"
  <2>1. 1 \in DOMAIN r
    BY <1>1, <1>8 DEF Placed
  <2>2. CASE 1 \in DOMAIN work /\ r[1] = work[1]
    BY <1>8, <2>2 DEF Admits
  <2>3. CASE ~(1 \in DOMAIN work /\ r[1] = work[1])
    <3>1. PICK j \in DOMAIN q : j # 1 /\ r[1] = q[j] /\ 1 = j + Len(work) - 1
      BY <1>1, <2>1, <2>3 DEF Placed
    <3>2. j = 2
      BY <1>1, <3>1 DEF Placed
    <3>3. q[j].op \in {"picture", "set", "lost"} /\ q[j].client = c
      BY <1>8, <3>1
    <3>4. q[j - 1] \in {Clear(q[j].client), Cleared(q[j].client)}
      BY <3>1, <3>3 DEF InOrder
    <3> QED
      BY <3>2, <3>3, <3>4
  <2> QED
    BY <2>2, <2>3
<1>9. /\ l.anim.kind # "none" => l.overlay = "animation"
      /\ l.overlay = "animation" => l.listed /\ l.sized
      /\ l.overlay = "animation" /\ l.anim.kind = "none" => Has(q, Cleared(c))
      /\ l.anim.kind = "none" => l.anim = NoAnimation
      /\ ~l.listed => l.session = 0
      /\ Has(q, Cleared(c)) => l.anim.kind = "none" /\ l.overlay # "none"
  BY DEF Owns, Moved
<1>10. Has(r, Cleared(c)) => ~Has(r, Clear(c)) /\ l.overlay = "animation"
  <2>1. Has(q, Cleared(c)) => l.overlay = "animation"
    BY DEF Owns, Moved
  <2> QED
    BY <1>3, <1>5, <2>1
<1> QED
  BY <1>3, <1>4, <1>5, <1>6, <1>7, <1>8, <1>9, <1>10 DEF Owns

(* The first calls of a handler.                                            *)
LEMMA OwnsStarted ==
    ASSUME NEW S, NEW r \in Seq(S), NEW k, NEW l, NEW c, Owns(k, c, <<>>), Moved(k, l),
           \A i \in DOMAIN r : r[i].op \notin {"cleared", "picture"},
           Has(r, Clear(c)) => l.overlay # "none",
           r # <<>> /\ r[1].op \in {"set", "lost"} /\ r[1].client = c => l.overlay = "none"
    PROVE  Owns(l, c, r)
<1>1. ~Has(<<>>, Cleared(c))
  BY DEF Has
<1>2. \A i \in DOMAIN r : r[i] # Cleared(c)
  BY DEF Cleared
<1>3. ~Has(r, Cleared(c))
  BY <1>2 DEF Has
<1>4. /\ l.anim.kind # "none" => l.overlay = "animation"
      /\ l.overlay = "animation" => l.listed /\ l.sized
      /\ ~(l.overlay = "animation" /\ l.anim.kind = "none")
      /\ l.anim.kind = "none" => l.anim = NoAnimation
      /\ ~l.listed => l.session = 0
  BY <1>1 DEF Owns, Moved
<1>5. r # <<>> /\ r[1].op = "picture" => FALSE
  <2> SUFFICES ASSUME r # <<>>, r[1].op = "picture" PROVE FALSE
    OBVIOUS
  <2>1. 1 \in DOMAIN r
    OBVIOUS
  <2> QED
    BY <2>1
<1> QED
  BY <1>2, <1>3, <1>4, <1>5 DEF Owns

----------------------------------------------------------------------------
(* What the handlers do to clients. *)

LEMMA ClientFields ==
    ASSUME NEW k \in ClientType
    PROVE  /\ k.listed \in BOOLEAN /\ k.session \in Session \cup {0} /\ k.sized \in BOOLEAN
           /\ k.overlay \in {"none", "animation", "other"}
           /\ k.anim \in AnimationType
           /\ k.anim.kind \in {"none", "slide", "panes", "picture"}
           /\ k.anim.win \in Window \cup {0} /\ k.anim.defer \in Defer \cup {0}
           /\ k.anim.over \in BOOLEAN
           /\ k = [listed |-> k.listed, session |-> k.session, sized |-> k.sized,
                   overlay |-> k.overlay, anim |-> k.anim]
<1>1. k.anim \in AnimationType
  BY DEF ClientType
<1> QED
  BY <1>1 DEF ClientType, AnimationType

(* What a client needs to be, for an animation to start properly. *)
Tidy(k) ==
    /\ k.anim.kind # "none" => k.overlay = "animation"
    /\ k.overlay = "animation" => k.listed /\ k.sized
    /\ ~k.listed => k.session = 0
    /\ k.anim.kind = "none" => k.anim = NoAnimation
    /\ k.anim.defer # 0 => k.anim.kind = "slide" /\ k.listed

(* A client as it is while handlers run. *)
LEMMA OwnsTidy ==
    ASSUME OverlaysOwned, CarriersCounted, cli \in [Client -> ClientType], NEW c \in Client
    PROVE  Tidy(cli[c]) /\ cli[c] \in ClientType
<1>1. Owns(cli[c], c, agenda)
  BY DEF OverlaysOwned
<1>2. cli[c].anim.defer # 0 => cli[c].anim.kind = "slide" /\ cli[c].listed
  <2>1. cli[c].anim.defer \in Defer \cup {0}
    BY ClientFields
  <2> QED
    BY <2>1 DEF CarriersCounted
<1> QED
  BY <1>1, <1>2 DEF Owns, Tidy

(* The client k becomes l, and what it draws is what it drew or one of W.    *)
MovedTo(k, l, W) ==
    /\ l \in ClientType /\ Moved(k, l)
    /\ l.anim.win = k.anim.win \/ l.anim.win \in W

DrawnTo(k, l, W) == MovedTo(k, l, W) /\ l.session = k.session

(* A client may stay as it is. *)
LEMMA MovedSame ==
    ASSUME NEW k \in ClientType, NEW W
    PROVE  DrawnTo(k, k, W)
BY DEF DrawnTo, MovedTo, Moved

(* The animation a may start for the client k.                               *)
MayStart(k, a, W) ==
    /\ k.listed /\ k.sized /\ (k.overlay # "animation" \/ k.anim.kind # "none")
    /\ a.kind # "none" /\ a.defer = k.anim.defer /\ (a.defer # 0 => a.kind = "slide")
    /\ a.win \in W

(* A client gets the animation a. *)
LEMMA NewAnimation ==
    ASSUME NEW k \in ClientType, NEW a \in AnimationType, NEW W, MayStart(k, a, W),
           NEW l, l = [k EXCEPT !.overlay = "animation", !.anim = a]
    PROVE  DrawnTo(k, l, W)
<1>1. l = [listed |-> k.listed, session |-> k.session, sized |-> k.sized,
           overlay |-> "animation", anim |-> a]
  <2> DEFINE k1 == k.listed
             k2 == k.session
             k3 == k.sized
             k4 == k.overlay
             k5 == k.anim
  <2>1. k = [listed |-> k1, session |-> k2, sized |-> k3, overlay |-> k4, anim |-> k5]
    BY ClientFields
  <2> HIDE DEF k1, k2, k3, k4, k5
  <2>2. l = [listed |-> k1, session |-> k2, sized |-> k3, overlay |-> "animation", anim |-> a]
    BY <2>1
  <2> QED
    BY <2>2 DEF k1, k2, k3
<1>2. l \in ClientType
  BY <1>1, ClientFields DEF ClientType
<1>3. l.listed = k.listed /\ l.session = k.session /\ l.sized = k.sized
      /\ l.overlay = "animation" /\ l.anim = a
  BY <1>1
<1>4. Moved(k, l)
  BY <1>3 DEF Moved, MayStart
<1> QED
  BY <1>2, <1>3, <1>4 DEF DrawnTo, MovedTo, MayStart

(* The fields of a new animation. *)
LEMMA AnimFacts ==
    ASSUME NEW kind \in {"slide", "panes", "picture"}, NEW w \in Window \cup {0}
    PROVE  /\ Anim(kind, w) \in AnimationType
           /\ Anim(kind, w).kind = kind /\ Anim(kind, w).win = w /\ Anim(kind, w).defer = 0
BY DEF Anim, AnimationType

(* A slide begins, or turns to w, or nothing happens. *)
LEMMA SlidToFacts ==
    ASSUME NEW k \in ClientType, Tidy(k), k.listed, NEW w \in Window
    PROVE  DrawnTo(k, SlidTo(k, w), {w})
<1> DEFINE a == k.anim
           cleared == k.overlay = "animation" /\ a.kind = "none"
           stays == k.overlay = "other" \/ cleared \/ ~k.sized \/ (a.kind = "slide" /\ a.win = w)
           b == IF a.kind = "slide" THEN [a EXCEPT !.win = w, !.over = FALSE] ELSE Anim("slide", w)
<1>1. SlidTo(k, w) = IF stays THEN k ELSE [k EXCEPT !.overlay = "animation", !.anim = b]
  BY DEF SlidTo
<1>2. CASE stays
  BY <1>1, <1>2, MovedSame
<1>3. CASE ~stays
  <2>1. k.overlay # "animation" \/ k.anim.kind # "none"
    BY <1>3, ClientFields
  <2>2. b \in AnimationType /\ b.kind = "slide" /\ b.win = w /\ b.defer = k.anim.defer
    <3>1. CASE a.kind = "slide"
      <4> DEFINE e == a.defer
      <4>1. a \in AnimationType /\ e \in Defer \cup {0}
        BY ClientFields
      <4>2. b = [kind |-> "slide", win |-> w, defer |-> e, over |-> FALSE]
        BY <3>1, <4>1 DEF AnimationType
      <4>3. e = k.anim.defer
        OBVIOUS
      <4> HIDE DEF e, b
      <4>4. b \in AnimationType
        BY <4>1, <4>2 DEF AnimationType
      <4> QED
        BY <4>2, <4>3, <4>4
    <3>2. CASE a.kind # "slide"
      <4>1. a.defer = 0
        BY <3>2 DEF Tidy
      <4> QED
        BY <3>2, <4>1, AnimFacts
    <3> QED
      BY <3>1, <3>2
  <2>3. k.sized
    BY <1>3
  <2>4. SlidTo(k, w) = [k EXCEPT !.overlay = "animation", !.anim = b]
    BY <1>1, <1>3
  <2> HIDE DEF b
  <2>5. MayStart(k, b, {w})
    BY <2>1, <2>2, <2>3 DEF MayStart
  <2> QED
    BY <2>2, <2>4, <2>5, NewAnimation
<1> QED
  BY <1>2, <1>3

(* An animation begins only if nothing is over the client. *)
LEMMA BegunFacts ==
    ASSUME NEW k \in ClientType, Tidy(k), NEW w \in Window \cup {0}, NEW kind \in {"panes", "picture"}
    PROVE  DrawnTo(k, Begun(k, kind, w), {w})
<1>1. CASE ~CanBegin(k)
  BY <1>1, MovedSame DEF Begun
<1>2. CASE CanBegin(k)
  <2> DEFINE a == Anim(kind, w)
  <2>1. /\ a \in AnimationType /\ a.kind = kind /\ a.win = w /\ a.defer = 0
    BY AnimFacts
  <2>2. k.listed /\ k.sized /\ k.overlay = "none" /\ k.anim.kind = "none"
    BY <1>2 DEF CanBegin, Tidy
  <2>3. k.anim.defer = 0
    BY <2>2 DEF Tidy, NoAnimation
  <2>4. Begun(k, kind, w) = [k EXCEPT !.overlay = "animation", !.anim = a]
    BY <1>2 DEF Begun
  <2> HIDE DEF a
  <2>5. MayStart(k, a, {w})
    BY <2>1, <2>2, <2>3 DEF MayStart
  <2> QED
    BY <2>1, <2>4, <2>5, NewAnimation
<1> QED
  BY <1>1, <1>2

ClientsMoved(y, W) ==
    y \in [Client -> ClientType] /\ \A c \in Client : DrawnTo(cli[c], y[c], W)

(* The clients of the sessions S slide to their new windows. *)
LEMMA SlidFacts ==
    ASSUME OverlaysOwned, CarriersCounted, cli \in [Client -> ClientType],
           NEW S, NEW to \in [S -> Window], NEW W, \A s \in S : to[s] \in W
    PROVE  ClientsMoved(Slid(S, to), W)
<1> DEFINE y == Slid(S, to)
           turns(c) == cli[c].listed /\ cli[c].session \in S /\ to[cli[c].session] # ses[cli[c].session].curw
<1>1. y = [c \in Client |-> IF turns(c) THEN SlidTo(cli[c], to[cli[c].session]) ELSE cli[c]]
  BY DEF Slid
<1> HIDE DEF y
<1>2. ASSUME NEW c \in Client PROVE DrawnTo(cli[c], y[c], W)
  <2>0. cli[c] \in ClientType /\ Tidy(cli[c])
    BY OwnsTidy
  <2>1. CASE turns(c)
    <3> DEFINE w == to[cli[c].session]
    <3>1. w \in Window /\ w \in W /\ cli[c].listed
      BY <2>1
    <3>2. y[c] = SlidTo(cli[c], w)
      BY <1>1, <2>1
    <3> HIDE DEF w
    <3>3. DrawnTo(cli[c], y[c], {w})
      BY <2>0, <3>1, <3>2, SlidToFacts
    <3> QED
      BY <3>1, <3>3 DEF DrawnTo, MovedTo
  <2>2. CASE ~turns(c)
    <3>1. y[c] = cli[c]
      BY <1>1, <2>2
    <3> QED
      BY <2>0, <3>1, MovedSame
  <2> QED
    BY <2>1, <2>2
<1>3. y \in [Client -> ClientType]
  <2>1. \A c \in Client : y[c] \in ClientType
    BY <1>2 DEF DrawnTo, MovedTo
  <2>2. DOMAIN y = Client /\ y = [c \in Client |-> y[c]]
    BY <1>1
  <2> QED
    BY <2>1, <2>2
<1> QED
  BY <1>2, <1>3 DEF ClientsMoved, y

(* The clients of C get an animation. *)
LEMMA BegunByFacts ==
    ASSUME OverlaysOwned, CarriersCounted, cli \in [Client -> ClientType],
           NEW C, NEW w \in Window \cup {0}, NEW kind \in {"panes", "picture"}
    PROVE  ClientsMoved(BegunBy(C, kind, w), {w})
<1> DEFINE y == BegunBy(C, kind, w)
<1>1. y = [c \in Client |-> IF c \in C THEN Begun(cli[c], kind, w) ELSE cli[c]]
  BY DEF BegunBy
<1> HIDE DEF y
<1>2. ASSUME NEW c \in Client PROVE DrawnTo(cli[c], y[c], {w})
  <2>0. cli[c] \in ClientType /\ Tidy(cli[c])
    BY OwnsTidy
  <2>1. DrawnTo(cli[c], Begun(cli[c], kind, w), {w}) /\ DrawnTo(cli[c], cli[c], {w})
    BY <2>0, BegunFacts, MovedSame
  <2> QED
    BY <1>1, <2>1
<1>3. y \in [Client -> ClientType]
  <2>1. \A c \in Client : y[c] \in ClientType
    BY <1>2 DEF DrawnTo, MovedTo
  <2>2. DOMAIN y = Client /\ y = [c \in Client |-> y[c]]
    BY <1>1
  <2> QED
    BY <2>1, <2>2
<1> QED
  BY <1>2, <1>3 DEF ClientsMoved, y

(* The clients may all stay as they are. *)
LEMMA SameClients ==
    ASSUME cli \in [Client -> ClientType], NEW W
    PROVE  ClientsMoved(cli, W)
BY MovedSame DEF ClientsMoved

----------------------------------------------------------------------------
(* What most steps leave as it was.                                         *)

ClientsChange == \A c \in Client : Moved(cli[c], cli'[c])

(* The animations that start draw one of the windows W. *)
DrawsTo(W) ==
    /\ cli' \in [Client -> ClientType]
    /\ \A c \in Client : cli'[c].anim.win = cli[c].anim.win \/ cli'[c].anim.win \in W

MovesTo(W) == ClientsChange /\ DrawsTo(W)

HasRefs(W) == \A w \in W : w # 0 => win[w].refs > 0

SameSessions == \A c \in Client : cli'[c].session = cli[c].session

(* What the clients became, as a change of the state. *)
LEMMA MovedChange ==
    ASSUME NEW W, ClientsMoved(cli', W)
    PROVE  MovesTo(W) /\ SameSessions
BY DEF MovesTo, DrawsTo, SameSessions, ClientsChange, ClientsMoved, DrawnTo, MovedTo

(* Every animation carries what it carried. *)
LEMMA CarriersKept ==
    ASSUME CarriersCounted, ClientsChange,
           \A d \in Defer : defer'[d].pending = defer[d].pending
    PROVE  CarriersCounted'
<1> SUFFICES ASSUME NEW d \in Defer
             PROVE  /\ defer'[d].pending = Cardinality({c \in Client : cli'[c].anim.defer = d})
                    /\ \A c \in Client : cli'[c].anim.defer = d =>
                         cli'[c].anim.kind = "slide" /\ cli'[c].listed
  BY DEF CarriersCounted
<1>1. \A c \in Client : cli'[c].anim.defer = cli[c].anim.defer
  BY DEF ClientsChange, Moved
<1>2. {c \in Client : cli'[c].anim.defer = d} = {c \in Client : cli[c].anim.defer = d}
  BY <1>1
<1>3. defer[d].pending = Cardinality({c \in Client : cli[c].anim.defer = d})
  BY DEF CarriersCounted
<1>4. ASSUME NEW c \in Client, cli'[c].anim.defer = d
      PROVE  cli'[c].anim.kind = "slide" /\ cli'[c].listed
  <2>1. cli[c].anim.defer = d
    BY <1>1, <1>4
  <2>2. cli[c].anim.kind = "slide" /\ cli[c].listed
    BY <2>1 DEF CarriersCounted
  <2>3. d # 0
    BY AnimationAssumption, FS_CardinalityType DEF Defer
  <2>4. Moved(cli[c], cli'[c])
    BY DEF ClientsChange
  <2> QED
    BY <1>4, <2>2, <2>3, <2>4 DEF Moved
<1> QED
  BY <1>2, <1>3, <1>4

(* No session and no client of one changes. *)
LEMMA CurrentKept ==
    ASSUME CurrentWindowLinked, ses' = ses, SameSessions
    PROVE  CurrentWindowLinked'
BY DEF CurrentWindowLinked, Alive, SameSessions

Quiescent == agenda = <<>> /\ agenda' \in Seq(Work)

(* A running call, and the calls work that it puts before the rest.          *)
Runs(work) ==
    /\ agenda \in Seq(Work) /\ agenda # <<>> /\ work \in Seq(Work)
    /\ agenda' = work \o Tail(agenda)

(* A call runs that is not one that clears the overlay of c. *)
LEMMA OwnsRun ==
    ASSUME OverlaysOwned, NEW work, Runs(work), InOrder(agenda), NEW c \in Client,
           Moved(cli[c], cli'[c]), agenda[1] # Clear(c), agenda[1] # Cleared(c),
           Admits(cli'[c], c, agenda, work)
    PROVE  Owns(cli'[c], c, agenda')
<1> DEFINE q == agenda
           r == agenda'
           k == cli[c]
           l == cli'[c]
<1>1. /\ q \in Seq(Work) /\ q # <<>> /\ work \in Seq(Work) /\ r = work \o Tail(q)
      /\ InOrder(q) /\ q[1] # Clear(c) /\ q[1] # Cleared(c)
  BY DEF Runs
<1>2. Owns(k, c, q) /\ Moved(k, l) /\ Admits(l, c, q, work)
  BY DEF OverlaysOwned
<1> HIDE DEF q, r, k, l
<1>3. Owns(l, c, r)
  BY <1>1, <1>2, OwnsKept
<1> QED
  BY <1>3 DEF l, r

(* A call runs that clears no overlay. *)
LEMMA OverlaysKept ==
    ASSUME OverlaysOwned, ClientsChange, NEW work, Runs(work), InOrder(agenda),
           agenda[1].op \notin {"clear", "cleared"},
           \A c \in Client : Admits(cli'[c], c, agenda, work)
    PROVE  OverlaysOwned'
<1> SUFFICES ASSUME NEW c \in Client PROVE Owns(cli'[c], c, agenda')
  BY DEF OverlaysOwned
<1>1. agenda[1] # Clear(c) /\ agenda[1] # Cleared(c)
  BY DEF Clear, Cleared
<1>2. Moved(cli[c], cli'[c]) /\ Admits(cli'[c], c, agenda, work)
  BY DEF ClientsChange
<1> QED
  BY <1>1, <1>2, OwnsRun

(* Most calls begin nothing that an overlay stands for.                     *)
Plain(work) ==
    \A i \in DOMAIN work : work[i].op \notin {"clear", "cleared", "set", "lost", "picture"}

(* Such calls ask nothing of a client. *)
LEMMA PlainAdmits ==
    ASSUME NEW work, Plain(work)
    PROVE  \A c \in Client : Admits(cli'[c], c, agenda, work)
<1>1. ASSUME NEW c PROVE ~Has(work, Clear(c))
  BY DEF Plain, Has, Clear
<1>2. \A c : \A i \in DOMAIN work : work[i] # Cleared(c)
  BY DEF Plain, Cleared
<1> QED
  BY <1>1, <1>2 DEF Plain, Admits

(* A handler puts its first calls on the agenda. *)
LEMMA OverlaysStarted ==
    ASSUME OverlaysOwned, ClientsChange, Quiescent,
           \A i \in DOMAIN agenda' : agenda'[i].op \notin {"cleared", "picture"},
           \A c \in Client : Has(agenda', Clear(c)) => cli'[c].overlay # "none",
           \A c \in Client : agenda' # <<>> /\ agenda'[1].op \in {"set", "lost"} /\ agenda'[1].client = c
                               => cli'[c].overlay = "none"
    PROVE  OverlaysOwned'
<1> SUFFICES ASSUME NEW c \in Client PROVE Owns(cli'[c], c, agenda')
  BY DEF OverlaysOwned
<1> DEFINE r == agenda'
           k == cli[c]
           l == cli'[c]
<1>1. /\ r \in Seq(Work) /\ \A i \in DOMAIN r : r[i].op \notin {"cleared", "picture"}
      /\ Has(r, Clear(c)) => l.overlay # "none"
      /\ r # <<>> /\ r[1].op \in {"set", "lost"} /\ r[1].client = c => l.overlay = "none"
  BY DEF Quiescent
<1>2. Owns(k, c, <<>>) /\ Moved(k, l)
  BY DEF OverlaysOwned, ClientsChange, Quiescent
<1> HIDE DEF r, k, l
<1>3. Owns(l, c, r)
  BY <1>1, <1>2, OwnsStarted
<1> QED
  BY <1>3 DEF l, r

(* A handler starts with calls that concern no client. *)
LEMMA PlainStarted ==
    ASSUME OverlaysOwned, ClientsChange, Quiescent, Plain(agenda')
    PROVE  OverlaysOwned'
<1>1. \A c \in Client : ~Has(agenda', Clear(c))
  BY DEF Plain, Has, Clear
<1>2. agenda' # <<>> => agenda'[1].op \notin {"set", "lost"}
  <2>1. agenda' # <<>> => 1 \in DOMAIN agenda'
    BY DEF Quiescent
  <2> QED
    BY <2>1 DEF Plain
<1>3. \A i \in DOMAIN agenda' : agenda'[i].op \notin {"cleared", "picture"}
  BY DEF Plain
<1> QED
  BY <1>1, <1>2, <1>3, OverlaysStarted

(* No window that is drawn loses its last reference, and what finds an       *)
(* animation of a window that has none stays on the agenda.                  *)
LEMMA DrawnRun ==
    ASSUME DrawnKept, NEW work, Runs(work), NEW W, DrawsTo(W), cli \in [Client -> ClientType],
           agenda[1].op \notin {"clear", "invalidate"},
           \A w \in Window : win[w].refs > 0 => win'[w].refs > 0,
           \A w \in W : w # 0 => win'[w].refs > 0
    PROVE  DrawnKept'
<1> SUFFICES ASSUME NEW c \in Client, cli'[c].anim.win # 0
             PROVE  win'[cli'[c].anim.win].refs > 0 \/ Found(c, cli'[c].anim.win, agenda')
  BY DEF DrawnKept
<1> DEFINE w == cli'[c].anim.win
           r == agenda'
<1>1. cli'[c].anim.win = cli[c].anim.win \/ w \in W
  BY DEF DrawsTo
<1>2. w \in Window
  BY ClientFields DEF DrawsTo
<1>3. CASE w \in W
  BY <1>3
<1>4. CASE w = cli[c].anim.win
  <2>1. win[w].refs > 0 \/ Found(c, w, agenda)
    BY <1>4 DEF DrawnKept
  <2>2. CASE win[w].refs > 0
    BY <1>2, <2>2
  <2>3. CASE Found(c, w, agenda)
    <3>1. PICK k \in DOMAIN agenda : /\ agenda[k].op = "invalidate" /\ agenda[k].win = w
                                     /\ c \in agenda[k].todo \/ agenda[1] = Clear(c)
      BY <2>3 DEF Found
    <3>2. k # 1 /\ agenda[1] # Clear(c)
      BY <3>1 DEF Clear
    <3>3. Placed(agenda, work, r)
      BY Places DEF Runs
    <3>4. PICK i \in DOMAIN r : r[i] = agenda[k]
      BY <3>2, <3>3 DEF Placed
    <3>5. r[i].op = "invalidate" /\ r[i].win = w /\ c \in r[i].todo
      BY <3>1, <3>2, <3>4
    <3> HIDE DEF w, r
    <3>6. Found(c, w, r)
      BY <3>5 DEF Found
    <3> QED
      BY <3>6 DEF w, r
  <2> QED
    BY <2>1, <2>2, <2>3
<1> QED
  BY <1>1, <1>3, <1>4

(* A handler starts animations of windows that have a reference. *)
LEMMA DrawnQuiet ==
    ASSUME DrawnKept, agenda = <<>>, NEW W, DrawsTo(W), cli \in [Client -> ClientType],
           \A w \in Window : win[w].refs > 0 => win'[w].refs > 0,
           \A w \in W : w # 0 => win'[w].refs > 0
    PROVE  DrawnKept'
<1> SUFFICES ASSUME NEW c \in Client, cli'[c].anim.win # 0
             PROVE  win'[cli'[c].anim.win].refs > 0
  BY DEF DrawnKept
<1>1. cli'[c].anim.win = cli[c].anim.win \/ cli'[c].anim.win \in W
  BY DEF MovesTo, DrawsTo
<1>2. cli'[c].anim.win \in Window
  BY ClientFields DEF MovesTo, DrawsTo
<1>3. CASE cli'[c].anim.win = cli[c].anim.win
  <2>1. win[cli[c].anim.win].refs > 0
    BY <1>3 DEF DrawnKept, Found
  <2> QED
    BY <1>2, <1>3, <2>1
<1> QED
  BY <1>1, <1>3

(* Calls that are not x are put before the others without changing their    *)
(* number.                                                                  *)
LEMMA OccurrencesBehind ==
    ASSUME NEW S, NEW t \in Seq(S), NEW work \in Seq(S), NEW x,
           \A k \in DOMAIN work : work[k] # x
    PROVE  Cardinality(Occurrences(work \o t, x)) = Cardinality(Occurrences(t, x))
<1> DEFINE n == Len(work)
           r == work \o t
           A == Occurrences(t, x)
           B == Occurrences(r, x)
           f == [k \in A |-> k + n]
<1>1. /\ n \in Nat /\ DOMAIN t = 1 .. Len(t) /\ Len(t) \in Nat
      /\ DOMAIN r = 1 .. n + Len(t)
      /\ \A k \in 1 .. Len(t) : r[k + n] = t[k]
      /\ \A k \in 1 .. n : r[k] # x
  <2>1. /\ n \in Nat /\ DOMAIN t = 1 .. Len(t) /\ Len(t) \in Nat /\ DOMAIN work = 1 .. n
        /\ r \in Seq(S) /\ Len(r) = n + Len(t)
    BY ConcatProperties
  <2>2. \A k \in 1 .. Len(r) : r[k] = IF k <= n THEN work[k] ELSE t[k - n]
    BY ConcatProperties
  <2> HIDE DEF n, r
  <2>3. ASSUME NEW k \in 1 .. Len(t) PROVE r[k + n] = t[k]
    <3> DEFINE i == k + n
    <3>1. i \in 1 .. Len(r) /\ ~(i <= n) /\ i - n = k
      BY <2>1
    <3> HIDE DEF i
    <3>2. r[i] = t[i - n]
      BY <2>2, <3>1
    <3> QED
      BY <3>1, <3>2 DEF i
  <2>4. ASSUME NEW k \in 1 .. n PROVE r[k] # x
    <3>1. k \in 1 .. Len(r) /\ k <= n
      BY <2>1
    <3>2. r[k] = work[k]
      BY <2>2, <3>1
    <3> QED
      BY <2>1, <3>2
  <2>5. DOMAIN r = 1 .. n + Len(t)
    BY <2>1
  <2> QED
    BY <2>1, <2>3, <2>4, <2>5
<1> HIDE DEF n, r
<1>2. A \subseteq 1 .. Len(t) /\ \A k \in A : t[k] = x
  BY <1>1 DEF Occurrences
<1>3. IsFiniteSet(A)
  <2>1. IsFiniteSet(1 .. Len(t))
    BY <1>1, FS_Interval
  <2> QED
    BY <1>2, <2>1, FS_Subset
<1>4. ASSUME NEW k \in A PROVE k + n \in B
  <2>1. k \in 1 .. Len(t) /\ t[k] = x
    BY <1>2
  <2>2. k + n \in DOMAIN r /\ r[k + n] = x
    BY <1>1, <2>1
  <2> QED
    BY <2>2 DEF Occurrences
<1>5. ASSUME NEW k \in B PROVE k - n \in A /\ (k - n) + n = k
  <2>1. k \in 1 .. n + Len(t) /\ r[k] = x
    BY <1>1 DEF Occurrences
  <2>2. k \notin 1 .. n
    BY <1>1, <2>1
  <2>3. k - n \in 1 .. Len(t) /\ (k - n) + n = k
    BY <1>1, <2>1, <2>2
  <2>4. t[k - n] = x
    BY <1>1, <2>1, <2>3
  <2> QED
    BY <1>1, <2>3, <2>4 DEF Occurrences
<1> HIDE DEF A, B
<1>6. f \in Bijection(A, B)
  <2>1. f \in [A -> B]
    BY <1>4
  <2>2. \A a, b \in A : f[a] = f[b] => a = b
    BY <1>1, <1>2
  <2>3. \A b \in B : \E a \in A : f[a] = b
    BY <1>5
  <2> QED
    BY <2>1, <2>2, <2>3, Fun_IsBij
<1>7. ExistsBijection(A, B)
  BY <1>6 DEF ExistsBijection
<1> QED
  BY <1>3, <1>7, FS_Bijection DEF A, B, r

NoUnref(q) == \A k \in DOMAIN q : q[k].op # "unref"

(* A running call leaves the references that are still to be dropped. *)
LEMMA PendingRun ==
    ASSUME NEW work, Runs(work), NoUnref(work), agenda[1].op # "unref", NEW w
    PROVE  Cardinality(Occurrences(agenda', Unref(w))) = Cardinality(Occurrences(agenda, Unref(w)))
           /\ Cardinality(Occurrences(agenda, Unref(w))) \in Nat
<1> DEFINE q == agenda
           t == Tail(q)
           x == Unref(w)
<1>1. q \in Seq(Work) /\ q # <<>> /\ work \in Seq(Work) /\ t \in Seq(Work) /\ agenda' = work \o t
  BY DEF Runs
<1>2. q[1] # x /\ \A k \in DOMAIN work : work[k] # x
  BY DEF NoUnref, Unref
<1> HIDE DEF x
<1>3. CountedWith(q, q[1], t, x)
  BY <1>1, OccurrencesPopped
<1> HIDE DEF q, t
<1>4. Cardinality(Occurrences(work \o t, x)) = Cardinality(Occurrences(t, x))
  BY <1>1, <1>2, OccurrencesBehind
<1> QED
  BY <1>1, <1>2, <1>3, <1>4 DEF CountedWith, q, x

(* No reference is to be dropped. *)
LEMMA PendingNone ==
    ASSUME NEW q, NoUnref(q), NEW w
    PROVE  Cardinality(Occurrences(q, Unref(w))) = 0
<1>1. Occurrences(q, Unref(w)) = {}
  BY DEF NoUnref, Unref, Occurrences
<1> QED
  BY <1>1, FS_EmptySet

(* A handler starts that drops no reference at once. *)
LEMMA PendingQuiet ==
    ASSUME agenda = <<>>, NoUnref(agenda'), NEW w
    PROVE  Cardinality(Occurrences(agenda', Unref(w))) = Cardinality(Occurrences(agenda, Unref(w)))
<1>1. NoUnref(agenda)
  BY DEF NoUnref
<1> QED
  BY <1>1, PendingNone

LinksSame == \A s \in Session : ses'[s].linked = ses[s].linked

(* The sessions that link a window are those of the links. *)
LEMMA LinkingSame ==
    ASSUME LinksSame, NEW w PROVE Linking(w)' = Linking(w)
BY DEF LinksSame, Linking

(* Nothing that a reference is counted for comes or goes. *)
LEMMA RefsKept ==
    ASSUME RefsCounted, LinksSame,
           \A w \in Window : win'[w].refs = win[w].refs /\ win'[w].noted = win[w].noted,
           \A d \in Defer : defer'[d].win = defer[d].win,
           \A w \in Window : Cardinality(Occurrences(agenda', Unref(w)))
                               = Cardinality(Occurrences(agenda, Unref(w)))
    PROVE  RefsCounted'
<1> SUFFICES ASSUME NEW w \in Window
    PROVE  win'[w].refs = Cardinality(Linking(w)') + win'[w].noted + Cardinality(Deferred(w)')
                          + Cardinality(Occurrences(agenda', Unref(w)))
  BY DEF RefsCounted, Unref
<1>1. Linking(w)' = Linking(w)
  BY LinkingSame
<1>2. Deferred(w)' = Deferred(w)
  BY DEF Deferred
<1>3. win[w].refs = Cardinality(Linking(w)) + win[w].noted + Cardinality(Deferred(w))
                    + Cardinality(Occurrences(agenda, Unref(w)))
  BY DEF RefsCounted
<1> QED
  BY <1>1, <1>2, <1>3

NoFinalize(q) == \A k \in DOMAIN q : q[k].op # "finalize"

(* No deferred close is made or begun; panes may go.                        *)
LEMMA DefersKept ==
    ASSUME DefersNamed, defer' = defer, NoFinalize(agenda'),
           agenda = <<>> \/ agenda[1].op # "finalize",
           \A w \in Window, p \in PaneId :
               win'[w].panes[p] \in {win[w].panes[p], "none"}
    PROVE  DefersNamed'
<1>1. ASSUME NEW d \in Defer
      PROVE  /\ defer[d] # NoDefer => defer[d].win # 0 /\ defer[d].pane # 0
             /\ defer[d].pending = 0 => defer[d] = NoDefer
             /\ ~Has(agenda', Finalizing(d))
  <2>1. agenda # <<>> => agenda[1] # Finalizing(d)
    BY DEF Finalizing
  <2>2. ~Has(agenda', Finalizing(d))
    BY DEF NoFinalize, Has, Finalizing
  <2> QED
    BY <2>1, <2>2 DEF DefersNamed
<1>2. ASSUME NEW w \in Window, NEW p \in PaneId
      PROVE  /\ win'[w].panes[p] \in {"closing", "revived"}
                  => \E d \in Defer : defer[d].win = w /\ defer[d].pane = p
             /\ win'[w].panes[p] = "running" => \A d \in Defer : defer[d].win # w \/ defer[d].pane # p
  <2>1. win'[w].panes[p] = win[w].panes[p] \/ win'[w].panes[p] = "none"
    OBVIOUS
  <2> QED
    BY <2>1 DEF DefersNamed
<1>3. \A d, e \in Defer :
         defer[d] # NoDefer /\ defer[d].win = defer[e].win /\ defer[d].pane = defer[e].pane => d = e
  BY DEF DefersNamed
<1>4. (\A d \in Defer :
         /\ defer[d] # NoDefer => defer[d].win # 0 /\ defer[d].pane # 0
         /\ defer[d].pending = 0 => defer[d] = NoDefer \/ (agenda # <<>> /\ agenda[1] = Finalizing(d))
         /\ Has(agenda, Finalizing(d)) => defer[d].pending = 0 /\ defer[d] # NoDefer)'
  BY <1>1 DEF Finalizing
<1> QED
  BY <1>2, <1>3, <1>4 DEF DefersNamed

NoInvalidate(q) == \A k \in DOMAIN q : q[k].op # "invalidate"

(* A running call leaves windows and links alone. *)
LEMMA PanesRun ==
    ASSUME PanesKept, win' = win, LinksSame, NEW work, Runs(work), NoInvalidate(work),
           agenda[1].op \notin {"invalidate", "kill"}
    PROVE  PanesKept'
<1> SUFFICES ASSUME NEW w \in Window
    PROVE  /\ win[w].refs = 0 =>
                \/ Panes(w) = {}
                \/ \E k \in DOMAIN agenda' : agenda'[k].op = "invalidate" /\ agenda'[k].win = w
           /\ \A k \in DOMAIN agenda' : agenda'[k].op = "invalidate" /\ agenda'[k].win = w => win[w].refs = 0
           /\ ~(Linking(w)' # {} /\ Panes(w) = {})
  BY DEF PanesKept, Panes
<1>1. Linking(w)' = Linking(w)
  BY LinkingSame
<1>2. Placed(agenda, work, agenda')
  BY Places DEF Runs
<1>3. ASSUME NEW k \in DOMAIN agenda, agenda[k].op = "invalidate", agenda[k].win = w
      PROVE  \E i \in DOMAIN agenda' : agenda'[i].op = "invalidate" /\ agenda'[i].win = w
  <2>1. k # 1
    BY <1>3
  <2>2. PICK i \in DOMAIN agenda' : agenda'[i] = agenda[k]
    BY <1>2, <2>1 DEF Placed
  <2> QED
    BY <1>3, <2>2
<1>4. ASSUME NEW k \in DOMAIN agenda', agenda'[k].op = "invalidate", agenda'[k].win = w
      PROVE  win[w].refs = 0
  <2>1. ~(k \in DOMAIN work /\ agenda'[k] = work[k])
    BY <1>4 DEF NoInvalidate
  <2>2. PICK i \in DOMAIN agenda : agenda'[k] = agenda[i]
    BY <1>2, <2>1 DEF Placed
  <2> QED
    BY <1>4, <2>2 DEF PanesKept
<1>5. /\ win[w].refs = 0 =>
          \/ Panes(w) = {}
          \/ \E k \in DOMAIN agenda : agenda[k].op = "invalidate" /\ agenda[k].win = w
      /\ ~(Linking(w) # {} /\ Panes(w) = {})
  BY DEF PanesKept
<1> QED
  BY <1>1, <1>3, <1>4, <1>5

(* A handler leaves the panes of linked windows alone. *)
LEMMA PanesQuiet ==
    ASSUME PanesKept, agenda = <<>>, NoInvalidate(agenda'), LinksSame,
           \A w \in Window : /\ win'[w].refs = 0 => win[w].refs = 0 /\ win'[w].panes = win[w].panes
                             /\ Linking(w) # {} => win'[w].panes = win[w].panes
    PROVE  PanesKept'
<1> SUFFICES ASSUME NEW w \in Window
    PROVE  /\ win'[w].refs = 0 => Panes(w)' = {}
           /\ \A k \in DOMAIN agenda' : agenda'[k].op # "invalidate"
           /\ ~(Linking(w)' # {} /\ Panes(w)' = {})
  BY DEF PanesKept
<1>1. Linking(w)' = Linking(w)
  BY LinkingSame
<1>2. win[w].refs = 0 => Panes(w) = {}
  BY DEF PanesKept
<1>3. ~(Linking(w) # {} /\ Panes(w) = {})
  BY DEF PanesKept
<1>4. win'[w].panes = win[w].panes => Panes(w)' = Panes(w)
  BY DEF Panes
<1> QED
  BY <1>1, <1>2, <1>3, <1>4 DEF NoInvalidate

----------------------------------------------------------------------------
(* The current window of a session, and the stack of those before it.       *)

(* A finite set of numbers that is not empty has a greatest one. *)
LEMMA GreatestNumber ==
    ASSUME NEW S \in SUBSET Nat, IsFiniteSet(S), S # {}
    PROVE  \E m \in S : \A x \in S : x <= m
<1> DEFINE n == Cardinality(S)
<1>1. n \in Nat /\ ExistsBijection(1 .. n, S)
  BY FS_CardinalityType
<1> HIDE DEF n
<1>2. PICK f : f \in Bijection(1 .. n, S)
  BY <1>1 DEF ExistsBijection
<1>3. f \in [1 .. n -> S] /\ \A x \in S : \E i \in 1 .. n : f[i] = x
  <2> DEFINE N == 1 .. n
  <2>1. f \in Bijection(N, S)
    BY <1>2
  <2> HIDE DEF N
  <2>2. f \in [N -> S] /\ \A x \in S : \E i \in N : f[i] = x
    BY <2>1, Fun_BijectionProperties
  <2> QED
    BY <2>2 DEF N
<1> DEFINE P == {k \in 0 .. n : \E b \in Nat : \A i \in 1 .. k : f[i] <= b}
<1>4. 0 .. n \subseteq P
  <2>1. 0 \in P
    <3>1. 0 \in 0 .. n /\ \A i \in 1 .. 0 : f[i] <= 0
      BY <1>1
    <3> QED
      BY <3>1
  <2>2. ASSUME NEW k \in 0 .. n, k + 1 \in 0 .. n, k \in P
        PROVE  k + 1 \in P
    <3>1. PICK b \in Nat : \A i \in 1 .. k : f[i] <= b
      BY <2>2
    <3>2. k + 1 \in 1 .. n /\ f[k + 1] \in Nat
      <4>1. k + 1 \in 1 .. n
        BY <1>1, <2>2
      <4>2. f[k + 1] \in S
        BY <1>3, <4>1
      <4> QED
        BY <4>1, <4>2
    <3> DEFINE c == IF b < f[k + 1] THEN f[k + 1] ELSE b
    <3>3. c \in Nat /\ b <= c /\ f[k + 1] <= c
      BY <3>2
    <3> HIDE DEF c
    <3>4. ASSUME NEW i \in 1 .. k + 1 PROVE f[i] <= c
      <4>1. CASE i = k + 1
        BY <3>3, <4>1
      <4>2. CASE i # k + 1
        <5>1. i \in 1 .. k /\ i \in 1 .. n
          BY <1>1, <2>2, <4>2
        <5>2. f[i] \in Nat /\ f[i] <= b
          BY <1>3, <3>1, <5>1
        <5> QED
          BY <3>3, <5>2
      <4> QED
        BY <4>1, <4>2
    <3> QED
      BY <2>2, <3>3, <3>4
  <2> HIDE DEF P
  <2> QED
    BY <1>1, <2>1, <2>2, UpTo
<1>5. PICK b \in Nat : \A i \in 1 .. n : f[i] <= b
  <2>1. n \in P
    <3> HIDE DEF P
    <3> QED
      BY <1>1, <1>4
  <2> QED
    BY <2>1
<1> DEFINE U == {u \in Nat : \A x \in S : x <= u}
<1>6. U # {} /\ U \in SUBSET Nat
  <2>1. \A x \in S : x <= b
    BY <1>3, <1>5
  <2> QED
    BY <2>1
<1>7. PICK m \in U : \A u \in U : m <= u
  BY <1>6, LeastNumber
<1>8. m \in Nat /\ \A x \in S : x <= m
  OBVIOUS
<1>9. m \in S
  <2> SUFFICES ASSUME m \notin S PROVE FALSE
    OBVIOUS
  <2>1. \A x \in S : x < m
    BY <1>8
  <2>2. m # 0
    <3>1. PICK x \in S : TRUE
      OBVIOUS
    <3>2. x \in Nat /\ x < m
      BY <2>1
    <3> QED
      BY <3>2
  <2>3. m - 1 \in Nat /\ \A x \in S : x <= m - 1
    BY <1>8, <2>1, <2>2
  <2>4. m - 1 \in U /\ ~(m <= m - 1)
    BY <1>8, <2>3
  <2> QED
    BY <1>7, <2>4
<1> QED
  BY <1>8, <1>9

Distinct(q) == \A i, j \in DOMAIN q : i # j => q[i] # q[j]

(* A session's current window and stack are its windows, each once.         *)
SessionOK(k) ==
    /\ k.linked # {} => k.curw \in k.linked
    /\ \A i \in DOMAIN k.lastw : k.lastw[i] \in k.linked \ {k.curw}
    /\ Distinct(k.lastw)

(* CurrentWindowLinked, session by session. *)
LEMMA CurrentSplit ==
    CurrentWindowLinked <=> /\ \A s \in Session : SessionOK(ses[s])
                            /\ \A c \in Client : cli[c].session # 0 => Alive(cli[c].session)
BY DEF CurrentWindowLinked, SessionOK, Distinct, Alive

(* The window w is taken off a stack. *)
TakenOff(t, q, w) ==
    /\ t \in Seq(Window) /\ Distinct(t)
    /\ \A i \in DOMAIN t : t[i] # w /\ \E j \in DOMAIN q : t[i] = q[j]

(* Taking a window off a stack leaves the others, each once. *)
LEMMA WithoutStack ==
    ASSUME NEW q \in Seq(Window), Distinct(q), NEW w, NEW t, t = Without(q, {w})
    PROVE  TakenOff(t, q, w)
<1>1. t \in Seq(Window) /\ Range(t) = Range(q) \ {w}
  BY WithoutFacts
<1>2. \A i \in DOMAIN t : t[i] \in Range(t)
  BY DEF Range
<1>3. \A i \in DOMAIN t : t[i] # w /\ \E j \in DOMAIN q : t[i] = q[j]
  BY <1>1, <1>2 DEF Range
<1>4. DOMAIN t = 1 .. Len(t) /\ DOMAIN q = 1 .. Len(q)
  BY <1>1
<1>5. ASSUME NEW m \in 1 .. Len(t), NEW n \in 1 .. Len(t), m < n
      PROVE  t[m] # t[n]
  <2>1. m \in 1 .. Len(Without(q, {w})) /\ n \in 1 .. Len(Without(q, {w}))
    OBVIOUS
  <2>2. \E j, k \in 1 .. Len(q) : j < k /\ Without(q, {w})[m] = q[j] /\ Without(q, {w})[n] = q[k]
    BY <1>5, <2>1, WithoutOrder
  <2>3. PICK j \in 1 .. Len(q), k \in 1 .. Len(q) : j < k /\ t[m] = q[j] /\ t[n] = q[k]
    BY <2>2
  <2>4. q[j] # q[k]
    BY <1>4, <2>3 DEF Distinct
  <2> QED
    BY <2>3, <2>4
<1>6. ASSUME NEW m \in 1 .. Len(t), NEW n \in 1 .. Len(t), m # n
      PROVE  t[m] # t[n]
  <2>1. m < n \/ n < m
    BY <1>6
  <2> QED
    BY <1>5, <2>1
<1>7. Distinct(t)
  BY <1>4, <1>6 DEF Distinct
<1> QED
  BY <1>1, <1>3, <1>7 DEF TakenOff

(* The window v is put on a stack. *)
NotOn(t, v) == \A i \in DOMAIN t : t[i] # v
PutOn(q, t, v) ==
    /\ q \in Seq(Window) /\ Distinct(q)
    /\ \A i \in DOMAIN q : q[i] = v \/ \E j \in DOMAIN t : q[i] = t[j]

(* Putting a window on a stack it is not on. *)
LEMMA PushedStack ==
    ASSUME NEW t \in Seq(Window), Distinct(t), NEW v \in Window, NotOn(t, v),
           NEW q, q = <<v>> \o t
    PROVE  PutOn(q, t, v)
<1>0. \A i \in DOMAIN t : t[i] # v
  BY DEF NotOn
<1>1. /\ q \in Seq(Window) /\ DOMAIN q = 1 .. Len(t) + 1 /\ DOMAIN t = 1 .. Len(t) /\ Len(t) \in Nat
      /\ q[1] = v /\ \A i \in 2 .. Len(t) + 1 : q[i] = t[i - 1]
  OBVIOUS
<1>2. ASSUME NEW i \in DOMAIN q, i # 1 PROVE i - 1 \in DOMAIN t /\ q[i] = t[i - 1]
  BY <1>1, <1>2
<1>3. Distinct(q)
  <2> SUFFICES ASSUME NEW i \in DOMAIN q, NEW j \in DOMAIN q, i # j PROVE q[i] # q[j]
    BY DEF Distinct
  <2>1. CASE i = 1
    BY <1>0, <1>1, <1>2, <2>1
  <2>2. CASE j = 1
    BY <1>0, <1>1, <1>2, <2>2
  <2>3. CASE i # 1 /\ j # 1
    <3>1. i - 1 \in DOMAIN t /\ j - 1 \in DOMAIN t /\ i - 1 # j - 1
      BY <1>1, <1>2, <2>3
    <3> QED
      BY <1>2, <2>3, <3>1 DEF Distinct
  <2> QED
    BY <2>1, <2>2, <2>3
<1>4. \A i \in DOMAIN q : q[i] = v \/ \E j \in DOMAIN t : q[i] = t[j]
  BY <1>1, <1>2
<1> QED
  BY <1>1, <1>3, <1>4 DEF PutOn

(* The fields of a session. *)
LEMMA SessionFields ==
    ASSUME NEW k \in SessionType
    PROVE  /\ k.linked \in SUBSET Window /\ k.curw \in Window \cup {0} /\ k.lastw \in Seq(Window)
           /\ k = [linked |-> k.linked, curw |-> k.curw, lastw |-> k.lastw]
BY DEF SessionType

(* k with other fields. *)
SessionWith(a, b, c) == [linked |-> a, curw |-> b, lastw |-> c]

(* A session with given fields. *)
LEMMA SessionWithFacts ==
    ASSUME NEW a \in SUBSET Window, NEW b \in Window \cup {0}, NEW c \in Seq(Window),
           NEW x, x = SessionWith(a, b, c)
    PROVE  x \in SessionType /\ x.linked = a /\ x.curw = b /\ x.lastw = c
BY DEF SessionWith, SessionType

(* session_set_current: v is current, the stack has what was current        *)
(* before.                                                                  *)
LEMMA MadeCurrentFacts ==
    ASSUME NEW k \in SessionType, SessionOK(k), NEW v \in k.linked, NEW x, x = MadeCurrent(k, v)
    PROVE  x \in SessionType /\ x.linked = k.linked /\ x.curw = v /\ SessionOK(x)
<1>1. CASE v = k.curw
  BY <1>1 DEF MadeCurrent
<1>2. CASE v # k.curw
  <2> DEFINE a == k.linked
             b == k.curw
             c == k.lastw
             t == Without(c, {v})
             q == <<b>> \o t
  <2>1. k = [linked |-> a, curw |-> b, lastw |-> c]
    BY SessionFields
  <2>2. /\ a \in SUBSET Window /\ b \in Window \cup {0} /\ c \in Seq(Window) /\ v \in a /\ b # v
        /\ b \in a /\ Distinct(c) /\ \A i \in DOMAIN c : c[i] \in a \ {b}
    BY <1>2, SessionFields DEF SessionOK
  <2>3. x = [k EXCEPT !.lastw = q, !.curw = v]
    BY <1>2 DEF MadeCurrent
  <2> HIDE DEF a, b, c
  <2>4. /\ t \in Seq(Window) /\ Distinct(t)
        /\ \A i \in DOMAIN t : t[i] # v /\ \E j \in DOMAIN c : t[i] = c[j]
    <3>1. TakenOff(t, c, v)
      BY <2>2, WithoutStack
    <3> QED
      BY <3>1 DEF TakenOff
  <2> HIDE DEF t
  <2>5. \A i \in DOMAIN t : t[i] \in a \ {b, v}
    BY <2>2, <2>4
  <2>6. /\ q \in Seq(Window) /\ Distinct(q)
        /\ \A i \in DOMAIN q : q[i] = b \/ \E j \in DOMAIN t : q[i] = t[j]
    <3>1. b \in Window /\ NotOn(t, b)
      BY <2>2, <2>5 DEF NotOn
    <3>2. PutOn(q, t, b)
      BY <2>4, <3>1, PushedStack
    <3> QED
      BY <3>2 DEF PutOn
  <2> HIDE DEF q
  <2>7. \A i \in DOMAIN q : q[i] \in a \ {v}
    BY <2>2, <2>5, <2>6
  <2>8. x = SessionWith(a, v, q)
    BY <2>1, <2>3 DEF SessionWith
  <2>9. x \in SessionType /\ x.linked = a /\ x.curw = v /\ x.lastw = q
    BY <2>2, <2>6, <2>8, SessionWithFacts
  <2>10. SessionOK(x)
    BY <2>2, <2>6, <2>7, <2>9 DEF SessionOK
  <2> QED
    BY <2>9, <2>10 DEF a
<1> QED
  BY <1>1, <1>2

(* A window that is not current leaves the stack, or the session. *)
MayGo(k, w, e) == e \in {k.linked, k.linked \ {w}} /\ (k.curw # w \/ e = k.linked)

Leaves(k, e, x) == x \in SessionType /\ x.linked = e /\ x.curw = k.curw /\ SessionOK(x)

(* A window that is not current leaves the session and its stack. *)
LEMMA LeftFacts ==
    ASSUME NEW k \in SessionType, SessionOK(k), NEW w, NEW e, MayGo(k, w, e),
           NEW t, t = Without(k.lastw, {w}), NEW x, x = SessionWith(e, k.curw, t)
    PROVE  Leaves(k, e, x)
<1> DEFINE a == k.linked
           b == k.curw
           c == k.lastw
<1>1. /\ a \in SUBSET Window /\ b \in Window \cup {0} /\ c \in Seq(Window) /\ (b # w \/ e = a)
      /\ e \in {a, a \ {w}} /\ (a # {} => b \in a)
      /\ Distinct(c) /\ \A i \in DOMAIN c : c[i] \in a \ {b}
  BY SessionFields DEF SessionOK, MayGo
<1>2. x = SessionWith(e, b, t) /\ t = Without(c, {w})
  OBVIOUS
<1> HIDE DEF a, b, c
<1>3. /\ t \in Seq(Window) /\ Distinct(t)
      /\ \A i \in DOMAIN t : t[i] # w /\ \E j \in DOMAIN c : t[i] = c[j]
  <2>1. TakenOff(t, c, w)
    BY <1>1, <1>2, WithoutStack
  <2> QED
    BY <2>1 DEF TakenOff
<1>4. \A i \in DOMAIN t : t[i] \in e \ {b}
  BY <1>1, <1>3
<1>5. (e # {} => b \in e) /\ e \in SUBSET Window
  BY <1>1
<1>6. x \in SessionType /\ x.linked = e /\ x.curw = b /\ x.lastw = t
  BY <1>1, <1>2, <1>3, <1>5, SessionWithFacts
<1>7. SessionOK(x)
  BY <1>3, <1>4, <1>5, <1>6 DEF SessionOK
<1> QED
  BY <1>6, <1>7 DEF b, Leaves

(* The next window is one of the session, and another if there is another. *)
LEMMA SuccessorFacts ==
    ASSUME NEW s \in Session, ses \in [Session -> SessionType], SessionOK(ses[s]), ses[s].linked # {}
    PROVE  /\ Successor(s) \in ses[s].linked
           /\ ses[s].linked # {ses[s].curw} => Successor(s) # ses[s].curw
<1> DEFINE k == ses[s]
           below == {v \in k.linked : v < k.curw}
           from == IF below # {} THEN below ELSE k.linked
<1>1. /\ k \in SessionType /\ k.linked \in SUBSET Window /\ k.lastw \in Seq(Window)
      /\ k.curw \in k.linked /\ \A i \in DOMAIN k.lastw : k.lastw[i] \in k.linked \ {k.curw}
  BY SessionFields DEF SessionOK
<1>2. Window \subseteq Nat /\ IsFiniteSet(Window)
  BY AnimationAssumption
<1>3. CASE k.lastw # <<>>
  <2>1. Successor(s) = Head(k.lastw)
    BY <1>3 DEF Successor
  <2>2. Head(k.lastw) = k.lastw[1] /\ 1 \in DOMAIN k.lastw
    BY <1>1, <1>3
  <2> QED
    BY <1>1, <2>1, <2>2
<1>4. CASE k.lastw = <<>>
  <2> DEFINE m == CHOOSE w \in from : \A v \in from : v <= w
  <2>1. Successor(s) = m
    BY <1>4 DEF Successor
  <2>2. from \in SUBSET Nat /\ IsFiniteSet(from) /\ from # {} /\ from \subseteq k.linked
    <3>1. from \subseteq k.linked /\ from # {}
      BY <1>1
    <3>2. IsFiniteSet(from)
      BY <1>1, <1>2, <3>1, FS_Subset
    <3> QED
      BY <1>1, <1>2, <3>1, <3>2
  <2>3. \E w \in from : \A v \in from : v <= w
    <3> HIDE DEF from
    <3> QED
      BY <2>2, GreatestNumber
  <2>4. m \in from /\ \A v \in from : v <= m
    <3> HIDE DEF from
    <3> QED
      BY <2>3
  <2> DEFINE cur == k.curw
             all == k.linked
  <2>a. /\ all \subseteq Nat /\ cur \in all /\ cur \in Nat
        /\ below = {v \in all : v < cur} /\ from = IF below # {} THEN below ELSE all
    BY <1>1, <1>2
  <2>b. cur = ses[s].curw /\ all = ses[s].linked
    OBVIOUS
  <2> HIDE DEF below, from, cur, all, k, m
  <2>5. CASE below # {}
    <3>1. m \in all /\ m < cur /\ m \in Nat
      BY <2>a, <2>4, <2>5
    <3>2. m # cur
      BY <2>a, <3>1
    <3> QED
      BY <2>1, <2>b, <3>1, <3>2
  <2>6. CASE below = {}
    <3>1. m \in all /\ \A v \in all : v <= m
      BY <2>a, <2>4, <2>6
    <3>2. ASSUME NEW v \in all PROVE ~(v < cur)
      BY <2>a, <2>6
    <3>3. ASSUME all # {cur} PROVE m # cur
      <4>1. PICK v \in all : v # cur
        BY <2>a, <3>3
      <4>2. v \in Nat /\ ~(v < cur) /\ v <= m
        BY <2>a, <3>1, <3>2
      <4>3. v > cur
        BY <2>a, <4>1, <4>2
      <4> QED
        BY <2>a, <3>1, <4>2, <4>3
    <3> QED
      BY <2>1, <2>b, <3>1, <3>3
  <2> QED
    BY <2>5, <2>6
<1> QED
  BY <1>3, <1>4

(* A linked window has a reference. *)
LEMMA LinkedHasRef ==
    ASSUME TypesKept, RefsCounted, NEW s \in Session, NEW w \in ses[s].linked
    PROVE  w \in Window /\ win[w].refs > 0
<1>1. ses[s] \in SessionType
  BY DEF TypesKept
<1>2. w \in Window
  BY <1>1, SessionFields
<1>3. IsFiniteSet(Linking(w)) /\ s \in Linking(w)
  <2>1. Linking(w) \in SUBSET Session
    BY DEF Linking
  <2> QED
    BY <2>1, AnimationAssumption, FS_Subset DEF Linking
<1>4. Cardinality(Linking(w)) \in Nat /\ Cardinality(Linking(w)) # 0
  BY <1>3, FS_CardinalityType, FS_EmptySet
<1>5. Cardinality(Deferred(w)) \in Nat
  <2>1. IsFiniteSet(Defer)
    BY AnimationAssumption, FS_CardinalityType, FS_Interval DEF Defer
  <2>2. Deferred(w) \in SUBSET Defer
    BY DEF Deferred
  <2> QED
    BY <2>1, <2>2, FS_Subset, FS_CardinalityType
<1>6. Cardinality(Occurrences(agenda, Unref(w))) \in Nat
  <2>1. CASE agenda = <<>>
    BY <2>1, NoOccurrences
  <2>2. CASE agenda # <<>>
    <3>1. agenda \in Seq(Work)
      BY DEF TypesKept
    <3> QED
      BY <2>2, <3>1, OccurrencesPopped DEF CountedWith
  <2> QED
    BY <2>1, <2>2
<1>7. win[w].noted \in Nat
  BY <1>2 DEF TypesKept, WindowType
<1>8. win[w].refs = Cardinality(Linking(w)) + win[w].noted + Cardinality(Deferred(w))
                    + Cardinality(Occurrences(agenda, Unref(w)))
  BY <1>2 DEF RefsCounted
<1> QED
  BY <1>2, <1>4, <1>5, <1>6, <1>7, <1>8

----------------------------------------------------------------------------
(* Handlers that leave windows and deferred closes alone.                   *)

Calm(q) == NoUnref(q) /\ NoFinalize(q) /\ NoInvalidate(q)

(* A handler that touches no window, link or deferred close. *)
LEMMA QuietStep ==
    ASSUME AnimationCore, Quiescent, win' = win, defer' = defer, LinksSame,
           NEW W, MovesTo(W), HasRefs(W), Calm(agenda')
    PROVE  CarriersCounted' /\ DefersNamed' /\ RefsCounted' /\ PanesKept' /\ DrawnKept'
<1>1. CarriersCounted'
  <2>1. \A d \in Defer : defer'[d].pending = defer[d].pending
    OBVIOUS
  <2> QED
    BY <2>1, CarriersKept DEF AnimationCore, MovesTo, DrawsTo
<1>2. DefersNamed'
  <2>1. \A w \in Window, p \in PaneId : win'[w].panes[p] \in {win[w].panes[p], "none"}
    OBVIOUS
  <2> QED
    BY <2>1, DefersKept DEF AnimationCore, Quiescent, Calm
<1>3. RefsCounted'
  <2>1. \A w \in Window : Cardinality(Occurrences(agenda', Unref(w)))
                            = Cardinality(Occurrences(agenda, Unref(w)))
    BY PendingQuiet DEF Quiescent, Calm
  <2>2. \A w \in Window : win'[w].refs = win[w].refs /\ win'[w].noted = win[w].noted
    OBVIOUS
  <2>3. \A d \in Defer : defer'[d].win = defer[d].win
    OBVIOUS
  <2> QED
    BY <2>1, <2>2, <2>3, RefsKept DEF AnimationCore
<1>4. PanesKept'
  <2>1. \A w \in Window : /\ win'[w].refs = 0 => win[w].refs = 0 /\ win'[w].panes = win[w].panes
                          /\ Linking(w) # {} => win'[w].panes = win[w].panes
    OBVIOUS
  <2> QED
    BY <2>1, PanesQuiet DEF AnimationCore, Quiescent, Calm
<1>5. DrawnKept'
  <2>1. cli \in [Client -> ClientType]
    BY DEF AnimationCore, TypesKept
  <2>2. /\ \A w \in Window : win[w].refs > 0 => win'[w].refs > 0
        /\ \A w \in W : w # 0 => win'[w].refs > 0
    BY DEF HasRefs
  <2> QED
    BY <2>1, <2>2, DrawnQuiet DEF AnimationCore, Quiescent, MovesTo
<1> QED
  BY <1>1, <1>2, <1>3, <1>4, <1>5

(* The empty agenda. *)
LEMMA EmptyAgenda ==
    /\ <<>> \in Seq(Work) /\ InOrder(<<>>) /\ Calm(<<>>) /\ Plain(<<>>)
    /\ \A c : ~Has(<<>>, c)
BY DEF InOrder, Calm, NoUnref, NoFinalize, NoInvalidate, Plain, Has

(* The calls there are. *)
LEMMA WorkFacts ==
    /\ \A c \in Client : /\ Clear(c) \in Work /\ Cleared(c) \in Work
                         /\ [op |-> "set", client |-> c] \in Work
                         /\ [op |-> "lost", client |-> c] \in Work
    /\ \A w \in Window : Kill(w) \in Work /\ Unref(w) \in Work
    /\ \A d \in Defer : Finalizing(d) \in Work
    /\ \A s \in Session, w \in Window : [op |-> "prompt", session |-> s, win |-> w] \in Work
    /\ \A w \in Window, p \in PaneId, T \in SUBSET Client :
         [op |-> "scroll", win |-> w, pane |-> p, todo |-> T] \in Work
    /\ \A c \in Client, w \in Window, p \in PaneId :
         [op |-> "picture", client |-> c, win |-> w, pane |-> p] \in Work
    /\ \A w \in Window, T \in SUBSET Session : [op |-> "kill", win |-> w, todo |-> T] \in Work
    /\ \A w \in Window, T \in SUBSET Client : [op |-> "invalidate", win |-> w, todo |-> T] \in Work
<1>1. \A c \in Client : /\ Clear(c) \in Work /\ Cleared(c) \in Work
                        /\ [op |-> "set", client |-> c] \in Work
                        /\ [op |-> "lost", client |-> c] \in Work
  BY DEF Work, Clear, Cleared
<1>2. \A w \in Window : Kill(w) \in Work
  BY DEF Work, Kill
<1>3. \A w \in Window : Unref(w) \in Work
  BY DEF Work, Unref
<1>4. \A d \in Defer : Finalizing(d) \in Work
  BY DEF Work, Finalizing
<1>5. \A s \in Session, w \in Window : [op |-> "prompt", session |-> s, win |-> w] \in Work
  BY DEF Work
<1>6. \A w \in Window, p \in PaneId, T \in SUBSET Client :
         [op |-> "scroll", win |-> w, pane |-> p, todo |-> T] \in Work
  BY DEF Work
<1>7. \A c \in Client, w \in Window, p \in PaneId :
         [op |-> "picture", client |-> c, win |-> w, pane |-> p] \in Work
  BY DEF Work
<1>8. \A w \in Window, T \in SUBSET Session : [op |-> "kill", win |-> w, todo |-> T] \in Work
  BY DEF Work
<1>9. \A w \in Window, T \in SUBSET Client : [op |-> "invalidate", win |-> w, todo |-> T] \in Work
  BY DEF Work
<1> QED
  BY <1>1, <1>2, <1>3, <1>4, <1>5, <1>6, <1>7, <1>8, <1>9

(* An agenda of one call. *)
LEMMA OneCall ==
    ASSUME NEW x \in Work, x.op \notin {"picture"}
    PROVE  /\ <<x>> \in Seq(Work) /\ InOrder(<<x>>)
           /\ DOMAIN <<x>> = {1} /\ <<x>>[1] = x /\ Len(<<x>>) = 1
BY DEF InOrder

(* The overlay of client c is cleared, if it must, and then another call made. *)
ClearsFirst(q, c, b) ==
    /\ q \in Seq(Work) /\ InOrder(q) /\ Calm(q)
    /\ \A i \in DOMAIN q : q[i].op \notin {"cleared", "picture"}
    /\ \A e : Has(q, Clear(e)) => e = c /\ b
    /\ q[1].op \in {"set", "lost"} => q[1].client = c /\ ~b

(* The clearing of an overlay, if there is one, and a last call. *)
LEMMA ClearThen ==
    ASSUME NEW c \in Client, NEW b \in BOOLEAN, NEW y \in Work, y.op \in {"set", "lost", "prompt"},
           y.op \in {"set", "lost"} => y.client = c,
           NEW q, q = (IF b THEN <<Clear(c)>> ELSE <<>>) \o <<y>>
    PROVE  ClearsFirst(q, c, b)
<1> DEFINE x == Clear(c)
<1>1. x \in Work /\ x.op = "clear" /\ x.client = c
  BY WorkFacts DEF Clear
<1>2. \A e : x = Clear(e) => e = c
  BY DEF Clear
<1>3. \A e : y # Clear(e)
  BY DEF Clear
<1>4. x \in {Clear(y.client), Cleared(y.client)} \/ y.op = "prompt"
  OBVIOUS
<1> HIDE DEF x
<1>5. CASE b
  <2>1. q = <<x>> \o <<y>>
    BY <1>5 DEF x
  <2>2. q \in Seq(Work) /\ DOMAIN q = {1, 2} /\ q[1] = x /\ q[2] = y /\ Len(q) = 2
    <3>1. q \in Seq(Work) /\ q[1] = x /\ q[2] = y /\ Len(q) = 2
      BY <1>1, <2>1
    <3> QED
      BY <3>1
  <2>3. InOrder(q)
    BY <1>1, <1>4, <2>2 DEF InOrder
  <2>4. Calm(q)
    BY <1>1, <2>2 DEF Calm, NoUnref, NoFinalize, NoInvalidate
  <2>5. \A e : Has(q, Clear(e)) => e = c
    BY <1>2, <1>3, <2>2 DEF Has
  <2> QED
    BY <1>1, <1>5, <2>2, <2>3, <2>4, <2>5 DEF ClearsFirst
<1>6. CASE ~b
  <2>1. q = <<y>>
    BY <1>6
  <2>2. q \in Seq(Work) /\ DOMAIN q = {1} /\ q[1] = y /\ Len(q) = 1
    <3>1. y.op \notin {"picture"}
      OBVIOUS
    <3> QED
      BY <2>1, <3>1, OneCall
  <2>3. InOrder(q)
    BY <2>2 DEF InOrder
  <2>4. Calm(q)
    BY <2>2 DEF Calm, NoUnref, NoFinalize, NoInvalidate
  <2>5. \A e : ~Has(q, Clear(e))
    BY <1>3, <2>2 DEF Has
  <2> QED
    BY <1>6, <2>2, <2>3, <2>4, <2>5 DEF ClearsFirst
<1> QED
  BY <1>5, <1>6

(* The parts of the invariant. *)
LEMMA TypeParts ==
    ASSUME AnimationCore
    PROVE  /\ cli \in [Client -> ClientType] /\ ses \in [Session -> SessionType]
           /\ win \in [Window -> WindowType] /\ defer \in [Defer -> DeferType]
           /\ agenda \in Seq(Work) /\ moves \in 0 .. MaxMoves
           /\ fault \in Faults
           /\ TypesKept /\ CurrentWindowLinked /\ CarriersCounted /\ InOrder(agenda)
           /\ OverlaysOwned /\ DefersNamed /\ RefsCounted /\ PanesKept /\ DrawnKept
BY DEF AnimationCore, TypesKept

(* A handler starts from an empty agenda. *)
LEMMA MoveFacts ==
    ASSUME TypesKept, Move
    PROVE  agenda = <<>> /\ fault = "none" /\ moves' \in 0 .. MaxMoves
BY AnimationAssumption DEF Move, Quiet, TypesKept

(* A handler that gives the clients animations of the windows W, and makes  *)
(* or leaves to be made no call that ends one.                              *)
LEMMA AnimatedStep ==
    ASSUME AnimationCore, Quiescent, win' = win, defer' = defer, ses' = ses,
           NEW W, ClientsMoved(cli', W), HasRefs(W),
           agenda' = <<>>, fault' \in Faults,
           moves' \in 0 .. MaxMoves
    PROVE  AnimationCore'
<1>1. MovesTo(W) /\ SameSessions
  BY MovedChange
<1>2. LinksSame
  BY DEF LinksSame
<1>3. Calm(agenda') /\ Plain(agenda') /\ InOrder(agenda') /\ agenda' \in Seq(Work)
  BY EmptyAgenda
<1>4. CarriersCounted' /\ DefersNamed' /\ RefsCounted' /\ PanesKept' /\ DrawnKept'
  BY <1>1, <1>2, <1>3, QuietStep
<1>5. OverlaysOwned'
  BY <1>1, <1>3, TypeParts, PlainStarted DEF MovesTo, DrawsTo
<1>6. CurrentWindowLinked'
  BY <1>1, TypeParts, CurrentKept
<1>7. TypesKept'
  BY <1>1, <1>3, TypeParts DEF TypesKept, MovesTo, DrawsTo
<1> QED
  BY <1>3, <1>4, <1>5, <1>6, <1>7 DEF AnimationCore

(* A handler that only puts calls on the agenda. *)
LEMMA CallStep ==
    ASSUME AnimationCore, Quiescent, UNCHANGED <<cli, ses, win, defer, fault>>,
           moves' \in 0 .. MaxMoves, Calm(agenda'), InOrder(agenda'), OverlaysOwned'
    PROVE  AnimationCore'
<1>1. MovesTo({}) /\ SameSessions
  BY TypeParts, SameClients, MovedChange
<1>2. LinksSame
  BY DEF LinksSame
<1>3. HasRefs({})
  BY DEF HasRefs
<1>4. CarriersCounted' /\ DefersNamed' /\ RefsCounted' /\ PanesKept' /\ DrawnKept'
  BY <1>1, <1>2, <1>3, QuietStep
<1>6. CurrentWindowLinked'
  BY <1>1, TypeParts, CurrentKept
<1>7. TypesKept'
  BY TypeParts DEF TypesKept, Quiescent
<1> QED
  BY <1>4, <1>6, <1>7 DEF AnimationCore

(* The windows that exist. *)
Kept == {w \in Window : win[w].refs > 0}

(* Linked windows exist. *)
LEMMA KeptFacts ==
    /\ HasRefs(Kept)
    /\ AnimationCore => \A s \in Session : ses[s].linked \subseteq Kept
<1>1. HasRefs(Kept)
  BY DEF HasRefs, Kept
<1>2. ASSUME AnimationCore, NEW s \in Session, NEW w \in ses[s].linked PROVE w \in Kept
  BY <1>2, TypeParts, LinkedHasRef DEF Kept
<1> QED
  BY <1>1, <1>2

(* Sessions that keep their windows. *)
SessionsTurn(x) ==
    /\ x \in [Session -> SessionType]
    /\ \A s \in Session : x[s].linked = ses[s].linked /\ SessionOK(x[s])

(* Sessions that keep their windows keep their clients. *)
LEMMA TurnedSessions ==
    ASSUME AnimationCore, SessionsTurn(ses'), SameSessions
    PROVE  LinksSame /\ CurrentWindowLinked'
<1>1. LinksSame
  BY DEF LinksSame, SessionsTurn
<1>2. ASSUME NEW s \in Session
      PROVE  /\ ses'[s].linked # {} => ses'[s].curw \in ses'[s].linked
             /\ \A k, l \in DOMAIN ses'[s].lastw :
                  /\ ses'[s].lastw[k] \in ses'[s].linked \ {ses'[s].curw}
                  /\ k # l => ses'[s].lastw[k] # ses'[s].lastw[l]
  BY DEF SessionsTurn, SessionOK, Distinct
<1>3. ASSUME NEW c \in Client, cli'[c].session # 0
      PROVE  ses'[cli'[c].session].linked # {}
  <2>1. cli'[c].session = cli[c].session /\ cli[c].session \in Session
    BY <1>3, TypeParts, ClientFields DEF SameSessions
  <2>2. ses[cli[c].session].linked # {}
    BY <1>3, <2>1, TypeParts, CurrentSplit DEF Alive
  <2> QED
    BY <1>1, <2>1, <2>2 DEF LinksSame
<1> QED
  BY <1>1, <1>2, <1>3 DEF CurrentWindowLinked, Alive

(* SelectWindow keeps the invariant. *)
LEMMA SelectWindowStep ==
    ASSUME AnimationCore, NEW s \in Session, NEW w \in Window, SelectWindow(s, w)
    PROVE  AnimationCore'
<1>1. /\ agenda = <<>> /\ agenda' = <<>> /\ win' = win /\ defer' = defer /\ fault' = fault
      /\ moves' \in 0 .. MaxMoves /\ w \in ses[s].linked
      /\ cli' = Slid({s}, [t \in {s} |-> w])
      /\ ses' = [ses EXCEPT ![s] = MadeCurrent(@, w)]
  BY TypeParts, MoveFacts DEF SelectWindow
<1>2. ClientsMoved(cli', Kept)
  <2> DEFINE to == [t \in {s} |-> w]
  <2>1. to \in [{s} -> Window] /\ \A t \in {s} : to[t] \in Kept
    BY <1>1, KeptFacts
  <2>2. cli' = Slid({s}, to)
    BY <1>1
  <2> HIDE DEF to
  <2> QED
    BY <2>1, <2>2, TypeParts, SlidFacts
<1>3. MovesTo(Kept) /\ SameSessions
  BY <1>2, MovedChange
<1>4. Calm(agenda') /\ Plain(agenda') /\ InOrder(agenda') /\ agenda' \in Seq(Work) /\ Quiescent
  BY <1>1, EmptyAgenda DEF Quiescent
<1>5. SessionsTurn(ses')
  <2>1. \A t \in Session : SessionOK(ses[t]) /\ ses[t] \in SessionType
    BY TypeParts, CurrentSplit
  <2> DEFINE x == MadeCurrent(ses[s], w)
  <2>2. x \in SessionType /\ x.linked = ses[s].linked /\ SessionOK(x)
    BY <1>1, <2>1, MadeCurrentFacts
  <2>3. ses' = [ses EXCEPT ![s] = x]
    BY <1>1
  <2> HIDE DEF x
  <2>4. \A t \in Session : ses'[t] = IF t = s THEN x ELSE ses[t]
    BY <2>3, TypeParts
  <2>5. ses' \in [Session -> SessionType]
    BY <2>2, <2>3, TypeParts
  <2> QED
    BY <2>1, <2>2, <2>4, <2>5 DEF SessionsTurn
<1>6. LinksSame /\ CurrentWindowLinked'
  BY <1>3, <1>5, TurnedSessions
<1>7. CarriersCounted' /\ DefersNamed' /\ RefsCounted' /\ PanesKept' /\ DrawnKept'
  BY <1>1, <1>3, <1>4, <1>6, KeptFacts, QuietStep
<1>8. OverlaysOwned'
  BY <1>3, <1>4, TypeParts, PlainStarted DEF MovesTo, DrawsTo
<1>9. TypesKept'
  BY <1>1, <1>3, <1>4, <1>5, TypeParts DEF TypesKept, MovesTo, DrawsTo, SessionsTurn
<1> QED
  BY <1>4, <1>6, <1>7, <1>8, <1>9 DEF AnimationCore

----------------------------------------------------------------------------
(* The handlers that only start animations or calls.                        *)

LEMMA PanesRef ==
    ASSUME AnimationCore, agenda = <<>>, NEW w \in Window, Panes(w) # {} \/ Linking(w) # {}
    PROVE  HasRefs({w})
<1>1. win[w].refs \in Nat
  BY TypeParts DEF WindowType
<1>2. CASE Panes(w) # {}
  <2>1. win[w].refs # 0
    BY <1>2, TypeParts DEF PanesKept
  <2> QED
    BY <1>1, <2>1 DEF HasRefs
<1>3. CASE Linking(w) # {}
  <2>1. PICK s \in Session : w \in ses[s].linked
    BY <1>3 DEF Linking
  <2> QED
    BY <2>1, TypeParts, LinkedHasRef DEF HasRefs
<1> QED
  BY <1>2, <1>3

(* Clients for which a pane of w has moved may begin to draw its layout. *)
LEMMA LayoutMoved ==
    ASSUME AnimationCore, CapturesOK, NEW C, NEW w \in Window,
           NEW moved \in SUBSET Starting(C, w), LayoutMoves(C, w, moved)
    PROVE  ClientsMoved(cli', {w}) /\ fault' \in Faults
<1>1. CASE UNCHANGED cli /\ fault' \in {"session", "overlay"}
  BY <1>1, TypeParts, SameClients DEF Faults
<1>2. CASE /\ \A c \in moved : cli[c].session # 0 /\ cli[c].overlay # "animation"
           /\ cli' = [c \in Client |->
                        IF c \in moved
                        THEN [cli[c] EXCEPT !.overlay = "animation", !.anim = Anim("panes", w)]
                        ELSE cli[c]]
           /\ UNCHANGED fault
  <2>1. ASSUME NEW c \in Client PROVE DrawnTo(cli[c], cli'[c], {w})
    <3>1. cli[c] \in ClientType /\ Tidy(cli[c])
      BY TypeParts, OwnsTidy
    <3>2. CASE c \in moved
      <4> DEFINE a == Anim("panes", w)
      <4>1. a \in AnimationType /\ a.kind = "panes" /\ a.win = w /\ a.defer = 0
        BY AnimFacts
      <4>2. cli[c].anim.kind = "none" /\ (CanCapture(cli[c]) \/ capture[c] = w)
        BY <3>2 DEF Starting
      <4>3. cli[c].sized
        BY <4>2, AnimationAssumption DEF CanCapture, CapturesOK, CapturesKept
      <4>4. cli[c].listed /\ cli[c].overlay # "animation"
        BY <1>2, <3>1, <3>2 DEF Tidy
      <4>5. cli[c].anim.defer = 0
        BY <3>1, <4>2 DEF Tidy, NoAnimation
      <4>6. cli'[c] = [cli[c] EXCEPT !.overlay = "animation", !.anim = a]
        BY <1>2, <3>2
      <4> HIDE DEF a
      <4>7. MayStart(cli[c], a, {w})
        BY <4>1, <4>3, <4>4, <4>5 DEF MayStart
      <4> QED
        BY <3>1, <4>1, <4>6, <4>7, NewAnimation
    <3>3. CASE c \notin moved
      <4>1. cli'[c] = cli[c]
        BY <1>2, <3>3
      <4> QED
        BY <3>1, <4>1, MovedSame
    <3> QED
      BY <3>2, <3>3
  <2>2. cli' \in [Client -> ClientType]
    <3>1. \A c \in Client : cli'[c] \in ClientType
      BY <2>1 DEF DrawnTo, MovedTo
    <3>2. cli' = [c \in Client |-> cli'[c]]
      BY <1>2
    <3> QED
      BY <3>1, <3>2
  <2> QED
    BY <1>2, <2>1, <2>2, TypeParts DEF ClientsMoved
<1> QED
  BY <1>1, <1>2 DEF LayoutMoves

(* So may those of a layout that changes. *)
LEMMA LayoutChanged ==
    ASSUME AnimationCore, CapturesOK, NEW C, NEW w \in Window, LayoutChanges(C, w)
    PROVE  ClientsMoved(cli', {w}) /\ fault' \in Faults
<1>1. PICK moved \in SUBSET Starting(C, w) : LayoutMoves(C, w, moved)
  BY DEF LayoutChanges
<1> QED
  BY <1>1, LayoutMoved

(* ZoomPane keeps the invariant. *)
LEMMA ZoomPaneStep ==
    ASSUME AnimationCore, CapturesOK, NEW c \in Client, NEW w \in Window, ZoomPane(c, w)
    PROVE  AnimationCore'
<1>1. /\ agenda = <<>> /\ agenda' = <<>> /\ UNCHANGED <<ses, win, defer>>
      /\ moves' \in 0 .. MaxMoves /\ Linking(w) # {} /\ LayoutChanges({c}, w)
  BY TypeParts, MoveFacts DEF ZoomPane
<1>2. HasRefs({w}) /\ ClientsMoved(cli', {w}) /\ fault' \in Faults
  BY <1>1, PanesRef, LayoutChanged
<1>3. Quiescent
  BY <1>1, EmptyAgenda DEF Quiescent
<1> QED
  BY <1>1, <1>2, <1>3, TypeParts, AnimatedStep

(* AlternateScreen keeps the invariant. *)
LEMMA AlternateScreenStep ==
    ASSUME AnimationCore, NEW w \in Window, AlternateScreen(w)
    PROVE  AnimationCore'
<1>1. /\ agenda = <<>> /\ agenda' = <<>> /\ UNCHANGED <<ses, win, defer>>
      /\ moves' \in 0 .. MaxMoves /\ Panes(w) # {}
      /\ \/ fault' = "picture" /\ UNCHANGED cli
         \/ cli' = BegunBy(Viewers(w), "panes", w) /\ UNCHANGED fault
  BY TypeParts, MoveFacts DEF AlternateScreen
<1>2. HasRefs({w}) /\ ClientsMoved(cli', {w})
  <2>1. CASE UNCHANGED cli
    BY <1>1, <2>1, TypeParts, SameClients, PanesRef
  <2>2. CASE cli' = BegunBy(Viewers(w), "panes", w)
    BY <1>1, <2>2, TypeParts, BegunByFacts, PanesRef
  <2> QED
    BY <1>1, <2>1, <2>2
<1>3. Quiescent /\ fault' \in Faults
  BY <1>1, EmptyAgenda, TypeParts DEF Quiescent, Faults
<1> QED
  BY <1>1, <1>2, <1>3, AnimatedStep

(* PaneMode keeps the invariant. *)
LEMMA PaneModeStep ==
    ASSUME AnimationCore, NEW w \in Window, PaneMode(w)
    PROVE  AnimationCore'
<1>1. /\ agenda = <<>> /\ agenda' = <<>> /\ UNCHANGED <<ses, win, defer, fault>>
      /\ moves' \in 0 .. MaxMoves /\ cli' = BegunBy(Viewers(w), "picture", 0)
  BY TypeParts, MoveFacts DEF PaneMode
<1>2. HasRefs({0}) /\ ClientsMoved(cli', {0})
  BY <1>1, TypeParts, BegunByFacts DEF HasRefs
<1>3. Quiescent
  BY <1>1, EmptyAgenda DEF Quiescent
<1> QED
  BY <1>1, <1>2, <1>3, TypeParts, AnimatedStep

(* One call that clears nothing. *)
LEMMA PlainCall ==
    ASSUME AnimationCore, agenda = <<>>, UNCHANGED <<cli, ses, win, defer, fault>>,
           moves' \in 0 .. MaxMoves, NEW x \in Work, x.op \in {"kill", "scroll"}, agenda' = <<x>>
    PROVE  AnimationCore'
<1>1. /\ <<x>> \in Seq(Work) /\ InOrder(<<x>>) /\ DOMAIN <<x>> = {1} /\ <<x>>[1] = x
  BY OneCall
<1>2. Calm(<<x>>) /\ Plain(<<x>>)
  BY <1>1 DEF Calm, NoUnref, NoFinalize, NoInvalidate, Plain
<1>3. MovesTo({})
  BY TypeParts, SameClients, MovedChange
<1>4. Quiescent
  BY <1>1 DEF Quiescent
<1>5. OverlaysOwned'
  BY <1>2, <1>3, <1>4, TypeParts, PlainStarted DEF MovesTo, DrawsTo
<1> QED
  BY <1>1, <1>2, <1>4, <1>5, CallStep

(* Scroll keeps the invariant. *)
LEMMA ScrollStep ==
    ASSUME AnimationCore, NEW w \in Window, NEW p \in PaneId, Scroll(w, p)
    PROVE  AnimationCore'
<1> DEFINE x == [op |-> "scroll", win |-> w, pane |-> p, todo |-> {c \in Client : cli[c].listed}]
<1>1. /\ agenda = <<>> /\ agenda' = <<x>> /\ UNCHANGED <<cli, ses, win, defer, fault>>
      /\ moves' \in 0 .. MaxMoves
  BY TypeParts, MoveFacts DEF Scroll
<1>2. x \in Work /\ x.op = "scroll"
  BY WorkFacts
<1> HIDE DEF x
<1> QED
  BY <1>1, <1>2, PlainCall

(* KillWindow keeps the invariant. *)
LEMMA KillWindowStep ==
    ASSUME AnimationCore, NEW w \in Window, KillWindow(w)
    PROVE  AnimationCore'
<1> DEFINE x == Kill(w)
<1>1. /\ agenda = <<>> /\ agenda' = <<x>> /\ UNCHANGED <<cli, ses, win, defer, fault>>
      /\ moves' \in 0 .. MaxMoves
  BY TypeParts, MoveFacts DEF KillWindow
<1>2. x \in Work /\ x.op = "kill"
  BY WorkFacts DEF Kill
<1> HIDE DEF x
<1> QED
  BY <1>1, <1>2, PlainCall

(* A handler whose first call may clear the overlay of c. *)
LEMMA ClearingStep ==
    ASSUME AnimationCore, agenda = <<>>, UNCHANGED <<cli, ses, win, defer, fault>>,
           moves' \in 0 .. MaxMoves, NEW c \in Client, NEW b \in BOOLEAN,
           b <=> cli[c].overlay # "none", ClearsFirst(agenda', c, b)
    PROVE  AnimationCore'
<1>1. /\ agenda' \in Seq(Work) /\ InOrder(agenda') /\ Calm(agenda')
      /\ \A i \in DOMAIN agenda' : agenda'[i].op \notin {"cleared", "picture"}
      /\ \A e : Has(agenda', Clear(e)) => e = c /\ b
      /\ agenda'[1].op \in {"set", "lost"} => agenda'[1].client = c /\ ~b
  BY DEF ClearsFirst
<1>2. Quiescent
  BY <1>1 DEF Quiescent
<1>3. ClientsChange
  BY TypeParts, SameClients, MovedChange DEF MovesTo, DrawsTo
<1>4. /\ \A e \in Client : Has(agenda', Clear(e)) => cli'[e].overlay # "none"
      /\ \A e \in Client : agenda' # <<>> /\ agenda'[1].op \in {"set", "lost"} /\ agenda'[1].client = e
                             => cli'[e].overlay = "none"
  BY <1>1
<1>5. OverlaysOwned'
  BY <1>1, <1>2, <1>3, <1>4, TypeParts, OverlaysStarted
<1> QED
  BY <1>1, <1>2, <1>5, CallStep

(* One call, that clears the overlay of c. *)
LEMMA ClearAlone ==
    ASSUME NEW c \in Client
    PROVE  ClearsFirst(<<Clear(c)>>, c, TRUE)
<1> DEFINE x == Clear(c)
<1>1. x \in Work /\ x.op = "clear" /\ \A e : x = Clear(e) => e = c
  BY WorkFacts DEF Clear
<1> HIDE DEF x
<1>2. /\ <<x>> \in Seq(Work) /\ InOrder(<<x>>) /\ DOMAIN <<x>> = {1} /\ <<x>>[1] = x
  BY <1>1, OneCall
<1>3. Calm(<<x>>)
  BY <1>1, <1>2 DEF Calm, NoUnref, NoFinalize, NoInvalidate
<1>4. ClearsFirst(<<x>>, c, TRUE)
  BY <1>1, <1>2, <1>3 DEF ClearsFirst, Has
<1> QED
  BY <1>4 DEF x

(* EndOverlay keeps the invariant. *)
LEMMA EndOverlayStep ==
    ASSUME AnimationCore, NEW c \in Client, EndOverlay(c)
    PROVE  AnimationCore'
<1>1. /\ agenda = <<>> /\ agenda' = <<Clear(c)>> /\ UNCHANGED <<cli, ses, win, defer, fault>>
      /\ moves' \in 0 .. MaxMoves /\ cli[c].overlay # "none"
  BY TypeParts, MoveFacts DEF EndOverlay
<1>2. ClearsFirst(agenda', c, TRUE)
  BY <1>1, ClearAlone
<1> QED
  BY <1>1, <1>2, ClearingStep

(* LastFrame keeps the invariant. *)
LEMMA LastFrameStep ==
    ASSUME AnimationCore, NEW c \in Client, LastFrame(c)
    PROVE  AnimationCore'
<1>1. /\ agenda = <<>> /\ agenda' = <<Clear(c)>> /\ UNCHANGED <<cli, ses, win, defer, fault>>
      /\ moves' \in 0 .. MaxMoves /\ cli[c].anim.over
  BY TypeParts DEF LastFrame, Quiet
<1>2. cli[c].overlay # "none"
  <2>1. Owns(cli[c], c, agenda)
    BY TypeParts DEF OverlaysOwned
  <2>2. cli[c].anim.kind # "none"
    BY <1>1, <2>1 DEF Owns, NoAnimation
  <2> QED
    BY <2>1, <2>2 DEF Owns
<1>3. ClearsFirst(agenda', c, TRUE)
  BY <1>1, ClearAlone
<1> QED
  BY <1>1, <1>2, <1>3, ClearingStep

(* A handler that clears the overlay of c, if any, and then makes the call  *)
(* y.                                                                       *)
LEMMA ClearThenStep ==
    ASSUME AnimationCore, agenda = <<>>, UNCHANGED <<cli, ses, win, defer, fault>>,
           moves' \in 0 .. MaxMoves, NEW c \in Client, NEW y \in Work, y.op \in {"set", "lost", "prompt"},
           y.op \in {"set", "lost"} => y.client = c,
           agenda' = (IF cli[c].overlay # "none" THEN <<Clear(c)>> ELSE <<>>) \o <<y>>
    PROVE  AnimationCore'
<1> DEFINE b == cli[c].overlay # "none"
<1>1. b \in BOOLEAN /\ (b <=> cli[c].overlay # "none")
      /\ agenda' = (IF b THEN <<Clear(c)>> ELSE <<>>) \o <<y>>
  OBVIOUS
<1> HIDE DEF b
<1>2. ClearsFirst(agenda', c, b)
  BY <1>1, ClearThen
<1> QED
  BY <1>1, <1>2, ClearingStep

(* ShowOverlay keeps the invariant. *)
LEMMA ShowOverlayStep ==
    ASSUME AnimationCore, NEW c \in Client, ShowOverlay(c)
    PROVE  AnimationCore'
<1> DEFINE y == [op |-> "set", client |-> c]
<1>1. /\ agenda = <<>> /\ UNCHANGED <<cli, ses, win, defer, fault>>
      /\ moves' \in 0 .. MaxMoves
      /\ agenda' = (IF cli[c].overlay # "none" THEN <<Clear(c)>> ELSE <<>>) \o <<y>>
  BY TypeParts, MoveFacts DEF ShowOverlay
<1>2. y \in Work /\ y.op = "set" /\ y.client = c
  BY WorkFacts
<1> HIDE DEF y
<1> QED
  BY <1>1, <1>2, ClearThenStep

(* ClientLost keeps the invariant. *)
LEMMA ClientLostStep ==
    ASSUME AnimationCore, NEW c \in Client, ClientLost(c)
    PROVE  AnimationCore'
<1> DEFINE y == [op |-> "lost", client |-> c]
<1>1. /\ agenda = <<>> /\ UNCHANGED <<cli, ses, win, defer, fault>>
      /\ moves' \in 0 .. MaxMoves
      /\ agenda' = (IF cli[c].overlay # "none" THEN <<Clear(c)>> ELSE <<>>) \o <<y>>
  BY TypeParts, MoveFacts DEF ClientLost
<1>2. y \in Work /\ y.op = "lost" /\ y.client = c
  BY WorkFacts
<1> HIDE DEF y
<1> QED
  BY <1>1, <1>2, ClearThenStep

(* ShowPrompt keeps the invariant. *)
LEMMA ShowPromptStep ==
    ASSUME AnimationCore, NEW c \in Client, ShowPrompt(c)
    PROVE  AnimationCore'
<1> DEFINE s == cli[c].session
           y == [op |-> "prompt", session |-> s, win |-> ses[s].curw]
<1>1. /\ agenda = <<>> /\ UNCHANGED <<cli, ses, win, defer, fault>>
      /\ moves' \in 0 .. MaxMoves /\ s # 0
      /\ agenda' = (IF cli[c].overlay # "none" THEN <<Clear(c)>> ELSE <<>>) \o <<y>>
  BY TypeParts, MoveFacts DEF ShowPrompt, Attached
<1>2. y \in Work /\ y.op = "prompt"
  <2>1. s \in Session /\ ses[s].linked # {} /\ SessionOK(ses[s]) /\ ses[s] \in SessionType
    BY <1>1, TypeParts, ClientFields, CurrentSplit DEF Alive
  <2>2. ses[s].curw \in Window
    BY <2>1, SessionFields DEF SessionOK
  <2> HIDE DEF s
  <2> QED
    BY <2>1, <2>2, WorkFacts
<1> HIDE DEF y
<1> QED
  BY <1>1, <1>2, ClearThenStep

(* Only the clients change. *)
LEMMA ClientsStep ==
    ASSUME AnimationCore, agenda = <<>>, agenda' = <<>>, UNCHANGED <<ses, win, defer, fault>>,
           moves' \in 0 .. MaxMoves, MovesTo({}),
           \A c \in Client : cli'[c].session # 0 => Alive(cli'[c].session)
    PROVE  AnimationCore'
<1>1. LinksSame /\ HasRefs({})
  BY DEF LinksSame, HasRefs
<1>2. Calm(agenda') /\ Plain(agenda') /\ InOrder(agenda') /\ agenda' \in Seq(Work) /\ Quiescent
  BY EmptyAgenda DEF Quiescent
<1>3. CarriersCounted' /\ DefersNamed' /\ RefsCounted' /\ PanesKept' /\ DrawnKept'
  BY <1>1, <1>2, QuietStep
<1>4. OverlaysOwned'
  BY <1>2, TypeParts, PlainStarted DEF MovesTo, DrawsTo
<1>5. CurrentWindowLinked'
  BY TypeParts DEF CurrentWindowLinked, Alive
<1>6. TypesKept'
  BY <1>2, TypeParts DEF TypesKept, MovesTo, DrawsTo
<1> QED
  BY <1>2, <1>3, <1>4, <1>5, <1>6 DEF AnimationCore

(* A client with given fields. *)
LEMMA ClientWith ==
    ASSUME NEW a \in BOOLEAN, NEW b \in Session \cup {0}, NEW d \in BOOLEAN,
           NEW o \in {"none", "animation", "other"}, NEW x \in AnimationType,
           NEW l, l = [listed |-> a, session |-> b, sized |-> d, overlay |-> o, anim |-> x]
    PROVE  /\ l \in ClientType /\ l.listed = a /\ l.session = b /\ l.sized = d
           /\ l.overlay = o /\ l.anim = x
BY DEF ClientType

(* One client changes. *)
LEMMA OneClient ==
    ASSUME cli \in [Client -> ClientType], NEW c \in Client, NEW l \in ClientType,
           cli' = [cli EXCEPT ![c] = l], Moved(cli[c], l), l.anim.win = cli[c].anim.win
    PROVE  MovesTo({})
<1>1. cli' \in [Client -> ClientType] /\ \A e \in Client : cli'[e] = IF e = c THEN l ELSE cli[e]
  OBVIOUS
<1>2. \A e \in Client : Moved(cli[e], cli'[e]) /\ cli'[e].anim.win = cli[e].anim.win
  BY <1>1 DEF Moved
<1> QED
  BY <1>1, <1>2 DEF MovesTo, DrawsTo, ClientsChange

(* A field of a client is set, to a value of a name of its own.             *)
LEMMA ClientSized ==
    ASSUME NEW k \in ClientType, NEW t \in BOOLEAN, NEW l, l = [k EXCEPT !.sized = t]
    PROVE  /\ l \in ClientType /\ l.listed = k.listed /\ l.session = k.session /\ (t => l.sized)
           /\ l.overlay = k.overlay /\ l.anim = k.anim
<1> DEFINE k1 == k.listed
           k2 == k.session
           k3 == k.sized
           k4 == k.overlay
           k5 == k.anim
<1>1. /\ k1 \in BOOLEAN /\ k2 \in Session \cup {0} /\ k4 \in {"none", "animation", "other"}
      /\ k5 \in AnimationType
      /\ k = [listed |-> k1, session |-> k2, sized |-> k3, overlay |-> k4, anim |-> k5]
  BY ClientFields
<1> HIDE DEF k1, k2, k3, k4, k5
<1>2. l = [listed |-> k1, session |-> k2, sized |-> t, overlay |-> k4, anim |-> k5]
  BY <1>1
<1>3. /\ l \in ClientType /\ l.listed = k1 /\ l.session = k2 /\ l.sized = t
      /\ l.overlay = k4 /\ l.anim = k5
  BY <1>1, <1>2, ClientWith
<1> QED
  BY <1>3 DEF k1, k2, k4, k5

(* SetSize keeps the invariant. *)
LEMMA SetSizeStep ==
    ASSUME AnimationCore, NEW c \in Client, SetSize(c)
    PROVE  AnimationCore'
<1> DEFINE l == [cli[c] EXCEPT !.sized = TRUE]
<1>1. /\ agenda = <<>> /\ agenda' = <<>> /\ UNCHANGED <<ses, win, defer, fault>>
      /\ moves' \in 0 .. MaxMoves /\ cli' = [cli EXCEPT ![c] = l]
  BY TypeParts, MoveFacts DEF SetSize
<1>2. /\ l \in ClientType /\ l.listed = cli[c].listed /\ l.session = cli[c].session /\ l.sized
      /\ l.overlay = cli[c].overlay /\ l.anim = cli[c].anim
  <2>1. cli[c] \in ClientType /\ TRUE \in BOOLEAN
    BY TypeParts
  <2> QED
    BY <2>1, ClientSized
<1> HIDE DEF l
<1>3. Moved(cli[c], l) /\ l.anim.win = cli[c].anim.win
  BY <1>2 DEF Moved
<1>4. MovesTo({})
  BY <1>1, <1>2, <1>3, TypeParts, OneClient
<1>5. \A e \in Client : cli'[e].session # 0 => Alive(cli'[e].session)
  <2>1. \A e \in Client : cli'[e].session = cli[e].session
    BY <1>1, <1>2, TypeParts
  <2> QED
    BY <2>1, TypeParts, CurrentSplit
<1> QED
  BY <1>1, <1>4, <1>5, ClientsStep

(* SwitchClient keeps the invariant. *)
LEMMA SwitchClientStep ==
    ASSUME AnimationCore, NEW c \in Client, NEW s \in Session, SwitchClient(c, s)
    PROVE  AnimationCore'
<1> DEFINE k1 == cli[c].listed
           k2 == cli[c].session
           k3 == cli[c].sized
           k4 == cli[c].overlay
           k5 == cli[c].anim
           l == [cli[c] EXCEPT !.session = s]
<1>1. /\ agenda = <<>> /\ agenda' = <<>> /\ UNCHANGED <<ses, win, defer, fault>>
      /\ moves' \in 0 .. MaxMoves /\ cli' = [cli EXCEPT ![c] = l] /\ k1 /\ Alive(s)
  BY TypeParts, MoveFacts DEF SwitchClient, Attached
<1>2. /\ k1 \in BOOLEAN /\ k3 \in BOOLEAN /\ k4 \in {"none", "animation", "other"}
      /\ k5 \in AnimationType
      /\ cli[c] = [listed |-> k1, session |-> k2, sized |-> k3, overlay |-> k4, anim |-> k5]
  BY TypeParts, ClientFields
<1>3. l = [listed |-> k1, session |-> s, sized |-> k3, overlay |-> k4, anim |-> k5]
  <2> HIDE DEF k1, k2, k3, k4, k5
  <2> QED
    BY <1>2
<1>4. /\ l \in ClientType /\ l.listed = k1 /\ l.session = s /\ l.sized = k3
      /\ l.overlay = k4 /\ l.anim = k5
  <2> HIDE DEF k1, k2, k3, k4, k5, l
  <2> QED
    BY <1>2, <1>3, ClientWith
<1> HIDE DEF l
<1>5. Moved(cli[c], l) /\ l.anim.win = cli[c].anim.win
  BY <1>1, <1>4 DEF Moved
<1>6. MovesTo({})
  BY <1>1, <1>4, <1>5, TypeParts, OneClient
<1>7. \A e \in Client : cli'[e].session # 0 => Alive(cli'[e].session)
  <2>1. \A e \in Client : cli'[e].session = IF e = c THEN s ELSE cli[e].session
    BY <1>1, <1>4, TypeParts
  <2>2. \A e \in Client : cli[e].session # 0 => Alive(cli[e].session)
    BY TypeParts, CurrentSplit
  <2> SUFFICES ASSUME NEW e \in Client, cli'[e].session # 0 PROVE Alive(cli'[e].session)
    OBVIOUS
  <2>3. CASE e = c
    BY <1>1, <2>1, <2>3
  <2>4. CASE e # c
    BY <2>1, <2>2, <2>4
  <2> QED
    BY <2>3, <2>4
<1> QED
  BY <1>1, <1>6, <1>7, ClientsStep

(* The time of an animation is up. *)
LEMMA AnimationOver ==
    ASSUME NEW k \in ClientType, NEW t \in BOOLEAN, NEW l, l = [k EXCEPT !.anim.over = t]
    PROVE  /\ l \in ClientType /\ l.listed = k.listed /\ l.session = k.session /\ l.sized = k.sized
           /\ l.overlay = k.overlay /\ l.anim.kind = k.anim.kind /\ l.anim.win = k.anim.win
           /\ l.anim.defer = k.anim.defer
<1> DEFINE k1 == k.listed
           k2 == k.session
           k3 == k.sized
           k4 == k.overlay
           b == k.anim
           a1 == b.kind
           a2 == b.win
           a3 == b.defer
           a4 == b.over
           a == [b EXCEPT !.over = t]
<1>1. /\ k1 \in BOOLEAN /\ k2 \in Session \cup {0} /\ k3 \in BOOLEAN
      /\ k4 \in {"none", "animation", "other"}
      /\ a1 \in {"none", "slide", "panes", "picture"} /\ a2 \in Window \cup {0} /\ a3 \in Defer \cup {0}
      /\ k = [listed |-> k1, session |-> k2, sized |-> k3, overlay |-> k4, anim |-> b]
  BY ClientFields
<1>2. b = [kind |-> a1, win |-> a2, defer |-> a3, over |-> a4]
  <2>1. b \in AnimationType
    BY ClientFields
  <2> HIDE DEF b
  <2> QED
    BY <2>1 DEF AnimationType
<1>3. l = [k EXCEPT !.anim = a]
  OBVIOUS
<1> HIDE DEF k1, k2, k3, k4, a1, a2, a3, a4, b
<1>4. a = [kind |-> a1, win |-> a2, defer |-> a3, over |-> t]
  BY <1>2
<1> HIDE DEF a
<1>5. a \in AnimationType /\ a.kind = a1 /\ a.win = a2 /\ a.defer = a3
  BY <1>1, <1>4 DEF AnimationType
<1>6. l = [listed |-> k1, session |-> k2, sized |-> k3, overlay |-> k4, anim |-> a]
  BY <1>1, <1>3
<1>7. /\ l \in ClientType /\ l.listed = k1 /\ l.session = k2 /\ l.sized = k3
      /\ l.overlay = k4 /\ l.anim = a
  BY <1>1, <1>5, <1>6, ClientWith
<1> QED
  BY <1>5, <1>7 DEF k1, k2, k3, k4, a1, a2, a3, b

(* TimeUp keeps the invariant. *)
LEMMA TimeUpStep ==
    ASSUME AnimationCore, NEW c \in Client, TimeUp(c)
    PROVE  AnimationCore'
<1> DEFINE l == [cli[c] EXCEPT !.anim.over = TRUE]
<1>1. /\ agenda = <<>> /\ agenda' = <<>> /\ UNCHANGED <<ses, win, defer, fault>>
      /\ moves' \in 0 .. MaxMoves /\ cli' = [cli EXCEPT ![c] = l] /\ cli[c].anim.kind # "none"
  BY TypeParts DEF TimeUp, Quiet
<1>2. /\ l \in ClientType /\ l.listed = cli[c].listed /\ l.session = cli[c].session
      /\ l.sized = cli[c].sized /\ l.overlay = cli[c].overlay
      /\ l.anim.kind = cli[c].anim.kind /\ l.anim.win = cli[c].anim.win
      /\ l.anim.defer = cli[c].anim.defer
  <2>1. cli[c] \in ClientType /\ TRUE \in BOOLEAN
    BY TypeParts
  <2> QED
    BY <2>1, AnimationOver
<1> HIDE DEF l
<1>3. Moved(cli[c], l) /\ l.anim.win = cli[c].anim.win
  BY <1>1, <1>2 DEF Moved
<1>4. MovesTo({})
  BY <1>1, <1>2, <1>3, TypeParts, OneClient
<1>5. \A e \in Client : cli'[e].session # 0 => Alive(cli'[e].session)
  <2>1. \A e \in Client : cli'[e].session = cli[e].session
    BY <1>1, <1>2, TypeParts
  <2> QED
    BY <2>1, TypeParts, CurrentSplit
<1> QED
  BY <1>1, <1>4, <1>5, ClientsStep

----------------------------------------------------------------------------
(* The handlers that change the panes of a window.                          *)

WindowWith(a, b, c) == [panes |-> a, refs |-> b, noted |-> c]

(* The fields of a window. *)
LEMMA WindowFields ==
    ASSUME NEW k \in WindowType
    PROVE  /\ k.panes \in [PaneId -> PaneState] /\ k.refs \in Nat /\ k.noted \in Nat
           /\ k = WindowWith(k.panes, k.refs, k.noted)
BY DEF WindowType, WindowWith

(* A window with given fields. *)
LEMMA WindowWithFacts ==
    ASSUME NEW a \in [PaneId -> PaneState], NEW b \in Nat, NEW c \in Nat, NEW x, x = WindowWith(a, b, c)
    PROVE  x \in WindowType /\ x.panes = a /\ x.refs = b /\ x.noted = c
BY DEF WindowWith, WindowType

RefsSame == \A v \in Window : win'[v].refs = win[v].refs /\ win'[v].noted = win[v].noted

(* The pane p of window w becomes x. *)
PaneSet(w, p, x) ==
    /\ win' \in [Window -> WindowType] /\ RefsSame
    /\ \A v \in Window, r \in PaneId :
         win'[v].panes[r] = IF v = w /\ r = p THEN x ELSE win[v].panes[r]

(* One pane of one window changes. *)
LEMMA PaneSetFacts ==
    ASSUME win \in [Window -> WindowType], NEW w \in Window, NEW p \in PaneId, NEW x \in PaneState,
           win' = [win EXCEPT ![w].panes[p] = x]
    PROVE  PaneSet(w, p, x)
<1> DEFINE a == win[w].panes
           b == win[w].refs
           c == win[w].noted
           e == [a EXCEPT ![p] = x]
           y == WindowWith(e, b, c)
<1>1. a \in [PaneId -> PaneState] /\ b \in Nat /\ c \in Nat /\ win[w] = WindowWith(a, b, c)
  BY WindowFields
<1>2. win' = [win EXCEPT ![w] = [win[w] EXCEPT !.panes = e]]
  OBVIOUS
<1>3. e \in [PaneId -> PaneState] /\ \A r \in PaneId : e[r] = IF r = p THEN x ELSE a[r]
  BY <1>1
<1> HIDE DEF a, b, c, e
<1>4. [win[w] EXCEPT !.panes = e] = y
  BY <1>1 DEF WindowWith
<1> HIDE DEF y
<1>5. y \in WindowType /\ y.panes = e /\ y.refs = b /\ y.noted = c
  BY <1>1, <1>3, WindowWithFacts DEF y
<1>6. win' = [win EXCEPT ![w] = y]
  BY <1>2, <1>4
<1>7. win' \in [Window -> WindowType] /\ \A v \in Window : win'[v] = IF v = w THEN y ELSE win[v]
  BY <1>5, <1>6
<1>8. RefsSame
  BY <1>5, <1>7 DEF RefsSame, b, c
<1>9. ASSUME NEW v \in Window, NEW r \in PaneId
      PROVE  win'[v].panes[r] = IF v = w /\ r = p THEN x ELSE win[v].panes[r]
  <2>1. CASE v = w
    BY <1>3, <1>5, <1>7, <2>1 DEF a
  <2>2. CASE v # w
    BY <1>7, <2>2
  <2> QED
    BY <2>1, <2>2
<1> QED
  BY <1>7, <1>8, <1>9 DEF PaneSet

(* The panes a window has then. *)
LEMMA PanesAfter ==
    ASSUME NEW w \in Window, NEW p \in PaneId, NEW x, PaneSet(w, p, x), NEW v \in Window
    PROVE  /\ v # w => Panes(v)' = Panes(v)
           /\ v = w /\ x = "none" => Panes(v)' = Panes(w) \ {p}
           /\ v = w /\ x # "none" => Panes(v)' = Panes(w) \cup {p}
<1>1. \A r \in PaneId : win'[v].panes[r] = IF v = w /\ r = p THEN x ELSE win[v].panes[r]
  BY DEF PaneSet
<1>2. Panes(v)' = {r \in PaneId : win'[v].panes[r] # "none"} /\ Panes(v) = {r \in PaneId : win[v].panes[r] # "none"}
  BY DEF Panes
<1> QED
  BY <1>1, <1>2

(* No window that has lost its last pane is left without being killed. *)
LEMMA PanesSetKept ==
    ASSUME AnimationCore, agenda = <<>>, LinksSame, NEW w \in Window, NEW p \in PaneId, NEW x,
           PaneSet(w, p, x), x # "none" => HasRefs({w}), NoInvalidate(agenda'),
           x = "none" /\ Panes(w) = {p} => agenda' = <<Kill(w)>>
    PROVE  PanesKept'
<1>1. ASSUME NEW v \in Window
      PROVE  /\ win'[v].refs = 0 => Panes(v)' = {}
             /\ Linking(v)' # {} /\ Panes(v)' = {} => agenda' = <<Kill(v)>>
  <2>1. win'[v].refs = win[v].refs
    BY DEF PaneSet, RefsSame
  <2>2. /\ win[v].refs = 0 => Panes(v) = {}
        /\ Linking(v) # {} => Panes(v) # {}
    BY TypeParts DEF PanesKept
  <2>3. Linking(v)' = Linking(v)
    BY LinkingSame
  <2>4. CASE v # w
    BY <2>1, <2>2, <2>3, <2>4, PanesAfter
  <2>5. CASE v = w /\ x = "none"
    <3>1. Panes(v)' = Panes(w) \ {p}
      BY <2>5, PanesAfter
    <3> QED
      BY <2>1, <2>2, <2>3, <2>5, <3>1
  <2>6. CASE v = w /\ x # "none"
    <3>1. Panes(v)' = Panes(w) \cup {p}
      BY <2>6, PanesAfter
    <3>2. win[w].refs # 0
      BY <2>6, AnimationAssumption DEF HasRefs
    <3> QED
      BY <2>1, <2>6, <3>1, <3>2
  <2> QED
    BY <2>4, <2>5, <2>6
<1>2. ASSUME NEW v \in Window, agenda' = <<Kill(v)>>
      PROVE  /\ agenda' # <<>> /\ agenda'[1].op = "kill" /\ agenda'[1].win = v
             /\ Linking(v)' \subseteq agenda'[1].todo
  <2>1. Linking(v)' \subseteq Session
    BY DEF Linking
  <2> QED
    BY <1>2, <2>1 DEF Kill
<1>3. \A k \in DOMAIN agenda' : agenda'[k].op # "invalidate"
  BY DEF NoInvalidate
<1> QED
  BY <1>1, <1>2, <1>3 DEF PanesKept

(* Such a handler, but for what it does to the panes. *)
LEMMA PanesStep ==
    ASSUME AnimationCore, Quiescent, SessionsTurn(ses'), defer' = defer, fault' \in Faults,
           moves' \in 0 .. MaxMoves, win' \in [Window -> WindowType], RefsSame,
           NEW W \in SUBSET Window, ClientsMoved(cli', W), HasRefs(W),
           Calm(agenda'), Plain(agenda'), InOrder(agenda'), DefersNamed', PanesKept'
    PROVE  AnimationCore'
<1>1. MovesTo(W) /\ SameSessions /\ LinksSame /\ CurrentWindowLinked'
  BY MovedChange, TurnedSessions
<1>2. CarriersCounted'
  BY <1>1, TypeParts, CarriersKept DEF MovesTo, DrawsTo
<1>3. RefsCounted'
  <2>1. \A w \in Window : Cardinality(Occurrences(agenda', Unref(w)))
                            = Cardinality(Occurrences(agenda, Unref(w)))
    BY PendingQuiet DEF Quiescent, Calm
  <2> QED
    BY <1>1, <2>1, TypeParts, RefsKept DEF RefsSame
<1>4. DrawnKept'
  <2>1. /\ \A w \in Window : win[w].refs > 0 => win'[w].refs > 0
        /\ \A w \in W : w # 0 => win'[w].refs > 0
    BY DEF HasRefs, RefsSame
  <2> QED
    BY <1>1, <2>1, TypeParts, DrawnQuiet DEF Quiescent, MovesTo
<1>5. OverlaysOwned'
  BY <1>1, TypeParts, PlainStarted DEF MovesTo, DrawsTo
<1>6. TypesKept'
  BY <1>1, TypeParts DEF TypesKept, MovesTo, DrawsTo, Quiescent, SessionsTurn
<1> QED
  BY <1>1, <1>2, <1>3, <1>4, <1>5, <1>6 DEF AnimationCore

(* Sessions may stay as they are. *)
LEMMA SameTurn ==
    ASSUME AnimationCore, ses' = ses PROVE SessionsTurn(ses')
BY TypeParts, CurrentSplit DEF SessionsTurn

(* An agenda of a kill, or of nothing. *)
LEMMA KillAlone ==
    ASSUME NEW w \in Window, NEW q, q = <<Kill(w)>> \/ q = <<>>
    PROVE  q \in Seq(Work) /\ InOrder(q) /\ Calm(q) /\ Plain(q)
<1>1. CASE q = <<>>
  BY <1>1, EmptyAgenda
<1>2. CASE q = <<Kill(w)>>
  <2> DEFINE x == Kill(w)
  <2>1. x \in Work /\ x.op = "kill"
    BY WorkFacts DEF Kill
  <2> HIDE DEF x
  <2>2. q = <<x>>
    BY <1>2 DEF x
  <2>3. /\ q \in Seq(Work) /\ InOrder(q) /\ DOMAIN q = {1} /\ q[1] = x
    BY <2>1, <2>2, OneCall
  <2> QED
    BY <2>1, <2>3 DEF Calm, NoUnref, NoFinalize, NoInvalidate, Plain
<1> QED
  BY <1>1, <1>2

(* A pane goes, and with the last one its window. *)
LEMMA PaneGone ==
    ASSUME AnimationCore, CapturesOK, agenda = <<>>, UNCHANGED <<ses, defer>>, moves' \in 0 .. MaxMoves,
           NEW w \in Window, NEW p \in PaneId, NEW C, win[w].panes[p] # "none",
           PaneGoes(w, p, C, <<>>)
    PROVE  AnimationCore'
<1>1. win' = [win EXCEPT ![w].panes[p] = "none"]
  BY DEF PaneGoes
<1>2. \/ Panes(w) = {p} /\ agenda' = <<Kill(w)>> \o <<>> /\ UNCHANGED <<cli, fault>>
      \/ Panes(w) # {p} /\ agenda' = <<>> /\ LayoutChanges(C, w)
  BY DEF PaneGoes
<1>3. PaneSet(w, p, "none")
  <2>1. "none" \in PaneState
    BY DEF PaneState
  <2> QED
    BY <1>1, <2>1, TypeParts, PaneSetFacts
<1>4. HasRefs({w})
  <2>1. p \in Panes(w)
    BY DEF Panes
  <2> QED
    BY <2>1, PanesRef
<1>5. \/ Panes(w) = {p} /\ agenda' = <<Kill(w)>>
      \/ Panes(w) # {p} /\ agenda' = <<>>
  BY <1>2
<1>6. agenda' \in Seq(Work) /\ InOrder(agenda') /\ Calm(agenda') /\ Plain(agenda') /\ Quiescent
  BY <1>5, KillAlone DEF Quiescent
<1>7. ClientsMoved(cli', {w}) /\ fault' \in Faults
  BY <1>2, TypeParts, LayoutChanged, SameClients
<1>8. LinksSame
  BY DEF LinksSame
<1>9. PanesKept'
  BY <1>3, <1>5, <1>6, <1>8, PanesSetKept DEF Calm
<1>10. DefersNamed'
  <2>1. \A v \in Window, r \in PaneId : win'[v].panes[r] \in {win[v].panes[r], "none"}
    BY <1>3 DEF PaneSet
  <2> QED
    BY <1>6, <2>1, TypeParts, DefersKept DEF Calm
<1>11. win' \in [Window -> WindowType] /\ RefsSame /\ {w} \in SUBSET Window
  BY <1>3 DEF PaneSet
<1> QED
  BY <1>4, <1>6, <1>7, <1>9, <1>10, <1>11, PanesStep, SameTurn

(* KillPane keeps the invariant. *)
LEMMA KillPaneStep ==
    ASSUME AnimationCore, CapturesOK, NEW c \in Client, NEW w \in Window, NEW p \in PaneId, KillPane(c, w, p)
    PROVE  AnimationCore'
<1>1. /\ agenda = <<>> /\ moves' \in 0 .. MaxMoves /\ p \in Panes(w)
      /\ UNCHANGED <<ses, defer>>
  BY TypeParts, MoveFacts DEF KillPane
<1>2. CASE Panes(w) = {p}
  <2>1. agenda' = <<Kill(w)>> /\ UNCHANGED <<cli, win, fault>>
    BY <1>2 DEF KillPane
  <2>2. Kill(w) \in Work /\ Kill(w).op = "kill"
    BY WorkFacts DEF Kill
  <2> QED
    BY <1>1, <2>1, <2>2, PlainCall
<1>3. CASE Panes(w) # {p}
  <2>1. PaneGoes(w, p, {c}, <<>>)
    BY <1>3 DEF KillPane
  <2>2. win[w].panes[p] # "none"
    BY <1>1 DEF Panes
  <2> QED
    BY <1>1, <2>1, <2>2, PaneGone
<1> QED
  BY <1>2, <1>3

(* RespawnPane keeps the invariant. *)
LEMMA RespawnPaneStep ==
    ASSUME AnimationCore, NEW w \in Window, NEW p \in PaneId, RespawnPane(w, p)
    PROVE  AnimationCore'
<1>1. /\ agenda = <<>> /\ agenda' = <<>> /\ moves' \in 0 .. MaxMoves
      /\ UNCHANGED <<cli, ses, defer, fault>>
      /\ win[w].panes[p] = "closing" /\ Linking(w) # {}
      /\ win' = [win EXCEPT ![w].panes[p] = "revived"]
  BY TypeParts, MoveFacts DEF RespawnPane
<1>2. PaneSet(w, p, "revived")
  <2>1. "revived" \in PaneState
    BY DEF PaneState
  <2> QED
    BY <1>1, <2>1, TypeParts, PaneSetFacts
<1>3. HasRefs({w}) /\ LinksSame
  BY <1>1, PanesRef DEF LinksSame
<1>4. agenda' \in Seq(Work) /\ InOrder(agenda') /\ Calm(agenda') /\ Plain(agenda') /\ Quiescent
  BY <1>1, EmptyAgenda DEF Quiescent
<1>5. PanesKept'
  <2>1. "revived" # "none"
    OBVIOUS
  <2> QED
    BY <1>1, <1>2, <1>3, <1>4, <2>1, PanesSetKept DEF Calm
<1>6. DefersNamed'
  <2>1. ASSUME NEW v \in Window, NEW r \in PaneId
        PROVE  /\ win'[v].panes[r] \in {"closing", "revived"}
                    => \E d \in Defer : defer[d].win = v /\ defer[d].pane = r
               /\ win'[v].panes[r] = "running" => \A d \in Defer : defer[d].win # v \/ defer[d].pane # r
    <3>1. \/ win'[v].panes[r] = win[v].panes[r]
          \/ v = w /\ r = p /\ win'[v].panes[r] = "revived"
      BY <1>2 DEF PaneSet
    <3> QED
      BY <1>1, <3>1, TypeParts DEF DefersNamed
  <2>2. agenda' = agenda /\ defer' = defer
    BY <1>1
  <2>3. DefersNamed
    BY TypeParts
  <2> QED
    BY <2>1, <2>2, <2>3 DEF DefersNamed, Finalizing, Has
<1>7. win' \in [Window -> WindowType] /\ RefsSame
  BY <1>2 DEF PaneSet
<1>8. ClientsMoved(cli', {w}) /\ {w} \in SUBSET Window
  BY <1>1, TypeParts, SameClients
<1> QED
  BY <1>1, <1>3, <1>4, <1>5, <1>6, <1>7, <1>8, TypeParts, PanesStep, SameTurn

(* A window gets a pane. *)
LEMMA PaneAdded ==
    ASSUME AnimationCore, NEW w \in Window, agenda = <<>>, agenda' = <<>>, moves' \in 0 .. MaxMoves,
           UNCHANGED <<ses, defer>>, Linking(w) # {}, NewPane(w),
           ClientsMoved(cli', {w}), fault' \in Faults
    PROVE  AnimationCore'
<1>2. PICK p \in PaneId \ Panes(w) :
         /\ \A d \in Defer : defer[d].win # w \/ defer[d].pane # p
         /\ win' = [win EXCEPT ![w].panes[p] = "running"]
  BY DEF NewPane
<1>3. PaneSet(w, p, "running")
  <2>1. "running" \in PaneState
    BY DEF PaneState
  <2> QED
    BY <1>2, <2>1, TypeParts, PaneSetFacts
<1>4. HasRefs({w}) /\ LinksSame
  BY PanesRef DEF LinksSame
<1>5. agenda' \in Seq(Work) /\ InOrder(agenda') /\ Calm(agenda') /\ Plain(agenda') /\ Quiescent
  BY EmptyAgenda DEF Quiescent
<1>6. PanesKept'
  <2>1. "running" # "none"
    OBVIOUS
  <2> QED
    BY <1>3, <1>4, <1>5, <2>1, PanesSetKept DEF Calm
<1>7. DefersNamed'
  <2>1. ASSUME NEW v \in Window, NEW r \in PaneId
        PROVE  /\ win'[v].panes[r] \in {"closing", "revived"}
                    => \E d \in Defer : defer[d].win = v /\ defer[d].pane = r
               /\ win'[v].panes[r] = "running" => \A d \in Defer : defer[d].win # v \/ defer[d].pane # r
    <3>1. \/ win'[v].panes[r] = win[v].panes[r]
          \/ v = w /\ r = p /\ win'[v].panes[r] = "running"
      BY <1>3 DEF PaneSet
    <3> QED
      BY <1>2, <3>1, TypeParts DEF DefersNamed
  <2>2. agenda' = agenda /\ defer' = defer
    OBVIOUS
  <2>3. DefersNamed
    BY TypeParts
  <2> QED
    BY <2>1, <2>2, <2>3 DEF DefersNamed, Finalizing, Has
<1>8. win' \in [Window -> WindowType] /\ RefsSame /\ {w} \in SUBSET Window
  BY <1>3 DEF PaneSet
<1> QED
  BY <1>4, <1>5, <1>6, <1>7, <1>8, PanesStep, SameTurn

(* SplitWindow keeps the invariant. *)
LEMMA SplitWindowStep ==
    ASSUME AnimationCore, CapturesOK, NEW c \in Client, NEW w \in Window, SplitWindow(c, w)
    PROVE  AnimationCore'
<1>1. /\ agenda = <<>> /\ agenda' = <<>> /\ moves' \in 0 .. MaxMoves
      /\ UNCHANGED <<ses, defer>> /\ Linking(w) # {} /\ NewPane(w)
      /\ LayoutMoves({c}, w, Starting({c}, w))
  BY TypeParts, MoveFacts DEF SplitWindow
<1>2. ClientsMoved(cli', {w}) /\ fault' \in Faults
  BY <1>1, LayoutMoved
<1> QED
  BY <1>1, <1>2, PaneAdded

(* SplitFails keeps the invariant. *)
LEMMA SplitFailsStep ==
    ASSUME AnimationCore, CapturesOK, NEW c \in Client, NEW w \in Window, SplitFails(c, w)
    PROVE  AnimationCore'
<1>1. /\ agenda = <<>> /\ agenda' = <<>> /\ moves' \in 0 .. MaxMoves
      /\ UNCHANGED <<ses, defer>> /\ Linking(w) # {}
      /\ \/ LayoutChanges({c}, w) /\ UNCHANGED win
         \/ (NewPane(w) \/ UNCHANGED win) /\ UNCHANGED <<cli, fault>>
  BY TypeParts, MoveFacts DEF SplitFails
<1>2. ClientsMoved(cli', {w}) /\ fault' \in Faults
  BY <1>1, LayoutChanged, TypeParts, SameClients
<1>3. CASE NewPane(w)
  BY <1>1, <1>2, <1>3, PaneAdded
<1>4. CASE UNCHANGED win
  <2>1. HasRefs({w}) /\ Quiescent
    BY <1>1, PanesRef, EmptyAgenda DEF Quiescent
  <2> QED
    BY <1>1, <1>2, <1>4, <2>1, AnimatedStep
<1> QED
  BY <1>1, <1>3, <1>4

(* A window changes its counts. *)
CountsSet(w, b, c) ==
    /\ win' \in [Window -> WindowType]
    /\ \A v \in Window :
         /\ win'[v].panes = win[v].panes
         /\ win'[v].refs = IF v = w THEN b ELSE win[v].refs
         /\ win'[v].noted = IF v = w THEN c ELSE win[v].noted

(* One window gets other counts. *)
LEMMA CountsSetFacts ==
    ASSUME win \in [Window -> WindowType], NEW w \in Window, NEW b \in Nat, NEW c \in Nat,
           win' = [win EXCEPT ![w] = WindowWith(win[w].panes, b, c)]
    PROVE  CountsSet(w, b, c)
<1> DEFINE a == win[w].panes
           y == WindowWith(a, b, c)
<1>1. a \in [PaneId -> PaneState]
  BY WindowFields
<1>2. y \in WindowType /\ y.panes = a /\ y.refs = b /\ y.noted = c
  <2> HIDE DEF a
  <2> QED
    BY <1>1, WindowWithFacts
<1> HIDE DEF y
<1>3. win' = [win EXCEPT ![w] = y]
  BY DEF y
<1>4. win' \in [Window -> WindowType] /\ \A v \in Window : win'[v] = IF v = w THEN y ELSE win[v]
  BY <1>2, <1>3
<1> QED
  BY <1>2, <1>4 DEF CountsSet

(* Notified keeps the invariant. *)
LEMMA NotifiedStep ==
    ASSUME AnimationCore, NEW w \in Window, Notified(w)
    PROVE  AnimationCore'
<1> DEFINE x == Unref(w)
           n == win[w].noted
           b == win[w].refs
<1>1. /\ agenda = <<>> /\ agenda' = <<x>> /\ moves' \in 0 .. MaxMoves
      /\ UNCHANGED <<cli, ses, defer, fault>> /\ n > 0
      /\ win' = [win EXCEPT ![w].noted = n - 1]
  BY TypeParts DEF Notified, Quiet
<1>2. n \in Nat /\ n - 1 \in Nat /\ b \in Nat /\ win[w] = WindowWith(win[w].panes, b, n)
  <2>1. win[w] \in WindowType
    BY TypeParts
  <2> QED
    BY <1>1, <2>1, WindowFields
<1>3. CountsSet(w, b, n - 1)
  <2> DEFINE a == win[w].panes
             m == n - 1
  <2>1. win' = [win EXCEPT ![w] = [win[w] EXCEPT !.noted = m]] /\ win[w] = WindowWith(a, b, n)
    BY <1>1, <1>2
  <2>2. m \in Nat
    BY <1>2
  <2> HIDE DEF a, b, n, m
  <2>3. [win[w] EXCEPT !.noted = m] = WindowWith(a, b, m)
    BY <2>1 DEF WindowWith
  <2>4. win' = [win EXCEPT ![w] = WindowWith(win[w].panes, b, m)]
    BY <2>1, <2>3 DEF a
  <2>5. CountsSet(w, b, m)
    BY <1>2, <2>2, <2>4, TypeParts, CountsSetFacts
  <2> QED
    BY <2>5 DEF m
<1>4. x \in Work /\ x.op = "unref"
  BY WorkFacts DEF Unref
<1>5. /\ agenda' \in Seq(Work) /\ InOrder(agenda') /\ DOMAIN agenda' = {1} /\ agenda'[1] = x
  <2> HIDE DEF x
  <2> QED
    BY <1>1, <1>4, OneCall
<1>6. Plain(agenda') /\ NoFinalize(agenda') /\ NoInvalidate(agenda') /\ Quiescent
  BY <1>1, <1>4, <1>5 DEF Plain, NoFinalize, NoInvalidate, Quiescent
<1>7. MovesTo({}) /\ SameSessions /\ LinksSame
  BY <1>1, TypeParts, SameClients, MovedChange DEF LinksSame
<1>8. CarriersCounted'
  BY <1>1, <1>7, TypeParts, CarriersKept DEF MovesTo, DrawsTo
<1>9. DefersNamed'
  <2>1. \A v \in Window, r \in PaneId : win'[v].panes[r] \in {win[v].panes[r], "none"}
    BY <1>3 DEF CountsSet
  <2> QED
    BY <1>1, <1>6, <2>1, TypeParts, DefersKept
<1>10. RefsCounted'
  <2> SUFFICES ASSUME NEW v \in Window
      PROVE  win'[v].refs = Cardinality(Linking(v)') + win'[v].noted + Cardinality(Deferred(v)')
                            + Cardinality(Occurrences(agenda', Unref(v)))
    BY DEF RefsCounted, Unref
  <2>1. Linking(v)' = Linking(v) /\ Deferred(v)' = Deferred(v)
    BY <1>1, <1>7, LinkingSame DEF Deferred
  <2>2. win[v].refs = Cardinality(Linking(v)) + win[v].noted + Cardinality(Deferred(v))
                    + Cardinality(Occurrences(<<>>, Unref(v)))
    BY <1>1, TypeParts DEF RefsCounted
  <2>3. Cardinality(Occurrences(<<>>, Unref(v))) = 0
    BY NoOccurrences
  <2>4. Cardinality(Occurrences(agenda', Unref(v))) = IF v = w THEN 1 ELSE 0
    <3> DEFINE y == Unref(v)
               t == <<>>
    <3>1. x = y <=> v = w
      BY DEF Unref
    <3>2. agenda' = <<x>> \o t /\ t \in Seq(Work)
      BY <1>1
    <3>3. Cardinality(Occurrences(t, y)) = 0
      BY NoOccurrences
    <3> HIDE DEF x, y, t
    <3>4. CountedWith(agenda', x, t, y)
      BY <1>4, <3>2, OccurrencesPushed
    <3> QED
      BY <3>1, <3>3, <3>4 DEF CountedWith, y
  <2>5. win'[v].refs = win[v].refs /\ win'[v].noted = IF v = w THEN n - 1 ELSE win[v].noted
    BY <1>3 DEF CountsSet
  <2>6. Cardinality(Linking(v)) \in Nat /\ Cardinality(Deferred(v)) \in Nat
    <3>1. Linking(v) \in SUBSET Session /\ Deferred(v) \in SUBSET Defer
      BY DEF Linking, Deferred
    <3>2. IsFiniteSet(Session) /\ IsFiniteSet(Defer)
      BY AnimationAssumption, FS_CardinalityType, FS_Interval DEF Defer
    <3> QED
      BY <3>1, <3>2, FS_Subset, FS_CardinalityType
  <2> DEFINE l == Cardinality(Linking(v))
             f == Cardinality(Deferred(v))
  <2>7. /\ l \in Nat /\ f \in Nat /\ win[v].refs = l + win[v].noted + f + 0
        /\ Cardinality(Linking(v)') = l /\ Cardinality(Deferred(v)') = f
    BY <2>1, <2>2, <2>3, <2>6
  <2> HIDE DEF l, f
  <2>8. CASE v = w
    <3>1. win'[v].refs = b /\ win'[v].noted = n - 1 /\ b = l + n + f + 0
      BY <2>5, <2>7, <2>8
    <3> HIDE DEF b, n
    <3>2. b = l + (n - 1) + f + 1
      BY <1>2, <2>7, <3>1
    <3> QED
      BY <2>4, <2>7, <2>8, <3>1, <3>2
  <2>9. CASE v # w
    BY <2>4, <2>5, <2>7, <2>9
  <2> QED
    BY <2>8, <2>9
<1>11. PanesKept'
  <2>1. \A v \in Window : /\ win'[v].refs = 0 => win[v].refs = 0 /\ win'[v].panes = win[v].panes
                          /\ Linking(v) # {} => win'[v].panes = win[v].panes
    BY <1>3 DEF CountsSet
  <2> QED
    BY <1>1, <1>6, <1>7, <2>1, TypeParts, PanesQuiet
<1>12. DrawnKept'
  <2>1. \A v \in Window : win[v].refs > 0 => win'[v].refs > 0
    BY <1>3 DEF CountsSet
  <2> QED
    BY <1>1, <1>7, <2>1, TypeParts, DrawnQuiet DEF MovesTo
<1>13. OverlaysOwned'
  BY <1>6, <1>7, TypeParts, PlainStarted DEF MovesTo, DrawsTo
<1>14. CurrentWindowLinked'
  BY <1>1, <1>7, TypeParts, CurrentKept
<1>15. TypesKept'
  BY <1>1, <1>3, <1>5, TypeParts DEF TypesKept, CountsSet
<1> QED
  BY <1>5, <1>8, <1>9, <1>10, <1>11, <1>12, <1>13, <1>14, <1>15 DEF AnimationCore

----------------------------------------------------------------------------
(* A pane exits whose window is current: the sessions turn away from it.    *)

LEMMA StackLeft ==
    ASSUME NEW k \in SessionType, SessionOK(k), NEW w, NEW t, t = Without(k.lastw, {w}),
           NEW x, x = SessionWith(k.linked, k.curw, t)
    PROVE  x \in SessionType /\ x.linked = k.linked /\ x.curw = k.curw /\ SessionOK(x)
<1> DEFINE e == k.linked
<1>1. MayGo(k, w, e) /\ x = SessionWith(e, k.curw, t)
  BY DEF MayGo
<1> HIDE DEF e
<1>2. Leaves(k, e, x)
  BY <1>1, LeftFacts
<1> QED
  BY <1>2 DEF e, Leaves

(* A session with another stack. *)
LEMMA StackReplaced ==
    ASSUME NEW k \in SessionType, NEW q
    PROVE  [k EXCEPT !.lastw = q] = SessionWith(k.linked, k.curw, q)
<1> DEFINE a == k.linked
           b == k.curw
           c == k.lastw
<1>1. k = [linked |-> a, curw |-> b, lastw |-> c]
  BY SessionFields
<1>2. SessionWith(a, b, q) = [linked |-> a, curw |-> b, lastw |-> q]
  BY DEF SessionWith
<1> HIDE DEF a, b, c
<1>3. [k EXCEPT !.lastw = q] = SessionWith(a, b, q)
  BY <1>1, <1>2
<1> QED
  BY <1>3 DEF a, b

(* What the sessions and clients turn into, with the windows they turn to.  *)
Turned(t) ==
    /\ ClientsMoved(t.cli, Kept) /\ SessionsTurn(t.ses)
    /\ t.carriers = {c \in Client : /\ t.cli[c].listed /\ t.cli[c].anim.kind = "slide"
                                    /\ t.cli[c].anim.defer = 0}

(* Sessions turn to other windows of theirs, and their clients slide there. *)
LEMMA TurnAwayFacts ==
    ASSUME AnimationCore, NEW w \in Window, Deferring(w), NEW t, t = TurnAway(w)
    PROVE  Turned(t)
<1> DEFINE S == {s \in Session : ses[s].curw = w}
           to == [s \in S |-> Successor(s)]
           y == Slid(S, to)
           x == [s \in Session |->
                    IF s \in S
                    THEN [MadeCurrent(ses[s], to[s]) EXCEPT !.lastw = Without(@, {w})]
                    ELSE ses[s]]
<1>1. /\ t.ses = x /\ t.cli = y
      /\ t.carriers = {c \in Client : /\ y[c].listed /\ y[c].anim.kind = "slide" /\ y[c].anim.defer = 0}
  BY DEF TurnAway
<1>2. ASSUME NEW s \in S
      PROVE  /\ ses[s] \in SessionType /\ SessionOK(ses[s]) /\ ses[s].linked # {}
             /\ Successor(s) \in ses[s].linked
  <2>1. ses[s] \in SessionType /\ SessionOK(ses[s])
    BY TypeParts, CurrentSplit
  <2>2. Cardinality(ses[s].linked) > 1
    BY DEF Deferring
  <2>3. ses[s].linked # {}
    BY <2>2, FS_EmptySet
  <2> QED
    BY <2>1, <2>3, TypeParts, SuccessorFacts
<1>3. ClientsMoved(y, Kept)
  <2>1. ASSUME NEW s \in S PROVE Successor(s) \in Window /\ Successor(s) \in Kept
    <3>1. Successor(s) \in Kept
      BY <1>2, KeptFacts
    <3> QED
      BY <3>1 DEF Kept
  <2>2. to \in [S -> Window] /\ \A s \in S : to[s] \in Kept
    BY <2>1
  <2> HIDE DEF S, to
  <2> QED
    BY <2>2, TypeParts, SlidFacts
<1>4. ASSUME NEW s \in Session
      PROVE  x[s] \in SessionType /\ x[s].linked = ses[s].linked /\ SessionOK(x[s])
  <2>1. CASE s \in S
    <3> DEFINE m == MadeCurrent(ses[s], Successor(s))
               q == Without(m.lastw, {w})
               n == SessionWith(m.linked, m.curw, q)
    <3>1. m \in SessionType /\ m.linked = ses[s].linked /\ SessionOK(m)
      BY <1>2, <2>1, MadeCurrentFacts
    <3>2. x[s] = [m EXCEPT !.lastw = q]
      BY <2>1
    <3> HIDE DEF m, x
    <3>4. [m EXCEPT !.lastw = q] = n
      <4> HIDE DEF q
      <4> QED
        BY <3>1, StackReplaced
    <3>3. n \in SessionType /\ n.linked = m.linked /\ SessionOK(n)
      <4>1. q = Without(m.lastw, {w}) /\ n = SessionWith(m.linked, m.curw, q)
        OBVIOUS
      <4> HIDE DEF q, n
      <4>2. n \in SessionType /\ n.linked = m.linked /\ n.curw = m.curw /\ SessionOK(n)
        BY <3>1, <4>1, StackLeft
      <4> QED
        BY <4>2
    <3> HIDE DEF n, q
    <3> QED
      BY <3>1, <3>2, <3>3, <3>4
  <2>2. CASE s \notin S
    <3>1. x[s] = ses[s]
      BY <2>2
    <3> QED
      BY <3>1, TypeParts, CurrentSplit
  <2> QED
    BY <2>1, <2>2
<1>5. SessionsTurn(x)
  <2>1. x = [s \in Session |-> x[s]]
    OBVIOUS
  <2> HIDE DEF x
  <2>2. x \in [Session -> SessionType]
    BY <1>4, <2>1
  <2> QED
    BY <1>4, <2>2 DEF SessionsTurn
<1> HIDE DEF x, y
<1> QED
  BY <1>1, <1>3, <1>5 DEF Turned

(* Nobody carries the close: the window is killed at once. *)
LEMMA TurnedKill ==
    ASSUME AnimationCore, agenda = <<>>, UNCHANGED <<defer, fault>>, moves' \in 0 .. MaxMoves,
           NEW w \in Window, NEW p \in PaneId, win[w].panes[p] # "none",
           NEW t, Turned(t), ses' = t.ses, cli' = t.cli,
           win' = [win EXCEPT ![w].panes[p] = "none"], agenda' = <<Kill(w)>>
    PROVE  AnimationCore'
<1>1. ClientsMoved(cli', Kept) /\ SessionsTurn(ses')
  BY DEF Turned
<1>2. PaneSet(w, p, "none")
  <2>1. "none" \in PaneState
    BY DEF PaneState
  <2> QED
    BY <2>1, TypeParts, PaneSetFacts
<1>3. HasRefs(Kept) /\ Kept \in SUBSET Window
  BY KeptFacts DEF Kept
<1>4. agenda' \in Seq(Work) /\ InOrder(agenda') /\ Calm(agenda') /\ Plain(agenda') /\ Quiescent
  BY KillAlone DEF Quiescent
<1>5. LinksSame
  BY <1>1 DEF LinksSame, SessionsTurn
<1>6. PanesKept'
  BY <1>2, <1>4, <1>5, PanesSetKept DEF Calm
<1>7. DefersNamed'
  <2>1. \A v \in Window, r \in PaneId : win'[v].panes[r] \in {win[v].panes[r], "none"}
    BY <1>2 DEF PaneSet
  <2> QED
    BY <1>4, <2>1, TypeParts, DefersKept DEF Calm
<1>8. win' \in [Window -> WindowType] /\ RefsSame
  BY <1>2 DEF PaneSet
<1> QED
  BY <1>1, <1>3, <1>4, <1>6, <1>7, <1>8, TypeParts, PanesStep

(* A client carries what it carried, whatever it turned to. *)
LEMMA CarriersMoved ==
    ASSUME CarriersCounted, NEW y, \A c \in Client : Moved(cli[c], y[c]), NEW c \in Client
    PROVE  /\ y[c].anim.defer = cli[c].anim.defer
           /\ y[c].anim.defer \in Defer => y[c].anim.kind = "slide" /\ y[c].listed
<1>1. y[c].anim.defer = cli[c].anim.defer
  BY DEF Moved
<1>2. ASSUME y[c].anim.defer \in Defer PROVE y[c].anim.kind = "slide" /\ y[c].listed
  <2>1. cli[c].anim.kind = "slide" /\ cli[c].listed
    BY <1>1, <1>2 DEF CarriersCounted
  <2>2. y[c].anim.defer # 0
    BY <1>2, AnimationAssumption, FS_CardinalityType DEF Defer
  <2>3. Moved(cli[c], y[c])
    OBVIOUS
  <2> QED
    BY <2>1, <2>2, <2>3 DEF Moved
<1> QED
  BY <1>1, <1>2

(* There are as many deferred closes as clients, so one is free while some  *)
(* client carries none.                                                     *)
LEMMA FreeDefer ==
    ASSUME AnimationCore, agenda = <<>>, NEW e \in Client, cli[e].anim.defer = 0
    PROVE  \E d \in Defer : defer[d] = NoDefer
<1> SUFFICES ASSUME \A d \in Defer : defer[d] # NoDefer PROVE FALSE
  OBVIOUS
<1> DEFINE T == Client \ {e}
           f == [d \in Defer |-> CHOOSE c \in Client : cli[c].anim.defer = d]
<1>1. ASSUME NEW d \in Defer
      PROVE  f[d] \in Client /\ cli[f[d]].anim.defer = d
  <2>1. defer[d].pending # 0
    BY TypeParts DEF DefersNamed
  <2>2. Cardinality({c \in Client : cli[c].anim.defer = d}) # 0
    BY <2>1, TypeParts DEF CarriersCounted
  <2>3. {c \in Client : cli[c].anim.defer = d} # {}
    BY <2>2, FS_EmptySet
  <2> QED
    BY <2>3
<1>2. ASSUME NEW d \in Defer PROVE f[d] \in T
  <2>1. d # 0
    BY AnimationAssumption, FS_CardinalityType DEF Defer
  <2> QED
    BY <1>1, <2>1
<1>3. f \in [Defer -> T]
  BY <1>2
<1>4. /\ IsFiniteSet(Client) /\ IsFiniteSet(T) /\ IsFiniteSet(Defer)
      /\ Cardinality(T) = Cardinality(Client) - 1 /\ Cardinality(Defer) = Cardinality(Client)
      /\ Cardinality(Client) \in Nat
  <2>1. IsFiniteSet(Client)
    BY AnimationAssumption
  <2>2. Cardinality(Client) \in Nat
    BY <2>1, FS_CardinalityType
  <2>3. IsFiniteSet(T) /\ Cardinality(T) = Cardinality(Client) - 1
    BY <2>1, FS_RemoveElement
  <2>4. IsFiniteSet(Defer) /\ Cardinality(Defer) = Cardinality(Client)
    <3> DEFINE n == Cardinality(Client)
    <3>1. 1 \in Int /\ n \in Int /\ n \in Nat
      BY <2>2
    <3>2. Defer = 1 .. n
      BY DEF Defer
    <3> HIDE DEF n
    <3>3. IsFiniteSet(1 .. n) /\ Cardinality(1 .. n) = IF 1 > n THEN 0 ELSE n - 1 + 1
      BY <3>1, FS_Interval
    <3>4. Cardinality(1 .. n) = n
      BY <3>1, <3>3
    <3> QED
      BY <3>2, <3>3, <3>4 DEF n
  <2> QED
    BY <2>1, <2>2, <2>3, <2>4
<1>5. Cardinality(T) < Cardinality(Defer)
  BY <1>4
<1> HIDE DEF f, T
<1>6. \E a, b \in Defer : a # b /\ f[a] = f[b]
  BY <1>3, <1>4, <1>5, FS_PigeonHole
<1> QED
  BY <1>1, <1>6

(* An animation carries the close d. *)
LEMMA AnimationCarries ==
    ASSUME NEW k \in ClientType, NEW d \in Defer, NEW l, l = [k EXCEPT !.anim.defer = d]
    PROVE  /\ l \in ClientType /\ l.listed = k.listed /\ l.session = k.session /\ l.sized = k.sized
           /\ l.overlay = k.overlay /\ l.anim.kind = k.anim.kind /\ l.anim.win = k.anim.win
           /\ l.anim.defer = d
<1> DEFINE k1 == k.listed
           k2 == k.session
           k3 == k.sized
           k4 == k.overlay
           b == k.anim
           a1 == b.kind
           a2 == b.win
           a3 == b.defer
           a4 == b.over
           a == [b EXCEPT !.defer = d]
<1>1. /\ k1 \in BOOLEAN /\ k2 \in Session \cup {0} /\ k3 \in BOOLEAN
      /\ k4 \in {"none", "animation", "other"}
      /\ a1 \in {"none", "slide", "panes", "picture"} /\ a2 \in Window \cup {0} /\ a4 \in BOOLEAN
      /\ k = [listed |-> k1, session |-> k2, sized |-> k3, overlay |-> k4, anim |-> b]
  BY ClientFields
<1>2. b = [kind |-> a1, win |-> a2, defer |-> a3, over |-> a4]
  <2>1. b \in AnimationType
    BY ClientFields
  <2> HIDE DEF b
  <2> QED
    BY <2>1 DEF AnimationType
<1>3. l = [k EXCEPT !.anim = a]
  OBVIOUS
<1> HIDE DEF k1, k2, k3, k4, a1, a2, a3, a4, b
<1>4. a = [kind |-> a1, win |-> a2, defer |-> d, over |-> a4]
  BY <1>2
<1> HIDE DEF a
<1>5. a \in AnimationType /\ a.kind = a1 /\ a.win = a2 /\ a.defer = d
  BY <1>1, <1>4 DEF AnimationType
<1>6. l = [listed |-> k1, session |-> k2, sized |-> k3, overlay |-> k4, anim |-> a]
  BY <1>1, <1>3
<1>7. /\ l \in ClientType /\ l.listed = k1 /\ l.session = k2 /\ l.sized = k3
      /\ l.overlay = k4 /\ l.anim = a
  BY <1>1, <1>5, <1>6, ClientWith
<1> QED
  BY <1>5, <1>7 DEF k1, k2, k3, k4, a1, a2, b

(* The slides that carry the close d, the other clients as they turned.     *)
Carried(t, d) ==
    /\ cli' \in [Client -> ClientType]
    /\ \A c \in Client :
         /\ cli'[c].listed = t.cli[c].listed /\ cli'[c].session = t.cli[c].session
         /\ cli'[c].sized = t.cli[c].sized /\ cli'[c].overlay = t.cli[c].overlay
         /\ cli'[c].anim.kind = t.cli[c].anim.kind /\ cli'[c].anim.win = t.cli[c].anim.win
         /\ cli'[c].anim.defer = IF c \in t.carriers THEN d ELSE t.cli[c].anim.defer
         /\ c \notin t.carriers => cli'[c] = t.cli[c]

(* The carriers get the close d. *)
LEMMA CarriedFacts ==
    ASSUME NEW t, t.cli \in [Client -> ClientType], NEW d \in Defer,
           cli' = [c \in Client |-> IF c \in t.carriers THEN [t.cli[c] EXCEPT !.anim.defer = d]
                                                        ELSE t.cli[c]]
    PROVE  Carried(t, d)
<1>1. ASSUME NEW c \in Client
      PROVE  /\ cli'[c] \in ClientType
             /\ cli'[c].listed = t.cli[c].listed /\ cli'[c].session = t.cli[c].session
             /\ cli'[c].sized = t.cli[c].sized /\ cli'[c].overlay = t.cli[c].overlay
             /\ cli'[c].anim.kind = t.cli[c].anim.kind /\ cli'[c].anim.win = t.cli[c].anim.win
             /\ cli'[c].anim.defer = IF c \in t.carriers THEN d ELSE t.cli[c].anim.defer
             /\ c \notin t.carriers => cli'[c] = t.cli[c]
  <2> DEFINE k == t.cli[c]
             l == [k EXCEPT !.anim.defer = d]
  <2>1. k \in ClientType
    OBVIOUS
  <2>2. cli'[c] = IF c \in t.carriers THEN l ELSE k
    OBVIOUS
  <2>3. k = t.cli[c]
    OBVIOUS
  <2> HIDE DEF k
  <2>4. /\ l \in ClientType /\ l.listed = k.listed /\ l.session = k.session /\ l.sized = k.sized
        /\ l.overlay = k.overlay /\ l.anim.kind = k.anim.kind /\ l.anim.win = k.anim.win
        /\ l.anim.defer = d
    BY <2>1, AnimationCarries
  <2> HIDE DEF l
  <2>5. CASE c \in t.carriers
    <3>1. cli'[c] = l
      BY <2>2, <2>5
    <3> QED
      BY <2>3, <2>4, <2>5, <3>1
  <2>6. CASE c \notin t.carriers
    <3>1. cli'[c] = k
      BY <2>2, <2>6
    <3> QED
      BY <2>1, <2>3, <2>6, <3>1
  <2> QED
    BY <2>5, <2>6
<1>2. cli' = [c \in Client |-> cli'[c]]
  OBVIOUS
<1>3. cli' \in [Client -> ClientType]
  BY <1>1, <1>2
<1> QED
  BY <1>1, <1>3 DEF Carried

(* The new close counts its carriers. *)
LEMMA CarriedCounted ==
    ASSUME AnimationCore, agenda = <<>>, NEW t, Turned(t), NEW d \in Defer, defer[d] = NoDefer,
           Carried(t, d), NEW w, NEW p,
           defer' = [defer EXCEPT ![d] = [win |-> w, pane |-> p, pending |-> Cardinality(t.carriers)]]
    PROVE  CarriersCounted'
<1>1. \A c \in Client : Moved(cli[c], t.cli[c])
  BY DEF Turned, ClientsMoved, DrawnTo, MovedTo
<1>2. ASSUME NEW c \in Client
      PROVE  /\ t.cli[c].anim.defer = cli[c].anim.defer
             /\ t.cli[c].anim.defer \in Defer => t.cli[c].anim.kind = "slide" /\ t.cli[c].listed
  BY <1>1, TypeParts, CarriersMoved
<1>3. /\ t.carriers \subseteq Client
      /\ \A c \in t.carriers : /\ t.cli[c].listed /\ t.cli[c].anim.kind = "slide"
                               /\ t.cli[c].anim.defer = 0
  BY DEF Turned
<1>4. 0 \notin Defer
  BY AnimationAssumption, FS_CardinalityType DEF Defer
<1> SUFFICES ASSUME NEW e \in Defer
             PROVE  /\ defer'[e].pending = Cardinality({c \in Client : cli'[c].anim.defer = e})
                    /\ \A c \in Client : cli'[c].anim.defer = e =>
                         cli'[c].anim.kind = "slide" /\ cli'[c].listed
  BY DEF CarriersCounted
<1>5. ASSUME NEW c \in Client, cli'[c].anim.defer = e
      PROVE  cli'[c].anim.kind = "slide" /\ cli'[c].listed
  <2>1. CASE c \in t.carriers
    BY <1>3, <2>1 DEF Carried
  <2>2. CASE c \notin t.carriers
    BY <1>2, <1>5, <2>2 DEF Carried
  <2> QED
    BY <2>1, <2>2
<1>6. defer[e].pending = Cardinality({c \in Client : cli[c].anim.defer = e})
  BY TypeParts DEF CarriersCounted
<1>7. CASE e = d
  <2> DEFINE B == {c \in Client : cli[c].anim.defer = d}
  <2>1. B = {}
    <3>1. IsFiniteSet(Client) /\ B \in SUBSET Client
      BY AnimationAssumption
    <3>2. IsFiniteSet(B) /\ Cardinality(B) = 0
      BY <1>6, <1>7, <3>1, FS_Subset DEF NoDefer
    <3> HIDE DEF B
    <3> QED
      BY <3>2, FS_EmptySet
  <2>2. {c \in Client : cli'[c].anim.defer = d} = t.carriers
    <3>1. ASSUME NEW c \in Client PROVE cli'[c].anim.defer = d <=> c \in t.carriers
      <4>1. cli[c].anim.defer # d
        BY <2>1
      <4> QED
        BY <1>2, <4>1 DEF Carried
    <3> QED
      BY <1>3, <3>1
  <2>3. defer'[d].pending = Cardinality(t.carriers)
    BY TypeParts
  <2> QED
    BY <1>5, <1>7, <2>2, <2>3
<1>8. CASE e # d
  <2>1. ASSUME NEW c \in Client PROVE cli'[c].anim.defer = e <=> cli[c].anim.defer = e
    <3>1. CASE c \in t.carriers
      <4>1. cli'[c].anim.defer = d /\ cli[c].anim.defer = 0
        BY <1>2, <1>3, <3>1 DEF Carried
      <4> QED
        BY <1>4, <1>8, <4>1
    <3>2. CASE c \notin t.carriers
      BY <1>2, <3>2 DEF Carried
    <3> QED
      BY <3>1, <3>2
  <2>2. {c \in Client : cli'[c].anim.defer = e} = {c \in Client : cli[c].anim.defer = e}
    BY <2>1
  <2>3. defer'[e] = defer[e]
    BY <1>8, TypeParts
  <2> QED
    BY <1>5, <1>6, <2>2, <2>3
<1> QED
  BY <1>7, <1>8

(* Carrying a close changes nothing that is shown. *)
LEMMA CarriedOwned ==
    ASSUME AnimationCore, agenda = <<>>, agenda' = <<>>, NEW t, Turned(t), NEW d \in Defer, Carried(t, d)
    PROVE  OverlaysOwned'
<1> SUFFICES ASSUME NEW c \in Client PROVE Owns(cli'[c], c, <<>>)
  BY DEF OverlaysOwned
<1> DEFINE l == t.cli[c]
<1>1. Owns(l, c, <<>>)
  <2> DEFINE k == cli[c]
             r == <<>>
  <2>1. Owns(k, c, <<>>) /\ Moved(k, l)
    BY TypeParts DEF OverlaysOwned, Turned, ClientsMoved, DrawnTo, MovedTo
  <2>2. /\ r \in Seq(Work) /\ (\A i \in DOMAIN r : r[i].op \notin {"cleared", "picture"})
        /\ (Has(r, Clear(c)) => l.overlay # "none") /\ r = <<>>
        /\ (r # <<>> /\ r[1].op \in {"set", "lost"} /\ r[1].client = c => l.overlay = "none")
    BY EmptyAgenda
  <2> HIDE DEF k, l, r
  <2>3. Owns(l, c, r)
    BY <2>1, <2>2, OwnsStarted
  <2> QED
    BY <2>2, <2>3
<1>2. /\ cli'[c].listed = l.listed /\ cli'[c].session = l.session
      /\ cli'[c].sized = l.sized /\ cli'[c].overlay = l.overlay
      /\ cli'[c].anim.kind = l.anim.kind
      /\ c \notin t.carriers => cli'[c] = l
      /\ c \in t.carriers => l.anim.kind = "slide"
  BY DEF Carried, Turned
<1> HIDE DEF l
<1>3. cli'[c].anim.kind = "none" => cli'[c].anim = NoAnimation
  BY <1>1, <1>2 DEF Owns
<1> QED
  BY <1>1, <1>2, <1>3 DEF Owns

(* The pane waits to be closed, and the close has a reference. *)
PaneWaits(w, p) ==
    /\ win' \in [Window -> WindowType]
    /\ \A v \in Window :
         /\ win'[v].refs = IF v = w THEN win[v].refs + 1 ELSE win[v].refs
         /\ win'[v].noted = win[v].noted
         /\ \A r \in PaneId : win'[v].panes[r] = IF v = w /\ r = p THEN "closing" ELSE win[v].panes[r]

(* A window with other references and panes. *)
LEMMA WindowReplaced ==
    ASSUME NEW k \in WindowType, NEW m, NEW e
    PROVE  [k EXCEPT !.refs = m, !.panes = e] = WindowWith(e, m, k.noted)
<1> DEFINE a == k.panes
           b == k.refs
           c == k.noted
<1>1. k = [panes |-> a, refs |-> b, noted |-> c]
  BY WindowFields DEF WindowWith
<1> DEFINE x == [k EXCEPT !.refs = m]
<1>3. [k EXCEPT !.refs = m, !.panes = e] = [x EXCEPT !.panes = e]
  OBVIOUS
<1> HIDE DEF a, b, c
<1>4. x = [panes |-> a, refs |-> m, noted |-> c]
  BY <1>1
<1> HIDE DEF x
<1>5. [x EXCEPT !.panes = e] = [panes |-> e, refs |-> m, noted |-> c]
  BY <1>4
<1>2. [k EXCEPT !.refs = m, !.panes = e] = WindowWith(e, m, c)
  BY <1>3, <1>5 DEF WindowWith
<1> QED
  BY <1>2 DEF c

(* The pane waits to be closed. *)
LEMMA PaneWaitsFacts ==
    ASSUME win \in [Window -> WindowType], NEW w \in Window, NEW p \in PaneId,
           win' = [win EXCEPT ![w].refs = @ + 1, ![w].panes[p] = "closing"]
    PROVE  PaneWaits(w, p)
<1> DEFINE a == win[w].panes
           b == win[w].refs
           c == win[w].noted
           e == [a EXCEPT ![p] = "closing"]
           m == b + 1
           y == WindowWith(e, m, c)
           z == [win[w] EXCEPT !.refs = m, !.panes = e]
<1>1. a \in [PaneId -> PaneState] /\ b \in Nat /\ m \in Nat /\ c \in Nat /\ win[w] = WindowWith(a, b, c)
  BY WindowFields
<1>2. win' = [win EXCEPT ![w] = z]
  OBVIOUS
<1>3. e \in [PaneId -> PaneState] /\ \A r \in PaneId : e[r] = IF r = p THEN "closing" ELSE a[r]
  BY <1>1 DEF PaneState
<1>4. z = [win[w] EXCEPT !.refs = m, !.panes = e]
  OBVIOUS
<1> HIDE DEF e, m, z
<1>5. z = y
  BY <1>1, <1>4, WindowReplaced
<1> HIDE DEF a, b, c
<1> HIDE DEF y
<1>6. y \in WindowType /\ y.panes = e /\ y.refs = m /\ y.noted = c
  BY <1>1, <1>3, WindowWithFacts DEF y
<1>7. win' = [win EXCEPT ![w] = y]
  BY <1>2, <1>5
<1>8. win' \in [Window -> WindowType] /\ \A v \in Window : win'[v] = IF v = w THEN y ELSE win[v]
  BY <1>6, <1>7
<1>9. ASSUME NEW v \in Window
      PROVE  /\ win'[v].refs = IF v = w THEN win[v].refs + 1 ELSE win[v].refs
             /\ win'[v].noted = win[v].noted
             /\ \A r \in PaneId : win'[v].panes[r] = IF v = w /\ r = p THEN "closing" ELSE win[v].panes[r]
  <2>1. CASE v = w
    <3>1. win'[v] = y
      BY <1>8, <2>1
    <3> QED
      BY <1>3, <1>6, <2>1, <3>1 DEF a, b, c, m
  <2>2. CASE v # w
    BY <1>8, <2>2
  <2> QED
    BY <2>1, <2>2
<1> QED
  BY <1>8, <1>9 DEF PaneWaits

(* What references are counted for is finite. *)
LEMMA CardinalitiesNat ==
    ASSUME NEW w
    PROVE  /\ Cardinality(Linking(w)) \in Nat /\ Cardinality(Deferred(w)) \in Nat
           /\ IsFiniteSet(Linking(w)) /\ IsFiniteSet(Deferred(w))
<1>1. Linking(w) \in SUBSET Session /\ Deferred(w) \in SUBSET Defer
  BY DEF Linking, Deferred
<1>2. IsFiniteSet(Session) /\ IsFiniteSet(Defer)
  BY AnimationAssumption, FS_CardinalityType, FS_Interval DEF Defer
<1> QED
  BY <1>1, <1>2, FS_Subset, FS_CardinalityType

(* The close of a pane is left to the slides that are going. *)
LEMMA DeferCloseStep ==
    ASSUME AnimationCore, agenda = <<>>, agenda' = <<>>, fault' = fault, moves' \in 0 .. MaxMoves,
           NEW w \in Window, NEW p \in PaneId, win[w].panes[p] = "running",
           NEW t, Turned(t), t.carriers # {}, NEW d \in Defer, defer[d] = NoDefer,
           ses' = t.ses, Carried(t, d), PaneWaits(w, p),
           defer' = [defer EXCEPT ![d] = [win |-> w, pane |-> p, pending |-> Cardinality(t.carriers)]]
    PROVE  AnimationCore'
<1> DEFINE n == Cardinality(t.carriers)
           z == [win |-> w, pane |-> p, pending |-> n]
<1>1. t.carriers \in SUBSET Client /\ n \in Nat /\ n # 0
  <2>1. t.carriers \in SUBSET Client
    BY DEF Turned
  <2>2. IsFiniteSet(t.carriers)
    BY <2>1, AnimationAssumption, FS_Subset
  <2> QED
    BY <2>1, <2>2, FS_CardinalityType, FS_EmptySet
<1>2. /\ z.win = w /\ z.pane = p /\ z.pending = n /\ z \in DeferType
  BY <1>1 DEF DeferType
<1>3. defer' = [defer EXCEPT ![d] = z]
  OBVIOUS
<1> HIDE DEF n, z
<1>4. defer' \in [Defer -> DeferType] /\ \A e \in Defer : defer'[e] = IF e = d THEN z ELSE defer[e]
  BY <1>2, <1>3, TypeParts
<1>5. SessionsTurn(ses') /\ ClientsMoved(t.cli, Kept)
  BY DEF Turned
<1>6. SameSessions
  BY <1>5 DEF SameSessions, Carried, ClientsMoved, DrawnTo
<1>7. LinksSame /\ CurrentWindowLinked'
  BY <1>5, <1>6, TurnedSessions
<1>8. CarriersCounted'
  BY CarriedCounted
<1>9. OverlaysOwned'
  BY CarriedOwned
<1>10. w # 0 /\ p # 0
  BY AnimationAssumption DEF PaneId
<1>11. \A e \in Defer : defer[e].win # w \/ defer[e].pane # p
  BY TypeParts DEF DefersNamed
<1>12. DefersNamed'
  <2>1. ASSUME NEW e \in Defer
        PROVE  /\ defer'[e] # NoDefer => defer'[e].win # 0 /\ defer'[e].pane # 0
               /\ defer'[e].pending = 0 => defer'[e] = NoDefer
    <3>1. CASE e = d
      BY <1>1, <1>2, <1>4, <1>10, <3>1
    <3>2. CASE e # d
      BY <1>4, <3>2, TypeParts DEF DefersNamed
    <3> QED
      BY <3>1, <3>2
  <2>2. ASSUME NEW e \in Defer, NEW g \in Defer, defer'[e] # NoDefer,
               defer'[e].win = defer'[g].win, defer'[e].pane = defer'[g].pane
        PROVE  e = g
    <3>1. CASE e = d /\ g # d
      BY <1>2, <1>4, <1>11, <2>2, <3>1
    <3>2. CASE g = d /\ e # d
      BY <1>2, <1>4, <1>11, <2>2, <3>2
    <3>3. CASE g # d /\ e # d
      BY <1>4, <2>2, <3>3, TypeParts DEF DefersNamed
    <3> QED
      BY <3>1, <3>2, <3>3
  <2>3. ASSUME NEW v \in Window, NEW r \in PaneId
        PROVE  /\ win'[v].panes[r] \in {"closing", "revived"}
                    => \E e \in Defer : defer'[e].win = v /\ defer'[e].pane = r
               /\ win'[v].panes[r] = "running" => \A e \in Defer : defer'[e].win # v \/ defer'[e].pane # r
    <3>1. CASE v = w /\ r = p
      <4>1. win'[v].panes[r] = "closing"
        BY <3>1 DEF PaneWaits
      <4>2. defer'[d].win = v /\ defer'[d].pane = r
        BY <1>2, <1>4, <3>1
      <4> QED
        BY <4>1, <4>2
    <3>2. CASE ~(v = w /\ r = p)
      <4>1. win'[v].panes[r] = win[v].panes[r]
        BY <3>2 DEF PaneWaits
      <4>2. ASSUME NEW e \in Defer, defer[e].win = v, defer[e].pane = r
            PROVE  defer'[e].win = v /\ defer'[e].pane = r
        <5>1. v # 0
          BY AnimationAssumption
        <5>2. e # d
          BY <4>2, <5>1 DEF NoDefer
        <5> QED
          BY <1>4, <4>2, <5>2
      <4>3. ASSUME NEW e \in Defer, defer'[e].win = v, defer'[e].pane = r
            PROVE  defer[e].win = v /\ defer[e].pane = r
        <5>1. e # d
          BY <1>2, <1>4, <3>2, <4>3
        <5> QED
          BY <1>4, <4>3, <5>1
      <4>4. /\ win[v].panes[r] \in {"closing", "revived"}
                    => \E e \in Defer : defer[e].win = v /\ defer[e].pane = r
            /\ win[v].panes[r] = "running" => \A e \in Defer : defer[e].win # v \/ defer[e].pane # r
        BY TypeParts DEF DefersNamed
      <4> QED
        BY <4>1, <4>2, <4>3, <4>4
    <3> QED
      BY <3>1, <3>2
  <2>4. \A x : ~Has(agenda', x)
    BY EmptyAgenda
  <2> QED
    BY <2>1, <2>2, <2>3, <2>4 DEF DefersNamed
<1>13. RefsCounted'
  <2> SUFFICES ASSUME NEW v \in Window
      PROVE  win'[v].refs = Cardinality(Linking(v)') + win'[v].noted + Cardinality(Deferred(v)')
                            + Cardinality(Occurrences(agenda', Unref(v)))
    BY DEF RefsCounted, Unref
  <2>1. Linking(v)' = Linking(v)
    BY <1>7, LinkingSame
  <2>2. Deferred(v)' = IF v = w THEN Deferred(v) \cup {d} ELSE Deferred(v)
    <3>1. d \notin Deferred(v)
      BY AnimationAssumption DEF Deferred, NoDefer
    <3> QED
      BY <1>2, <1>4, <3>1 DEF Deferred
  <2>3. Cardinality(Deferred(v)') = IF v = w THEN Cardinality(Deferred(v)) + 1 ELSE Cardinality(Deferred(v))
    <3>1. d \notin Deferred(v)
      BY AnimationAssumption DEF Deferred, NoDefer
    <3> QED
      BY <2>2, <3>1, CardinalitiesNat, FS_AddElement
  <2> DEFINE l == Cardinality(Linking(v))
             f == Cardinality(Deferred(v))
             o == Cardinality(Occurrences(agenda', Unref(v)))
             b == win[v].refs
             c == win[v].noted
  <2>4. b = l + c + f + o /\ o = 0 /\ l \in Nat /\ f \in Nat
    <3>1. o = 0
      BY NoOccurrences
    <3> QED
      BY <3>1, TypeParts, CardinalitiesNat DEF RefsCounted
  <2>5. b \in Nat /\ c \in Nat
    BY TypeParts, WindowFields
  <2>6. win'[v].noted = c /\ win'[v].refs = IF v = w THEN b + 1 ELSE b
    BY DEF PaneWaits
  <2> HIDE DEF l, f, o, b, c
  <2>7. win'[v].refs = l + c + (IF v = w THEN f + 1 ELSE f) + o
    BY <2>4, <2>5, <2>6
  <2> QED
    BY <2>1, <2>3, <2>6, <2>7 DEF l, f, o
<1>14. PanesKept'
  <2> SUFFICES ASSUME NEW v \in Window
      PROVE  /\ win'[v].refs = 0 => Panes(v)' = {}
             /\ ~(Linking(v)' # {} /\ Panes(v)' = {})
    BY DEF PanesKept
  <2>1. Panes(v)' = Panes(v)
    <3>1. ASSUME NEW r \in PaneId PROVE win'[v].panes[r] # "none" <=> win[v].panes[r] # "none"
      BY DEF PaneWaits
    <3> QED
      BY <3>1 DEF Panes
  <2>2. Linking(v)' = Linking(v)
    BY <1>7, LinkingSame
  <2>3. win'[v].refs = 0 => win[v].refs = 0
    <3>1. win[v].refs \in Nat
      BY TypeParts, WindowFields
    <3> QED
      BY <3>1 DEF PaneWaits
  <2> QED
    BY <2>1, <2>2, <2>3, TypeParts DEF PanesKept
<1>15. DrawnKept'
  <2>1. DrawsTo(Kept)
    BY <1>5 DEF DrawsTo, Carried, ClientsMoved, DrawnTo, MovedTo
  <2>2. \A v \in Window : win[v].refs > 0 => win'[v].refs > 0
    <3> SUFFICES ASSUME NEW v \in Window, win[v].refs > 0 PROVE win'[v].refs > 0
      OBVIOUS
    <3>1. win[v].refs \in Nat
      BY TypeParts, WindowFields
    <3> QED
      BY <3>1 DEF PaneWaits
  <2>3. \A v \in Kept : v # 0 => win'[v].refs > 0
    BY <2>2 DEF Kept
  <2> QED
    BY <2>1, <2>2, <2>3, TypeParts, DrawnQuiet
<1>16. TypesKept'
  BY <1>4, <1>5, TypeParts, EmptyAgenda DEF TypesKept, Carried, PaneWaits, SessionsTurn
<1> QED
  BY <1>7, <1>8, <1>9, <1>12, <1>13, <1>14, <1>15, <1>16, EmptyAgenda DEF AnimationCore

(* PaneExits keeps the invariant. *)
LEMMA PaneExitsStep ==
    ASSUME AnimationCore, CapturesOK, NEW w \in Window, NEW p \in PaneId, PaneExits(w, p)
    PROVE  AnimationCore'
<1>1. /\ agenda = <<>> /\ moves' \in 0 .. MaxMoves /\ win[w].panes[p] = "running"
  BY TypeParts, MoveFacts DEF PaneExits
<1>2. CASE ~(Panes(w) = {p} /\ Deferring(w))
  <2>1. PaneGoes(w, p, Viewers(w), <<>>) /\ UNCHANGED <<ses, defer>>
    BY <1>2 DEF PaneExits
  <2>2. win[w].panes[p] # "none"
    BY <1>1
  <2> QED
    BY <1>1, <2>1, <2>2, PaneGone
<1>3. CASE Panes(w) = {p} /\ Deferring(w)
  <2> DEFINE t == TurnAway(w)
  <2>1. Turned(t)
    BY <1>3, TurnAwayFacts
  <2>2. CASE t.carriers # {}
    <3>1. DeferClose(w, p) /\ UNCHANGED <<agenda, fault>>
      BY <1>3, <2>2 DEF PaneExits
    <3> DEFINE d == CHOOSE e \in Defer : defer[e] = NoDefer
    <3>2. /\ ses' = t.ses
          /\ cli' = [c \in Client |-> IF c \in t.carriers
                                      THEN [t.cli[c] EXCEPT !.anim.defer = d] ELSE t.cli[c]]
          /\ defer' = [defer EXCEPT ![d] = [win |-> w, pane |-> p,
                                            pending |-> Cardinality(t.carriers)]]
          /\ win' = [win EXCEPT ![w].refs = @ + 1, ![w].panes[p] = "closing"]
      BY <3>1 DEF DeferClose
    <3> HIDE DEF t
    <3>3. d \in Defer /\ defer[d] = NoDefer
      <4>1. PICK c \in t.carriers : TRUE
        BY <2>2
      <4>2. c \in Client /\ t.cli[c].anim.defer = 0
        BY <2>1 DEF Turned
      <4>3. cli[c].anim.defer = 0
        BY <2>1, <4>2 DEF Turned, ClientsMoved, DrawnTo, MovedTo, Moved
      <4>4. \E e \in Defer : defer[e] = NoDefer
        BY <1>1, <4>2, <4>3, FreeDefer
      <4> QED
        BY <4>4
    <3> HIDE DEF d
    <3>4. Carried(t, d)
      <4>1. t.cli \in [Client -> ClientType]
        BY <2>1 DEF Turned, ClientsMoved
      <4> QED
        BY <3>2, <3>3, <4>1, CarriedFacts
    <3>5. PaneWaits(w, p)
      BY <3>2, TypeParts, PaneWaitsFacts
    <3> QED
      BY <1>1, <2>1, <2>2, <3>1, <3>2, <3>3, <3>4, <3>5, DeferCloseStep
  <2>3. CASE t.carriers = {}
    <3>1. /\ ses' = t.ses /\ cli' = t.cli
          /\ win' = [win EXCEPT ![w].panes[p] = "none"]
          /\ agenda' = <<Kill(w)>>
          /\ UNCHANGED <<defer, fault>>
      BY <1>3, <2>3 DEF PaneExits
    <3>2. win[w].panes[p] # "none"
      BY <1>1
    <3> HIDE DEF t
    <3> QED
      BY <1>1, <2>1, <3>1, <3>2, TurnedKill
  <2> QED
    BY <2>2, <2>3
<1> QED
  BY <1>2, <1>3

=============================================================================
