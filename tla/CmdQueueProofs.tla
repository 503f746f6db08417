--------------------------- MODULE CmdQueueProofs ---------------------------
(***************************************************************************)
(* The proofs that the command queues do what CmdQueue says of them, for   *)
(* any clients, channels and number of items.                              *)
(***************************************************************************)
EXTENDS CmdQueue, WaitForProofs, TailQueueProofs, FiniteSetTheorems

----------------------------------------------------------------------------
(* The inductive invariant, stated of an update st of the queues, so that it *)
(* can be followed through the several updates of one command.               *)

QueuedIn(st) == UNION {Range(st.queue[q]) : q \in Queue}

Shape(st) ==
    st \in [queue : [Queue -> Seq(Item)], info : [Item -> Info],
            refs : [Client -> Nat], dying : SUBSET Client, created : 0 .. MaxItems]

(* A queue holds items made for it, each once, and those that were inserted  *)
(* behind an appended item before the next one that was appended.            *)
InLine(st) ==
    \A q \in Queue : \A m \in DOMAIN st.queue[q] :
        LET i == st.queue[q][m] IN
        /\ i \in 1 .. st.created
        /\ st.info[i].queue = q
        /\ q \in Client => st.info[i].client = q
        /\ \A n \in DOMAIN st.queue[q] : m < n =>
             /\ i # st.queue[q][n]
             /\ st.info[i].root <= st.info[st.queue[q][n]].root

(* Two items may be of one group: they are of one list, and if they were not *)
(* queued together the list is kept.                                         *)
SameList(a, b) ==
    /\ a.nohooks = b.nohooks /\ a.stored = b.stored
    /\ a.firing # b.firing => a.stored

(* What is queued together is named after its first item and appended to one *)
(* queue.                                                                    *)
Grouped(st) ==
    \A i \in 1 .. st.created :
        /\ st.info[i].group <= i /\ st.info[i].firing <= i
        /\ st.info[i].root <= i
        /\ st.info[i].kind = "command" \/ st.info[i].stored => st.info[i].group # 0
        /\ st.info[i].kind = "done" => st.info[i].queue \in Client
        /\ \A j \in 1 .. st.created :
             /\ i < j /\ st.info[i].firing = st.info[j].firing =>
                  /\ st.info[i].queue = st.info[j].queue
                  /\ st.info[i].root < st.info[j].root
             /\ st.info[i].group = st.info[j].group /\ st.info[j].group # 0 =>
                  SameList(st.info[i], st.info[j])

(* What has fired is at the head of its queue, or gone from it; and what is  *)
(* still queued was not appended before it.                                  *)
Fires(st, F) ==
    /\ F \subseteq 1 .. st.created
    /\ \A q \in Queue : \A k \in DOMAIN st.queue[q] : st.queue[q][k] \in F => k = 1
    /\ \A j \in F, i \in QueuedIn(st) :
         st.info[i].queue = st.info[j].queue => st.info[i].root >= st.info[j].root

Good(st, F) == Shape(st) /\ InLine(st) /\ Grouped(st) /\ Fires(st, F)

HeldIn(st, c) == {i \in QueuedIn(st) : c \in Holds(st.info[i])}

(* References are exact, and a client that is on its way out has none.       *)
Counts(st, L, Z) ==
    /\ \A c \in Client :
         st.refs[c] = Cardinality(HeldIn(st, c)) + (IF c \in L THEN 1 ELSE 0)
    /\ \A c \in st.dying \cup Z : st.refs[c] = 0

(* p is st with a new item.                                                  *)
Placed(st, p, q, n, inf) ==
    LET i == st.created + 1 IN
    /\ Shape(p) /\ i \in Item
    /\ p.created = i
    /\ p.dying = st.dying
    /\ p.info[i] = [inf EXCEPT !.queue = q]
    /\ \A j \in Item : j # i => p.info[j] = st.info[j]
    /\ p.queue[q] = InsertBehind(st.queue[q], n, i)
    /\ \A r \in Queue : r # q => p.queue[r] = st.queue[r]
    /\ \A c \in Client : p.refs[c] = IF c \in Holds(inf) THEN st.refs[c] + 1 ELSE st.refs[c]

(* r is st without the items D, all of them queued in q.                     *)
Removed(st, r, q, D) ==
    /\ q \in Queue /\ D \subseteq Range(st.queue[q])
    /\ Shape(r)
    /\ r.created = st.created
    /\ r.info = st.info
    /\ r.queue[q] = Without(st.queue[q], D)
    /\ \A p \in Queue : p # q => r.queue[p] = st.queue[p]

(* A new item keeps the order of its queue.                                  *)
MayPlace(st, F, q, n, inf) ==
    /\ q \in Queue /\ n \in 0 .. Len(st.queue[q]) /\ inf \in Info
    /\ st.created < MaxItems
    /\ n = 0 => st.queue[q] = <<>>
    /\ q \in Client => inf.client = q
    /\ \A m \in 1 .. Len(st.queue[q]) :
         IF m <= n THEN st.info[st.queue[q][m]].root <= inf.root
                   ELSE inf.root <= st.info[st.queue[q][m]].root
    /\ inf.root <= st.created + 1 /\ inf.group <= st.created + 1
    /\ inf.firing <= st.created + 1
    /\ inf.kind = "command" \/ inf.stored => inf.group # 0
    /\ inf.kind = "done" => q \in Client
    /\ \A i \in 1 .. st.created :
         /\ st.info[i].firing = inf.firing => st.info[i].queue = q /\ st.info[i].root < inf.root
         /\ st.info[i].group = inf.group /\ inf.group # 0 => SameList(st.info[i], inf)
    /\ \A j \in F : st.info[j].queue = q => st.info[j].root <= inf.root

(* What has gone wrong or gone, in the terms of the model.                   *)
Outcomes ==
    /\ failed \subseteq fired
    /\ \A i \in failed : info[i].group # 0
    /\ ErrorEndsGroup
    /\ NothingLost

(* An item that waits has fired and is the head of its queue.                *)
Waits ==
    /\ job \subseteq fired
    /\ \A i \in Item : flag[i] # "ready" => i \in fired
    /\ \A i \in Item : Waiting(i) =>
         queue[info[i].queue] # <<>> /\ Head(queue[info[i].queue]) = i

Clients ==
    /\ running \in Queue \cup {Idle}
    /\ listed \subseteq Client /\ freed \subseteq Client /\ exiting \subseteq Client

QueueInv ==
    /\ WaitForInv
    /\ Clients
    /\ Good(State, fired)
    /\ Counts(State, listed, freed)
    /\ Waits
    /\ Outcomes

(* r is what one command makes of the queues: it has created items and       *)
(* removed the items D, and the queues of Q have kept their heads.           *)
Made(r, F, D, Q) ==
    /\ Good(r, F)
    /\ created <= r.created
    /\ \A i \in 1 .. created : r.info[i] = info[i]
    /\ \A i \in created + 1 .. r.created : r.info[i].firing > created
    /\ QueuedIn(r) = (Live \cup (created + 1 .. r.created)) \ D
    /\ \A q \in Q : queue[q] # <<>> =>
         r.queue[q] # <<>> /\ Head(r.queue[q]) = Head(queue[q])

(* And the references are exact.                                             *)
After(r, F, D, Q) == Made(r, F, D, Q) /\ Counts(r, listed, freed)

(* No item but i starts to wait, or gets an answer that it did not wait for. *)
OnlyWakes(i) ==
    \A j \in Item \ {i} :
        /\ flag'[j] = "waiting" => flag[j] = "waiting"
        /\ flag'[j] # "ready" => flag[j] # "ready"

(* The error of item i takes item j with it. *)
Took(i, j) ==
    /\ info[i].group = info[j].group /\ info[i].queue = info[j].queue
    /\ \/ info[i].firing = info[j].firing /\ i < j
       \/ info[i].firing # info[j].firing /\ info[i].stored /\ info[j].stored

(* The step lets the items of F have fired: what it removes (D) has fired or *)
(* belongs to a group that failed, and what waits is in the queues of Q.     *)
Kept(F, D, Q) ==
    /\ fired' = F /\ fired \subseteq F /\ F \subseteq 1 .. created
    /\ D \subseteq Live /\ Q \subseteq Queue
    /\ Clients' /\ WaitForInv'
    /\ job' \subseteq F
    /\ \A i \in Item : flag'[i] # "ready" => i \in F
    /\ \A i \in Item : flag'[i] = "waiting" \/ i \in job' =>
         /\ i \in F /\ info[i].queue \in Q
         /\ queue[info[i].queue] # <<>> /\ Head(queue[info[i].queue]) = i
    /\ failed \subseteq failed' /\ failed' \subseteq F
    /\ \A i \in failed' : info[i].group # 0
    /\ \A i \in failed', j \in 1 .. created :
         i < j /\ info[i].group = info[j].group /\ info[i].firing = info[j].firing =>
           j \notin F /\ (j \in Live => j \in D)
    /\ \A j \in D : j \in F \/ \E i \in failed' : Took(i, j)

----------------------------------------------------------------------------
(* The types of what a well-formed state of the queues is made of. *)
LEMMA ShapeFacts ==
    ASSUME NEW st, Shape(st)
    PROVE  /\ st.created \in Nat /\ st.created <= MaxItems /\ MaxItems \in Nat
           /\ 1 .. st.created \subseteq Item
           /\ st.info \in [Item -> Info] /\ st.refs \in [Client -> Nat]
           /\ \A i \in Item : /\ st.info[i] \in Info
                              /\ st.info[i].root \in Nat /\ st.info[i].group \in Nat
                              /\ st.info[i].firing \in Nat /\ st.info[i].about \in Queue
                              /\ st.info[i].queue \in Queue /\ st.info[i].client \in Queue
           /\ \A q \in Queue : /\ st.queue[q] \in Seq(Item)
                               /\ DOMAIN st.queue[q] = 1 .. Len(st.queue[q])
                               /\ Len(st.queue[q]) \in Nat
                               /\ \A m \in 1 .. Len(st.queue[q]) : st.queue[q][m] \in Item
           /\ st.dying \subseteq Client
           /\ st.queue \in [Queue -> Seq(Item)]
<1>1. /\ st.queue \in [Queue -> Seq(Item)] /\ st.info \in [Item -> Info]
      /\ st.refs \in [Client -> Nat] /\ st.dying \subseteq Client
      /\ st.created \in 0 .. MaxItems
  BY DEF Shape
<1>2. ASSUME NEW i \in Item
      PROVE  /\ st.info[i] \in Info
             /\ st.info[i].root \in Nat /\ st.info[i].group \in Nat
             /\ st.info[i].firing \in Nat /\ st.info[i].about \in Queue
             /\ st.info[i].queue \in Queue /\ st.info[i].client \in Queue
  <2>1. st.info[i] \in Info
    BY <1>1
  <2>2. MaxItems \in Nat
    BY CmdQueueAssumption
  <2> QED
    BY ONLY <2>1, <2>2 DEF Info
<1>3. \A q \in Queue : st.queue[q] \in Seq(Item)
  BY <1>1
<1> QED
  BY <1>1, <1>2, <1>3, CmdQueueAssumption

(* An item is queued if and only if it has a place in some queue. *)
LEMMA QueuedAt ==
    ASSUME NEW st, Shape(st)
    PROVE  \A i : i \in QueuedIn(st) <=>
             \E q \in Queue : \E m \in 1 .. Len(st.queue[q]) : st.queue[q][m] = i
  BY ShapeFacts DEF QueuedIn, Range

(* The items in the queues, and those that hold a client, are finitely many. *)
LEMMA QueuedFinite ==
    ASSUME NEW st, Shape(st), InLine(st)
    PROVE  /\ QueuedIn(st) \subseteq 1 .. st.created
           /\ \A i \in QueuedIn(st) : i \in Item
           /\ \A c : IsFiniteSet(HeldIn(st, c)) /\ Cardinality(HeldIn(st, c)) \in Nat
           /\ \A c : (\E i \in QueuedIn(st) : c \in Holds(st.info[i])) <=>
                       Cardinality(HeldIn(st, c)) # 0
<1>1. QueuedIn(st) \subseteq 1 .. st.created
  BY ShapeFacts, QueuedAt DEF InLine
<1>2. IsFiniteSet(1 .. st.created)
  <2>1. 1 \in Int /\ st.created \in Int
    BY ShapeFacts
  <2> QED
    BY <2>1, FS_Interval
<1>3. \A c : HeldIn(st, c) \subseteq 1 .. st.created
  BY <1>1 DEF HeldIn
<1>4. \A c : IsFiniteSet(HeldIn(st, c))
  BY <1>2, <1>3, FS_Subset
<1>5. \A c : Cardinality(HeldIn(st, c)) \in Nat
  BY <1>4, FS_CardinalityType
<1>6. \A c : Cardinality(HeldIn(st, c)) = 0 <=> HeldIn(st, c) = {}
  BY <1>4, FS_EmptySet
<1> QED
  BY <1>1, <1>4, <1>5, <1>6, ShapeFacts DEF HeldIn

(* Place puts a new item behind the n-th of a queue. *)
LEMMA PlaceIs ==
    ASSUME NEW st, Shape(st), NEW q \in Queue, NEW n \in 0 .. Len(st.queue[q]),
           NEW inf \in Info, st.created < MaxItems
    PROVE  Placed(st, Place(st, q, n, inf), q, n, inf)
<1> DEFINE i == st.created + 1
           s == InsertBehind(st.queue[q], n, i)
           f == [inf EXCEPT !.queue = q]
           p == Place(st, q, n, inf)
<1>1. i \in Item /\ i \in 0 .. MaxItems
  BY ShapeFacts, CmdQueueAssumption
<1>2. s \in Seq(Item)
  BY <1>1, ShapeFacts, InsertBehindFacts
<1>3. f \in Info
  BY DEF Info
<1> DEFINE new == [st EXCEPT !.created = i, !.info[i] = f, !.queue[q] = s]
<1>4. /\ new.created = i /\ new.dying = st.dying /\ new.refs = st.refs
      /\ new.info = [st.info EXCEPT ![i] = f]
      /\ new.queue = [st.queue EXCEPT ![q] = s]
      /\ new \in [queue : [Queue -> Seq(Item)], info : [Item -> Info],
                  refs : [Client -> Nat], dying : SUBSET Client, created : 0 .. MaxItems]
  BY <1>1, <1>2, <1>3 DEF Shape
<1> DEFINE r == [c \in Client |-> IF c \in Holds(inf)
                                  THEN st.refs[c] + 1 ELSE st.refs[c]]
<1>5. r \in [Client -> Nat]
  BY ShapeFacts
<1>6. p = [new EXCEPT !.refs = r]
  BY <1>4 DEF Place, Take
<1> HIDE DEF new, p, s, f
<1>7. /\ p.created = i /\ p.dying = st.dying
      /\ p.info = [st.info EXCEPT ![i] = f]
      /\ p.queue = [st.queue EXCEPT ![q] = s]
      /\ p.refs = r
      /\ Shape(p)
  BY <1>4, <1>5, <1>6 DEF Shape
<1>9. \A c \in Client : p.refs[c] = IF c \in Holds(inf) THEN st.refs[c] + 1 ELSE st.refs[c]
  BY <1>7
<1>10. st.info \in [Item -> Info] /\ st.queue \in [Queue -> Seq(Item)]
  BY ShapeFacts
<1> HIDE DEF r
<1> QED
  BY <1>1, <1>7, <1>9, <1>10 DEF Placed, p, s, f

(* What a new item changes, and what it leaves alone. *)
LEMMA PlacedFacts ==
    ASSUME NEW st, NEW p, NEW q, NEW n, NEW inf, NEW F,
           Shape(st), MayPlace(st, F, q, n, inf), Placed(st, p, q, n, inf)
    PROVE  /\ Shape(p) /\ q \in Queue /\ n \in 0 .. Len(st.queue[q])
           /\ p.created = st.created + 1 /\ p.created \in Item /\ p.created \in Nat
           /\ p.dying = st.dying
           /\ p.info[p.created].queue = q
           /\ p.info[p.created].root = inf.root
           /\ p.info[p.created].group = inf.group
           /\ p.info[p.created].kind = inf.kind
           /\ p.info[p.created].client = inf.client
           /\ Holds(p.info[p.created]) = Holds(inf)
           /\ p.info[p.created].firing = inf.firing
           /\ p.info[p.created].stored = inf.stored
           /\ p.info[p.created].nohooks = inf.nohooks
           /\ inf.firing \in Nat
           /\ p.created \in 1 .. p.created
           /\ inf.root \in Nat /\ inf.group \in Nat
           /\ \A j \in 1 .. st.created :
                p.info[j] = st.info[j] /\ j # p.created /\ j \in 1 .. p.created
           /\ \A j \in 1 .. p.created : j \in 1 .. st.created \/ j = p.created
           /\ \A r \in Queue : r # q => p.queue[r] = st.queue[r]
<1>1. /\ Shape(p) /\ q \in Queue /\ n \in 0 .. Len(st.queue[q]) /\ inf \in Info
      /\ p.created = st.created + 1 /\ p.created \in Item
      /\ p.dying = st.dying
      /\ p.queue[q] = InsertBehind(st.queue[q], n, p.created)
      /\ \A r \in Queue : r # q => p.queue[r] = st.queue[r]
      /\ p.info[p.created] = [inf EXCEPT !.queue = q]
      /\ \A j \in Item : j # p.created => p.info[j] = st.info[j]
  BY DEF Placed, MayPlace
<1>2. st.queue[q] \in Seq(Item) /\ st.created \in Nat /\ 1 .. st.created \subseteq Item
  BY <1>1, ShapeFacts
<1>3. /\ p.created \in Nat
      /\ \A j \in 1 .. st.created : j # p.created /\ j \in 1 .. p.created
      /\ \A j \in 1 .. p.created : j \in 1 .. st.created \/ j = p.created
      /\ p.created \in 1 .. p.created
  BY <1>1, <1>2
<1>4. \A j \in 1 .. st.created : p.info[j] = st.info[j]
  BY <1>1, <1>2, <1>3
<1>5. /\ p.info[p.created].queue = q
      /\ p.info[p.created].root = inf.root
      /\ p.info[p.created].group = inf.group
      /\ p.info[p.created].kind = inf.kind
      /\ p.info[p.created].client = inf.client
      /\ p.info[p.created].firing = inf.firing
      /\ p.info[p.created].stored = inf.stored
      /\ p.info[p.created].nohooks = inf.nohooks
      /\ p.info[p.created].about = inf.about
      /\ inf.root \in Nat /\ inf.group \in Nat /\ inf.firing \in Nat
  BY <1>1 DEF Info
<1>6. Holds(p.info[p.created]) = Holds(inf)
  BY ONLY <1>5 DEF Holds
<1> QED
  BY <1>1, <1>2, <1>3, <1>4, <1>5, <1>6

(* The queue with the new item in it, place by place. *)
LEMMA PlacedAt ==
    ASSUME NEW st, NEW p, NEW q, NEW n, NEW inf, NEW F,
           Shape(st), MayPlace(st, F, q, n, inf), Placed(st, p, q, n, inf)
    PROVE  /\ p.queue[q] \in Seq(Item) /\ st.queue[q] \in Seq(Item)
           /\ Len(p.queue[q]) = Len(st.queue[q]) + 1
           /\ Range(p.queue[q]) = Range(st.queue[q]) \cup {p.created}
           /\ \A m \in 1 .. Len(st.queue[q]) + 1 : p.queue[q][m] =
                IF m <= n THEN st.queue[q][m]
                ELSE IF m = n + 1 THEN p.created ELSE st.queue[q][m - 1]
<1>1. /\ q \in Queue /\ n \in 0 .. Len(st.queue[q]) /\ p.created \in Item
      /\ p.queue[q] = InsertBehind(st.queue[q], n, p.created)
  BY DEF Placed, MayPlace
<1>2. st.queue[q] \in Seq(Item)
  BY <1>1, ShapeFacts
<1>3. /\ p.queue[q] \in Seq(Item)
      /\ Len(p.queue[q]) = Len(st.queue[q]) + 1
      /\ Range(p.queue[q]) = Range(st.queue[q]) \cup {p.created}
      /\ \A m \in 1 .. Len(st.queue[q]) + 1 : p.queue[q][m] =
           IF m <= n THEN st.queue[q][m]
           ELSE IF m = n + 1 THEN p.created ELSE st.queue[q][m - 1]
  <2> DEFINE s == st.queue[q]
             x == p.created
             t == p.queue[q]
  <2>1. s \in Seq(Item) /\ x \in Item /\ n \in 0 .. Len(s) /\ t = InsertBehind(s, n, x)
    BY <1>1, <1>2
  <2> HIDE DEF s, x, t
  <2>2. /\ t \in Seq(Item) /\ Len(t) = Len(s) + 1 /\ Range(t) = Range(s) \cup {x}
        /\ \A m \in 1 .. Len(s) + 1 :
             t[m] = IF m <= n THEN s[m] ELSE IF m = n + 1 THEN x ELSE s[m - 1]
    <3> DEFINE u == InsertBehind(s, n, x)
    <3>1. u \in Seq(Item) /\ Len(u) = Len(s) + 1
      BY <2>1, InsertBehindFacts
    <3>2. Range(u) = Range(s) \cup {x}
      BY <2>1, InsertBehindFacts
    <3>0. s \in Seq(Item) /\ x \in Item /\ n \in 0 .. Len(s)
      BY <2>1
    <3>3. /\ \A m \in 1 .. n : u[m] = s[m]
          /\ u[n + 1] = x
          /\ \A m \in n + 2 .. Len(s) + 1 : u[m] = s[m - 1]
      <4>1. \A m \in 1 .. n : u[m] = s[m]
        BY <3>0, InsertBehindFacts
      <4>2. u[n + 1] = x
        BY <3>0, InsertBehindFacts
      <4>3. \A m \in n + 2 .. Len(s) + 1 : u[m] = s[m - 1]
        BY <3>0, InsertBehindFacts
      <4> QED
        BY <4>1, <4>2, <4>3
    <3> HIDE DEF u
    <3>4. t = u
      BY <2>1 DEF u
    <3>5. \A m \in 1 .. Len(s) + 1 :
            u[m] = IF m <= n THEN s[m] ELSE IF m = n + 1 THEN x ELSE s[m - 1]
      BY <2>1, <3>3
    <3> QED
      BY <3>1, <3>2, <3>4, <3>5
  <2> QED
    BY <2>2, Zenon DEF s, x, t
<1> QED
  BY <1>2, <1>3

(* A new item is queued besides the others. *)
LEMMA PlacedQueued ==
    ASSUME NEW st, NEW p, NEW q, NEW n, NEW inf, NEW F,
           Shape(st), InLine(st), MayPlace(st, F, q, n, inf), Placed(st, p, q, n, inf)
    PROVE  /\ QueuedIn(p) = QueuedIn(st) \cup {p.created}
           /\ p.created \notin QueuedIn(st)
           /\ \A r \in Queue : st.queue[r] # <<>> =>
                p.queue[r] # <<>> /\ Head(p.queue[r]) = Head(st.queue[r])
<1> DEFINE i == p.created
           s == st.queue[q]
           t == p.queue[q]
<1>1. /\ Shape(p) /\ i \in Item /\ q \in Queue
      /\ s \in Seq(Item) /\ n \in 0 .. Len(s)
      /\ \A r \in Queue : r # q => p.queue[r] = st.queue[r]
  BY PlacedFacts, PlacedAt
<1>2. /\ Len(t) = Len(s) + 1
      /\ \A m \in 1 .. Len(s) + 1 :
           t[m] = IF m <= n THEN s[m] ELSE IF m = n + 1 THEN i ELSE s[m - 1]
      /\ Range(t) = Range(s) \cup {i}
      /\ t \in Seq(Item)
  <2>1. /\ Len(t) = Len(s) + 1 /\ t \in Seq(Item)
        /\ \A m \in 1 .. Len(s) + 1 :
             t[m] = IF m <= n THEN s[m] ELSE IF m = n + 1 THEN i ELSE s[m - 1]
    BY PlacedAt
  <2>2. Range(t) = Range(s) \cup {i}
    <3> HIDE DEF t, s, i
    <3>1. t = InsertBehind(s, n, i)
      BY DEF Placed, t, s, i
    <3>2. s \in Seq(Item) /\ n \in 0 .. Len(s) /\ i \in Item
      BY <1>1
    <3>3. Range(InsertBehind(s, n, i)) = Range(s) \cup {i}
      BY <3>2, InsertBehindFacts
    <3> QED
      BY <3>1, <3>3
  <2> QED
    BY <2>1, <2>2
<1>3. QueuedIn(p) = QueuedIn(st) \cup {i}
  <2> HIDE DEF i, s, t
  <2>1. ASSUME NEW x \in QueuedIn(p) PROVE x \in QueuedIn(st) \cup {i}
    <3>1. PICK r \in Queue : x \in Range(p.queue[r])
      BY <2>1 DEF QueuedIn
    <3> QED
      BY <1>1, <1>2, <3>1 DEF QueuedIn, s, t
  <2>2. ASSUME NEW x \in QueuedIn(st) PROVE x \in QueuedIn(p)
    <3>1. PICK r \in Queue : x \in Range(st.queue[r])
      BY <2>2 DEF QueuedIn
    <3> QED
      BY <1>1, <1>2, <3>1 DEF QueuedIn, s, t
  <2>3. i \in QueuedIn(p)
    BY <1>1, <1>2 DEF QueuedIn, t
  <2> QED
    BY <2>1, <2>2, <2>3
<1>4. i \notin QueuedIn(st)
  BY QueuedFinite, PlacedFacts
<1>5. s # <<>> => t # <<>> /\ Head(t) = Head(s)
  <2> SUFFICES ASSUME s # <<>> PROVE t # <<>> /\ Head(t) = Head(s)
    OBVIOUS
  <2>1. n >= 1 /\ Len(s) \in Nat
    BY <1>1 DEF MayPlace
  <2>2. t[1] = s[1]
    BY <2>1, <1>1, <1>2
  <2>3. t # <<>> /\ Head(t) = t[1] /\ Head(s) = s[1]
    BY <1>1, <1>2, <2>1
  <2> QED
    BY <2>2, <2>3
<1> QED
  BY <1>1, <1>3, <1>4, <1>5

(* A new item that keeps the order of its queue keeps the invariant. *)
LEMMA PlacedInLine ==
    ASSUME NEW st, NEW p, NEW q, NEW n, NEW inf, NEW F,
           Shape(st), InLine(st), MayPlace(st, F, q, n, inf), Placed(st, p, q, n, inf)
    PROVE  InLine(p)
<1> DEFINE i == p.created
           s == st.queue[q]
           t == p.queue[q]
<1>1. /\ q \in Queue /\ s \in Seq(Item) /\ n \in 0 .. Len(s)
      /\ \A r \in Queue : r # q => p.queue[r] = st.queue[r]
  BY PlacedFacts, PlacedAt
<1>2. /\ Len(t) = Len(s) + 1 /\ Len(s) \in Nat
      /\ \A m \in 1 .. Len(s) + 1 :
           t[m] = IF m <= n THEN s[m] ELSE IF m = n + 1 THEN i ELSE s[m - 1]
      /\ t \in Seq(Item)
  BY PlacedAt
<1>3. \A j \in 1 .. st.created : j \in 1 .. p.created /\ p.info[j] = st.info[j] /\ j # i
  BY PlacedFacts
<1>4. /\ i \in 1 .. p.created /\ p.info[i].queue = q
      /\ q \in Client => p.info[i].client = q
      /\ p.info[i].root = inf.root
  <2>1. q \in Client => inf.client = q
    BY DEF MayPlace
  <2> QED
    BY <2>1, PlacedFacts
<1> SUFFICES ASSUME NEW r \in Queue, NEW m \in DOMAIN p.queue[r]
             PROVE  LET j == p.queue[r][m] IN
                    /\ j \in 1 .. p.created
                    /\ p.info[j].queue = r
                    /\ r \in Client => p.info[j].client = r
                    /\ \A k \in DOMAIN p.queue[r] : m < k =>
                         /\ j # p.queue[r][k]
                         /\ p.info[j].root <= p.info[p.queue[r][k]].root
  BY DEF InLine
<1>5. CASE r # q
  <2> DEFINE u == st.queue[r]
  <2>1. p.queue[r] = u
    BY <1>1, <1>5
  <2>2. \A k \in DOMAIN u :
          /\ u[k] \in 1 .. st.created
          /\ st.info[u[k]].queue = r
          /\ r \in Client => st.info[u[k]].client = r
          /\ \A l \in DOMAIN u : k < l =>
               u[k] # u[l] /\ st.info[u[k]].root <= st.info[u[l]].root
    BY DEF InLine
  <2> HIDE DEF u, s, t, i
  <2>3. \A k \in DOMAIN u : u[k] \in 1 .. p.created /\ p.info[u[k]] = st.info[u[k]]
    BY <1>3, <2>2
  <2> QED
    BY <2>1, <2>2, <2>3
<1>6. CASE r = q
  <2>1. DOMAIN s = 1 .. Len(s) /\ DOMAIN t = 1 .. Len(s) + 1 /\ m \in 1 .. Len(s) + 1
    BY <1>1, <1>2, <1>6
  <2>2. \A k \in 1 .. Len(s) :
          /\ s[k] \in 1 .. st.created
          /\ st.info[s[k]].queue = q
          /\ q \in Client => st.info[s[k]].client = q
          /\ \A l \in 1 .. Len(s) : k < l =>
               s[k] # s[l] /\ st.info[s[k]].root <= st.info[s[l]].root
          /\ IF k <= n THEN st.info[s[k]].root <= inf.root
                       ELSE inf.root <= st.info[s[k]].root
    BY <1>1, <2>1 DEF InLine, MayPlace
  <2>3. \A k \in 1 .. Len(s) :
          /\ s[k] \in 1 .. p.created /\ s[k] # i
          /\ p.info[s[k]] = st.info[s[k]]
    BY <1>3, <2>2
  <2> DEFINE old(k) == IF k <= n THEN k ELSE k - 1
  <2>4. \A k \in 1 .. Len(s) + 1 : k # n + 1 => old(k) \in 1 .. Len(s) /\ t[k] = s[old(k)]
    BY <1>1, <1>2
  <2>5. t[n + 1] = i
    <3>1. n + 1 \in 1 .. Len(s) + 1 /\ ~(n + 1 <= n)
      BY <1>1, <1>2
    <3> QED
      BY <1>2, <3>1
  <2>6. \A k, l \in 1 .. Len(s) + 1 : k < l /\ k # n + 1 /\ l # n + 1 => old(k) < old(l)
    BY <1>1
  <2>7. \A k \in 1 .. Len(s) + 1 : (k < n + 1 => old(k) <= n) /\ (k > n + 1 => ~(old(k) <= n))
    BY <1>1
  <2> HIDE DEF old, s, t, i
  <2>8. /\ t[m] \in 1 .. p.created /\ p.info[t[m]].queue = q
        /\ q \in Client => p.info[t[m]].client = q
    BY <1>4, <2>1, <2>2, <2>3, <2>4, <2>5
  <2>9. ASSUME NEW k \in 1 .. Len(s) + 1, m < k
        PROVE  t[m] # t[k] /\ p.info[t[m]].root <= p.info[t[k]].root
    <3>1. CASE m = n + 1
      <4>1. k # n + 1 /\ k > n + 1
        BY <3>1, <2>9, <2>1
      <4> QED
        BY <1>4, <2>2, <2>3, <2>4, <2>5, <2>7, <3>1, <4>1
    <3>2. CASE k = n + 1
      <4>1. m # n + 1 /\ m < n + 1
        BY <3>2, <2>9, <2>1
      <4> QED
        BY <1>4, <2>1, <2>2, <2>3, <2>4, <2>5, <2>7, <3>2, <4>1
    <3>3. CASE m # n + 1 /\ k # n + 1
      BY <2>1, <2>2, <2>3, <2>4, <2>6, <2>9, <3>3
    <3> QED
      BY <3>1, <3>2, <3>3
  <2> QED
    BY <1>6, <2>1, <2>8, <2>9 DEF t
<1> QED
  BY <1>5, <1>6

(* A new item keeps the groups as they were created. *)
LEMMA PlacedGrouped ==
    ASSUME NEW st, NEW p, NEW q, NEW n, NEW inf, NEW F,
           Shape(st), Grouped(st), MayPlace(st, F, q, n, inf), Placed(st, p, q, n, inf)
    PROVE  Grouped(p)
<1> DEFINE i == p.created
<1>1. /\ i \in Nat
      /\ \A j \in 1 .. st.created : p.info[j] = st.info[j] /\ j # i
      /\ \A j \in 1 .. i : j \in 1 .. st.created \/ j = i
      /\ i = st.created + 1 /\ st.created \in Nat
  BY PlacedFacts, ShapeFacts
<1>2. /\ p.info[i].queue = q /\ p.info[i].root = inf.root
      /\ p.info[i].group = inf.group /\ p.info[i].kind = inf.kind
      /\ p.info[i].firing = inf.firing /\ p.info[i].stored = inf.stored
      /\ p.info[i].nohooks = inf.nohooks
  BY PlacedFacts
<1>3. /\ inf.group <= i /\ inf.root <= i /\ inf.firing <= i
      /\ inf.kind = "command" \/ inf.stored => inf.group # 0
      /\ inf.kind = "done" => q \in Client
      /\ \A j \in 1 .. st.created :
           /\ st.info[j].firing = inf.firing => st.info[j].queue = q /\ st.info[j].root < inf.root
           /\ st.info[j].group = inf.group /\ inf.group # 0 => SameList(st.info[j], inf)
  BY <1>1 DEF MayPlace
<1> HIDE DEF i
<1>4. ASSUME NEW j \in 1 .. i, NEW k \in 1 .. i, j < k,
             p.info[j].firing = p.info[k].firing
      PROVE  p.info[j].queue = p.info[k].queue /\ p.info[j].root < p.info[k].root
  <2>1. j \in 1 .. st.created
    BY <1>1, <1>4
  <2>2. CASE k = i
    BY <1>1, <1>2, <1>3, <1>4, <2>1, <2>2
  <2>3. CASE k \in 1 .. st.created
    BY <1>1, <1>4, <2>1, <2>3 DEF Grouped
  <2> QED
    BY <1>1, <2>2, <2>3
<1>5. ASSUME NEW j \in 1 .. i
      PROVE  /\ p.info[j].group <= j /\ p.info[j].root <= j /\ p.info[j].firing <= j
             /\ p.info[j].kind = "command" \/ p.info[j].stored => p.info[j].group # 0
             /\ p.info[j].kind = "done" => p.info[j].queue \in Client
  <2>1. CASE j = i
    BY <1>2, <1>3, <2>1
  <2>2. CASE j \in 1 .. st.created
    <3>1. p.info[j] = st.info[j]
      BY <1>1, <2>2
    <3>2. \A k \in 1 .. st.created :
            /\ st.info[k].group <= k /\ st.info[k].root <= k /\ st.info[k].firing <= k
            /\ st.info[k].kind = "command" \/ st.info[k].stored => st.info[k].group # 0
            /\ st.info[k].kind = "done" => st.info[k].queue \in Client
      BY DEF Grouped
    <3> QED
      BY <2>2, <3>1, <3>2
  <2> QED
    BY <1>1, <2>1, <2>2
<1>6. ASSUME NEW j \in 1 .. i, NEW k \in 1 .. i,
             p.info[j].group = p.info[k].group, p.info[k].group # 0
      PROVE  SameList(p.info[j], p.info[k])
  <2>1. CASE j = i
    <3>1. CASE k = i
      BY <2>1, <3>1 DEF SameList
    <3>2. CASE k \in 1 .. st.created
      <4>1. SameList(st.info[k], inf) /\ p.info[k] = st.info[k]
        BY <1>1, <1>2, <1>3, <1>6, <2>1, <3>2
      <4> QED
        BY <1>2, <2>1, <4>1 DEF SameList
    <3> QED
      BY <1>1, <3>1, <3>2
  <2>2. CASE j \in 1 .. st.created
    <3>1. CASE k = i
      <4>1. SameList(st.info[j], inf) /\ p.info[j] = st.info[j]
        BY <1>1, <1>2, <1>3, <1>6, <2>2, <3>1
      <4> QED
        BY <1>2, <3>1, <4>1 DEF SameList
    <3>2. CASE k \in 1 .. st.created
      <4>1. p.info[j] = st.info[j] /\ p.info[k] = st.info[k]
        BY <1>1, <2>2, <3>2
      <4>2. SameList(st.info[j], st.info[k])
        BY <1>6, <2>2, <3>2, <4>1 DEF Grouped
      <4> QED
        BY <4>1, <4>2
    <3> QED
      BY <1>1, <3>1, <3>2
  <2> QED
    BY <1>1, <2>1, <2>2
<1> QED
  BY <1>4, <1>5, <1>6 DEF Grouped, i

(* A new item keeps what each queue says of the items that have fired. *)
LEMMA PlacedFires ==
    ASSUME NEW st, NEW p, NEW q, NEW n, NEW inf, NEW F,
           Good(st, F), MayPlace(st, F, q, n, inf), Placed(st, p, q, n, inf)
    PROVE  Fires(p, F)
<1> DEFINE i == p.created
           s == st.queue[q]
           t == p.queue[q]
<1>0. Shape(st) /\ InLine(st) /\ Fires(st, F)
  BY DEF Good
<1>1. /\ q \in Queue /\ s \in Seq(Item) /\ n \in 0 .. Len(s)
      /\ \A r \in Queue : r # q => p.queue[r] = st.queue[r]
      /\ p.info[i].queue = q /\ p.info[i].root = inf.root
  BY <1>0, PlacedFacts, PlacedAt
<1>2. /\ Len(t) = Len(s) + 1 /\ Len(s) \in Nat
      /\ \A m \in 1 .. Len(s) + 1 :
           t[m] = IF m <= n THEN s[m] ELSE IF m = n + 1 THEN i ELSE s[m - 1]
      /\ t \in Seq(Item)
  BY <1>0, PlacedAt
<1>3. /\ F \subseteq 1 .. st.created /\ F \subseteq 1 .. p.created /\ i \notin F
      /\ \A j \in 1 .. st.created : p.info[j] = st.info[j]
  <2>1. F \subseteq 1 .. st.created
    BY <1>0 DEF Fires
  <2> QED
    BY <1>0, <2>1, PlacedFacts
<1>4. ASSUME NEW r \in Queue, NEW k \in DOMAIN p.queue[r], p.queue[r][k] \in F
      PROVE  k = 1
  <2>1. CASE r # q
    BY <1>0, <1>1, <1>4, <2>1 DEF Fires
  <2>2. CASE r = q
    <3>1. k \in 1 .. Len(s) + 1 /\ t[k] \in F /\ DOMAIN s = 1 .. Len(s)
      BY <1>1, <1>2, <1>4, <2>2
    <3>2. k # n + 1
      BY <1>1, <1>2, <1>3, <3>1
    <3>3. \A l \in 1 .. Len(s) : s[l] \in F => l = 1
      BY <1>0, <1>1, <3>1 DEF Fires
    <3>4. CASE k <= n
      <4>1. s[k] \in F /\ k \in 1 .. Len(s)
        BY <1>1, <1>2, <3>1, <3>4
      <4> QED
        BY <3>3, <4>1
    <3>5. CASE k > n + 1
      <4>0. ~(k <= n) /\ k - 1 \in 1 .. Len(s)
        BY <1>1, <1>2, <3>1, <3>5
      <4>1. s[k - 1] \in F /\ k - 1 \in 1 .. Len(s)
        BY <1>2, <3>1, <3>2, <4>0
      <4>2. k - 1 = 1
        BY <3>3, <4>1
      <4>n. n = 0
        BY <1>1, <3>5, <4>2
      <4>3. s = <<>>
        BY <4>n DEF MayPlace
      <4>4. Len(s) = 0
        BY <4>3
      <4> QED
        BY <4>1, <4>4
    <3> QED
      BY <1>1, <3>1, <3>2, <3>4, <3>5
  <2> QED
    BY <2>1, <2>2
<1>5. ASSUME NEW j \in F, NEW k \in QueuedIn(p), p.info[k].queue = p.info[j].queue
      PROVE  p.info[k].root >= p.info[j].root
  <2>1. k = i \/ k \in QueuedIn(st)
    BY <1>0, <1>1, PlacedQueued
  <2>2. CASE k = i
    <3>1. st.info[j].root <= inf.root
      BY <1>1, <1>3, <1>5, <2>2 DEF MayPlace
    <3>2. st.info[j].root \in Nat /\ inf.root \in Nat
      BY <1>0, <1>3, ShapeFacts, PlacedFacts
    <3> QED
      BY <1>1, <1>3, <2>2, <3>1, <3>2
  <2>3. CASE k \in QueuedIn(st)
    <3>1. k \in 1 .. st.created
      BY <1>0, <2>3, QueuedFinite
    <3> QED
      BY <1>0, <1>3, <1>5, <2>3, <3>1 DEF Fires
  <2> QED
    BY <2>1, <2>2, <2>3
<1> QED
  BY <1>3, <1>4, <1>5 DEF Fires

(* The new item is counted among the references of its client. *)
LEMMA PlacedCounted ==
    ASSUME NEW st, NEW p, NEW q, NEW n, NEW inf, NEW F, NEW L, NEW Z \in SUBSET Client,
           Good(st, F), MayPlace(st, F, q, n, inf), Placed(st, p, q, n, inf),
           Counts(st, L, Z),
           \A c \in Client : c \in Holds(inf) => st.refs[c] # 0
    PROVE  Counts(p, L, Z)
<1> DEFINE i == p.created
<1>0. Shape(st) /\ InLine(st)
  BY DEF Good
<1>1. /\ i \notin QueuedIn(st)
      /\ QueuedIn(p) = QueuedIn(st) \cup {i}
      /\ Holds(p.info[i]) = Holds(inf)
      /\ p.dying = st.dying
      /\ \A j \in QueuedIn(st) : p.info[j] = st.info[j]
  <2>1. QueuedIn(st) \subseteq 1 .. st.created
    BY <1>0, QueuedFinite
  <2> QED
    BY <1>0, <2>1, PlacedQueued, PlacedFacts
<1> HIDE DEF i
<1>2. ASSUME NEW c \in Client
      PROVE  p.refs[c] = Cardinality(HeldIn(p, c)) + (IF c \in L THEN 1 ELSE 0)
  <2>1. /\ p.refs[c] = IF c \in Holds(inf) THEN st.refs[c] + 1 ELSE st.refs[c]
        /\ st.refs[c] = Cardinality(HeldIn(st, c)) + (IF c \in L THEN 1 ELSE 0)
        /\ IsFiniteSet(HeldIn(st, c)) /\ Cardinality(HeldIn(st, c)) \in Nat
    BY <1>0, QueuedFinite DEF Placed, Counts
  <2>2. CASE c \in Holds(inf)
    <3>1. HeldIn(p, c) = HeldIn(st, c) \cup {i} /\ i \notin HeldIn(st, c)
      BY <1>1, <2>2 DEF HeldIn
    <3>2. Cardinality(HeldIn(p, c)) = Cardinality(HeldIn(st, c)) + 1
      BY <2>1, <3>1, FS_AddElement
    <3> QED
      BY <2>1, <2>2, <3>2
  <2>3. CASE c \notin Holds(inf)
    <3>1. HeldIn(p, c) = HeldIn(st, c)
      BY <1>1, <2>3 DEF HeldIn
    <3> QED
      BY <2>1, <2>3, <3>1
  <2> QED
    BY <2>2, <2>3
<1>3. ASSUME NEW c \in p.dying \cup Z PROVE p.refs[c] = 0
  <2>1. st.refs[c] = 0 /\ c \in Client
    BY <1>0, <1>1, ShapeFacts DEF Counts
  <2>2. p.refs[c] = IF c \in Holds(inf) THEN st.refs[c] + 1 ELSE st.refs[c]
    BY <2>1 DEF Placed
  <2> QED
    BY <2>1, <2>2
<1> QED
  BY <1>2, <1>3 DEF Counts

----------------------------------------------------------------------------
(* A queue that items were removed from, place by place. *)
LEMMA RemovedAt ==
    ASSUME NEW st, NEW r, NEW q, NEW D, Shape(st), Removed(st, r, q, D)
    PROVE  /\ q \in Queue /\ r.queue[q] \in Seq(Item) /\ st.queue[q] \in Seq(Item)
           /\ DOMAIN r.queue[q] = 1 .. Len(r.queue[q])
           /\ DOMAIN st.queue[q] = 1 .. Len(st.queue[q])
           /\ Range(r.queue[q]) = Range(st.queue[q]) \ D
           /\ \A m, n \in 1 .. Len(r.queue[q]) : m < n =>
                \E j, k \in 1 .. Len(st.queue[q]) :
                  j < k /\ r.queue[q][m] = st.queue[q][j] /\ r.queue[q][n] = st.queue[q][k]
<1>1. q \in Queue /\ r.queue[q] = Without(st.queue[q], D)
  BY DEF Removed
<1>2. st.queue[q] \in Seq(Item)
  BY <1>1, ShapeFacts
<1> DEFINE s == st.queue[q]
           t == Without(s, D)
<1>3. t \in Seq(Item)
  BY <1>2, WithoutFacts
<1>4. Range(t) = Range(s) \ D
  BY <1>2, WithoutFacts
<1>5. \A m, n \in 1 .. Len(t) : m < n =>
        \E j, k \in 1 .. Len(s) : j < k /\ t[m] = s[j] /\ t[n] = s[k]
  <2> SUFFICES ASSUME NEW m \in 1 .. Len(t), NEW n \in 1 .. Len(t), m < n
               PROVE  \E j, k \in 1 .. Len(s) : j < k /\ t[m] = s[j] /\ t[n] = s[k]
    OBVIOUS
  <2>1. s \in Seq(Item)
    BY <1>2
  <2> HIDE DEF s
  <2> QED
    BY <2>1, WithoutOrder
<1>6. DOMAIN t = 1 .. Len(t) /\ DOMAIN s = 1 .. Len(s)
  BY <1>2, <1>3
<1> HIDE DEF t
<1>7. r.queue[q] = t
  BY <1>1 DEF t
<1> HIDE DEF s
<1>8. /\ r.queue[q] \in Seq(Item) /\ DOMAIN r.queue[q] = 1 .. Len(r.queue[q])
      /\ Range(r.queue[q]) = Range(s) \ D
  BY <1>3, <1>4, <1>6, <1>7
<1>9. \A m, n \in 1 .. Len(r.queue[q]) : m < n =>
        \E j, k \in 1 .. Len(s) : j < k /\ r.queue[q][m] = s[j] /\ r.queue[q][n] = s[k]
  BY <1>5, <1>7, Zenon
<1>10. s \in Seq(Item) /\ DOMAIN s = 1 .. Len(s)
  BY <1>2, <1>6 DEF s
<1> QED
  BY <1>1, <1>8, <1>9, <1>10, Zenon DEF s

(* Nothing but the removed items goes. *)
LEMMA RemovedQueued ==
    ASSUME NEW st, NEW r, NEW q, NEW D, Shape(st), InLine(st), Removed(st, r, q, D)
    PROVE  QueuedIn(r) = QueuedIn(st) \ D
<1>1. \A p \in Queue : \A x \in Range(st.queue[p]) : st.info[x].queue = p
  BY DEF InLine, Range
<1>2. /\ q \in Queue /\ D \subseteq Range(st.queue[q])
      /\ \A p \in Queue : p # q => r.queue[p] = st.queue[p]
      /\ Range(r.queue[q]) = Range(st.queue[q]) \ D
  <2>1. Range(r.queue[q]) = Range(st.queue[q]) \ D
    BY RemovedAt
  <2> QED
    BY <2>1 DEF Removed
<1>3. ASSUME NEW x \in QueuedIn(r) PROVE x \in QueuedIn(st) \ D
  <2>1. PICK p \in Queue : x \in Range(r.queue[p])
    BY <1>3 DEF QueuedIn
  <2>2. CASE p = q
    BY <1>2, <2>1, <2>2 DEF QueuedIn
  <2>3. CASE p # q
    <3>1. x \in Range(st.queue[p]) /\ st.info[x].queue = p
      BY <1>1, <1>2, <2>1, <2>3
    <3>2. x \notin D
      BY <1>1, <1>2, <2>3, <3>1
    <3> QED
      BY <3>1, <3>2 DEF QueuedIn
  <2> QED
    BY <2>2, <2>3
<1>4. ASSUME NEW x \in QueuedIn(st), x \notin D PROVE x \in QueuedIn(r)
  <2>1. PICK p \in Queue : x \in Range(st.queue[p])
    BY <1>4 DEF QueuedIn
  <2>2. x \in Range(r.queue[p])
    BY <1>2, <1>4, <2>1
  <2> QED
    BY <2>2 DEF QueuedIn
<1> QED
  BY <1>3, <1>4

(* Removing items keeps the invariant. *)
LEMMA RemovedGood ==
    ASSUME NEW st, NEW r, NEW q, NEW D, NEW F, Good(st, F), Removed(st, r, q, D)
    PROVE  Good(r, F)
<1>0. Shape(st) /\ InLine(st) /\ Grouped(st) /\ Fires(st, F)
  BY DEF Good
<1> DEFINE s == st.queue[q]
           t == r.queue[q]
<1>1. /\ Shape(r) /\ r.created = st.created /\ r.info = st.info /\ q \in Queue
      /\ \A p \in Queue : p # q => r.queue[p] = st.queue[p]
  BY DEF Removed
<1>2. /\ s \in Seq(Item) /\ t \in Seq(Item)
      /\ DOMAIN t = 1 .. Len(t) /\ DOMAIN s = 1 .. Len(s)
      /\ \A m, n \in 1 .. Len(t) : m < n =>
           \E j, k \in 1 .. Len(s) : j < k /\ t[m] = s[j] /\ t[n] = s[k]
  BY <1>0, RemovedAt
<1>3. \A m \in 1 .. Len(t) : \E j \in 1 .. Len(s) : t[m] = s[j]
  <2>1. Range(t) = Range(s) \ D
    <3>1. Range(r.queue[q]) = Range(st.queue[q]) \ D
      BY <1>0, RemovedAt
    <3> QED
      BY <3>1
  <2>2. ASSUME NEW m \in 1 .. Len(t) PROVE \E j \in 1 .. Len(s) : t[m] = s[j]
    <3> HIDE DEF s, t
    <3>1. t[m] \in Range(t)
      BY <1>2 DEF Range
    <3>2. t[m] \in Range(s)
      BY <2>1, <3>1
    <3> QED
      BY <1>2, <3>2 DEF Range
  <2> QED
    BY <2>2
<1>4. \A j \in 1 .. Len(s) :
        /\ s[j] \in 1 .. st.created
        /\ st.info[s[j]].queue = q
        /\ q \in Client => st.info[s[j]].client = q
        /\ s[j] \in F => j = 1
  BY <1>0, <1>1, <1>2 DEF InLine, Fires
<1>5. \A j, k \in 1 .. Len(s) : j < k =>
        s[j] # s[k] /\ st.info[s[j]].root <= st.info[s[k]].root
  BY <1>0, <1>1, <1>2 DEF InLine
<1> HIDE DEF s, t
<1>6. ASSUME NEW p \in Queue, NEW m \in DOMAIN r.queue[p]
      PROVE  LET i == r.queue[p][m] IN
             /\ i \in 1 .. r.created
             /\ r.info[i].queue = p
             /\ p \in Client => r.info[i].client = p
             /\ \A n \in DOMAIN r.queue[p] : m < n =>
                  /\ i # r.queue[p][n]
                  /\ r.info[i].root <= r.info[r.queue[p][n]].root
  <2>1. CASE p # q
    BY <1>0, <1>1, <2>1 DEF InLine
  <2>2. CASE p = q
    <3>1. m \in 1 .. Len(t) /\ r.queue[p] = t
      BY <1>2, <2>2 DEF t
    <3>2. PICK j \in 1 .. Len(s) : t[m] = s[j]
      BY <1>3, <3>1
    <3>3. ASSUME NEW n \in DOMAIN r.queue[p], m < n
          PROVE  t[m] # t[n] /\ st.info[t[m]].root <= st.info[t[n]].root
      <4>1. n \in 1 .. Len(t)
        BY <1>2, <2>2 DEF t
      <4> QED
        BY <1>2, <1>5, <3>1, <3>3, <4>1
    <3> QED
      BY <1>1, <1>4, <2>2, <3>1, <3>2, <3>3
  <2> QED
    BY <2>1, <2>2
<1>7. ASSUME NEW p \in Queue, NEW k \in DOMAIN r.queue[p], r.queue[p][k] \in F
      PROVE  k = 1
  <2>1. CASE p # q
    BY <1>0, <1>1, <1>7, <2>1 DEF Fires
  <2>2. CASE p = q
    <3>1. k \in 1 .. Len(t) /\ t[k] \in F
      BY <1>2, <1>7, <2>2 DEF t
    <3> SUFFICES ASSUME k # 1 PROVE FALSE
      OBVIOUS
    <3>2. 1 \in 1 .. Len(t) /\ 1 < k
      BY <3>1
    <3>3. PICK a \in 1 .. Len(s), b \in 1 .. Len(s) : a < b /\ t[k] = s[b]
      BY <1>2, <3>1, <3>2
    <3>4. b = 1
      BY <1>4, <3>1, <3>3
    <3> QED
      BY <3>3, <3>4
  <2> QED
    BY <2>1, <2>2
<1>8. Fires(r, F)
  <2>1. QueuedIn(r) \subseteq QueuedIn(st)
    BY <1>0, RemovedQueued
  <2>2. \A j \in F, i \in QueuedIn(r) :
          r.info[i].queue = r.info[j].queue => r.info[i].root >= r.info[j].root
    BY <1>0, <1>1, <2>1 DEF Fires
  <2>3. F \subseteq 1 .. r.created
    BY <1>0, <1>1 DEF Fires
  <2> QED
    BY <1>7, <2>2, <2>3 DEF Fires
<1>9. Grouped(r)
  BY <1>0, <1>1 DEF Grouped
<1>10. InLine(r)
  BY <1>6 DEF InLine
<1> QED
  BY <1>1, <1>8, <1>9, <1>10 DEF Good

(* Dropping the references of clients that have one. *)
LEMMA UnrefFacts ==
    ASSUME NEW st, Shape(st), NEW C, \A d \in Client \cap C : st.refs[d] # 0
    PROVE  /\ Shape(Unref(st, C))
           /\ Unref(st, C).queue = st.queue /\ Unref(st, C).info = st.info
           /\ Unref(st, C).created = st.created
           /\ \A d \in Client : Unref(st, C).refs[d] =
                IF d \in C THEN st.refs[d] - 1 ELSE st.refs[d]
           /\ \A d \in Client : d \in Unref(st, C).dying <=>
                d \in st.dying \/ (d \in C /\ st.refs[d] = 1)
<1> DEFINE r == [d \in Client |-> IF d \in C THEN st.refs[d] - 1 ELSE st.refs[d]]
           y == st.dying \cup {d \in Client \cap C : st.refs[d] = 1}
<1>1. r \in [Client -> Nat]
  <2>1. ASSUME NEW d \in Client PROVE r[d] \in Nat
    <3>1. st.refs[d] \in Nat /\ (d \in C => st.refs[d] # 0)
      BY ShapeFacts
    <3> QED
      BY <3>1
  <2> QED
    BY <2>1
<1>2. y \in SUBSET Client
  BY ShapeFacts
<1>3. Unref(st, C) = [st EXCEPT !.refs = r, !.dying = y]
  BY DEF Unref, Shape
<1> HIDE DEF r, y
<1>4. /\ Shape(Unref(st, C))
      /\ Unref(st, C).queue = st.queue /\ Unref(st, C).info = st.info
      /\ Unref(st, C).created = st.created
      /\ Unref(st, C).refs = r /\ Unref(st, C).dying = y
  BY <1>1, <1>2, <1>3 DEF Shape
<1> QED
  BY <1>4 DEF r, y

(* cmdq_remove. *)
LEMMA RemoveItemIs ==
    ASSUME NEW st, NEW F, NEW L, NEW Z \in SUBSET Client, Good(st, F), Counts(st, L, Z),
           NEW i \in QueuedIn(st), info[i] = st.info[i]
    PROVE  /\ Removed(st, RemoveItem(st, i), info[i].queue, {i})
           /\ Counts(RemoveItem(st, i), L, Z)
<1>0. Shape(st) /\ InLine(st) /\ i \in Item
  BY QueuedFinite DEF Good
<1> DEFINE q == info[i].queue
           C == Holds(info[i])
           t == Without(st.queue[q], {i})
           new == [st EXCEPT !.queue[q] = t]
           r == RemoveItem(st, i)
<1>1. q \in Queue /\ i \in Range(st.queue[q])
  <2>1. PICK p \in Queue : i \in Range(st.queue[p])
    BY DEF QueuedIn
  <2>2. st.info[i].queue = p
    BY <1>0, <2>1 DEF InLine, Range
  <2> QED
    BY <1>0, <2>1, <2>2, ShapeFacts
<1>2. t \in Seq(Item)
  BY <1>0, <1>1, ShapeFacts, WithoutFacts
<1>3. /\ Shape(new) /\ new.info = st.info /\ new.created = st.created
      /\ new.refs = st.refs /\ new.dying = st.dying
      /\ new.queue = [st.queue EXCEPT ![q] = t]
  BY <1>0, <1>1, <1>2 DEF Shape
<1>4. r = Unref(new, C)
  BY <1>0, <1>1 DEF RemoveItem, Shape
<1>5. \A d \in Client \cap C : st.refs[d] # 0
  <2> SUFFICES ASSUME NEW d \in Client, d \in C PROVE st.refs[d] # 0
    OBVIOUS
  <2>1. d \in Holds(st.info[i])
    OBVIOUS
  <2>2. Cardinality(HeldIn(st, d)) # 0 /\ Cardinality(HeldIn(st, d)) \in Nat
    BY <1>0, <2>1, QueuedFinite
  <2> QED
    BY <2>2 DEF Counts
<1> HIDE DEF new, r, t
<1>6. /\ Shape(r) /\ r.queue = new.queue /\ r.info = st.info /\ r.created = st.created
      /\ \A d \in Client : r.refs[d] = IF d \in C THEN st.refs[d] - 1 ELSE st.refs[d]
      /\ \A d \in Client : d \in r.dying <=> d \in st.dying \/ (d \in C /\ st.refs[d] = 1)
  <2>1. \A d \in Client \cap C : new.refs[d] # 0
    BY <1>3, <1>5
  <2> QED
    BY <1>1, <1>3, <1>4, <2>1, UnrefFacts
<1>7. Removed(st, r, q, {i})
  <2>1. st.queue \in [Queue -> Seq(Item)]
    BY <1>0, ShapeFacts
  <2> QED
    BY <1>1, <1>3, <1>6, <2>1 DEF Removed, t
<1>8. QueuedIn(r) = QueuedIn(st) \ {i}
  BY <1>0, <1>7, RemovedQueued
<1>9. ASSUME NEW d \in Client
      PROVE  r.refs[d] = Cardinality(HeldIn(r, d)) + (IF d \in L THEN 1 ELSE 0)
  <2>1. /\ st.refs[d] = Cardinality(HeldIn(st, d)) + (IF d \in L THEN 1 ELSE 0)
        /\ IsFiniteSet(HeldIn(st, d)) /\ Cardinality(HeldIn(st, d)) \in Nat
    BY <1>0, QueuedFinite DEF Counts
  <2>2. CASE d \in C
    <3>1. HeldIn(r, d) = HeldIn(st, d) \ {i} /\ i \in HeldIn(st, d)
      BY <1>6, <1>8, <2>2 DEF HeldIn
    <3>2. Cardinality(HeldIn(st, d) \ {i}) = Cardinality(HeldIn(st, d)) - 1
      BY <2>1, <3>1, FS_RemoveElement
    <3> QED
      BY <1>6, <2>1, <2>2, <3>1, <3>2
  <2>3. CASE d \notin C
    <3>1. HeldIn(r, d) = HeldIn(st, d)
      BY <1>6, <1>8, <2>3 DEF HeldIn
    <3> QED
      BY <1>6, <2>1, <2>3, <3>1
  <2> QED
    BY <2>2, <2>3
<1>10. ASSUME NEW d \in r.dying \cup Z PROVE r.refs[d] = 0
  <2>1. d \in Client
    BY <1>6, ShapeFacts
  <2>2. CASE d \in st.dying \cup Z
    <3>1. st.refs[d] = 0
      BY <2>2 DEF Counts
    <3> QED
      BY <1>5, <1>6, <2>1, <3>1
  <2>3. CASE d \in C /\ st.refs[d] = 1
    BY <1>6, <2>1, <2>3
  <2> QED
    BY <1>6, <1>10, <2>1, <2>2, <2>3
<1>11. Counts(r, L, Z)
  BY <1>9, <1>10 DEF Counts
<1> QED
  BY <1>7, <1>11 DEF r

(* The items cmdq_remove_group removes. *)
Doomed(st, i) ==
    {j \in Range(st.queue[info[i].queue]) : st.info[j].group = info[i].group /\ j # i}

(* cmdq_remove_group. *)
LEMMA RemoveGroupIs ==
    ASSUME NEW st, NEW F, NEW L, NEW Z \in SUBSET Client, Good(st, F), Counts(st, L, Z),
           NEW i \in QueuedIn(st), info[i] = st.info[i], info[i].group # 0
    PROVE  /\ Removed(st, RemoveGroup(st, i), info[i].queue, Doomed(st, i))
           /\ Counts(RemoveGroup(st, i), L, Z)
<1>0. Shape(st) /\ InLine(st) /\ i \in Item
  BY QueuedFinite DEF Good
<1> DEFINE q == info[i].queue
           D == Doomed(st, i)
           count(c) == Cardinality({j \in D : c \in Holds(st.info[j])})
           t == Without(st.queue[q], D)
           f == [c \in Client |-> st.refs[c] - count(c)]
           y == st.dying \cup {c \in Client : st.refs[c] = count(c) /\ count(c) # 0}
           r == RemoveGroup(st, i)
<1>1. q \in Queue /\ D \subseteq Range(st.queue[q]) /\ D \subseteq QueuedIn(st)
  <2>1. q \in Queue
    BY <1>0, ShapeFacts
  <2> QED
    BY <2>1 DEF Doomed, QueuedIn
<1>2. t \in Seq(Item)
  <2>1. st.queue[q] \in Seq(Item)
    BY <1>0, <1>1, ShapeFacts
  <2> QED
    BY <2>1, WithoutFacts
<1>3. ASSUME NEW c \in Client
      PROVE  /\ Cardinality(HeldIn(st, c) \ D) = Cardinality(HeldIn(st, c)) - count(c)
             /\ count(c) \in Nat /\ count(c) <= Cardinality(HeldIn(st, c))
             /\ Cardinality(HeldIn(st, c)) \in Nat
             /\ st.refs[c] = Cardinality(HeldIn(st, c)) + (IF c \in L THEN 1 ELSE 0)
             /\ st.refs[c] \in Nat /\ Cardinality(HeldIn(st, c)) <= st.refs[c]
  <2>1. {j \in D : c \in Holds(st.info[j])} = HeldIn(st, c) \cap D
    BY <1>1 DEF HeldIn
  <2>2. IsFiniteSet(HeldIn(st, c)) /\ Cardinality(HeldIn(st, c)) \in Nat
    BY <1>0, QueuedFinite
  <2>3. Cardinality(HeldIn(st, c) \ D) =
          Cardinality(HeldIn(st, c)) - Cardinality(HeldIn(st, c) \cap D)
    BY <2>2, FS_Difference
  <2>4. HeldIn(st, c) \cap D \in SUBSET HeldIn(st, c)
    OBVIOUS
  <2>5. /\ IsFiniteSet(HeldIn(st, c) \cap D)
        /\ Cardinality(HeldIn(st, c) \cap D) <= Cardinality(HeldIn(st, c))
    BY <2>2, <2>4, FS_Subset
  <2>6. Cardinality(HeldIn(st, c) \cap D) \in Nat
    BY <2>5, FS_CardinalityType
  <2>7. st.refs[c] = Cardinality(HeldIn(st, c)) + (IF c \in L THEN 1 ELSE 0)
    BY DEF Counts
  <2>8. count(c) = Cardinality(HeldIn(st, c) \cap D)
    BY <2>1
  <2> DEFINE h == Cardinality(HeldIn(st, c))
             k == Cardinality(HeldIn(st, c) \cap D)
             l == IF c \in L THEN 1 ELSE 0
  <2>9. l \in Nat /\ h \in Nat /\ st.refs[c] = h + l
    BY <2>2, <2>7
  <2> HIDE DEF h, l
  <2>10. st.refs[c] \in Nat /\ h <= st.refs[c]
    BY <2>9
  <2> HIDE DEF count, k, D
  <2> QED
    BY <2>2, <2>3, <2>5, <2>6, <2>7, <2>8, <2>10 DEF h, k
<1> HIDE DEF count, D
<1>c. \A c \in Client :
        count(c) \in Nat /\ st.refs[c] \in Nat /\ count(c) <= st.refs[c]
  <2> SUFFICES ASSUME NEW c \in Client
               PROVE  count(c) \in Nat /\ st.refs[c] \in Nat /\ count(c) <= st.refs[c]
    OBVIOUS
  <2> DEFINE h == Cardinality(HeldIn(st, c))
             k == count(c)
  <2>1. k \in Nat /\ h \in Nat /\ st.refs[c] \in Nat /\ k <= h /\ h <= st.refs[c]
    BY <1>3
  <2> HIDE DEF h, k
  <2>2. k <= st.refs[c]
    BY <2>1
  <2> QED
    BY <2>1, <2>2 DEF k
<1>4. f \in [Client -> Nat]
  <2>1. ASSUME NEW c \in Client PROVE f[c] \in Nat
    BY <1>c
  <2> QED
    BY <2>1
<1>5. y \in SUBSET Client
  BY <1>0, ShapeFacts
<1>6. r = [st EXCEPT !.queue[q] = t, !.refs = f, !.dying = y]
  BY <1>0, <1>1 DEF RemoveGroup, Doomed, D, count, Shape
<1> HIDE DEF r, t, f, y
<1>7. /\ Shape(r) /\ r.info = st.info /\ r.created = st.created
      /\ r.refs = f /\ r.dying = y
      /\ r.queue = [st.queue EXCEPT ![q] = t]
  BY <1>0, <1>1, <1>2, <1>4, <1>5, <1>6 DEF Shape
<1>8. Removed(st, r, q, D)
  <2>1. st.queue \in [Queue -> Seq(Item)]
    BY <1>0, ShapeFacts
  <2> QED
    BY <1>1, <1>7, <2>1 DEF Removed, t
<1>9. QueuedIn(r) = QueuedIn(st) \ D
  BY <1>0, <1>8, RemovedQueued
<1>10. \A c : HeldIn(r, c) = HeldIn(st, c) \ D
  BY <1>7, <1>9 DEF HeldIn
<1>11. ASSUME NEW c \in Client
       PROVE  r.refs[c] = Cardinality(HeldIn(r, c)) + (IF c \in L THEN 1 ELSE 0)
  <2>1. r.refs[c] = st.refs[c] - count(c)
    BY <1>7 DEF f
  <2> QED
    BY <1>3, <1>10, <2>1
<1>12. ASSUME NEW c \in r.dying \cup Z PROVE r.refs[c] = 0
  <2>1. c \in Client
    BY <1>5, <1>7
  <2>2. r.refs[c] = st.refs[c] - count(c)
    BY <1>7, <2>1 DEF f
  <2>p. count(c) \in Nat /\ st.refs[c] \in Nat /\ count(c) <= st.refs[c]
    BY <1>c, <2>1
  <2>3. CASE c \in st.dying \cup Z
    <3>1. st.refs[c] = 0
      BY <2>3 DEF Counts
    <3> QED
      BY <2>p, <2>2, <3>1
  <2>4. CASE st.refs[c] = count(c)
    BY <2>p, <2>2, <2>4
  <2> QED
    BY <1>7, <1>12, <2>3, <2>4 DEF y
<1> QED
  BY <1>8, <1>11, <1>12 DEF Counts, r, D

----------------------------------------------------------------------------
(* The record of the queues holds the variables. *)
LEMMA StateFacts ==
    /\ State.queue = queue /\ State.info = info /\ State.refs = refs
    /\ State.dying = dying /\ State.created = created
    /\ QueuedIn(State) = Live
  BY DEF State, QueuedIn, Live

(* What the invariant says of an item that is queued. *)
LEMMA LiveFacts ==
    ASSUME NEW F, Good(State, F), Counts(State, listed, freed)
    PROVE  /\ created \in Nat /\ created <= MaxItems /\ 1 .. created \subseteq Item
           /\ Live \subseteq 1 .. created
           /\ \A i \in Live : /\ i \in Item
                              /\ i \in Range(queue[info[i].queue])
                              /\ info[i].queue \in Queue /\ info[i].client \in Queue
                              /\ info[i].queue \in Client => info[i].client = info[i].queue
                              /\ \A c \in Client : c \in Holds(info[i]) => refs[c] # 0
           /\ \A c \in Client \cap listed : refs[c] # 0
           /\ \A i \in Item : info[i] \in Info
<1>1. Shape(State) /\ InLine(State)
  BY DEF Good
<1>2. /\ created \in Nat /\ created <= MaxItems /\ 1 .. created \subseteq Item
      /\ \A i \in Item : info[i] \in Info /\ info[i].queue \in Queue /\ info[i].client \in Queue
  BY <1>1, StateFacts, ShapeFacts
<1>3. Live \subseteq 1 .. created /\ \A i \in Live : i \in Item
  BY <1>1, StateFacts, QueuedFinite
<1>4. ASSUME NEW i \in Live
      PROVE  /\ i \in Range(queue[info[i].queue])
             /\ info[i].queue \in Client => info[i].client = info[i].queue
  <2>1. PICK q \in Queue : i \in Range(queue[q])
    BY DEF Live
  <2>2. info[i].queue = q /\ (q \in Client => info[i].client = q)
    BY <1>1, <2>1, StateFacts DEF InLine, Range
  <2> QED
    BY <2>1, <2>2
<1>5. ASSUME NEW c \in Client
      PROVE  /\ refs[c] = Cardinality(HeldIn(State, c)) + (IF c \in listed THEN 1 ELSE 0)
             /\ Cardinality(HeldIn(State, c)) \in Nat
             /\ (\E i \in Live : c \in Holds(info[i])) <=> Cardinality(HeldIn(State, c)) # 0
  BY <1>1, StateFacts, QueuedFinite DEF Counts
<1>6. \A i \in Live : \A c \in Client : c \in Holds(info[i]) => refs[c] # 0
  BY <1>5
<1>7. \A c \in Client \cap listed : refs[c] # 0
  BY <1>5
<1> QED
  BY <1>2, <1>3, <1>4, <1>6, <1>7

(* To begin with, nothing has changed. *)
LEMMA StateAfter ==
    ASSUME NEW F, Good(State, F), Counts(State, listed, freed)
    PROVE  After(State, F, {}, Queue)
<1>1. \A i \in created + 1 .. created : FALSE
  BY LiveFacts
<1> QED
  BY <1>1, LiveFacts, StateFacts DEF After, Made

(* The head of a queue fires. *)
LEMMA HeadFires ==
    ASSUME QueueInv, NEW q \in Queue, queue[q] # <<>>, NEW i, i = Head(queue[q])
    PROVE  /\ Good(State, fired \cup {i})
           /\ i \in Live /\ info[i].queue = q
           /\ \A j \in Live : info[j].queue = q => info[j].root >= info[i].root
<1>1. Shape(State) /\ InLine(State) /\ Grouped(State) /\ Fires(State, fired)
  BY DEF QueueInv, Good
<1> DEFINE s == queue[q]
<1>2. s \in Seq(Item) /\ s # <<>> /\ i = s[1] /\ 1 \in DOMAIN s /\ DOMAIN s = 1 .. Len(s)
  BY <1>1, StateFacts, ShapeFacts
<1>3. \A m \in DOMAIN s :
        /\ s[m] \in 1 .. created /\ info[s[m]].queue = q
        /\ \A n \in DOMAIN s : m < n => s[m] # s[n] /\ info[s[m]].root <= info[s[n]].root
  BY <1>1, StateFacts DEF InLine
<1>4. i \in Live /\ info[i].queue = q /\ i \in 1 .. created
  BY <1>2, <1>3 DEF Live, Range
<1>5. ASSUME NEW j \in Live, info[j].queue = q PROVE info[j].root >= info[i].root
  <2>1. j \in Range(queue[q])
    BY <1>5, LiveFacts DEF QueueInv
  <2>2. PICK m \in DOMAIN s : j = s[m]
    BY <2>1 DEF Range
  <2>3. info[i].root \in Nat /\ info[j].root \in Nat
    <3>1. i \in Item /\ j \in Item
      BY <1>4, LiveFacts DEF QueueInv
    <3> QED
      BY <1>1, <3>1, StateFacts, ShapeFacts
  <2>4. m = 1 \/ 1 < m
    BY <1>2
  <2> QED
    BY <1>2, <1>3, <2>2, <2>3, <2>4
<1>6. ASSUME NEW p \in Queue, NEW k \in DOMAIN queue[p], queue[p][k] = i
      PROVE  k = 1
  <2>1. info[queue[p][k]].queue = p
    BY <1>1, <1>6, StateFacts DEF InLine
  <2>2. p = q
    BY <1>4, <1>6, <2>1
  <2>3. k = 1 \/ 1 < k
    BY <1>2, <2>2
  <2> QED
    BY <1>2, <1>3, <1>6, <2>2, <2>3
<1>7. Fires(State, fired \cup {i})
  <2>1. fired \cup {i} \subseteq 1 .. created
    BY <1>1, <1>4, StateFacts DEF Fires
  <2>2. \A p \in Queue : \A k \in DOMAIN queue[p] : queue[p][k] \in fired \cup {i} => k = 1
    BY <1>1, <1>6, StateFacts DEF Fires
  <2>3. \A j \in fired \cup {i}, k \in Live :
          info[k].queue = info[j].queue => info[k].root >= info[j].root
    BY <1>1, <1>4, <1>5, StateFacts DEF Fires
  <2> QED
    BY <2>1, <2>2, <2>3, StateFacts DEF Fires
<1> QED
  BY <1>1, <1>4, <1>5, <1>7 DEF Good

(* A new item is one more that the command has created. *)
LEMMA PlaceAfter ==
    ASSUME QueueInv, NEW st, NEW F, NEW D, NEW Q \in SUBSET Queue, After(st, F, D, Q),
           D \subseteq Live,
           NEW q, NEW n, NEW inf, MayPlace(st, F, q, n, inf),
           inf.firing > created,
           \A c \in Client : c \in Holds(inf) => st.refs[c] # 0
    PROVE  /\ After(Place(st, q, n, inf), F, D, Q)
           /\ Placed(st, Place(st, q, n, inf), q, n, inf)
<1> DEFINE p == Place(st, q, n, inf)
<1>0. Good(st, F) /\ Shape(st) /\ InLine(st) /\ Grouped(st)
  BY DEF After, Made, Good
<1>1. Placed(st, p, q, n, inf)
  BY <1>0, PlaceIs DEF MayPlace
<1> HIDE DEF p
<1>2. /\ Shape(p) /\ p.created = st.created + 1 /\ p.info[p.created].firing = inf.firing
      /\ \A j \in 1 .. st.created : p.info[j] = st.info[j]
      /\ \A j \in 1 .. p.created : j \in 1 .. st.created \/ j = p.created
      /\ p.created \in Nat
  BY <1>0, <1>1, PlacedFacts
<1>3. Good(p, F)
  <2>1. InLine(p)
    BY <1>0, <1>1, PlacedInLine
  <2>2. Grouped(p)
    BY <1>0, <1>1, PlacedGrouped
  <2>3. Fires(p, F)
    BY <1>0, <1>1, PlacedFires
  <2> QED
    BY <1>2, <2>1, <2>2, <2>3 DEF Good
<1>4. Counts(p, listed, freed)
  <2>1. freed \in SUBSET Client
    BY DEF QueueInv, Clients
  <2> QED
    BY <1>0, <1>1, <2>1, PlacedCounted DEF After, Made
<1>5. /\ QueuedIn(p) = QueuedIn(st) \cup {p.created}
      /\ \A r \in Queue : st.queue[r] # <<>> =>
           p.queue[r] # <<>> /\ Head(p.queue[r]) = Head(st.queue[r])
  BY <1>0, <1>1, PlacedQueued
<1>6. created \in Nat /\ created <= st.created /\ st.created \in Nat /\ Live \subseteq 1 .. created
  BY <1>0, LiveFacts, ShapeFacts DEF After, Made, QueueInv
<1>7. created + 1 .. p.created = (created + 1 .. st.created) \cup {p.created}
  BY <1>2, <1>6
<1>8. p.created \notin D
  BY <1>2, <1>6
<1>9. QueuedIn(p) = (Live \cup (created + 1 .. p.created)) \ D
  <2>1. QueuedIn(st) = (Live \cup (created + 1 .. st.created)) \ D
    BY DEF After, Made
  <2> QED
    BY <1>5, <1>7, <1>8, <2>1
<1>10. created <= p.created /\ \A i \in 1 .. created : p.info[i] = info[i]
  BY <1>2, <1>6 DEF After, Made
<1>11. ASSUME NEW i \in created + 1 .. p.created
       PROVE  p.info[i].firing > created
  <2>1. CASE i = p.created
    BY <1>2, <2>1
  <2>2. CASE i \in created + 1 .. st.created
    <3>1. i \in 1 .. st.created
      BY <1>6, <2>2
    <3> QED
      BY <1>2, <2>2, <3>1 DEF After, Made
  <2> QED
    BY <1>7, <2>1, <2>2
<1>12. \A r \in Q : queue[r] # <<>> =>
         p.queue[r] # <<>> /\ Head(p.queue[r]) = Head(queue[r])
  BY <1>5 DEF After, Made
<1> QED
  BY <1>1, <1>3, <1>4, <1>9, <1>10, <1>11, <1>12 DEF After, Made, p

(* cmdq_append, to the global queue or to that of a client on the list. *)
LEMMA AppendAfter ==
    ASSUME QueueInv, NEW st, NEW F, After(st, F, {}, Queue), st.created < MaxItems,
           NEW q \in listed \cup {Global}, NEW inf \in Info,
           inf.about \in listed \cup {Global},
           inf.firing > created, inf.firing <= st.created + 1,
           inf.group <= st.created + 1, inf.kind = "command" \/ inf.stored => inf.group # 0,
           inf.kind = "done" => q \in Client,
           \A i \in 1 .. st.created :
             /\ st.info[i].firing = inf.firing => st.info[i].queue = q
             /\ st.info[i].group = inf.group /\ inf.group # 0 => SameList(st.info[i], inf)
    PROVE  LET p == AppendItem(st, q, inf) IN
           /\ After(p, F, {}, Queue)
           /\ p.created = st.created + 1
           /\ p.info[p.created].queue = q /\ p.info[p.created].group = inf.group
           /\ p.info[p.created].firing = inf.firing /\ p.info[p.created].stored = inf.stored
           /\ p.info[p.created].nohooks = inf.nohooks
           /\ \A i \in 1 .. st.created : p.info[i] = st.info[i]
           /\ \A i \in 1 .. p.created : i \in 1 .. st.created \/ i = p.created
<1>0. Good(st, F) /\ Shape(st) /\ InLine(st) /\ Grouped(st) /\ Fires(st, F)
  BY DEF After, Made, Good
<1> DEFINE n == Len(st.queue[q])
           x == [inf EXCEPT !.client = q, !.root = st.created + 1]
<1>1. q \in Queue /\ (q \in Client => q \in listed)
  BY CmdQueueAssumption DEF Queue, QueueInv, Clients
<1>2. /\ x \in Info /\ x.root = st.created + 1 /\ x.client = q
      /\ x.group = inf.group /\ x.kind = inf.kind /\ x.firing = inf.firing
      /\ x.stored = inf.stored /\ x.nohooks = inf.nohooks /\ x.about = inf.about
  <2>1. st.created + 1 \in 0 .. MaxItems
    BY <1>0, ShapeFacts
  <2> QED
    BY <1>1, <2>1 DEF Info
<1>3. n \in 0 .. Len(st.queue[q]) /\ (n = 0 => st.queue[q] = <<>>)
  BY <1>0, <1>1, ShapeFacts
<1>4. ASSUME NEW i \in 1 .. st.created
      PROVE  st.info[i].root <= st.created + 1 /\ st.info[i].root < st.created + 1
  <2>1. st.info[i].root <= i
    BY <1>0 DEF Grouped
  <2>2. st.info[i].root \in Nat /\ i \in Nat /\ st.created \in Nat
    BY <1>0, ShapeFacts
  <2> QED
    BY <2>1, <2>2
<1>5. ASSUME NEW m \in 1 .. Len(st.queue[q])
      PROVE  m <= n /\ st.info[st.queue[q][m]].root <= st.created + 1
  <2>1. st.queue[q][m] \in 1 .. st.created
    BY <1>0, <1>1, ShapeFacts DEF InLine
  <2> QED
    BY <1>0, <1>1, <1>4, <2>1, ShapeFacts
<1> HIDE DEF n, x
<1>6. MayPlace(st, F, q, n, x)
  <2>1. \A m \in 1 .. Len(st.queue[q]) :
          IF m <= n THEN st.info[st.queue[q][m]].root <= x.root
                    ELSE x.root <= st.info[st.queue[q][m]].root
    BY <1>2, <1>5
  <2>2. x.root <= st.created + 1 /\ x.group <= st.created + 1 /\ x.firing <= st.created + 1
    BY <1>0, <1>2, ShapeFacts
  <2>3. ASSUME NEW i \in 1 .. st.created
        PROVE  /\ st.info[i].firing = x.firing => st.info[i].queue = q /\ st.info[i].root < x.root
               /\ st.info[i].group = x.group /\ x.group # 0 => SameList(st.info[i], x)
    BY <1>2, <1>4 DEF SameList
  <2>4. \A j \in F : st.info[j].queue = q => st.info[j].root <= x.root
    BY <1>0, <1>2, <1>4 DEF Fires
  <2> QED
    BY <1>1, <1>2, <1>3, <2>1, <2>2, <2>3, <2>4 DEF MayPlace
<1>7. \A c \in Client : c \in Holds(x) => st.refs[c] # 0
  <2> SUFFICES ASSUME NEW c \in Client, c \in Holds(x) PROVE st.refs[c] # 0
    OBVIOUS
  <2>0. c \in listed
    BY <1>1, <1>2, CmdQueueAssumption DEF Holds
  <2>1. st.refs[c] = Cardinality(HeldIn(st, c)) + 1
    BY <2>0 DEF After, Made, Counts
  <2>2. Cardinality(HeldIn(st, c)) \in Nat
    BY <1>0, QueuedFinite
  <2> QED
    BY <2>1, <2>2
<1>8. x.firing > created
  BY <1>2
<1> DEFINE p == AppendItem(st, q, inf)
<1>9. p = Place(st, q, n, x)
  BY DEF AppendItem, n, x
<1> HIDE DEF p
<1>10. After(p, F, {}, Queue) /\ Placed(st, p, q, n, x)
  <2>1. Queue \in SUBSET Queue /\ {} \subseteq Live
    OBVIOUS
  <2> QED
    BY <1>6, <1>7, <1>8, <1>9, <2>1, PlaceAfter
<1>11. /\ p.created = st.created + 1
       /\ p.info[p.created].queue = q /\ p.info[p.created].group = x.group
       /\ p.info[p.created].firing = x.firing /\ p.info[p.created].stored = x.stored
       /\ p.info[p.created].nohooks = x.nohooks
       /\ \A i \in 1 .. st.created : p.info[i] = st.info[i]
       /\ \A i \in 1 .. p.created : i \in 1 .. st.created \/ i = p.created
  BY <1>0, <1>6, <1>10, PlacedFacts
<1> QED
  BY <1>2, <1>10, <1>11 DEF p

(* A command of a list that is kept, queued by itself. *)
OfList(st, inf) ==
    /\ inf \in Info /\ inf.kind = "command" /\ inf.about = Global
    /\ inf.group # 0 /\ inf.group <= st.created + 1 /\ inf.firing = st.created + 1
    /\ \A i \in 1 .. st.created : st.info[i].group = inf.group => SameList(st.info[i], inf)

(* Blank, and the command of a list that was just parsed. *)
LEMMA CommandIs ==
    /\ Blank \in Info /\ Blank.group = 0 /\ Blank.kind = "done" /\ Blank.about = Global
    /\ Blank.stored = FALSE /\ Blank.firing = 0
    /\ \A g, n \in 0 .. MaxItems :
         /\ Command(g, n) \in Info
         /\ Command(g, n).group = g /\ Command(g, n).kind = "command"
         /\ Command(g, n).firing = n /\ Command(g, n).about = Global
         /\ Command(g, n).stored = FALSE
<1>1. Global \in Queue /\ 0 \in 0 .. MaxItems
  BY CmdQueueAssumption DEF Queue
<1>2. Blank \in Info /\ Blank.about = Global
  BY <1>1 DEF Blank, Info, Kind
<1>3. /\ Blank.stored = FALSE /\ Blank.group = 0 /\ Blank.kind = "done"
      /\ Blank.firing = 0
  BY DEF Blank
<1>4. ASSUME NEW g \in 0 .. MaxItems, NEW n \in 0 .. MaxItems
      PROVE  /\ Command(g, n) \in Info
             /\ Command(g, n).group = g /\ Command(g, n).kind = "command"
             /\ Command(g, n).firing = n /\ Command(g, n).about = Global
             /\ Command(g, n).stored = FALSE
  <2> DEFINE x == Command(g, n)
             y == Blank
  <2>1. x = [y EXCEPT !.kind = "command", !.group = g, !.firing = n]
    BY DEF Command
  <2>2. y \in Info /\ y.about = Global /\ y.stored = FALSE
    BY <1>2, <1>3
  <2> HIDE DEF x, y
  <2>3. x \in Info
    BY ONLY <2>1, <2>2, g \in 0 .. MaxItems, n \in 0 .. MaxItems DEF Info, Kind
  <2>4. x.group = g /\ x.kind = "command" /\ x.firing = n
    BY ONLY <2>1, <2>2 DEF Info
  <2>5. x.about = Global
    BY ONLY <2>1, <2>2 DEF Info
  <2>6. x.stored = FALSE
    BY ONLY <2>1, <2>2 DEF Info
  <2> QED
    BY <2>3, <2>4, <2>5, <2>6 DEF x
<1> QED
  BY <1>2, <1>3, <1>4

(* What the model queues of a list that is kept. *)
LEMMA StoredFacts ==
    ASSUME NEW st, Shape(st), Grouped(st), st.created < MaxItems,
           NEW b \in BOOLEAN, NEW g \in Groups(st, b)
    PROVE  /\ OfList(st, Stored(st, g, b))
           /\ Stored(st, g, b).nohooks = b /\ Stored(st, g, b).group = g
           /\ Stored(st, g, b).kind = "command" /\ Stored(st, g, b).stored = TRUE
           /\ Stored(st, g, b).firing = st.created + 1
<1> DEFINE n == st.created + 1
           x == Stored(st, g, b)
<1>1. /\ st.created \in Nat /\ n \in 0 .. MaxItems
      /\ \A i \in 1 .. st.created : i \in Item /\ st.info[i].group \in 0 .. MaxItems
  <2>1. \A i \in 1 .. st.created : i \in Item /\ st.info[i] \in Info
    BY ShapeFacts
  <2>2. \A i \in 1 .. st.created : st.info[i].group \in 0 .. MaxItems
    BY <2>1 DEF Info
  <2>3. st.created \in Nat /\ n \in 0 .. MaxItems
    BY ShapeFacts
  <2> QED
    BY <2>1, <2>2, <2>3
<1>2. \/ g = n
      \/ \E k \in 1 .. st.created : /\ st.info[k].stored /\ st.info[k].nohooks = b
                                   /\ g = st.info[k].group
  BY DEF Groups
<1>3. \A i \in 1 .. st.created :
        /\ st.info[i].group <= i
        /\ st.info[i].stored => st.info[i].group # 0
        /\ \A j \in 1 .. st.created : st.info[i].group = st.info[j].group /\ st.info[j].group # 0 =>
             SameList(st.info[i], st.info[j])
  BY DEF Grouped
<1>4. g \in 0 .. MaxItems /\ g # 0 /\ g <= n
  BY <1>1, <1>2, <1>3
<1> HIDE DEF n
<1>5. /\ Command(g, n) \in Info
      /\ Command(g, n).group = g /\ Command(g, n).kind = "command"
      /\ Command(g, n).firing = n /\ Command(g, n).about = Global
  BY <1>1, <1>4, CommandIs
<1>6. x \in Info /\ x.kind = "command" /\ x.about = Global /\ x.group = g
      /\ x.firing = n /\ x.stored = TRUE /\ x.nohooks = b
  <2> DEFINE y == Command(g, n)
  <2>1. x = [y EXCEPT !.stored = TRUE, !.nohooks = b]
    BY DEF Stored, n
  <2>2. /\ y \in Info /\ y.group = g /\ y.kind = "command"
        /\ y.firing = n /\ y.about = Global
    BY <1>5
  <2> HIDE DEF x, y
  <2>3. x \in Info
    BY ONLY <2>1, <2>2, b \in BOOLEAN DEF Info
  <2>4. x.kind = "command" /\ x.about = Global /\ x.group = g /\ x.firing = n
    BY ONLY <2>1, <2>2 DEF Info
  <2>5. x.stored = TRUE /\ x.nohooks = b
    BY ONLY <2>1, <2>2 DEF Info
  <2> QED
    BY <2>3, <2>4, <2>5
<1> HIDE DEF x
<1>7. ASSUME NEW i \in 1 .. st.created, st.info[i].group = g
      PROVE  SameList(st.info[i], x)
  <2>1. g # n
    BY <1>1, <1>3, <1>7 DEF n
  <2>2. PICK k \in 1 .. st.created : /\ st.info[k].stored /\ st.info[k].nohooks = b
                                    /\ g = st.info[k].group
    BY <1>2, <2>1
  <2>3. SameList(st.info[k], st.info[i])
    BY <1>3, <1>4, <1>7, <2>2
  <2>4. st.info[i] \in Info /\ st.info[k] \in Info
    BY <1>1, <1>7, <2>2, ShapeFacts
  <2>5. st.info[i].stored \in BOOLEAN /\ st.info[k].stored \in BOOLEAN
    BY <2>4 DEF Info
  <2>6. st.info[i].stored = TRUE /\ st.info[i].nohooks = b
    BY <2>2, <2>3, <2>5 DEF SameList
  <2> QED
    BY <1>6, <2>6 DEF SameList
<1> QED
  BY <1>4, <1>6, <1>7 DEF OfList, n, x

(* cmdq_insert_after, of a command of a list that is kept, behind an item    *)
(* that is queued; it runs for the client of that item, or for one that is   *)
(* on the list.                                                              *)
LEMMA InsertAfterAfter ==
    ASSUME QueueInv, NEW st, NEW F, After(st, F, {}, Queue), st.created < MaxItems,
           NEW after \in Live, NEW c \in Queue,
           c = info[after].client \/ (info[after].client = Global /\ c \in listed \cup {Global}),
           NEW inf, OfList(st, inf)
    PROVE  LET p == InsertAfter(st, after, c, inf) IN
           /\ After(p, F, {}, Queue)
           /\ p.created = st.created + 1 /\ p.info[p.created].nohooks = inf.nohooks
<1>0. Good(st, F) /\ Shape(st) /\ InLine(st) /\ Grouped(st) /\ Fires(st, F)
  BY DEF After, Made, Good
<1> DEFINE q == info[after].queue
           s == st.queue[q]
           k == CHOOSE n \in DOMAIN s : s[n] = after
           x == [inf EXCEPT !.client = c, !.root = info[after].root]
<1>1. /\ after \in 1 .. created /\ after \in Item /\ q \in Queue
      /\ info[after].client \in Queue /\ info[after] \in Info
      /\ q \in Client => info[after].client = q
  BY LiveFacts DEF QueueInv
<1>2. /\ after \in QueuedIn(st) /\ st.info[after] = info[after] /\ after \in 1 .. st.created
      /\ created <= st.created /\ st.created \in Nat /\ created \in Nat
  <2>1. created <= st.created /\ st.created \in Nat /\ created \in Nat
    BY <1>0, LiveFacts, ShapeFacts DEF After, Made, QueueInv
  <2>2. after \in QueuedIn(st) /\ st.info[after] = info[after]
    BY <1>1 DEF After, Made
  <2> QED
    BY <1>1, <2>1, <2>2
<1>3. k \in DOMAIN s /\ s[k] = after
  <2>1. PICK r \in Queue : after \in Range(st.queue[r])
    BY <1>2 DEF QueuedIn
  <2>2. st.info[after].queue = r
    BY <1>0, <2>1 DEF InLine, Range
  <2>3. \E n \in DOMAIN s : s[n] = after
    BY <1>2, <2>1, <2>2 DEF Range
  <2> QED
    BY <2>3
<1>4. s \in Seq(Item) /\ DOMAIN s = 1 .. Len(s) /\ k \in 0 .. Len(s) /\ k # 0
  <2>1. s \in Seq(Item)
    BY <1>0, <1>1, ShapeFacts
  <2> HIDE DEF k, s
  <2>2. DOMAIN s = 1 .. Len(s)
    BY <2>1
  <2> QED
    BY <1>3, <2>1, <2>2
<1>l. /\ inf \in Info /\ inf.kind = "command" /\ inf.about = Global
      /\ inf.group # 0 /\ inf.group <= st.created + 1 /\ inf.firing = st.created + 1
      /\ \A i \in 1 .. st.created : st.info[i].group = inf.group => SameList(st.info[i], inf)
  BY DEF OfList
<1>5. /\ x \in Info /\ x.root = info[after].root /\ x.client = c /\ x.root \in Nat
      /\ x.group = inf.group /\ x.firing = st.created + 1 /\ x.kind = "command"
      /\ x.about = Global /\ x.stored = inf.stored /\ x.nohooks = inf.nohooks
  <2> DEFINE o == info[after].root
  <2>1. o \in 0 .. MaxItems
    BY <1>1 DEF Info
  <2> HIDE DEF o
  <2>2. x = [inf EXCEPT !.client = c, !.root = o]
    BY DEF o
  <2> HIDE DEF x
  <2>3. /\ x \in Info /\ x.root = o /\ x.client = c /\ x.group = inf.group
        /\ x.firing = inf.firing /\ x.kind = inf.kind /\ x.about = inf.about
        /\ x.stored = inf.stored /\ x.nohooks = inf.nohooks
    <3>1. inf \in Info /\ c \in Queue
      BY <1>l
    <3>2. x \in Info /\ x.root = o /\ x.client = c
      BY ONLY <2>1, <2>2, <3>1 DEF Info
    <3>3. x.group = inf.group /\ x.firing = inf.firing /\ x.kind = inf.kind /\ x.about = inf.about
      BY ONLY <2>2, <3>1 DEF Info
    <3>4. x.stored = inf.stored /\ x.nohooks = inf.nohooks
      BY ONLY <2>2, <3>1 DEF Info
    <3> QED
      BY <3>2, <3>3, <3>4
  <2>4. o \in Nat
    BY <2>1
  <2>5. x.firing = st.created + 1 /\ x.kind = "command" /\ x.about = Global
    BY <1>l, <2>3
  <2> QED
    BY <2>3, <2>4, <2>5, Zenon DEF o
<1>6. \A m \in 1 .. Len(s) :
        /\ s[m] \in 1 .. st.created
        /\ \A n \in 1 .. Len(s) : m < n => st.info[s[m]].root <= st.info[s[n]].root
  BY <1>0, <1>1, <1>4 DEF InLine
<1> HIDE DEF x, s, k, q
<1>7. MayPlace(st, F, q, k, x)
  <2>1. ASSUME NEW m \in 1 .. Len(s)
        PROVE  IF m <= k THEN st.info[s[m]].root <= x.root
                         ELSE x.root <= st.info[s[m]].root
    <3>1. CASE m = k
      BY <1>2, <1>3, <1>5, <3>1
    <3>2. CASE m < k
      BY <1>2, <1>3, <1>4, <1>5, <1>6, <3>2
    <3>3. CASE m > k
      BY <1>2, <1>3, <1>4, <1>5, <1>6, <3>3
    <3> QED
      BY <1>4, <3>1, <3>2, <3>3
  <2>2. x.root <= st.created + 1
    BY <1>0, <1>2, <1>5 DEF Grouped
  <2>3. x.group # 0 /\ x.group <= st.created + 1 /\ x.firing <= st.created + 1
    BY <1>2, <1>5, <1>l
  <2>4. ASSUME NEW i \in 1 .. st.created
        PROVE  /\ st.info[i].firing # x.firing
               /\ st.info[i].group = x.group => SameList(st.info[i], x)
    <3>1. st.info[i].firing <= i /\ st.info[i].firing \in Nat
      BY <1>0, ShapeFacts DEF Grouped
    <3>2. st.info[i].firing # x.firing
      BY <1>2, <1>5, <3>1
    <3>3. st.info[i].group = x.group => SameList(st.info[i], inf)
      BY <1>5, <1>l
    <3> QED
      BY <1>5, <1>l, <3>2, <3>3 DEF SameList
  <2>5. \A j \in F : st.info[j].queue = q => st.info[j].root <= x.root
    <3> SUFFICES ASSUME NEW j \in F, st.info[j].queue = q PROVE st.info[j].root <= x.root
      OBVIOUS
    <3>1. st.info[after].root >= st.info[j].root
      BY <1>0, <1>2 DEF Fires, q
    <3>2. j \in Item
      BY <1>0, ShapeFacts DEF Fires
    <3> QED
      BY <1>0, <1>2, <1>5, <3>1, <3>2, ShapeFacts
  <2>6. q \in Client => x.client = q
    BY <1>1, <1>5, CmdQueueAssumption DEF q
  <2>9. x.kind # "done"
    BY <1>5
  <2>7. k \in 0 .. Len(st.queue[q]) /\ k # 0
    BY <1>4 DEF s
  <2>8. \A m \in 1 .. Len(st.queue[q]) :
          IF m <= k THEN st.info[st.queue[q][m]].root <= x.root
                    ELSE x.root <= st.info[st.queue[q][m]].root
    BY <2>1 DEF s
  <2> QED
    BY <1>1, <1>5, <2>2, <2>3, <2>4, <2>5, <2>6, <2>7, <2>8, <2>9
         DEF MayPlace, q
<1>8. \A d \in Client : d \in Holds(x) => st.refs[d] # 0
  <2> SUFFICES ASSUME c \in Client PROVE st.refs[c] # 0
    BY <1>5, CmdQueueAssumption DEF Holds
  <2>1. /\ st.refs[c] = Cardinality(HeldIn(st, c)) + (IF c \in listed THEN 1 ELSE 0)
        /\ Cardinality(HeldIn(st, c)) \in Nat
    BY <1>0, QueuedFinite DEF After, Made, Counts
  <2>2. CASE c \in listed
    BY <2>1, <2>2
  <2>3. CASE c = info[after].client
    <3>1. c \in Holds(st.info[after])
      BY <1>2, <2>3 DEF Holds
    <3>2. Cardinality(HeldIn(st, c)) # 0
      BY <1>0, <1>2, <3>1, QueuedFinite
    <3> QED
      BY <2>1, <3>2
  <2> QED
    BY <2>2, <2>3, CmdQueueAssumption
<1> DEFINE p == InsertAfter(st, after, c, inf)
<1>9. p = Place(st, q, k, x)
  BY DEF InsertAfter, q, k, x, s
<1> HIDE DEF p
<1>10. After(p, F, {}, Queue) /\ Placed(st, p, q, k, x)
  <2>1. Queue \in SUBSET Queue /\ {} \subseteq Live
    OBVIOUS
  <2>2. x.firing > created
    BY <1>2, <1>5
  <2> QED
    BY <1>7, <1>8, <1>9, <2>1, <2>2, PlaceAfter
<1>11. p.created = st.created + 1 /\ p.info[p.created].nohooks = x.nohooks
  BY <1>0, <1>7, <1>10, PlacedFacts
<1> QED
  BY <1>5, <1>10, <1>11 DEF p

(* cmdq_remove, of an item that was there before. *)
LEMMA RemoveAfter ==
    ASSUME QueueInv, NEW st, NEW F, NEW D, NEW Q \in SUBSET Queue, After(st, F, D, Q),
           D \subseteq Live, NEW i \in Live \ D, info[i].queue \notin Q
    PROVE  After(RemoveItem(st, i), F, D \cup {i}, Q)
<1> DEFINE r == RemoveItem(st, i)
           q == info[i].queue
<1>0. Good(st, F) /\ Counts(st, listed, freed) /\ Shape(st) /\ InLine(st)
  BY DEF After, Made, Good
<1>1. i \in QueuedIn(st) /\ info[i] = st.info[i] /\ i \in 1 .. created
  <2>1. i \in 1 .. created
    BY LiveFacts DEF QueueInv
  <2> QED
    BY <2>1 DEF After, Made
<1>2. Removed(st, r, q, {i}) /\ Counts(r, listed, freed)
  <2>1. freed \in SUBSET Client
    BY DEF QueueInv, Clients
  <2> QED
    BY <1>0, <1>1, <2>1, RemoveItemIs
<1> HIDE DEF r
<1>3. Good(r, F) /\ QueuedIn(r) = QueuedIn(st) \ {i}
  BY <1>0, <1>2, RemovedGood, RemovedQueued
<1> QED
  BY <1>2, <1>3 DEF After, Made, Removed, r

(* cmdq_remove_group. *)
LEMMA RemoveGroupAfter ==
    ASSUME QueueInv, NEW st, NEW F, After(st, F, {}, Queue), NEW i \in Live,
           info[i].group # 0,
           \A j \in created + 1 .. st.created : st.info[j].group # info[i].group
    PROVE  \E D \in SUBSET Live :
             /\ D = {j \in Live : /\ info[j].queue = info[i].queue
                                 /\ info[j].group = info[i].group /\ j # i}
             /\ After(RemoveGroup(st, i), F, D, Queue \ {info[i].queue})
<1> DEFINE r == RemoveGroup(st, i)
           q == info[i].queue
           g == info[i].group
           D == {j \in Live : info[j].queue = q /\ info[j].group = g /\ j # i}
<1>0. Good(st, F) /\ Counts(st, listed, freed) /\ Shape(st) /\ InLine(st)
  BY DEF After, Made, Good
<1>1. /\ i \in QueuedIn(st) /\ info[i] = st.info[i] /\ i \in 1 .. created
      /\ q \in Queue /\ g \in Nat /\ g <= created /\ created \in Nat
  <2>1. i \in 1 .. created /\ i \in Item /\ created \in Nat /\ q \in Queue
    BY LiveFacts DEF QueueInv
  <2>2. i \in QueuedIn(st) /\ info[i] = st.info[i]
    BY <2>1 DEF After, Made
  <2>3. g <= i /\ g \in Nat
    <3>1. Grouped(State) /\ Shape(State)
      BY DEF QueueInv, Good
    <3> QED
      BY <2>1, <3>1, StateFacts, ShapeFacts DEF Grouped
  <2> QED
    BY <2>1, <2>2, <2>3
<1>2. Removed(st, r, q, Doomed(st, i)) /\ Counts(r, listed, freed)
  <2>1. freed \in SUBSET Client
    BY DEF QueueInv, Clients
  <2> QED
    BY <1>0, <1>1, <2>1, RemoveGroupIs
<1>3. Doomed(st, i) = D
  <2>1. ASSUME NEW j \in Doomed(st, i) PROVE j \in D
    <3>1. j \in Range(st.queue[q]) /\ st.info[j].group = g /\ j # i
      BY <2>1 DEF Doomed
    <3>2. j \in QueuedIn(st) /\ st.info[j].queue = q
      BY <1>0, <1>1, <3>1 DEF QueuedIn, InLine, Range
    <3>3. j \in Live \/ j \in created + 1 .. st.created
      BY <3>2 DEF After, Made
    <3>4. j \notin created + 1 .. st.created
      BY <3>1
    <3>5. j \in Live /\ j \in 1 .. created
      BY <3>3, <3>4, LiveFacts DEF QueueInv
    <3>6. st.info[j] = info[j]
      BY <3>5 DEF After, Made
    <3> QED
      BY <3>1, <3>2, <3>5, <3>6
  <2>2. ASSUME NEW j \in D PROVE j \in Doomed(st, i)
    <3>1. j \in 1 .. created
      BY LiveFacts DEF QueueInv
    <3>2. j \in QueuedIn(st) /\ st.info[j] = info[j]
      BY <3>1 DEF After, Made
    <3>3. PICK p \in Queue : j \in Range(st.queue[p])
      BY <3>2 DEF QueuedIn
    <3>4. p = q
      BY <1>0, <3>2, <3>3 DEF InLine, Range
    <3> QED
      BY <3>2, <3>3, <3>4 DEF Doomed
  <2> QED
    BY <2>1, <2>2
<1> HIDE DEF r, D
<1>4. Good(r, F) /\ QueuedIn(r) = QueuedIn(st) \ D
  BY <1>0, <1>2, <1>3, RemovedGood, RemovedQueued
<1>5. After(r, F, D, Queue \ {q})
  BY <1>2, <1>4 DEF After, Made, Removed
<1>6. D \in SUBSET Live
  BY DEF D
<1> QED
  BY <1>5, <1>6 DEF D, r

----------------------------------------------------------------------------
(* Commit makes the variables hold the record. *)
LEMMA CommitState ==
    ASSUME NEW r, Shape(r), Commit(r)
    PROVE  State' = r
<1>1. r = [queue |-> r.queue, info |-> r.info, refs |-> r.refs, dying |-> r.dying,
           created |-> r.created]
  BY DEF Shape
<1>2. State' = [queue |-> queue', info |-> info', refs |-> refs', dying |-> dying',
                created |-> created']
  BY DEF State
<1> QED
  BY <1>1, <1>2 DEF Commit

(* The variables after Commit. *)
LEMMA CommitFacts ==
    ASSUME NEW r, Shape(r), Commit(r)
    PROVE  /\ State' = r /\ created' = r.created /\ info' = r.info /\ queue' = r.queue
           /\ Live' = QueuedIn(r)
<1>1. Live' = QueuedIn(r)
  BY DEF Commit, Live, QueuedIn
<1> QED
  BY <1>1, CommitState DEF Commit

(* A step that makes r of the queues keeps the invariant, if what it removes *)
(* has fired or belongs to a group that failed, and what waits stays where   *)
(* it is.                                                                    *)
LEMMA StepKeeps ==
    ASSUME QueueInv, NEW r, NEW F, NEW D, NEW Q, Made(r, F, D, Q),
           Counts(r, listed', freed'), Commit(r), Kept(F, D, Q)
    PROVE  QueueInv'
<1> USE DEF Kept
<1>1. /\ State' = r /\ created' = r.created /\ info' = r.info /\ queue' = r.queue
      /\ Live' = QueuedIn(r)
  BY CommitFacts DEF After, Made, Good
<1>2. /\ created \in Nat /\ r.created \in Nat /\ created <= r.created
      /\ \A i \in 1 .. created : r.info[i] = info[i]
      /\ Live \subseteq 1 .. created /\ 1 .. created \subseteq Item
      /\ \A i \in Item : info[i].group \in Nat /\ info[i].firing \in Nat
  <2>1. Shape(r) /\ Shape(State)
    BY DEF After, Made, Good, QueueInv
  <2> QED
    BY <2>1, LiveFacts, ShapeFacts, StateFacts DEF After, Made, QueueInv
<1>3. Good(State', fired') /\ Counts(State', listed', freed')
  BY <1>1 DEF After, Made
<1>4. Waits'
  <2>1. ASSUME NEW i \in Item, flag'[i] = "waiting" \/ i \in job'
        PROVE  queue'[info'[i].queue] # <<>> /\ Head(queue'[info'[i].queue]) = i
    <3>1. info'[i] = info[i]
      BY <1>1, <1>2, <2>1
    <3> QED
      BY <1>1, <2>1, <3>1 DEF After, Made
  <2> QED
    BY <2>1 DEF Waits, Waiting
<1>5. ErrorEndsGroup'
  <2> SUFFICES ASSUME NEW i \in failed', NEW j \in i + 1 .. created',
                      info'[j].group = info'[i].group, info'[j].firing = info'[i].firing
               PROVE  j \notin fired' /\ j \notin Live'
    BY DEF ErrorEndsGroup
  <2>1. i \in 1 .. created /\ info'[i] = info[i] /\ info[i].group # 0
    BY <1>1, <1>2
  <2>2. info[i].firing <= i
    BY <2>1, StateFacts DEF QueueInv, Good, Grouped
  <2>3. CASE j \in 1 .. created
    <3>1. j \notin F /\ (j \in Live => j \in D) /\ j \notin created + 1 .. r.created
      BY <1>1, <1>2, <2>1, <2>3
    <3> QED
      BY <1>1, <3>1 DEF After, Made
  <2>4. CASE j \in created + 1 .. r.created
    <3>1. r.info[j].firing > created
      BY <2>4 DEF After, Made
    <3>2. info[i].firing \in Nat
      BY <1>2, <2>1
    <3> QED
      BY <1>1, <1>2, <2>1, <2>2, <3>1, <3>2
  <2> QED
    BY <1>1, <1>2, <2>1, <2>3, <2>4
<1>6. NothingLost'
  <2> SUFFICES ASSUME NEW j \in 1 .. created', j \notin fired', j \notin Live'
               PROVE  \E i \in failed' : Took(i, j)'
    BY DEF NothingLost, Took
  <2>1. j \in 1 .. created
    <3> SUFFICES ASSUME j \in created + 1 .. r.created PROVE FALSE
      BY <1>1, <1>2
    <3>1. j \notin D
      BY <1>2
    <3> QED
      BY <1>1, <3>1 DEF After, Made
  <2>2. \E i \in failed' : Took(i, j)
    <3>1. CASE j \in Live
      <4>1. j \in D
        BY <1>1, <3>1 DEF After, Made
      <4> QED
        BY <4>1
    <3>2. CASE j \notin Live
      <4>1. NothingLost /\ failed \subseteq failed' /\ j \notin fired
        BY DEF QueueInv, Outcomes
      <4>2. \E i \in failed : Took(i, j)
        BY ONLY <2>1, <3>2, <4>1 DEF NothingLost, Took
      <4> QED
        BY <4>1, <4>2
    <3> QED
      BY <3>1, <3>2
  <2>3. PICK i \in failed' : Took(i, j)
    BY <2>2
  <2>4. info'[i] = info[i] /\ info'[j] = info[j]
    BY <1>1, <1>2, <2>1, <2>3
  <2>5. Took(i, j)'
    BY ONLY <2>3, <2>4 DEF Took
  <2> QED
    BY <2>5
<1>7. Outcomes'
  <2>1. \A i \in failed' : info'[i].group # 0
    BY <1>1, <1>2
  <2> QED
    BY <1>5, <1>6, <2>1 DEF Outcomes
<1> QED
  BY <1>3, <1>4, <1>7 DEF QueueInv

(* The same, if the clients stay as they are. *)
LEMMA StepInv ==
    ASSUME QueueInv, NEW r, NEW F, NEW D, NEW Q, After(r, F, D, Q), Commit(r), Kept(F, D, Q),
           listed' = listed, freed' = freed
    PROVE  QueueInv'
  BY StepKeeps DEF After

----------------------------------------------------------------------------
(* The wait channels. *)
LEMMA WaitStep ==
    ASSUME WaitForInv, NEW i \in Item, NEW ch \in Channel, NEW b \in BOOLEAN,
           WaitForCommand(i, ch, b)
    PROVE  /\ WaitForInv'
           /\ flag'[i] # "ready"
           /\ OnlyWakes(i)
<1>1. WaitForInv'
  BY SignalInv, LockInv, UnlockInv, WaitInv DEF WaitForCommand
<1>2. \A j \in Item : Queued(j) # {} => flag[j] = "waiting"
  BY DEF WaitForInv, NobodyStranded
<1>3. /\ \A j \in Range(chan[ch].waiters) \cap Item : flag[j] = "waiting"
      /\ \A j \in Range(chan[ch].lockers) \cap Item : flag[j] = "waiting"
  BY <1>2 DEF Queued
<1>4. ASSUME NEW rr \in {"waiting", "done", "error"}, NEW S, Continue(i, rr, S),
             \A j \in S \cap Item : flag[j] = "waiting"
      PROVE  /\ flag'[i] # "ready"
             /\ OnlyWakes(i)
  BY <1>4 DEF Continue, OnlyWakes
<1>5. CASE Signal(i, ch)
  <2>1. Continue(i, "done", {}) \/ Continue(i, "done", Range(chan[ch].waiters))
    BY <1>5, ChannelFacts DEF Signal, Add, WaitChannel
  <2> QED
    BY <1>1, <1>3, <1>4, <2>1
<1>6. CASE Lock(i, ch, b)
  <2>1. \E x \in {"waiting", "done", "error"} : Continue(i, x, {})
    BY <1>6 DEF Lock, Fail
  <2> QED
    BY <1>1, <1>4, <2>1
<1>7. CASE Unlock(i, ch)
  <2>1. \/ \E x \in {"waiting", "done", "error"} : Continue(i, x, {})
        \/ chan[ch].lockers # <<>> /\ Continue(i, "done", {Head(chan[ch].lockers)})
    BY <1>7 DEF Unlock, Fail
  <2>2. chan[ch].lockers # <<>> =>
          \A j \in {Head(chan[ch].lockers)} \cap Item : flag[j] = "waiting"
    <3> SUFFICES ASSUME chan[ch].lockers # <<>>
                 PROVE  Head(chan[ch].lockers) \in Range(chan[ch].lockers)
      BY <1>3
    <3>1. chan[ch].lockers \in Seq(Item)
      BY ChannelFacts
    <3> QED
      BY <3>1, TailRange
  <2> QED
    BY <1>1, <1>4, <2>1, <2>2
<1>8. CASE Wait(i, ch, b)
  <2>1. \E x \in {"waiting", "done", "error"} : Continue(i, x, {})
    BY <1>8 DEF Wait, Fail
  <2> QED
    BY <1>1, <1>4, <2>1
<1> QED
  BY <1>5, <1>6, <1>7, <1>8 DEF WaitForCommand

(* Flushing the wait-for channels makes nobody wait again. *)
LEMMA FlushStep ==
    ASSUME WaitForInv, Flush
    PROVE  /\ WaitForInv'
           /\ \A j \in Item : flag'[j] = "waiting" => flag[j] = "waiting"
           /\ \A j \in Item : flag'[j] # "ready" => flag[j] # "ready"
<1>1. WaitForInv'
  BY FlushInv
<1>2. \A j \in Item : Queued(j) # {} => flag[j] = "waiting"
  BY DEF WaitForInv, NobodyStranded
<1>3. \A j \in Item, ch \in Channel :
        j \in Range(chan[ch].waiters) \cup Range(chan[ch].lockers) => flag[j] = "waiting"
  BY <1>2 DEF Queued
<1> DEFINE present == {ch \in Channel : chan[ch].present}
           queued(ch) == Range(chan[ch].waiters) \cup Range(chan[ch].lockers)
<1>4. flag' = [j \in Item |-> IF \E ch \in present : j \in queued(ch)
                              THEN "done" ELSE flag[j]]
  BY ONLY Flush DEF Flush
<1>5. \A ch \in present : \A j \in Item : j \in queued(ch) => flag[j] = "waiting"
  BY ONLY <1>3
<1> HIDE DEF present, queued
<1>6. ASSUME NEW j \in Item
      PROVE  /\ flag'[j] = "waiting" => flag[j] = "waiting"
             /\ flag'[j] # "ready" => flag[j] # "ready"
  <2>1. flag'[j] = IF \E ch \in present : j \in queued(ch) THEN "done" ELSE flag[j]
    BY ONLY <1>4, j \in Item
  <2>2. (\E ch \in present : j \in queued(ch)) => flag[j] = "waiting"
    BY ONLY <1>5, j \in Item
  <2> QED
    BY ONLY <2>1, <2>2
<1> QED
  BY <1>1, <1>6

(* A step that leaves the wait-for channels alone. *)
LEMMA SameWaits ==
    ASSUME WaitForInv, UNCHANGED wvars
    PROVE  WaitForInv' /\ flag' = flag
  BY DEF WaitForInv, wvars, WaitForTypeOK, NoSleepOnWoken, NobodyStranded, Queued,
         QueuedOnce, MutualExclusion

----------------------------------------------------------------------------
(* The item that is to fire is queued at the head and does not wait. *)
LEMMA ReadyFacts ==
    ASSUME QueueInv, NEW i \in Item, Ready(i)
    PROVE  /\ i \in Live /\ i \in 1 .. created /\ i \notin fired /\ i \notin job
           /\ info[i].queue \in Queue
           /\ queue[info[i].queue] # <<>> /\ i = Head(queue[info[i].queue])
           /\ After(State, fired \cup {i}, {}, Queue)
           /\ fired \cup {i} \subseteq 1 .. created
           /\ \A j \in Live : info[j].queue = info[i].queue => info[j].root >= info[i].root
           /\ info[i].kind = "command" => info[i].group # 0
<1>1. running \in Queue /\ queue[running] # <<>> /\ i = Head(queue[running]) /\ i \notin fired
  BY DEF Ready
<1>2. /\ Good(State, fired \cup {i})
      /\ i \in Live /\ info[i].queue = running
      /\ \A j \in Live : info[j].queue = running => info[j].root >= info[i].root
  BY <1>1, HeadFires
<1>3. After(State, fired \cup {i}, {}, Queue)
  BY <1>2, StateAfter DEF QueueInv
<1>4. i \in 1 .. created
  BY <1>2, LiveFacts DEF QueueInv
<1>5. fired \cup {i} \subseteq 1 .. created
  BY <1>2, StateFacts DEF Good, Fires
<1>6. i \notin job
  BY <1>1 DEF QueueInv, Waits
<1>7. info[i].kind = "command" => info[i].group # 0
  BY <1>4, StateFacts DEF QueueInv, Good, Grouped
<1> QED
  BY <1>1, <1>2, <1>3, <1>4, <1>5, <1>6, <1>7

(* What waits while item i fires is the head of another queue. *)
LEMMA OthersWait ==
    ASSUME QueueInv, NEW i \in Item, Ready(i), job' = job,
           OnlyWakes(i)
    PROVE  /\ \A j \in Item : flag'[j] # "ready" => j \in fired \cup {i}
           /\ \A j \in Item : j # i /\ (flag'[j] = "waiting" \/ j \in job') =>
                /\ j \in fired \cup {i} /\ info[j].queue \in Queue \ {info[i].queue}
                /\ queue[info[j].queue] # <<>> /\ Head(queue[info[j].queue]) = j
<1>1. ASSUME NEW j \in Item, j # i, flag'[j] = "waiting" \/ j \in job'
      PROVE  /\ j \in fired /\ info[j].queue # info[i].queue
             /\ queue[info[j].queue] # <<>> /\ Head(queue[info[j].queue]) = j
  <2>0. flag'[j] = "waiting" => flag[j] = "waiting"
    BY <1>1 DEF OnlyWakes
  <2>1. Waiting(j)
    BY <1>1, <2>0 DEF Waiting
  <2>2. queue[info[j].queue] # <<>> /\ Head(queue[info[j].queue]) = j
    BY <2>1 DEF QueueInv, Waits
  <2>3. j \in fired
    BY <2>1 DEF QueueInv, Waits, Waiting
  <2> QED
    BY <1>1, <2>2, <2>3, ReadyFacts
<1>2. \A j \in Item : info[j].queue \in Queue
  BY ShapeFacts, StateFacts DEF QueueInv, Good
<1>3. ASSUME NEW j \in Item, flag'[j] # "ready" PROVE j \in fired \cup {i}
  <2>1. flag[j] # "ready" => j \in fired
    BY DEF QueueInv, Waits
  <2>2. j # i => flag[j] # "ready"
    BY <1>3 DEF OnlyWakes
  <2> QED
    BY <2>1, <2>2
<1> QED
  BY <1>1, <1>2, <1>3

(* The item that fires succeeds and is removed. *)
LEMMA SucceedInv ==
    ASSUME QueueInv, NEW i \in Item, Ready(i), NEW st,
           After(st, fired \cup {i}, {}, Queue), Succeed(i, st),
           exiting' \subseteq Client, WaitForInv', flag'[i] # "waiting",
           OnlyWakes(i)
    PROVE  QueueInv'
<1> DEFINE F == fired \cup {i}
           q == info[i].queue
           r == RemoveItem(st, i)
<1>1. /\ i \in Live /\ i \notin job /\ q \in Queue /\ F \subseteq 1 .. created
      /\ i \notin fired
  BY ReadyFacts
<1>2. /\ Commit(r) /\ fired' = F /\ failed' = failed /\ job' = job /\ running' = running
      /\ listed' = listed /\ freed' = freed
  BY DEF Succeed
<1>3. After(r, F, {i}, Queue \ {q})
  <2>1. After(st, F, {}, Queue \ {q})
    BY DEF After, Made
  <2>2. {} \cup {i} = {i} /\ {} \subseteq Live /\ i \in Live \ {} /\ q \notin Queue \ {q}
    BY <1>1
  <2> QED
    BY <2>1, <2>2, RemoveAfter
<1>4. Clients'
  BY <1>2 DEF QueueInv, Clients
<1>5. /\ \A j \in Item : flag'[j] # "ready" => j \in F
      /\ \A j \in Item : flag'[j] = "waiting" \/ j \in job' =>
           /\ j \in F /\ info[j].queue \in Queue \ {q}
           /\ queue[info[j].queue] # <<>> /\ Head(queue[info[j].queue]) = j
  <2>1. \A j \in Item : flag'[j] = "waiting" \/ j \in job' => j # i
    BY <1>1, <1>2
  <2> QED
    BY <1>2, <2>1, OthersWait
<1>6. /\ job' \subseteq F /\ failed' \subseteq F /\ \A j \in failed' : info[j].group # 0
  BY <1>2 DEF QueueInv, Waits, Outcomes
<1>7. \A j \in failed', k \in 1 .. created :
        j < k /\ info[j].group = info[k].group /\ info[j].firing = info[k].firing =>
          k \notin F /\ (k \in Live => k \in {i})
  <2> SUFFICES ASSUME NEW j \in failed', NEW k \in 1 .. created,
                      j < k, info[j].group = info[k].group, info[j].firing = info[k].firing
               PROVE  k \notin F /\ k \notin Live
    OBVIOUS
  <2>1. j \in failed /\ j \in 1 .. created
    BY <1>1, <1>2, <1>6
  <2>2. k \in j + 1 .. created
    BY <2>1
  <2>3. k \notin fired /\ k \notin Live
    BY <2>1, <2>2 DEF QueueInv, Outcomes, ErrorEndsGroup
  <2> QED
    BY <1>1, <2>3
<1>8. fired \subseteq F /\ {i} \subseteq Live /\ Queue \ {q} \subseteq Queue /\ i \in F
  BY <1>1
<1> HIDE DEF F, q, r
<1>9. Kept(F, {i}, Queue \ {q})
  BY <1>1, <1>2, <1>4, <1>5, <1>6, <1>7, <1>8 DEF Kept
<1> QED
  BY <1>2, <1>3, <1>9, StepInv

(* A command of a list that is kept, inserted behind an item. *)
LEMMA StoredAfter ==
    ASSUME QueueInv, NEW st, NEW F, After(st, F, {}, Queue), st.created < MaxItems,
           NEW i \in Live, NEW c \in Queue,
           c = info[i].client \/ (info[i].client = Global /\ c \in listed \cup {Global}),
           NEW b \in BOOLEAN, NEW g \in Groups(st, b)
    PROVE  LET p == InsertAfter(st, i, c, Stored(st, g, b)) IN
           /\ After(p, F, {}, Queue)
           /\ p.created = st.created + 1 /\ p.info[p.created].nohooks = b
<1> DEFINE x == Stored(st, g, b)
<1>1. Shape(st) /\ Grouped(st)
  BY DEF After, Made, Good
<1>2. OfList(st, x) /\ x.nohooks = b
  BY <1>1, StoredFacts
<1> HIDE DEF x
<1>3. LET p == InsertAfter(st, i, c, x) IN
      /\ After(p, F, {}, Queue)
      /\ p.created = st.created + 1 /\ p.info[p.created].nohooks = x.nohooks
  BY <1>2, InsertAfterAfter
<1> QED
  BY <1>2, <1>3 DEF x

(* Hooks behind an item, which itself is not of a hook. *)
LEMMA HooksAfter ==
    ASSUME QueueInv, NEW st, NEW F, After(st, F, {}, Queue),
           NEW i \in Live, NEW c \in Queue,
           c = info[i].client \/ (info[i].client = Global /\ c \in listed \cup {Global}),
           NEW h \in Hooks(st, i, c)
    PROVE  /\ After(h, F, {}, Queue)
           /\ \/ h = st
              \/ /\ ~info[i].nohooks
                 /\ h.created = st.created + 1 /\ h.info[h.created].nohooks = TRUE
<1> SUFFICES ASSUME h # st
             PROVE  /\ After(h, F, {}, Queue) /\ ~info[i].nohooks
                    /\ h.created = st.created + 1 /\ h.info[h.created].nohooks = TRUE
  OBVIOUS
<1>1. /\ ~info[i].nohooks /\ st.created # MaxItems
      /\ \E g \in Groups(st, TRUE) : h = InsertAfter(st, i, c, Stored(st, g, TRUE))
  BY DEF Hooks
<1>2. st.created < MaxItems
  BY <1>1, ShapeFacts DEF After, Made, Good
<1>3. PICK g \in Groups(st, TRUE) : h = InsertAfter(st, i, c, Stored(st, g, TRUE))
  BY <1>1
<1>4. LET p == InsertAfter(st, i, c, Stored(st, g, TRUE)) IN
      /\ After(p, F, {}, Queue)
      /\ p.created = st.created + 1 /\ p.info[p.created].nohooks = TRUE
  BY <1>2, StoredAfter
<1> QED
  BY <1>1, <1>3, <1>4

(* Commands that a command inserts behind itself. *)
LEMMA NestedAfter ==
    ASSUME QueueInv, NEW F, After(State, F, {}, Queue),
           NEW i \in Live, NEW c \in Queue,
           c = info[i].client \/ (info[i].client = Global /\ c \in listed \cup {Global}),
           NEW h \in Nested(i, c)
    PROVE  After(h, F, {}, Queue)
<1> SUFFICES ASSUME h # State PROVE After(h, F, {}, Queue)
  OBVIOUS
<1>1. Room(1) /\ \E b \in {info[i].nohooks, FALSE} : \E g \in Groups(State, b) :
        h = InsertAfter(State, i, c, Stored(State, g, b))
  BY DEF Nested
<1>2. State.created < MaxItems /\ info[i].nohooks \in BOOLEAN
  <2>1. info[i] \in Info /\ created \in Nat /\ MaxItems \in Nat
    BY LiveFacts, CmdQueueAssumption DEF QueueInv
  <2>2. info[i].nohooks \in BOOLEAN
    BY <2>1 DEF Info
  <2> QED
    BY <1>1, <2>1, <2>2, StateFacts DEF Room
<1>3. PICK b \in BOOLEAN : \E g \in Groups(State, b) :
        h = InsertAfter(State, i, c, Stored(State, g, b))
  BY <1>1, <1>2
<1>4. PICK g \in Groups(State, b) : h = InsertAfter(State, i, c, Stored(State, g, b))
  BY <1>3
<1>5. LET p == InsertAfter(State, i, c, Stored(State, g, b)) IN
      /\ After(p, F, {}, Queue)
      /\ p.created = State.created + 1 /\ p.info[p.created].nohooks = b
  BY <1>2, <1>4, StoredAfter
<1> QED
  BY <1>4, <1>5

(* The client a command is found to run for. *)
LEMMA FoundFacts ==
    ASSUME QueueInv, NEW i \in Live, NEW fc \in FoundClient(i)
    PROVE  /\ fc \in Queue
           /\ fc = info[i].client \/ (info[i].client = Global /\ fc \in listed \cup {Global})
<1>1. info[i].client \in Queue
  BY LiveFacts DEF QueueInv
<1> QED
  BY <1>1 DEF FoundClient, QueueInv, Clients, Queue

(* The item that fires fails: its group goes with it. *)
LEMMA AbortInv ==
    ASSUME QueueInv, NEW i \in Item, Ready(i), info[i].kind = "command",
           Abort(i, State), exiting' = exiting, WaitForInv', flag'[i] # "waiting",
           OnlyWakes(i)
    PROVE  QueueInv'
<1> DEFINE F == fired \cup {i}
           q == info[i].queue
           g == info[i].group
           Rest == {j \in Live : info[j].queue = q /\ info[j].group = g /\ j # i}
<1>1. /\ i \in Live /\ i \in 1 .. created /\ i \notin job /\ q \in Queue
      /\ F \subseteq 1 .. created /\ i \notin fired /\ g # 0
      /\ After(State, F, {}, Queue)
      /\ \A j \in Live : info[j].queue = q => info[j].root >= info[i].root
  BY ReadyFacts
<1>2. /\ fired' = F /\ failed' = failed \cup {i} /\ job' = job /\ running' = running
      /\ listed' = listed /\ freed' = freed
  BY DEF Abort
<1>3. PICK h : /\ After(h, F, {}, Queue) /\ Commit(RemoveItem(RemoveGroup(h, i), i))
               /\ \A j \in created + 1 .. h.created : h.info[j].group # g
  <2>1. PICK h \in Hooks(State, i, info[i].client) : Commit(RemoveItem(RemoveGroup(h, i), i))
    BY DEF Abort
  <2>2. info[i].client \in Queue
    BY <1>1, LiveFacts DEF QueueInv
  <2>3. /\ After(h, F, {}, Queue)
        /\ \/ h = State
           \/ /\ ~info[i].nohooks
              /\ h.created = State.created + 1 /\ h.info[h.created].nohooks = TRUE
    BY <1>1, <2>1, <2>2, HooksAfter
  <2>4. created \in Nat /\ State.created = created
    BY LiveFacts, StateFacts DEF QueueInv
  <2>5. ASSUME NEW j \in created + 1 .. h.created, h.info[j].group = g PROVE FALSE
    <3>1. h # State
      BY <2>4, <2>5
    <3>2. /\ ~info[i].nohooks /\ j = h.created /\ h.info[j].nohooks = TRUE
          /\ i \in 1 .. h.created /\ j \in 1 .. h.created
      BY <1>1, <2>3, <2>4, <2>5, <3>1
    <3>3. Grouped(h) /\ h.info[i] = info[i]
      BY <1>1, <2>3 DEF After, Made, Good
    <3>4. SameList(h.info[i], h.info[j])
      BY <1>1, <2>5, <3>2, <3>3 DEF Grouped
    <3> QED
      BY <3>2, <3>3, <3>4 DEF SameList
  <2> QED
    BY <2>1, <2>3, <2>5
<1> DEFINE r == RemoveItem(RemoveGroup(h, i), i)
           D == Rest \cup {i}
<1>4. After(r, F, D, Queue \ {q})
  <2>1. After(RemoveGroup(h, i), F, Rest, Queue \ {q})
    <3>1. \E E \in SUBSET Live : E = Rest /\ After(RemoveGroup(h, i), F, E, Queue \ {q})
      BY <1>1, <1>3, RemoveGroupAfter
    <3> QED
      BY <3>1
  <2>2. Rest \subseteq Live /\ i \in Live \ Rest /\ q \notin Queue \ {q}
    BY <1>1
  <2> HIDE DEF Rest, q
  <2> QED
    BY <2>1, <2>2, RemoveAfter DEF q
<1>5. Clients'
  BY <1>2 DEF QueueInv, Clients
<1>6. /\ \A j \in Item : flag'[j] # "ready" => j \in F
      /\ \A j \in Item : flag'[j] = "waiting" \/ j \in job' =>
           /\ j \in F /\ info[j].queue \in Queue \ {q}
           /\ queue[info[j].queue] # <<>> /\ Head(queue[info[j].queue]) = j
  <2>1. \A j \in Item : flag'[j] = "waiting" \/ j \in job' => j # i
    BY <1>1, <1>2
  <2> QED
    BY <1>2, <2>1, OthersWait
<1>7. /\ job' \subseteq F /\ failed' \subseteq F /\ \A j \in failed' : info[j].group # 0
  BY <1>1, <1>2 DEF QueueInv, Waits, Outcomes
<1>8. \A j, k \in 1 .. created :
        /\ j < k /\ info[j].firing = info[k].firing =>
             info[j].queue = info[k].queue /\ info[j].root < info[k].root
        /\ info[j].group = info[k].group /\ info[k].group # 0 => SameList(info[j], info[k])
  BY StateFacts DEF QueueInv, Good, Grouped
<1>9. \A j \in 1 .. created : j \in Item /\ info[j].root \in Nat /\ j \in Nat
  BY ShapeFacts, StateFacts DEF QueueInv, Good
<1>10. \A j \in failed', k \in 1 .. created :
         j < k /\ info[j].group = info[k].group /\ info[j].firing = info[k].firing =>
          k \notin F /\ (k \in Live => k \in D)
  <2> SUFFICES ASSUME NEW j \in failed', NEW k \in 1 .. created,
                      j < k, info[j].group = info[k].group, info[j].firing = info[k].firing
               PROVE  k \notin F /\ (k \in Live => k \in D)
    OBVIOUS
  <2>1. CASE j = i
    <3>1. info[k].queue = q /\ info[i].root < info[k].root /\ info[k].group = g /\ k # i
      BY <1>1, <1>8, <2>1
    <3>2. k \notin fired
      <4> SUFFICES ASSUME k \in fired PROVE FALSE
        OBVIOUS
      <4>1. info[i].root >= info[k].root
        BY <1>1, <3>1, StateFacts DEF QueueInv, Good, Fires
      <4> QED
        BY <1>1, <1>9, <3>1, <4>1
    <3> QED
      BY <3>1, <3>2
  <2>2. CASE j \in failed
    <3>1. k \in j + 1 .. created
      BY <1>1, <1>7, <2>2
    <3>2. k \notin fired /\ k \notin Live
      BY <2>2, <3>1 DEF QueueInv, Outcomes, ErrorEndsGroup
    <3> QED
      BY <1>1, <3>2
  <2> QED
    BY <1>2, <2>1, <2>2
<1>11. \A j \in D : j \in F \/ \E k \in failed' : Took(k, j)
  <2> SUFFICES ASSUME NEW j \in Rest PROVE Took(i, j)
    BY <1>2
  <2>1. j \in 1 .. created /\ info[j].queue = q /\ info[j].group = g /\ j # i
    BY LiveFacts DEF QueueInv
  <2>2. CASE info[i].firing = info[j].firing
    <3>1. ~(j < i)
      BY <1>1, <1>8, <1>9, <2>1, <2>2
    <3>2. i < j
      BY <1>1, <1>9, <2>1, <3>1
    <3> QED
      BY <2>1, <2>2, <3>2 DEF Took
  <2>3. CASE info[i].firing # info[j].firing
    <3>1. SameList(info[i], info[j])
      BY <1>1, <1>8, <2>1
    <3> QED
      BY <2>1, <2>3, <3>1 DEF Took, SameList
  <2> QED
    BY <2>2, <2>3
<1>12. D \subseteq Live /\ Commit(r)
  BY <1>1, <1>3
<1> HIDE DEF F, q, g, r, D
<1>13. fired \subseteq F /\ failed \subseteq failed' /\ Queue \ {q} \subseteq Queue
  BY <1>2 DEF F
<1>14. Kept(F, D, Queue \ {q})
  BY <1>1, <1>2, <1>5, <1>6, <1>7, <1>10, <1>11, <1>12, <1>13 DEF Kept
<1> QED
  BY <1>2, <1>4, <1>12, <1>14, StepInv

(* Nothing is lost where items are only created. *)
LEMMA CreateKept ==
    ASSUME QueueInv, fired' = fired, failed' = failed, job' \subseteq job,
           Clients', UNCHANGED wvars
    PROVE  Kept(fired, {}, Queue)
<1>1. WaitForInv' /\ flag' = flag
  BY SameWaits DEF QueueInv
<1>3. fired \subseteq 1 .. created
  BY StateFacts DEF QueueInv, Good, Fires
<1>4. \A i \in Item : flag'[i] # "ready" => i \in fired
  BY <1>1 DEF QueueInv, Waits
<1>5. \A i \in Item : info[i].queue \in Queue
  BY ShapeFacts, StateFacts DEF QueueInv, Good
<1>6. \A i \in Item : flag'[i] = "waiting" \/ i \in job' =>
        /\ i \in fired /\ info[i].queue \in Queue
        /\ queue[info[i].queue] # <<>> /\ Head(queue[info[i].queue]) = i
  BY <1>1, <1>5 DEF QueueInv, Waits, Waiting
<1>7. /\ job' \subseteq fired /\ failed' \subseteq fired /\ \A j \in failed' : info[j].group # 0
  BY DEF QueueInv, Waits, Outcomes
<1>8. \A i \in failed', j \in 1 .. created :
        i < j /\ info[i].group = info[j].group /\ info[i].firing = info[j].firing =>
          j \notin fired /\ (j \in Live => j \in {})
  <2> SUFFICES ASSUME NEW i \in failed', NEW j \in 1 .. created,
                      i < j, info[i].group = info[j].group, info[i].firing = info[j].firing
               PROVE  j \notin fired /\ j \notin Live
    OBVIOUS
  <2>1. i \in 1 .. created /\ i \in failed
    BY <1>3, <1>7
  <2>2. j \in i + 1 .. created
    BY <2>1
  <2> QED
    BY <2>1, <2>2 DEF QueueInv, Outcomes, ErrorEndsGroup
<1> QED
  BY <1>1, <1>3, <1>4, <1>6, <1>7, <1>8 DEF Kept

(* Items are created, and nothing else happens. *)
LEMMA CreateInv ==
    ASSUME QueueInv, NEW r, After(r, fired, {}, Queue), Commit(r),
           fired' = fired, failed' = failed, job' \subseteq job, listed' = listed,
           freed' = freed, running' = running, exiting' = exiting, UNCHANGED wvars
    PROVE  QueueInv'
<1>1. Clients'
  BY DEF QueueInv, Clients
<1>2. Kept(fired, {}, Queue)
  BY <1>1, CreateKept
<1> QED
  BY <1>2, StepInv

----------------------------------------------------------------------------
(* The events between two server loops. *)

(* What appending to the queues as they are comes to. *)
LEMMA StartAfter ==
    ASSUME QueueInv
    PROVE  /\ After(State, fired, {}, Queue)
           /\ created \in Nat /\ MaxItems \in Nat /\ State.created = created
           /\ State.info = info /\ Shape(State) /\ Grouped(State)
           /\ \A i \in 1 .. created : info[i].group <= created /\ info[i].firing <= created
<1>1. After(State, fired, {}, Queue)
  BY StateAfter DEF QueueInv
<1>2. created \in Nat /\ MaxItems \in Nat /\ State.created = created /\ State.info = info
  BY LiveFacts, StateFacts, CmdQueueAssumption DEF QueueInv
<1>3. Shape(State) /\ Grouped(State)
  BY DEF QueueInv, Good
<1>4. ASSUME NEW i \in 1 .. created
      PROVE  info[i].group <= created /\ info[i].firing <= created
  <2>1. /\ info[i].group <= i /\ info[i].group \in Nat
        /\ info[i].firing <= i /\ info[i].firing \in Nat
    BY <1>2, <1>3, ShapeFacts DEF Grouped
  <2> QED
    BY <1>2, <2>1
<1> QED
  BY <1>1, <1>2, <1>3, <1>4

(* An item of no group, appended to a queue. *)
LEMMA AppendFresh ==
    ASSUME QueueInv, NEW st, NEW F, After(st, F, {}, Queue), st.created < MaxItems,
           NEW q \in listed \cup {Global}, NEW inf \in Info,
           inf.about \in listed \cup {Global}, inf.firing = st.created + 1, inf.group = 0,
           inf.kind # "command", inf.stored = FALSE, inf.kind = "done" => q \in Client
    PROVE  After(AppendItem(st, q, inf), F, {}, Queue)
<1>1. Shape(st) /\ Grouped(st) /\ created <= st.created
  BY DEF After, Made, Good
<1>2. created \in Nat /\ st.created \in Nat
  BY <1>1, ShapeFacts, StartAfter
<1>3. /\ inf.firing > created /\ inf.firing <= st.created + 1
      /\ inf.group <= st.created + 1
      /\ inf.kind = "command" \/ inf.stored => inf.group # 0
  BY <1>1, <1>2
<1>4. ASSUME NEW i \in 1 .. st.created PROVE st.info[i].firing # inf.firing
  <2>1. st.info[i].firing <= i /\ st.info[i].firing \in Nat
    BY <1>1, ShapeFacts DEF Grouped
  <2> QED
    BY <1>2, <2>1
<1> QED
  BY <1>3, <1>4, AppendAfter

(* The first command that is queued. *)
LEMMA AppendFirst ==
    ASSUME QueueInv, NEW q \in listed \cup {Global}, NEW x, OfList(State, x),
           created < MaxItems
    PROVE  LET p == AppendItem(State, q, x) IN
           /\ After(p, fired, {}, Queue)
           /\ p.created = created + 1
           /\ p.info[p.created].queue = q /\ p.info[p.created].group = x.group
           /\ p.info[p.created].firing = x.firing /\ p.info[p.created].stored = x.stored
           /\ p.info[p.created].nohooks = x.nohooks
           /\ \A i \in 1 .. created : p.info[i] = info[i]
           /\ \A i \in 1 .. p.created : i \in 1 .. created \/ i = p.created
<1>1. /\ x \in Info /\ x.kind = "command" /\ x.about = Global
      /\ x.group # 0 /\ x.group <= created + 1 /\ x.firing = created + 1
      /\ \A i \in 1 .. created : info[i].group = x.group => SameList(info[i], x)
  BY StartAfter DEF OfList
<1>2. ASSUME NEW i \in 1 .. created PROVE info[i].firing # x.firing
  <2>1. info[i].firing <= created /\ info[i].firing \in Nat
    BY StartAfter, ShapeFacts
  <2> QED
    BY <1>1, <2>1, StartAfter
<1>3. x.firing > created /\ x.firing <= State.created + 1 /\ State.created < MaxItems
  BY <1>1, StartAfter
<1> DEFINE p == AppendItem(State, q, x)
<1>4. /\ After(p, fired, {}, Queue)
      /\ p.created = State.created + 1
      /\ p.info[p.created].queue = q /\ p.info[p.created].group = x.group
      /\ p.info[p.created].firing = x.firing /\ p.info[p.created].stored = x.stored
      /\ p.info[p.created].nohooks = x.nohooks
      /\ \A i \in 1 .. State.created : p.info[i] = State.info[i]
      /\ \A i \in 1 .. p.created : i \in 1 .. State.created \/ i = p.created
  BY <1>1, <1>2, <1>3, StartAfter, AppendAfter
<1> HIDE DEF p
<1>5. /\ After(p, fired, {}, Queue)
      /\ p.created = created + 1
      /\ p.info[p.created].queue = q /\ p.info[p.created].group = x.group
      /\ p.info[p.created].firing = x.firing /\ p.info[p.created].stored = x.stored
      /\ p.info[p.created].nohooks = x.nohooks
      /\ \A i \in 1 .. created : p.info[i] = info[i]
      /\ \A i \in 1 .. p.created : i \in 1 .. created \/ i = p.created
  BY <1>4, StartAfter
<1> QED
  BY <1>5 DEF p

(* The second one, queued with it. *)
LEMMA AppendSecond ==
    ASSUME QueueInv, NEW q \in listed \cup {Global}, NEW x, OfList(State, x),
           created + 1 < MaxItems,
           NEW y \in Info, y.kind = "command", y.about = Global, y.group # 0,
           y.group <= created + 2, y.firing = created + 1,
           \A i \in 1 .. created : info[i].group = y.group => SameList(info[i], y),
           x.group = y.group => SameList(x, y)
    PROVE  LET p == AppendItem(AppendItem(State, q, x), q, y) IN
           After(p, fired, {}, Queue) /\ p.created = created + 2
<1> DEFINE o == AppendItem(State, q, x)
<1>0. created \in Nat /\ MaxItems \in Nat /\ created < MaxItems
  BY StartAfter
<1>1. /\ After(o, fired, {}, Queue)
      /\ o.created = created + 1
      /\ o.info[o.created].queue = q /\ o.info[o.created].group = x.group
      /\ o.info[o.created].firing = x.firing /\ o.info[o.created].stored = x.stored
      /\ o.info[o.created].nohooks = x.nohooks
      /\ \A i \in 1 .. created : o.info[i] = info[i]
      /\ \A i \in 1 .. o.created : i \in 1 .. created \/ i = o.created
  BY <1>0, AppendFirst
<1> HIDE DEF o
<1>2. ASSUME NEW i \in 1 .. o.created
      PROVE  /\ o.info[i].firing = y.firing => o.info[i].queue = q
             /\ o.info[i].group = y.group /\ y.group # 0 => SameList(o.info[i], y)
  <2>1. CASE i = o.created
    BY <1>1, <2>1 DEF SameList
  <2>2. CASE i \in 1 .. created
    <3>1. info[i].firing <= created /\ info[i].firing \in Nat
      BY <2>2, StartAfter, ShapeFacts
    <3>2. info[i].firing # y.firing
      BY <1>0, <3>1
    <3> QED
      BY <1>1, <2>2, <3>2
  <2> QED
    BY <1>1, <2>1, <2>2
<1>3. /\ y.firing > created /\ y.firing <= o.created + 1 /\ o.created < MaxItems
      /\ y.group <= o.created + 1
  BY <1>0, <1>1
<1> DEFINE p == AppendItem(o, q, y)
<1>4. After(p, fired, {}, Queue) /\ p.created = o.created + 1
  BY <1>1, <1>2, <1>3, AppendAfter
<1> HIDE DEF p
<1>5. After(p, fired, {}, Queue) /\ p.created = created + 2
  BY <1>0, <1>1, <1>4
<1> QED
  BY <1>5 DEF p, o

(* A notification is one more item behind those of the global queue. *)
LEMMA NotifyAfter ==
    ASSUME QueueInv, NEW F, After(State, F, {}, Queue), Room(1),
           NEW c \in listed \cup {Global}
    PROVE  After(Notify(State, c), F, {}, Queue)
<1> DEFINE n == State.created + 1
           x == [Blank EXCEPT !.kind = "notify", !.about = c, !.firing = n]
<1>1. n \in 0 .. MaxItems /\ State.created < MaxItems /\ c \in Queue
  BY StartAfter DEF Room, QueueInv, Clients, Queue
<1> HIDE DEF n
<1>2. /\ x \in Info /\ x.kind = "notify" /\ x.about = c /\ x.firing = n
      /\ x.group = 0 /\ x.stored = FALSE
  <2> DEFINE y == Blank
  <2>1. y \in Info /\ y.group = 0 /\ y.stored = FALSE
    BY CommandIs
  <2> HIDE DEF y
  <2>2. x = [y EXCEPT !.kind = "notify", !.about = c, !.firing = n]
    BY DEF y
  <2> HIDE DEF x
  <2>3. x \in Info
    BY ONLY <1>1, <2>1, <2>2 DEF Info, Kind
  <2>4. x.kind = "notify" /\ x.about = c /\ x.firing = n
    BY ONLY <2>1, <2>2 DEF Info
  <2>5. x.group = 0
    BY ONLY <2>1, <2>2 DEF Info
  <2>6. x.stored = FALSE
    BY ONLY <2>1, <2>2 DEF Info
  <2> QED
    BY <2>3, <2>4, <2>5, <2>6
<1> HIDE DEF x
<1>3. After(AppendItem(State, Global, x), F, {}, Queue)
  BY <1>1, <1>2, AppendFresh DEF n
<1> QED
  BY <1>3 DEF Notify, x, n

(* From here, one lemma for each action. *)
LEMMA EventInv ==
    ASSUME QueueInv, Event
    PROVE  QueueInv'
<1>1. PICK c \in listed \cup {Global} : Commit(Notify(State, c))
  BY DEF Event
<1>2. After(Notify(State, c), fired, {}, Queue)
  BY StartAfter, NotifyAfter DEF Event
<1> QED
  BY <1>1, <1>2, CreateInv DEF Event

(* Commands of a list that is kept, of its group or a new one. *)
LEMMA SubmitCommandInv ==
    ASSUME QueueInv, NEW q \in Queue, SubmitCommand(q)
    PROVE  QueueInv'
<1>1. PICK n \in 1 .. 2, g \in Groups(State, FALSE) :
        LET inf == Stored(State, g, FALSE)
            one == AppendItem(State, q, inf)
        IN  Room(n) /\ Commit(IF n = 1 THEN one ELSE AppendItem(one, q, inf))
  BY DEF SubmitCommand
<1> DEFINE x == Stored(State, g, FALSE)
           one == AppendItem(State, q, x)
           two == AppendItem(one, q, x)
<1>2. /\ q \in listed \cup {Global} /\ created < MaxItems
      /\ n # 1 => created + 1 < MaxItems
  BY <1>1, StartAfter DEF SubmitCommand, Room
<1>3. OfList(State, x)
  <2>1. FALSE \in BOOLEAN /\ State.created < MaxItems
    BY <1>2, StartAfter
  <2> QED
    BY <2>1, StartAfter, StoredFacts
<1>4. Commit(one) \/ (n # 1 /\ Commit(two))
  BY <1>1
<1> HIDE DEF x
<1>5. After(one, fired, {}, Queue)
  BY <1>2, <1>3, AppendFirst
<1>6. n # 1 => After(two, fired, {}, Queue)
  <2> SUFFICES ASSUME n # 1 PROVE After(two, fired, {}, Queue)
    OBVIOUS
  <2>1. /\ x \in Info /\ x.kind = "command" /\ x.about = Global
        /\ x.group # 0 /\ x.group <= created + 1 /\ x.firing = created + 1
        /\ \A i \in 1 .. created : info[i].group = x.group => SameList(info[i], x)
    BY <1>3, StartAfter DEF OfList
  <2>2. SameList(x, x)
    BY DEF SameList
  <2>3. x.group <= created + 2
    <3>1. x.group \in Nat
      BY <2>1, StartAfter DEF Info
    <3> QED
      BY <2>1, <3>1, StartAfter
  <2> QED
    BY <1>2, <1>3, <2>1, <2>2, <2>3, AppendSecond
<1> HIDE DEF one, two
<1>7. PICK r : After(r, fired, {}, Queue) /\ Commit(r)
  BY <1>4, <1>5, <1>6
<1> QED
  BY <1>7, CreateInv DEF SubmitCommand

(* A message has its own groups, and ends with an item of none. *)
LEMMA SubmitMessageInv ==
    ASSUME QueueInv, NEW c \in Client, SubmitMessage(c)
    PROVE  QueueInv'
<1> DEFINE g == created + 1
           x == Command(g, g)
           one == AppendItem(State, c, x)
           second(k) == AppendItem(one, c, Command(k, g))
           last(st) == AppendItem(st, c, [Blank EXCEPT !.firing = st.created + 1])
<1>1. \/ created + 2 <= MaxItems /\ Commit(last(one))
      \/ \E k \in {g, g + 1} : created + 3 <= MaxItems /\ Commit(last(second(k)))
  <2>1. PICK n \in 1 .. 2, together \in BOOLEAN :
          /\ Room(n + 1)
          /\ Commit(last(IF n = 1 THEN one ELSE second(IF together THEN g ELSE g + 1)))
    BY DEF SubmitMessage
  <2>2. created + 2 <= MaxItems /\ (n # 1 => created + 3 <= MaxItems)
    BY <2>1, StartAfter DEF Room
  <2> HIDE DEF g, one, second, last
  <2> QED
    BY <2>1, <2>2
<1>2. /\ c \in listed \cup {Global} /\ c \in Queue /\ created + 2 <= MaxItems
      /\ created \in Nat /\ MaxItems \in Nat
  BY <1>1, StartAfter DEF SubmitMessage, Queue
<1>3. OfList(State, x)
  <2>1. g \in 0 .. MaxItems
    BY <1>2
  <2>2. x \in Info /\ x.group = g /\ x.kind = "command" /\ x.firing = g /\ x.about = Global
    BY <2>1, CommandIs
  <2>3. ASSUME NEW i \in 1 .. created PROVE info[i].group # g
    <3>1. info[i].group <= created /\ info[i].group \in Nat
      BY StartAfter, ShapeFacts
    <3> QED
      BY <1>2, <3>1
  <2>4. State.info = info /\ State.created = created
    BY StartAfter
  <2> HIDE DEF x
  <2>5. g # 0 /\ g <= State.created + 1 /\ g = State.created + 1
    BY <1>2, <2>4
  <2> QED
    BY <2>2, <2>3, <2>4, <2>5 DEF OfList
<1>4. After(one, fired, {}, Queue) /\ one.created = created + 1
  <2> HIDE DEF x
  <2> QED
    BY <1>2, <1>3, AppendFirst
<1>5. ASSUME NEW k \in {g, g + 1}, created + 3 <= MaxItems
      PROVE  After(second(k), fired, {}, Queue) /\ second(k).created = created + 2
  <2> DEFINE y == Command(k, g)
  <2>1. g \in 0 .. MaxItems /\ k \in 0 .. MaxItems
    BY <1>2, <1>5
  <2>2. /\ y \in Info /\ y.group = k /\ y.kind = "command" /\ y.firing = g
        /\ y.about = Global /\ y.stored = FALSE
    BY <2>1, CommandIs
  <2>3. ASSUME NEW i \in 1 .. created PROVE info[i].group # k
    <3>1. info[i].group <= created /\ info[i].group \in Nat
      BY StartAfter, ShapeFacts
    <3> QED
      BY <1>2, <1>5, <3>1
  <2>4. x.group = y.group => SameList(x, y)
    <3>1. x.group = g /\ x.stored = FALSE
      BY <2>1, CommandIs
    <3>2. x.group = y.group => x = y
      BY <2>2, <3>1
    <3> HIDE DEF x, y
    <3> QED
      BY <3>2 DEF SameList
  <2>5. k # 0 /\ k <= created + 2 /\ created + 1 < MaxItems
    BY <1>2, <1>5
  <2> HIDE DEF x, y
  <2>6. LET p == AppendItem(AppendItem(State, c, x), c, y) IN
        After(p, fired, {}, Queue) /\ p.created = created + 2
    BY <1>2, <1>3, <2>2, <2>3, <2>4, <2>5, AppendSecond
  <2> QED
    BY <2>6 DEF x, y
<1> HIDE DEF one, second
<1>6. PICK st : /\ After(st, fired, {}, Queue) /\ st.created < MaxItems
                /\ st.created \in Nat /\ Commit(last(st))
  <2> HIDE DEF last
  <2>1. CASE Commit(last(one))
    <3>1. one.created < MaxItems /\ one.created \in Nat
      BY <1>2, <1>4
    <3> QED
      BY <1>4, <2>1, <3>1
  <2>2. CASE \E k \in {g, g + 1} : created + 3 <= MaxItems /\ Commit(last(second(k)))
    <3>1. PICK k \in {g, g + 1} : created + 3 <= MaxItems /\ Commit(last(second(k)))
      BY <2>2
    <3>2. After(second(k), fired, {}, Queue) /\ second(k).created = created + 2
      BY <1>5, <3>1
    <3>3. second(k).created < MaxItems /\ second(k).created \in Nat
      BY <1>2, <3>1, <3>2
    <3> QED
      BY <3>1, <3>2, <3>3
  <2> QED
    BY <1>1, <2>1, <2>2
<1> DEFINE n == st.created + 1
           z == [Blank EXCEPT !.firing = n]
<1>7. n \in 0 .. MaxItems
  BY <1>2, <1>6
<1> HIDE DEF n
<1>8. /\ z \in Info /\ z.kind = "done" /\ z.about = Global /\ z.firing = n
      /\ z.group = 0 /\ z.stored = FALSE
  <2> DEFINE y == Blank
  <2>1. y \in Info /\ y.kind = "done" /\ y.about = Global /\ y.group = 0 /\ y.stored = FALSE
    BY CommandIs
  <2> HIDE DEF y
  <2>2. z = [y EXCEPT !.firing = n]
    BY DEF y
  <2> HIDE DEF z
  <2>3. z \in Info
    BY ONLY <1>7, <2>1, <2>2 DEF Info
  <2>4. z.kind = "done" /\ z.about = Global /\ z.firing = n /\ z.group = 0
    BY ONLY <2>1, <2>2 DEF Info
  <2>5. z.stored = FALSE
    BY ONLY <2>1, <2>2 DEF Info
  <2> QED
    BY <2>3, <2>4, <2>5
<1>9. Commit(AppendItem(st, c, z))
  BY <1>6 DEF z, n
<1> HIDE DEF z
<1>10. After(AppendItem(st, c, z), fired, {}, Queue)
  BY <1>2, <1>6, <1>8, AppendFresh DEF n
<1> QED
  BY <1>9, <1>10, CreateInv DEF SubmitMessage

(* The commands of a job go behind the item that waited for it. *)
LEMMA JobDoneInv ==
    ASSUME QueueInv, NEW i \in Item, JobDone(i)
    PROVE  QueueInv'
<1>1. /\ i \in job
      /\ \/ Commit(State)
         \/ /\ Room(1)
            /\ \E g \in Groups(State, info[i].nohooks) :
                 Commit(InsertAfter(State, i, info[i].client, Stored(State, g, info[i].nohooks)))
  BY DEF JobDone
<1>2. i \in Live
  <2>1. queue[info[i].queue] # <<>> /\ Head(queue[info[i].queue]) = i
    BY <1>1 DEF QueueInv, Waits, Waiting
  <2>2. info[i].queue \in Queue
    BY ShapeFacts, StateFacts DEF QueueInv, Good
  <2> QED
    BY <2>1, <2>2, HeadFires
<1>3. PICK r : r \in Nested(i, info[i].client) /\ Commit(r)
  <2>1. CASE Commit(State)
    BY <2>1 DEF Nested
  <2>2. CASE Room(1) /\ \E g \in Groups(State, info[i].nohooks) :
          Commit(InsertAfter(State, i, info[i].client, Stored(State, g, info[i].nohooks)))
    <3> DEFINE P(g) == InsertAfter(State, i, info[i].client, Stored(State, g, info[i].nohooks))
    <3>1. PICK g \in Groups(State, info[i].nohooks) : Commit(P(g))
      BY <2>2
    <3>2. P(g) \in {P(h) : h \in Groups(State, info[i].nohooks)}
      BY <3>1, Zenon
    <3>3. P(g) \in Nested(i, info[i].client)
      BY <2>2, <3>2, Zenon DEF Nested
    <3> QED
      BY <3>1, <3>3, Zenon
  <2> QED
    BY <1>1, <2>1, <2>2
<1>4. After(r, fired, {}, Queue)
  <2>1. info[i].client \in Queue
    BY <1>2, LiveFacts DEF QueueInv
  <2> QED
    BY <1>2, <1>3, <2>1, StartAfter, NestedAfter
<1>5. job' \subseteq job
  BY DEF JobDone
<1> QED
  BY <1>3, <1>4, <1>5, CreateInv DEF JobDone

(* The queues and what waits are as they were. *)
LEMMA SameOutcomes ==
    ASSUME QueueInv, UNCHANGED wvars, queue' = queue, info' = info, created' = created,
           fired' = fired, failed' = failed, job' = job
    PROVE  WaitForInv' /\ Waits' /\ Outcomes' /\ Live' = Live
<1>1. WaitForInv' /\ flag' = flag
  BY SameWaits DEF QueueInv
<1>2. Live' = Live
  BY DEF Live
<1>3. Waits'
  BY <1>1 DEF QueueInv, Waits, Waiting
<1>4. Outcomes'
  BY <1>2 DEF QueueInv, Outcomes, ErrorEndsGroup, NothingLost
<1> QED
  BY <1>1, <1>2, <1>3, <1>4

(* The client leaves the list; its last event keeps it for now. *)
LEMMA LostInv ==
    ASSUME QueueInv, NEW c \in Client, Lost(c)
    PROVE  QueueInv'
<1>1. /\ c \in listed /\ listed' = listed \ {c} /\ freed' = freed
      /\ UNCHANGED <<fired, failed, job, running, exiting, wvars>>
  BY DEF Lost
<1>2. PICK st : After(st, fired, {}, Queue) /\ Commit(Unref(st, {c}))
  <2>1. Commit(Unref(State, {c})) \/ (Room(1) /\ Commit(Unref(Notify(State, c), {c})))
    BY DEF Lost
  <2>2. Room(1) => After(Notify(State, c), fired, {}, Queue)
    BY <1>1, StartAfter, NotifyAfter
  <2> QED
    BY <2>1, <2>2, StartAfter
<1> DEFINE r == Unref(st, {c})
<1>3. /\ Made(st, fired, {}, Queue) /\ Counts(st, listed, freed)
      /\ Good(st, fired) /\ Shape(st) /\ InLine(st) /\ Grouped(st) /\ Fires(st, fired)
      /\ freed \subseteq Client
  BY <1>2 DEF After, Made, Good, QueueInv, Clients
<1>4. \A d \in Client \cap {c} : st.refs[d] # 0
  <2>1. st.refs[c] = Cardinality(HeldIn(st, c)) + 1 /\ Cardinality(HeldIn(st, c)) \in Nat
    BY <1>1, <1>3, QueuedFinite DEF Counts
  <2> QED
    BY <2>1
<1>5. /\ Shape(r) /\ r.queue = st.queue /\ r.info = st.info
      /\ r.created = st.created
      /\ \A d \in Client : r.refs[d] = IF d \in {c} THEN st.refs[d] - 1 ELSE st.refs[d]
      /\ \A d \in Client : d \in r.dying <=> d \in st.dying \/ (d \in {c} /\ st.refs[d] = 1)
  BY <1>3, <1>4, UnrefFacts
<1> HIDE DEF r
<1>6. QueuedIn(r) = QueuedIn(st)
  BY <1>5 DEF QueuedIn
<1>7. Good(r, fired)
  <2>1. InLine(r)
    BY <1>3, <1>5 DEF InLine
  <2>2. Grouped(r)
    BY <1>3, <1>5 DEF Grouped
  <2>3. Fires(r, fired)
    BY <1>3, <1>5, <1>6 DEF Fires
  <2> QED
    BY <1>5, <2>1, <2>2, <2>3 DEF Good
<1>8. Made(r, fired, {}, Queue)
  BY <1>3, <1>5, <1>6, <1>7 DEF Made
<1>9. Counts(r, listed', freed')
  <2>1. ASSUME NEW d \in Client
        PROVE  r.refs[d] = Cardinality(HeldIn(r, d)) + (IF d \in listed' THEN 1 ELSE 0)
    <3> DEFINE k == Cardinality(HeldIn(st, d))
    <3>1. st.refs[d] = k + (IF d \in listed THEN 1 ELSE 0) /\ k \in Nat
      BY <1>3, QueuedFinite DEF Counts
    <3>2. HeldIn(r, d) = HeldIn(st, d)
      BY <1>5, <1>6 DEF HeldIn
    <3>3. Cardinality(HeldIn(r, d)) = k
      BY <3>2
    <3> HIDE DEF k
    <3>4. CASE d = c
      <4>1. r.refs[d] = st.refs[d] - 1 /\ d \in listed /\ d \notin listed'
        BY <1>1, <1>5, <3>4
      <4> QED
        BY <3>1, <3>3, <4>1
    <3>5. CASE d # c
      <4>1. r.refs[d] = st.refs[d] /\ (d \in listed <=> d \in listed')
        BY <1>1, <1>5, <3>5
      <4> QED
        BY <3>1, <3>3, <4>1
    <3> QED
      BY <3>4, <3>5
  <2>2. ASSUME NEW d \in r.dying \cup freed PROVE r.refs[d] = 0
    <3>1. d \in Client
      BY <1>3, <1>5, ShapeFacts
    <3>2. d \in st.dying \cup freed => st.refs[d] = 0 /\ d # c
      BY <1>3, <1>4 DEF Counts
    <3>3. d \in st.dying \cup freed \/ (d = c /\ st.refs[d] = 1)
      BY <1>5, <3>1
    <3> QED
      BY <1>5, <3>1, <3>2, <3>3
  <2> QED
    BY <1>1, <2>1, <2>2 DEF Counts
<1>10. Clients'
  BY <1>1 DEF QueueInv, Clients
<1>11. Kept(fired, {}, Queue)
  BY <1>1, <1>10, CreateKept
<1> QED
  BY <1>1, <1>2, <1>8, <1>9, <1>11, StepKeeps DEF r

(* A client that nothing refers to is freed. *)
LEMMA FreeInv ==
    ASSUME QueueInv, NEW c \in Client, Free(c)
    PROVE  QueueInv'
<1>1. /\ dying' = dying \ {c} /\ freed' = IF refs[c] = 0 THEN freed \cup {c} ELSE freed
      /\ UNCHANGED <<queue, info, fired, failed, job, running, listed, refs, exiting,
                     created, wvars>>
  BY DEF Free
<1>2. /\ Shape(State) /\ InLine(State) /\ Grouped(State) /\ Fires(State, fired)
      /\ Counts(State, listed, freed)
  BY DEF QueueInv, Good
<1>3. /\ State'.queue = State.queue /\ State'.info = State.info
      /\ State'.refs = State.refs /\ State'.created = State.created
      /\ State'.dying = State.dying \ {c}
      /\ State' = [queue |-> queue, info |-> info, refs |-> refs, dying |-> dying \ {c},
                   created |-> created]
  BY <1>1 DEF State
<1>4. Shape(State')
  BY <1>2, <1>3 DEF Shape, State
<1> DEFINE r == State'
<1>5. QueuedIn(r) = QueuedIn(State)
  BY <1>3 DEF QueuedIn
<1>6. Good(r, fired)
  <2> HIDE DEF r
  <2>0. r.queue = State.queue /\ r.info = State.info /\ r.created = State.created
    BY <1>3 DEF r
  <2>1. InLine(r)
    BY <1>2, <2>0 DEF InLine
  <2>2. Grouped(r)
    BY <1>2, <2>0 DEF Grouped
  <2>3. Fires(r, fired)
    BY <1>2, <2>0, <1>5 DEF Fires
  <2> QED
    BY <1>4, <2>1, <2>2, <2>3 DEF Good, r
<1>7. Counts(r, listed, freed')
  <2>1. \A d \in Client : HeldIn(r, d) = HeldIn(State, d)
    BY <1>3, <1>5 DEF HeldIn
  <2>2. \A d \in State.dying \cup freed' : State.refs[d] = 0
    BY <1>1, <1>2, StateFacts DEF Counts
  <2> HIDE DEF r
  <2>3. r.refs = State.refs /\ r.dying = State.dying \ {c}
    BY <1>3 DEF r
  <2> QED
    BY <1>2, <2>1, <2>2, <2>3 DEF Counts
<1>8. WaitForInv' /\ Waits' /\ Outcomes'
  BY <1>1, SameOutcomes
<1>9. Clients'
  BY <1>1 DEF QueueInv, Clients
<1> QED
  BY <1>1, <1>6, <1>7, <1>8, <1>9 DEF QueueInv

(* A flush only lets items go on. *)
LEMMA FlushAllInv ==
    ASSUME QueueInv, FlushAll
    PROVE  QueueInv'
<1>1. Flush /\ UNCHANGED qvars
  BY DEF FlushAll
<1>2. /\ WaitForInv'
      /\ \A j \in Item : flag'[j] = "waiting" => flag[j] = "waiting"
      /\ \A j \in Item : flag'[j] # "ready" => flag[j] # "ready"
  BY <1>1, FlushStep DEF QueueInv
<1>3. Waits'
  BY <1>1, <1>2 DEF QueueInv, Waits, Waiting, qvars
<1>4. State' = State /\ Live' = Live
  BY <1>1 DEF State, Live, qvars
<1>5. Outcomes'
  BY <1>1, <1>4 DEF QueueInv, Outcomes, ErrorEndsGroup, NothingLost, qvars
<1>6. Clients'
  BY <1>1 DEF QueueInv, Clients, qvars
<1> QED
  BY <1>1, <1>2, <1>3, <1>4, <1>5, <1>6 DEF QueueInv, qvars

----------------------------------------------------------------------------
(* The server loop. *)

(* cmdq_next enters and leaves a queue without touching it. *)
LEMMA RunningInv ==
    ASSUME QueueInv, running' \in Queue \cup {Idle},
           UNCHANGED <<queue, info, fired, failed, job, listed, refs, dying, freed,
                       exiting, created, wvars>>
    PROVE  QueueInv'
<1>1. WaitForInv' /\ Waits' /\ Outcomes'
  BY SameOutcomes
<1>2. State' = State
  BY DEF State
<1>3. Clients'
  BY DEF QueueInv, Clients
<1> QED
  BY <1>1, <1>2, <1>3 DEF QueueInv

(* The head that had fired and may go on is removed. *)
LEMMA ReapInv ==
    ASSUME QueueInv, Reap
    PROVE  QueueInv'
<1>1. /\ running \in Queue /\ queue[running] # <<>>
      /\ UNCHANGED <<fired, failed, job, running, listed, freed, exiting, wvars>>
  BY DEF Reap
<1>2. PICK i : /\ i = Head(queue[running]) /\ i \in fired /\ ~Waiting(i)
               /\ Commit(RemoveItem(State, i))
  BY DEF Reap
<1> DEFINE q == info[i].queue
           r == RemoveItem(State, i)
<1>3. i \in Live /\ q = running /\ i \in Item
  BY <1>1, <1>2, HeadFires, LiveFacts DEF QueueInv
<1>4. After(r, fired, {i}, Queue \ {q})
  <2>1. After(State, fired, {}, Queue \ {q})
    BY StartAfter DEF After, Made
  <2>2. {} \cup {i} = {i} /\ {} \subseteq Live /\ i \in Live \ {} /\ q \notin Queue \ {q}
    BY <1>3
  <2> QED
    BY <2>1, <2>2, RemoveAfter
<1>5. Clients' /\ WaitForInv' /\ flag' = flag
  BY <1>1, SameWaits DEF QueueInv, Clients
<1>6. fired \subseteq 1 .. created
  BY StateFacts DEF QueueInv, Good, Fires
<1>7. /\ \A j \in Item : flag'[j] # "ready" => j \in fired
      /\ job' \subseteq fired /\ failed' \subseteq fired
      /\ \A j \in failed' : info[j].group # 0
  BY <1>1, <1>5 DEF QueueInv, Waits, Outcomes
<1>8. ASSUME NEW j \in Item, flag'[j] = "waiting" \/ j \in job'
      PROVE  /\ j \in fired /\ info[j].queue \in Queue \ {q}
             /\ queue[info[j].queue] # <<>> /\ Head(queue[info[j].queue]) = j
  <2>1. Waiting(j)
    BY <1>1, <1>5, <1>8 DEF Waiting
  <2>2. queue[info[j].queue] # <<>> /\ Head(queue[info[j].queue]) = j
    BY <2>1 DEF QueueInv, Waits
  <2>3. j \in fired
    BY <2>1 DEF QueueInv, Waits, Waiting
  <2>4. info[j].queue \in Queue
    BY ShapeFacts, StateFacts DEF QueueInv, Good
  <2> QED
    BY <1>2, <1>3, <2>1, <2>2, <2>3, <2>4
<1>9. \A j \in failed', k \in 1 .. created :
        j < k /\ info[j].group = info[k].group /\ info[j].firing = info[k].firing =>
          k \notin fired /\ (k \in Live => k \in {i})
  <2> SUFFICES ASSUME NEW j \in failed', NEW k \in 1 .. created,
                      j < k, info[j].group = info[k].group, info[j].firing = info[k].firing
               PROVE  k \notin fired /\ k \notin Live
    OBVIOUS
  <2>1. j \in 1 .. created /\ j \in failed
    BY <1>1, <1>6, <1>7
  <2>2. k \in j + 1 .. created
    BY <2>1
  <2> QED
    BY <2>1, <2>2 DEF QueueInv, Outcomes, ErrorEndsGroup
<1>10. {i} \subseteq Live /\ i \in fired
  BY <1>2, <1>3
<1> HIDE DEF q, r
<1>11. Kept(fired, {i}, Queue \ {q})
  BY <1>1, <1>5, <1>6, <1>7, <1>8, <1>9, <1>10 DEF Kept
<1>12. listed' = listed /\ freed' = freed
  BY <1>1
<1> QED
  BY <1>2, <1>4, <1>11, <1>12, StepInv DEF r

(* An item that does not touch the wait channels and is not waiting. *)
LEMMA QuietFacts ==
    ASSUME QueueInv, NEW i \in Item, Ready(i), UNCHANGED wvars
    PROVE  WaitForInv' /\ flag'[i] # "waiting" /\ OnlyWakes(i)
<1>1. WaitForInv' /\ flag' = flag
  BY SameWaits DEF QueueInv
<1>2. flag[i] = "ready"
  BY ReadyFacts DEF QueueInv, Waits
<1> QED
  BY <1>1, <1>2 DEF OnlyWakes

(* A command succeeds, with what it and its hook have inserted. *)
LEMMA FireCommandInv ==
    ASSUME QueueInv, NEW i \in Item, FireCommand(i)
    PROVE  QueueInv'
<1>1. Ready(i) /\ exiting' = exiting /\ UNCHANGED wvars
  BY DEF FireCommand
<1>2. PICK fc \in FoundClient(i) : \E st \in Nested(i, fc) : \E h \in Hooks(st, i, fc) :
        Succeed(i, h)
  BY DEF FireCommand
<1>3. PICK st \in Nested(i, fc) : \E h \in Hooks(st, i, fc) : Succeed(i, h)
  BY <1>2
<1>4. PICK h \in Hooks(st, i, fc) : Succeed(i, h)
  BY <1>3
<1> DEFINE F == fired \cup {i}
<1>5. i \in Live /\ After(State, F, {}, Queue)
  BY <1>1, ReadyFacts
<1> HIDE DEF F
<1>6. /\ fc \in Queue
      /\ fc = info[i].client \/ (info[i].client = Global /\ fc \in listed \cup {Global})
  BY <1>5, FoundFacts
<1>7. After(st, F, {}, Queue)
  BY <1>5, <1>6, NestedAfter
<1>8. After(h, F, {}, Queue)
  BY <1>5, <1>6, <1>7, HooksAfter
<1>9. WaitForInv' /\ flag'[i] # "waiting" /\ OnlyWakes(i)
  BY <1>1, QuietFacts
<1>10. exiting' \subseteq Client
  BY <1>1 DEF QueueInv, Clients
<1> QED
  BY <1>1, <1>4, <1>8, <1>9, <1>10, SucceedInv DEF F

(* A command succeeds, with the event that it caused. *)
LEMMA FireNotifyingInv ==
    ASSUME QueueInv, NEW i \in Item, FireNotifying(i)
    PROVE  QueueInv'
<1>1. Ready(i) /\ Room(1) /\ exiting' = exiting /\ UNCHANGED wvars
  BY DEF FireNotifying
<1>2. PICK c \in listed \cup {Global} : Succeed(i, Notify(State, c))
  BY DEF FireNotifying
<1>3. After(Notify(State, c), fired \cup {i}, {}, Queue)
  BY <1>1, ReadyFacts, NotifyAfter
<1>4. WaitForInv' /\ flag'[i] # "waiting" /\ OnlyWakes(i)
  BY <1>1, QuietFacts
<1>5. exiting' \subseteq Client
  BY <1>1 DEF QueueInv, Clients
<1> QED
  BY <1>1, <1>2, <1>3, <1>4, <1>5, SucceedInv

(* A command fails, and takes its group with it. *)
LEMMA FireFailingInv ==
    ASSUME QueueInv, NEW i \in Item, FireFailing(i)
    PROVE  QueueInv'
<1>1. /\ Ready(i) /\ info[i].kind = "command" /\ Abort(i, State)
      /\ exiting' = exiting /\ UNCHANGED wvars
  BY DEF FireFailing
<1>2. WaitForInv' /\ flag'[i] # "waiting" /\ OnlyWakes(i)
  BY <1>1, QuietFacts
<1> QED
  BY <1>1, <1>2, AbortInv

(* The item fires, stays at the head of its queue and waits. *)
LEMMA WaitingInv ==
    ASSUME QueueInv, NEW i \in Item, Ready(i), NEW r,
           After(r, fired \cup {i}, {}, Queue), Commit(r), fired' = fired \cup {i},
           job' \in {job, job \cup {i}}, WaitForInv', OnlyWakes(i),
           UNCHANGED <<failed, running, listed, freed, exiting>>
    PROVE  QueueInv'
<1> DEFINE F == fired \cup {i}
<1>1. /\ i \in Live /\ F \subseteq 1 .. created
      /\ info[i].queue \in Queue /\ queue[info[i].queue] # <<>>
      /\ i = Head(queue[info[i].queue])
  BY ReadyFacts
<1>2. Clients'
  BY DEF QueueInv, Clients
<1>3. job' \subseteq F
  BY DEF QueueInv, Waits
<1>4. \A j \in Item : flag'[j] # "ready" => j \in F
  BY DEF OnlyWakes, QueueInv, Waits
<1>5. ASSUME NEW j \in Item, flag'[j] = "waiting" \/ j \in job'
      PROVE  /\ j \in F /\ info[j].queue \in Queue
             /\ queue[info[j].queue] # <<>> /\ Head(queue[info[j].queue]) = j
  <2>1. CASE j = i
    BY <1>1, <2>1
  <2>2. CASE j # i
    <3>1. Waiting(j)
      BY <1>5, <2>2 DEF Waiting, OnlyWakes
    <3>2. queue[info[j].queue] # <<>> /\ Head(queue[info[j].queue]) = j
      BY <3>1 DEF QueueInv, Waits
    <3>3. j \in F
      BY <1>3, <1>4, <1>5
    <3>4. info[j].queue \in Queue
      BY ShapeFacts, StateFacts DEF QueueInv, Good
    <3> QED
      BY <3>2, <3>3, <3>4
  <2> QED
    BY <2>1, <2>2
<1>6. failed' \subseteq F /\ failed' = failed /\ \A j \in failed' : info[j].group # 0
  BY DEF QueueInv, Outcomes
<1>7. \A j \in failed', k \in 1 .. created :
        j < k /\ info[j].group = info[k].group /\ info[j].firing = info[k].firing =>
          k \notin F /\ (k \in Live => k \in {})
  <2> SUFFICES ASSUME NEW j \in failed', NEW k \in 1 .. created,
                      j < k, info[j].group = info[k].group, info[j].firing = info[k].firing
               PROVE  k \notin F /\ k \notin Live
    OBVIOUS
  <2>1. j \in 1 .. created /\ j \in failed
    BY <1>1, <1>6
  <2>2. k \in j + 1 .. created
    BY <2>1
  <2>3. k \notin fired /\ k \notin Live
    BY <2>1, <2>2 DEF QueueInv, Outcomes, ErrorEndsGroup
  <2> QED
    BY <1>1, <2>3
<1> HIDE DEF F
<1>8. fired' = F /\ fired \subseteq F
  BY DEF F
<1>9. Kept(F, {}, Queue)
  BY <1>1, <1>2, <1>3, <1>4, <1>5, <1>6, <1>7, <1>8 DEF Kept
<1>10. After(r, F, {}, Queue)
  BY DEF F
<1> QED
  BY <1>9, <1>10, StepInv

(* A command waits for a job, with its hook behind it. *)
LEMMA FireBlockingInv ==
    ASSUME QueueInv, NEW i \in Item, FireBlocking(i)
    PROVE  QueueInv'
<1>1. Ready(i) /\ UNCHANGED wvars
  BY DEF FireBlocking
<1>2. PICK fc \in FoundClient(i) : \E h \in Hooks(State, i, fc) : Commit(h)
  BY DEF FireBlocking
<1>3. PICK h \in Hooks(State, i, fc) : Commit(h)
  BY <1>2
<1>4. i \in Live /\ After(State, fired \cup {i}, {}, Queue)
  BY <1>1, ReadyFacts
<1>5. /\ fc \in Queue
      /\ fc = info[i].client \/ (info[i].client = Global /\ fc \in listed \cup {Global})
  BY <1>4, FoundFacts
<1>6. After(h, fired \cup {i}, {}, Queue)
  BY <1>4, <1>5, HooksAfter
<1>7. WaitForInv' /\ OnlyWakes(i)
  BY <1>1, QuietFacts
<1> QED
  BY <1>1, <1>3, <1>6, <1>7, WaitingInv DEF FireBlocking

(* The wait-for command waits, succeeds or fails. *)
LEMMA FireWaitForInv ==
    ASSUME QueueInv, NEW i \in Item, FireWaitFor(i)
    PROVE  QueueInv'
<1>1. Ready(i) /\ info[i].kind = "command" /\ exiting' = exiting
  BY DEF FireWaitFor
<1>2. WaitForInv' /\ OnlyWakes(i)
  <2>1. PICK ch \in Channel, b \in BOOLEAN : WaitForCommand(i, ch, b)
    BY DEF FireWaitFor
  <2> QED
    BY <2>1, WaitStep DEF QueueInv
<1>3. CASE /\ flag'[i] = "waiting"
           /\ fired' = fired \cup {i}
           /\ UNCHANGED <<queue, info, failed, job, running, listed, refs, dying,
                          freed, created>>
  <2>1. Commit(State)
    BY <1>3, StateFacts DEF Commit
  <2>2. After(State, fired \cup {i}, {}, Queue)
    BY <1>1, ReadyFacts
  <2> QED
    BY <1>1, <1>2, <1>3, <2>1, <2>2, WaitingInv
<1>4. CASE flag'[i] = "done" /\ Succeed(i, State)
  <2>1. After(State, fired \cup {i}, {}, Queue) /\ exiting' \subseteq Client
    BY <1>1, ReadyFacts DEF QueueInv, Clients
  <2>2. flag'[i] # "waiting"
    BY <1>4
  <2> QED
    BY <1>1, <1>2, <1>4, <2>1, <2>2, SucceedInv
<1>5. CASE flag'[i] = "error" /\ Abort(i, State)
  <2>1. flag'[i] # "waiting"
    BY <1>5
  <2> QED
    BY <1>1, <1>2, <1>5, <2>1, AbortInv
<1> QED
  BY <1>3, <1>4, <1>5 DEF FireWaitFor

(* A notification fires, with its hook. *)
LEMMA FireNotifyInv ==
    ASSUME QueueInv, NEW i \in Item, FireNotify(i)
    PROVE  QueueInv'
<1>1. Ready(i) /\ exiting' = exiting /\ UNCHANGED wvars
  BY DEF FireNotify
<1>2. PICK h \in Hooks(State, i, info[i].client) : Succeed(i, h)
  BY DEF FireNotify
<1>3. After(h, fired \cup {i}, {}, Queue)
  <2>1. i \in Live /\ After(State, fired \cup {i}, {}, Queue)
    BY <1>1, ReadyFacts
  <2>2. info[i].client \in Queue
    BY <2>1, LiveFacts DEF QueueInv
  <2> QED
    BY <2>1, <2>2, HooksAfter
<1>4. WaitForInv' /\ flag'[i] # "waiting" /\ OnlyWakes(i)
  BY <1>1, QuietFacts
<1>5. exiting' \subseteq Client
  BY <1>1 DEF QueueInv, Clients
<1> QED
  BY <1>1, <1>2, <1>3, <1>4, <1>5, SucceedInv

(* The end of a message lets its client exit. *)
LEMMA FireDoneInv ==
    ASSUME QueueInv, NEW i \in Item, FireDone(i)
    PROVE  QueueInv'
<1>1. /\ Ready(i) /\ info[i].kind = "done" /\ Succeed(i, State)
      /\ exiting' \in {exiting, exiting \cup {info[i].queue}} /\ UNCHANGED wvars
  BY DEF FireDone
<1>2. After(State, fired \cup {i}, {}, Queue) /\ i \in 1 .. created
  BY <1>1, ReadyFacts
<1>3. info[i].queue \in Client
  BY <1>1, <1>2, StateFacts DEF QueueInv, Good, Grouped
<1>4. WaitForInv' /\ flag'[i] # "waiting" /\ OnlyWakes(i)
  BY <1>1, QuietFacts
<1>5. exiting' \subseteq Client
  BY <1>1, <1>3 DEF QueueInv, Clients
<1> QED
  BY <1>1, <1>2, <1>4, <1>5, SucceedInv

----------------------------------------------------------------------------
(* The theorems. *)

(* The invariant holds in the beginning. *)
LEMMA QueueInit ==
    ASSUME CmdQueueInit
    PROVE  QueueInv
<1>1. WaitForInv
  BY InitInv DEF CmdQueueInit
<1>2. /\ State.queue = [q \in Queue |-> <<>>] /\ State.created = 0
      /\ State.info = [i \in Item |-> Blank] /\ State.dying = {}
      /\ State.refs = [c \in Client |-> 1]
  BY DEF CmdQueueInit, State
<1>3. Shape(State)
  <2>1. Blank \in Info /\ 0 \in 0 .. MaxItems
    BY CommandIs, CmdQueueAssumption
  <2>2. [q \in Queue |-> <<>>] \in [Queue -> Seq(Item)]
    OBVIOUS
  <2> QED
    BY <2>1, <2>2 DEF CmdQueueInit, State, Shape
<1>4. \A q \in Queue : State.queue[q] = <<>> /\ DOMAIN State.queue[q] = {}
  BY <1>2
<1>5. QueuedIn(State) = {}
  BY <1>4 DEF QueuedIn, Range
<1>6. InLine(State)
  BY <1>4 DEF InLine
<1>7. Grouped(State)
  BY <1>2 DEF Grouped
<1>8. Fires(State, fired)
  BY <1>4, <1>5 DEF Fires, CmdQueueInit
<1>9. Counts(State, listed, freed)
  <2>1. \A c : HeldIn(State, c) = {}
    BY <1>5 DEF HeldIn
  <2>2. Cardinality({}) = 0
    BY FS_EmptySet
  <2>3. \A c \in Client : State.refs[c] = 1
    BY <1>2
  <2>4. \A c \in Client : Cardinality(HeldIn(State, c)) = 0 /\ c \in listed
    BY <2>1, <2>2 DEF CmdQueueInit
  <2>5. State.dying \cup freed = {}
    BY <1>2 DEF CmdQueueInit
  <2> QED
    BY <2>3, <2>4, <2>5 DEF Counts
<1>10. Waits
  BY DEF Waits, Waiting, CmdQueueInit, WaitForInit
<1>11. Outcomes
  <2>1. 1 .. created = {} /\ failed = {} /\ fired = {}
    BY DEF CmdQueueInit
  <2> QED
    BY <2>1 DEF Outcomes, ErrorEndsGroup, NothingLost
<1>12. Clients
  BY DEF Clients, CmdQueueInit
<1> QED
  BY <1>1, <1>3, <1>6, <1>7, <1>8, <1>9, <1>10, <1>11, <1>12 DEF QueueInv, Good

(* Every step keeps the invariant. *)
LEMMA QueueNext ==
    ASSUME QueueInv, [CmdQueueNext]_vars
    PROVE  QueueInv'
<1>1. CASE UNCHANGED vars
  <2>1. UNCHANGED <<queue, info, fired, failed, job, listed, refs, dying, freed,
                    exiting, created, wvars>> /\ running' = running
    BY <1>1 DEF vars, qvars
  <2>2. running' \in Queue \cup {Idle}
    BY <2>1 DEF QueueInv, Clients
  <2> QED
    BY <2>1, <2>2, RunningInv
<1>2. CASE \E q \in Queue : Enter(q)
  BY <1>2, RunningInv DEF Enter
<1>3. CASE Leave
  BY <1>3, RunningInv DEF Leave
<1>4. CASE Reap
  BY <1>4, ReapInv
<1>5. CASE \E i \in Item : Fire(i)
  BY <1>5, FireCommandInv, FireNotifyingInv, FireFailingInv, FireBlockingInv,
     FireWaitForInv, FireNotifyInv, FireDoneInv DEF Fire
<1>6. CASE \E c \in Client : SubmitMessage(c) \/ Lost(c) \/ Free(c)
  BY <1>6, SubmitMessageInv, LostInv, FreeInv
<1>7. CASE \E q \in Queue : SubmitCommand(q)
  BY <1>7, SubmitCommandInv
<1>8. CASE \E i \in Item : JobDone(i)
  BY <1>8, JobDoneInv
<1>9. CASE Event \/ FlushAll
  BY <1>9, EventInv, FlushAllInv
<1> QED
  BY <1>1, <1>2, <1>3, <1>4, <1>5, <1>6, <1>7, <1>8, <1>9
     DEF CmdQueueNext, ServerLoop, Environment

(* What the properties of the runs follow from. *)
THEOREM QueueInvariant == CmdQueueSpec => []QueueInv
  BY QueueInit, QueueNext, PTL DEF CmdQueueSpec

(* The invariant implies the properties that the runs check. *)
LEMMA InvFacts ==
    ASSUME QueueInv
    PROVE  CmdQueueInv /\ ErrorEndsGroup /\ NothingLost /\ InSequence
<1>1. /\ Shape(State) /\ InLine(State) /\ Grouped(State) /\ Fires(State, fired)
      /\ Counts(State, listed, freed)
  BY DEF QueueInv, Good
<1>2. 1 .. created \subseteq Item /\ Live \subseteq 1 .. created
  BY LiveFacts DEF QueueInv
<1>3. CmdQueueTypeOK
  <2>1. /\ queue \in [Queue -> Seq(Item)] /\ info \in [Item -> Info]
        /\ refs \in [Client -> Nat] /\ dying \subseteq Client /\ created \in 0 .. MaxItems
    BY <1>1, StateFacts DEF Shape
  <2>2. fired \subseteq Item /\ failed \subseteq fired /\ job \subseteq fired
    BY <1>1, <1>2, StateFacts DEF Fires, QueueInv, Outcomes, Waits
  <2> QED
    BY <2>1, <2>2 DEF CmdQueueTypeOK, QueueInv, Clients, WaitForInv
<1>4. WaitItemsLive
  <2> SUFFICES ASSUME NEW i \in Item, Waiting(i) \/ Queued(i) # {}
               PROVE  /\ i \in fired
                      /\ queue[info[i].queue] # <<>> /\ Head(queue[info[i].queue]) = i
    BY DEF WaitItemsLive
  <2>1. Waiting(i)
    BY DEF Waiting, QueueInv, WaitForInv, NobodyStranded
  <2> QED
    BY <2>1 DEF QueueInv, Waits, Waiting
<1>5. OnlyHeadFired
  BY <1>1, StateFacts DEF Fires, OnlyHeadFired
<1>6. ReferencesExact
  <2>1. \A c : HeldIn(State, c) = {i \in Live : c \in Holds(info[i])}
    BY StateFacts DEF HeldIn
  <2>2. \A c : Cardinality(HeldIn(State, c)) = Holding(c, Live)
    BY <2>1 DEF Holding
  <2>3. \A c \in Client :
          refs[c] = Holding(c, Live) + (IF c \in listed THEN 1 ELSE 0)
    BY <1>1, <2>2, StateFacts DEF Counts
  <2>4. \A i \in Live : info[i].queue \in Client => info[i].client = info[i].queue
    BY LiveFacts DEF QueueInv
  <2>5. ASSUME NEW c \in dying \cup freed PROVE queue[c] = <<>> /\ Holding(c, Live) = 0
    <3>1. refs[c] = 0 /\ c \in Client /\ c \in Queue
      BY <1>1, StateFacts, ShapeFacts DEF Counts, QueueInv, Clients, Queue
    <3>2. Cardinality(HeldIn(State, c)) \in Nat
      BY <1>1, QueuedFinite
    <3>3. Holding(c, Live) = 0
      BY <2>2, <2>3, <3>1, <3>2
    <3>4. \A i \in Live : info[i].client # c
      <4>1. \A i \in Live : c \notin Holds(info[i])
        BY <1>1, <2>2, <3>3, QueuedFinite, StateFacts
      <4> QED
        BY <4>1 DEF Holds
    <3>5. queue[c] = <<>>
      <4> SUFFICES ASSUME queue[c] # <<>> PROVE FALSE
        OBVIOUS
      <4>1. Head(queue[c]) \in Live /\ info[Head(queue[c])].queue = c
        BY <3>1, HeadFires
      <4> QED
        BY <2>4, <3>1, <3>4, <4>1
    <3> QED
      BY <3>3, <3>5
  <2> QED
    BY <2>3, <2>4, <2>5 DEF ReferencesExact
<1>7. InSequence
  BY <1>1, StateFacts DEF Fires, InSequence
<1> QED
  BY <1>3, <1>4, <1>5, <1>6, <1>7 DEF CmdQueueInv, QueueInv, Outcomes

(* An item that something waits for is queued, at the head of its queue, and *)
(* the references of a client are exact: cmdq_continue, cmdq_remove and      *)
(* server_client_unref never follow a pointer to what was freed.             *)
THEOREM ItemsAndReferences == CmdQueueSpec => []CmdQueueInv
  BY QueueInvariant, InvFacts, PTL

(* A command never fires after an earlier one of its group that was queued   *)
(* with it failed, whatever was inserted between them.                       *)
THEOREM FailedGroupsEnd == CmdQueueSpec => []ErrorEndsGroup
  BY QueueInvariant, InvFacts, PTL

(* A command fires, or is still queued, or was removed with its group: an    *)
(* earlier one queued with it failed, or, where the list is kept and queued  *)
(* again with the group it was parsed with, one of another of its firings.   *)
THEOREM CommandsAreKept == CmdQueueSpec => []NothingLost
  BY QueueInvariant, InvFacts, PTL

(* Before an appended item fires, what was appended before it is finished. *)
THEOREM CommandsInSequence == CmdQueueSpec => []InSequence
  BY QueueInvariant, InvFacts, PTL
=============================================================================
