--------------------------- MODULE WaitForProofs ---------------------------
(***************************************************************************)
(* What WaitFor guarantees for any channels and items.  The invariant the  *)
(* proofs carry is WaitForInv of WaitFor.                                  *)
(***************************************************************************)
EXTENDS WaitFor, TLAPS

(* Appending adds one element, once if it was not there. *)
LEMMA AppendRange ==
    ASSUME NEW S, NEW q \in Seq(S), NEW x \in S
    PROVE  /\ Append(q, x) \in Seq(S)
           /\ Append(q, x) # <<>>
           /\ Range(Append(q, x)) = Range(q) \cup {x}
           /\ IsInjective(q) /\ x \notin Range(q) => IsInjective(Append(q, x))
<1>1. /\ Append(q, x) \in Seq(S)
      /\ DOMAIN q = 1 .. Len(q)
      /\ DOMAIN Append(q, x) = 1 .. Len(q) + 1
      /\ Append(q, x)[Len(q) + 1] = x
      /\ \A k \in 1 .. Len(q) : Append(q, x)[k] = q[k]
      /\ Len(q) \in Nat
  OBVIOUS
<1>2. 1 .. Len(q) + 1 = (1 .. Len(q)) \cup {Len(q) + 1}
  BY <1>1
<1>3. Range(Append(q, x)) = Range(q) \cup {x}
  BY <1>1, <1>2 DEF Range
<1>4. ASSUME IsInjective(q), x \notin Range(q)
      PROVE  IsInjective(Append(q, x))
  BY <1>1, <1>2, <1>4 DEF IsInjective, Range
<1> QED
  BY <1>1, <1>3, <1>4

(* Taking the head off removes exactly that element when it is there once. *)
LEMMA TailRange ==
    ASSUME NEW S, NEW q \in Seq(S), q # <<>>
    PROVE  /\ Tail(q) \in Seq(S)
           /\ Head(q) \in S
           /\ Range(q) = Range(Tail(q)) \cup {Head(q)}
           /\ IsInjective(q) => IsInjective(Tail(q)) /\ Head(q) \notin Range(Tail(q))
<1>1. /\ Tail(q) \in Seq(S)
      /\ Head(q) = q[1]
      /\ Head(q) \in S
      /\ Len(q) \in Nat /\ Len(q) >= 1
      /\ DOMAIN q = 1 .. Len(q)
      /\ DOMAIN Tail(q) = 1 .. Len(q) - 1
      /\ \A k \in 1 .. Len(q) - 1 : Tail(q)[k] = q[k + 1]
  OBVIOUS
<1>2. Range(q) \subseteq Range(Tail(q)) \cup {Head(q)}
  <2> SUFFICES ASSUME NEW k \in 1 .. Len(q)
               PROVE  q[k] \in Range(Tail(q)) \cup {Head(q)}
    BY <1>1 DEF Range
  <2>1. CASE k = 1
    BY <1>1, <2>1
  <2>2. CASE k # 1
    <3>1. k - 1 \in 1 .. Len(q) - 1 /\ Tail(q)[k - 1] = q[k]
      BY <1>1, <2>2
    <3> QED
      BY <1>1, <3>1 DEF Range
  <2> QED
    BY <2>1, <2>2
<1>3. Range(Tail(q)) \cup {Head(q)} \subseteq Range(q)
  <2>1. \A k \in 1 .. Len(q) - 1 : k + 1 \in 1 .. Len(q)
    BY <1>1
  <2> QED
    BY <1>1, <2>1 DEF Range
<1>4. ASSUME IsInjective(q)
      PROVE  IsInjective(Tail(q)) /\ Head(q) \notin Range(Tail(q))
  <2>1. \A k \in 1 .. Len(q) - 1 : k + 1 \in 1 .. Len(q) /\ k + 1 # 1
    BY <1>1
  <2>2. \A k, l \in 1 .. Len(q) - 1 : k + 1 = l + 1 => k = l
    BY <1>1
  <2> QED
    BY <1>1, <1>4, <2>1, <2>2 DEF IsInjective, Range
<1> QED
  BY <1>1, <1>2, <1>3, <1>4

(* The empty list. *)
LEMMA EmptyRange ==
    /\ Range(<<>>) = {}
    /\ IsInjective(<<>>)
    /\ \A S : <<>> \in Seq(S)
<1>1. DOMAIN <<>> = {}
  OBVIOUS
<1> QED
  BY <1>1 DEF Range, IsInjective

(* The empty channel is a channel. *)
LEMMA EmptyType ==
    /\ Empty \in WaitChannel
    /\ Empty.waiters = <<>> /\ Empty.lockers = <<>>
    /\ Empty.locked = FALSE /\ Empty.woken = FALSE /\ Empty.present = FALSE
  BY EmptyRange DEF Empty, WaitChannel

(* A step that rewrites the lists of one channel, drops the items Gone from *)
(* them and adds the items New, keeps every item on one list or on none.    *)
LEMMA Requeue ==
    ASSUME WaitForInv, NEW ch \in Channel, NEW Gone, NEW New,
           chan' \in [Channel -> WaitChannel],
           flag' \in [Item -> Flag],
           \A c \in Channel \ {ch} : chan'[c] = chan[c],
           IsInjective(chan'[ch].waiters), IsInjective(chan'[ch].lockers),
           Range(chan'[ch].waiters) \cap Range(chan'[ch].lockers) = {},
           Range(chan'[ch].waiters) \cup Range(chan'[ch].lockers) =
             ((Range(chan[ch].waiters) \cup Range(chan[ch].lockers)) \ Gone) \cup New,
           Gone \subseteq Range(chan[ch].waiters) \cup Range(chan[ch].lockers),
           New \subseteq Item,
           \A j \in New : flag[j] = "ready" /\ flag'[j] = "waiting",
           \A j \in Gone : flag'[j] # "waiting",
           \A j \in Item \ (Gone \cup New) : flag'[j] = "waiting" <=> flag[j] = "waiting",
           Range(chan'[ch].waiters) \cup Range(chan'[ch].lockers) # {} => chan'[ch].present
    PROVE  NobodyStranded' /\ QueuedOnce'
<1> DEFINE W(c) == Range(chan[c].waiters)
           L(c) == Range(chan[c].lockers)
           On(c) == W(c) \cup L(c)
           Wp(c) == Range(chan'[c].waiters)
           Lp(c) == Range(chan'[c].lockers)
           Onp(c) == Wp(c) \cup Lp(c)
<1>1. \A i \in Item : flag[i] = "waiting" <=> \E c \in Channel : i \in On(c)
  BY DEF WaitForInv, NobodyStranded, Queued
<1>2. \A c \in Channel : \A i \in On(c) : i \in Item
  <2> SUFFICES ASSUME NEW c \in Channel PROVE On(c) \subseteq Item
    OBVIOUS
  <2>1. chan[c].waiters \in Seq(Item) /\ chan[c].lockers \in Seq(Item)
    BY DEF WaitForInv, WaitForTypeOK, WaitChannel
  <2> QED
    BY <2>1 DEF Range
<1>3. \A c, d \in Channel : c # d => On(c) \cap On(d) = {}
  BY DEF WaitForInv, QueuedOnce
<1>4. \A c \in Channel \ {ch} : Onp(c) = On(c) /\ Wp(c) = W(c) /\ Lp(c) = L(c)
  OBVIOUS
<1>5. Onp(ch) = (On(ch) \ Gone) \cup New
  OBVIOUS
<1>6. \A j \in New : \A c \in Channel : j \notin On(c)
  BY <1>1
<1>7. \A c, d \in Channel : c # d => Onp(c) \cap Onp(d) = {}
  BY <1>3, <1>4, <1>5, <1>6
<1>8. \A i \in Item : flag'[i] = "waiting" <=> \E c \in Channel : i \in Onp(c)
  <2> SUFFICES ASSUME NEW i \in Item
               PROVE  flag'[i] = "waiting" <=> \E c \in Channel : i \in Onp(c)
    OBVIOUS
  <2>1. CASE i \in New
    BY <2>1, <1>5
  <2>2. CASE i \in Gone /\ i \notin New
    BY <2>2, <1>3, <1>4, <1>5
  <2>3. CASE i \notin Gone /\ i \notin New
    BY <2>3, <1>1, <1>4, <1>5
  <2> QED
    BY <2>1, <2>2, <2>3
<1>9. \A c \in Channel : Onp(c) # {} => chan'[c].present
  <2> SUFFICES ASSUME NEW c \in Channel, Onp(c) # {}, c # ch PROVE chan'[c].present
    OBVIOUS
  <2>1. PICK i : i \in On(c)
    BY <1>4
  <2>2. c \in Queued(i) /\ i \in Item
    BY <2>1, <1>2 DEF Queued
  <2> QED
    BY <2>2 DEF WaitForInv, NobodyStranded
<1>10. NobodyStranded'
  BY <1>8, <1>9 DEF NobodyStranded, Queued
<1>11. \A c \in Channel : IsInjective(chan'[c].waiters) /\ IsInjective(chan'[c].lockers)
  BY DEF WaitForInv, QueuedOnce
<1>12. \A c \in Channel : Wp(c) \cap Lp(c) = {}
  BY DEF WaitForInv, QueuedOnce
<1>13. QueuedOnce'
  BY <1>7, <1>11, <1>12 DEF QueuedOnce
<1> QED
  BY <1>10, <1>13

(* A step that leaves the lists and who waits alone keeps everybody found. *)
LEMMA SameLists ==
    ASSUME WaitForInv, NEW ch \in Channel,
           chan' \in [Channel -> WaitChannel],
           flag' \in [Item -> Flag],
           \A c \in Channel \ {ch} : chan'[c] = chan[c],
           chan'[ch].waiters = chan[ch].waiters,
           chan'[ch].lockers = chan[ch].lockers,
           chan'[ch].present \/ (chan[ch].waiters = <<>> /\ chan[ch].lockers = <<>>),
           \A j \in Item : flag'[j] = "waiting" <=> flag[j] = "waiting"
    PROVE  NobodyStranded' /\ QueuedOnce'
<1>1. /\ IsInjective(chan'[ch].waiters) /\ IsInjective(chan'[ch].lockers)
      /\ Range(chan'[ch].waiters) \cap Range(chan'[ch].lockers) = {}
  BY DEF WaitForInv, QueuedOnce
<1>2. Range(chan'[ch].waiters) \cup Range(chan'[ch].lockers) # {} => chan'[ch].present
  BY EmptyRange
<1> DEFINE None == {}
<1>3. Range(chan'[ch].waiters) \cup Range(chan'[ch].lockers) =
        ((Range(chan[ch].waiters) \cup Range(chan[ch].lockers)) \ None) \cup None
  OBVIOUS
<1>4. \A j \in Item \ (None \cup None) : flag'[j] = "waiting" <=> flag[j] = "waiting"
  OBVIOUS
<1>5. \A j \in None : FALSE
  OBVIOUS
<1> HIDE DEF None
<1> QED
  BY <1>1, <1>2, <1>3, <1>4, <1>5, Requeue

(* What the channels and their lists are. *)
LEMMA ChannelFacts ==
    ASSUME WaitForInv, NEW ch \in Channel
    PROVE  /\ chan[ch] \in WaitChannel
           /\ chan[ch].waiters \in Seq(Item) /\ chan[ch].lockers \in Seq(Item)
           /\ Range(chan[ch].waiters) \subseteq Item
           /\ Range(chan[ch].lockers) \subseteq Item
           /\ Add(chan[ch]) \in WaitChannel
           /\ Add(chan[ch]) = [chan[ch] EXCEPT !.present = TRUE]
<1>1. chan[ch] \in WaitChannel
  BY DEF WaitForInv, WaitForTypeOK
<1>2. chan[ch].waiters \in Seq(Item) /\ chan[ch].lockers \in Seq(Item)
  BY <1>1 DEF WaitChannel
<1>3. Add(chan[ch]) \in WaitChannel
  BY <1>1 DEF Add, WaitChannel
<1> QED
  BY <1>1, <1>2, <1>3 DEF Range, Add

(* cmd_wait_for_remove keeps the lists and the lock of a channel that has    *)
(* no lockers when it is unlocked.                                           *)
LEMMA RemoveFacts ==
    ASSUME NEW wc \in WaitChannel, wc.present,
           wc.locked = FALSE => wc.lockers = <<>>
    PROVE  /\ Remove(wc) \in WaitChannel
           /\ Remove(wc).waiters = wc.waiters
           /\ Remove(wc).lockers = wc.lockers
           /\ Remove(wc).locked = wc.locked
           /\ Remove(wc).woken => wc.woken
           /\ ~Remove(wc).present =>
                Remove(wc) = Empty /\ wc.waiters = <<>> /\ wc.lockers = <<>>
<1>1. CASE Remove(wc) = Empty /\ wc.locked = FALSE /\ wc.waiters = <<>>
  BY <1>1, EmptyType
<1>2. CASE Remove(wc) = wc
  BY <1>2
<1>3. wc.locked \in BOOLEAN
  BY DEF WaitChannel
<1> QED
  BY <1>1, <1>2, <1>3 DEF Remove

(* A step on one channel that appends item i to one of its lists. *)
LEMMA Enqueue ==
    ASSUME WaitForInv, NEW ch \in Channel, NEW i \in Item, flag[i] = "ready",
           chan' \in [Channel -> WaitChannel],
           flag' = [flag EXCEPT ![i] = "waiting"],
           \A c \in Channel \ {ch} : chan'[c] = chan[c],
           chan'[ch].present,
           \/ /\ chan'[ch].waiters = Append(chan[ch].waiters, i)
              /\ chan'[ch].lockers = chan[ch].lockers
           \/ /\ chan'[ch].waiters = chan[ch].waiters
              /\ chan'[ch].lockers = Append(chan[ch].lockers, i)
    PROVE  NobodyStranded' /\ QueuedOnce' /\ flag' \in [Item -> Flag]
<1> DEFINE None == {}
           New == {i}
<1>1. /\ chan[ch].waiters \in Seq(Item) /\ chan[ch].lockers \in Seq(Item)
      /\ IsInjective(chan[ch].waiters) /\ IsInjective(chan[ch].lockers)
      /\ Range(chan[ch].waiters) \cap Range(chan[ch].lockers) = {}
  BY ChannelFacts DEF WaitForInv, QueuedOnce
<1>2. i \notin Range(chan[ch].waiters) /\ i \notin Range(chan[ch].lockers)
  BY DEF WaitForInv, NobodyStranded, Queued
<1>3. /\ IsInjective(chan'[ch].waiters) /\ IsInjective(chan'[ch].lockers)
      /\ Range(chan'[ch].waiters) \cap Range(chan'[ch].lockers) = {}
      /\ Range(chan'[ch].waiters) \cup Range(chan'[ch].lockers) =
           ((Range(chan[ch].waiters) \cup Range(chan[ch].lockers)) \ None) \cup New
  <2>1. /\ Range(Append(chan[ch].waiters, i)) = Range(chan[ch].waiters) \cup {i}
        /\ IsInjective(Append(chan[ch].waiters, i))
        /\ Range(Append(chan[ch].lockers, i)) = Range(chan[ch].lockers) \cup {i}
        /\ IsInjective(Append(chan[ch].lockers, i))
    BY <1>1, <1>2, AppendRange
  <2>2. CASE /\ chan'[ch].waiters = Append(chan[ch].waiters, i)
             /\ chan'[ch].lockers = chan[ch].lockers
    BY <1>1, <1>2, <2>1, <2>2
  <2>3. CASE /\ chan'[ch].waiters = chan[ch].waiters
             /\ chan'[ch].lockers = Append(chan[ch].lockers, i)
    BY <1>1, <1>2, <2>1, <2>3
  <2> QED
    BY <2>2, <2>3
<1>4. /\ flag' \in [Item -> Flag]
      /\ \A j \in New : flag[j] = "ready" /\ flag'[j] = "waiting"
      /\ \A j \in Item \ (None \cup New) : flag'[j] = "waiting" <=> flag[j] = "waiting"
      /\ \A j \in None : flag'[j] # "waiting"
      /\ None \subseteq Range(chan[ch].waiters) \cup Range(chan[ch].lockers)
      /\ New \subseteq Item
  BY DEF WaitForInv, WaitForTypeOK, Flag
<1> HIDE DEF None, New
<1> QED
  BY <1>3, <1>4, Requeue

(* The initial states satisfy the invariant. *)
LEMMA InitInv == WaitForInit => WaitForInv
<1> SUFFICES ASSUME WaitForInit PROVE WaitForInv
  OBVIOUS
<1>1. \A ch \in Channel : chan[ch] = Empty
  BY DEF WaitForInit
<1>2. WaitForTypeOK
  BY EmptyType DEF WaitForInit, WaitForTypeOK, Flag
<1>3. NobodyStranded
  <2>1. \A i \in Item : Queued(i) = {}
    BY <1>1, EmptyType, EmptyRange DEF Queued
  <2> QED
    BY <2>1 DEF NobodyStranded, WaitForInit
<1>4. QueuedOnce
  BY <1>1, EmptyType, EmptyRange DEF QueuedOnce
<1>5. MutualExclusion
  BY <1>1, EmptyType DEF MutualExclusion, WaitForInit
<1> QED
  BY <1>1, <1>2, <1>3, <1>4, <1>5, EmptyType DEF WaitForInv, NoSleepOnWoken

(* A failing command leaves the channels alone. *)
LEMMA FailInv ==
    ASSUME WaitForInv, NEW i \in Item, flag[i] = "ready", Fail(i)
    PROVE  WaitForInv'
<1>1. /\ UNCHANGED <<chan, taken, given>>
      /\ flag' \in [Item -> Flag]
      /\ \A j \in Item : flag'[j] = "waiting" <=> flag[j] = "waiting"
  BY DEF Fail, Continue, WaitForInv, WaitForTypeOK, Flag
<1> QED
  BY <1>1 DEF WaitForInv, WaitForTypeOK, NobodyStranded, Queued, QueuedOnce,
              MutualExclusion, NoSleepOnWoken

(* Signalling keeps the invariant. *)
LEMMA SignalInv ==
    ASSUME WaitForInv, NEW i \in Item, NEW ch \in Channel, Signal(i, ch)
    PROVE  WaitForInv'
<1> DEFINE wc == Add(chan[ch])
<1> USE ChannelFacts
<1>1. /\ wc \in WaitChannel /\ wc.present
      /\ wc.waiters = chan[ch].waiters /\ wc.lockers = chan[ch].lockers
      /\ wc.locked = chan[ch].locked /\ wc.woken = chan[ch].woken
  BY DEF Add, WaitChannel
<1>2. CASE wc.waiters = <<>> /\ ~wc.woken
  <2>1. /\ chan' = [chan EXCEPT ![ch] = [wc EXCEPT !.woken = TRUE]]
        /\ flag' = [j \in Item |-> IF j = i THEN "done" ELSE flag[j]]
        /\ flag[i] = "ready" /\ UNCHANGED <<taken, given>>
    BY <1>2 DEF Signal, Continue
  <2>2. /\ chan' \in [Channel -> WaitChannel]
        /\ flag' \in [Item -> Flag]
        /\ \A c \in Channel \ {ch} : chan'[c] = chan[c]
        /\ chan'[ch].present /\ chan'[ch].woken
        /\ chan'[ch].locked = chan[ch].locked
        /\ chan'[ch].waiters = chan[ch].waiters
        /\ chan'[ch].lockers = chan[ch].lockers
        /\ \A j \in Item : flag'[j] = "waiting" <=> flag[j] = "waiting"
    BY <1>1, <2>1 DEF WaitForInv, WaitForTypeOK, WaitChannel, Flag
  <2>3. NobodyStranded' /\ QueuedOnce'
    BY <2>2, SameLists
  <2> QED
    BY <1>1, <1>2, <2>1, <2>2, <2>3
    DEF WaitForInv, WaitForTypeOK, NoSleepOnWoken, MutualExclusion
<1>3. CASE ~(wc.waiters = <<>> /\ ~wc.woken)
  <2> DEFINE quiet == [wc EXCEPT !.waiters = <<>>]
             Gone == Range(chan[ch].waiters)
  <2>1. /\ chan' = [chan EXCEPT ![ch] = Remove(quiet)]
        /\ flag' = [j \in Item |-> IF j = i THEN "done"
                                  ELSE IF j \in Gone THEN "done" ELSE flag[j]]
        /\ flag[i] = "ready" /\ UNCHANGED <<taken, given>>
    BY <1>1, <1>3 DEF Signal, Continue
  <2>2. /\ quiet \in WaitChannel /\ quiet.waiters = <<>>
        /\ quiet.lockers = chan[ch].lockers /\ quiet.locked = chan[ch].locked
        /\ quiet.present
    BY <1>1, EmptyRange DEF WaitChannel
  <2>3. /\ Remove(quiet) \in WaitChannel
        /\ Remove(quiet).waiters = <<>>
        /\ Remove(quiet).lockers = chan[ch].lockers
        /\ Remove(quiet).locked = chan[ch].locked
        /\ ~Remove(quiet).present => Remove(quiet) = Empty
    <3> HIDE DEF quiet
    <3>1. CASE Remove(quiet) = Empty /\ quiet.locked = FALSE
      <4>1. chan[ch].locked = FALSE /\ chan[ch].lockers = <<>>
        BY <2>2, <3>1 DEF WaitForInv
      <4> QED
        BY <3>1, <4>1, EmptyType
    <3>2. CASE Remove(quiet) = quiet
      BY <2>2, <3>2
    <3>3. quiet.locked \in BOOLEAN
      BY <2>2 DEF WaitChannel
    <3> QED
      BY <3>1, <3>2, <3>3 DEF Remove
  <2>4. /\ chan' \in [Channel -> WaitChannel]
        /\ flag' \in [Item -> Flag]
        /\ \A c \in Channel \ {ch} : chan'[c] = chan[c]
        /\ chan'[ch] = Remove(quiet)
        /\ \A j \in Gone : flag'[j] # "waiting"
        /\ \A j \in Item \ Gone : flag'[j] = "waiting" <=> flag[j] = "waiting"
    BY <2>1, <2>3 DEF WaitForInv, WaitForTypeOK, Flag
  <2>5. /\ IsInjective(chan'[ch].waiters) /\ IsInjective(chan'[ch].lockers)
        /\ Range(chan'[ch].waiters) = {}
        /\ Range(chan'[ch].lockers) = Range(chan[ch].lockers)
        /\ Range(chan[ch].waiters) \cap Range(chan[ch].lockers) = {}
    BY <2>3, <2>4, EmptyRange DEF WaitForInv, QueuedOnce
  <2>6. Range(chan'[ch].lockers) # {} => chan'[ch].present
    BY <2>3, <2>4, EmptyType, EmptyRange
  <2>7. NobodyStranded' /\ QueuedOnce'
    <3> DEFINE New == {}
    <3>1. /\ New \subseteq Item
          /\ \A j \in New : FALSE
          /\ Gone \cup New = Gone
          /\ Range(chan'[ch].waiters) \cup Range(chan'[ch].lockers) =
               ((Range(chan[ch].waiters) \cup Range(chan[ch].lockers)) \ Gone) \cup New
          /\ Range(chan'[ch].waiters) \cap Range(chan'[ch].lockers) = {}
          /\ Gone \subseteq Range(chan[ch].waiters) \cup Range(chan[ch].lockers)
          /\ Range(chan'[ch].waiters) \cup Range(chan'[ch].lockers) # {} => chan'[ch].present
      BY <2>5, <2>6
    <3> HIDE DEF New, Gone
    <3> QED
      BY <2>4, <2>5, <3>1, Requeue
  <2> QED
    BY <2>1, <2>3, <2>4, <2>7
    DEF WaitForInv, WaitForTypeOK, NoSleepOnWoken, MutualExclusion
<1> QED
  BY <1>2, <1>3

(* Waiting keeps the invariant. *)
LEMMA WaitInv ==
    ASSUME WaitForInv, NEW i \in Item, NEW ch \in Channel,
           NEW b \in BOOLEAN, Wait(i, ch, b)
    PROVE  WaitForInv'
<1> DEFINE wc == Add(chan[ch])
<1>1. /\ wc \in WaitChannel /\ wc.present
      /\ wc.waiters = chan[ch].waiters /\ wc.lockers = chan[ch].lockers
      /\ wc.locked = chan[ch].locked /\ wc.woken = chan[ch].woken
      /\ flag[i] = "ready"
  BY ChannelFacts DEF Add, WaitChannel, Wait
<1>2. CASE ~b
  BY <1>1, <1>2, FailInv DEF Wait
<1>3. CASE b /\ wc.woken
  <2>1. /\ chan' = [chan EXCEPT ![ch] = Remove(wc)]
        /\ flag' = [j \in Item |-> IF j = i THEN "done" ELSE flag[j]]
        /\ UNCHANGED <<taken, given>>
    BY <1>3 DEF Wait, Continue
  <2>2. wc.locked = FALSE => wc.lockers = <<>>
    BY <1>1 DEF WaitForInv
  <2> HIDE DEF wc
  <2>3. /\ chan' \in [Channel -> WaitChannel]
        /\ flag' \in [Item -> Flag]
        /\ chan'[ch] = Remove(wc)
        /\ \A c \in Channel \ {ch} : chan'[c] = chan[c]
        /\ \A j \in Item : flag'[j] = "waiting" <=> flag[j] = "waiting"
    BY <1>1, <2>1, <2>2, RemoveFacts DEF WaitForInv, WaitForTypeOK, Flag
  <2>4. /\ chan'[ch].waiters = chan[ch].waiters
        /\ chan'[ch].lockers = chan[ch].lockers
        /\ chan'[ch].locked = chan[ch].locked
        /\ chan'[ch].woken => chan[ch].woken
        /\ ~chan'[ch].present =>
             chan'[ch] = Empty /\ chan[ch].waiters = <<>> /\ chan[ch].lockers = <<>>
    <3>1. /\ Remove(wc).waiters = wc.waiters /\ Remove(wc).lockers = wc.lockers
          /\ Remove(wc).locked = wc.locked /\ (Remove(wc).woken => wc.woken)
          /\ ~Remove(wc).present =>
               Remove(wc) = Empty /\ wc.waiters = <<>> /\ wc.lockers = <<>>
      BY <1>1, <2>2, RemoveFacts
    <3> QED
      BY <1>1, <2>3, <3>1
  <2>5. NobodyStranded' /\ QueuedOnce'
    BY <2>3, <2>4, SameLists
  <2> QED
    BY <2>1, <2>3, <2>4, <2>5
    DEF WaitForInv, WaitForTypeOK, NoSleepOnWoken, MutualExclusion
<1>4. CASE b /\ ~wc.woken
  <2>1. /\ chan' = [chan EXCEPT ![ch] = [wc EXCEPT !.waiters = Append(@, i)]]
        /\ flag' = [j \in Item |-> IF j = i THEN "waiting" ELSE flag[j]]
        /\ UNCHANGED <<taken, given>>
    BY <1>4 DEF Wait, Continue
  <2>2. flag' = [flag EXCEPT ![i] = "waiting"]
    BY <2>1 DEF WaitForInv, WaitForTypeOK
  <2>3. Append(chan[ch].waiters, i) \in Seq(Item)
    BY ChannelFacts, AppendRange
  <2> HIDE DEF wc
  <2>4. /\ chan' \in [Channel -> WaitChannel]
        /\ \A c \in Channel \ {ch} : chan'[c] = chan[c]
        /\ chan'[ch].present /\ ~chan'[ch].woken
        /\ chan'[ch].locked = chan[ch].locked
        /\ chan'[ch].waiters = Append(chan[ch].waiters, i)
        /\ chan'[ch].lockers = chan[ch].lockers
    BY <1>1, <1>4, <2>1, <2>3 DEF WaitForInv, WaitForTypeOK, WaitChannel
  <2>5. NobodyStranded' /\ QueuedOnce' /\ flag' \in [Item -> Flag]
    BY <1>1, <2>2, <2>4, Enqueue
  <2> QED
    BY <2>1, <2>4, <2>5
    DEF WaitForInv, WaitForTypeOK, NoSleepOnWoken, MutualExclusion
<1> QED
  BY <1>2, <1>3, <1>4

(* Locking keeps the invariant. *)
LEMMA LockInv ==
    ASSUME WaitForInv, NEW i \in Item, NEW ch \in Channel,
           NEW b \in BOOLEAN, Lock(i, ch, b)
    PROVE  WaitForInv'
<1> DEFINE wc == Add(chan[ch])
<1>1. /\ wc \in WaitChannel /\ wc.present
      /\ wc.waiters = chan[ch].waiters /\ wc.lockers = chan[ch].lockers
      /\ wc.locked = chan[ch].locked /\ wc.woken = chan[ch].woken
      /\ flag[i] = "ready" /\ wc.locked \in BOOLEAN
  BY ChannelFacts DEF Add, WaitChannel, Lock
<1>2. CASE ~b
  BY <1>1, <1>2, FailInv DEF Lock
<1>3. CASE b /\ wc.locked
  <2>1. /\ chan' = [chan EXCEPT ![ch] = [wc EXCEPT !.lockers = Append(@, i)]]
        /\ flag' = [j \in Item |-> IF j = i THEN "waiting" ELSE flag[j]]
        /\ UNCHANGED <<taken, given>>
    BY <1>3 DEF Lock, Continue
  <2>2. flag' = [flag EXCEPT ![i] = "waiting"]
    BY <2>1 DEF WaitForInv, WaitForTypeOK
  <2>3. /\ Append(chan[ch].lockers, i) \in Seq(Item)
        /\ Append(chan[ch].lockers, i) # <<>>
    BY ChannelFacts, AppendRange
  <2> HIDE DEF wc
  <2>4. /\ chan' \in [Channel -> WaitChannel]
        /\ \A c \in Channel \ {ch} : chan'[c] = chan[c]
        /\ chan'[ch].present /\ chan'[ch].woken = chan[ch].woken
        /\ chan'[ch].locked = TRUE /\ chan[ch].locked = TRUE
        /\ chan'[ch].lockers = Append(chan[ch].lockers, i)
        /\ chan'[ch].waiters = chan[ch].waiters
    BY <1>1, <1>3, <2>1, <2>3 DEF WaitForInv, WaitForTypeOK, WaitChannel
  <2>5. NobodyStranded' /\ QueuedOnce' /\ flag' \in [Item -> Flag]
    BY <1>1, <2>2, <2>4, Enqueue
  <2> QED
    BY <2>1, <2>4, <2>5
    DEF WaitForInv, WaitForTypeOK, NoSleepOnWoken, MutualExclusion
<1>4. CASE b /\ ~wc.locked
  <2>1. /\ chan' = [chan EXCEPT ![ch] = [wc EXCEPT !.locked = TRUE]]
        /\ flag' = [j \in Item |-> IF j = i THEN "done" ELSE flag[j]]
        /\ taken' = [taken EXCEPT ![ch] = @ + 1]
        /\ UNCHANGED given
    BY <1>4 DEF Lock, Continue
  <2> HIDE DEF wc
  <2>2. /\ chan' \in [Channel -> WaitChannel]
        /\ flag' \in [Item -> Flag]
        /\ \A c \in Channel \ {ch} : chan'[c] = chan[c]
        /\ chan'[ch].present /\ chan'[ch].woken = chan[ch].woken
        /\ chan'[ch].locked = TRUE /\ chan[ch].locked = FALSE
        /\ chan'[ch].lockers = chan[ch].lockers
        /\ chan'[ch].waiters = chan[ch].waiters
        /\ \A j \in Item : flag'[j] = "waiting" <=> flag[j] = "waiting"
    BY <1>1, <1>4, <2>1 DEF WaitForInv, WaitForTypeOK, WaitChannel, Flag
  <2>3. NobodyStranded' /\ QueuedOnce'
    BY <2>2, SameLists
  <2>4. /\ taken' \in [Channel -> Nat]
        /\ taken'[ch] = taken[ch] + 1
        /\ \A c \in Channel \ {ch} : taken'[c] = taken[c]
        /\ \A c \in Channel : taken[c] \in Nat /\ given[c] \in Nat
    BY <2>1 DEF WaitForInv, WaitForTypeOK
  <2>5. MutualExclusion'
    BY <2>1, <2>2, <2>4 DEF WaitForInv, MutualExclusion
  <2> QED
    BY <2>1, <2>2, <2>3, <2>4, <2>5
    DEF WaitForInv, WaitForTypeOK, NoSleepOnWoken
<1> QED
  BY <1>1, <1>2, <1>3, <1>4

(* Unlocking keeps the invariant. *)
LEMMA UnlockInv ==
    ASSUME WaitForInv, NEW i \in Item, NEW ch \in Channel, Unlock(i, ch)
    PROVE  WaitForInv'
<1> DEFINE wc == chan[ch]
<1>1. /\ wc \in WaitChannel /\ wc.locked \in BOOLEAN
      /\ wc.lockers \in Seq(Item) /\ flag[i] = "ready"
      /\ \A c \in Channel : taken[c] \in Nat /\ given[c] \in Nat
  BY ChannelFacts DEF WaitChannel, Unlock, WaitForInv, WaitForTypeOK
<1>2. CASE ~wc.present \/ ~wc.locked
  BY <1>1, <1>2, FailInv DEF Unlock
<1>3. CASE wc.present /\ wc.locked /\ wc.lockers # <<>>
  <2> DEFINE Gone == {Head(wc.lockers)}
             New == {}
  <2>1. /\ chan' = [chan EXCEPT ![ch] = [wc EXCEPT !.lockers = Tail(@)]]
        /\ flag' = [j \in Item |-> IF j = i THEN "done"
                                  ELSE IF j \in Gone THEN "done" ELSE flag[j]]
        /\ taken' = [taken EXCEPT ![ch] = @ + 1]
        /\ given' = [given EXCEPT ![ch] = @ + 1]
    BY <1>3 DEF Unlock, Continue
  <2>2. /\ IsInjective(wc.lockers) /\ IsInjective(wc.waiters)
        /\ Range(wc.waiters) \cap Range(wc.lockers) = {}
    BY DEF WaitForInv, QueuedOnce
  <2>3. /\ Tail(wc.lockers) \in Seq(Item) /\ Head(wc.lockers) \in Item
        /\ Range(wc.lockers) = Range(Tail(wc.lockers)) \cup Gone
        /\ IsInjective(Tail(wc.lockers))
        /\ Head(wc.lockers) \notin Range(Tail(wc.lockers))
    BY <1>1, <1>3, <2>2, TailRange
  <2>4. /\ chan' \in [Channel -> WaitChannel]
        /\ flag' \in [Item -> Flag]
        /\ \A c \in Channel \ {ch} : chan'[c] = chan[c]
        /\ chan'[ch].present /\ chan'[ch].locked = TRUE /\ chan[ch].locked = TRUE
        /\ chan'[ch].woken = chan[ch].woken
        /\ chan'[ch].waiters = chan[ch].waiters
        /\ chan'[ch].lockers = Tail(chan[ch].lockers)
        /\ \A j \in Gone : flag'[j] # "waiting"
        /\ \A j \in Item \ Gone : flag'[j] = "waiting" <=> flag[j] = "waiting"
    BY <1>1, <1>3, <2>1, <2>3 DEF WaitForInv, WaitForTypeOK, WaitChannel, Flag
  <2>5. /\ Range(chan'[ch].waiters) \cup Range(chan'[ch].lockers) =
             ((Range(chan[ch].waiters) \cup Range(chan[ch].lockers)) \ Gone) \cup New
        /\ Range(chan'[ch].waiters) \cap Range(chan'[ch].lockers) = {}
        /\ IsInjective(chan'[ch].waiters) /\ IsInjective(chan'[ch].lockers)
        /\ Gone \subseteq Range(chan[ch].waiters) \cup Range(chan[ch].lockers)
        /\ New \subseteq Item /\ Gone \cup New = Gone
        /\ \A j \in New : FALSE
    BY <2>2, <2>3, <2>4
  <2>6. NobodyStranded' /\ QueuedOnce'
    <3> HIDE DEF Gone, New
    <3> QED
      BY <2>4, <2>5, Requeue
  <2>7. /\ taken' \in [Channel -> Nat] /\ given' \in [Channel -> Nat]
        /\ taken'[ch] = taken[ch] + 1 /\ given'[ch] = given[ch] + 1
        /\ \A c \in Channel \ {ch} : taken'[c] = taken[c] /\ given'[c] = given[c]
    BY <2>1 DEF WaitForInv, WaitForTypeOK
  <2>8. MutualExclusion'
    <3>1. taken[ch] = given[ch] + 1
      BY <2>4 DEF WaitForInv, MutualExclusion
    <3>2. taken'[ch] = given'[ch] + 1 /\ taken'[ch] > given'[ch]
      BY <1>1, <2>7, <3>1
    <3> QED
      BY <2>4, <2>7, <3>2 DEF WaitForInv, MutualExclusion
  <2> QED
    BY <2>4, <2>6, <2>7, <2>8 DEF WaitForInv, WaitForTypeOK, NoSleepOnWoken
<1>4. CASE wc.present /\ wc.locked /\ wc.lockers = <<>>
  <2> DEFINE open == [wc EXCEPT !.locked = FALSE]
  <2>1. /\ chan' = [chan EXCEPT ![ch] = Remove(open)]
        /\ flag' = [j \in Item |-> IF j = i THEN "done" ELSE flag[j]]
        /\ given' = [given EXCEPT ![ch] = @ + 1]
        /\ UNCHANGED taken
    BY <1>4 DEF Unlock, Continue
  <2>2. /\ open \in WaitChannel /\ open.present /\ open.locked = FALSE
        /\ open.lockers = <<>> /\ open.waiters = chan[ch].waiters
        /\ open.woken = chan[ch].woken /\ chan[ch].lockers = <<>>
        /\ chan[ch].locked = TRUE
    BY <1>1, <1>4 DEF WaitChannel
  <2> HIDE DEF open, wc
  <2>3. /\ chan' \in [Channel -> WaitChannel]
        /\ flag' \in [Item -> Flag]
        /\ chan'[ch] = Remove(open)
        /\ \A c \in Channel \ {ch} : chan'[c] = chan[c]
        /\ \A j \in Item : flag'[j] = "waiting" <=> flag[j] = "waiting"
    BY <1>1, <2>1, <2>2, RemoveFacts DEF WaitForInv, WaitForTypeOK, Flag
  <2>4. /\ chan'[ch].waiters = chan[ch].waiters
        /\ chan'[ch].lockers = chan[ch].lockers /\ chan'[ch].lockers = <<>>
        /\ chan'[ch].locked = FALSE
        /\ chan'[ch].woken => chan[ch].woken
        /\ ~chan'[ch].present =>
             chan'[ch] = Empty /\ chan[ch].waiters = <<>> /\ chan[ch].lockers = <<>>
    <3>1. /\ Remove(open).waiters = open.waiters /\ Remove(open).lockers = <<>>
          /\ Remove(open).locked = FALSE /\ (Remove(open).woken => open.woken)
          /\ ~Remove(open).present => Remove(open) = Empty /\ open.waiters = <<>>
      BY <2>2, RemoveFacts
    <3> QED
      BY <2>2, <2>3, <3>1
  <2>5. NobodyStranded' /\ QueuedOnce'
    BY <2>3, <2>4, SameLists
  <2>6. /\ given' \in [Channel -> Nat]
        /\ given'[ch] = given[ch] + 1 /\ taken' = taken
        /\ \A c \in Channel \ {ch} : given'[c] = given[c]
    BY <2>1 DEF WaitForInv, WaitForTypeOK
  <2>7. MutualExclusion'
    BY <1>1, <2>2, <2>3, <2>4, <2>6 DEF WaitForInv, MutualExclusion
  <2> QED
    BY <2>3, <2>4, <2>5, <2>6, <2>7 DEF WaitForInv, WaitForTypeOK, NoSleepOnWoken
<1> QED
  BY <1>2, <1>3, <1>4

(* A flush removes every channel and lets every item go on. *)
LEMMA FlushInv ==
    ASSUME WaitForInv, Flush
    PROVE  WaitForInv' /\ chan' = [c \in Channel |-> Empty]
<1> DEFINE free(c) == [chan[c] EXCEPT !.waiters = <<>>, !.woken = TRUE,
                                      !.lockers = <<>>, !.locked = FALSE]
<1>1. \A c \in Channel : chan[c].present => Remove(free(c)) = Empty
  <2> SUFFICES ASSUME NEW c \in Channel PROVE Remove(free(c)) = Empty
    OBVIOUS
  <2>1. free(c).locked = FALSE /\ free(c).waiters = <<>> /\ free(c).woken = TRUE
    BY ChannelFacts DEF WaitChannel
  <2> QED
    BY <2>1 DEF Remove
<1>2. \A c \in Channel : ~chan[c].present => chan[c] = Empty
  BY DEF WaitForInv
<1>3. chan' = [c \in Channel |-> Empty]
  BY <1>1, <1>2 DEF Flush
<1>4. \A c \in Channel : chan'[c] = Empty
  BY <1>3
<1>5. /\ flag' \in [Item -> Flag]
      /\ \A j \in Item : flag'[j] # "waiting"
  <2>1. /\ flag' = [j \in Item |->
             IF \E c \in {d \in Channel : chan[d].present} :
                  j \in Range(chan[c].waiters) \cup Range(chan[c].lockers)
             THEN "done" ELSE flag[j]]
        /\ flag \in [Item -> Flag]
    BY DEF Flush, WaitForInv, WaitForTypeOK
  <2>2. \A j \in Item : flag[j] = "waiting" =>
          \E c \in Channel : /\ chan[c].present
                             /\ j \in Range(chan[c].waiters) \cup Range(chan[c].lockers)
    <3> SUFFICES ASSUME NEW j \in Item, flag[j] = "waiting"
                 PROVE  \E c \in Channel :
                          /\ chan[c].present
                          /\ j \in Range(chan[c].waiters) \cup Range(chan[c].lockers)
      OBVIOUS
    <3>1. Queued(j) # {} /\ \A c \in Queued(j) : chan[c].present
      BY DEF WaitForInv, NobodyStranded
    <3> QED
      BY <3>1 DEF Queued
  <2> QED
    BY <2>1, <2>2 DEF Flag
<1>6. given' = taken /\ taken' = taken /\ \A c \in Channel : taken[c] \in Nat
  BY DEF Flush, WaitForInv, WaitForTypeOK
<1>7. WaitForTypeOK'
  BY <1>3, <1>5, <1>6, EmptyType DEF WaitForTypeOK, WaitForInv
<1>8. NobodyStranded'
  <2>1. \A j \in Item : Queued(j)' = {}
    BY <1>4, EmptyType, EmptyRange DEF Queued
  <2> QED
    BY <2>1, <1>5 DEF NobodyStranded
<1>9. QueuedOnce'
  BY <1>4, EmptyType, EmptyRange DEF QueuedOnce
<1>10. MutualExclusion' /\ NoSleepOnWoken'
  BY <1>4, <1>6, EmptyType DEF MutualExclusion, NoSleepOnWoken
<1> QED
  BY <1>3, <1>4, <1>7, <1>8, <1>9, <1>10, EmptyType DEF WaitForInv

(* Every state the channels reach satisfies the invariant. *)
THEOREM WaitForInvariant == WaitForSpec => []WaitForInv
<1>1. WaitForInit => WaitForInv
  BY InitInv
<1>2. WaitForInv /\ [WaitForNext]_wvars => WaitForInv'
  <2> SUFFICES ASSUME WaitForInv, [WaitForNext]_wvars PROVE WaitForInv'
    OBVIOUS
  <2>1. ASSUME NEW i \in Item, NEW ch \in Channel, NEW b \in BOOLEAN,
               WaitForCommand(i, ch, b)
        PROVE  WaitForInv'
    BY <2>1, SignalInv, WaitInv, LockInv, UnlockInv DEF WaitForCommand
  <2>2. CASE Flush
    BY <2>2, FlushInv
  <2>3. CASE UNCHANGED wvars
    BY <2>3 DEF wvars, WaitForInv, WaitForTypeOK, NoSleepOnWoken, NobodyStranded,
                Queued, QueuedOnce, MutualExclusion
  <2> QED
    BY <2>1, <2>2, <2>3 DEF WaitForNext
<1> QED
  BY <1>1, <1>2, PTL DEF WaitForSpec

(* No item is ever left on a channel that has gone, nor waiting on none, for *)
(* any number of channels and items.                                         *)
THEOREM NeverStranded == WaitForSpec => []NobodyStranded
<1>1. WaitForInv => NobodyStranded
  BY DEF WaitForInv
<1> QED
  BY <1>1, WaitForInvariant, PTL

(* The lock of a channel never has two owners. *)
THEOREM LockIsExclusive == WaitForSpec => []MutualExclusion
<1>1. WaitForInv => MutualExclusion
  BY DEF WaitForInv
<1> QED
  BY <1>1, WaitForInvariant, PTL

(* A signal and a wait leave the lockers of every channel alone. *)
LEMMA LockersStay ==
    ASSUME WaitForInv, NEW i \in Item, NEW ch \in Channel,
           NEW b \in BOOLEAN, Signal(i, ch) \/ Wait(i, ch, b)
    PROVE  \A c \in Channel : chan'[c].lockers = chan[c].lockers
<1> DEFINE wc == Add(chan[ch])
           rest == [wc EXCEPT !.waiters = <<>>]
<1>1. /\ wc \in WaitChannel /\ wc.present /\ wc.lockers = chan[ch].lockers
      /\ wc.locked = FALSE => wc.lockers = <<>>
  BY ChannelFacts DEF WaitForInv, WaitChannel
<1>2. /\ rest \in WaitChannel /\ rest.present /\ rest.lockers = chan[ch].lockers
      /\ rest.locked = FALSE => rest.lockers = <<>>
  BY <1>1, EmptyRange DEF WaitChannel
<1>3. Remove(wc).lockers = chan[ch].lockers /\ Remove(rest).lockers = chan[ch].lockers
  <2> HIDE DEF wc, rest
  <2> QED
    BY <1>1, <1>2, RemoveFacts
<1>4. /\ [wc EXCEPT !.woken = TRUE].lockers = chan[ch].lockers
      /\ [wc EXCEPT !.waiters = Append(@, i)].lockers = chan[ch].lockers
  BY <1>1 DEF WaitChannel
<1>5. chan \in [Channel -> WaitChannel]
  BY DEF WaitForInv, WaitForTypeOK
<1>6. CASE Signal(i, ch)
  <2>1. \/ chan' = [chan EXCEPT ![ch] = [wc EXCEPT !.woken = TRUE]]
        \/ chan' = [chan EXCEPT ![ch] = Remove(rest)]
    BY <1>6 DEF Signal
  <2> HIDE DEF wc, rest
  <2> QED
    BY <1>3, <1>4, <1>5, <2>1
<1>7. CASE Wait(i, ch, b)
  <2>1. \/ chan' = chan
        \/ chan' = [chan EXCEPT ![ch] = Remove(wc)]
        \/ chan' = [chan EXCEPT ![ch] = [wc EXCEPT !.waiters = Append(@, i)]]
    BY <1>7 DEF Wait, Fail
  <2> HIDE DEF wc, rest
  <2> QED
    BY <1>3, <1>4, <1>5, <2>1
<1> QED
  BY <1>6, <1>7

(* A lock is taken at once, or asked for behind all others. *)
LEMMA LockersGrow ==
    ASSUME WaitForInv, NEW i \in Item, NEW ch \in Channel,
           NEW b \in BOOLEAN, Lock(i, ch, b)
    PROVE  \A c \in Channel : LockersMove(c)
<1> DEFINE wc == Add(chan[ch])
<1>1. /\ chan \in [Channel -> WaitChannel]
      /\ wc \in WaitChannel /\ wc.lockers = chan[ch].lockers
  BY ChannelFacts DEF WaitForInv, WaitForTypeOK, WaitChannel
<1>2. \/ chan' = chan
      \/ chan' = [chan EXCEPT ![ch] = [wc EXCEPT !.lockers = Append(@, i)]]
      \/ chan' = [chan EXCEPT ![ch] = [wc EXCEPT !.locked = TRUE]]
  BY DEF Lock, Fail
<1>3. /\ [wc EXCEPT !.lockers = Append(@, i)].lockers = Append(chan[ch].lockers, i)
      /\ [wc EXCEPT !.locked = TRUE].lockers = chan[ch].lockers
  BY <1>1 DEF WaitChannel
<1> HIDE DEF wc
<1> QED
  BY <1>1, <1>2, <1>3 DEF LockersMove

(* An unlock hands the lock to the first locker; the others go on sleeping. *)
LEMMA LockersPass ==
    ASSUME WaitForInv, NEW i \in Item, NEW ch \in Channel, Unlock(i, ch)
    PROVE  \A c \in Channel : LockersMove(c)
<1> DEFINE wc == chan[ch]
           open == [wc EXCEPT !.locked = FALSE]
<1>1. /\ chan \in [Channel -> WaitChannel] /\ flag \in [Item -> Flag]
      /\ wc \in WaitChannel /\ wc.lockers \in Seq(Item) /\ flag[i] = "ready"
      /\ Range(wc.lockers) \subseteq Item
  BY ChannelFacts DEF WaitForInv, WaitForTypeOK, Unlock
<1>2. CASE ~wc.present \/ ~wc.locked
  BY <1>1, <1>2 DEF Unlock, Fail, LockersMove
<1>3. CASE wc.present /\ wc.locked /\ wc.lockers # <<>>
  <2>1. /\ chan' = [chan EXCEPT ![ch] = [wc EXCEPT !.lockers = Tail(@)]]
        /\ flag' = [j \in Item |-> IF j = i THEN "done"
                       ELSE IF j \in {Head(wc.lockers)} THEN "done" ELSE flag[j]]
    BY <1>3 DEF Unlock, Continue
  <2>2. IsInjective(wc.lockers)
    BY DEF WaitForInv, QueuedOnce
  <2>3. /\ Head(wc.lockers) \in Item
        /\ Range(Tail(wc.lockers)) \subseteq Range(wc.lockers)
        /\ Head(wc.lockers) \notin Range(Tail(wc.lockers))
    BY <1>1, <1>3, <2>2, TailRange
  <2>4. \A j \in Range(wc.lockers) : flag[j] = "waiting"
    <3>1. \A j \in Range(wc.lockers) : ch \in Queued(j)
      BY DEF Queued
    <3> QED
      BY <1>1, <3>1 DEF WaitForInv, NobodyStranded
  <2>5. /\ flag'[Head(wc.lockers)] = "done"
        /\ \A j \in Range(Tail(wc.lockers)) : flag'[j] = "waiting"
    BY <1>1, <2>1, <2>3, <2>4
  <2>6. /\ chan'[ch].lockers = Tail(wc.lockers)
        /\ \A c \in Channel \ {ch} : chan'[c] = chan[c]
    BY <1>1, <2>1 DEF WaitChannel
  <2> QED
    BY <1>3, <2>5, <2>6 DEF LockersMove
<1>4. CASE wc.present /\ wc.locked /\ wc.lockers = <<>>
  <2>1. chan' = [chan EXCEPT ![ch] = Remove(open)]
    BY <1>4 DEF Unlock
  <2>2. open \in WaitChannel /\ open.present /\ open.lockers = wc.lockers
    BY <1>1, <1>4 DEF WaitChannel
  <2>3. Remove(open).lockers = wc.lockers
    <3> HIDE DEF open
    <3> QED
      BY <1>4, <2>2, RemoveFacts
  <2> HIDE DEF open
  <2> QED
    BY <1>1, <2>1, <2>3 DEF LockersMove
<1> QED
  BY <1>2, <1>3, <1>4

(* Between flushes a lock goes to those who asked for it in their order, for *)
(* any number of channels and items.                                         *)
THEOREM LockIsFair == WaitForSpec => FirstComeFirstServed
<1>1. WaitForInv /\ [WaitForNext]_wvars =>
        [(\A ch \in Channel : LockersMove(ch)) \/ chan' = [c \in Channel |-> Empty]]_wvars
  <2> SUFFICES ASSUME WaitForInv, [WaitForNext]_wvars, ~UNCHANGED wvars
               PROVE  (\A c \in Channel : LockersMove(c)) \/ chan' = [c \in Channel |-> Empty]
    OBVIOUS
  <2>1. ASSUME NEW i \in Item, NEW ch \in Channel, NEW b \in BOOLEAN,
               WaitForCommand(i, ch, b)
        PROVE  \A c \in Channel : LockersMove(c)
    <3>1. CASE Signal(i, ch) \/ Wait(i, ch, b)
      BY <3>1, LockersStay DEF LockersMove
    <3>2. CASE Lock(i, ch, b)
      BY <3>2, LockersGrow
    <3>3. CASE Unlock(i, ch)
      BY <3>3, LockersPass
    <3> QED
      BY <2>1, <3>1, <3>2, <3>3 DEF WaitForCommand
  <2>2. CASE Flush
    BY <2>2, FlushInv
  <2> QED
    BY <2>1, <2>2 DEF WaitForNext
<1> QED
  BY <1>1, WaitForInvariant, PTL DEF WaitForSpec, FirstComeFirstServed

----------------------------------------------------------------------------
(* WaitFor implements WaitPromise: every step of the channels, seen        *)
(* through the mapping of WaitFor's instance Promise, is a step of the     *)
(* promise.  The invariant that makes the mapping work is WaitForInv.      *)

(* What the promise sees of the channels and the items. *)
Asleep == [c \in Channel |-> Range(chan[c].waiters)]
Noted == [c \in Channel |-> chan[c].woken]
Held == [c \in Channel |-> chan[c].locked]
Line == [c \in Channel |-> chan[c].lockers]
Through == {i \in Item : flag[i] = "done"}
Refused == {i \in Item : flag[i] = "error"}

(* The two modules take the same elements of a list. *)
LEMMA SameRange == \A q : Promise!Range(q) = Range(q)
  BY DEF Promise!Range, Range

(* A list without elements is empty. *)
LEMMA NoneInRange ==
    ASSUME NEW S, NEW q \in Seq(S)
    PROVE  Range(q) = {} <=> q = <<>>
<1>1. ASSUME q # <<>> PROVE Range(q) # {}
  <2>1. q[1] \in Range(q)
    BY <1>1 DEF Range
  <2> QED
    BY <2>1
<1> QED
  BY <1>1, EmptyRange

(* An item that has not fired has asked for nothing yet. *)
LEMMA ReadyIsFresh ==
    ASSUME WaitForInv, NEW i \in Item, flag[i] = "ready"
    PROVE  Promise!Fresh(i)
<1>1. \A c \in Channel : i \notin Range(chan[c].waiters) \cup Range(chan[c].lockers)
  BY DEF WaitForInv, NobodyStranded, Queued
<1> QED
  BY <1>1, SameRange DEF Promise!Fresh

(* A step that changes one channel changes the view of that channel only. *)
LEMMA OneView ==
    ASSUME NEW ch \in Channel,
           chan \in [Channel -> WaitChannel], chan' \in [Channel -> WaitChannel],
           \A c \in Channel \ {ch} : chan'[c] = chan[c]
    PROVE  /\ Asleep' = [Asleep EXCEPT ![ch] = Range(chan'[ch].waiters)]
           /\ Noted' = [Noted EXCEPT ![ch] = chan'[ch].woken]
           /\ Held' = [Held EXCEPT ![ch] = chan'[ch].locked]
           /\ Line' = [Line EXCEPT ![ch] = chan'[ch].lockers]
  BY DEF Asleep, Noted, Held, Line

(* Continue, as the promise sees it: the item and those it continues, none  *)
(* of which had gone on yet, are through, or the item waits or is refused.  *)
LEMMA ContinueView ==
    ASSUME WaitForInv, NEW i \in Item, flag[i] = "ready", NEW r \in Flag,
           NEW S \in SUBSET Item, \A j \in S : flag[j] = "waiting",
           Continue(i, r, S)
    PROVE  /\ r = "done" => Through' = Through \cup {i} \cup S
           /\ r # "done" /\ S = {} => Through' = Through
           /\ r = "error" => Refused' = Refused \cup {i}
           /\ r # "error" => Refused' = Refused
<1>1. flag' = [j \in Item |-> IF j = i THEN r ELSE IF j \in S THEN "done" ELSE flag[j]]
  BY DEF Continue
<1> QED
  BY <1>1 DEF Through, Refused, WaitForInv, WaitForTypeOK, Flag

(* Who is on a list of a channel waits. *)
LEMMA QueuedWait ==
    ASSUME WaitForInv, NEW ch \in Channel
    PROVE  \A j \in Range(chan[ch].waiters) \cup Range(chan[ch].lockers) :
             j \in Item /\ flag[j] = "waiting"
<1>1. \A j \in Range(chan[ch].waiters) \cup Range(chan[ch].lockers) :
        j \in Item /\ ch \in Queued(j)
  BY ChannelFacts DEF Queued
<1> QED
  BY <1>1 DEF WaitForInv, NobodyStranded

(* A command that fails is refused and changes nothing else. *)
LEMMA FailKeepsPromise ==
    ASSUME WaitForInv, NEW i \in Item, flag[i] = "ready", Fail(i)
    PROVE  Promise!Refuse(i)
<1>1. Continue(i, "error", {}) /\ chan' = chan
  BY DEF Fail
<1>2. Through' = Through /\ Refused' = Refused \cup {i}
  BY <1>1, ContinueView DEF Flag
<1>3. Asleep' = Asleep /\ Noted' = Noted /\ Held' = Held /\ Line' = Line
  BY <1>1 DEF Asleep, Noted, Held, Line
<1> QED
  BY <1>2, <1>3, ReadyIsFresh
  DEF Promise!Refuse, Asleep, Noted, Held, Line, Through, Refused

(* A signal wakes everybody asleep at once or is noted. *)
LEMMA SignalKeepsPromise ==
    ASSUME WaitForInv, WaitForInv', NEW i \in Item, NEW ch \in Channel, Signal(i, ch)
    PROVE  Promise!Signal(i, ch)
<1> DEFINE wc == Add(chan[ch])
           quiet == [wc EXCEPT !.waiters = <<>>]
           asleep == Range(chan[ch].waiters)
<1>1. /\ wc \in WaitChannel /\ wc.present
      /\ wc.waiters = chan[ch].waiters /\ wc.lockers = chan[ch].lockers
      /\ wc.locked = chan[ch].locked /\ wc.woken = chan[ch].woken
      /\ wc.locked \in BOOLEAN /\ wc.woken \in BOOLEAN
      /\ flag[i] = "ready"
      /\ asleep = {} <=> wc.waiters = <<>>
  BY ChannelFacts, NoneInRange DEF Add, WaitChannel, Signal
<1>2. /\ chan \in [Channel -> WaitChannel] /\ chan' \in [Channel -> WaitChannel]
  BY DEF WaitForInv, WaitForTypeOK
<1>3. /\ wc.woken => wc.waiters = <<>>
      /\ ~wc.locked => wc.lockers = <<>>
  BY <1>1 DEF WaitForInv, NoSleepOnWoken
<1>4. /\ quiet.waiters = <<>> /\ quiet.locked = wc.locked /\ quiet.woken = wc.woken
      /\ quiet.lockers = wc.lockers
  BY <1>1 DEF WaitChannel
<1>5. /\ \A c \in Channel \ {ch} : chan'[c] = chan[c]
      /\ Range(chan'[ch].waiters) = {}
      /\ chan'[ch].woken = (asleep = {} /\ (~chan[ch].woken \/ chan[ch].locked))
      /\ chan'[ch].locked = chan[ch].locked
      /\ chan'[ch].lockers = chan[ch].lockers
  <2>1. CASE wc.waiters = <<>> /\ ~wc.woken
    <3>1. chan' = [chan EXCEPT ![ch] = [wc EXCEPT !.woken = TRUE]]
      BY <2>1 DEF Signal
    <3> HIDE DEF wc
    <3> QED
      BY <1>1, <1>2, <2>1, <3>1, EmptyRange DEF WaitChannel
  <2>2. CASE ~(wc.waiters = <<>> /\ ~wc.woken)
    <3>1. chan' = [chan EXCEPT ![ch] = Remove(quiet)]
      BY <2>2 DEF Signal
    <3> HIDE DEF quiet, wc
    <3>2. chan'[ch] = Remove(quiet) /\ \A c \in Channel \ {ch} : chan'[c] = chan[c]
      BY <1>2, <3>1
    <3>3. CASE quiet.locked \/ ~quiet.woken
      <4>1. chan'[ch] = quiet
        BY <1>4, <3>2, <3>3 DEF Remove
      <4> QED
        BY <1>1, <1>3, <1>4, <2>2, <3>2, <3>3, <4>1, EmptyRange
    <3>4. CASE ~quiet.locked /\ quiet.woken
      <4>1. chan'[ch] = Empty
        BY <1>4, <3>2, <3>4 DEF Remove
      <4> QED
        BY <1>1, <1>3, <1>4, <3>2, <3>4, <4>1, EmptyType, EmptyRange
    <3> QED
      BY <3>3, <3>4
  <2> QED
    BY <2>1, <2>2
<1>6. Continue(i, "done", asleep)
  BY <1>1, EmptyRange DEF Signal
<1>7. Through' = Through \cup {i} \cup asleep /\ Refused' = Refused
  <2>1. asleep \in SUBSET Item /\ \A j \in asleep : flag[j] = "waiting"
    BY QueuedWait
  <2> QED
    BY <1>1, <1>6, <2>1, ContinueView DEF Flag
<1>8. /\ Asleep' = [Asleep EXCEPT ![ch] = {}]
      /\ Noted' = [Noted EXCEPT ![ch] = asleep = {} /\ (~chan[ch].woken \/ chan[ch].locked)]
      /\ Held' = Held
      /\ Line' = Line
  BY <1>2, <1>5, OneView DEF Held, Line
<1>9. /\ Asleep[ch] = asleep /\ Noted[ch] = chan[ch].woken /\ Held[ch] = chan[ch].locked
  BY DEF Asleep, Noted, Held
<1> HIDE DEF asleep
<1> QED
  BY <1>1, <1>7, <1>8, <1>9, ReadyIsFresh, SameRange
  DEF Promise!Signal, Asleep, Noted, Held, Line, Through, Refused

(* Waiting: refused without a client, past a note, or asleep. *)
LEMMA WaitKeepsPromise ==
    ASSUME WaitForInv, WaitForInv', NEW i \in Item, NEW ch \in Channel,
           NEW b \in BOOLEAN, Wait(i, ch, b)
    PROVE  Promise!Refuse(i) \/ Promise!PassNoted(i, ch) \/ Promise!Sleep(i, ch)
<1> DEFINE wc == Add(chan[ch])
<1>1. /\ wc \in WaitChannel /\ wc.present
      /\ wc.waiters = chan[ch].waiters /\ wc.lockers = chan[ch].lockers
      /\ wc.locked = chan[ch].locked /\ wc.woken = chan[ch].woken
      /\ wc.locked \in BOOLEAN /\ wc.woken \in BOOLEAN
      /\ chan[ch].waiters \in Seq(Item)
      /\ flag[i] = "ready"
  BY ChannelFacts DEF Add, WaitChannel, Wait
<1>2. /\ chan \in [Channel -> WaitChannel] /\ chan' \in [Channel -> WaitChannel]
  BY DEF WaitForInv, WaitForTypeOK
<1>3. /\ wc.woken => wc.waiters = <<>>
      /\ ~wc.locked => wc.lockers = <<>>
  BY <1>1 DEF WaitForInv, NoSleepOnWoken
<1>4. CASE ~b
  BY <1>1, <1>4, FailKeepsPromise DEF Wait
<1>5. CASE b /\ wc.woken
  <2>1. chan' = [chan EXCEPT ![ch] = Remove(wc)] /\ Continue(i, "done", {})
    BY <1>5 DEF Wait
  <2>2. Through' = Through \cup {i} /\ Refused' = Refused
    BY <1>1, <2>1, ContinueView DEF Flag
  <2> HIDE DEF wc
  <2>3. /\ \A c \in Channel \ {ch} : chan'[c] = chan[c]
        /\ chan'[ch] = IF wc.locked THEN wc ELSE Empty
    BY <1>2, <1>3, <1>5, <2>1 DEF Remove
  <2>4. /\ chan'[ch].waiters = chan[ch].waiters /\ chan'[ch].lockers = chan[ch].lockers
        /\ chan'[ch].locked = chan[ch].locked /\ chan'[ch].woken = chan[ch].locked
    BY <1>1, <1>3, <1>5, <2>3, EmptyType
  <2>5. /\ Noted' = [Noted EXCEPT ![ch] = chan[ch].locked]
        /\ Asleep' = Asleep /\ Held' = Held /\ Line' = Line
        /\ Noted[ch] /\ Held[ch] = chan[ch].locked
    BY <1>1, <1>2, <1>5, <2>3, <2>4, OneView DEF Asleep, Noted, Held, Line
  <2>6. Promise!PassNoted(i, ch)
    BY <1>1, <2>2, <2>5, ReadyIsFresh, SameRange
    DEF Promise!PassNoted, Asleep, Noted, Held, Line, Through, Refused
  <2> QED
    BY <2>6
<1>6. CASE b /\ ~wc.woken
  <2>1. /\ chan' = [chan EXCEPT ![ch] = [wc EXCEPT !.waiters = Append(@, i)]]
        /\ Continue(i, "waiting", {})
    BY <1>6 DEF Wait
  <2>2. Through' = Through /\ Refused' = Refused
    BY <1>1, <2>1, ContinueView DEF Flag
  <2>3. Range(Append(chan[ch].waiters, i)) = Range(chan[ch].waiters) \cup {i}
    BY <1>1, AppendRange
  <2> HIDE DEF wc
  <2>4. /\ \A c \in Channel \ {ch} : chan'[c] = chan[c]
        /\ chan'[ch].waiters = Append(chan[ch].waiters, i)
        /\ chan'[ch].lockers = chan[ch].lockers
        /\ chan'[ch].locked = chan[ch].locked /\ chan'[ch].woken = chan[ch].woken
    BY <1>1, <1>2, <2>1 DEF WaitChannel
  <2>5. /\ Asleep' = [Asleep EXCEPT ![ch] = @ \cup {i}]
        /\ Noted' = Noted /\ Held' = Held /\ Line' = Line /\ ~Noted[ch]
    <3>1. Asleep' = [Asleep EXCEPT ![ch] = @ \cup {i}]
      <4>1. Asleep' = [Asleep EXCEPT ![ch] = Range(chan'[ch].waiters)]
        BY <1>2, <2>4, OneView
      <4>2. Range(chan'[ch].waiters) = Asleep[ch] \cup {i}
        BY <2>3, <2>4 DEF Asleep
      <4> QED
        BY <4>1, <4>2
    <3>2. Noted' = Noted /\ Held' = Held /\ Line' = Line
      BY <2>4 DEF Noted, Held, Line
    <3>3. ~Noted[ch]
      BY <1>1, <1>6 DEF Noted
    <3> QED
      BY <3>1, <3>2, <3>3
  <2>6. Promise!Sleep(i, ch)
    BY <1>1, <2>2, <2>5, ReadyIsFresh, SameRange
    DEF Promise!Sleep, Asleep, Noted, Held, Line, Through, Refused
  <2> QED
    BY <2>6
<1> QED
  BY <1>4, <1>5, <1>6

(* Locking: refused without a client, queued, or taken. *)
LEMMA LockKeepsPromise ==
    ASSUME WaitForInv, WaitForInv', NEW i \in Item, NEW ch \in Channel,
           NEW b \in BOOLEAN, Lock(i, ch, b)
    PROVE  Promise!Refuse(i) \/ Promise!QueueUp(i, ch) \/ Promise!Take(i, ch)
<1> DEFINE wc == Add(chan[ch])
<1>1. /\ wc \in WaitChannel /\ wc.present
      /\ wc.waiters = chan[ch].waiters /\ wc.lockers = chan[ch].lockers
      /\ wc.locked = chan[ch].locked /\ wc.woken = chan[ch].woken
      /\ wc.locked \in BOOLEAN
      /\ flag[i] = "ready"
  BY ChannelFacts DEF Add, WaitChannel, Lock
<1>2. /\ chan \in [Channel -> WaitChannel] /\ chan' \in [Channel -> WaitChannel]
  BY DEF WaitForInv, WaitForTypeOK
<1>3. CASE ~b
  BY <1>1, <1>3, FailKeepsPromise DEF Lock
<1>4. CASE b /\ wc.locked
  <2>1. /\ chan' = [chan EXCEPT ![ch] = [wc EXCEPT !.lockers = Append(@, i)]]
        /\ Continue(i, "waiting", {})
    BY <1>4 DEF Lock
  <2>2. Through' = Through /\ Refused' = Refused
    BY <1>1, <2>1, ContinueView DEF Flag
  <2> HIDE DEF wc
  <2>3. /\ \A c \in Channel \ {ch} : chan'[c] = chan[c]
        /\ chan'[ch].waiters = chan[ch].waiters
        /\ chan'[ch].lockers = Append(chan[ch].lockers, i)
        /\ chan'[ch].locked = chan[ch].locked /\ chan'[ch].woken = chan[ch].woken
    BY <1>1, <1>2, <2>1 DEF WaitChannel
  <2>4. /\ Line' = [Line EXCEPT ![ch] = Append(@, i)]
        /\ Noted' = Noted /\ Held' = Held /\ Asleep' = Asleep /\ Held[ch]
    BY <1>1, <1>2, <1>4, <2>3, OneView DEF Asleep, Noted, Held, Line
  <2>5. Promise!QueueUp(i, ch)
    BY <1>1, <2>2, <2>4, ReadyIsFresh, SameRange
    DEF Promise!QueueUp, Asleep, Noted, Held, Line, Through, Refused
  <2> QED
    BY <2>5
<1>5. CASE b /\ ~wc.locked
  <2>1. /\ chan' = [chan EXCEPT ![ch] = [wc EXCEPT !.locked = TRUE]]
        /\ Continue(i, "done", {})
    BY <1>5 DEF Lock
  <2>2. Through' = Through \cup {i} /\ Refused' = Refused
    BY <1>1, <2>1, ContinueView DEF Flag
  <2> HIDE DEF wc
  <2>3. /\ \A c \in Channel \ {ch} : chan'[c] = chan[c]
        /\ chan'[ch].waiters = chan[ch].waiters /\ chan'[ch].lockers = chan[ch].lockers
        /\ chan'[ch].locked = TRUE /\ chan'[ch].woken = chan[ch].woken
    BY <1>1, <1>2, <2>1 DEF WaitChannel
  <2>4. /\ Held' = [Held EXCEPT ![ch] = TRUE]
        /\ Noted' = Noted /\ Line' = Line /\ Asleep' = Asleep /\ ~Held[ch]
    BY <1>1, <1>2, <1>5, <2>3, OneView DEF Asleep, Noted, Held, Line
  <2>5. Promise!Take(i, ch)
    BY <1>1, <2>2, <2>4, ReadyIsFresh, SameRange
    DEF Promise!Take, Asleep, Noted, Held, Line, Through, Refused
  <2> QED
    BY <2>5
<1> QED
  BY <1>1, <1>3, <1>4, <1>5

(* Unlocking: refused when nobody holds the lock, handed over or given back. *)
LEMMA UnlockKeepsPromise ==
    ASSUME WaitForInv, WaitForInv', NEW i \in Item, NEW ch \in Channel, Unlock(i, ch)
    PROVE  Promise!Refuse(i) \/ Promise!HandOver(i, ch) \/ Promise!GiveBack(i, ch)
<1> DEFINE wc == chan[ch]
           open == [wc EXCEPT !.locked = FALSE]
<1>1. /\ wc \in WaitChannel /\ wc.locked \in BOOLEAN /\ wc.woken \in BOOLEAN
      /\ wc.present \in BOOLEAN
      /\ wc.lockers \in Seq(Item) /\ flag[i] = "ready"
  BY ChannelFacts DEF WaitChannel, Unlock
<1>2. /\ chan \in [Channel -> WaitChannel] /\ chan' \in [Channel -> WaitChannel]
  BY DEF WaitForInv, WaitForTypeOK
<1>3. CASE ~wc.present \/ ~wc.locked
  BY <1>1, <1>3, FailKeepsPromise DEF Unlock
<1>4. CASE wc.present /\ wc.locked /\ wc.lockers # <<>>
  <2> DEFINE first == Head(chan[ch].lockers)
  <2>1. /\ chan' = [chan EXCEPT ![ch] = [wc EXCEPT !.lockers = Tail(@)]]
        /\ Continue(i, "done", {first})
    BY <1>4 DEF Unlock
  <2>2. first \in Item /\ flag[first] = "waiting"
    <3>1. first \in Range(chan[ch].lockers)
      BY <1>1, <1>4, TailRange
    <3> QED
      BY <3>1, QueuedWait
  <2>3. Through' = Through \cup {i, first} /\ Refused' = Refused
    <3> HIDE DEF first
    <3>1. {first} \in SUBSET Item /\ \A j \in {first} : flag[j] = "waiting"
      BY <2>2
    <3>2. Through' = Through \cup {i} \cup {first} /\ Refused' = Refused
      BY <1>1, <2>1, <3>1, ContinueView DEF Flag
    <3> QED
      BY <3>2
  <2>4. /\ \A c \in Channel \ {ch} : chan'[c] = chan[c]
        /\ chan'[ch].waiters = chan[ch].waiters
        /\ chan'[ch].lockers = Tail(chan[ch].lockers)
        /\ chan'[ch].locked = chan[ch].locked /\ chan'[ch].woken = chan[ch].woken
    BY <1>1, <1>2, <2>1 DEF WaitChannel
  <2>5. /\ Line' = [Line EXCEPT ![ch] = Tail(@)]
        /\ Noted' = Noted /\ Held' = Held /\ Asleep' = Asleep
        /\ Held[ch] /\ Line[ch] # <<>> /\ first = Head(Line[ch])
    BY <1>1, <1>2, <1>4, <2>4, OneView DEF Asleep, Noted, Held, Line
  <2> HIDE DEF first
  <2>6. Promise!HandOver(i, ch)
    BY <1>1, <2>3, <2>5, ReadyIsFresh, SameRange
    DEF Promise!HandOver, Asleep, Noted, Held, Line, Through, Refused
  <2> QED
    BY <2>6
<1>5. CASE wc.present /\ wc.locked /\ wc.lockers = <<>>
  <2>1. chan' = [chan EXCEPT ![ch] = Remove(open)] /\ Continue(i, "done", {})
    BY <1>5 DEF Unlock
  <2>2. Through' = Through \cup {i} /\ Refused' = Refused
    BY <1>1, <2>1, ContinueView DEF Flag
  <2>3. /\ open.lockers = <<>> /\ open.waiters = chan[ch].waiters
        /\ open.woken = chan[ch].woken /\ open.locked = FALSE
        /\ chan[ch].woken => chan[ch].waiters = <<>>
    BY <1>1, <1>5 DEF WaitChannel, WaitForInv, NoSleepOnWoken
  <2>4. /\ \A c \in Channel \ {ch} : chan'[c] = chan[c]
        /\ chan'[ch] = Remove(open)
    <3> HIDE DEF open
    <3> QED
      BY <1>2, <2>1
  <2>5. /\ chan'[ch].waiters = chan[ch].waiters /\ chan'[ch].lockers = <<>>
        /\ chan'[ch].locked = FALSE /\ chan'[ch].woken = FALSE
    <3> HIDE DEF open
    <3>1. CASE chan[ch].woken
      <4>1. chan'[ch] = Empty
        BY <2>3, <2>4, <3>1 DEF Remove
      <4> QED
        BY <2>3, <3>1, <4>1, EmptyType
    <3>2. CASE ~chan[ch].woken
      <4>1. chan'[ch] = open
        BY <2>3, <2>4, <3>2 DEF Remove
      <4> QED
        BY <1>1, <2>3, <3>2, <4>1
    <3> QED
      BY <3>1, <3>2
  <2>6. /\ Held' = [Held EXCEPT ![ch] = FALSE]
        /\ Noted' = [Noted EXCEPT ![ch] = FALSE]
        /\ Line' = Line /\ Asleep' = Asleep
        /\ Held[ch] /\ Line[ch] = <<>>
    <3>1. /\ Held' = [Held EXCEPT ![ch] = FALSE]
          /\ Noted' = [Noted EXCEPT ![ch] = FALSE]
      BY <1>2, <2>4, <2>5, OneView
    <3>2. chan'[ch].lockers = chan[ch].lockers
      BY <1>5, <2>5
    <3>3. Line' = Line /\ Asleep' = Asleep
      BY <2>4, <2>5, <3>2 DEF Line, Asleep
    <3>4. Held[ch] /\ Line[ch] = <<>>
      BY <1>5 DEF Held, Line
    <3> QED
      BY <3>1, <3>3, <3>4
  <2>7. Promise!GiveBack(i, ch)
    BY <1>1, <2>2, <2>6, ReadyIsFresh, SameRange
    DEF Promise!GiveBack, Asleep, Noted, Held, Line, Through, Refused
  <2> QED
    BY <2>7
<1> QED
  BY <1>1, <1>3, <1>4, <1>5

(* A flush lets everybody go and forgets every note and lock. *)
LEMMA FlushKeepsPromise ==
    ASSUME WaitForInv, Flush
    PROVE  Promise!LetGo
<1>1. \A c \in Channel : chan'[c] = Empty
  BY FlushInv
<1>2. /\ Asleep' = [c \in Channel |-> {}]
      /\ Noted' = [c \in Channel |-> FALSE]
      /\ Held' = [c \in Channel |-> FALSE]
      /\ Line' = [c \in Channel |-> <<>>]
  BY <1>1, EmptyType, EmptyRange DEF Asleep, Noted, Held, Line
<1> DEFINE on(c) == Range(chan[c].waiters) \cup Range(chan[c].lockers)
           all == UNION {Asleep[c] \cup Range(Line[c]) : c \in Channel}
<1>3. \A j : j \in all <=> \E c \in Channel : j \in on(c)
  BY DEF Asleep, Line
<1>4. \A c \in Channel : \A j \in on(c) :
        j \in Item /\ flag[j] = "waiting" /\ chan[c].present
  <2> SUFFICES ASSUME NEW c \in Channel, NEW j \in on(c)
               PROVE  j \in Item /\ flag[j] = "waiting" /\ chan[c].present
    OBVIOUS
  <2>1. j \in Item /\ flag[j] = "waiting"
    BY QueuedWait
  <2>2. c \in Queued(j)
    BY DEF Queued
  <2> QED
    BY <2>1, <2>2 DEF WaitForInv, NobodyStranded
<1>5. flag' = [j \in Item |-> IF j \in all THEN "done" ELSE flag[j]]
  <2>1. flag' = [j \in Item |->
             IF \E c \in {d \in Channel : chan[d].present} : j \in on(c)
             THEN "done" ELSE flag[j]]
    BY DEF Flush
  <2> HIDE DEF all, on
  <2> QED
    BY <1>3, <1>4, <2>1
<1>6. Through' = Through \cup all /\ Refused' = Refused
  <2>1. \A j \in all : j \in Item /\ flag[j] = "waiting"
    BY <1>3, <1>4
  <2> HIDE DEF all
  <2> QED
    BY <1>5, <2>1 DEF Through, Refused
<1>7. all = UNION {Asleep[c] \cup Promise!Range(Line[c]) : c \in Channel}
  BY SameRange
<1> HIDE DEF all
<1> QED
  BY <1>2, <1>6, <1>7
  DEF Promise!LetGo, Asleep, Noted, Held, Line, Through, Refused

(* The channels, made and removed as they are, keep the promise of wait-for  *)
(* (cmd_wait_for_add, cmd_wait_for_remove): whatever the channels and items, *)
(* each step is one of the promise's steps or is not seen at all.            *)
THEOREM WaitForKeepsPromise == WaitForSpec => PromiseKept
<1>1. WaitForInit => Promise!PromiseInit
  <2> SUFFICES ASSUME WaitForInit PROVE Promise!PromiseInit
    OBVIOUS
  <2>1. /\ \A c \in Channel : chan[c] = Empty
        /\ \A j \in Item : flag[j] = "ready"
    BY DEF WaitForInit
  <2> QED
    BY <2>1, EmptyType, EmptyRange DEF Promise!PromiseInit
<1>2. WaitForInv /\ WaitForInv' /\ [WaitForNext]_wvars => [Promise!PromiseNext]_(Promise!pvars)
  <2> SUFFICES ASSUME WaitForInv, WaitForInv', [WaitForNext]_wvars
               PROVE  Promise!PromiseNext \/ UNCHANGED Promise!pvars
    OBVIOUS
  <2>1. ASSUME NEW i \in Item, NEW ch \in Channel, NEW b \in BOOLEAN,
               WaitForCommand(i, ch, b)
        PROVE  Promise!PromiseNext
    <3>1. CASE Signal(i, ch)
      BY <3>1, SignalKeepsPromise DEF Promise!PromiseNext
    <3>2. CASE Wait(i, ch, b)
      BY <3>2, WaitKeepsPromise DEF Promise!PromiseNext
    <3>3. CASE Lock(i, ch, b)
      BY <3>3, LockKeepsPromise DEF Promise!PromiseNext
    <3>4. CASE Unlock(i, ch)
      BY <3>4, UnlockKeepsPromise DEF Promise!PromiseNext
    <3> QED
      BY <2>1, <3>1, <3>2, <3>3, <3>4 DEF WaitForCommand
  <2>2. CASE Flush
    BY <2>2, FlushKeepsPromise DEF Promise!PromiseNext
  <2>3. CASE UNCHANGED wvars
    BY <2>3 DEF wvars, Promise!pvars
  <2> QED
    BY <2>1, <2>2, <2>3 DEF WaitForNext
<1> QED
  BY <1>1, <1>2, WaitForInvariant, PTL DEF WaitForSpec, PromiseKept, Promise!PromiseSpec
=============================================================================
