--------------------------- MODULE AnimationProofs ---------------------------
(***************************************************************************)
(* The calls of a running handler keep AnimationCore, and what follows from *)
(* it: the invariants of Animation hold for any clients, sessions, windows. *)
(***************************************************************************)
EXTENDS AnimationLemmas

(* What has been used after it was freed is of no interest to the others. *)
LEMMA FaultStep ==
    ASSUME AnimationCore, NEW what \in {"pane", "winlink", "session"}, Fault(what)
    PROVE  AnimationCore'
<1>1. /\ cli' = cli /\ ses' = ses /\ win' = win /\ defer' = defer /\ agenda' = agenda /\ moves' = moves
      /\ fault' \in Faults
  BY DEF Fault, Faults
<1>2. TypesKept'
  BY <1>1, TypeParts DEF TypesKept
<1>3. CurrentWindowLinked'
  BY <1>1, TypeParts DEF CurrentWindowLinked, Alive
<1>4. CarriersCounted'
  BY <1>1, TypeParts DEF CarriersCounted
<1>5. OverlaysOwned'
  <2> SUFFICES ASSUME NEW c \in Client PROVE Owns(cli'[c], c, agenda')
    BY DEF OverlaysOwned
  <2> QED
    BY <1>1, TypeParts DEF OverlaysOwned
<1>6. DefersNamed'
  BY <1>1, TypeParts DEF DefersNamed, Finalizing, Has
<1>7. RefsCounted'
  BY <1>1, TypeParts DEF RefsCounted, Linking, Deferred, Unref
<1>8. PanesKept'
  BY <1>1, TypeParts DEF PanesKept, Linking, Panes
<1>9. DrawnKept'
  <2> SUFFICES ASSUME NEW c \in Client, cli'[c].anim.win # 0
               PROVE  win'[cli'[c].anim.win].refs > 0 \/ Found(c, cli'[c].anim.win, agenda')
    BY DEF DrawnKept
  <2> QED
    BY <1>1, TypeParts DEF DrawnKept
<1> QED
  BY <1>1, <1>2, <1>3, <1>4, <1>5, <1>6, <1>7, <1>8, <1>9, TypeParts DEF AnimationCore

(* The fields of the calls. *)
LEMMA CallTypes ==
    ASSUME NEW x \in Work
    PROVE  /\ x.op = "clear" => x.client \in Client /\ x = Clear(x.client)
           /\ x.op = "cleared" => x.client \in Client /\ x = Cleared(x.client)
           /\ x.op \in {"set", "lost"} => x.client \in Client
           /\ x.op = "scroll" => /\ x.win \in Window /\ x.pane \in PaneId /\ x.todo \in SUBSET Client
                                 /\ x = [op |-> "scroll", win |-> x.win, pane |-> x.pane, todo |-> x.todo]
           /\ x.op = "picture" => x.client \in Client /\ x.win \in Window /\ x.pane \in PaneId
           /\ x.op = "prompt" => x.session \in Session /\ x.win \in Window
           /\ x.op = "finalize" => x.defer \in Defer /\ x = Finalizing(x.defer)
           /\ x.op = "kill" => /\ x.win \in Window /\ x.todo \in SUBSET Session
                               /\ x = [op |-> "kill", win |-> x.win, todo |-> x.todo]
           /\ x.op = "unref" => x.win \in Window /\ x = Unref(x.win)
           /\ x.op = "invalidate" => /\ x.win \in Window /\ x.todo \in SUBSET Client
                                     /\ x = [op |-> "invalidate", win |-> x.win, todo |-> x.todo]
<1>1. CASE x \in [op : {"clear", "cleared", "set", "lost"}, client : Client]
  BY <1>1 DEF Clear, Cleared
<1>2. CASE x \in [op : {"scroll"}, win : Window, pane : PaneId, todo : SUBSET Client]
  BY <1>2
<1>3. CASE x \in [op : {"picture"}, client : Client, win : Window, pane : PaneId]
  BY <1>3
<1>4. CASE x \in [op : {"prompt"}, session : Session, win : Window]
  BY <1>4
<1>5. CASE x \in [op : {"finalize"}, defer : Defer]
  BY <1>5 DEF Finalizing
<1>6. CASE x \in [op : {"kill"}, win : Window, todo : SUBSET Session]
  BY <1>6
<1>7. CASE x \in [op : {"unref"}, win : Window]
  BY <1>7 DEF Unref
<1>8. CASE x \in [op : {"invalidate"}, win : Window, todo : SUBSET Client]
  BY <1>8
<1> QED
  BY <1>1, <1>2, <1>3, <1>4, <1>5, <1>6, <1>7, <1>8 DEF Work

(* The running call is the first one, and some calls are always the last. *)
LEMMA DoingFacts ==
    ASSUME AnimationCore, NEW op, Doing(op)
    PROVE  /\ agenda \in Seq(Work) /\ agenda # <<>> /\ Call = agenda[1] /\ agenda[1] \in Work
           /\ agenda[1].op = op /\ fault = "none" /\ 1 \in DOMAIN agenda
           /\ op \in {"set", "lost", "prompt", "scroll"} => DOMAIN agenda = {1} /\ Tail(agenda) = <<>>
<1>1. agenda \in Seq(Work) /\ agenda # <<>> /\ agenda[1].op = op /\ fault = "none" /\ Call = agenda[1]
  BY TypeParts DEF Doing, Call
<1>2. agenda[1] \in Work /\ 1 \in DOMAIN agenda /\ DOMAIN agenda = 1 .. Len(agenda)
  BY <1>1
<1>3. ASSUME op \in {"set", "lost", "prompt", "scroll"}
      PROVE  DOMAIN agenda = {1} /\ Tail(agenda) = <<>>
  <2>1. 1 = Len(agenda)
    BY <1>1, <1>2, <1>3, TypeParts DEF InOrder
  <2> DEFINE q == agenda
  <2>2. q \in Seq(Work) /\ Len(q) = 1 /\ DOMAIN q = 1 .. Len(q)
    BY <1>1, <1>2, <2>1
  <2> HIDE DEF q
  <2>3. DOMAIN q = {1} /\ Tail(q) = <<>>
    <3>1. DOMAIN q = {1}
      BY <2>2
    <3>2. Tail(q) \in Seq(Work) /\ Len(Tail(q)) = 0
      <4>1. q # <<>>
        BY <2>2
      <4> QED
        BY <2>2, <4>1
    <3> DEFINE t == Tail(q)
    <3>3. t = <<>>
      <4>1. t \in Seq(Work) /\ Len(t) = 0
        BY <3>2
      <4> HIDE DEF t
      <4> QED
        BY <4>1
    <3> QED
      BY <3>1, <3>3
  <2> QED
    BY <2>3 DEF q
<1> QED
  BY <1>1, <1>2, <1>3

(* No deferred close is to be made. *)
LEMMA FinalizeGone ==
    ASSUME AnimationCore, NEW work, Runs(work), NoFinalize(work)
    PROVE  NoFinalize(agenda')
<1>1. Placed(agenda, work, agenda')
  BY Places DEF Runs
<1> SUFFICES ASSUME NEW k \in DOMAIN agenda' PROVE agenda'[k].op # "finalize"
  BY DEF NoFinalize
<1>2. CASE k \in DOMAIN work /\ agenda'[k] = work[k]
  BY <1>2 DEF NoFinalize
<1>3. CASE ~(k \in DOMAIN work /\ agenda'[k] = work[k])
  <2>1. PICK j \in DOMAIN agenda : j # 1 /\ agenda'[k] = agenda[j]
    BY <1>1, <1>3 DEF Placed
  <2> QED
    BY <2>1, TypeParts DEF InOrder
<1> QED
  BY <1>2, <1>3

(* A call that leaves windows and deferred closes alone. *)
LEMMA RunStep ==
    ASSUME AnimationCore, NEW work, Runs(work), Calm(work), Fits(agenda[1], work),
           win' = win, defer' = defer, LinksSame,
           agenda[1].op \notin {"clear", "finalize", "unref", "invalidate", "kill"},
           NEW W, DrawsTo(W), HasRefs(W)
    PROVE  /\ DefersNamed' /\ RefsCounted' /\ PanesKept' /\ DrawnKept'
           /\ InOrder(agenda') /\ agenda' \in Seq(Work)
<1>1. InOrder(agenda') /\ agenda' \in Seq(Work)
  BY TypeParts, OrderKept, Places DEF Runs
<1>2. DefersNamed'
  <2>1. \A w \in Window, p \in PaneId : win'[w].panes[p] \in {win[w].panes[p], "none"}
    OBVIOUS
  <2>2. NoFinalize(agenda')
    BY FinalizeGone DEF Calm
  <2> QED
    BY <2>1, <2>2, TypeParts, DefersKept
<1>3. RefsCounted'
  <2>1. \A w \in Window : Cardinality(Occurrences(agenda', Unref(w)))
                            = Cardinality(Occurrences(agenda, Unref(w)))
    BY PendingRun DEF Calm
  <2> QED
    BY <2>1, TypeParts, RefsKept
<1>4. PanesKept'
  BY TypeParts, PanesRun DEF Calm
<1>5. DrawnKept'
  <2>1. /\ \A w \in Window : win[w].refs > 0 => win'[w].refs > 0
        /\ \A w \in W : w # 0 => win'[w].refs > 0
    BY DEF HasRefs
  <2> QED
    BY <2>1, TypeParts, DrawnRun
<1> QED
  BY <1>1, <1>2, <1>3, <1>4, <1>5

----------------------------------------------------------------------------
(* A call that changes one client and leaves nothing behind.                *)

LEMMA NoCalls ==
    /\ <<>> \in Seq(Work) /\ Calm(<<>>) /\ DOMAIN <<>> = {}
    /\ \A x : ~Has(<<>>, x)
BY EmptyAgenda

(* Animations that carry a close stay. *)
LEMMA CarriersSame ==
    ASSUME CarriersCounted, defer' = defer,
           \A c \in Client :
               /\ cli'[c].anim.defer = cli[c].anim.defer
               /\ cli'[c].anim.defer # 0 => cli'[c].anim.kind = cli[c].anim.kind
                                            /\ cli'[c].listed = cli[c].listed
    PROVE  CarriersCounted'
<1> SUFFICES ASSUME NEW d \in Defer
             PROVE  /\ defer[d].pending = Cardinality({c \in Client : cli'[c].anim.defer = d})
                    /\ \A c \in Client : cli'[c].anim.defer = d =>
                         cli'[c].anim.kind = "slide" /\ cli'[c].listed
  BY DEF CarriersCounted
<1>1. d # 0
  BY AnimationAssumption, FS_CardinalityType DEF Defer
<1>2. /\ defer[d].pending = Cardinality({c \in Client : cli[c].anim.defer = d})
      /\ \A c \in Client : cli[c].anim.defer = d => cli[c].anim.kind = "slide" /\ cli[c].listed
  BY DEF CarriersCounted
<1>3. {c \in Client : cli'[c].anim.defer = d} = {c \in Client : cli[c].anim.defer = d}
  OBVIOUS
<1> QED
  BY <1>1, <1>2, <1>3

(* What the client k may become when a call ends. *)
Becomes(k, l) ==
    /\ l \in ClientType
    /\ l.anim.win \in {k.anim.win, 0} /\ l.anim.defer = k.anim.defer
    /\ l.anim.defer # 0 => l.anim.kind = k.anim.kind /\ l.listed = k.listed
    /\ l.session \in {k.session, 0}

(* A call that changes client c and makes no other. *)
LEMMA OneClientCall ==
    ASSUME AnimationCore, NEW c \in Client, NEW l, cli' = [cli EXCEPT ![c] = l], Becomes(cli[c], l),
           Runs(<<>>), UNCHANGED <<ses, win, defer, fault, moves>>,
           agenda[1].op \notin {"clear", "finalize", "unref", "invalidate", "kill"},
           \A e \in Client : agenda[1] = Cleared(e) => e = c,
           Owns(l, c, agenda')
    PROVE  AnimationCore'
<1> DEFINE work == <<>>
<1>1. Runs(work) /\ Calm(work) /\ DOMAIN work = {} /\ work = <<>>
  BY NoCalls
<1>2. Fits(agenda[1], work)
  BY <1>1 DEF Fits
<1>3. \A e \in Client : cli'[e] = IF e = c THEN l ELSE cli[e]
  BY TypeParts
<1>4. LinksSame /\ ses' = ses /\ win' = win /\ defer' = defer
  BY DEF LinksSame
<1>5. DrawsTo({0}) /\ HasRefs({0})
  <2>1. cli' \in [Client -> ClientType]
    BY TypeParts DEF Becomes
  <2> QED
    BY <1>3, <2>1 DEF DrawsTo, HasRefs, Becomes
<1>6. CarriersCounted'
  <2>1. \A e \in Client :
               /\ cli'[e].anim.defer = cli[e].anim.defer
               /\ cli'[e].anim.defer # 0 => cli'[e].anim.kind = cli[e].anim.kind
                                            /\ cli'[e].listed = cli[e].listed
    BY <1>3 DEF Becomes
  <2> QED
    BY <1>4, <2>1, TypeParts, CarriersSame
<1>7. OverlaysOwned'
  <2> SUFFICES ASSUME NEW e \in Client PROVE Owns(cli'[e], e, agenda')
    BY DEF OverlaysOwned
  <2>1. CASE e = c
    BY <1>3, <2>1
  <2>2. CASE e # c
    <3>1. cli'[e] = cli[e]
      BY <1>3, <2>2
    <3>2. Moved(cli[e], cli'[e])
      BY <3>1 DEF Moved
    <3>3. agenda[1] # Clear(e) /\ agenda[1] # Cleared(e)
      BY <2>2 DEF Clear
    <3>4. Admits(cli'[e], e, agenda, work)
      BY <1>1, NoCalls DEF Admits
    <3> HIDE DEF work
    <3> QED
      BY <1>1, <3>2, <3>3, <3>4, TypeParts, OwnsRun
  <2> QED
    BY <2>1, <2>2
<1>8. CurrentWindowLinked'
  <2>1. ASSUME NEW e \in Client, cli'[e].session # 0 PROVE cli'[e].session = cli[e].session
    BY <1>3, <2>1 DEF Becomes
  <2> QED
    BY <1>4, <2>1, TypeParts DEF CurrentWindowLinked, Alive
<1> HIDE DEF work
<1>9. /\ DefersNamed' /\ RefsCounted' /\ PanesKept' /\ DrawnKept'
      /\ InOrder(agenda') /\ agenda' \in Seq(Work)
  BY <1>1, <1>2, <1>4, <1>5, RunStep
<1>10. TypesKept'
  BY <1>5, <1>9, TypeParts DEF TypesKept, DrawsTo
<1> QED
  BY <1>6, <1>7, <1>8, <1>9, <1>10 DEF AnimationCore

(* A client gets another overlay. *)
LEMMA ClientOverlay ==
    ASSUME NEW k \in ClientType, NEW o \in {"none", "animation", "other"},
           NEW l, l = [k EXCEPT !.overlay = o]
    PROVE  /\ l \in ClientType /\ l.listed = k.listed /\ l.session = k.session /\ l.sized = k.sized
           /\ l.overlay = o /\ l.anim = k.anim
<1> DEFINE k1 == k.listed
           k2 == k.session
           k3 == k.sized
           k4 == k.overlay
           k5 == k.anim
<1>1. /\ k1 \in BOOLEAN /\ k2 \in Session \cup {0} /\ k3 \in BOOLEAN /\ k5 \in AnimationType
      /\ k = [listed |-> k1, session |-> k2, sized |-> k3, overlay |-> k4, anim |-> k5]
  BY ClientFields
<1> HIDE DEF k1, k2, k3, k4, k5
<1>2. l = [listed |-> k1, session |-> k2, sized |-> k3, overlay |-> o, anim |-> k5]
  BY <1>1
<1>3. /\ l \in ClientType /\ l.listed = k1 /\ l.session = k2 /\ l.sized = k3
      /\ l.overlay = o /\ l.anim = k5
  BY <1>1, <1>2, ClientWith
<1> QED
  BY <1>3 DEF k1, k2, k3, k5

(* A client gets another animation. *)
LEMMA ClientAnim ==
    ASSUME NEW k \in ClientType, NEW a \in AnimationType, NEW l, l = [k EXCEPT !.anim = a]
    PROVE  /\ l \in ClientType /\ l.listed = k.listed /\ l.session = k.session /\ l.sized = k.sized
           /\ l.overlay = k.overlay /\ l.anim = a
<1> DEFINE k1 == k.listed
           k2 == k.session
           k3 == k.sized
           k4 == k.overlay
           k5 == k.anim
<1>1. /\ k1 \in BOOLEAN /\ k2 \in Session \cup {0} /\ k3 \in BOOLEAN
      /\ k4 \in {"none", "animation", "other"}
      /\ k = [listed |-> k1, session |-> k2, sized |-> k3, overlay |-> k4, anim |-> k5]
  BY ClientFields
<1> HIDE DEF k1, k2, k3, k4, k5
<1>2. l = [listed |-> k1, session |-> k2, sized |-> k3, overlay |-> k4, anim |-> a]
  BY <1>1
<1>3. /\ l \in ClientType /\ l.listed = k1 /\ l.session = k2 /\ l.sized = k3
      /\ l.overlay = k4 /\ l.anim = a
  BY <1>1, <1>2, ClientWith
<1> QED
  BY <1>3 DEF k1, k2, k3, k4

(* A client leaves the list. *)
LEMMA ClientListed ==
    ASSUME NEW k \in ClientType, NEW t \in BOOLEAN, NEW l, l = [k EXCEPT !.listed = t]
    PROVE  /\ l \in ClientType /\ (~t => ~l.listed) /\ l.session = k.session
           /\ l.sized = k.sized /\ l.overlay = k.overlay /\ l.anim = k.anim
<1> DEFINE k1 == k.listed
           k2 == k.session
           k3 == k.sized
           k4 == k.overlay
           k5 == k.anim
<1>1. /\ k2 \in Session \cup {0} /\ k3 \in BOOLEAN
      /\ k4 \in {"none", "animation", "other"} /\ k5 \in AnimationType
      /\ k = [listed |-> k1, session |-> k2, sized |-> k3, overlay |-> k4, anim |-> k5]
  BY ClientFields
<1> HIDE DEF k1, k2, k3, k4, k5
<1>2. l = [listed |-> t, session |-> k2, sized |-> k3, overlay |-> k4, anim |-> k5]
  BY <1>1
<1>3. /\ l \in ClientType /\ l.listed = t /\ l.session = k2 /\ l.sized = k3
      /\ l.overlay = k4 /\ l.anim = k5
  BY <1>1, <1>2, ClientWith
<1> QED
  BY <1>3 DEF k1, k2, k3, k4, k5

(* A client goes to another session. *)
LEMMA ClientSession ==
    ASSUME NEW k \in ClientType, NEW t \in Session \cup {0}, NEW l, l = [k EXCEPT !.session = t]
    PROVE  /\ l \in ClientType /\ l.listed = k.listed /\ l.session = t
           /\ l.sized = k.sized /\ l.overlay = k.overlay /\ l.anim = k.anim
<1> DEFINE k1 == k.listed
           k2 == k.session
           k3 == k.sized
           k4 == k.overlay
           k5 == k.anim
<1>1. /\ k1 \in BOOLEAN /\ k3 \in BOOLEAN
      /\ k4 \in {"none", "animation", "other"} /\ k5 \in AnimationType
      /\ k = [listed |-> k1, session |-> k2, sized |-> k3, overlay |-> k4, anim |-> k5]
  BY ClientFields
<1> HIDE DEF k1, k2, k3, k4, k5
<1>2. l = [listed |-> k1, session |-> t, sized |-> k3, overlay |-> k4, anim |-> k5]
  BY <1>1
<1>3. /\ l \in ClientType /\ l.listed = k1 /\ l.session = t /\ l.sized = k3
      /\ l.overlay = k4 /\ l.anim = k5
  BY <1>1, <1>2, ClientWith
<1> QED
  BY <1>3 DEF k1, k2, k3, k4, k5


(* The calls after the first. *)
LEMMA TailShorter ==
    ASSUME NEW S, NEW q \in Seq(S), q # <<>>, NEW r, r = <<>> \o Tail(q)
    PROVE  \A k \in DOMAIN r : k + 1 \in DOMAIN q /\ r[k] = q[k + 1] /\ k \in Nat \ {0}
<1> DEFINE work == <<>>
<1>1. work \in Seq(S) /\ r = work \o Tail(q) /\ Len(work) = 0 /\ DOMAIN work = {}
  OBVIOUS
<1> HIDE DEF work
<1>2. Placed(q, work, r)
  BY <1>1, Places
<1> SUFFICES ASSUME NEW k \in DOMAIN r PROVE k + 1 \in DOMAIN q /\ r[k] = q[k + 1] /\ k \in Nat \ {0}
  OBVIOUS
<1>3. PICK j \in DOMAIN q : j # 1 /\ r[k] = q[j] /\ k = j + Len(work) - 1
  BY <1>1, <1>2 DEF Placed
<1>4. j \in Nat /\ k \in Nat \ {0}
  BY <1>2 DEF Placed
<1>5. j = k + 1
  BY <1>1, <1>3, <1>4
<1> QED
  BY <1>3, <1>4, <1>5

(* The overlay of client c is reset. *)
LEMMA OwnsCleared ==
    ASSUME NEW S, NEW q \in Seq(S), q # <<>>, NEW r, r = <<>> \o Tail(q), NEW c, q[1] = Cleared(c),
           NEW k, NEW l, Owns(k, c, q), l.listed = k.listed, l.session = k.session,
           l.sized = k.sized, l.overlay = "none", l.anim = k.anim
    PROVE  Owns(l, c, r)
<1>1. \A i \in DOMAIN r : i + 1 \in DOMAIN q /\ r[i] = q[i + 1] /\ i \in Nat \ {0}
  BY TailShorter
<1>2. 1 \in DOMAIN q
  OBVIOUS
<1>3. k.anim.kind = "none" /\ ~Has(q, Clear(c))
  BY <1>2 DEF Owns, Has
<1>4. \A i \in DOMAIN r : r[i] # Cleared(c)
  <2> SUFFICES ASSUME NEW i \in DOMAIN r, r[i] = Cleared(c) PROVE FALSE
    OBVIOUS
  <2>1. i + 1 = 1
    BY <1>1, <1>2 DEF Owns
  <2> QED
    BY <1>1, <2>1
<1>5. ~Has(r, Clear(c))
  BY <1>1, <1>3 DEF Has
<1>6. \A i \in DOMAIN r : r[i].op = "picture" /\ r[i].client = c => k.listed /\ k.sized
  BY <1>1 DEF Owns
<1> QED
  BY <1>3, <1>4, <1>5, <1>6 DEF Owns, Has

(* OverlayCleared keeps the invariant. *)
LEMMA OverlayClearedStep ==
    ASSUME AnimationCore, OverlayCleared
    PROVE  AnimationCore'
<1> DEFINE x == agenda[1]
           c == x.client
           l == [cli[c] EXCEPT !.overlay = "none"]
<1>1. /\ Doing("cleared") /\ cli' = [cli EXCEPT ![Call.client] = [cli[Call.client] EXCEPT !.overlay = "none"]]
      /\ Continue(<<>>)
      /\ UNCHANGED <<ses, win, defer, fault, moves>>
  BY DEF OverlayCleared
<1>2. /\ agenda \in Seq(Work) /\ agenda # <<>> /\ Call = x /\ x \in Work /\ x.op = "cleared"
  BY <1>1, DoingFacts
<1>3. c \in Client /\ x = Cleared(c)
  <2> HIDE DEF x
  <2> QED
    BY <1>2, CallTypes
<1>4. Runs(<<>>)
  BY <1>1, <1>2, NoCalls DEF Runs, Continue
<1>5. cli' = [cli EXCEPT ![c] = l]
  BY <1>1, <1>2
<1>6. /\ l \in ClientType /\ l.listed = cli[c].listed /\ l.session = cli[c].session
      /\ l.sized = cli[c].sized /\ l.overlay = "none" /\ l.anim = cli[c].anim
  <2>1. cli[c] \in ClientType
    BY <1>3, TypeParts
  <2> QED
    BY <2>1, ClientOverlay
<1>7. \A e \in Client : agenda[1] = Cleared(e) => e = c
  BY <1>3 DEF Cleared
<1>8. x = agenda[1]
  OBVIOUS
<1> HIDE DEF l, x
<1>9. Becomes(cli[c], l)
  BY <1>6 DEF Becomes
<1>10. Owns(l, c, agenda')
  <2> DEFINE q == agenda
             r == agenda'
             k == cli[c]
  <2>1. /\ q \in Seq(Work) /\ q # <<>> /\ r = <<>> \o Tail(q) /\ q[1] = Cleared(c)
    BY <1>2, <1>3, <1>4, <1>8 DEF Runs
  <2>2. /\ Owns(k, c, q) /\ l.listed = k.listed /\ l.session = k.session
        /\ l.sized = k.sized /\ l.overlay = "none" /\ l.anim = k.anim
    BY <1>3, <1>6, TypeParts DEF OverlaysOwned
  <2> HIDE DEF q, r, k, c
  <2>3. Owns(l, c, r)
    BY <2>1, <2>2, OwnsCleared
  <2> QED
    BY <2>3 DEF r
<1>11. agenda[1].op = "cleared"
  BY <1>2, <1>8
<1> HIDE DEF c
<1> QED
  BY <1>1, <1>3, <1>4, <1>5, <1>7, <1>9, <1>10, <1>11, OneClientCall

(* Nothing is left to do after some calls. *)
LEMMA LastCall ==
    ASSUME AnimationCore, NEW op \in {"set", "lost", "prompt", "scroll"}, Doing(op), Continue(<<>>)
    PROVE  agenda' = <<>> /\ Runs(<<>>)
<1>1. agenda \in Seq(Work) /\ agenda # <<>> /\ Tail(agenda) = <<>>
  BY DoingFacts
<1>2. agenda' = <<>> \o Tail(agenda)
  BY DEF Continue
<1>3. Runs(<<>>)
  BY <1>1, <1>2, NoCalls DEF Runs
<1> QED
  BY <1>1, <1>2, <1>3

(* The client of the running call, when the call is one that follows the end *)
(* of what was shown.                                                        *)
LEMMA OverlayGone ==
    ASSUME AnimationCore, agenda # <<>>, agenda[1].op \in {"picture", "set", "lost"},
           NEW c \in Client, agenda[1].client = c
    PROVE  /\ cli[c].overlay = "none" /\ cli[c].anim = NoAnimation /\ cli[c].anim.kind = "none"
           /\ cli[c].anim.defer = 0 /\ cli[c].anim.win = 0
           /\ ~cli[c].listed => cli[c].session = 0
           /\ agenda[1].op = "picture" => cli[c].listed /\ cli[c].sized
<1>1. Owns(cli[c], c, agenda) /\ agenda \in Seq(Work)
  BY TypeParts DEF OverlaysOwned
<1>2. 1 \in DOMAIN agenda
  BY <1>1
<1>3. cli[c].overlay = "none"
  BY <1>1 DEF Owns
<1>4. cli[c].anim.kind = "none"
  BY <1>1, <1>3 DEF Owns
<1>5. cli[c].anim = NoAnimation
  BY <1>1, <1>4 DEF Owns
<1> QED
  BY <1>1, <1>2, <1>3, <1>5 DEF Owns, NoAnimation

(* SetOverlay keeps the invariant. *)
LEMMA SetOverlayStep ==
    ASSUME AnimationCore, SetOverlay
    PROVE  AnimationCore'
<1> DEFINE x == agenda[1]
           c == x.client
           l == [cli[c] EXCEPT !.overlay = "other"]
<1>1. Doing("set")
  BY DEF SetOverlay
<1>2. /\ agenda \in Seq(Work) /\ agenda # <<>> /\ Call = x /\ x \in Work /\ x.op = "set"
  BY <1>1, DoingFacts
<1>3. c \in Client
  <2> HIDE DEF x
  <2> QED
    BY <1>2, CallTypes
<1>4. CASE cli[c].session = 0
  <2>1. Fault("session")
    BY <1>2, <1>4 DEF SetOverlay
  <2> QED
    BY <2>1, FaultStep
<1>5. CASE cli[c].session # 0
  <2>1. /\ cli' = [cli EXCEPT ![c] = l]
        /\ Continue(<<>>) /\ UNCHANGED <<ses, win, defer, fault, moves>>
    BY <1>2, <1>5 DEF SetOverlay
  <2>2. agenda' = <<>> /\ Runs(<<>>)
    BY <1>1, <2>1, LastCall
  <2>3. /\ l \in ClientType /\ l.listed = cli[c].listed /\ l.session = cli[c].session
        /\ l.sized = cli[c].sized /\ l.overlay = "other" /\ l.anim = cli[c].anim
    <3>1. cli[c] \in ClientType
      BY <1>3, TypeParts
    <3> QED
      BY <3>1, ClientOverlay
  <2>4. x = agenda[1]
    OBVIOUS
  <2> HIDE DEF l, x
  <2>5. Becomes(cli[c], l)
    BY <2>3 DEF Becomes
  <2>6. Owns(l, c, agenda')
    <3>1. cli[c].anim = NoAnimation /\ cli[c].anim.kind = "none" /\ (~cli[c].listed => cli[c].session = 0)
      BY <1>2, <1>3, <2>4, OverlayGone
    <3> QED
      BY <2>2, <2>3, <3>1, NoCalls DEF Owns
  <2>7. agenda[1].op = "set"
    BY <1>2, <2>4
  <2>8. \A e \in Client : agenda[1] # Cleared(e)
    BY <2>7 DEF Cleared
  <2> HIDE DEF c
  <2> QED
    BY <1>3, <2>1, <2>2, <2>5, <2>6, <2>7, <2>8, OneClientCall
<1> QED
  BY <1>4, <1>5

(* SetPicture keeps the invariant. *)
LEMMA SetPictureStep ==
    ASSUME AnimationCore, SetPicture
    PROVE  AnimationCore'
<1> DEFINE x == agenda[1]
           c == x.client
           a == Anim("picture", 0)
           m == [cli[c] EXCEPT !.overlay = "animation"]
           l == [m EXCEPT !.anim = a]
<1>1. Doing("picture")
  BY DEF SetPicture
<1>2. /\ agenda \in Seq(Work) /\ agenda # <<>> /\ Call = x /\ x \in Work /\ x.op = "picture"
  BY <1>1, DoingFacts
<1>3. c \in Client
  <2> HIDE DEF x
  <2> QED
    BY <1>2, CallTypes
<1>4. CASE win[x.win].panes[x.pane] = "none"
  <2>1. Fault("pane")
    BY <1>2, <1>4 DEF SetPicture
  <2> QED
    BY <2>1, FaultStep
<1>5. CASE win[x.win].panes[x.pane] # "none" /\ cli[c].session = 0
  <2>1. Fault("session")
    BY <1>2, <1>5 DEF SetPicture
  <2> QED
    BY <2>1, FaultStep
<1>6. CASE win[x.win].panes[x.pane] # "none" /\ cli[c].session # 0
  <2>0. /\ cli' = [cli EXCEPT ![c].overlay = "animation", ![c].anim = a]
        /\ Continue(<<>>) /\ UNCHANGED <<ses, win, defer, fault, moves>>
    BY <1>2, <1>6 DEF SetPicture
  <2>1. cli' = [cli EXCEPT ![c] = l]
    <3> HIDE DEF a
    <3> QED
      BY <1>3, <2>0, TypeParts
  <2>2. Runs(<<>>) /\ agenda' = <<>> \o Tail(agenda)
    BY <1>2, <2>0, NoCalls DEF Runs, Continue
  <2>3. a \in AnimationType /\ a.kind = "picture" /\ a.win = 0 /\ a.defer = 0
    BY AnimFacts
  <2> HIDE DEF a
  <2>4. /\ m \in ClientType /\ m.listed = cli[c].listed /\ m.session = cli[c].session
        /\ m.sized = cli[c].sized /\ m.overlay = "animation"
    <3>1. cli[c] \in ClientType
      BY <1>3, TypeParts
    <3> QED
      BY <3>1, ClientOverlay
  <2> HIDE DEF m
  <2>5. /\ l \in ClientType /\ l.listed = cli[c].listed /\ l.session = cli[c].session
        /\ l.sized = cli[c].sized /\ l.overlay = "animation" /\ l.anim = a
    <3>1. /\ l \in ClientType /\ l.listed = m.listed /\ l.session = m.session /\ l.sized = m.sized
          /\ l.overlay = m.overlay /\ l.anim = a
      BY <2>3, <2>4, ClientAnim
    <3> HIDE DEF l
    <3> QED
      BY <2>4, <3>1
  <2>6. x = agenda[1]
    OBVIOUS
  <2> HIDE DEF l, x
  <2>7. /\ cli[c].anim = NoAnimation /\ cli[c].anim.kind = "none" /\ cli[c].anim.defer = 0
        /\ cli[c].anim.win = 0 /\ cli[c].overlay = "none" /\ cli[c].listed /\ cli[c].sized
    BY <1>2, <1>3, <2>6, OverlayGone
  <2>8. Becomes(cli[c], l)
    BY <2>3, <2>5, <2>7 DEF Becomes
  <2>9. agenda[1].op = "picture"
    BY <1>2, <2>6
  <2>10. \A e \in Client : agenda[1] # Cleared(e) /\ agenda[1] # Clear(e)
    BY <2>9 DEF Cleared, Clear
  <2>11. Owns(l, c, agenda')
    <3> DEFINE q == agenda
               r == agenda'
               k == cli[c]
               work == <<>>
    <3>1. /\ q \in Seq(Work) /\ q # <<>> /\ work \in Seq(Work) /\ r = work \o Tail(q)
          /\ InOrder(q) /\ q[1] # Clear(c) /\ q[1] # Cleared(c)
      BY <1>2, <1>3, <2>2, <2>10, TypeParts, NoCalls
    <3>2. Owns(k, c, q)
      BY <1>3, TypeParts DEF OverlaysOwned
    <3>3. Moved(k, l)
      BY <2>3, <2>5, <2>7 DEF Moved
    <3>4. Admits(l, c, q, work)
      BY NoCalls DEF Admits
    <3> HIDE DEF q, r, k, c, work
    <3>5. Owns(l, c, r)
      BY <3>1, <3>2, <3>3, <3>4, OwnsKept
    <3> QED
      BY <3>5 DEF r
  <2> HIDE DEF c
  <2> QED
    BY <1>3, <2>0, <2>1, <2>2, <2>8, <2>9, <2>10, <2>11, OneClientCall
<1> QED
  BY <1>4, <1>5, <1>6

(* RemoveClient keeps the invariant. *)
LEMMA RemoveClientStep ==
    ASSUME AnimationCore, RemoveClient
    PROVE  AnimationCore'
<1> DEFINE x == agenda[1]
           c == x.client
           m == [cli[c] EXCEPT !.listed = FALSE]
           l == [m EXCEPT !.session = 0]
<1>1. Doing("lost")
  BY DEF RemoveClient
<1>2. /\ agenda \in Seq(Work) /\ agenda # <<>> /\ Call = x /\ x \in Work /\ x.op = "lost"
  BY <1>1, DoingFacts
<1>3. c \in Client
  <2> HIDE DEF x
  <2> QED
    BY <1>2, CallTypes
<1>4. /\ cli' = [cli EXCEPT ![c].listed = FALSE, ![c].session = 0]
      /\ Continue(<<>>) /\ UNCHANGED <<ses, win, defer, fault, moves>>
  BY <1>2 DEF RemoveClient
<1>5. cli' = [cli EXCEPT ![c] = l]
  BY <1>3, <1>4, TypeParts
<1>6. agenda' = <<>> /\ Runs(<<>>)
  BY <1>1, <1>4, LastCall
<1>7. /\ m \in ClientType /\ ~m.listed /\ m.session = cli[c].session
      /\ m.sized = cli[c].sized /\ m.overlay = cli[c].overlay /\ m.anim = cli[c].anim
  <2>1. cli[c] \in ClientType /\ FALSE \in BOOLEAN
    BY <1>3, TypeParts
  <2> QED
    BY <2>1, ClientListed
<1> HIDE DEF m
<1>8. /\ l \in ClientType /\ ~l.listed /\ l.session = 0 /\ l.sized = cli[c].sized
      /\ l.overlay = cli[c].overlay /\ l.anim = cli[c].anim
  <2>1. 0 \in Session \cup {0}
    OBVIOUS
  <2>2. /\ l \in ClientType /\ l.listed = m.listed /\ l.session = 0
        /\ l.sized = m.sized /\ l.overlay = m.overlay /\ l.anim = m.anim
    BY <1>7, <2>1, ClientSession
  <2> HIDE DEF l
  <2> QED
    BY <1>7, <2>2
<1>9. x = agenda[1]
  OBVIOUS
<1> HIDE DEF l, x
<1>10. /\ cli[c].anim = NoAnimation /\ cli[c].anim.kind = "none" /\ cli[c].anim.defer = 0
       /\ cli[c].anim.win = 0 /\ cli[c].overlay = "none"
  BY <1>2, <1>3, <1>9, OverlayGone
<1>11. Becomes(cli[c], l)
  BY <1>8, <1>10 DEF Becomes
<1>12. agenda[1].op = "lost"
  BY <1>2, <1>9
<1>13. \A e \in Client : agenda[1] # Cleared(e)
  BY <1>12 DEF Cleared
<1>14. Owns(l, c, agenda')
  BY <1>6, <1>8, <1>10, NoCalls DEF Owns
<1> HIDE DEF c
<1> QED
  BY <1>3, <1>4, <1>5, <1>6, <1>11, <1>12, <1>13, <1>14, OneClientCall

(* A call that only makes other calls. *)
LEMMA CallsOnly ==
    ASSUME AnimationCore, NEW work, Runs(work), Calm(work), Fits(agenda[1], work),
           UNCHANGED <<cli, ses, win, defer, fault, moves>>,
           agenda[1].op \notin {"clear", "cleared", "finalize", "unref", "invalidate", "kill"},
           \A c \in Client : Admits(cli[c], c, agenda, work)
    PROVE  AnimationCore'
<1>1. LinksSame /\ SameSessions /\ ses' = ses /\ win' = win /\ defer' = defer
  BY DEF LinksSame, SameSessions
<1>2. MovesTo({}) /\ HasRefs({})
  BY TypeParts, SameClients, MovedChange DEF HasRefs
<1>3. CarriersCounted'
  BY TypeParts DEF CarriersCounted
<1>4. OverlaysOwned'
  BY <1>2, TypeParts, OverlaysKept DEF MovesTo
<1>5. CurrentWindowLinked'
  BY <1>1, TypeParts, CurrentKept
<1>6. /\ DefersNamed' /\ RefsCounted' /\ PanesKept' /\ DrawnKept'
      /\ InOrder(agenda') /\ agenda' \in Seq(Work)
  BY <1>1, <1>2, RunStep DEF MovesTo
<1>7. TypesKept'
  BY <1>6, TypeParts DEF TypesKept
<1> QED
  BY <1>3, <1>4, <1>5, <1>6, <1>7 DEF AnimationCore

(* A call that makes no other asks nothing. *)
LEMMA NothingMore ==
    ASSUME NEW first
    PROVE  Fits(first, <<>>) /\ \A c \in Client : Admits(cli[c], c, agenda, <<>>)
<1> DEFINE work == <<>>
<1>1. DOMAIN work = {} /\ work = <<>> /\ \A x : ~Has(work, x)
  BY NoCalls
<1> HIDE DEF work
<1>2. Fits(first, work)
  BY <1>1 DEF Fits
<1>3. \A c \in Client : Admits(cli[c], c, agenda, work)
  BY <1>1 DEF Admits
<1> QED
  BY <1>2, <1>3 DEF work

(* SetPrompt keeps the invariant. *)
LEMMA SetPromptStep ==
    ASSUME AnimationCore, SetPrompt
    PROVE  AnimationCore'
<1>1. Doing("prompt")
  BY DEF SetPrompt
<1>2. CASE Call.win \notin ses[Call.session].linked
  BY <1>2, FaultStep DEF SetPrompt
<1>3. CASE Call.win \in ses[Call.session].linked
  <2>1. Continue(<<>>) /\ UNCHANGED <<cli, ses, win, defer, fault, moves>>
    BY <1>3 DEF SetPrompt
  <2>2. Runs(<<>>)
    BY <1>1, <2>1, LastCall
  <2>3. agenda[1].op = "prompt"
    BY <1>1, DoingFacts
  <2>4. Calm(<<>>) /\ Fits(agenda[1], <<>>) /\ \A c \in Client : Admits(cli[c], c, agenda, <<>>)
    BY NoCalls, NothingMore
  <2> QED
    BY <2>1, <2>2, <2>3, <2>4, CallsOnly
<1> QED
  BY <1>2, <1>3

(* The calls of a scroll for client c, which has the animation that a       *)
(* picture needs.                                                           *)
Scrolls(c, work) ==
    /\ work \in Seq(Work) /\ Calm(work)
    /\ \A first : first.op = "scroll" => Fits(first, work)
    /\ \A i \in DOMAIN work :
         /\ work[i].op \in {"clear", "picture", "scroll"}
         /\ work[i].op \in {"clear", "picture"} => work[i].client = c
    /\ \A e : Has(work, Clear(e)) => e = c /\ work[1] = Clear(c)

(* The calls of a scroll, in its three cases. *)
LEMMA ScrollsFacts ==
    ASSUME NEW c \in Client, NEW z \in Work, z.op = "picture", z.client = c,
           NEW s \in Work, s.op = "scroll",
           NEW work, work \in {<<s>>, <<z, s>>, <<Clear(c), z, s>>}
    PROVE  /\ Scrolls(c, work)
           /\ work = <<s>> => \A i \in DOMAIN work : work[i].op = "scroll"
           /\ work = <<z, s>> => \A i \in DOMAIN work : work[i].op # "clear"
           /\ work = <<Clear(c), z, s>> => work[1].op = "clear"
<1> DEFINE y == Clear(c)
<1>1. y \in Work /\ y.op = "clear" /\ y.client = c /\ \A e : y = Clear(e) => e = c
  BY WorkFacts DEF Clear
<1>2. \A e : z # Clear(e) /\ s # Clear(e)
  BY DEF Clear
<1>3. y = Clear(z.client)
  OBVIOUS
<1> HIDE DEF y
<1>4. CASE work = <<s>>
  <2>1. work \in Seq(Work) /\ DOMAIN work = {1} /\ work[1] = s /\ Len(work) = 1
    BY <1>4
  <2>2. Calm(work) /\ \A first : first.op = "scroll" => Fits(first, work)
    BY <2>1 DEF Calm, NoUnref, NoFinalize, NoInvalidate, Fits
  <2>3. \A e : ~Has(work, Clear(e))
    BY <1>2, <2>1 DEF Has
  <2>4. Scrolls(c, work)
    BY <2>1, <2>2, <2>3 DEF Scrolls
  <2>5. work[1].op # "clear" /\ (work = <<z, s>> => Len(work) = 2)
    BY <2>1
  <2> QED
    BY <2>1, <2>4, <2>5, <1>1
<1>5. CASE work = <<z, s>>
  <2>1. work \in Seq(Work) /\ DOMAIN work = {1, 2} /\ work[1] = z /\ work[2] = s /\ Len(work) = 2
    BY <1>5
  <2>2. Calm(work) /\ \A first : first.op = "scroll" => Fits(first, work)
    BY <2>1 DEF Calm, NoUnref, NoFinalize, NoInvalidate, Fits
  <2>3. \A e : ~Has(work, Clear(e))
    BY <1>2, <2>1 DEF Has
  <2>4. Scrolls(c, work)
    BY <2>1, <2>2, <2>3 DEF Scrolls
  <2>5. work # <<s>> /\ work # <<y, z, s>>
    BY <2>1
  <2> QED
    BY <2>1, <2>4, <2>5 DEF y
<1>6. CASE work = <<Clear(c), z, s>>
  <2>1. /\ work \in Seq(Work) /\ DOMAIN work = {1, 2, 3} /\ work[1] = y /\ work[2] = z
        /\ work[3] = s /\ Len(work) = 3
    BY <1>1, <1>6 DEF y
  <2>2. Calm(work)
    BY <1>1, <2>1 DEF Calm, NoUnref, NoFinalize, NoInvalidate
  <2>3. \A first : first.op = "scroll" => Fits(first, work)
    BY <1>1, <1>3, <2>1 DEF Fits
  <2>4. \A e : Has(work, Clear(e)) => e = c
    BY <1>1, <1>2, <2>1 DEF Has
  <2>5. Scrolls(c, work)
    BY <1>1, <2>1, <2>2, <2>3, <2>4 DEF Scrolls, y
  <2>6. work # <<s>> /\ work # <<z, s>>
    BY <2>1
  <2> QED
    BY <1>1, <2>1, <2>5, <2>6
<1> QED
  BY <1>4, <1>5, <1>6

(* Two calls, one after the other. *)
LEMMA TwoJoined ==
    ASSUME NEW S, NEW y \in S, NEW z \in S
    PROVE  <<y>> \o <<z>> = <<y, z>>
<1> DEFINE a == <<y>> \o <<z>>
           b == <<y, z>>
<1>1. a \in Seq(S) /\ Len(a) = 2 /\ a[1] = y /\ a[2] = z
  OBVIOUS
<1>2. b \in Seq(S) /\ Len(b) = 2 /\ b[1] = y /\ b[2] = z
  OBVIOUS
<1> HIDE DEF a, b
<1>3. \A i \in 1 .. Len(a) : a[i] = b[i]
  BY <1>1, <1>2
<1>4. a = b
  BY <1>1, <1>2, <1>3, SeqEqual
<1> QED
  BY <1>4 DEF a, b

(* Three calls, one after the other. *)
LEMMA Joined ==
    ASSUME NEW S, NEW y \in S, NEW z \in S, NEW s \in S
    PROVE  <<y>> \o <<z>> \o <<s>> = <<y, z, s>> /\ <<z>> \o <<s>> = <<z, s>>
<1> DEFINE a == <<y, z>> \o <<s>>
           b == <<y, z, s>>
<1>1. a \in Seq(S) /\ Len(a) = 3 /\ a[1] = y /\ a[2] = z /\ a[3] = s
  OBVIOUS
<1>2. b \in Seq(S) /\ Len(b) = 3 /\ b[1] = y /\ b[2] = z /\ b[3] = s
  OBVIOUS
<1> HIDE DEF a, b
<1>3. \A i \in 1 .. Len(a) : a[i] = b[i]
  BY <1>1, <1>2
<1>4. a = b
  BY <1>1, <1>2, <1>3, SeqEqual
<1>5. <<y>> \o <<z>> = <<y, z>> /\ <<z>> \o <<s>> = <<z, s>>
  BY TwoJoined
<1> QED
  BY <1>4, <1>5 DEF a, b

(* ScrollForClient keeps the invariant. *)
LEMMA ScrollForClientStep ==
    ASSUME AnimationCore, ScrollForClient
    PROVE  AnimationCore'
<1> DEFINE x == agenda[1]
           w == x.win
           p == x.pane
<1>1. Doing("scroll")
  BY DEF ScrollForClient
<1>2. /\ agenda \in Seq(Work) /\ agenda # <<>> /\ Call = x /\ x \in Work /\ x.op = "scroll"
      /\ DOMAIN agenda = {1}
  BY <1>1, DoingFacts
<1>3. /\ w \in Window /\ p \in PaneId /\ x.todo \in SUBSET Client
      /\ x = [op |-> "scroll", win |-> w, pane |-> p, todo |-> x.todo]
  <2> HIDE DEF x
  <2> QED
    BY <1>2, CallTypes
<1>4. CASE x.todo = {} /\ Continue(<<>>) /\ UNCHANGED <<cli, ses, win, defer, fault, moves>>
  <2>1. Runs(<<>>)
    BY <1>1, <1>4, LastCall
  <2>2. Calm(<<>>) /\ Fits(agenda[1], <<>>) /\ \A c \in Client : Admits(cli[c], c, agenda, <<>>)
    BY NoCalls, NothingMore
  <2> QED
    BY <1>2, <1>4, <2>1, <2>2, CallsOnly
<1>5. ASSUME NEW c \in x.todo, win[w].panes[p] = "none", Fault("pane") PROVE AnimationCore'
  BY <1>5, FaultStep
<1>6. ASSUME NEW c \in x.todo, UNCHANGED <<cli, ses, win, defer, fault, moves>>,
             Continue(IF c \notin Viewers(w) \/ cli[c].overlay = "other" \/ ~cli[c].sized
                      THEN <<[x EXCEPT !.todo = @ \ {c}]>>
                      ELSE IF cli[c].overlay = "animation"
                      THEN <<Clear(c)>> \o <<[op |-> "picture", client |-> c, win |-> w, pane |-> p]>>
                                        \o <<[x EXCEPT !.todo = @ \ {c}]>>
                      ELSE <<[op |-> "picture", client |-> c, win |-> w, pane |-> p]>>
                           \o <<[x EXCEPT !.todo = @ \ {c}]>>)
      PROVE  AnimationCore'
  <2> DEFINE z == [op |-> "picture", client |-> c, win |-> w, pane |-> p]
             t == x.todo \ {c}
             s == [op |-> "scroll", win |-> w, pane |-> p, todo |-> t]
             none == c \notin Viewers(w) \/ cli[c].overlay = "other" \/ ~cli[c].sized
             work == IF none THEN <<s>>
                     ELSE IF cli[c].overlay = "animation" THEN <<Clear(c), z, s>> ELSE <<z, s>>
  <2>1. c \in Client /\ z \in Work /\ z.op = "picture" /\ z.client = c /\ s \in Work /\ s.op = "scroll"
    BY <1>3, WorkFacts
  <2>2. [x EXCEPT !.todo = @ \ {c}] = s
    <3>1. [x EXCEPT !.todo = @ \ {c}] = [x EXCEPT !.todo = t]
      OBVIOUS
    <3> HIDE DEF t, w, p, x
    <3> QED
      BY <1>3, <3>1
  <2> HIDE DEF z, t, s
  <2>3. Continue(work)
    <3> DEFINE y == Clear(c)
               v == [x EXCEPT !.todo = @ \ {c}]
    <3>1. v = s
      BY <2>2
    <3>2. Continue(IF none THEN <<v>>
                   ELSE IF cli[c].overlay = "animation" THEN <<y>> \o <<z>> \o <<v>> ELSE <<z>> \o <<v>>)
      BY <1>6 DEF z
    <3>a. y \in Work
      BY <2>1, WorkFacts
    <3> HIDE DEF y, v, none
    <3>3. <<y>> \o <<z>> \o <<s>> = <<y, z, s>> /\ <<z>> \o <<s>> = <<z, s>>
      BY <2>1, <3>a, Joined
    <3>4. Continue(IF none THEN <<s>>
                   ELSE IF cli[c].overlay = "animation" THEN <<y, z, s>> ELSE <<z, s>>)
      BY <3>1, <3>2, <3>3
    <3> QED
      BY <3>4 DEF y, none
  <2>4. work \in {<<s>>, <<z, s>>, <<Clear(c), z, s>>}
    OBVIOUS
  <2>5. Scrolls(c, work)
    <3> HIDE DEF work
    <3> QED
      BY <2>1, <2>4, ScrollsFacts
  <2>6. Runs(work)
    <3> HIDE DEF work
    <3> QED
      BY <1>2, <2>3, <2>5 DEF Runs, Continue, Scrolls
  <2>7. ASSUME NEW i \in DOMAIN work, work[i].op = "picture"
        PROVE  cli[c].listed /\ cli[c].sized /\ (i = 1 => cli[c].overlay = "none")
    <3>1. ~none
      BY <2>1, <2>7
    <3>2. cli[c].listed /\ cli[c].sized /\ cli[c].overlay # "other"
      BY <3>1 DEF Viewers
    <3>3. i = 1 => cli[c].overlay # "animation"
      <4>1. cli[c].overlay = "animation" => work[1] = Clear(c)
        BY <3>1
      <4> QED
        BY <2>7, <4>1 DEF Clear
    <3>4. cli[c].overlay \in {"none", "animation", "other"}
      BY <2>1, TypeParts, ClientFields
    <3> QED
      BY <3>2, <3>3, <3>4
  <2>8. Has(work, Clear(c)) => cli[c].overlay # "none"
    <3> SUFFICES ASSUME Has(work, Clear(c)), cli[c].overlay = "none" PROVE FALSE
      OBVIOUS
    <3>1. work[1] = Clear(c)
      BY <2>5 DEF Scrolls
    <3>2. work[1] = s \/ work[1] = z
      BY <3>1
    <3> QED
      BY <2>1, <3>1, <3>2 DEF Clear
  <2> HIDE DEF work, none
  <2>9. \A e \in Client : Admits(cli[e], e, agenda, work)
    <3> SUFFICES ASSUME NEW e \in Client PROVE Admits(cli[e], e, agenda, work)
      OBVIOUS
    <3>1. ~Has(agenda, Cleared(e))
      BY <1>2 DEF Has, Cleared
    <3>2. ASSUME NEW i \in DOMAIN work
          PROVE  /\ work[i] # Cleared(e) /\ work[i].op \notin {"set", "lost"}
                 /\ work[i].op = "picture" /\ work[i].client = e =>
                      cli[e].listed /\ cli[e].sized /\ (i = 1 => cli[e].overlay = "none")
      BY <2>5, <2>7 DEF Scrolls, Cleared
    <3>3. Has(work, Clear(e)) => cli[e].overlay # "none"
      BY <2>5, <2>8 DEF Scrolls
    <3> QED
      BY <3>1, <3>2, <3>3 DEF Admits
  <2>10. Calm(work) /\ Fits(agenda[1], work)
    BY <1>2, <2>5 DEF Scrolls
  <2>11. agenda[1].op = "scroll"
    BY <1>2
  <2> QED
    BY <1>6, <2>6, <2>9, <2>10, <2>11, CallsOnly
<1>7. \/ x.todo = {} /\ Continue(<<>>) /\ UNCHANGED <<cli, ses, win, defer, fault, moves>>
      \/ \E c \in x.todo :
           IF win[w].panes[p] = "none" THEN Fault("pane")
           ELSE /\ Continue(IF c \notin Viewers(w) \/ cli[c].overlay = "other" \/ ~cli[c].sized
                            THEN <<[x EXCEPT !.todo = @ \ {c}]>>
                            ELSE IF cli[c].overlay = "animation"
                            THEN <<Clear(c)>> \o <<[op |-> "picture", client |-> c, win |-> w, pane |-> p]>>
                                              \o <<[x EXCEPT !.todo = @ \ {c}]>>
                            ELSE <<[op |-> "picture", client |-> c, win |-> w, pane |-> p]>>
                                 \o <<[x EXCEPT !.todo = @ \ {c}]>>)
                /\ UNCHANGED <<cli, ses, win, defer, fault, moves>>
  BY <1>2 DEF ScrollForClient
<1>8. ASSUME NEW c \in x.todo,
             IF win[w].panes[p] = "none" THEN Fault("pane")
             ELSE /\ Continue(IF c \notin Viewers(w) \/ cli[c].overlay = "other" \/ ~cli[c].sized
                              THEN <<[x EXCEPT !.todo = @ \ {c}]>>
                              ELSE IF cli[c].overlay = "animation"
                              THEN <<Clear(c)>> \o <<[op |-> "picture", client |-> c, win |-> w, pane |-> p]>>
                                                \o <<[x EXCEPT !.todo = @ \ {c}]>>
                              ELSE <<[op |-> "picture", client |-> c, win |-> w, pane |-> p]>>
                                   \o <<[x EXCEPT !.todo = @ \ {c}]>>)
                  /\ UNCHANGED <<cli, ses, win, defer, fault, moves>>
      PROVE  AnimationCore'
  BY <1>5, <1>6, <1>8
<1> QED
  BY <1>4, <1>7, <1>8

----------------------------------------------------------------------------
(* An overlay is cleared: the animation lets go of the close it carries.    *)

LEMMA DeferFields ==
    ASSUME NEW k \in DeferType
    PROVE  /\ k.win \in Window \cup {0} /\ k.pane \in PaneId \cup {0} /\ k.pending \in Int
           /\ k = [win |-> k.win, pane |-> k.pane, pending |-> k.pending]
BY DEF DeferType

(* The count of the close d, if there is one, is one less. *)
Released(d) ==
    /\ defer' \in [Defer -> DeferType]
    /\ \A e \in Defer :
         /\ defer'[e].win = defer[e].win /\ defer'[e].pane = defer[e].pane
         /\ defer'[e].pending = IF e = d THEN defer[e].pending - 1 ELSE defer[e].pending
         /\ e # d => defer'[e] = defer[e]

(* A deferred close gets another count. *)
LEMMA PendingSet ==
    ASSUME NEW k \in DeferType, NEW n \in Int, NEW l, l = [k EXCEPT !.pending = n]
    PROVE  l \in DeferType /\ l.win = k.win /\ l.pane = k.pane /\ l.pending = n
<1> DEFINE k1 == k.win
           k2 == k.pane
           k3 == k.pending
<1>1. /\ k1 \in Window \cup {0} /\ k2 \in PaneId \cup {0}
      /\ k = [win |-> k1, pane |-> k2, pending |-> k3]
  BY DeferFields
<1> HIDE DEF k1, k2, k3
<1>2. l = [win |-> k1, pane |-> k2, pending |-> n]
  BY <1>1
<1>3. l \in DeferType /\ l.win = k1 /\ l.pane = k2 /\ l.pending = n
  BY <1>1, <1>2 DEF DeferType
<1> QED
  BY <1>3 DEF k1, k2

(* Zero names no deferred close. *)
LEMMA NoDeferZero == 0 \notin Defer
BY AnimationAssumption, FS_CardinalityType DEF Defer

(* A carrier lets go of its close. *)
LEMMA ReleasedFacts ==
    ASSUME defer \in [Defer -> DeferType], NEW d \in Defer \cup {0},
           defer' = IF d = 0 THEN defer ELSE Release(d)
    PROVE  Released(d)
<1>1. CASE d = 0
  BY <1>1, NoDeferZero DEF Released
<1>2. CASE d # 0
  <2> DEFINE n == defer[d].pending - 1
             l == [defer[d] EXCEPT !.pending = n]
  <2>1. d \in Defer /\ defer[d] \in DeferType /\ n \in Int
    BY <1>2, DeferFields
  <2>2. defer' = [defer EXCEPT ![d] = l]
    BY <1>2 DEF Release
  <2>3. n = defer[d].pending - 1
    OBVIOUS
  <2> HIDE DEF n
  <2>4. l \in DeferType /\ l.win = defer[d].win /\ l.pane = defer[d].pane /\ l.pending = n
    BY <2>1, PendingSet
  <2> HIDE DEF l
  <2>5. defer' \in [Defer -> DeferType] /\ \A e \in Defer : defer'[e] = IF e = d THEN l ELSE defer[e]
    BY <2>1, <2>2, <2>4
  <2> QED
    BY <2>3, <2>4, <2>5 DEF Released
<1> QED
  BY <1>1, <1>2

(* The calls of such a clearing. *)
Clears(work, c, d, b) ==
    /\ work \in Seq(Work) /\ work # <<>> /\ Len(work) \in DOMAIN work
    /\ \A i \in DOMAIN work : \/ work[i] = Finalizing(d) /\ i = 1 /\ b
                              \/ work[i] = Cleared(c) /\ i = Len(work)
    /\ work[Len(work)] = Cleared(c)
    /\ b => work[1] = Finalizing(d)
    /\ ~b => work[1] = Cleared(c)

(* One call, and if b another before it. *)
Perhaps(work, b, y, z) ==
    /\ b => work[1] = y /\ work[2] = z /\ Len(work) = 2 /\ DOMAIN work = {1, 2}
    /\ ~b => work[1] = z /\ Len(work) = 1 /\ DOMAIN work = {1}

(* A list of one. *)
LEMMA OneItem ==
    ASSUME NEW S, NEW z \in S, NEW q, q = <<z>>
    PROVE  q \in Seq(S) /\ q[1] = z /\ Len(q) = 1 /\ DOMAIN q = {1} /\ q # <<>>
<1>1. q \in Seq(S) /\ q[1] = z /\ Len(q) = 1 /\ q # <<>>
  OBVIOUS
<1>2. DOMAIN q = {1}
  BY <1>1
<1> QED
  BY <1>1, <1>2

(* A list of one or two. *)
LEMMA PerhapsFacts ==
    ASSUME NEW S, NEW b \in BOOLEAN, NEW y, b => y \in S, NEW z \in S,
           NEW work, work = (IF b THEN <<y>> ELSE <<>>) \o <<z>>
    PROVE  work \in Seq(S) /\ work # <<>> /\ Perhaps(work, b, y, z)
<1>1. CASE b
  <2>1. work = <<y>> \o <<z>> /\ y \in S
    BY <1>1
  <2>2. work = <<y, z>>
    BY <2>1, TwoJoined
  <2>3. work \in Seq(S) /\ work[1] = y /\ work[2] = z /\ Len(work) = 2 /\ DOMAIN work = {1, 2} /\ work # <<>>
    BY <2>1, <2>2
  <2> QED
    BY <1>1, <2>3 DEF Perhaps
<1>2. CASE ~b
  <2>1. work = <<>> \o <<z>> /\ <<z>> \in Seq(S)
    BY <1>2
  <2>2. work = <<z>>
    BY <2>1, ConcatEmptySeq
  <2>3. work \in Seq(S) /\ work[1] = z /\ Len(work) = 1 /\ DOMAIN work = {1} /\ work # <<>>
    BY <2>2, OneItem
  <2> QED
    BY <1>2, <2>3 DEF Perhaps
<1> QED
  BY <1>1, <1>2

(* Clearing an overlay makes the close, if it was the last carrier, and     *)
(* resets the overlay.                                                      *)
LEMMA ClearsFacts ==
    ASSUME NEW c \in Client, NEW d, NEW b \in BOOLEAN, b => d \in Defer,
           NEW work, work = (IF b THEN <<Finalizing(d)>> ELSE <<>>) \o <<Cleared(c)>>
    PROVE  Clears(work, c, d, b)
<1> DEFINE y == Finalizing(d)
           z == Cleared(c)
<1>1. z \in Work /\ (b => y \in Work)
  BY WorkFacts
<1>2. work = (IF b THEN <<y>> ELSE <<>>) \o <<z>>
  OBVIOUS
<1> HIDE DEF y, z
<1>3. work \in Seq(Work) /\ work # <<>> /\ Perhaps(work, b, y, z)
  BY <1>1, <1>2, PerhapsFacts
<1>4. CASE b
  BY <1>3, <1>4 DEF Clears, y, z, Perhaps
<1>5. CASE ~b
  BY <1>3, <1>5 DEF Clears, y, z, Perhaps
<1> QED
  BY <1>4, <1>5

(* Such calls keep the agenda in order and concern no other client. *)
LEMMA ClearsFit ==
    ASSUME NEW work, NEW c \in Client, NEW d, NEW b, Clears(work, c, d, b), agenda # <<>>,
           agenda[1] = Clear(c)
    PROVE  /\ NoUnref(work) /\ NoInvalidate(work) /\ Fits(agenda[1], work)
           /\ \A e \in Client : e # c => Admits(cli'[e], e, agenda, work)
<1>1. ASSUME NEW i \in DOMAIN work
      PROVE  /\ work[i].op \in {"finalize", "cleared"} /\ (work[i].op = "finalize" => i = 1)
             /\ \A e : work[i] = Cleared(e) => e = c
  <2>1. CASE work[i] = Finalizing(d) /\ i = 1
    BY <2>1 DEF Finalizing, Cleared
  <2>2. CASE work[i] = Cleared(c)
    BY <2>2 DEF Cleared
  <2> QED
    BY <2>1, <2>2 DEF Clears
<1>2. NoUnref(work) /\ NoInvalidate(work)
  BY <1>1 DEF NoUnref, NoInvalidate
<1>3. agenda[1].op = "clear" /\ agenda[1].client = c
  BY DEF Clear
<1>4. Fits(agenda[1], work)
  BY <1>1, <1>3 DEF Fits, Clears
<1>5. \A e : ~Has(work, Clear(e))
  BY <1>1 DEF Has, Clear
<1>6. \A e \in Client : e # c => Admits(cli'[e], e, agenda, work)
  BY <1>1, <1>5 DEF Admits
<1> QED
  BY <1>2, <1>4, <1>6

(* The overlay of client c is to be cleared first. *)
Cleaning(q, c) == q \in Seq(Work) /\ q # <<>> /\ q[1] = Clear(c) /\ InOrder(q)

(* The client k without its animation, whose overlay it was if there is more *)
(* to be done. *)
Cleaned(k, l, b) ==
    /\ l.listed = k.listed /\ l.session = k.session /\ l.sized = k.sized
    /\ l.overlay = k.overlay /\ l.anim = NoAnimation
    /\ b => k.overlay = "animation"

(* The animation of client c is gone, its overlay still to be reset. *)
LEMMA OwnsCleaned ==
    ASSUME NEW q, NEW c, Cleaning(q, c), NEW work, NEW d, NEW b, Clears(work, c, d, b),
           NEW k, NEW l, Owns(k, c, q), Cleaned(k, l, b)
    PROVE  Owns(l, c, work \o Tail(q))
<1> DEFINE r == work \o Tail(q)
<1>0. /\ q \in Seq(Work) /\ q # <<>> /\ q[1] = Clear(c) /\ InOrder(q)
      /\ l.listed = k.listed /\ l.session = k.session /\ l.sized = k.sized
      /\ l.overlay = k.overlay /\ l.anim = NoAnimation
      /\ b => k.overlay = "animation"
  BY DEF Cleaning, Cleaned
<1>1. Placed(q, work, r)
  BY <1>0, Places DEF Clears
<1> HIDE DEF r
<1>2. 1 \in DOMAIN q
  BY <1>0
<1>3. Has(q, Clear(c)) /\ ~Has(q, Cleared(c)) /\ k.overlay # "none"
  BY <1>0, <1>2 DEF Owns, Has
<1>4. ASSUME NEW i \in DOMAIN r, r[i] = Cleared(c) PROVE i = Len(work)
  <2>1. CASE i \in DOMAIN work /\ r[i] = work[i]
    BY <1>4, <2>1 DEF Clears, Cleared, Finalizing
  <2>2. CASE ~(i \in DOMAIN work /\ r[i] = work[i])
    BY <1>0, <1>1, <1>3, <1>4, <2>2 DEF Placed, Has
  <2> QED
    BY <2>1, <2>2
<1>5. Has(r, Cleared(c))
  <2>1. Len(work) \in DOMAIN r /\ r[Len(work)] = Cleared(c)
    BY <1>1 DEF Placed, Clears
  <2> QED
    BY <2>1 DEF Has
<1>6. \A i \in DOMAIN work : work[i].op \in {"finalize", "cleared"}
  BY DEF Clears, Cleared, Finalizing
<1>7. ~Has(r, Clear(c))
  <2> SUFFICES ASSUME NEW i \in DOMAIN r, r[i] = Clear(c) PROVE FALSE
    BY DEF Has
  <2>1. r[i].op = "clear"
    BY DEF Clear
  <2>2. PICK j \in DOMAIN q : j # 1 /\ r[i] = q[j]
    BY <1>1, <1>6, <2>1 DEF Placed
  <2> QED
    BY <1>0, <2>1, <2>2 DEF InOrder
<1>8. ASSUME NEW i \in DOMAIN r, r[i].op = "picture", r[i].client = c PROVE k.listed /\ k.sized
  <2>1. PICK j \in DOMAIN q : j # 1 /\ r[i] = q[j]
    BY <1>1, <1>6, <1>8 DEF Placed
  <2> QED
    BY <1>8, <2>1 DEF Owns
<1>9. r[1].op \notin {"picture", "set", "lost"}
  <2>1. 1 \in DOMAIN work
    BY DEF Clears
  <2>2. 1 \in DOMAIN r /\ r[1] = work[1]
    BY <1>1, <2>1 DEF Placed
  <2> QED
    BY <1>6, <2>1, <2>2
<1>10. l.anim.kind = "none" /\ l.overlay # "none"
  BY <1>0, <1>3 DEF NoAnimation
<1>11. /\ l.overlay = "animation" => l.listed /\ l.sized
       /\ ~l.listed => l.session = 0
  BY <1>0 DEF Owns
<1>12. \A i, j \in DOMAIN r : r[i] = Cleared(c) /\ r[j] = Cleared(c) => i = j
  BY <1>4
<1>13. \A i \in DOMAIN r : r[i].op = "picture" /\ r[i].client = c => l.listed /\ l.sized
  BY <1>0, <1>8
<1>14. r[1] # Cleared(c) => l.overlay = "animation"
  <2>1. r[1] = work[1]
    <3>1. 1 \in DOMAIN work
      BY DEF Clears
    <3> QED
      BY <1>1, <3>1 DEF Placed
  <2>2. r[1] # Cleared(c) => b
    BY <2>1 DEF Clears
  <2> QED
    BY <1>0, <2>2
<1>15. Owns(l, c, r)
  BY ONLY <1>0, <1>5, <1>7, <1>9, <1>10, <1>11, <1>12, <1>13, <1>14 DEF Owns
<1> QED
  BY <1>15 DEF r

(* What is left of a clearing, whatever the animation carried. *)
LEMMA ClearOverlayKept ==
    ASSUME AnimationCore, NEW c \in Client, agenda # <<>>, agenda[1] = Clear(c),
           NEW d \in Defer \cup {0}, d = cli[c].anim.defer, Released(d),
           NEW b \in BOOLEAN, b <=> d # 0 /\ defer'[d].pending <= 0,
           NEW work, Clears(work, c, d, b), agenda' = work \o Tail(agenda),
           NEW l \in ClientType, cli' = [cli EXCEPT ![c] = l],
           l.listed = cli[c].listed, l.session = cli[c].session, l.sized = cli[c].sized,
           l.overlay = cli[c].overlay, l.anim = NoAnimation,
           UNCHANGED <<ses, win, fault, moves>>
    PROVE  AnimationCore'
<1>1. Runs(work)
  BY TypeParts DEF Runs, Clears
<1>2. /\ NoUnref(work) /\ NoInvalidate(work) /\ Fits(agenda[1], work)
      /\ \A e \in Client : e # c => Admits(cli'[e], e, agenda, work)
  BY ClearsFit
<1>3. \A e \in Client : cli'[e] = IF e = c THEN l ELSE cli[e]
  BY TypeParts
<1>4. LinksSame /\ SameSessions /\ ses' = ses /\ win' = win /\ cli' \in [Client -> ClientType]
  BY <1>3, TypeParts DEF LinksSame, SameSessions
<1>5. agenda[1].op = "clear" /\ (\A e \in Client : agenda[1] # Cleared(e))
      /\ \A e \in Client : e # c => agenda[1] # Clear(e)
  BY DEF Clear, Cleared
<1>6. InOrder(agenda') /\ agenda' \in Seq(Work)
  BY <1>1, <1>2, TypeParts, OrderKept, Places DEF Runs
<1>7. OverlaysOwned'
  <2> SUFFICES ASSUME NEW e \in Client PROVE Owns(cli'[e], e, agenda')
    BY DEF OverlaysOwned
  <2>1. CASE e = c
    <3>1. Tidy(cli[c]) /\ (b => cli[c].anim.defer # 0)
      BY TypeParts, OwnsTidy
    <3>2. Cleaned(cli[c], l, b)
      BY <3>1 DEF Tidy, Cleaned
    <3>3. Cleaning(agenda, c) /\ Owns(cli[c], c, agenda)
      BY TypeParts DEF Cleaning, OverlaysOwned
    <3>4. Owns(l, c, work \o Tail(agenda))
      BY <3>2, <3>3, OwnsCleaned, Zenon
    <3> QED
      BY <1>3, <2>1, <3>4
  <2>2. CASE e # c
    <3>1. Moved(cli[e], cli'[e])
      BY <1>3, <2>2 DEF Moved
    <3> QED
      BY <1>1, <1>2, <1>5, <2>2, <3>1, TypeParts, OwnsRun
  <2> QED
    BY <2>1, <2>2
<1>8. l.anim.defer = 0 /\ l.anim.win = 0
  BY DEF NoAnimation
<1>9. CarriersCounted'
  <2> SUFFICES ASSUME NEW e \in Defer
               PROVE  /\ defer'[e].pending = Cardinality({g \in Client : cli'[g].anim.defer = e})
                      /\ \A g \in Client : cli'[g].anim.defer = e =>
                           cli'[g].anim.kind = "slide" /\ cli'[g].listed
    BY DEF CarriersCounted
  <2> DEFINE A == {g \in Client : cli[g].anim.defer = e}
             B == {g \in Client : cli'[g].anim.defer = e}
  <2>1. defer[e].pending = Cardinality(A) /\ \A g \in A : cli[g].anim.kind = "slide" /\ cli[g].listed
    BY TypeParts DEF CarriersCounted
  <2>2. e # 0
    BY NoDeferZero
  <2>3. B = A \ {c}
    BY <1>3, <1>8, <2>2
  <2>4. \A g \in B : cli'[g] = cli[g]
    BY <1>3, <1>8, <2>2
  <2>5. c \in A <=> e = d
    OBVIOUS
  <2>6. IsFiniteSet(A)
    <3>1. A \in SUBSET Client
      OBVIOUS
    <3> QED
      BY <3>1, AnimationAssumption, FS_Subset
  <2>7. \A g \in B : cli'[g].anim.kind = "slide" /\ cli'[g].listed
    BY <2>1, <2>3, <2>4
  <2>8. defer'[e].pending = Cardinality(B)
    <3> HIDE DEF A, B
    <3>1. CASE e = d
      <4>1. Cardinality(B) = Cardinality(A) - 1
        BY <2>3, <2>5, <2>6, <3>1, FS_RemoveElement
      <4> QED
        BY <2>1, <3>1, <4>1 DEF Released
    <3>2. CASE e # d
      <4>1. B = A
        BY <2>3, <2>5, <3>2
      <4> QED
        BY <2>1, <3>2, <4>1 DEF Released
    <3> QED
      BY <3>1, <3>2
  <2> QED
    BY <2>7, <2>8
<1>10. \A e \in Defer : Has(agenda', Finalizing(e)) => e = d /\ b
  <2> SUFFICES ASSUME NEW e \in Defer, NEW i \in DOMAIN agenda', agenda'[i] = Finalizing(e)
               PROVE  e = d /\ b
    BY DEF Has
  <2>1. Placed(agenda, work, agenda')
    BY <1>1, Places DEF Runs
  <2>2. CASE i \in DOMAIN work /\ agenda'[i] = work[i]
    BY <2>2 DEF Clears, Finalizing, Cleared
  <2>3. CASE ~(i \in DOMAIN work /\ agenda'[i] = work[i])
    <3>1. PICK j \in DOMAIN agenda : j # 1 /\ agenda'[i] = agenda[j]
      BY <2>1, <2>3 DEF Placed
    <3>2. agenda[j].op = "finalize"
      BY <3>1 DEF Finalizing
    <3> QED
      BY <3>1, <3>2, TypeParts DEF InOrder
  <2> QED
    BY <2>2, <2>3
<1>11. b => agenda' # <<>> /\ agenda'[1] = Finalizing(d)
  <2>1. Placed(agenda, work, agenda')
    BY <1>1, Places DEF Runs
  <2>2. 1 \in DOMAIN work
    BY <2>1 DEF Clears, Placed
  <2>3. agenda'[1] = work[1] /\ agenda' # <<>>
    BY <2>1, <2>2 DEF Placed
  <2> QED
    BY <2>3 DEF Clears
<1>12. d # 0 => d \in Defer /\ defer[d].pending \in Nat /\ defer[d].pending # 0 /\ defer[d] # NoDefer
  <2> SUFFICES ASSUME d # 0 PROVE defer[d].pending \in Nat /\ defer[d].pending # 0 /\ defer[d] # NoDefer
    OBVIOUS
  <2> DEFINE A == {g \in Client : cli[g].anim.defer = d}
  <2>1. IsFiniteSet(A) /\ c \in A
    <3>1. A \in SUBSET Client
      OBVIOUS
    <3> QED
      BY <3>1, AnimationAssumption, FS_Subset
  <2>2. defer[d].pending = Cardinality(A)
    BY TypeParts DEF CarriersCounted
  <2> HIDE DEF A
  <2>3. Cardinality(A) \in Nat /\ Cardinality(A) # 0
    BY <2>1, FS_CardinalityType, FS_EmptySet
  <2> QED
    BY <2>2, <2>3 DEF NoDefer
<1>13. DefersNamed'
  <2>1. ASSUME NEW e \in Defer
        PROVE  /\ defer'[e] # NoDefer => defer'[e].win # 0 /\ defer'[e].pane # 0
               /\ defer'[e].pending = 0 => defer'[e] = NoDefer \/ (agenda' # <<>> /\ agenda'[1] = Finalizing(e))
               /\ Has(agenda', Finalizing(e)) => defer'[e].pending = 0 /\ defer'[e] # NoDefer
    <3>1. CASE e = d
      <4> DEFINE n == defer[d].pending
      <4>1. d # 0 /\ defer'[d].pending = n - 1 /\ n \in Nat /\ n # 0
        BY <1>12, <3>1, NoDeferZero DEF Released
      <4> HIDE DEF n
      <4>2. b <=> defer'[d].pending = 0
        BY <4>1
      <4>3. defer'[d].win # 0 /\ defer'[d].pane # 0
        <5>1. d \in Defer /\ defer[d] # NoDefer
          BY <1>12, <4>1
        <5>2. defer[d].win # 0 /\ defer[d].pane # 0
          BY <5>1, TypeParts DEF DefersNamed
        <5> QED
          BY <5>1, <5>2 DEF Released
      <4>4. defer'[d] # NoDefer
        BY <4>3 DEF NoDefer
      <4> QED
        BY <1>10, <1>11, <3>1, <4>2, <4>3, <4>4
    <3>2. CASE e # d
      <4>1. defer'[e] = defer[e]
        BY <3>2 DEF Released
      <4>2. agenda[1] # Finalizing(e)
        BY <1>5 DEF Finalizing
      <4> QED
        BY <1>10, <3>2, <4>1, <4>2, TypeParts DEF DefersNamed
    <3> QED
      BY <3>1, <3>2
  <2>2. ASSUME NEW e \in Defer, NEW g \in Defer, defer'[e] # NoDefer,
               defer'[e].win = defer'[g].win, defer'[e].pane = defer'[g].pane
        PROVE  e = g
    <3>1. defer[e].win = defer[g].win /\ defer[e].pane = defer[g].pane
      BY <2>2 DEF Released
    <3>2. defer[e] # NoDefer
      BY <1>12, <2>2, NoDeferZero DEF Released
    <3> QED
      BY <3>1, <3>2, TypeParts DEF DefersNamed
  <2>3. ASSUME NEW v \in Window, NEW r \in PaneId
        PROVE  /\ win'[v].panes[r] \in {"closing", "revived"}
                    => \E e \in Defer : defer'[e].win = v /\ defer'[e].pane = r
               /\ win'[v].panes[r] = "running" => \A e \in Defer : defer'[e].win # v \/ defer'[e].pane # r
    <3>1. \A e \in Defer : defer'[e].win = defer[e].win /\ defer'[e].pane = defer[e].pane
      BY DEF Released
    <3>2. /\ win[v].panes[r] \in {"closing", "revived"}
                    => \E e \in Defer : defer[e].win = v /\ defer[e].pane = r
          /\ win[v].panes[r] = "running" => \A e \in Defer : defer[e].win # v \/ defer[e].pane # r
      BY TypeParts DEF DefersNamed
    <3> QED
      BY <1>4, <3>1, <3>2
  <2> QED
    BY <2>1, <2>2, <2>3 DEF DefersNamed, Finalizing
<1>14. RefsCounted'
  <2>1. \A w \in Window : Cardinality(Occurrences(agenda', Unref(w)))
                            = Cardinality(Occurrences(agenda, Unref(w)))
    BY <1>1, <1>2, <1>5, PendingRun
  <2>2. \A e \in Defer : defer'[e].win = defer[e].win
    BY DEF Released
  <2> QED
    BY <1>4, <2>1, <2>2, TypeParts, RefsKept
<1>15. PanesKept'
  BY <1>1, <1>2, <1>4, <1>5, TypeParts, PanesRun
<1>16. DrawnKept'
  <2> SUFFICES ASSUME NEW e \in Client, cli'[e].anim.win # 0
               PROVE  win'[cli'[e].anim.win].refs > 0 \/ Found(e, cli'[e].anim.win, agenda')
    BY DEF DrawnKept
  <2>1. e # c /\ cli'[e] = cli[e]
    BY <1>3, <1>8
  <2> DEFINE w == cli[e].anim.win
  <2>2. win[w].refs > 0 \/ Found(e, w, agenda)
    BY <2>1, TypeParts DEF DrawnKept
  <2>3. ASSUME Found(e, w, agenda) PROVE Found(e, w, agenda')
    <3>1. PICK k \in DOMAIN agenda : /\ agenda[k].op = "invalidate" /\ agenda[k].win = w
                                     /\ e \in agenda[k].todo \/ agenda[1] = Clear(e)
      BY <2>3 DEF Found
    <3>2. k # 1 /\ e \in agenda[k].todo
      BY <1>5, <2>1, <3>1
    <3>3. Placed(agenda, work, agenda')
      BY <1>1, Places DEF Runs
    <3>4. PICK i \in DOMAIN agenda' : agenda'[i] = agenda[k]
      BY <3>2, <3>3 DEF Placed
    <3> HIDE DEF w
    <3> QED
      BY <3>1, <3>2, <3>4 DEF Found
  <2> QED
    BY <1>4, <2>1, <2>2, <2>3
<1>17. CurrentWindowLinked'
  BY <1>4, TypeParts, CurrentKept
<1>18. TypesKept'
  BY <1>4, <1>6, TypeParts DEF TypesKept, Released
<1> QED
  BY <1>6, <1>7, <1>9, <1>13, <1>14, <1>15, <1>16, <1>17, <1>18 DEF AnimationCore

(* ClearOverlay keeps the invariant. *)
LEMMA ClearOverlayStep ==
    ASSUME AnimationCore, ClearOverlay
    PROVE  AnimationCore'
<1> DEFINE x == agenda[1]
           c == x.client
           d == cli[c].anim.defer
           b == d # 0 /\ defer'[d].pending <= 0
           a == NoAnimation
           l == [cli[c] EXCEPT !.anim = a]
           work == (IF b THEN <<Finalizing(d)>> ELSE <<>>) \o <<Cleared(c)>>
<1>1. Doing("clear")
  BY DEF ClearOverlay
<1>2. /\ agenda \in Seq(Work) /\ agenda # <<>> /\ Call = x /\ x \in Work /\ x.op = "clear"
  BY <1>1, DoingFacts
<1>3. c \in Client /\ x = Clear(c)
  <2> HIDE DEF x
  <2> QED
    BY <1>2, CallTypes
<1>4. /\ cli' = [cli EXCEPT ![c] = l]
      /\ defer' = IF d = 0 THEN defer ELSE Release(d)
      /\ Continue(work) /\ UNCHANGED <<ses, win, fault, moves>>
  BY <1>2 DEF ClearOverlay, Finalizing, Cleared
<1>5. cli[c] \in ClientType /\ d \in Defer \cup {0}
  BY <1>3, TypeParts, ClientFields
<1>6. Released(d)
  <2> HIDE DEF d
  <2> QED
    BY <1>4, <1>5, TypeParts, ReleasedFacts
<1>7. a \in AnimationType
  BY DEF NoAnimation, AnimationType
<1> HIDE DEF a
<1>8. /\ l \in ClientType /\ l.listed = cli[c].listed /\ l.session = cli[c].session
      /\ l.sized = cli[c].sized /\ l.overlay = cli[c].overlay /\ l.anim = a
  BY <1>5, <1>7, ClientAnim
<1>9. b \in BOOLEAN /\ (b <=> d # 0 /\ defer'[d].pending <= 0) /\ (b => d \in Defer)
  BY <1>5
<1>10. work = (IF b THEN <<Finalizing(d)>> ELSE <<>>) \o <<Cleared(c)>>
  OBVIOUS
<1>11. x = agenda[1] /\ d = cli[c].anim.defer /\ l.anim = NoAnimation
  BY <1>8 DEF a
<1> HIDE DEF l, b, work, x, d
<1>12. Clears(work, c, d, b)
  <2> HIDE DEF c
  <2> QED
    BY <1>3, <1>9, <1>10, ClearsFacts
<1>13. agenda' = work \o Tail(agenda)
  BY <1>4 DEF Continue
<1>14. agenda[1] = Clear(c)
  BY <1>3, <1>11
<1> HIDE DEF c
<1> QED
  BY <1>2, <1>3, <1>4, <1>5, <1>6, <1>8, <1>9, <1>11, <1>12, <1>13, <1>14, ClearOverlayKept

----------------------------------------------------------------------------
(* A reference is dropped, and a window without one destroyed.              *)

LEMMA SameChange ==
    ASSUME cli \in [Client -> ClientType], cli' = cli
    PROVE  MovesTo({}) /\ ClientsChange /\ SameSessions /\ HasRefs({})
BY SameClients, MovedChange DEF MovesTo, HasRefs

(* A call runs that concerns no client. *)
LEMMA PlainRun ==
    ASSUME AnimationCore, ClientsChange, NEW work, Runs(work), Plain(work),
           agenda[1].op \notin {"clear", "cleared"}
    PROVE  OverlaysOwned'
BY TypeParts, PlainAdmits, OverlaysKept

(* A window whose reference is to be dropped has one. *)
LEMMA RefsDropped ==
    ASSUME AnimationCore, NEW w \in Window, agenda # <<>>, agenda[1] = Unref(w)
    PROVE  win[w].refs \in Nat /\ win[w].refs # 0 /\ win[w].refs - 1 \in Nat
<1> DEFINE b == win[w].refs
           l == Cardinality(Linking(w))
           c == win[w].noted
           f == Cardinality(Deferred(w))
           o == Cardinality(Occurrences(agenda, Unref(w)))
           t == Cardinality(Occurrences(Tail(agenda), Unref(w)))
<1>1. b = l + c + f + o
  BY TypeParts DEF RefsCounted
<1>2. l \in Nat /\ f \in Nat /\ c \in Nat /\ b \in Nat
  BY TypeParts, CardinalitiesNat, WindowFields
<1>3. o = t + 1 /\ t \in Nat
  BY TypeParts, OccurrencesPopped DEF CountedWith
<1> HIDE DEF b, l, c, f, o, t
<1>4. b \in Nat /\ b # 0 /\ b - 1 \in Nat
  BY <1>1, <1>2, <1>3
<1> QED
  BY <1>4 DEF b

(* Only the reference counts change, for a call that comes to be made.      *)
LEMMA RefsRun ==
    ASSUME AnimationCore, NEW work, Runs(work), NoUnref(work), NEW w \in Window,
           agenda[1] = Unref(w), CountsSet(w, win[w].refs - 1, win[w].noted),
           LinksSame, defer' = defer
    PROVE  RefsCounted'
<1> SUFFICES ASSUME NEW v \in Window
    PROVE  win'[v].refs = Cardinality(Linking(v)') + win'[v].noted + Cardinality(Deferred(v)')
                          + Cardinality(Occurrences(agenda', Unref(v)))
  BY DEF RefsCounted, Unref
<1> DEFINE b == win[v].refs
           l == Cardinality(Linking(v))
           c == win[v].noted
           f == Cardinality(Deferred(v))
           o == Cardinality(Occurrences(agenda, Unref(v)))
           t == Cardinality(Occurrences(Tail(agenda), Unref(v)))
           y == Unref(v)
           x == agenda[1]
<1>1. Linking(v)' = Linking(v) /\ Deferred(v)' = Deferred(v)
  BY LinkingSame DEF Deferred
<1>2. b = l + c + f + o /\ l \in Nat /\ f \in Nat /\ c \in Nat /\ b \in Nat
  BY TypeParts, CardinalitiesNat, WindowFields DEF RefsCounted
<1>3. x = y <=> v = w
  BY DEF Unref
<1>4. agenda \in Seq(Work) /\ agenda # <<>> /\ work \in Seq(Work) /\ agenda' = work \o Tail(agenda)
      /\ Tail(agenda) \in Seq(Work)
  BY DEF Runs
<1>5. \A k \in DOMAIN work : work[k] # y
  BY DEF NoUnref, Unref
<1>6. Cardinality(Occurrences(agenda', y)) = t
  <2> DEFINE u == Tail(agenda)
  <2>1. u \in Seq(Work) /\ work \in Seq(Work) /\ agenda' = work \o u
    BY <1>4
  <2> HIDE DEF u, y
  <2>2. Cardinality(Occurrences(work \o u, y)) = Cardinality(Occurrences(u, y))
    BY <1>5, <2>1, OccurrencesBehind
  <2> QED
    BY <2>1, <2>2 DEF u, y
<1>7. /\ t \in Nat /\ o \in Nat
      /\ x = y => o = t + 1
      /\ x # y => o = t
  <2> HIDE DEF y
  <2>1. CountedWith(agenda, agenda[1], Tail(agenda), y)
    BY <1>4, OccurrencesPopped
  <2> QED
    BY <2>1 DEF CountedWith, y
<1>8. win'[v].noted = c /\ win'[v].refs = IF v = w THEN b - 1 ELSE b
  BY DEF CountsSet
<1> HIDE DEF b, l, c, f, o, t, y, x
<1>9. CASE v = w
  <2>1. b - 1 = l + c + f + t
    BY <1>2, <1>3, <1>7, <1>9
  <2> QED
    BY <1>1, <1>6, <1>8, <1>9, <2>1 DEF l, f, y
<1>10. CASE v # w
  <2>1. b = l + c + f + t
    BY <1>2, <1>3, <1>7, <1>10
  <2> QED
    BY <1>1, <1>6, <1>8, <1>10, <2>1 DEF l, f, y
<1> QED
  BY <1>9, <1>10

(* What is drawn is drawn by a client that is on the list. *)
LEMMA DrawnListed ==
    ASSUME AnimationCore, NEW c \in Client, cli[c].anim.win # 0
    PROVE  /\ cli[c].listed /\ cli[c].overlay = "animation" /\ cli[c].anim.kind # "none"
           /\ ~Has(agenda, Cleared(c)) /\ cli[c].anim.win \in Window
<1>1. Owns(cli[c], c, agenda)
  BY TypeParts DEF OverlaysOwned
<1>2. cli[c].anim.kind # "none"
  BY <1>1 DEF Owns, NoAnimation
<1>3. cli[c].anim.win \in Window
  BY TypeParts, ClientFields
<1> QED
  BY <1>1, <1>2, <1>3 DEF Owns

(* A call, if b. *)
LEMMA OnlyIf ==
    ASSUME NEW S, NEW b \in BOOLEAN, NEW x \in S, NEW work, work = IF b THEN <<x>> ELSE <<>>
    PROVE  /\ work \in Seq(S)
           /\ \A i \in DOMAIN work : work[i] = x /\ b /\ i = 1
           /\ b => 1 \in DOMAIN work /\ work[1] = x
<1>1. CASE b
  <2>1. work = <<x>>
    BY <1>1
  <2>2. work \in Seq(S) /\ work[1] = x /\ DOMAIN work = {1}
    BY <2>1, OneItem
  <2> QED
    BY <1>1, <2>2
<1>2. CASE ~b
  <2>1. work = <<>>
    BY <1>2
  <2> QED
    BY <1>2, <2>1
<1> QED
  BY <1>1, <1>2

(* The window w loses a reference; with the last it is to be destroyed. *)
LEMMA RemoveRefKept ==
    ASSUME AnimationCore, NEW w \in Window, agenda # <<>>, agenda[1] = Unref(w),
           win' = [win EXCEPT ![w].refs = @ - 1],
           NEW x, x = [op |-> "invalidate", win |-> w, todo |-> {c \in Client : cli[c].listed}],
           NEW work, work = IF win[w].refs = 1 THEN <<x>> ELSE <<>>,
           agenda' = work \o Tail(agenda), UNCHANGED <<cli, ses, defer, fault, moves>>
    PROVE  AnimationCore'
<1>1. /\ x \in Work /\ x.op = "invalidate" /\ x.win = w
      /\ \A c \in Client : cli[c].listed => c \in x.todo
  BY WorkFacts
<1>2. agenda[1].op = "unref" /\ agenda[1].win = w
  BY DEF Unref
<1>3. /\ work \in Seq(Work)
      /\ \A i \in DOMAIN work : work[i] = x /\ win[w].refs = 1
      /\ win[w].refs = 1 => 1 \in DOMAIN work /\ work[1] = x
  <2> DEFINE b == win[w].refs = 1
  <2>1. b \in BOOLEAN /\ work = IF b THEN <<x>> ELSE <<>>
    OBVIOUS
  <2>2. x \in Work
    BY <1>1
  <2> HIDE DEF b
  <2>3. /\ work \in Seq(Work)
        /\ \A i \in DOMAIN work : work[i] = x /\ b /\ i = 1
        /\ b => 1 \in DOMAIN work /\ work[1] = x
    BY ONLY <2>1, <2>2, OnlyIf
  <2> QED
    BY <2>3 DEF b
<1>4. Runs(work)
  BY <1>3, TypeParts DEF Runs
<1>5. NoUnref(work) /\ NoFinalize(work) /\ Plain(work) /\ Fits(agenda[1], work)
  BY <1>1, <1>2, <1>3 DEF NoUnref, NoFinalize, Plain, Fits
<1>6. Placed(agenda, work, agenda') /\ agenda' \in Seq(Work)
  BY <1>4, Places DEF Runs
<1>7. InOrder(agenda')
  BY <1>4, <1>5, TypeParts, OrderKept DEF Runs
<1>8. win[w].refs \in Nat /\ win[w].refs # 0 /\ win[w].refs - 1 \in Nat
  BY RefsDropped
<1>9. CountsSet(w, win[w].refs - 1, win[w].noted)
  <2> DEFINE a == win[w].panes
             b == win[w].refs
             n == win[w].noted
             m == b - 1
  <2>1. win' = [win EXCEPT ![w] = [win[w] EXCEPT !.refs = m]] /\ win[w] = WindowWith(a, b, n)
        /\ m \in Nat /\ n \in Nat
    BY <1>8, TypeParts, WindowFields
  <2> HIDE DEF a, b, n, m
  <2>2. [win[w] EXCEPT !.refs = m] = WindowWith(a, m, n)
    BY <2>1 DEF WindowWith
  <2>3. win' = [win EXCEPT ![w] = WindowWith(win[w].panes, m, n)]
    BY <2>1, <2>2 DEF a
  <2>4. CountsSet(w, m, n)
    BY <2>1, <2>3, TypeParts, CountsSetFacts
  <2> QED
    BY <2>4 DEF m, b, n
<1>10. /\ MovesTo({}) /\ ClientsChange /\ SameSessions /\ LinksSame /\ ses' = ses
       /\ defer' = defer /\ cli' = cli
  BY TypeParts, SameChange DEF LinksSame
<1>11. RefsCounted'
  BY <1>2, <1>4, <1>5, <1>9, <1>10, RefsRun
<1>12. OverlaysOwned'
  BY <1>2, <1>4, <1>5, <1>10, PlainRun
<1>13. DefersNamed'
  <2>1. \A v \in Window, p \in PaneId : win'[v].panes[p] \in {win[v].panes[p], "none"}
    BY <1>9 DEF CountsSet
  <2>2. NoFinalize(agenda')
    BY <1>4, <1>5, FinalizeGone
  <2> QED
    BY <1>2, <1>10, <2>1, <2>2, TypeParts, DefersKept
<1>14. \A v \in Window : /\ v # w => win'[v].refs = win[v].refs
                         /\ win'[w].refs = 0 <=> win[w].refs = 1
                         /\ Panes(v)' = Panes(v) /\ Linking(v)' = Linking(v)
  <2>1. win'[w].refs = 0 <=> win[w].refs = 1
    BY <1>8, <1>9 DEF CountsSet
  <2>2. \A v \in Window : Panes(v)' = Panes(v)
    BY <1>9 DEF CountsSet, Panes
  <2>3. \A v \in Window : v # w => win'[v].refs = win[v].refs
    BY <1>9 DEF CountsSet
  <2> QED
    BY <1>10, <2>1, <2>2, <2>3, LinkingSame
<1>15. win[w].refs = 1 => 1 \in DOMAIN agenda' /\ agenda'[1] = x
  BY <1>3, <1>6 DEF Placed
<1>16. \A k \in DOMAIN agenda : k # 1 => \E i \in DOMAIN agenda' : agenda'[i] = agenda[k]
  BY <1>6 DEF Placed
<1>17. \A i \in DOMAIN agenda' : \/ agenda'[i] = x /\ win[w].refs = 1
                                 \/ \E k \in DOMAIN agenda : k # 1 /\ agenda'[i] = agenda[k]
  <2> SUFFICES ASSUME NEW i \in DOMAIN agenda'
               PROVE  \/ agenda'[i] = x /\ win[w].refs = 1
                      \/ \E k \in DOMAIN agenda : k # 1 /\ agenda'[i] = agenda[k]
    OBVIOUS
  <2>1. \/ i \in DOMAIN work /\ agenda'[i] = work[i]
        \/ \E j \in DOMAIN agenda : j # 1 /\ agenda'[i] = agenda[j]
    <3>1. \A k \in DOMAIN agenda' :
             \/ k \in DOMAIN work /\ agenda'[k] = work[k]
             \/ \E j \in DOMAIN agenda : j # 1 /\ agenda'[k] = agenda[j]
      BY ONLY <1>6 DEF Placed
    <3> QED
      BY <3>1
  <2>2. CASE i \in DOMAIN work /\ agenda'[i] = work[i]
    BY <1>3, <2>2
  <2>3. CASE \E j \in DOMAIN agenda : j # 1 /\ agenda'[i] = agenda[j]
    BY <2>3
  <2> QED
    BY <2>1, <2>2, <2>3
<1>18. PanesKept'
  <2> SUFFICES ASSUME NEW v \in Window
      PROVE  /\ win'[v].refs = 0 =>
                  \/ Panes(v)' = {}
                  \/ \E k \in DOMAIN agenda' : agenda'[k].op = "invalidate" /\ agenda'[k].win = v
             /\ \A k \in DOMAIN agenda' : agenda'[k].op = "invalidate" /\ agenda'[k].win = v => win'[v].refs = 0
             /\ ~(Linking(v)' # {} /\ Panes(v)' = {})
    BY DEF PanesKept
  <2>1. /\ win[v].refs = 0 =>
             \/ Panes(v) = {}
             \/ \E k \in DOMAIN agenda : agenda[k].op = "invalidate" /\ agenda[k].win = v
        /\ \A k \in DOMAIN agenda : agenda[k].op = "invalidate" /\ agenda[k].win = v => win[v].refs = 0
        /\ ~(Linking(v) # {} /\ Panes(v) = {})
    BY <1>2, TypeParts DEF PanesKept
  <2>2. ASSUME win'[v].refs = 0
        PROVE  \/ Panes(v)' = {}
               \/ \E k \in DOMAIN agenda' : agenda'[k].op = "invalidate" /\ agenda'[k].win = v
    <3>1. CASE v = w
      BY <1>1, <1>14, <1>15, <2>2, <3>1
    <3>2. CASE v # w
      <4>1. win[v].refs = 0
        BY <1>14, <2>2, <3>2
      <4>2. CASE Panes(v) = {}
        BY <1>14, <4>2
      <4>3. CASE \E k \in DOMAIN agenda : agenda[k].op = "invalidate" /\ agenda[k].win = v
        <5>1. PICK k \in DOMAIN agenda : agenda[k].op = "invalidate" /\ agenda[k].win = v
          BY <4>3
        <5>2. k # 1
          BY <1>2, <5>1
        <5>3. PICK i \in DOMAIN agenda' : agenda'[i] = agenda[k]
          BY <1>16, <5>2
        <5> QED
          BY <5>1, <5>3
      <4> QED
        BY <2>1, <4>1, <4>2, <4>3
    <3> QED
      BY <3>1, <3>2
  <2>3. ASSUME NEW i \in DOMAIN agenda', agenda'[i].op = "invalidate", agenda'[i].win = v
        PROVE  win'[v].refs = 0
    <3>1. CASE agenda'[i] = x /\ win[w].refs = 1
      BY <1>1, <1>14, <2>3, <3>1
    <3>2. CASE \E k \in DOMAIN agenda : k # 1 /\ agenda'[i] = agenda[k]
      <4>1. win[v].refs = 0
        BY <2>1, <2>3, <3>2
      <4>2. v # w
        BY <1>8, <4>1
      <4> QED
        BY <1>14, <4>1, <4>2
    <3> QED
      BY <1>17, <3>1, <3>2
  <2> QED
    BY <1>14, <2>1, <2>2, <2>3
<1>19. DrawnKept'
  <2> SUFFICES ASSUME NEW c \in Client, cli[c].anim.win # 0
               PROVE  win'[cli[c].anim.win].refs > 0 \/ Found(c, cli[c].anim.win, agenda')
    BY <1>10 DEF DrawnKept
  <2> DEFINE v == cli[c].anim.win
  <2>1. v \in Window /\ cli[c].listed
    BY DrawnListed
  <2>2. win[v].refs > 0 \/ Found(c, v, agenda)
    BY TypeParts DEF DrawnKept
  <2> HIDE DEF v
  <2>3. CASE v = w
    <3>1. CASE win[w].refs = 1
      <4>1. 1 \in DOMAIN agenda' /\ agenda'[1].op = "invalidate" /\ agenda'[1].win = v /\ c \in agenda'[1].todo
        BY <1>1, <1>15, <2>1, <2>3, <3>1
      <4>2. Found(c, v, agenda')
        BY <4>1 DEF Found
      <4> QED
        BY <4>2 DEF v
    <3>2. CASE win[w].refs # 1
      <4>1. win'[v].refs > 0
        BY <1>8, <1>9, <2>3, <3>2 DEF CountsSet
      <4> QED
        BY <4>1 DEF v
    <3> QED
      BY <3>1, <3>2
  <2>4. CASE v # w /\ win[v].refs > 0
    <3>1. win'[v].refs > 0
      BY <1>14, <2>1, <2>4
    <3> QED
      BY <3>1 DEF v
  <2>5. CASE Found(c, v, agenda)
    <3>1. PICK k \in DOMAIN agenda : /\ agenda[k].op = "invalidate" /\ agenda[k].win = v
                                     /\ c \in agenda[k].todo \/ agenda[1] = Clear(c)
      BY <2>5 DEF Found
    <3>2. agenda[1] # Clear(c)
      BY <1>2 DEF Clear
    <3>3. k # 1 /\ c \in agenda[k].todo
      BY <1>2, <3>1, <3>2
    <3>4. PICK i \in DOMAIN agenda' : agenda'[i] = agenda[k]
      BY <1>16, <3>3
    <3>5. Found(c, v, agenda')
      BY <3>1, <3>3, <3>4 DEF Found
    <3> QED
      BY <3>5 DEF v
  <2> QED
    BY <2>2, <2>3, <2>4, <2>5
<1>20. CarriersCounted'
  BY <1>10, TypeParts DEF CarriersCounted
<1>21. CurrentWindowLinked'
  BY <1>10, TypeParts, CurrentKept
<1>22. TypesKept'
  BY <1>6, <1>9, TypeParts DEF TypesKept, CountsSet
<1> QED
  BY <1>7, <1>11, <1>12, <1>13, <1>18, <1>19, <1>20, <1>21, <1>22 DEF AnimationCore

(* RemoveRef keeps the invariant. *)
LEMMA RemoveRefStep ==
    ASSUME AnimationCore, RemoveRef
    PROVE  AnimationCore'
<1> DEFINE x == agenda[1]
           w == x.win
           y == [op |-> "invalidate", win |-> w, todo |-> {c \in Client : cli[c].listed}]
           work == IF win[w].refs = 1 THEN <<y>> ELSE <<>>
<1>1. Doing("unref")
  BY DEF RemoveRef
<1>2. /\ agenda \in Seq(Work) /\ agenda # <<>> /\ Call = x /\ x \in Work /\ x.op = "unref"
  BY <1>1, DoingFacts
<1>3. w \in Window /\ x = Unref(w)
  <2> HIDE DEF x
  <2> QED
    BY <1>2, CallTypes
<1>4. /\ win' = [win EXCEPT ![w].refs = @ - 1] /\ agenda' = work \o Tail(agenda)
      /\ UNCHANGED <<cli, ses, defer, fault, moves>>
  BY <1>2 DEF RemoveRef, Continue
<1> HIDE DEF w
<1> QED
  BY <1>2, <1>3, <1>4, RemoveRefKept

----------------------------------------------------------------------------
(* A window is destroyed: every client is asked for the animation it shows. *)

Invalidating(w, T) == [op |-> "invalidate", win |-> w, todo |-> T]

(* Every call that is still to be made, but for the running one, and those  *)
(* of work.                                                                 *)
Queued(work) ==
    /\ agenda' \in Seq(Work)
    /\ \A i \in DOMAIN work : i \in DOMAIN agenda' /\ agenda'[i] = work[i]
    /\ \A k \in DOMAIN agenda : k # 1 => \E i \in DOMAIN agenda' : agenda'[i] = agenda[k]
    /\ \A i \in DOMAIN agenda' : \/ i \in DOMAIN work /\ agenda'[i] = work[i]
                                 \/ \E k \in DOMAIN agenda : k # 1 /\ agenda'[i] = agenda[k]

(* The calls that are still to be made, once a call has run. *)
LEMMA RunsQueued ==
    ASSUME NEW work, Runs(work)
    PROVE  Queued(work)
<1>1. Placed(agenda, work, agenda') /\ agenda' \in Seq(Work)
  BY Places DEF Runs
<1>2. \A k \in DOMAIN agenda : k # 1 => \E i \in DOMAIN agenda' : agenda'[i] = agenda[k]
  BY <1>1 DEF Placed
<1>3. \A i \in DOMAIN agenda' : \/ i \in DOMAIN work /\ agenda'[i] = work[i]
                                \/ \E k \in DOMAIN agenda : k # 1 /\ agenda'[i] = agenda[k]
  BY <1>1 DEF Placed
<1>4. \A i \in DOMAIN work : i \in DOMAIN agenda' /\ agenda'[i] = work[i]
  BY <1>1 DEF Placed
<1> QED
  BY <1>1, <1>2, <1>3, <1>4 DEF Queued

(* Every client has been asked: the panes of w go. *)
LEMMA DestroyedKept ==
    ASSUME AnimationCore, NEW w \in Window, agenda # <<>>, agenda[1] = Invalidating(w, {}),
           win' \in [Window -> WindowType], RefsSame,
           \A v \in Window : v # w => win'[v].panes = win[v].panes,
           \A p \in PaneId : win'[w].panes[p] = "none",
           agenda' = <<>> \o Tail(agenda), UNCHANGED <<cli, ses, defer, fault, moves>>
    PROVE  AnimationCore'
<1>1. agenda[1].op = "invalidate" /\ agenda[1].win = w /\ agenda[1].todo = {}
  BY DEF Invalidating
<1>2. Runs(<<>>)
  BY NoCalls, TypeParts DEF Runs
<1>3. NoUnref(<<>>) /\ NoFinalize(<<>>) /\ Plain(<<>>) /\ Fits(agenda[1], <<>>) /\ <<>> \in Seq(Work)
  BY NothingMore, EmptyAgenda DEF Calm
<1>4. Queued(<<>>)
  BY <1>2, RunsQueued
<1>5. InOrder(agenda')
  BY <1>3, TypeParts, OrderKept
<1>6. /\ MovesTo({}) /\ ClientsChange /\ SameSessions /\ LinksSame /\ ses' = ses
      /\ defer' = defer /\ cli' = cli
  BY TypeParts, SameChange DEF LinksSame
<1>7. 1 \in DOMAIN agenda
  BY TypeParts
<1>8. win[w].refs = 0
  BY <1>1, <1>7, TypeParts DEF PanesKept
<1>9. Linking(w) = {}
  <2> SUFFICES ASSUME NEW s \in Session, w \in ses[s].linked PROVE FALSE
    BY DEF Linking
  <2>1. win[w].refs > 0
    BY TypeParts, LinkedHasRef
  <2> QED
    BY <1>8, <2>1
<1>10. \A v \in Window : Linking(v)' = Linking(v) /\ (v # w => Panes(v)' = Panes(v)) /\ Panes(w)' = {}
  <2>1. \A v \in Window : v # w => Panes(v)' = Panes(v)
    BY DEF Panes
  <2>2. Panes(w)' = {}
    BY DEF Panes
  <2> QED
    BY <1>6, <2>1, <2>2, LinkingSame
<1>11. RefsCounted'
  <2>1. \A v \in Window : Cardinality(Occurrences(agenda', Unref(v))) = Cardinality(Occurrences(agenda, Unref(v)))
    BY <1>1, <1>2, <1>3, PendingRun
  <2> QED
    BY <1>6, <2>1, TypeParts, RefsKept DEF RefsSame
<1>12. OverlaysOwned'
  BY <1>1, <1>2, <1>3, <1>6, PlainRun
<1>13. DefersNamed'
  <2>1. \A v \in Window, p \in PaneId : win'[v].panes[p] \in {win[v].panes[p], "none"}
    OBVIOUS
  <2>2. NoFinalize(agenda')
    BY <1>2, <1>3, FinalizeGone
  <2> QED
    BY <1>1, <1>6, <2>1, <2>2, TypeParts, DefersKept
<1>14. PanesKept'
  <2> SUFFICES ASSUME NEW v \in Window
      PROVE  /\ win'[v].refs = 0 =>
                  \/ Panes(v)' = {}
                  \/ \E k \in DOMAIN agenda' : agenda'[k].op = "invalidate" /\ agenda'[k].win = v
             /\ \A k \in DOMAIN agenda' : agenda'[k].op = "invalidate" /\ agenda'[k].win = v => win'[v].refs = 0
             /\ ~(Linking(v)' # {} /\ Panes(v)' = {})
    BY DEF PanesKept
  <2>1. /\ win[v].refs = 0 =>
             \/ Panes(v) = {}
             \/ \E k \in DOMAIN agenda : agenda[k].op = "invalidate" /\ agenda[k].win = v
        /\ \A k \in DOMAIN agenda : agenda[k].op = "invalidate" /\ agenda[k].win = v => win[v].refs = 0
        /\ ~(Linking(v) # {} /\ Panes(v) = {})
    BY <1>1, TypeParts DEF PanesKept
  <2>2. win'[v].refs = win[v].refs
    BY DEF RefsSame
  <2>3. ASSUME win'[v].refs = 0
        PROVE  \/ Panes(v)' = {}
               \/ \E k \in DOMAIN agenda' : agenda'[k].op = "invalidate" /\ agenda'[k].win = v
    <3>1. CASE v = w
      BY <1>10, <3>1
    <3>2. CASE v # w /\ Panes(v) = {}
      BY <1>10, <3>2
    <3>3. CASE v # w /\ \E k \in DOMAIN agenda : agenda[k].op = "invalidate" /\ agenda[k].win = v
      <4>1. PICK k \in DOMAIN agenda : agenda[k].op = "invalidate" /\ agenda[k].win = v
        BY <3>3
      <4>2. k # 1
        BY <1>1, <3>3, <4>1
      <4>3. PICK i \in DOMAIN agenda' : agenda'[i] = agenda[k]
        BY <1>4, <4>2 DEF Queued
      <4> QED
        BY <4>1, <4>3
    <3> QED
      BY <2>1, <2>2, <2>3, <3>1, <3>2, <3>3
  <2>4. ASSUME NEW i \in DOMAIN agenda', agenda'[i].op = "invalidate", agenda'[i].win = v
        PROVE  win'[v].refs = 0
    <3>1. PICK k \in DOMAIN agenda : agenda'[i] = agenda[k]
      BY <1>4, NoCalls DEF Queued
    <3> QED
      BY <2>1, <2>2, <2>4, <3>1
  <2>5. ~(Linking(v)' # {} /\ Panes(v)' = {})
    <3>1. CASE v = w
      BY <1>9, <1>10, <3>1
    <3>2. CASE v # w
      BY <1>10, <2>1, <3>2
    <3> QED
      BY <3>1, <3>2
  <2> QED
    BY <2>3, <2>4, <2>5
<1>15. DrawnKept'
  <2> SUFFICES ASSUME NEW c \in Client, cli[c].anim.win # 0
               PROVE  win'[cli[c].anim.win].refs > 0 \/ Found(c, cli[c].anim.win, agenda')
    BY <1>6 DEF DrawnKept
  <2> DEFINE v == cli[c].anim.win
  <2>1. v \in Window
    BY DrawnListed
  <2>2. win[v].refs > 0 \/ Found(c, v, agenda)
    BY TypeParts DEF DrawnKept
  <2> HIDE DEF v
  <2>3. CASE win[v].refs > 0
    <3>1. win'[v].refs > 0
      BY <2>1, <2>3 DEF RefsSame
    <3> QED
      BY <3>1 DEF v
  <2>4. CASE Found(c, v, agenda)
    <3>1. PICK k \in DOMAIN agenda : /\ agenda[k].op = "invalidate" /\ agenda[k].win = v
                                     /\ c \in agenda[k].todo \/ agenda[1] = Clear(c)
      BY <2>4 DEF Found
    <3>2. agenda[1] # Clear(c)
      BY <1>1 DEF Clear
    <3>3. k # 1 /\ c \in agenda[k].todo
      BY <1>1, <3>1, <3>2
    <3>4. PICK i \in DOMAIN agenda' : agenda'[i] = agenda[k]
      BY <1>4, <3>3 DEF Queued
    <3>5. Found(c, v, agenda')
      BY <3>1, <3>3, <3>4 DEF Found
    <3> QED
      BY <3>5 DEF v
  <2> QED
    BY <2>2, <2>3, <2>4
<1>16. CarriersCounted'
  BY <1>6, TypeParts, CarriersSame
<1>17. CurrentWindowLinked'
  BY <1>6, TypeParts, CurrentKept
<1>18. TypesKept'
  BY <1>4, TypeParts DEF TypesKept, Queued
<1> QED
  BY <1>5, <1>11, <1>12, <1>13, <1>14, <1>15, <1>16, <1>17, <1>18 DEF AnimationCore

(* The calls of asking one client. *)
Asks(work, c, w, T, b) ==
    /\ work \in Seq(Work)
    /\ \A i \in DOMAIN work : \/ work[i] = Clear(c) /\ i = 1 /\ b
                              \/ work[i] = Invalidating(w, T)
    /\ b => 1 \in DOMAIN work /\ work[1] = Clear(c)
    /\ \E i \in DOMAIN work : work[i] = Invalidating(w, T)

(* Asking one client clears its overlay if it draws w. *)
LEMMA AsksFacts ==
    ASSUME NEW c \in Client, NEW w \in Window, NEW T \in SUBSET Client, NEW b \in BOOLEAN,
           NEW work, work = (IF b THEN <<Clear(c)>> ELSE <<>>) \o <<Invalidating(w, T)>>
    PROVE  Asks(work, c, w, T, b)
<1> DEFINE y == Clear(c)
           z == Invalidating(w, T)
<1>1. y \in Work /\ z \in Work
  BY WorkFacts DEF Invalidating
<1>2. work = (IF b THEN <<y>> ELSE <<>>) \o <<z>>
  OBVIOUS
<1> HIDE DEF y, z
<1>3. work \in Seq(Work) /\ Perhaps(work, b, y, z)
  BY <1>1, <1>2, PerhapsFacts
<1>4. CASE b
  <2>1. work[1] = y /\ work[2] = z /\ DOMAIN work = {1, 2}
    BY <1>3, <1>4 DEF Perhaps
  <2> QED
    BY <1>3, <1>4, <2>1 DEF Asks, y, z
<1>5. CASE ~b
  <2>1. work[1] = z /\ DOMAIN work = {1}
    BY <1>3, <1>5 DEF Perhaps
  <2> QED
    BY <1>3, <1>5, <2>1 DEF Asks, y, z
<1> QED
  BY <1>4, <1>5

(* One client is asked for the animation of w. *)
LEMMA AskedKept ==
    ASSUME AnimationCore, NEW w \in Window, NEW T \in SUBSET Client, NEW c \in T, agenda # <<>>,
           agenda[1] = Invalidating(w, T), NEW b \in BOOLEAN, b <=> cli[c].anim.win = w,
           NEW work, Asks(work, c, w, T \ {c}, b),
           agenda' = work \o Tail(agenda), UNCHANGED <<cli, ses, win, defer, fault, moves>>
    PROVE  AnimationCore'
<1>1. agenda[1].op = "invalidate" /\ agenda[1].win = w /\ agenda[1].todo = T
  BY DEF Invalidating
<1>2. Runs(work)
  BY TypeParts DEF Runs, Asks
<1>3. /\ NoUnref(work) /\ NoFinalize(work) /\ Fits(agenda[1], work)
      /\ \A i \in DOMAIN work : /\ work[i].op \in {"clear", "invalidate"}
                                /\ work[i].op = "invalidate" => work[i].win = w
                                /\ work[i].op = "clear" => b /\ work[i] = Clear(c)
  <2>1. \A i \in DOMAIN work : \/ work[i].op = "clear" /\ work[i] = Clear(c) /\ i = 1 /\ b
                               \/ work[i].op = "invalidate" /\ work[i].win = w
    BY DEF Asks, Invalidating, Clear
  <2> QED
    BY <1>1, <2>1 DEF NoUnref, NoFinalize, Fits
<1>4. Queued(work)
  BY <1>2, RunsQueued
<1>5. InOrder(agenda')
  BY <1>2, <1>3, TypeParts, OrderKept DEF Runs
<1>6. /\ MovesTo({}) /\ ClientsChange /\ SameSessions /\ LinksSame /\ ses' = ses
      /\ defer' = defer /\ cli' = cli /\ win' = win
  BY TypeParts, SameChange DEF LinksSame
<1>7. 1 \in DOMAIN agenda
  BY TypeParts
<1>8. win[w].refs = 0
  BY <1>1, <1>7, TypeParts DEF PanesKept
<1>9. RefsCounted'
  <2>1. \A v \in Window : Cardinality(Occurrences(agenda', Unref(v))) = Cardinality(Occurrences(agenda, Unref(v)))
    BY <1>1, <1>2, <1>3, PendingRun
  <2> QED
    BY <1>6, <2>1, TypeParts, RefsKept
<1>10. OverlaysOwned'
  <2>1. ASSUME NEW e \in Client
        PROVE  Admits(cli'[e], e, agenda, work)
    <3>1. \A i \in DOMAIN work : work[i] # Cleared(e) /\ work[i].op \notin {"set", "lost", "picture"}
      BY <1>3 DEF Cleared
    <3>2. ASSUME Has(work, Clear(e))
          PROVE  cli[e].overlay # "none" /\ ~Has(agenda, Cleared(e))
      <4>1. b /\ Clear(c) = Clear(e)
        BY <1>3, <3>2 DEF Has, Clear
      <4>2. c = e
        BY <4>1 DEF Clear
      <4>3. cli[e].anim.win # 0
        BY <4>1, <4>2, AnimationAssumption
      <4> QED
        BY <4>3, DrawnListed
    <3> QED
      BY <1>6, <3>1, <3>2 DEF Admits
  <2> QED
    BY <1>1, <1>2, <1>6, <2>1, TypeParts, OverlaysKept
<1>11. DefersNamed'
  <2>1. \A v \in Window, p \in PaneId : win'[v].panes[p] \in {win[v].panes[p], "none"}
    BY <1>6
  <2>2. NoFinalize(agenda')
    BY <1>2, <1>3, FinalizeGone
  <2> QED
    BY <1>1, <1>6, <2>1, <2>2, TypeParts, DefersKept
<1>12. \A k \in DOMAIN agenda : agenda[k].op = "invalidate" =>
          \E i \in DOMAIN agenda' : agenda'[i].op = "invalidate" /\ agenda'[i].win = agenda[k].win
  <2> SUFFICES ASSUME NEW k \in DOMAIN agenda, agenda[k].op = "invalidate"
               PROVE  \E i \in DOMAIN agenda' : agenda'[i].op = "invalidate" /\ agenda'[i].win = agenda[k].win
    OBVIOUS
  <2>1. CASE k = 1
    <3>1. PICK i \in DOMAIN work : work[i] = Invalidating(w, T \ {c})
      BY DEF Asks
    <3>2. i \in DOMAIN agenda' /\ agenda'[i] = Invalidating(w, T \ {c})
      BY <1>4, <3>1 DEF Queued
    <3> QED
      BY <1>1, <2>1, <3>2 DEF Invalidating
  <2>2. CASE k # 1
    <3>1. PICK i \in DOMAIN agenda' : agenda'[i] = agenda[k]
      BY <1>4, <2>2 DEF Queued
    <3> QED
      BY <3>1
  <2> QED
    BY <2>1, <2>2
<1>13. PanesKept'
  <2> SUFFICES ASSUME NEW v \in Window
      PROVE  /\ win[v].refs = 0 =>
                  \/ Panes(v) = {}
                  \/ \E k \in DOMAIN agenda' : agenda'[k].op = "invalidate" /\ agenda'[k].win = v
             /\ \A k \in DOMAIN agenda' : agenda'[k].op = "invalidate" /\ agenda'[k].win = v => win[v].refs = 0
             /\ ~(Linking(v) # {} /\ Panes(v) = {})
    BY <1>6 DEF PanesKept, Panes, Linking
  <2>1. /\ win[v].refs = 0 =>
             \/ Panes(v) = {}
             \/ \E k \in DOMAIN agenda : agenda[k].op = "invalidate" /\ agenda[k].win = v
        /\ \A k \in DOMAIN agenda : agenda[k].op = "invalidate" /\ agenda[k].win = v => win[v].refs = 0
        /\ ~(Linking(v) # {} /\ Panes(v) = {})
    BY <1>1, TypeParts DEF PanesKept
  <2>2. ASSUME NEW i \in DOMAIN agenda', agenda'[i].op = "invalidate", agenda'[i].win = v
        PROVE  win[v].refs = 0
    <3>1. CASE i \in DOMAIN work /\ agenda'[i] = work[i]
      BY <1>3, <1>8, <2>2, <3>1
    <3>2. CASE \E k \in DOMAIN agenda : k # 1 /\ agenda'[i] = agenda[k]
      BY <2>1, <2>2, <3>2
    <3> QED
      BY <1>4, <3>1, <3>2 DEF Queued
  <2>3. ASSUME \E k \in DOMAIN agenda : agenda[k].op = "invalidate" /\ agenda[k].win = v
        PROVE  \E k \in DOMAIN agenda' : agenda'[k].op = "invalidate" /\ agenda'[k].win = v
    BY <1>12, <2>3
  <2> QED
    BY <2>1, <2>2, <2>3
<1>14. DrawnKept'
  <2> SUFFICES ASSUME NEW e \in Client, cli[e].anim.win # 0
               PROVE  win[cli[e].anim.win].refs > 0 \/ Found(e, cli[e].anim.win, agenda')
    BY <1>6 DEF DrawnKept
  <2> DEFINE v == cli[e].anim.win
  <2>1. win[v].refs > 0 \/ Found(e, v, agenda)
    BY TypeParts DEF DrawnKept
  <2>2. e = c => (b <=> v = w)
    OBVIOUS
  <2> HIDE DEF v
  <2>3. CASE Found(e, v, agenda)
    <3>1. PICK k \in DOMAIN agenda : /\ agenda[k].op = "invalidate" /\ agenda[k].win = v
                                     /\ e \in agenda[k].todo \/ agenda[1] = Clear(e)
      BY <2>3 DEF Found
    <3>2. agenda[1] # Clear(e)
      BY <1>1 DEF Clear
    <3>3. e \in agenda[k].todo
      BY <3>1, <3>2
    <3>4. ASSUME k # 1 PROVE Found(e, v, agenda')
      <4>1. PICK i \in DOMAIN agenda' : agenda'[i] = agenda[k]
        BY <1>4, <3>4 DEF Queued
      <4> QED
        BY <3>1, <3>3, <4>1 DEF Found
    <3>5. ASSUME k = 1 PROVE Found(e, v, agenda')
      <4>1. v = w /\ e \in T
        BY <1>1, <3>1, <3>3, <3>5
      <4>2. PICK i \in DOMAIN work : work[i] = Invalidating(w, T \ {c})
        BY DEF Asks
      <4>3. i \in DOMAIN agenda' /\ agenda'[i].op = "invalidate" /\ agenda'[i].win = v
            /\ agenda'[i].todo = T \ {c}
        BY <1>4, <4>1, <4>2 DEF Queued, Invalidating
      <4>4. CASE e = c
        <5>1. 1 \in DOMAIN work /\ work[1] = Clear(e)
          BY <2>2, <4>1, <4>4 DEF Asks
        <5>2. agenda'[1] = Clear(e)
          BY <1>4, <5>1 DEF Queued
        <5> QED
          BY <4>3, <5>2 DEF Found
      <4>5. CASE e # c
        <5>1. e \in agenda'[i].todo
          BY <4>1, <4>3, <4>5
        <5> QED
          BY <4>3, <5>1 DEF Found
      <4> QED
        BY <4>4, <4>5
    <3>6. Found(e, v, agenda')
      BY <3>4, <3>5
    <3> QED
      BY <3>6 DEF v
  <2>4. CASE win[v].refs > 0
    BY <2>4 DEF v
  <2> QED
    BY <2>1, <2>3, <2>4
<1>15. CarriersCounted'
  BY <1>6, TypeParts, CarriersSame
<1>16. CurrentWindowLinked'
  BY <1>6, TypeParts, CurrentKept
<1>17. TypesKept'
  BY <1>4, TypeParts DEF TypesKept, Queued
<1> QED
  BY <1>5, <1>9, <1>10, <1>11, <1>13, <1>14, <1>15, <1>16, <1>17 DEF AnimationCore

(* A window loses its panes. *)
LEMMA PanesEmptied ==
    ASSUME win \in [Window -> WindowType], NEW w \in Window,
           win' = [win EXCEPT ![w].panes = [p \in PaneId |-> "none"]]
    PROVE  /\ win' \in [Window -> WindowType] /\ RefsSame
           /\ \A v \in Window : v # w => win'[v].panes = win[v].panes
           /\ \A p \in PaneId : win'[w].panes[p] = "none"
<1> DEFINE a == win[w].panes
           b == win[w].refs
           n == win[w].noted
           e == [p \in PaneId |-> "none"]
           x == WindowWith(e, b, n)
<1>1. win' = [win EXCEPT ![w] = [win[w] EXCEPT !.panes = e]] /\ win[w] = WindowWith(a, b, n)
      /\ b \in Nat /\ n \in Nat
  BY WindowFields
<1>2. e \in [PaneId -> PaneState] /\ \A p \in PaneId : e[p] = "none"
  BY DEF PaneState
<1> HIDE DEF a, e
<1>3. [win[w] EXCEPT !.panes = e] = x
  BY <1>1 DEF WindowWith
<1>4. x \in WindowType /\ x.panes = e /\ x.refs = b /\ x.noted = n
  BY <1>1, <1>2, WindowWithFacts
<1> HIDE DEF x
<1>5. win' = [win EXCEPT ![w] = x]
  BY <1>1, <1>3
<1> QED
  BY <1>2, <1>4, <1>5 DEF RefsSame

(* Invalidate keeps the invariant. *)
LEMMA InvalidateStep ==
    ASSUME AnimationCore, Invalidate
    PROVE  AnimationCore'
<1> DEFINE x == agenda[1]
           w == x.win
           T == x.todo
<1>1. Doing("invalidate")
  BY DEF Invalidate
<1>2. /\ agenda \in Seq(Work) /\ agenda # <<>> /\ Call = x /\ x \in Work /\ x.op = "invalidate"
  BY <1>1, DoingFacts
<1>3. w \in Window /\ T \in SUBSET Client /\ x = Invalidating(w, T)
  <2> HIDE DEF x
  <2> QED
    BY <1>2, CallTypes DEF Invalidating
<1>4. CASE /\ T = {} /\ Continue(<<>>)
           /\ win' = [win EXCEPT ![w].panes = [p \in PaneId |-> "none"]]
           /\ UNCHANGED <<cli, ses, defer, fault, moves>>
  <2>1. agenda[1] = Invalidating(w, {})
    BY <1>3, <1>4
  <2>2. agenda' = <<>> \o Tail(agenda)
    BY <1>4 DEF Continue
  <2> HIDE DEF w, T
  <2>3. /\ win' \in [Window -> WindowType] /\ RefsSame
        /\ \A v \in Window : v # w => win'[v].panes = win[v].panes
        /\ \A p \in PaneId : win'[w].panes[p] = "none"
    BY <1>3, <1>4, TypeParts, PanesEmptied
  <2> QED
    BY <1>2, <1>3, <1>4, <2>1, <2>2, <2>3, DestroyedKept
<1>5. ASSUME NEW c \in T,
             Continue((IF Shows(c, w) THEN <<Clear(c)>> ELSE <<>>) \o <<[Call EXCEPT !.todo = @ \ {c}]>>),
             UNCHANGED <<cli, ses, win, defer, fault, moves>>
      PROVE  AnimationCore'
  <2> DEFINE b == cli[c].anim.win = w
             work == (IF b THEN <<Clear(c)>> ELSE <<>>) \o <<Invalidating(w, T \ {c})>>
  <2>1. [Call EXCEPT !.todo = @ \ {c}] = Invalidating(w, T \ {c})
    <3>1. Call = Invalidating(w, T)
      BY <1>2, <1>3
    <3> HIDE DEF w, T
    <3> QED
      BY <3>1 DEF Invalidating
  <2>2. agenda' = work \o Tail(agenda)
    BY <1>5, <2>1 DEF Continue, Shows
  <2>3. c \in Client /\ T \ {c} \in SUBSET Client /\ b \in BOOLEAN
    BY <1>3
  <2>4. Asks(work, c, w, T \ {c}, b)
    <3> HIDE DEF b, w, T
    <3> QED
      BY <1>3, <2>3, AsksFacts
  <2>5. b <=> cli[c].anim.win = w
    OBVIOUS
  <2> HIDE DEF b, work, w, T
  <2> QED
    BY <1>2, <1>3, <1>5, <2>2, <2>3, <2>4, <2>5, AskedKept
<1> QED
  BY <1>2, <1>4, <1>5 DEF Invalidate

----------------------------------------------------------------------------
(* A window is killed: the sessions lose it, one after the other.           *)

Killing(w, T) == [op |-> "kill", win |-> w, todo |-> T]

(* The panes and the references of the windows stay as they were.           *)
PanesSame ==
    /\ win' \in [Window -> WindowType]
    /\ \A v \in Window : win'[v].panes = win[v].panes /\ win'[v].refs = win[v].refs

(* The rest of the kill is on the agenda if window w is linked yet.         *)
KillGoesOn(w, T, work) ==
    Linking(w)' # {} /\ Linking(w) \subseteq T =>
        /\ 1 \in DOMAIN work /\ work[1].op = "kill" /\ work[1].win = w
        /\ Linking(w)' \subseteq work[1].todo

(* A window without panes that is linked yet is being killed. *)
LEMMA PanesKill ==
    ASSUME AnimationCore, NEW w \in Window, NEW T, agenda # <<>>, agenda[1] = Killing(w, T),
           NEW work, Runs(work), NoInvalidate(work), PanesSame,
           \A v \in Window : Linking(v)' \subseteq Linking(v), KillGoesOn(w, T, work)
    PROVE  PanesKept'
<1>1. agenda[1].op = "kill" /\ agenda[1].win = w /\ agenda[1].todo = T
  BY DEF Killing
<1>2. Queued(work)
  BY RunsQueued
<1> SUFFICES ASSUME NEW v \in Window
    PROVE  /\ win'[v].refs = 0 =>
                \/ Panes(v)' = {}
                \/ \E k \in DOMAIN agenda' : agenda'[k].op = "invalidate" /\ agenda'[k].win = v
           /\ \A k \in DOMAIN agenda' : agenda'[k].op = "invalidate" /\ agenda'[k].win = v => win'[v].refs = 0
           /\ Linking(v)' # {} /\ Panes(v)' = {} =>
                /\ agenda' # <<>> /\ agenda'[1].op = "kill" /\ agenda'[1].win = v
                /\ Linking(v)' \subseteq agenda'[1].todo
  BY DEF PanesKept
<1>3. /\ win[v].refs = 0 =>
           \/ Panes(v) = {}
           \/ \E k \in DOMAIN agenda : agenda[k].op = "invalidate" /\ agenda[k].win = v
      /\ \A k \in DOMAIN agenda : agenda[k].op = "invalidate" /\ agenda[k].win = v => win[v].refs = 0
      /\ Linking(v) # {} /\ Panes(v) = {} => v = w /\ Linking(v) \subseteq T
  BY <1>1, TypeParts DEF PanesKept
<1>4. Panes(v)' = Panes(v) /\ win'[v].refs = win[v].refs
  BY DEF PanesSame, Panes
<1>5. ASSUME win'[v].refs = 0
      PROVE  \/ Panes(v)' = {}
             \/ \E k \in DOMAIN agenda' : agenda'[k].op = "invalidate" /\ agenda'[k].win = v
  <2>1. CASE Panes(v) = {}
    BY <1>4, <2>1
  <2>2. CASE \E k \in DOMAIN agenda : agenda[k].op = "invalidate" /\ agenda[k].win = v
    <3>1. PICK k \in DOMAIN agenda : agenda[k].op = "invalidate" /\ agenda[k].win = v
      BY <2>2
    <3>2. k # 1
      BY <1>1, <3>1
    <3>3. PICK i \in DOMAIN agenda' : agenda'[i] = agenda[k]
      BY <1>2, <3>2 DEF Queued
    <3> QED
      BY <3>1, <3>3
  <2> QED
    BY <1>3, <1>4, <1>5, <2>1, <2>2
<1>6. ASSUME NEW i \in DOMAIN agenda', agenda'[i].op = "invalidate", agenda'[i].win = v
      PROVE  win'[v].refs = 0
  <2>1. \E k \in DOMAIN agenda : agenda'[i] = agenda[k]
    BY <1>2, <1>6 DEF Queued, NoInvalidate
  <2> QED
    BY <1>3, <1>4, <1>6, <2>1
<1>7. ASSUME Linking(v)' # {}, Panes(v)' = {}
      PROVE  /\ agenda' # <<>> /\ agenda'[1].op = "kill" /\ agenda'[1].win = v
             /\ Linking(v)' \subseteq agenda'[1].todo
  <2>1. Linking(v) # {} /\ Panes(v) = {}
    BY <1>4, <1>7
  <2>2. v = w /\ Linking(w) \subseteq T
    BY <1>3, <2>1
  <2>3. /\ 1 \in DOMAIN work /\ work[1].op = "kill" /\ work[1].win = w
        /\ Linking(w)' \subseteq work[1].todo
    BY <1>7, <2>2 DEF KillGoesOn
  <2>4. 1 \in DOMAIN agenda' /\ agenda'[1] = work[1]
    BY <1>2, <2>3 DEF Queued
  <2> QED
    BY <2>2, <2>3, <2>4
<1> QED
  BY <1>5, <1>6, <1>7

(* A session or none loses the window that is killed. *)
LEMMA KillStep ==
    ASSUME AnimationCore, NEW w \in Window, NEW T, agenda # <<>>, agenda[1] = Killing(w, T),
           NEW work, Runs(work), Calm(work), Plain(work), Fits(agenda[1], work), PanesSame,
           \A v \in Window : Linking(v)' \subseteq Linking(v), KillGoesOn(w, T, work),
           NEW W, MovesTo(W), HasRefs(W), W \subseteq Window,
           ses' \in [Session -> SessionType], CurrentWindowLinked', RefsCounted',
           UNCHANGED <<defer, fault, moves>>
    PROVE  AnimationCore'
<1>1. agenda[1].op = "kill"
  BY DEF Killing
<1>2. NoUnref(work) /\ NoFinalize(work) /\ NoInvalidate(work)
  BY DEF Calm
<1>3. PanesKept'
  BY <1>2, PanesKill
<1>4. InOrder(agenda') /\ agenda' \in Seq(Work)
  <2>1. InOrder(agenda')
    BY TypeParts, OrderKept DEF Runs
  <2>2. agenda' \in Seq(Work)
    BY RunsQueued DEF Queued
  <2> QED
    BY <2>1, <2>2
<1>5. OverlaysOwned'
  BY <1>1, PlainRun DEF MovesTo
<1>6. DefersNamed'
  <2>1. \A v \in Window, p \in PaneId : win'[v].panes[p] \in {win[v].panes[p], "none"}
    BY DEF PanesSame
  <2>2. NoFinalize(agenda')
    BY <1>2, FinalizeGone
  <2> QED
    BY <1>1, <2>1, <2>2, TypeParts, DefersKept
<1>7. DrawnKept'
  <2>1. \A v \in Window : win[v].refs > 0 => win'[v].refs > 0
    BY DEF PanesSame
  <2>2. \A v \in W : v # 0 => win'[v].refs > 0
    BY DEF PanesSame, HasRefs
  <2> QED
    BY <1>1, <2>1, <2>2, TypeParts, DrawnRun DEF MovesTo
<1>8. CarriersCounted'
  BY TypeParts, CarriersKept DEF MovesTo
<1>9. TypesKept'
  BY <1>4, TypeParts DEF TypesKept, MovesTo, DrawsTo, PanesSame
<1> QED
  BY <1>3, <1>4, <1>5, <1>6, <1>7, <1>8, <1>9 DEF AnimationCore

(* The rest of a kill. *)
LEMMA KillingAlone ==
    ASSUME NEW w \in Window, NEW T \in SUBSET Session, NEW work, work = <<Killing(w, T)>>
    PROVE  /\ work \in Seq(Work) /\ Calm(work) /\ Plain(work) /\ 1 \in DOMAIN work
           /\ work[1].op = "kill" /\ work[1].win = w /\ work[1].todo = T
           /\ \A first : first.op = "kill" => Fits(first, work)
<1> DEFINE z == Killing(w, T)
<1>1. z \in Work /\ z.op = "kill" /\ z.win = w /\ z.todo = T
  BY WorkFacts DEF Killing
<1>2. work = <<z>>
  OBVIOUS
<1> HIDE DEF z
<1>3. work \in Seq(Work) /\ DOMAIN work = {1} /\ work[1] = z
  BY <1>1, <1>2, OneItem
<1> QED
  BY <1>1, <1>3 DEF Calm, NoUnref, NoFinalize, NoInvalidate, Plain, Fits

(* Sessions, windows and closes stay as they are. *)
LEMMA SameRefs ==
    ASSUME AnimationCore, NEW work, Runs(work), NoUnref(work), agenda[1].op # "unref",
           UNCHANGED <<ses, win, defer>>
    PROVE  RefsCounted' /\ PanesSame /\ LinksSame /\ \A v \in Window : Linking(v)' = Linking(v)
<1>1. LinksSame /\ PanesSame
  BY TypeParts DEF LinksSame, PanesSame
<1>2. \A v \in Window : Cardinality(Occurrences(agenda', Unref(v))) = Cardinality(Occurrences(agenda, Unref(v)))
  BY PendingRun
<1>3. RefsCounted'
  BY <1>1, <1>2, TypeParts, RefsKept
<1> QED
  BY <1>1, <1>3, LinkingSame

(* The kill is done, or a session does not link the window. *)
LEMMA KillPassed ==
    ASSUME AnimationCore, NEW w \in Window, NEW T \in SUBSET Session, agenda # <<>>,
           agenda[1] = Killing(w, T), NEW s, s \in T => s \notin Linking(w),
           NEW work, Runs(work), work = <<Killing(w, T \ {s})>> \/ (work = <<>> /\ T = {}),
           UNCHANGED <<cli, ses, win, defer, fault, moves>>
    PROVE  AnimationCore'
<1>1. agenda[1].op = "kill"
  BY DEF Killing
<1>2. /\ Calm(work) /\ Plain(work) /\ Fits(agenda[1], work)
      /\ T # {} => 1 \in DOMAIN work /\ work[1].op = "kill" /\ work[1].win = w /\ work[1].todo = T \ {s}
  <2>1. CASE work = <<Killing(w, T \ {s})>>
    <3> DEFINE U == T \ {s}
    <3>1. U \in SUBSET Session /\ work = <<Killing(w, U)>>
      BY <2>1
    <3> HIDE DEF U
    <3>2. /\ Calm(work) /\ Plain(work) /\ 1 \in DOMAIN work
          /\ work[1].op = "kill" /\ work[1].win = w /\ work[1].todo = U
          /\ Fits(agenda[1], work)
      BY <1>1, <3>1, KillingAlone
    <3> QED
      BY <3>2 DEF U
  <2>2. CASE work = <<>> /\ T = {}
    BY <2>2, NoCalls, NothingMore, EmptyAgenda
  <2> QED
    BY <2>1, <2>2
<1>3. RefsCounted' /\ PanesSame /\ LinksSame /\ \A v \in Window : Linking(v)' = Linking(v)
  BY <1>1, <1>2, SameRefs DEF Calm
<1>4. KillGoesOn(w, T, work)
  <2>1. Linking(w)' = Linking(w)
    BY <1>3
  <2>2. ASSUME Linking(w) # {}, Linking(w) \subseteq T
        PROVE  T # {} /\ Linking(w) \subseteq T \ {s}
    BY <2>2
  <2> QED
    BY <1>2, <2>1, <2>2 DEF KillGoesOn
<1>5. MovesTo({}) /\ SameSessions /\ HasRefs({})
  BY TypeParts, SameChange
<1>6. CurrentWindowLinked'
  BY <1>5, TypeParts, CurrentKept
<1> QED
  BY <1>2, <1>3, <1>4, <1>5, <1>6, TypeParts, KillStep

(* Session s loses window w, and nothing else changes in the sessions.      *)
Unlinked(s, w) ==
    /\ ses' \in [Session -> SessionType]
    /\ ses'[s].linked = ses[s].linked \ {w} /\ SessionOK(ses'[s])
    /\ \A t \in Session : t # s => ses'[t] = ses[t]

(* The links after session s has lost window w. *)
LEMMA UnlinkedFacts ==
    ASSUME AnimationCore, NEW s \in Session, NEW w \in Window, Unlinked(s, w), NEW v
    PROVE  /\ Linking(v)' \subseteq Linking(v)
           /\ v # w => Linking(v)' = Linking(v)
           /\ Linking(w)' = Linking(w) \ {s}
<1>1. ASSUME NEW t \in Session
      PROVE  v \in ses'[t].linked <=> v \in ses[t].linked /\ ~(t = s /\ v = w)
  <2>1. CASE t = s
    BY <2>1 DEF Unlinked
  <2>2. CASE t # s
    BY <2>2 DEF Unlinked
  <2> QED
    BY <2>1, <2>2
<1>2. ASSUME NEW t \in Session
      PROVE  w \in ses'[t].linked <=> w \in ses[t].linked /\ t # s
  <2>1. CASE t = s
    BY <2>1 DEF Unlinked
  <2>2. CASE t # s
    BY <2>2 DEF Unlinked
  <2> QED
    BY <2>1, <2>2
<1> QED
  BY <1>1, <1>2 DEF Linking

(* The reference of the link passes to the notification. *)
LEMMA UnlinkedRefs ==
    ASSUME AnimationCore, NEW s \in Session, NEW w \in Window, s \in Linking(w), Unlinked(s, w),
           CountsSet(w, win[w].refs, win[w].noted + 1), defer' = defer,
           NEW work, Runs(work), NoUnref(work), agenda[1].op # "unref"
    PROVE  RefsCounted'
<1> SUFFICES ASSUME NEW v \in Window
    PROVE  win'[v].refs = Cardinality(Linking(v)') + win'[v].noted + Cardinality(Deferred(v)')
                          + Cardinality(Occurrences(agenda', Unref(v)))
  BY DEF RefsCounted, Unref
<1> DEFINE b == win[v].refs
           l == Cardinality(Linking(v))
           m == Cardinality(Linking(v)')
           c == win[v].noted
           f == Cardinality(Deferred(v))
           o == Cardinality(Occurrences(agenda, Unref(v)))
<1>1. Deferred(v)' = Deferred(v)
  BY DEF Deferred
<1>2. b = l + c + f + o /\ l \in Nat /\ f \in Nat /\ c \in Nat /\ b \in Nat
  BY TypeParts, CardinalitiesNat, WindowFields DEF RefsCounted
<1>3. Cardinality(Occurrences(agenda', Unref(v))) = o /\ o \in Nat
  BY PendingRun
<1>4. CASE v = w
  <2>1. Linking(v)' = Linking(v) \ {s} /\ IsFiniteSet(Linking(v)) /\ s \in Linking(v)
    BY <1>4, UnlinkedFacts, CardinalitiesNat
  <2>2. m = l - 1
    BY <2>1, FS_RemoveElement
  <2>3. win'[v].refs = b /\ win'[v].noted = c + 1
    BY <1>4 DEF CountsSet
  <2> HIDE DEF b, l, m, c, f, o
  <2>4. b = m + (c + 1) + f + o
    BY <1>2, <1>3, <2>2
  <2> QED
    BY <1>1, <1>3, <2>3, <2>4 DEF m, f
<1>5. CASE v # w
  <2>1. m = l
    BY <1>5, UnlinkedFacts
  <2>2. win'[v].refs = b /\ win'[v].noted = c
    BY <1>5 DEF CountsSet
  <2> HIDE DEF b, l, m, c, f, o
  <2>3. b = m + c + f + o
    BY <1>2, <2>1
  <2> QED
    BY <1>1, <1>3, <2>2, <2>3 DEF m, f
<1> QED
  BY <1>4, <1>5

(* CurrentWindowLinked after a step, session by session. *)
LEMMA CurrentFrom ==
    ASSUME \A s \in Session : SessionOK(ses'[s]),
           \A c \in Client : cli'[c].session # 0 => ses'[cli'[c].session].linked # {}
    PROVE  CurrentWindowLinked'
<1>1. ASSUME NEW s \in Session
      PROVE  /\ ses'[s].linked # {} => ses'[s].curw \in ses'[s].linked
             /\ \A k, l \in DOMAIN ses'[s].lastw :
                  /\ ses'[s].lastw[k] \in ses'[s].linked \ {ses'[s].curw}
                  /\ k # l => ses'[s].lastw[k] # ses'[s].lastw[l]
  BY DEF SessionOK, Distinct
<1> QED
  BY <1>1 DEF CurrentWindowLinked, Alive

(* The clients of a session that lost window w: still in a session of one.  *)
LEMMA UnlinkedCurrent ==
    ASSUME AnimationCore, NEW s \in Session, NEW w, Unlinked(s, w),
           \A c \in Client : \/ cli'[c].session = 0
                             \/ cli'[c].session # s /\ cli'[c].session \in Session
                                /\ Alive(cli'[c].session)
                             \/ cli'[c].session = s /\ ses'[s].linked # {}
    PROVE  CurrentWindowLinked'
<1>1. \A t \in Session : SessionOK(ses'[t])
  BY TypeParts, CurrentSplit DEF Unlinked
<1>2. ASSUME NEW c \in Client, cli'[c].session # 0
      PROVE  ses'[cli'[c].session].linked # {}
  <2>1. CASE cli'[c].session = s /\ ses'[s].linked # {}
    BY <2>1
  <2>2. CASE cli'[c].session # s /\ cli'[c].session \in Session /\ Alive(cli'[c].session)
    BY <2>2 DEF Unlinked, Alive
  <2> QED
    BY <1>2, <2>1, <2>2
<1> QED
  BY <1>1, <1>2, CurrentFrom

(* A session with other windows and another stack. *)
LEMMA SessionReplaced ==
    ASSUME NEW k \in SessionType, NEW e, NEW q
    PROVE  [k EXCEPT !.linked = e, !.lastw = q] = SessionWith(e, k.curw, q)
<1> DEFINE a == k.linked
           b == k.curw
           c == k.lastw
<1>1. k = [linked |-> a, curw |-> b, lastw |-> c]
  BY SessionFields
<1> DEFINE x == [k EXCEPT !.linked = e]
<1>2. [k EXCEPT !.linked = e, !.lastw = q] = [x EXCEPT !.lastw = q]
  OBVIOUS
<1> HIDE DEF a, b, c
<1>3. x = [linked |-> e, curw |-> b, lastw |-> c]
  BY <1>1
<1> HIDE DEF x
<1>4. [x EXCEPT !.lastw = q] = [linked |-> e, curw |-> b, lastw |-> q]
  BY <1>3
<1>5. [k EXCEPT !.linked = e, !.lastw = q] = SessionWith(e, b, q)
  BY <1>2, <1>4 DEF SessionWith
<1> QED
  BY <1>5 DEF b

(* What a session that loses window w turns to.                             *)
LEMMA NextFacts ==
    ASSUME AnimationCore, NEW s \in Session, NEW w \in ses[s].linked,
           NEW next, next = IF ses[s].curw = w THEN Successor(s) ELSE ses[s].curw
    PROVE  /\ next \in ses[s].linked
           /\ ses[s].linked \ {w} # {} => next # w
           /\ ses[s] \in SessionType /\ SessionOK(ses[s])
<1>1. ses[s] \in SessionType /\ SessionOK(ses[s])
  BY TypeParts, CurrentSplit
<1>2. CASE ses[s].curw = w
  <2>1. ses[s].linked # {}
    OBVIOUS
  <2>2. /\ Successor(s) \in ses[s].linked
        /\ ses[s].linked # {ses[s].curw} => Successor(s) # ses[s].curw
    BY <1>1, <2>1, TypeParts, SuccessorFacts
  <2> QED
    BY <1>1, <1>2, <2>2
<1>3. CASE ses[s].curw # w
  <2>1. ses[s].curw \in ses[s].linked
    BY <1>1 DEF SessionOK
  <2> QED
    BY <1>1, <1>3, <2>1
<1> QED
  BY <1>2, <1>3

(* What a session that keeps other windows turns into. *)
LEMMA LeftKept ==
    ASSUME AnimationCore, NEW s \in Session, NEW w \in ses[s].linked, ses[s].linked \ {w} # {},
           NEW next, next = IF ses[s].curw = w THEN Successor(s) ELSE ses[s].curw,
           NEW m, m = MadeCurrent(ses[s], next),
           NEW x, x = [m EXCEPT !.linked = @ \ {w}, !.lastw = Without(@, {w})]
    PROVE  x \in SessionType /\ x.linked = ses[s].linked \ {w} /\ SessionOK(x)
<1>1. next \in ses[s].linked /\ next # w /\ ses[s] \in SessionType /\ SessionOK(ses[s])
  BY NextFacts
<1>2. m \in SessionType /\ m.linked = ses[s].linked /\ m.curw = next /\ SessionOK(m)
  BY <1>1, MadeCurrentFacts
<1> DEFINE e == m.linked \ {w}
           q == Without(m.lastw, {w})
           y == SessionWith(e, m.curw, q)
<1>3. MayGo(m, w, e)
  BY <1>1, <1>2 DEF MayGo
<1>4. x = [m EXCEPT !.linked = e, !.lastw = q]
  OBVIOUS
<1>5. e = ses[s].linked \ {w}
  BY <1>2
<1>6. q = Without(m.lastw, {w}) /\ y = SessionWith(e, m.curw, q)
  OBVIOUS
<1> HIDE DEF e, q, y
<1>7. x = y
  BY ONLY <1>2, <1>4, <1>6, SessionReplaced
<1>8. Leaves(m, e, y)
  BY <1>2, <1>3, <1>6, LeftFacts
<1> QED
  BY <1>5, <1>7, <1>8 DEF Leaves

(* The clients of C go to session t.                                        *)
GoneTo(C, t) == [c \in Client |-> IF c \in C THEN [cli[c] EXCEPT !.session = t] ELSE cli[c]]

(* The clients of a session that goes are detached or go to another. *)
LEMMA DetachMoves ==
    ASSUME AnimationCore, NEW s \in Session, NEW C, C = Clients(s), NEW t \in Session \cup {0},
           cli' = GoneTo(C, t)
    PROVE  /\ MovesTo({})
           /\ \A c \in Client : cli'[c].session = IF c \in C THEN t ELSE cli[c].session
<1> DEFINE y == [c \in Client |-> IF c \in C THEN [cli[c] EXCEPT !.session = t] ELSE cli[c]]
<1>1. ASSUME NEW c \in Client
      PROVE  /\ y[c] \in ClientType /\ Moved(cli[c], y[c]) /\ y[c].anim.win = cli[c].anim.win
             /\ y[c].session = IF c \in C THEN t ELSE cli[c].session
  <2>1. cli[c] \in ClientType
    BY TypeParts
  <2>2. CASE c \in C
    <3> DEFINE k == cli[c]
               l == [k EXCEPT !.session = t]
    <3>1. y[c] = l
      BY <2>2
    <3>2. k.listed
      BY <2>2 DEF Clients
    <3> HIDE DEF k, y
    <3>3. /\ l \in ClientType /\ l.listed = k.listed /\ l.session = t
          /\ l.sized = k.sized /\ l.overlay = k.overlay /\ l.anim = k.anim
      BY <2>1, ClientSession DEF k
    <3> HIDE DEF l
    <3>4. Moved(k, l)
      BY <3>2, <3>3 DEF Moved
    <3> QED
      BY <2>2, <3>1, <3>3, <3>4 DEF k
  <2>3. CASE c \notin C
    <3>1. y[c] = cli[c]
      BY <2>3
    <3> HIDE DEF y
    <3>2. Moved(cli[c], cli[c])
      BY DEF Moved
    <3> QED
      BY <2>1, <2>3, <3>1, <3>2
  <2> QED
    BY <2>2, <2>3
<1>2. cli' = y /\ y = [c \in Client |-> y[c]]
  BY DEF GoneTo
<1> HIDE DEF y
<1>3. y \in [Client -> ClientType]
  BY <1>1, <1>2
<1> QED
  BY <1>1, <1>2, <1>3 DEF MovesTo, ClientsChange, DrawsTo

(* Session s has lost window w. *)
LEMMA DetachedKept ==
    ASSUME AnimationCore, NEW w \in Window, NEW T \in SUBSET Session, agenda # <<>>,
           agenda[1] = Killing(w, T), NEW s \in T, s \in Linking(w), Unlinked(s, w),
           NEW work, Runs(work), work = <<Killing(w, T \ {s})>>,
           win' = [win EXCEPT ![w].noted = @ + 1],
           NEW W, MovesTo(W), HasRefs(W), W \subseteq Window,
           \A c \in Client : \/ cli'[c].session = 0
                             \/ cli'[c].session # s /\ cli'[c].session \in Session
                                /\ Alive(cli'[c].session)
                             \/ cli'[c].session = s /\ ses'[s].linked # {},
           UNCHANGED <<defer, fault, moves>>
    PROVE  AnimationCore'
<1>1. agenda[1].op = "kill"
  BY DEF Killing
<1>2. /\ Calm(work) /\ Plain(work) /\ Fits(agenda[1], work)
      /\ 1 \in DOMAIN work /\ work[1].op = "kill" /\ work[1].win = w /\ work[1].todo = T \ {s}
  <2> DEFINE U == T \ {s}
  <2>1. U \in SUBSET Session /\ work = <<Killing(w, U)>>
    OBVIOUS
  <2> HIDE DEF U
  <2>2. /\ Calm(work) /\ Plain(work) /\ 1 \in DOMAIN work
        /\ work[1].op = "kill" /\ work[1].win = w /\ work[1].todo = U
        /\ Fits(agenda[1], work)
    BY ONLY <1>1, <2>1, KillingAlone
  <2> QED
    BY <2>2 DEF U
<1>3. CountsSet(w, win[w].refs, win[w].noted + 1)
  <2> DEFINE a == win[w].panes
             b == win[w].refs
             n == win[w].noted
             m == n + 1
  <2>1. win' = [win EXCEPT ![w] = [win[w] EXCEPT !.noted = m]] /\ win[w] = WindowWith(a, b, n)
        /\ m \in Nat /\ b \in Nat
    BY TypeParts, WindowFields
  <2> HIDE DEF a, b, n, m
  <2>2. [win[w] EXCEPT !.noted = m] = WindowWith(a, b, m)
    BY ONLY <2>1 DEF WindowWith
  <2>3. win' = [win EXCEPT ![w] = WindowWith(win[w].panes, b, m)]
    BY <2>1, <2>2 DEF a
  <2>4. CountsSet(w, b, m)
    BY <2>1, <2>3, TypeParts, CountsSetFacts
  <2> QED
    BY <2>4 DEF m, b, n
<1>4. PanesSame
  BY <1>3 DEF PanesSame, CountsSet
<1>5. s \in Session
  OBVIOUS
<1>6. \A v \in Window : Linking(v)' \subseteq Linking(v)
  BY <1>5, UnlinkedFacts
<1>7. Linking(w)' = Linking(w) \ {s}
  BY <1>5, UnlinkedFacts
<1>8. KillGoesOn(w, T, work)
  BY <1>2, <1>7 DEF KillGoesOn
<1>9. RefsCounted'
  BY <1>1, <1>2, <1>3, <1>5, UnlinkedRefs DEF Calm
<1>10. CurrentWindowLinked'
  BY <1>5, UnlinkedCurrent
<1>11. ses' \in [Session -> SessionType]
  BY DEF Unlinked
<1> QED
  BY <1>2, <1>4, <1>6, <1>8, <1>9, <1>10, <1>11, KillStep

(* Detach keeps the invariant. *)
LEMMA DetachStep ==
    ASSUME AnimationCore, NEW w \in Window, NEW T \in SUBSET Session, agenda # <<>>,
           agenda[1] = Killing(w, T), NEW s \in T, s \in Linking(w), Detach(s, w),
           NEW work, Runs(work), work = <<Killing(w, T \ {s})>>,
           UNCHANGED <<defer, fault, moves>>
    PROVE  AnimationCore'
<1> DEFINE next == IF ses[s].curw = w THEN Successor(s) ELSE ses[s].curw
           moved == MadeCurrent(ses[s], next)
           left == [moved EXCEPT !.linked = @ \ {w}, !.lastw = Without(@, {w})]
           others == {t \in Session \ {s} : Alive(t)}
           none == [linked |-> {}, curw |-> 0, lastw |-> <<>>]
<1>1. s \in Session /\ w \in ses[s].linked
  BY DEF Linking
<1>2. /\ next \in ses[s].linked /\ ses[s] \in SessionType /\ SessionOK(ses[s])
  BY <1>1, NextFacts
<1>3. moved.linked = ses[s].linked /\ moved \in SessionType
  <2> HIDE DEF next
  <2> QED
    BY <1>2, MadeCurrentFacts
<1>4. left.linked = ses[s].linked \ {w}
  <2> HIDE DEF moved
  <2> DEFINE e == moved.linked \ {w}
             q == Without(moved.lastw, {w})
  <2>1. left = [moved EXCEPT !.linked = e, !.lastw = q] /\ e = ses[s].linked \ {w}
    BY <1>3
  <2> HIDE DEF e, q, left
  <2>2. left = SessionWith(e, moved.curw, q)
    BY <1>3, <2>1, SessionReplaced
  <2> QED
    BY <2>1, <2>2 DEF SessionWith
<1>5. win' = [win EXCEPT ![w].noted = @ + 1]
  BY DEF Detach
<1>6. ASSUME NEW c \in Client, cli[c].session # 0
      PROVE  /\ cli[c].session \in Session /\ Alive(cli[c].session) /\ cli[c].listed
  <2>1. Tidy(cli[c]) /\ cli[c] \in ClientType
    BY TypeParts, OwnsTidy
  <2>2. cli[c].session \in Session
    BY <1>6, <2>1, ClientFields
  <2>3. Alive(cli[c].session)
    BY <1>6, TypeParts, CurrentSplit
  <2> QED
    BY <1>6, <2>1, <2>2, <2>3 DEF Tidy
<1>7. CASE left.linked # {}
  <2>1. ses' = [ses EXCEPT ![s] = left] /\ cli' = Slid({s}, [t \in {s} |-> next])
    BY <1>7 DEF Detach
  <2>2. left \in SessionType /\ SessionOK(left)
    <3>1. ses[s].linked \ {w} # {}
      BY <1>4, <1>7
    <3>2. next = (IF ses[s].curw = w THEN Successor(s) ELSE ses[s].curw) /\ moved = MadeCurrent(ses[s], next)
          /\ left = [moved EXCEPT !.linked = @ \ {w}, !.lastw = Without(@, {w})]
      OBVIOUS
    <3> HIDE DEF next, moved, left
    <3> QED
      BY ONLY AnimationCore, <1>1, <3>1, <3>2, LeftKept
  <2>3. Unlinked(s, w)
    <3> HIDE DEF left
    <3> QED
      BY <1>1, <1>4, <2>1, <2>2, TypeParts DEF Unlinked
  <2>4. MovesTo(Kept) /\ SameSessions
    <3> DEFINE to == [t \in {s} |-> next]
    <3>1. next \in Kept
      BY <1>1, <1>2, KeptFacts
    <3>2. to \in [{s} -> Window] /\ \A t \in {s} : to[t] \in Kept
      BY <3>1 DEF Kept
    <3>3. cli' = Slid({s}, to)
      BY <2>1
    <3> HIDE DEF to
    <3>4. ClientsMoved(cli', Kept)
      BY <3>2, <3>3, TypeParts, SlidFacts
    <3> QED
      BY <3>4, MovedChange
  <2>5. \A c \in Client : \/ cli'[c].session = 0
                          \/ cli'[c].session # s /\ cli'[c].session \in Session
                             /\ Alive(cli'[c].session)
                          \/ cli'[c].session = s /\ ses'[s].linked # {}
    <3> SUFFICES ASSUME NEW c \in Client, cli'[c].session # 0
                 PROVE  \/ cli'[c].session # s /\ cli'[c].session \in Session
                           /\ Alive(cli'[c].session)
                        \/ cli'[c].session = s /\ ses'[s].linked # {}
      OBVIOUS
    <3>1. cli'[c].session = cli[c].session
      BY <2>4 DEF SameSessions
    <3>2. cli'[c].session \in Session /\ Alive(cli'[c].session)
      <4> DEFINE u == cli[c].session
      <4>1. u \in Session /\ Alive(u) /\ cli'[c].session = u
        BY <1>6, <3>1
      <4> HIDE DEF u
      <4> QED
        BY <4>1 DEF Alive
    <3>3. ses'[s].linked # {}
      <4> HIDE DEF left
      <4> QED
        BY <1>1, <1>7, <2>1, TypeParts
    <3> QED
      BY <3>2, <3>3
  <2>6. HasRefs(Kept) /\ Kept \subseteq Window
    BY KeptFacts DEF Kept
  <2> HIDE DEF left
  <2> QED
    BY <1>5, <2>3, <2>4, <2>5, <2>6, DetachedKept
<1>8. CASE left.linked = {}
  <2>1. ses' = [ses EXCEPT ![s] = none]
    BY <1>8 DEF Detach
  <2>2. PICK t \in IF DetachOnDestroy \/ others = {} THEN {0} ELSE others :
               cli' = [c \in Client |-> IF c \in Clients(s) THEN [cli[c] EXCEPT !.session = t]
                                                            ELSE cli[c]]
    BY <1>8 DEF Detach
  <2>3. t = 0 \/ (t \in Session /\ t # s /\ Alive(t))
    BY <2>2
  <2>4. Unlinked(s, w)
    <3>1. none = SessionWith({}, 0, <<>>)
      BY DEF SessionWith
    <3>2. none \in SessionType /\ none.linked = {} /\ SessionOK(none)
      BY DEF SessionType, SessionOK, Distinct
    <3>3. ses[s].linked \ {w} = {}
      BY <1>4, <1>8
    <3> HIDE DEF none
    <3> QED
      BY <1>1, <2>1, <3>2, <3>3, TypeParts DEF Unlinked
  <2> DEFINE C == Clients(s)
  <2>5. C = Clients(s) /\ t \in Session \cup {0}
        /\ cli' = GoneTo(C, t)
    BY <2>2, <2>3 DEF GoneTo
  <2>6. \A c \in Client : c \in C <=> cli[c].listed /\ cli[c].session = s
    BY DEF Clients
  <2> HIDE DEF C, left
  <2>7. /\ MovesTo({})
        /\ \A c \in Client : cli'[c].session = IF c \in C THEN t ELSE cli[c].session
    BY ONLY AnimationCore, <1>1, <2>5, DetachMoves
  <2>8. \A c \in Client : \/ cli'[c].session = 0
                          \/ cli'[c].session # s /\ cli'[c].session \in Session
                             /\ Alive(cli'[c].session)
                          \/ cli'[c].session = s /\ ses'[s].linked # {}
    <3> SUFFICES ASSUME NEW c \in Client, cli'[c].session # 0
                 PROVE  cli'[c].session # s /\ cli'[c].session \in Session /\ Alive(cli'[c].session)
      OBVIOUS
    <3> DEFINE u == cli'[c].session
    <3>1. u \in Session /\ u # s /\ Alive(u)
      <4>1. CASE c \in C
        <5>1. u = t /\ u # 0
          BY <2>7, <4>1
        <5> HIDE DEF u
        <5> QED
          BY <2>3, <5>1
      <4>2. CASE c \notin C
        <5>1. u = cli[c].session
          BY <2>7, <4>2
        <5>2. cli[c].session \in Session /\ Alive(cli[c].session) /\ cli[c].listed
          BY <1>6, <5>1
        <5>3. cli[c].session # s
          BY <2>6, <4>2, <5>2
        <5> HIDE DEF u
        <5> QED
          BY <5>1, <5>2, <5>3
      <4> QED
        BY <4>1, <4>2
    <3> QED
      BY <3>1 DEF Alive
  <2>9. HasRefs({}) /\ {} \subseteq Window
    BY DEF HasRefs
  <2> QED
    BY <1>5, <2>4, <2>7, <2>8, <2>9, DetachedKept
<1> QED
  BY <1>7, <1>8

(* KillFromSession keeps the invariant. *)
LEMMA KillFromSessionStep ==
    ASSUME AnimationCore, KillFromSession
    PROVE  AnimationCore'
<1> DEFINE x == agenda[1]
           w == x.win
           T == x.todo
<1>1. Doing("kill")
  BY DEF KillFromSession
<1>2. /\ agenda \in Seq(Work) /\ agenda # <<>> /\ Call = x /\ x \in Work /\ x.op = "kill"
  BY <1>1, DoingFacts
<1>3. w \in Window /\ T \in SUBSET Session /\ x = Killing(w, T)
  <2> HIDE DEF x
  <2> QED
    BY <1>2, CallTypes DEF Killing
<1>4. UNCHANGED <<defer, fault, moves>>
  BY DEF KillFromSession
<1>5. CASE T = {} /\ Continue(<<>>) /\ UNCHANGED <<cli, ses, win>>
  <2>1. Runs(<<>>)
    BY <1>2, <1>5, NoCalls DEF Runs, Continue
  <2> HIDE DEF T, w
  <2> QED
    BY <1>2, <1>3, <1>4, <1>5, <2>1, KillPassed
<1>6. ASSUME NEW s \in T, Continue(<<[Call EXCEPT !.todo = @ \ {s}]>>),
             IF s \in Linking(w) THEN Detach(s, w) ELSE UNCHANGED <<cli, ses, win>>
      PROVE  AnimationCore'
  <2> DEFINE U == T \ {s}
             work == <<Killing(w, U)>>
  <2>1. [Call EXCEPT !.todo = @ \ {s}] = Killing(w, U)
    <3>1. Call = Killing(w, T)
      BY <1>2, <1>3
    <3> HIDE DEF w, T
    <3> QED
      BY <3>1 DEF Killing
  <2>2. U \in SUBSET Session
    BY <1>3
  <2>3. work \in Seq(Work)
    <3> HIDE DEF U, w
    <3> QED
      BY <1>3, <2>2, KillingAlone
  <2>4. agenda' = work \o Tail(agenda)
    BY <1>6, <2>1 DEF Continue
  <2>5. Runs(work) /\ work = <<Killing(w, T \ {s})>>
    BY <1>2, <2>3, <2>4 DEF Runs
  <2> HIDE DEF work, U, w, T
  <2>6. CASE s \in Linking(w)
    <3>1. Detach(s, w)
      BY <1>6, <2>6
    <3> QED
      BY <1>2, <1>3, <1>4, <1>6, <2>5, <2>6, <3>1, DetachStep
  <2>7. CASE s \notin Linking(w)
    <3>1. UNCHANGED <<cli, ses, win>>
      BY <1>6, <2>7
    <3> QED
      BY <1>2, <1>3, <1>4, <2>5, <2>7, <3>1, KillPassed
  <2> QED
    BY <2>6, <2>7
<1> QED
  BY <1>2, <1>5, <1>6 DEF KillFromSession

----------------------------------------------------------------------------
(* A deferred close is made: the pane goes, and the reference of the close. *)

(* The calls of such a close; b: the window has lost its last pane.         *)
Closes(work, w, b) ==
    /\ Runs(work)
    /\ \A i \in DOMAIN work : work[i] = Unref(w) \/ (work[i] = Kill(w) /\ i = 1)
    /\ b => 1 \in DOMAIN work /\ work[1] = Kill(w)
    /\ \A v : /\ Cardinality(Occurrences(agenda, Unref(v))) \in Nat
              /\ Cardinality(Occurrences(agenda', Unref(v)))
                   = Cardinality(Occurrences(agenda, Unref(v))) + (IF v = w THEN 1 ELSE 0)

Before(y, q, work, t) == <<y>> \o q = work \o t

(* Two calls before the others, put one by one or together. *)
LEMMA TwoBefore ==
    ASSUME NEW y \in Work, NEW z \in Work, NEW t \in Seq(Work), NEW q, q = <<z>> \o t,
           NEW work, work = <<y, z>>
    PROVE  Before(y, q, work, t)
<1> DEFINE a == <<y>>
           b == <<z>>
<1>1. a \in Seq(Work) /\ b \in Seq(Work)
  OBVIOUS
<1>2. a \o b = work
  BY TwoJoined
<1>3. q = b \o t
  OBVIOUS
<1> HIDE DEF a, b
<1>4. (a \o b) \o t = a \o (b \o t)
  BY ONLY t \in Seq(Work), <1>1, ConcatAssociative
<1>5. a \o q = work \o t
  BY ONLY <1>2, <1>3, <1>4
<1> QED
  BY <1>5 DEF a, Before

(* The calls of a deferred close. *)
LEMMA ClosesFacts ==
    ASSUME AnimationCore, agenda # <<>>, agenda[1].op # "unref", NEW w \in Window, NEW b \in BOOLEAN,
           NEW q, q = <<Unref(w)>> \o Tail(agenda),
           agenda' = IF b THEN <<Kill(w)>> \o q ELSE q
    PROVE  \E work : Closes(work, w, b)
<1> DEFINE y == Kill(w)
           z == Unref(w)
           t == Tail(agenda)
<1>1. y \in Work /\ z \in Work /\ y.op = "kill" /\ z.op = "unref" /\ y # z
  BY WorkFacts DEF Kill, Unref
<1>2. agenda \in Seq(Work) /\ t \in Seq(Work)
  BY TypeParts
<1>3. q = <<z>> \o t /\ agenda' = IF b THEN <<y>> \o q ELSE q
  OBVIOUS
<1>4. \A v : (z = Unref(v) <=> v = w) /\ y # Unref(v) /\ agenda[1] # Unref(v)
  BY DEF Kill, Unref
<1>5. ASSUME NEW v
      PROVE  /\ Cardinality(Occurrences(agenda, Unref(v))) \in Nat
             /\ Cardinality(Occurrences(agenda', Unref(v)))
                  = Cardinality(Occurrences(agenda, Unref(v))) + (IF v = w THEN 1 ELSE 0)
  <2> DEFINE u == Unref(v)
             o == Cardinality(Occurrences(agenda, u))
             m == Cardinality(Occurrences(t, u))
             n == Cardinality(Occurrences(q, u))
  <2>1. (z = u <=> v = w) /\ y # u /\ agenda[1] # u
    BY <1>4
  <2> HIDE DEF y, z, t, u
  <2>2. CountedWith(agenda, agenda[1], t, u)
    BY <1>2, OccurrencesPopped DEF t
  <2>3. CountedWith(q, z, t, u) /\ q \in Seq(Work)
    <3>1. CountedWith(q, z, t, u)
      BY <1>1, <1>2, <1>3, OccurrencesPushed
    <3>2. q \in Seq(Work)
      BY <1>1, <1>2, <1>3
    <3> QED
      BY <3>1, <3>2
  <2>4. o = m /\ o \in Nat /\ m \in Nat
    BY <2>1, <2>2 DEF CountedWith
  <2>5. n = m + (IF v = w THEN 1 ELSE 0) /\ n \in Nat
    <3>1. CASE v = w
      BY <2>1, <2>3, <3>1 DEF CountedWith
    <3>2. CASE v # w
      <4>1. n = m
        BY <2>1, <2>3, <3>2 DEF CountedWith
      <4> HIDE DEF n, m
      <4> QED
        BY <2>4, <3>2, <4>1
    <3> QED
      BY <3>1, <3>2
  <2>6. Cardinality(Occurrences(agenda', u)) = n
    <3>1. CASE b
      <4> DEFINE r == <<y>> \o q
      <4>1. r = <<y>> \o q /\ agenda' = r
        BY <1>3, <3>1
      <4> HIDE DEF r
      <4>2. CountedWith(r, y, q, u)
        BY <1>1, <2>3, <4>1, OccurrencesPushed
      <4> QED
        BY <2>1, <4>1, <4>2 DEF CountedWith
    <3>2. CASE ~b
      BY <1>3, <3>2
    <3> QED
      BY <3>1, <3>2
  <2>7. Cardinality(Occurrences(agenda', u)) = o + (IF v = w THEN 1 ELSE 0)
    BY <2>4, <2>5, <2>6
  <2> QED
    BY <2>4, <2>7 DEF u
<1>6. CASE b
  <2> DEFINE work == <<y, z>>
  <2>1. /\ work \in Seq(Work) /\ DOMAIN work = {1, 2} /\ work[1] = y /\ work[2] = z
    BY <1>1
  <2>2. agenda' = work \o t
    <3>1. work = <<y, z>> /\ agenda' = <<y>> \o q
      BY <1>3, <1>6
    <3> HIDE DEF work, y, z, t
    <3>2. <<y>> \o q = work \o t
      <4>1. /\ y \in Work /\ z \in Work /\ t \in Seq(Work) /\ q = <<z>> \o t
            /\ work = <<y, z>>
        BY <1>1, <1>2, <1>3, <3>1
      <4>2. Before(y, q, work, t)
        BY ONLY <4>1, TwoBefore
      <4> QED
        BY <4>2 DEF Before
    <3> QED
      BY <3>1, <3>2
  <2> HIDE DEF work
  <2>3. Runs(work)
    BY <1>2, <2>1, <2>2 DEF Runs
  <2>4. Closes(work, w, b)
    BY <1>5, <2>1, <2>3 DEF Closes
  <2> QED
    BY <2>4
<1>7. CASE ~b
  <2> DEFINE work == <<z>>
  <2>1. /\ work \in Seq(Work) /\ DOMAIN work = {1} /\ work[1] = z
    BY <1>1, OneItem
  <2>2. agenda' = work \o t
    BY <1>3, <1>7
  <2> HIDE DEF work
  <2>3. Runs(work)
    BY <1>2, <2>1, <2>2 DEF Runs
  <2>4. Closes(work, w, b)
    BY <1>5, <1>7, <2>1, <2>3 DEF Closes
  <2> QED
    BY <2>4
<1> QED
  BY <1>6, <1>7

(* The close d is dropped, and the pane that waited for it is gone. *)
LEMMA FinalizedDefers ==
    ASSUME AnimationCore, agenda # <<>>, NEW d \in Defer, agenda[1] = Finalizing(d), defer[d] # NoDefer,
           NEW w \in Window, NEW p \in PaneId, defer[d].win = w, defer[d].pane = p,
           PaneSet(w, p, "none"), NoFinalize(agenda'), defer' = [defer EXCEPT ![d] = NoDefer]
    PROVE  DefersNamed'
<1>1. /\ defer'[d] = NoDefer /\ NoDefer.win = 0 /\ NoDefer.pending = 0
      /\ \A e \in Defer : e # d => defer'[e] = defer[e]
  BY TypeParts DEF NoDefer
<1>2. 0 \notin Window
  BY AnimationAssumption
<1>3. /\ \A a \in Defer :
           /\ defer[a] # NoDefer => defer[a].win # 0 /\ defer[a].pane # 0
           /\ defer[a].pending = 0 => defer[a] = NoDefer \/ agenda[1] = Finalizing(a)
      /\ \A a, e \in Defer :
           defer[a] # NoDefer /\ defer[a].win = defer[e].win /\ defer[a].pane = defer[e].pane => a = e
      /\ \A v \in Window, r \in PaneId :
           /\ win[v].panes[r] \in {"closing", "revived"}
                => \E e \in Defer : defer[e].win = v /\ defer[e].pane = r
           /\ win[v].panes[r] = "running" => \A e \in Defer : defer[e].win # v \/ defer[e].pane # r
  BY TypeParts DEF DefersNamed
<1>4. ASSUME NEW e \in Defer
      PROVE  /\ defer'[e] # NoDefer => defer'[e].win # 0 /\ defer'[e].pane # 0
             /\ defer'[e].pending = 0 => defer'[e] = NoDefer
             /\ ~Has(agenda', Finalizing(e))
  <2>1. ~Has(agenda', Finalizing(e))
    BY DEF NoFinalize, Has, Finalizing
  <2>2. CASE e = d
    BY <1>1, <2>1, <2>2
  <2>3. CASE e # d
    <3>1. agenda[1] # Finalizing(e)
      BY <2>3 DEF Finalizing
    <3>2. defer'[e] = defer[e]
      BY <1>1, <2>3
    <3> QED
      BY <1>3, <2>1, <3>1, <3>2
  <2> QED
    BY <2>2, <2>3
<1>5. ASSUME NEW a \in Defer, NEW e \in Defer,
             defer'[a] # NoDefer, defer'[a].win = defer'[e].win, defer'[a].pane = defer'[e].pane
      PROVE  a = e
  <2>1. a # d /\ defer'[a] = defer[a] /\ defer[a] # NoDefer
    BY <1>1, <1>5
  <2>2. defer[a].win # 0
    BY <1>3, <2>1
  <2>3. e # d
    BY <1>1, <1>5, <2>1, <2>2
  <2>4. defer'[e] = defer[e]
    BY <1>1, <2>3
  <2> QED
    BY <1>3, <1>5, <2>1, <2>4
<1>6. ASSUME NEW v \in Window, NEW r \in PaneId
      PROVE  /\ win'[v].panes[r] \in {"closing", "revived"}
                  => \E e \in Defer : defer'[e].win = v /\ defer'[e].pane = r
             /\ win'[v].panes[r] = "running" => \A e \in Defer : defer'[e].win # v \/ defer'[e].pane # r
  <2>1. win'[v].panes[r] = IF v = w /\ r = p THEN "none" ELSE win[v].panes[r]
    BY DEF PaneSet
  <2>2. ASSUME win'[v].panes[r] \in {"closing", "revived"}
        PROVE  \E e \in Defer : defer'[e].win = v /\ defer'[e].pane = r
    <3>1. ~(v = w /\ r = p) /\ win[v].panes[r] \in {"closing", "revived"}
      BY <2>1, <2>2
    <3>2. PICK e \in Defer : defer[e].win = v /\ defer[e].pane = r
      BY <1>3, <3>1
    <3>3. e # d
      BY <3>1, <3>2
    <3> QED
      BY <1>1, <3>2, <3>3
  <2>3. ASSUME win'[v].panes[r] = "running", NEW e \in Defer
        PROVE  defer'[e].win # v \/ defer'[e].pane # r
    <3>1. win[v].panes[r] = "running"
      BY <2>1, <2>3
    <3>2. CASE e = d
      BY <1>1, <1>2, <3>2
    <3>3. CASE e # d
      BY <1>1, <1>3, <3>1, <3>3
    <3> QED
      BY <3>2, <3>3
  <2> QED
    BY <2>2, <2>3
<1> QED
  BY <1>4, <1>5, <1>6 DEF DefersNamed, Has, Finalizing

(* The reference of the close is still to be dropped. *)
LEMMA FinalizedRefs ==
    ASSUME AnimationCore, NEW d \in Defer, NEW w \in Window, defer[d].win = w, RefsSame, LinksSame,
           defer' = [defer EXCEPT ![d] = NoDefer],
           NEW work, NEW b, Closes(work, w, b)
    PROVE  RefsCounted' /\ win[w].refs # 0
<1>1. 0 \notin Window /\ NoDefer.win = 0
  BY AnimationAssumption DEF NoDefer
<1>2. Deferred(w)' = Deferred(w) \ {d} /\ d \in Deferred(w) /\ \A v \in Window : v # w => Deferred(v)' = Deferred(v)
  <2>1. \A e \in Defer : defer'[e].win = IF e = d THEN 0 ELSE defer[e].win
    BY <1>1, TypeParts
  <2> QED
    BY <1>1, <2>1 DEF Deferred
<1>3. ASSUME NEW v \in Window
      PROVE  /\ win'[v].refs = Cardinality(Linking(v)') + win'[v].noted + Cardinality(Deferred(v)')
                               + Cardinality(Occurrences(agenda', Unref(v)))
             /\ v = w => win[v].refs # 0
  <2> DEFINE r == win[v].refs
             l == Cardinality(Linking(v))
             c == win[v].noted
             f == Cardinality(Deferred(v))
             g == Cardinality(Deferred(v)')
             o == Cardinality(Occurrences(agenda, Unref(v)))
             m == Cardinality(Occurrences(agenda', Unref(v)))
  <2>1. r = l + c + f + o /\ l \in Nat /\ f \in Nat /\ c \in Nat /\ r \in Nat
    BY TypeParts, CardinalitiesNat, WindowFields DEF RefsCounted
  <2>2. o \in Nat /\ m = o + (IF v = w THEN 1 ELSE 0)
    BY DEF Closes
  <2>3. Linking(v)' = Linking(v) /\ win'[v].refs = r /\ win'[v].noted = c
    BY LinkingSame DEF RefsSame
  <2>4. CASE v = w
    <3>1. IsFiniteSet(Deferred(v)) /\ d \in Deferred(v) /\ Deferred(v)' = Deferred(v) \ {d}
      BY <1>2, <2>4, CardinalitiesNat
    <3>2. g = f - 1 /\ f # 0
      BY <3>1, FS_RemoveElement, FS_EmptySet
    <3> HIDE DEF r, l, c, f, g, o, m
    <3>3. r = l + c + g + m /\ r # 0
      BY <2>1, <2>2, <2>4, <3>2
    <3> QED
      BY <2>3, <3>3 DEF l, g, m, r
  <2>5. CASE v # w
    <3>1. g = f
      BY <1>2, <2>5
    <3> HIDE DEF r, l, c, f, g, o, m
    <3>2. r = l + c + g + m
      BY <2>1, <2>2, <2>5, <3>1
    <3> QED
      BY <2>3, <2>5, <3>2 DEF l, g, m
  <2> QED
    BY <2>4, <2>5
<1> QED
  BY <1>3 DEF RefsCounted, Unref

(* A window whose last pane is closed is killed. *)
LEMMA FinalizedPanes ==
    ASSUME AnimationCore, agenda # <<>>, agenda[1].op = "finalize", LinksSame,
           NEW w \in Window, NEW p \in PaneId, win[w].panes[p] # "none", win[w].refs # 0,
           PaneSet(w, p, "none"), NEW work, NEW b, Closes(work, w, b), Panes(w) = {p} => b
    PROVE  PanesKept'
<1>1. Queued(work)
  BY RunsQueued DEF Closes
<1>2. NoInvalidate(work)
  BY DEF Closes, NoInvalidate, Unref, Kill
<1> SUFFICES ASSUME NEW v \in Window
    PROVE  /\ win'[v].refs = 0 =>
                \/ Panes(v)' = {}
                \/ \E k \in DOMAIN agenda' : agenda'[k].op = "invalidate" /\ agenda'[k].win = v
           /\ \A k \in DOMAIN agenda' : agenda'[k].op = "invalidate" /\ agenda'[k].win = v => win'[v].refs = 0
           /\ Linking(v)' # {} /\ Panes(v)' = {} =>
                /\ agenda' # <<>> /\ agenda'[1].op = "kill" /\ agenda'[1].win = v
                /\ Linking(v)' \subseteq agenda'[1].todo
  BY DEF PanesKept
<1>3. /\ win[v].refs = 0 =>
           \/ Panes(v) = {}
           \/ \E k \in DOMAIN agenda : agenda[k].op = "invalidate" /\ agenda[k].win = v
      /\ \A k \in DOMAIN agenda : agenda[k].op = "invalidate" /\ agenda[k].win = v => win[v].refs = 0
      /\ ~(Linking(v) # {} /\ Panes(v) = {})
  BY TypeParts DEF PanesKept
<1>4. /\ v # w => Panes(v)' = Panes(v)
      /\ v = w => Panes(v)' = Panes(w) \ {p}
      /\ win'[v].refs = win[v].refs
  <2>1. /\ v # w => Panes(v)' = Panes(v)
        /\ v = w => Panes(v)' = Panes(w) \ {p}
    BY PanesAfter
  <2>2. win'[v].refs = win[v].refs
    BY DEF PaneSet, RefsSame
  <2> QED
    BY <2>1, <2>2
<1>5. ASSUME win'[v].refs = 0
      PROVE  \/ Panes(v)' = {}
             \/ \E k \in DOMAIN agenda' : agenda'[k].op = "invalidate" /\ agenda'[k].win = v
  <2>1. v # w /\ win[v].refs = 0
    BY <1>4, <1>5
  <2>2. CASE Panes(v) = {}
    BY <1>4, <2>1, <2>2
  <2>3. CASE \E k \in DOMAIN agenda : agenda[k].op = "invalidate" /\ agenda[k].win = v
    <3>1. PICK k \in DOMAIN agenda : agenda[k].op = "invalidate" /\ agenda[k].win = v
      BY <2>3
    <3>2. k # 1
      BY <3>1
    <3>3. PICK i \in DOMAIN agenda' : agenda'[i] = agenda[k]
      BY <1>1, <3>2 DEF Queued
    <3> QED
      BY <3>1, <3>3
  <2> QED
    BY <1>3, <2>1, <2>2, <2>3
<1>6. ASSUME NEW i \in DOMAIN agenda', agenda'[i].op = "invalidate", agenda'[i].win = v
      PROVE  win'[v].refs = 0
  <2>1. \E k \in DOMAIN agenda : agenda'[i] = agenda[k]
    BY <1>1, <1>2, <1>6 DEF Queued, NoInvalidate
  <2> QED
    BY <1>3, <1>4, <1>6, <2>1
<1>7. ASSUME Linking(v)' # {}, Panes(v)' = {}
      PROVE  /\ agenda' # <<>> /\ agenda'[1].op = "kill" /\ agenda'[1].win = v
             /\ Linking(v)' \subseteq agenda'[1].todo
  <2>1. Linking(v) # {}
    BY <1>7, LinkingSame
  <2>2. v = w
    BY <1>3, <1>4, <1>7, <2>1
  <2>3. p \in Panes(w)
    BY DEF Panes
  <2>4. Panes(w) = {p}
    BY <1>4, <1>7, <2>2, <2>3
  <2>5. 1 \in DOMAIN work /\ work[1] = Kill(w)
    BY <2>4 DEF Closes
  <2>6. 1 \in DOMAIN agenda' /\ agenda'[1] = Kill(w)
    BY <1>1, <2>5 DEF Queued
  <2>7. Linking(v)' \subseteq Session
    BY DEF Linking
  <2> QED
    BY <2>2, <2>6, <2>7 DEF Kill
<1> QED
  BY <1>5, <1>6, <1>7

(* The close d is made. *)
LEMMA FinalizedKept ==
    ASSUME AnimationCore, CapturesOK, agenda # <<>>, NEW d \in Defer, agenda[1] = Finalizing(d), defer[d] # NoDefer,
           defer[d].pending = 0,
           NEW w \in Window, NEW p \in PaneId, defer[d].win = w, defer[d].pane = p,
           win[w].panes[p] # "none", PaneGoes(w, p, Viewers(w), <<Unref(w)>> \o Tail(agenda)),
           defer' = [defer EXCEPT ![d] = NoDefer], UNCHANGED <<ses, moves>>
    PROVE  AnimationCore'
<1> DEFINE b == Panes(w) = {p}
           q == <<Unref(w)>> \o Tail(agenda)
<1>1. agenda[1].op = "finalize"
  BY DEF Finalizing
<1>2. /\ win' = [win EXCEPT ![w].panes[p] = "none"]
      /\ agenda' = IF b THEN <<Kill(w)>> \o q ELSE q
      /\ IF b THEN UNCHANGED <<cli, fault>> ELSE LayoutChanges(Viewers(w), w)
  BY DEF PaneGoes
<1>3. \E work : Closes(work, w, b)
  <2>1. b \in BOOLEAN /\ q = <<Unref(w)>> \o Tail(agenda)
    OBVIOUS
  <2> HIDE DEF b, q
  <2> QED
    BY <1>1, <1>2, <2>1, ClosesFacts
<1>4. PICK work : Closes(work, w, b)
  BY <1>3
<1>5. b <=> Panes(w) = {p}
  OBVIOUS
<1> HIDE DEF b, q
<1>6. PaneSet(w, p, "none")
  <2>1. "none" \in PaneState
    BY DEF PaneState
  <2> QED
    BY <1>2, <2>1, TypeParts, PaneSetFacts
<1>7. RefsSame /\ win' \in [Window -> WindowType] /\ LinksSame
  BY <1>6 DEF PaneSet, LinksSame
<1>8. Runs(work) /\ NoFinalize(work) /\ Plain(work) /\ Fits(agenda[1], work)
  <2>1. \A i \in DOMAIN work : work[i].op = "unref" \/ (work[i].op = "kill" /\ i = 1)
    BY <1>4 DEF Closes, Unref, Kill
  <2> QED
    BY <1>1, <1>4, <2>1 DEF Closes, NoFinalize, Plain, Fits
<1>9. NoFinalize(agenda')
  BY <1>8, FinalizeGone
<1>10. InOrder(agenda') /\ agenda' \in Seq(Work)
  <2>1. InOrder(agenda')
    BY <1>8, TypeParts, OrderKept DEF Runs
  <2>2. agenda' \in Seq(Work)
    BY <1>8, RunsQueued DEF Queued
  <2> QED
    BY <2>1, <2>2
<1>11. MovesTo({w}) /\ SameSessions /\ fault' \in Faults
  <2>1. ClientsMoved(cli', {w}) /\ fault' \in Faults
    <3>1. CASE b
      <4>1. cli' = cli /\ fault' = fault
        BY <1>2, <3>1
      <4> QED
        BY <4>1, TypeParts, SameClients
    <3>2. CASE ~b
      BY <1>2, <3>2, LayoutChanged
    <3> QED
      BY <1>4, <3>1, <3>2
  <2> QED
    BY <2>1, MovedChange
<1>12. OverlaysOwned'
  BY <1>1, <1>8, <1>11, PlainRun DEF MovesTo
<1>13. DefersNamed'
  BY <1>6, <1>9, FinalizedDefers
<1>14. RefsCounted' /\ win[w].refs # 0
  BY <1>4, <1>7, FinalizedRefs
<1>15. PanesKept'
  BY <1>1, <1>4, <1>5, <1>6, <1>7, <1>14, FinalizedPanes
<1>16. DrawnKept'
  <2>1. \A v \in Window : win[v].refs > 0 => win'[v].refs > 0
    BY <1>7 DEF RefsSame
  <2>2. win[w].refs \in Nat
    BY TypeParts, WindowFields
  <2>3. \A v \in {w} : v # 0 => win'[v].refs > 0
    BY <1>7, <1>14, <2>2 DEF RefsSame
  <2>4. agenda[1].op \notin {"clear", "invalidate"}
    BY <1>1
  <2> QED
    BY <1>8, <1>11, <2>1, <2>3, <2>4, TypeParts, DrawnRun DEF MovesTo
<1>17. CarriersCounted'
  <2>1. \A e \in Defer : defer'[e].pending = defer[e].pending
    BY TypeParts DEF NoDefer
  <2> QED
    BY <1>11, <2>1, TypeParts, CarriersKept DEF MovesTo
<1>18. CurrentWindowLinked'
  BY <1>11, TypeParts, CurrentKept
<1>19. defer' \in [Defer -> DeferType]
  <2>1. NoDefer \in DeferType
    BY DEF NoDefer, DeferType
  <2> QED
    BY <2>1, TypeParts
<1>20. TypesKept'
  BY <1>7, <1>10, <1>11, <1>19, TypeParts DEF TypesKept, MovesTo, DrawsTo
<1> QED
  BY <1>10, <1>12, <1>13, <1>14, <1>15, <1>16, <1>17, <1>18, <1>20 DEF AnimationCore

(* Finalize keeps the invariant. *)
LEMMA FinalizeStep ==
    ASSUME AnimationCore, CapturesOK, Finalize
    PROVE  AnimationCore'
<1> DEFINE d == Call.defer
           w == defer[d].win
           p == defer[d].pane
<1>1. Doing("finalize")
  BY DEF Finalize
<1>2. /\ agenda \in Seq(Work) /\ agenda # <<>> /\ Call = agenda[1] /\ agenda[1] \in Work
      /\ agenda[1].op = "finalize" /\ 1 \in DOMAIN agenda
  BY <1>1, DoingFacts
<1>3. d \in Defer /\ agenda[1] = Finalizing(d)
  BY <1>2, CallTypes
<1>4. IF win[w].panes[p] = "none" THEN Fault("pane")
      ELSE /\ PaneGoes(w, p, Viewers(w), <<Unref(w)>> \o Tail(agenda))
           /\ defer' = [defer EXCEPT ![d] = NoDefer]
           /\ UNCHANGED <<ses, moves>>
  BY DEF Finalize
<1> HIDE DEF d
<1>5. defer[d].pending = 0 /\ defer[d] # NoDefer
  <2>1. Has(agenda, Finalizing(d))
    BY <1>2, <1>3 DEF Has
  <2> QED
    BY <1>3, <2>1, TypeParts DEF DefersNamed
<1>6. w \in Window /\ p \in PaneId
  <2>1. w # 0 /\ p # 0
    BY <1>3, <1>5, TypeParts DEF DefersNamed
  <2> QED
    BY <1>3, <2>1, TypeParts, DeferFields
<1> HIDE DEF w, p
<1>7. CASE win[w].panes[p] = "none"
  BY <1>4, <1>7, FaultStep
<1>8. CASE win[w].panes[p] # "none"
  <2>1. defer[d].win = w /\ defer[d].pane = p
    BY DEF w, p
  <2> QED
    BY <1>2, <1>3, <1>4, <1>5, <1>6, <1>8, <2>1, FinalizedKept
<1> QED
  BY <1>7, <1>8

----------------------------------------------------------------------------
(* What commands have captured.                                             *)

SizedKept == \A c \in Client : cli[c].sized => cli'[c].sized
PanesStay == \A v \in Window : Panes(v) # {} => Panes(v)' # {}

(* A client that changes in one field is otherwise what it was. *)
LEMMA SizeStays ==
    ASSUME NEW k \in ClientType, NEW x
    PROVE  /\ [k EXCEPT !.anim = x].sized = k.sized /\ [k EXCEPT !.overlay = x].sized = k.sized
           /\ [k EXCEPT !.session = x].sized = k.sized /\ [k EXCEPT !.listed = x].sized = k.sized
BY DEF ClientType

(* Captures that stay or are dropped. *)
LEMMA CapturesStay ==
    ASSUME CapturesOK, SizedKept, capture' \in [Client -> Window \cup {0}],
           \A c \in Client : capture'[c] # 0 =>
               capture'[c] = capture[c] /\ (Panes(capture[c]) # {} => Panes(capture[c])' # {})
    PROVE  CapturesOK'
<1> SUFFICES ASSUME NEW c \in Client, capture'[c] # 0
             PROVE  cli'[c].sized /\ Panes(capture[c])' # {}
  BY DEF CapturesOK, CapturesKept
<1>1. capture'[c] = capture[c] /\ (Panes(capture[c]) # {} => Panes(capture[c])' # {})
  OBVIOUS
<1>2. cli[c].sized /\ Panes(capture[c]) # {}
  BY <1>1 DEF CapturesOK, CapturesKept
<1>3. cli'[c].sized
  BY <1>2 DEF SizedKept
<1> QED
  BY <1>1, <1>2, <1>3

(* Nothing is captured or dropped. *)
LEMMA CapturesSame ==
    ASSUME CapturesOK, SizedKept, capture' = capture, PanesStay
    PROVE  CapturesOK'
<1>1. capture' \in [Client -> Window \cup {0}]
  BY DEF CapturesOK
<1>2. \A c \in Client : capture'[c] # 0 =>
          capture'[c] = capture[c] /\ (Panes(capture[c]) # {} => Panes(capture[c])' # {})
  <2> SUFFICES ASSUME NEW c \in Client, capture[c] # 0
               PROVE  Panes(capture[c]) # {} => Panes(capture[c])' # {}
    OBVIOUS
  <2>1. capture[c] \in Window
    BY DEF CapturesOK
  <2> QED
    BY <2>1 DEF PanesStay
<1> QED
  BY <1>1, <1>2, CapturesStay

(* Windows with the panes they had. *)
LEMMA SamePanes ==
    ASSUME \A v \in Window : win'[v].panes = win[v].panes
    PROVE  PanesStay
BY DEF PanesStay, Panes

(* Clients that change as they may keep their size. *)
LEMMA SizedMoved ==
    ASSUME ClientsChange
    PROVE  SizedKept
BY DEF SizedKept, ClientsChange, Moved

(* What changes no pane and no size. *)
LEMMA CapturesUntouched ==
    ASSUME CapturesOK, UNCHANGED <<win, capture>>, SizedKept
    PROVE  CapturesOK'
BY CapturesSame, SamePanes

(* One client changes, but not its size. *)
LEMMA OneResized ==
    ASSUME AnimationCore, NEW c \in Client, NEW l, cli' = [cli EXCEPT ![c] = l], cli[c].sized => l.sized
    PROVE  SizedKept
<1>1. \A e \in Client : cli'[e] = IF e = c THEN l ELSE cli[e]
  BY TypeParts
<1> QED
  BY <1>1 DEF SizedKept

(* What a layout leaves of the captures. *)
LEMMA LayoutCaptures ==
    ASSUME AnimationCore, CapturesOK, NEW C, NEW w \in Window, LayoutChanges(C, w)
    PROVE  /\ SizedKept /\ capture' \in [Client -> Window \cup {0}]
           /\ \A c \in Client : capture'[c] # 0 => capture'[c] = capture[c]
<1>1. SizedKept
  BY LayoutChanged, MovedChange, SizedMoved DEF MovesTo
<1>2. capture' = [c \in Client |-> IF c \in C THEN 0 ELSE capture[c]]
  <2>1. PICK moved \in SUBSET Starting(C, w) : LayoutMoves(C, w, moved)
    BY DEF LayoutChanges
  <2> QED
    BY ONLY <2>1, Zenon DEF LayoutMoves
<1> QED
  BY <1>1, <1>2 DEF CapturesOK

(* A pane goes, but a window that has been captured keeps one. *)
LEMMA PaneGoesCaptures ==
    ASSUME AnimationCore, CapturesOK, NEW w \in Window, NEW p \in PaneId, NEW C, NEW work,
           PaneGoes(w, p, C, work)
    PROVE  CapturesOK'
<1>1. PaneSet(w, p, "none")
  <2>1. win' = [win EXCEPT ![w].panes[p] = "none"] /\ "none" \in PaneState
    BY DEF PaneGoes, PaneState
  <2> QED
    BY <2>1, TypeParts, PaneSetFacts
<1>2. \A v \in Window : /\ v # w => Panes(v)' = Panes(v)
                        /\ v = w => Panes(v)' = Panes(w) \ {p}
  BY <1>1, PanesAfter
<1>3. CASE Panes(w) = {p}
  <2>1. capture' = Forgotten(C, w) /\ cli' = cli
    BY <1>3 DEF PaneGoes
  <2>2. capture' = [c \in Client |-> IF capture[c] = w \/ (c \in C /\ CanCapture(cli[c])) THEN 0 ELSE capture[c]]
    BY <2>1 DEF Forgotten
  <2>3. capture' \in [Client -> Window \cup {0}] /\ SizedKept
    BY <2>1, <2>2 DEF CapturesOK, SizedKept
  <2>4. ASSUME NEW c \in Client, capture'[c] # 0
        PROVE  capture'[c] = capture[c] /\ (Panes(capture[c]) # {} => Panes(capture[c])' # {})
    <3>1. capture'[c] = capture[c] /\ capture[c] # w
      BY <2>2, <2>4
    <3>2. capture[c] \in Window
      BY <2>4, <3>1 DEF CapturesOK
    <3> QED
      BY <1>2, <3>1, <3>2
  <2> QED
    BY <2>3, <2>4, CapturesStay
<1>4. CASE Panes(w) # {p}
  <2>1. LayoutChanges(C, w)
    BY <1>4 DEF PaneGoes
  <2>2. /\ SizedKept /\ capture' \in [Client -> Window \cup {0}]
        /\ \A c \in Client : capture'[c] # 0 => capture'[c] = capture[c]
    BY <2>1, LayoutCaptures
  <2>3. PanesStay
    <3>1. Panes(w) # {} => Panes(w) \ {p} # {}
      BY <1>4
    <3> QED
      BY <1>2, <3>1 DEF PanesStay
  <2>4. ASSUME NEW c \in Client, capture'[c] # 0
        PROVE  capture'[c] = capture[c] /\ (Panes(capture[c]) # {} => Panes(capture[c])' # {})
    <3>1. capture'[c] = capture[c] /\ capture[c] \in Window
      BY <2>2, <2>4 DEF CapturesOK
    <3> QED
      BY <2>3, <3>1 DEF PanesStay
  <2> QED
    BY <2>2, <2>4, CapturesStay
<1> QED
  BY <1>3, <1>4

(* A layout changes or not, and no window loses its last pane. *)
LEMMA LayoutKeeps ==
    ASSUME AnimationCore, CapturesOK, NEW C, NEW w \in Window, LayoutChanges(C, w), PanesStay
    PROVE  CapturesOK'
<1>1. /\ SizedKept /\ capture' \in [Client -> Window \cup {0}]
      /\ \A c \in Client : capture'[c] # 0 => capture'[c] = capture[c]
  BY LayoutCaptures
<1>2. ASSUME NEW c \in Client, capture'[c] # 0
      PROVE  capture'[c] = capture[c] /\ (Panes(capture[c]) # {} => Panes(capture[c])' # {})
  <2>1. capture'[c] = capture[c] /\ capture[c] \in Window
    BY <1>1, <1>2 DEF CapturesOK
  <2> QED
    BY <2>1 DEF PanesStay
<1> QED
  BY <1>1, <1>2, CapturesStay

(* A new pane leaves no window without one. *)
LEMMA NewPaneStays ==
    ASSUME AnimationCore, NEW w \in Window, NewPane(w)
    PROVE  PanesStay
<1>1. PICK p \in PaneId \ Panes(w) : win' = [win EXCEPT ![w].panes[p] = "running"]
  BY DEF NewPane
<1>2. PaneSet(w, p, "running")
  <2>1. "running" \in PaneState
    BY DEF PaneState
  <2> QED
    BY <1>1, <2>1, TypeParts, PaneSetFacts
<1>3. \A v \in Window : Panes(v)' \in {Panes(v), Panes(v) \cup {p}}
  BY <1>2, PanesAfter
<1> QED
  BY <1>3 DEF PanesStay

(* A slide does not change the size. *)
LEMMA SlidSized ==
    ASSUME NEW k \in ClientType, NEW w
    PROVE  SlidTo(k, w).sized = k.sized
<1> DEFINE a == k.anim
           b == IF a.kind = "slide" THEN [a EXCEPT !.win = w, !.over = FALSE] ELSE Anim("slide", w)
           l == [k EXCEPT !.overlay = "animation", !.anim = b]
<1>1. SlidTo(k, w) = k \/ SlidTo(k, w) = l
  BY DEF SlidTo
<1> HIDE DEF b
<1>2. l.sized = k.sized
  BY DEF ClientType
<1> QED
  BY <1>1, <1>2

(* A client forgets what it had captured. *)
LEMMA OneForgotten ==
    ASSUME CapturesOK, NEW c \in Client, capture' = [capture EXCEPT ![c] = 0], SizedKept, PanesStay
    PROVE  CapturesOK'
<1>1. capture' \in [Client -> Window \cup {0}]
  BY DEF CapturesOK
<1>2. ASSUME NEW e \in Client, capture'[e] # 0
      PROVE  capture'[e] = capture[e] /\ (Panes(capture[e]) # {} => Panes(capture[e])' # {})
  <2>1. capture'[e] = capture[e] /\ capture[e] \in Window
    BY <1>2 DEF CapturesOK
  <2> QED
    BY <2>1 DEF PanesStay
<1> QED
  BY <1>1, <1>2, CapturesStay

(* All forget a window that loses its panes. *)
LEMMA ForgottenKept ==
    ASSUME CapturesOK, NEW w \in Window, capture' = Forgotten({}, w), SizedKept,
           \A v \in Window : v # w => Panes(v)' = Panes(v)
    PROVE  CapturesOK'
<1>1. capture' = [c \in Client |-> IF capture[c] = w THEN 0 ELSE capture[c]]
  BY DEF Forgotten
<1>2. capture' \in [Client -> Window \cup {0}]
  BY <1>1 DEF CapturesOK
<1>3. ASSUME NEW c \in Client, capture'[c] # 0
      PROVE  capture'[c] = capture[c] /\ (Panes(capture[c]) # {} => Panes(capture[c])' # {})
  <2>1. capture'[c] = capture[c] /\ capture[c] # w /\ capture[c] \in Window
    BY <1>1, <1>3 DEF CapturesOK
  <2> QED
    BY <2>1
<1> QED
  BY <1>2, <1>3, CapturesStay

(* A window leaves a session, and no client its size. *)
LEMMA DetachSized ==
    ASSUME AnimationCore, NEW s \in Session, NEW w \in Window, w \in ses[s].linked, Detach(s, w)
    PROVE  SizedKept
<1> DEFINE next == IF ses[s].curw = w THEN Successor(s) ELSE ses[s].curw
<1>1. \/ cli' = Slid({s}, [t \in {s} |-> next])
      \/ \E t : cli' = [c \in Client |-> IF c \in Clients(s) THEN [cli[c] EXCEPT !.session = t]
                                                             ELSE cli[c]]
  BY DEF Detach
<1>2. CASE cli' = Slid({s}, [t \in {s} |-> next])
  <2> HIDE DEF next
  <2>1. \A c \in Client : cli'[c] = SlidTo(cli[c], [t \in {s} |-> next][cli[c].session]) \/ cli'[c] = cli[c]
    BY <1>2 DEF Slid
  <2> QED
    BY <2>1, TypeParts, SlidSized DEF SizedKept
<1>3. ASSUME NEW t, cli' = [c \in Client |-> IF c \in Clients(s) THEN [cli[c] EXCEPT !.session = t]
                                                                 ELSE cli[c]]
      PROVE  SizedKept
  BY <1>3, TypeParts, SizeStays DEF SizedKept
<1> QED
  BY <1>1, <1>2, <1>3

(* The calls of a handler keep the captures. *)
LEMMA HandleCaptures ==
    ASSUME AnimationCore, CapturesOK, Handle
    PROVE  CapturesOK'
<1>0. \A c \in Client : cli[c] \in ClientType
  BY TypeParts
<1>1. CASE ClearOverlay
  <2> DEFINE c == Call.client
  <2>1. /\ c \in Client
        /\ cli' = [cli EXCEPT ![c] = [cli[c] EXCEPT !.anim = NoAnimation]]
        /\ UNCHANGED <<win, capture>>
    BY <1>1, DoingFacts, CallTypes DEF ClearOverlay
  <2> HIDE DEF c
  <2> QED
    BY <1>0, <2>1, SizeStays, OneResized, CapturesUntouched
<1>2. CASE OverlayCleared
  <2> DEFINE c == Call.client
  <2>1. /\ c \in Client
        /\ cli' = [cli EXCEPT ![c] = [cli[c] EXCEPT !.overlay = "none"]]
        /\ UNCHANGED <<win, capture>>
    BY <1>2, DoingFacts, CallTypes DEF OverlayCleared
  <2> HIDE DEF c
  <2> QED
    BY <1>0, <2>1, SizeStays, OneResized, CapturesUntouched
<1>3. CASE Finalize
  <2> DEFINE d == Call.defer
             w == defer[d].win
             p == defer[d].pane
  <2>1. Doing("finalize")
    BY <1>3 DEF Finalize
  <2>2. agenda # <<>> /\ 1 \in DOMAIN agenda /\ Call = agenda[1] /\ d \in Defer /\ agenda[1] = Finalizing(d)
    BY <2>1, DoingFacts, CallTypes
  <2>3. \/ Fault("pane")
        \/ PaneGoes(w, p, Viewers(w), <<Unref(w)>> \o Tail(agenda))
    BY <1>3 DEF Finalize
  <2> HIDE DEF d
  <2>4. w \in Window /\ p \in PaneId
    <3>1. defer[d] # NoDefer
      BY <2>2, TypeParts DEF DefersNamed, Has
    <3>2. w # 0 /\ p # 0
      BY <2>2, <3>1, TypeParts DEF DefersNamed
    <3> QED
      BY <2>2, <3>2, TypeParts, DeferFields
  <2> HIDE DEF w, p
  <2>5. CASE Fault("pane")
    BY <2>5, CapturesUntouched DEF Fault, SizedKept
  <2> QED
    BY <2>3, <2>4, <2>5, PaneGoesCaptures
<1>4. CASE KillFromSession
  <2>1. /\ capture' = capture
        /\ \/ UNCHANGED <<cli, win>>
           \/ \E s \in Session, w \in Window : w \in ses[s].linked /\ Detach(s, w)
    <3>1. Doing("kill") /\ Call.win \in Window /\ Call.todo \subseteq Session
      <4>1. Doing("kill")
        BY <1>4 DEF KillFromSession
      <4> QED
        BY <4>1, DoingFacts, CallTypes
    <3> QED
      BY <1>4, <3>1 DEF KillFromSession, Linking
  <2>2. ASSUME NEW s \in Session, NEW w \in Window, w \in ses[s].linked, Detach(s, w) PROVE CapturesOK'
    <3>1. win' = [win EXCEPT ![w].noted = @ + 1]
      BY <2>2 DEF Detach
    <3>2. \A v \in Window : win'[v].panes = win[v].panes
      BY <3>1, TypeParts DEF WindowType
    <3>3. SizedKept
      BY <2>2, DetachSized
    <3> QED
      BY <2>1, <3>2, <3>3, SamePanes, CapturesSame
  <2>3. CASE UNCHANGED <<cli, win>>
    BY <2>1, <2>3, CapturesUntouched DEF SizedKept
  <2> QED
    BY <2>1, <2>2, <2>3
<1>5. CASE RemoveRef
  <2> DEFINE w == Call.win
  <2>1. /\ win' = [win EXCEPT ![w].refs = @ - 1] /\ UNCHANGED <<cli, capture>>
    BY <1>5 DEF RemoveRef
  <2>2. \A v \in Window : win'[v].panes = win[v].panes
    BY <2>1, TypeParts DEF WindowType
  <2> QED
    BY <2>1, <2>2, SamePanes, CapturesSame DEF SizedKept
<1>6. CASE Invalidate
  <2> DEFINE w == Call.win
  <2>1. w \in Window
    <3>1. Doing("invalidate")
      BY <1>6 DEF Invalidate
    <3> QED
      BY <3>1, DoingFacts, CallTypes
  <2>2. cli' = cli /\ \/ UNCHANGED <<win, capture>>
                      \/ /\ win' = [win EXCEPT ![w].panes = [p \in PaneId |-> "none"]]
                         /\ capture' = Forgotten({}, w)
    BY <1>6 DEF Invalidate
  <2> HIDE DEF w
  <2>3. CASE UNCHANGED <<win, capture>>
    BY <2>2, <2>3, CapturesUntouched DEF SizedKept
  <2>4. CASE /\ win' = [win EXCEPT ![w].panes = [p \in PaneId |-> "none"]]
             /\ capture' = Forgotten({}, w)
    <3>1. \A v \in Window : v # w => Panes(v)' = Panes(v)
      <4>1. \A v \in Window : v # w => win'[v].panes = win[v].panes
        BY <2>1, <2>4, TypeParts, PanesEmptied
      <4> QED
        BY <4>1 DEF Panes
    <3> QED
      BY <2>1, <2>2, <2>4, <3>1, ForgottenKept DEF SizedKept
  <2> QED
    BY <2>2, <2>3, <2>4
<1>7. CASE SetOverlay
  <2> DEFINE c == Call.client
  <2>1. c \in Client
    <3>1. Doing("set")
      BY <1>7 DEF SetOverlay
    <3> QED
      BY <3>1, DoingFacts, CallTypes
  <2>2. /\ cli' = cli \/ cli' = [cli EXCEPT ![c] = [cli[c] EXCEPT !.overlay = "other"]]
        /\ UNCHANGED <<win, capture>>
    BY <1>7 DEF SetOverlay, Fault
  <2> HIDE DEF c
  <2>3. SizedKept
    <3>1. CASE cli' = cli
      BY <3>1 DEF SizedKept
    <3>2. CASE cli' # cli
      BY <1>0, <2>1, <2>2, <3>2, SizeStays, OneResized
    <3> QED
      BY <3>1, <3>2
  <2> QED
    BY <2>2, <2>3, CapturesUntouched
<1>8. CASE SetPrompt
  <2>1. UNCHANGED <<cli, win, capture>>
    BY <1>8 DEF SetPrompt, Fault
  <2> QED
    BY <2>1, CapturesUntouched DEF SizedKept
<1>9. CASE ScrollForClient
  <2>1. UNCHANGED <<cli, win, capture>>
    BY <1>9 DEF ScrollForClient, Fault
  <2> QED
    BY <2>1, CapturesUntouched DEF SizedKept
<1>10. CASE SetPicture
  <2> DEFINE c == Call.client
             a == Anim("picture", 0)
  <2>1. c \in Client
    <3>1. Doing("picture")
      BY <1>10 DEF SetPicture
    <3> QED
      BY <3>1, DoingFacts, CallTypes
  <2>2. /\ cli' = cli \/ cli' = [cli EXCEPT ![c] = [[cli[c] EXCEPT !.overlay = "animation"] EXCEPT !.anim = a]]
        /\ UNCHANGED <<win, capture>>
    BY <1>10 DEF SetPicture, Fault
  <2> HIDE DEF c, a
  <2>3. SizedKept
    <3>1. CASE cli' = cli
      BY <3>1 DEF SizedKept
    <3>2. CASE cli' # cli
      <4> DEFINE k == [cli[c] EXCEPT !.overlay = "animation"]
      <4>1. k \in ClientType /\ k.sized = cli[c].sized
        BY <1>0, <2>1, ClientOverlay
      <4>2. cli' = [cli EXCEPT ![c] = [k EXCEPT !.anim = a]]
        BY <2>2, <3>2
      <4> HIDE DEF k
      <4> QED
        BY <2>1, <4>1, <4>2, SizeStays, OneResized
    <3> QED
      BY <3>1, <3>2
  <2> QED
    BY <2>2, <2>3, CapturesUntouched
<1>11. CASE RemoveClient
  <2> DEFINE c == Call.client
  <2>1. c \in Client
    <3>1. Doing("lost")
      BY <1>11 DEF RemoveClient
    <3> QED
      BY <3>1, DoingFacts, CallTypes
  <2>2. /\ cli' = [cli EXCEPT ![c] = [[cli[c] EXCEPT !.listed = FALSE] EXCEPT !.session = 0]]
        /\ capture' = [capture EXCEPT ![c] = 0] /\ win' = win
    BY <1>11 DEF RemoveClient
  <2> HIDE DEF c
  <2>3. SizedKept
    <3> DEFINE k == [cli[c] EXCEPT !.listed = FALSE]
    <3>1. k \in ClientType /\ k.sized = cli[c].sized
      BY <1>0, <2>1, ClientListed
    <3>2. cli' = [cli EXCEPT ![c] = [k EXCEPT !.session = 0]]
      BY <2>2
    <3> HIDE DEF k
    <3> QED
      BY <2>1, <3>1, <3>2, SizeStays, OneResized
  <2>4. PanesStay
    BY <2>2 DEF PanesStay, Panes
  <2> QED
    BY <2>1, <2>2, <2>3, <2>4, OneForgotten
<1> QED
  BY <1>1, <1>2, <1>3, <1>4, <1>5, <1>6, <1>7, <1>8, <1>9, <1>10, <1>11 DEF Handle

(* A pane that waits to be closed is there. *)
LEMMA WaitingStays ==
    ASSUME AnimationCore, NEW w \in Window, NEW p \in PaneId, DeferClose(w, p)
    PROVE  PanesStay
<1> DEFINE t == TurnAway(w)
           d == CHOOSE e \in Defer : defer[e] = NoDefer
<1>1. /\ ses' = t.ses
      /\ cli' = [c \in Client |-> IF c \in t.carriers
                                  THEN [t.cli[c] EXCEPT !.anim.defer = d] ELSE t.cli[c]]
      /\ defer' = [defer EXCEPT ![d] = [win |-> w, pane |-> p,
                                        pending |-> Cardinality(t.carriers)]]
      /\ win' = [win EXCEPT ![w].refs = @ + 1, ![w].panes[p] = "closing"]
  BY DEF DeferClose
<1> HIDE DEF t, d
<1>2. PaneWaits(w, p)
  <2>1. win \in [Window -> WindowType]
    BY TypeParts
  <2>2. win' = [win EXCEPT ![w].refs = @ + 1, ![w].panes[p] = "closing"]
    BY ONLY <1>1
  <2> QED
    BY ONLY <2>1, <2>2, PaneWaitsFacts, w \in Window, p \in PaneId, Zenon
<1>3. \A v \in Window : Panes(v) \subseteq Panes(v)'
  BY <1>2 DEF PaneWaits, Panes
<1> QED
  BY <1>3 DEF PanesStay

(* SelectWindow and PaneExits keep the captures. *)
LEMMA TurnCaptures ==
    /\ AnimationCore /\ CapturesOK =>
         \A s \in Session, w \in Window : SelectWindow(s, w) => CapturesOK'
    /\ AnimationCore /\ CapturesOK =>
         \A w \in Window, p \in PaneId : PaneExits(w, p) => CapturesOK'
<1> SUFFICES ASSUME AnimationCore, CapturesOK
             PROVE  /\ \A s \in Session, w \in Window : SelectWindow(s, w) => CapturesOK'
                    /\ \A w \in Window, p \in PaneId : PaneExits(w, p) => CapturesOK'
  OBVIOUS
<1>1. ASSUME NEW s \in Session, NEW w \in Window, SelectWindow(s, w) PROVE CapturesOK'
  <2>1. cli' = Slid({s}, [t \in {s} |-> w]) /\ UNCHANGED <<win, capture>>
    BY <1>1 DEF SelectWindow
  <2>2. \A c \in Client : cli'[c] = SlidTo(cli[c], [t \in {s} |-> w][cli[c].session]) \/ cli'[c] = cli[c]
    BY <2>1 DEF Slid
  <2>3. SizedKept
    BY <2>2, TypeParts, SlidSized DEF SizedKept
  <2> QED
    BY <2>1, <2>3, CapturesUntouched
<1>2. ASSUME NEW w \in Window, NEW p \in PaneId, PaneExits(w, p) PROVE CapturesOK'
  <2> DEFINE t == TurnAway(w)
  <2>1. CASE ~(Panes(w) = {p} /\ Deferring(w))
    <3>1. PaneGoes(w, p, Viewers(w), <<>>)
      BY <1>2, <2>1 DEF PaneExits
    <3> QED
      BY <3>1, PaneGoesCaptures
  <2>2. CASE Panes(w) = {p} /\ Deferring(w)
    <3>1. Turned(t)
      BY <2>2, TurnAwayFacts
    <3>2. CASE t.carriers # {}
      <4>1. DeferClose(w, p) /\ UNCHANGED capture
        BY <1>2, <2>2, <3>2 DEF PaneExits
      <4> DEFINE d == CHOOSE e \in Defer : defer[e] = NoDefer
      <4>2. cli' = [c \in Client |-> IF c \in t.carriers
                                     THEN [t.cli[c] EXCEPT !.anim.defer = d] ELSE t.cli[c]]
        BY <4>1 DEF DeferClose
      <4> HIDE DEF t, d
      <4>3. SizedKept
        <5>1. /\ t.cli \in [Client -> ClientType]
              /\ \A c \in Client : cli[c].sized => t.cli[c].sized
          BY <3>1 DEF Turned, ClientsMoved, DrawnTo, MovedTo, Moved
        <5>2. d \in Defer => Carried(t, d)
          BY <4>2, <5>1, CarriedFacts
        <5>3. d \in Defer
          <6>1. PICK c \in t.carriers : TRUE
            BY <3>2
          <6>2. c \in Client /\ t.cli[c].anim.defer = 0
            BY <3>1, <6>1 DEF Turned
          <6>3. cli[c].anim.defer = 0
            BY <3>1, <6>2 DEF Turned, ClientsMoved, DrawnTo, MovedTo, Moved
          <6>4. agenda = <<>>
            BY <1>2 DEF PaneExits, Move, Quiet
          <6>5. \E e \in Defer : defer[e] = NoDefer
            BY <6>2, <6>3, <6>4, FreeDefer
          <6> QED
            BY <6>5 DEF d
        <5> QED
          BY <5>1, <5>2, <5>3 DEF SizedKept, Carried
      <4>4. PanesStay
        BY <4>1, WaitingStays
      <4> QED
        BY <4>1, <4>3, <4>4, CapturesSame
    <3>3. CASE t.carriers = {}
      <4>1. /\ cli' = t.cli /\ capture' = Forgotten({}, w)
            /\ win' = [win EXCEPT ![w].panes[p] = "none"]
        BY <1>2, <2>2, <3>3 DEF PaneExits
      <4> HIDE DEF t
      <4>2. SizedKept
        BY <3>1, <4>1 DEF Turned, ClientsMoved, DrawnTo, MovedTo, Moved, SizedKept
      <4>3. \A v \in Window : v # w => Panes(v)' = Panes(v)
        <5>1. "none" \in PaneState
          BY DEF PaneState
        <5>2. PaneSet(w, p, "none")
          BY <4>1, <5>1, TypeParts, PaneSetFacts
        <5> QED
          BY <5>2, PanesAfter
      <4> QED
        BY <4>1, <4>2, <4>3, ForgottenKept
    <3> QED
      BY <3>2, <3>3
  <2> QED
    BY <2>1, <2>2
<1> QED
  BY <1>1, <1>2

(* The commands that change a layout keep the captures. *)
LEMMA LayoutCommandCaptures ==
    ASSUME AnimationCore, CapturesOK, NEW c \in Client, NEW w \in Window,
           SplitWindow(c, w) \/ SplitFails(c, w) \/ ZoomPane(c, w) \/ \E p \in PaneId : KillPane(c, w, p)
    PROVE  CapturesOK'
<1>1. CASE SplitWindow(c, w)
  <2>1. NewPane(w) /\ LayoutChanges({c}, w)
    BY <1>1 DEF SplitWindow, LayoutChanges
  <2> QED
    BY <2>1, NewPaneStays, LayoutKeeps
<1>2. CASE SplitFails(c, w)
  <2>1. \/ LayoutChanges({c}, w) /\ UNCHANGED win
        \/ /\ NewPane(w) \/ UNCHANGED win
           /\ capture' = Captured(c, w) /\ cli' = cli
    BY <1>2 DEF SplitFails
  <2>2. PanesStay
    <3>1. CASE UNCHANGED win
      BY <3>1, SamePanes
    <3> QED
      BY <2>1, <3>1, NewPaneStays
  <2>3. CASE LayoutChanges({c}, w)
    BY <2>2, <2>3, LayoutKeeps
  <2>4. CASE capture' = Captured(c, w) /\ cli' = cli
    <3>1. capture' = [capture EXCEPT ![c] = IF CanCapture(cli[c]) THEN w ELSE @]
      BY <2>4 DEF Captured
    <3>2. capture' \in [Client -> Window \cup {0}]
      BY <3>1 DEF CapturesOK
    <3>3. Panes(w)' # {}
      <4>1. Linking(w) # {} /\ agenda = <<>>
        BY <1>2 DEF SplitFails, Move, Quiet
      <4>2. Panes(w) # {}
        BY <4>1, TypeParts DEF PanesKept
      <4> QED
        BY <2>2, <4>2 DEF PanesStay
    <3>4. ASSUME NEW e \in Client, capture'[e] # 0
          PROVE  cli'[e].sized /\ Panes(capture[e])' # {}
      <4>1. CASE capture'[e] = capture[e]
        <5>1. capture[e] \in Window /\ cli[e].sized /\ Panes(capture[e]) # {}
          BY <3>4, <4>1 DEF CapturesOK, CapturesKept
        <5> QED
          BY <2>2, <2>4, <4>1, <5>1 DEF PanesStay
      <4>2. CASE capture'[e] # capture[e]
        <5>1. e = c /\ CanCapture(cli[c]) /\ capture'[e] = w
          BY <3>1, <4>2 DEF CapturesOK
        <5> QED
          BY <2>4, <3>3, <5>1 DEF CanCapture
      <4> QED
        BY <4>1, <4>2
    <3> QED
      BY <3>2, <3>4 DEF CapturesOK, CapturesKept
  <2> QED
    BY <2>1, <2>3, <2>4
<1>3. CASE ZoomPane(c, w)
  <2>1. LayoutChanges({c}, w) /\ win' = win
    BY <1>3 DEF ZoomPane
  <2> QED
    BY <2>1, SamePanes, LayoutKeeps
<1>4. ASSUME NEW p \in PaneId, KillPane(c, w, p) PROVE CapturesOK'
  <2>1. CASE Panes(w) = {p}
    <3>1. capture' = [capture EXCEPT ![c] = 0] /\ UNCHANGED <<cli, win>>
      BY <1>4, <2>1 DEF KillPane
    <3> QED
      BY <3>1, SamePanes, OneForgotten DEF SizedKept
  <2>2. CASE Panes(w) # {p}
    <3>1. PaneGoes(w, p, {c}, <<>>)
      BY <1>4, <2>2 DEF KillPane
    <3> QED
      BY <3>1, PaneGoesCaptures
  <2> QED
    BY <2>1, <2>2
<1> QED
  BY <1>1, <1>2, <1>3, <1>4

(* So do the other handlers that start animations. *)
LEMMA BegunCaptures ==
    ASSUME AnimationCore, CapturesOK, NEW w \in Window, AlternateScreen(w) \/ PaneMode(w)
    PROVE  CapturesOK'
<1>1. UNCHANGED <<win, capture>>
  BY DEF AlternateScreen, PaneMode
<1>2. \/ cli' = cli \/ cli' = BegunBy(Viewers(w), "panes", w)
      \/ cli' = BegunBy(Viewers(w), "picture", 0)
  BY DEF AlternateScreen, PaneMode
<1>3. SizedKept
  <2>1. ClientsMoved(cli', {w}) \/ ClientsMoved(cli', {0})
    BY <1>2, TypeParts, SameClients, BegunByFacts
  <2> QED
    BY <2>1, MovedChange, SizedMoved DEF MovesTo
<1> QED
  BY <1>1, <1>3, CapturesUntouched

(* So do those that change one client. *)
LEMMA ClientCaptures ==
    ASSUME AnimationCore, CapturesOK, NEW c \in Client,
           SetSize(c) \/ TimeUp(c) \/ \E s \in Session : SwitchClient(c, s)
    PROVE  CapturesOK'
<1>0. cli[c] \in ClientType
  BY TypeParts
<1>1. UNCHANGED <<win, capture>>
  BY DEF SetSize, TimeUp, SwitchClient
<1>2. CASE SetSize(c)
  <2>1. cli' = [cli EXCEPT ![c] = [cli[c] EXCEPT !.sized = TRUE]]
    BY <1>2 DEF SetSize
  <2>2. [cli[c] EXCEPT !.sized = TRUE].sized
    BY <1>0, ClientSized
  <2> QED
    BY <1>1, <2>1, <2>2, OneResized, CapturesUntouched
<1>3. CASE TimeUp(c)
  <2>1. cli' = [cli EXCEPT ![c] = [cli[c] EXCEPT !.anim = [cli[c].anim EXCEPT !.over = TRUE]]]
    BY <1>3 DEF TimeUp
  <2> QED
    BY <1>0, <1>1, <2>1, SizeStays, OneResized, CapturesUntouched
<1>4. ASSUME NEW s \in Session, SwitchClient(c, s) PROVE CapturesOK'
  <2>1. cli' = [cli EXCEPT ![c] = [cli[c] EXCEPT !.session = s]]
    BY <1>4 DEF SwitchClient
  <2> QED
    BY <1>0, <1>1, <2>1, SizeStays, OneResized, CapturesUntouched
<1> QED
  BY <1>2, <1>3, <1>4

(* So do those that change one window but leave it its panes. *)
LEMMA WindowCaptures ==
    ASSUME AnimationCore, CapturesOK, NEW w \in Window,
           Notified(w) \/ \E p \in PaneId : RespawnPane(w, p)
    PROVE  CapturesOK'
<1>1. UNCHANGED <<cli, capture>>
  BY DEF Notified, RespawnPane
<1>2. CASE Notified(w)
  <2>1. win' = [win EXCEPT ![w].noted = @ - 1]
    BY <1>2 DEF Notified
  <2>2. \A v \in Window : win'[v].panes = win[v].panes
    BY <2>1, TypeParts DEF WindowType
  <2> QED
    BY <1>1, <2>2, SamePanes, CapturesSame DEF SizedKept
<1>3. ASSUME NEW p \in PaneId, RespawnPane(w, p) PROVE CapturesOK'
  <2>1. PaneSet(w, p, "revived")
    <3>1. win' = [win EXCEPT ![w].panes[p] = "revived"] /\ "revived" \in PaneState
      BY <1>3 DEF RespawnPane, PaneState
    <3> QED
      BY <3>1, TypeParts, PaneSetFacts
  <2>2. \A v \in Window : Panes(v)' \in {Panes(v), Panes(v) \cup {p}}
    BY <2>1, PanesAfter
  <2>3. PanesStay
    BY <2>2 DEF PanesStay
  <2> QED
    BY <1>1, <2>3, CapturesSame DEF SizedKept
<1> QED
  BY <1>2, <1>3

(* Those that only put calls on the agenda have nothing to do with them. *)
LEMMA CallCaptures ==
    ASSUME CapturesOK, UNCHANGED <<cli, win, capture>>
    PROVE  CapturesOK'
BY CapturesUntouched DEF SizedKept

(* Every step keeps the captures. *)
LEMMA CapturesStep ==
    ASSUME AnimationCore, CapturesOK, AnimationNext
    PROVE  CapturesOK'
<1>1. CASE UserNext
  <2>1. CASE \/ \E w \in Window, p \in PaneId : Scroll(w, p)
             \/ \E w \in Window : KillWindow(w)
             \/ \E c \in Client : ShowOverlay(c) \/ ShowPrompt(c) \/ EndOverlay(c) \/ ClientLost(c)
    <3>1. UNCHANGED <<cli, win, capture>>
      BY <2>1 DEF Scroll, KillWindow, ShowOverlay, ShowPrompt, EndOverlay, ClientLost
    <3> QED
      BY <3>1, CallCaptures
  <2>2. CASE \E c \in Client : SetSize(c) \/ \E s \in Session : SwitchClient(c, s)
    BY <2>2, ClientCaptures
  <2> QED
    BY <1>1, <2>1, <2>2, TurnCaptures, WindowCaptures, BegunCaptures, LayoutCommandCaptures DEF UserNext
<1>2. CASE LoopNext
  <2>1. CASE \E c \in Client : LastFrame(c)
    <3>1. UNCHANGED <<cli, win, capture>>
      BY <2>1 DEF LastFrame
    <3> QED
      BY <3>1, CallCaptures
  <2> QED
    BY <1>2, <2>1, WindowCaptures, ClientCaptures DEF LoopNext
<1> QED
  BY <1>1, <1>2, HandleCaptures DEF AnimationNext

----------------------------------------------------------------------------
(* The initial states, and every step.                                      *)

LEMMA InitSessions ==
    ASSUME NEW S \in SUBSET Window, S # {},
           NEW k, k = [linked |-> S, lastw |-> <<>>, curw |-> CHOOSE w \in S : \A v \in S : w <= v]
    PROVE  k \in SessionType /\ SessionOK(k) /\ k.linked = S
<1> DEFINE m == CHOOSE w \in S : \A v \in S : w <= v
<1>1. S \in SUBSET Nat
  BY AnimationAssumption
<1>2. \E w \in S : \A v \in S : w <= v
  BY <1>1, LeastNumber
<1>3. m \in S
  BY <1>2
<1> DEFINE q == <<>>
<1>4. k = SessionWith(S, m, q) /\ q \in Seq(Window) /\ DOMAIN q = {}
  BY DEF SessionWith
<1> HIDE DEF m, q
<1>5. k \in SessionType /\ k.linked = S /\ k.curw = m /\ k.lastw = q
  <2>1. S \in SUBSET Window /\ m \in Window \cup {0} /\ q \in Seq(Window) /\ k = SessionWith(S, m, q)
    BY <1>3, <1>4
  <2> QED
    BY ONLY <2>1, SessionWithFacts
<1>6. SessionOK(k)
  BY ONLY <1>3, <1>4, <1>5 DEF SessionOK, Distinct
<1> QED
  BY <1>5, <1>6

(* A window at the start: one pane if it is linked. *)
LEMMA InitWindows ==
    ASSUME NEW n \in Nat,
           NEW k, k = [panes |-> [p \in PaneId |-> IF p = 1 /\ n > 0 THEN "running" ELSE "none"],
                       refs |-> n, noted |-> 0]
    PROVE  /\ k \in WindowType /\ k.refs = n /\ k.noted = 0
           /\ \A p \in PaneId : k.panes[p] \in {"running", "none"}
           /\ n = 0 => \A p \in PaneId : k.panes[p] = "none"
           /\ n # 0 => k.panes[1] = "running" /\ 1 \in PaneId
<1> DEFINE a == [p \in PaneId |-> IF p = 1 /\ n > 0 THEN "running" ELSE "none"]
<1>1. /\ a \in [PaneId -> PaneState]
      /\ \A p \in PaneId : a[p] \in {"running", "none"}
      /\ n = 0 => \A p \in PaneId : a[p] = "none"
      /\ n # 0 => a[1] = "running" /\ 1 \in PaneId
  BY DEF PaneId, PaneState
<1>2. k = WindowWith(a, n, 0)
  BY DEF WindowWith
<1> HIDE DEF a
<1>3. k \in WindowType /\ k.panes = a /\ k.refs = n /\ k.noted = 0
  BY <1>1, <1>2, WindowWithFacts
<1> QED
  BY <1>1, <1>3

(* A client at the start. *)
LEMMA InitClients ==
    ASSUME NEW t \in BOOLEAN, NEW u \in Session \cup {0},
           NEW k, k = [listed |-> TRUE, session |-> u, sized |-> t, overlay |-> "none", anim |-> NoAnimation]
    PROVE  /\ k \in ClientType /\ k.session = u /\ k.anim.win = 0 /\ k.anim.defer = 0
           /\ k.anim.kind = "none" /\ k.anim = NoAnimation /\ k.overlay = "none" /\ k.listed
<1>1. /\ NoAnimation \in AnimationType /\ NoAnimation.win = 0 /\ NoAnimation.defer = 0
      /\ NoAnimation.kind = "none"
  BY DEF NoAnimation, AnimationType
<1> HIDE DEF NoAnimation
<1>2. k \in ClientType /\ k.anim = NoAnimation /\ k.session = u /\ k.overlay = "none" /\ k.listed
  BY <1>1 DEF ClientType
<1> QED
  BY <1>1, <1>2

(* The initial states satisfy the invariant. *)
LEMMA AnimationStart ==
    AnimationInit => AnimationCore
<1> SUFFICES ASSUME AnimationInit PROVE AnimationCore
  OBVIOUS
<1>1. PICK at \in Placement, of \in [Client -> Session] :
         /\ \A s \in Session : at[s] # {}
         /\ ses = [s \in Session |->
                     [linked |-> at[s], lastw |-> <<>>,
                      curw |-> CHOOSE w \in at[s] : \A v \in at[s] : w <= v]]
         /\ win = [w \in Window |->
                     LET n == Cardinality({s \in Session : w \in at[s]}) IN
                     [panes |-> [p \in PaneId |-> IF p = 1 /\ n > 0 THEN "running" ELSE "none"],
                      refs |-> n, noted |-> 0]]
         /\ cli = [c \in Client |->
                     [listed |-> TRUE, session |-> of[c], sized |-> c \notin Control,
                      overlay |-> "none", anim |-> NoAnimation]]
  BY DEF AnimationInit
<1>2. defer = [d \in Defer |-> NoDefer] /\ agenda = <<>> /\ fault = "none" /\ moves = 0
  BY DEF AnimationInit
<1>3. at \in [Session -> SUBSET Window] /\ IsFiniteSet(Session) /\ MaxMoves \in Nat
      /\ 0 \notin Window
  BY AnimationAssumption
<1>4. \A s \in Session : ses[s] \in SessionType /\ SessionOK(ses[s]) /\ ses[s].linked = at[s]
  <2> SUFFICES ASSUME NEW s \in Session
               PROVE  ses[s] \in SessionType /\ SessionOK(ses[s]) /\ ses[s].linked = at[s]
    OBVIOUS
  <2> DEFINE S == at[s]
             k == ses[s]
  <2>1. S \in SUBSET Window /\ S # {}
    BY <1>1, <1>3
  <2>2. k = [linked |-> S, lastw |-> <<>>, curw |-> CHOOSE w \in S : \A v \in S : w <= v]
    BY <1>1
  <2> HIDE DEF S, k
  <2>3. k \in SessionType /\ SessionOK(k) /\ k.linked = S
    BY ONLY <2>1, <2>2, InitSessions
  <2> QED
    BY <2>3 DEF S, k
<1> DEFINE N(w) == Cardinality({s \in Session : w \in at[s]})
<1>5. \A w \in Window : N(w) \in Nat
  <2> SUFFICES ASSUME NEW w \in Window PROVE N(w) \in Nat
    OBVIOUS
  <2>1. IsFiniteSet({s \in Session : w \in at[s]})
    BY <1>3, FS_Subset
  <2> QED
    BY <2>1, FS_CardinalityType
<1>6. \A w \in Window :
         /\ win[w] \in WindowType /\ win[w].refs = N(w) /\ win[w].noted = 0
         /\ \A p \in PaneId : win[w].panes[p] \in {"running", "none"}
         /\ N(w) = 0 => \A p \in PaneId : win[w].panes[p] = "none"
         /\ N(w) # 0 => win[w].panes[1] = "running" /\ 1 \in PaneId
  <2> SUFFICES ASSUME NEW w \in Window
      PROVE  /\ win[w] \in WindowType /\ win[w].refs = N(w) /\ win[w].noted = 0
             /\ \A p \in PaneId : win[w].panes[p] \in {"running", "none"}
             /\ N(w) = 0 => \A p \in PaneId : win[w].panes[p] = "none"
             /\ N(w) # 0 => win[w].panes[1] = "running" /\ 1 \in PaneId
    OBVIOUS
  <2> DEFINE n == N(w)
             k == win[w]
  <2>1. n \in Nat
    BY <1>5
  <2>2. k = [panes |-> [p \in PaneId |-> IF p = 1 /\ n > 0 THEN "running" ELSE "none"],
             refs |-> n, noted |-> 0]
    BY <1>1
  <2> HIDE DEF n, k, N
  <2>3. /\ k \in WindowType /\ k.refs = n /\ k.noted = 0
        /\ \A p \in PaneId : k.panes[p] \in {"running", "none"}
        /\ n = 0 => \A p \in PaneId : k.panes[p] = "none"
        /\ n # 0 => k.panes[1] = "running" /\ 1 \in PaneId
    BY ONLY <2>1, <2>2, InitWindows
  <2> QED
    BY <2>3 DEF n, k
<1>7. \A w \in Window : Linking(w) = {s \in Session : w \in at[s]} /\ Cardinality(Linking(w)) = N(w)
  BY <1>4 DEF Linking
<1>8. \A w \in Window : N(w) = 0 => Linking(w) = {}
  <2> SUFFICES ASSUME NEW w \in Window, N(w) = 0 PROVE Linking(w) = {}
    OBVIOUS
  <2>1. IsFiniteSet(Linking(w))
    BY <1>3, <1>7, FS_Subset
  <2> QED
    BY <1>7, <2>1, FS_EmptySet
<1>9. \A c \in Client :
         /\ cli[c] \in ClientType /\ cli[c].session = of[c] /\ cli[c].anim.win = 0 /\ cli[c].anim.defer = 0
         /\ cli[c].anim.kind = "none" /\ cli[c].anim = NoAnimation /\ cli[c].overlay = "none" /\ cli[c].listed
  <2> SUFFICES ASSUME NEW c \in Client
      PROVE  /\ cli[c] \in ClientType /\ cli[c].session = of[c] /\ cli[c].anim.win = 0 /\ cli[c].anim.defer = 0
             /\ cli[c].anim.kind = "none" /\ cli[c].anim = NoAnimation /\ cli[c].overlay = "none" /\ cli[c].listed
    OBVIOUS
  <2> DEFINE t == c \notin Control
             u == of[c]
             k == cli[c]
  <2>1. t \in BOOLEAN /\ u \in Session \cup {0}
    BY <1>1
  <2>2. k = [listed |-> TRUE, session |-> u, sized |-> t, overlay |-> "none", anim |-> NoAnimation]
    BY <1>1
  <2> HIDE DEF t, u, k
  <2>3. /\ k \in ClientType /\ k.session = u /\ k.anim.win = 0 /\ k.anim.defer = 0
        /\ k.anim.kind = "none" /\ k.anim = NoAnimation /\ k.overlay = "none" /\ k.listed
    BY ONLY <2>1, <2>2, InitClients
  <2> QED
    BY <2>3 DEF u, k
<1>10. \A d \in Defer : defer[d] = NoDefer /\ defer[d].win = 0 /\ defer[d].pending = 0
  BY <1>2 DEF NoDefer
<1>11. TypesKept
  <2>1. cli \in [Client -> ClientType] /\ ses \in [Session -> SessionType] /\ win \in [Window -> WindowType]
    <3>1. cli \in [Client -> ClientType]
      <4>1. cli = [c \in Client |-> cli[c]]
        BY <1>1
      <4> QED
        BY <1>9, <4>1
    <3>2. ses \in [Session -> SessionType]
      <4>1. ses = [s \in Session |-> ses[s]]
        BY <1>1
      <4> QED
        BY <1>4, <4>1
    <3>3. win \in [Window -> WindowType]
      <4>1. win = [w \in Window |-> win[w]]
        BY <1>1
      <4> HIDE DEF N
      <4> QED
        BY <1>6, <4>1
    <3> QED
      BY <3>1, <3>2, <3>3
  <2>2. defer \in [Defer -> DeferType]
    <3>1. NoDefer \in DeferType
      BY DEF NoDefer, DeferType
    <3> QED
      BY <1>2, <3>1
  <2>3. moves \in 0 .. MaxMoves
    BY <1>2, <1>3
  <2> QED
    BY <1>2, <2>1, <2>2, <2>3 DEF TypesKept, Faults
<1>12. CurrentWindowLinked
  <2>1. \A s \in Session : SessionOK(ses[s])
    BY <1>4
  <2>2. \A c \in Client : cli[c].session # 0 => Alive(cli[c].session)
    BY <1>1, <1>4, <1>9 DEF Alive
  <2> QED
    BY <2>1, <2>2, CurrentSplit
<1>13. CarriersCounted
  <2>1. \A d \in Defer : {c \in Client : cli[c].anim.defer = d} = {}
    BY <1>9, NoDeferZero
  <2>2. \A d \in Defer : Cardinality({c \in Client : cli[c].anim.defer = d}) = 0
    BY <2>1, FS_EmptySet
  <2> QED
    BY <1>10, <2>1, <2>2 DEF CarriersCounted
<1>14. OverlaysOwned
  BY <1>2, <1>9 DEF OverlaysOwned, Owns, Has
<1>15. InOrder(agenda)
  BY <1>2, EmptyAgenda
<1>16. DefersNamed
  <2> HIDE DEF N
  <2> QED
    BY <1>2, <1>3, <1>6, <1>10 DEF DefersNamed, Has
<1>17. RefsCounted
  <2> SUFFICES ASSUME NEW w \in Window
      PROVE  win[w].refs = Cardinality(Linking(w)) + win[w].noted + Cardinality(Deferred(w))
                           + Cardinality(Occurrences(agenda, Unref(w)))
    BY DEF RefsCounted
  <2>1. Deferred(w) = {}
    BY <1>3, <1>10 DEF Deferred
  <2>2. Cardinality(Deferred(w)) = 0
    BY <2>1, FS_EmptySet
  <2>3. Cardinality(Occurrences(agenda, Unref(w))) = 0
    BY <1>2, NoOccurrences
  <2>4. Cardinality(Linking(w)) = N(w) /\ N(w) \in Nat /\ win[w].refs = N(w) /\ win[w].noted = 0
    <3>1. N(w) \in Nat
      BY <1>5
    <3>2. Cardinality(Linking(w)) = N(w)
      BY <1>7
    <3> HIDE DEF N
    <3> QED
      BY <1>6, <3>1, <3>2
  <2> HIDE DEF N
  <2> QED
    BY <2>2, <2>3, <2>4
<1>18. PanesKept
  <2> SUFFICES ASSUME NEW w \in Window
      PROVE  /\ win[w].refs = 0 => Panes(w) = {}
             /\ ~(Linking(w) # {} /\ Panes(w) = {})
    BY <1>2 DEF PanesKept
  <2> HIDE DEF N
  <2>1. win[w].refs = 0 => Panes(w) = {}
    BY <1>6 DEF Panes
  <2>2. ASSUME Linking(w) # {} PROVE Panes(w) # {}
    BY <1>6, <1>8, <2>2 DEF Panes
  <2> QED
    BY <2>1, <2>2
<1>19. DrawnKept
  BY <1>9 DEF DrawnKept
<1> QED
  BY <1>11, <1>12, <1>13, <1>14, <1>15, <1>16, <1>17, <1>18, <1>19 DEF AnimationCore

(* A step that changes nothing keeps the invariant. *)
LEMMA Stutter ==
    ASSUME AnimationCore, UNCHANGED vars
    PROVE  AnimationCore'
<1>1. cli' = cli /\ ses' = ses /\ win' = win /\ defer' = defer /\ agenda' = agenda
      /\ fault' = fault /\ moves' = moves
  BY DEF vars
<1>2. TypesKept' /\ InOrder(agenda')
  BY <1>1, TypeParts DEF TypesKept
<1>3. CurrentWindowLinked'
  BY <1>1, TypeParts DEF CurrentWindowLinked, Alive
<1>4. CarriersCounted'
  BY <1>1, TypeParts, CarriersSame
<1>5. OverlaysOwned'
  BY <1>1, TypeParts DEF OverlaysOwned
<1>6. DefersNamed'
  BY <1>1, TypeParts DEF DefersNamed
<1>7. RefsCounted'
  BY <1>1, TypeParts DEF RefsCounted, Linking, Deferred
<1>8. PanesKept'
  BY <1>1, TypeParts DEF PanesKept, Panes, Linking
<1>9. DrawnKept'
  BY <1>1, TypeParts DEF DrawnKept
<1> QED
  BY <1>2, <1>3, <1>4, <1>5, <1>6, <1>7, <1>8, <1>9 DEF AnimationCore

(* Every step keeps the invariant. *)
LEMMA AnimationStep ==
    ASSUME AnimationCore, CapturesOK, AnimationNext
    PROVE  AnimationCore'
<1>1. CASE Handle
  BY <1>1, ClearOverlayStep, OverlayClearedStep, FinalizeStep, KillFromSessionStep, RemoveRefStep,
     InvalidateStep, SetOverlayStep, SetPromptStep, ScrollForClientStep, SetPictureStep,
     RemoveClientStep DEF Handle
<1>2. CASE UserNext
  BY <1>2, SelectWindowStep, PaneExitsStep, RespawnPaneStep, ScrollStep, KillWindowStep,
     AlternateScreenStep, PaneModeStep, SplitWindowStep, SplitFailsStep, ZoomPaneStep, KillPaneStep,
     ShowOverlayStep, ShowPromptStep, EndOverlayStep, SetSizeStep, ClientLostStep,
     SwitchClientStep DEF UserNext
<1>3. CASE LoopNext
  BY <1>3, NotifiedStep, TimeUpStep, LastFrameStep DEF LoopNext
<1> QED
  BY <1>1, <1>2, <1>3 DEF AnimationNext

(* The invariant that the others follow from: what a handler has still to   *)
(* do accounts for what does not hold between its calls, and what a failed  *)
(* command has captured is of a window that still has panes                 *)
(* (animation_commit_pane_layout, server_client_clear_overlay).             *)
THEOREM AnimationInductive == AnimationSpec => []AnimationIInv
<1>1. AnimationIInv /\ [AnimationNext]_vars => AnimationIInv'
  <2> SUFFICES ASSUME AnimationIInv, [AnimationNext]_vars PROVE AnimationIInv'
    OBVIOUS
  <2>1. CASE AnimationNext
    BY <2>1, AnimationStep, CapturesStep DEF AnimationIInv
  <2>2. CASE UNCHANGED vars
    <3>1. UNCHANGED <<cli, win, capture>>
      BY <2>2 DEF vars
    <3> QED
      BY <2>2, <3>1, Stutter, CallCaptures DEF AnimationIInv
  <2> QED
    BY <2>1, <2>2
<1>2. AnimationInit => AnimationIInv
  <2> SUFFICES ASSUME AnimationInit PROVE CapturesOK
    BY AnimationStart DEF AnimationIInv
  <2>1. capture = [c \in Client |-> 0]
    BY DEF AnimationInit
  <2> QED
    BY <2>1 DEF CapturesOK, CapturesKept
<1> QED
  BY <1>1, <1>2, PTL DEF AnimationSpec

(* The invariant implies AnimationInv. *)
LEMMA AnimationInvFollows == AnimationIInv => AnimationInv
<1> SUFFICES ASSUME AnimationIInv PROVE AnimationInv
  OBVIOUS
<1> USE DEF AnimationIInv
<1>1. AnimationOwnsOverlay
  <2> SUFFICES ASSUME agenda = <<>>, NEW c \in Client
      PROVE  /\ cli[c].anim.kind # "none" <=> cli[c].overlay = "animation"
             /\ cli[c].overlay = "animation" => cli[c].listed /\ cli[c].sized
    BY DEF AnimationOwnsOverlay
  <2>1. Owns(cli[c], c, agenda) /\ ~Has(agenda, Cleared(c))
    BY TypeParts, EmptyAgenda DEF OverlaysOwned
  <2> QED
    BY <2>1 DEF Owns
<1>2. AnimationTypeOK
  BY TypeParts DEF AnimationTypeOK, TypesKept, Faults, AnimationIInv, CapturesOK
<1> QED
  BY <1>1, <1>2, TypeParts DEF AnimationInv, AnimationIInv, CapturesOK

(* The invariant implies DrawnWindowsExist. *)
LEMMA DrawnWindowsFollow == AnimationIInv => DrawnWindowsExist
<1> SUFFICES ASSUME AnimationIInv, NEW c \in Client, cli[c].anim.win # 0
    PROVE  \/ win[cli[c].anim.win].refs > 0
           \/ \E k \in DOMAIN agenda : /\ agenda[k].op = "invalidate" /\ agenda[k].win = cli[c].anim.win
                                       /\ \/ c \in agenda[k].todo
                                          \/ agenda[k] # Head(agenda)
  BY DEF DrawnWindowsExist
<1> DEFINE w == cli[c].anim.win
<1> USE DEF AnimationIInv
<1>1. win[w].refs > 0 \/ Found(c, w, agenda)
  BY TypeParts DEF DrawnKept
<1> HIDE DEF w
<1>2. CASE Found(c, w, agenda)
  <2>1. PICK k \in DOMAIN agenda : /\ agenda[k].op = "invalidate" /\ agenda[k].win = w
                                   /\ c \in agenda[k].todo \/ agenda[1] = Clear(c)
    BY <1>2 DEF Found
  <2>2. Head(agenda) = agenda[1]
    <3>1. agenda \in Seq(Work)
      BY TypeParts
    <3> QED
      BY <2>1, <3>1
  <2>3. agenda[1] = Clear(c) => agenda[k] # Head(agenda)
    BY <2>1, <2>2 DEF Clear
  <2> QED
    BY <2>1, <2>3 DEF w
<1> QED
  BY <1>1, <1>2 DEF w

(* The invariant implies WindowReferencesExact. *)
LEMMA ReferencesFollow == AnimationIInv => WindowReferencesExact
<1> SUFFICES ASSUME AnimationIInv, agenda = <<>>, NEW w \in Window
    PROVE  /\ win[w].refs = Cardinality(Linking(w)) + win[w].noted
                            + Cardinality({d \in Defer : defer[d].win = w})
           /\ win[w].refs = 0 => Panes(w) = {}
           /\ Linking(w) # {} => Panes(w) # {}
  BY DEF WindowReferencesExact
<1> USE DEF AnimationIInv
<1>1. win[w].refs = Cardinality(Linking(w)) + win[w].noted + Cardinality(Deferred(w))
  <2> DEFINE l == Cardinality(Linking(w))
             f == Cardinality(Deferred(w))
             c == win[w].noted
             o == Cardinality(Occurrences(agenda, Unref(w)))
  <2>1. win[w].refs = l + c + f + o /\ o = 0
    BY TypeParts, NoOccurrences DEF RefsCounted
  <2>2. l \in Nat /\ f \in Nat /\ c \in Nat
    BY TypeParts, CardinalitiesNat, WindowFields
  <2> HIDE DEF l, f, c, o
  <2>3. win[w].refs = l + c + f
    BY <2>1, <2>2
  <2> QED
    BY <2>3 DEF l, f, c
<1>2. /\ win[w].refs = 0 => Panes(w) = {}
      /\ Linking(w) # {} => Panes(w) # {}
  BY TypeParts DEF PanesKept
<1> QED
  BY <1>1, <1>2 DEF Deferred

(* The invariant implies ClosingPaneHeld. *)
LEMMA ClosingFollows == AnimationIInv => ClosingPaneHeld
<1> SUFFICES ASSUME AnimationIInv, agenda = <<>>, NEW w \in Window, NEW p \in PaneId,
                    win[w].panes[p] \in {"closing", "revived"}
    PROVE  /\ win[w].refs > 0
           /\ \E d \in Defer :
                /\ defer[d].win = w /\ defer[d].pane = p /\ defer[d].pending > 0
                /\ \A e \in Defer \ {d} : defer[e].win # w \/ defer[e].pane # p
  BY DEF ClosingPaneHeld
<1> USE DEF AnimationIInv
<1>1. PICK d \in Defer : defer[d].win = w /\ defer[d].pane = p
  BY TypeParts DEF DefersNamed
<1>2. defer[d] # NoDefer
  BY <1>1, AnimationAssumption DEF NoDefer
<1>3. \A e \in Defer \ {d} : defer[e].win # w \/ defer[e].pane # p
  BY <1>1, <1>2, TypeParts DEF DefersNamed
<1>4. defer[d].pending > 0
  <2> DEFINE C == {c \in Client : cli[c].anim.defer = d}
             n == Cardinality(C)
  <2>1. defer[d].pending # 0
    BY <1>2, TypeParts DEF DefersNamed
  <2>2. defer[d].pending = n
    BY TypeParts DEF CarriersCounted
  <2>3. IsFiniteSet(C)
    BY AnimationAssumption, FS_Subset
  <2>4. n \in Nat
    BY <2>3, FS_CardinalityType
  <2> HIDE DEF n
  <2> QED
    BY <2>1, <2>2, <2>4
<1>5. win[w].refs > 0
  <2> DEFINE l == Cardinality(Linking(w))
             f == Cardinality(Deferred(w))
             c == win[w].noted
             o == Cardinality(Occurrences(agenda, Unref(w)))
  <2>1. win[w].refs = l + c + f + o /\ o = 0
    BY TypeParts, NoOccurrences DEF RefsCounted
  <2>2. l \in Nat /\ f \in Nat /\ c \in Nat
    BY TypeParts, CardinalitiesNat, WindowFields
  <2>3. f # 0
    <3>1. d \in Deferred(w) /\ IsFiniteSet(Deferred(w))
      BY <1>1, CardinalitiesNat DEF Deferred
    <3> QED
      BY <3>1, FS_EmptySet
  <2> HIDE DEF l, f, c, o
  <2> QED
    BY <2>1, <2>2, <2>3
<1> QED
  BY <1>1, <1>3, <1>4, <1>5

(* Between two handlers an animation and the overlay that shows it are there *)
(* together, even where what a failed command captured starts one over a    *)
(* popup; a capture is of a window that has panes; a deferred close counts  *)
(* the slides that carry it; and the current window of a session is one of  *)
(* its windows (animation.c, animation-pane.c, server-client.c, session.c). *)
THEOREM AnimationInvHolds == AnimationSpec => []AnimationInv
BY AnimationInductive, AnimationInvFollows, PTL

(* No animation draws a window that has been freed, even while the handlers *)
(* that end animations, close panes and kill windows call one another       *)
(* (animation_window_invalidate, window_destroy).                           *)
THEOREM DrawnWindowsHold == AnimationSpec => []DrawnWindowsExist
BY AnimationInductive, DrawnWindowsFollow, PTL

(* The reference count of a window is the number of its links, of its       *)
(* notifications and of the deferred closes of its panes (window.c).        *)
THEOREM ReferencesHold == AnimationSpec => []WindowReferencesExact
BY AnimationInductive, ReferencesFollow, PTL

(* A pane whose close was deferred waits for exactly one close, which some  *)
(* slide carries, and its window lives meanwhile                            *)
(* (animation_window_close_defer, animation_window_close_finalize).         *)
THEOREM ClosingPanesHold == AnimationSpec => []ClosingPaneHeld
BY AnimationInductive, ClosingFollows, PTL
=============================================================================
