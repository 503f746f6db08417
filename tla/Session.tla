------------------------------ MODULE Session -------------------------------
(***************************************************************************)
(* Sessions (session.c), the links they hold to windows (window.c,         *)
(* server-fn.c, spawn.c) and the clients attached to them                  *)
(* (server-client.c).  A session numbers its windows, has a current one    *)
(* and a stack of those visited before.  The sessions of a group share     *)
(* their windows: whichever changes first, the others are synchronised to  *)
(* it, and they go by the number of a window.                              *)
(*                                                                         *)
(* Commands run to their end, so a command is one step.  It is written as  *)
(* a chain of operators, one for each function of the code, on a record of *)
(* the variables below.                                                    *)
(***************************************************************************)
EXTENDS Integers, Sequences, FiniteSets, FiniteSetsExt, SequencesExt

CONSTANTS
    Session,        \* sessions, numbered in the order of their names
    Window,         \* windows
    Client,         \* clients
    Options         \* the settings to start with

ASSUME SessionAssumption ==
    /\ Session \subseteq Nat \ {0}
    /\ Window \subseteq Nat \ {0}
    /\ Options \subseteq
          [renumber : BOOLEAN, base : {0, 1},
           destroy : {"off", "on", "keep-last", "keep-group"},
           detach : {"off", "on", "no-detached", "previous", "next"},
           sessions : SUBSET Session, windows : SUBSET Window,
           clients : SUBSET Client, most : Nat]

VARIABLES
    ses,            \* sessions
    group,          \* session groups, by name: each is named after a session
    client,         \* clients, the sessions they are attached to and their
                    \* flags: "suspended" and "exit"
    option,         \* renumber-windows, base-index, destroy-unattached and
                    \* detach-on-destroy; and the bounds: which sessions,
                    \* windows and clients there may be, and the highest
                    \* number for a window to be put at
    asked,          \* whether the last one was asked to close windows
    fault           \* what has gone wrong for good, or "none"

vars == <<ses, group, client, option, asked, fault>>

None == -1
NoSession == 0
MaxIndex == option.most
Index == 0 .. MaxIndex + 1

(* A session.  links: the windows by number (session.windows); cur: the number of curw, *)
(* None if it is NULL; last: lastw; attached: whether the last count found  *)
(* a client attached.                                                       *)
Dead == [alive |-> FALSE, links |-> <<>>, cur |-> None, last |-> <<>>,
         attached |-> FALSE]
Created == [Dead EXCEPT !.alive = TRUE]

SessionInit ==
    /\ option \in Options
    /\ ses = [s \in Session |-> Dead]
    /\ group = [g \in Session |-> <<>>]
    /\ client = [c \in Client |-> [on |-> NoSession, flags |-> {}]]
    /\ asked = FALSE
    /\ fault = "none"
-----------------------------------------------------------------------------
(* One session x.                                                           *)

Indexes(x) == DOMAIN x.links

NextLink(x) ==
    LET above == {i \in Indexes(x) : i > x.cur} IN
    IF above = {} THEN Min(Indexes(x)) ELSE Min(above)
PreviousLink(x) ==
    LET below == {i \in Indexes(x) : i < x.cur} IN
    IF below = {} THEN Max(Indexes(x)) ELSE Max(below)

(* winlink_stack_remove. *)
Unstack(x, i) == [x EXCEPT !.last = SelectSeq(@, LAMBDA j : j # i)]

(* A mutant: no window goes onto the stack as well.                          *)
SetCurrentPushed(x, i) ==
    IF i \notin Indexes(x) \/ i = x.cur THEN x
    ELSE [Unstack(x, i) EXCEPT !.last = <<x.cur>> \o @, !.cur = i]

(* session_set_current. *)
SetCurrent(x, i) ==
    IF i \notin Indexes(x) \/ i = x.cur THEN x
    ELSE [Unstack(x, i) EXCEPT
             !.last = IF x.cur = None THEN @ ELSE <<x.cur>> \o @,
             !.cur = i]

(* Turn away from the current window: to the last one, or else to the       *)
(* previous or the next.                                                    *)
TurnAway(x) ==
    SetCurrent(x, IF x.last # <<>> /\ Head(x.last) # x.cur THEN Head(x.last)
                    ELSE IF PreviousLink(x) # x.cur THEN PreviousLink(x)
                    ELSE NextLink(x))

Link(x, i, v) ==
    [x EXCEPT !.links = [j \in Indexes(x) \cup {i} |-> IF j = i THEN v ELSE @[j]]]

(* winlink_stack_remove and winlink_remove.                                 *)
Unlink(x, i) ==
    [Unstack(x, i) EXCEPT
        !.links = [j \in Indexes(x) \ {i} |-> x.links[j]]]

(* The link at i goes to make room; a current window goes with it.          *)
Evict(x, i) ==
    [Unlink(x, i) EXCEPT !.cur = IF @ = i THEN None ELSE @]

(* winlink_next_index. *)
FreeIndex(x, from) == Min({i \in from .. MaxIndex + 3 : i \notin Indexes(x)})

(* winlink_shuffle_up: the links from i up to the first gap move up by one. *)
Moved(x, i, j) == IF j \in i .. FreeIndex(x, i) - 1 THEN j + 1 ELSE j
Shuffle(x, i) ==
    [x EXCEPT
       !.links = [j \in {Moved(x, i, k) : k \in Indexes(x)} |->
                    x.links[CHOOSE k \in Indexes(x) : Moved(x, i, k) = j]],
       !.cur = IF @ = None THEN None ELSE Moved(x, i, @),
       !.last = [n \in DOMAIN @ |-> Moved(x, i, @[n])]]

(* session_renumber_windows.  On the stack a window is looked up again by   *)
(* its first link.                                                          *)
Renumber(x) ==
    LET New(i) == option.base + Cardinality({j \in Indexes(x) : j < i})
        First(v) == Min({i \in Indexes(x) : x.links[i] = v})
    IN [x EXCEPT
          !.links = [j \in {New(i) : i \in Indexes(x)} |->
                       x.links[CHOOSE i \in Indexes(x) : New(i) = j]],
          !.cur = IF @ \in Indexes(x) THEN New(@)
                  ELSE IF option.base = 0 /\ x.links # <<>> THEN 0 ELSE None,
          !.last = [n \in DOMAIN @ |-> New(First(x.links[@[n]]))]]

(* session_group_synchronize1 of x with the target t.                       *)
Synchronize(t, x) ==
    LET Linked(y, cur) ==
            [y EXCEPT !.links = t.links,
                      !.cur = IF cur \in Indexes(t) THEN cur ELSE None,
                      !.last = SelectSeq(@, LAMBDA i : i \in Indexes(t))]
        Turned(y) == Linked(y, IF y.cur # None THEN y.cur ELSE t.cur)
    IN IF t.links = <<>> THEN x
       ELSE Turned(IF x.cur # None /\ x.cur \notin Indexes(t) THEN TurnAway(x) ELSE x)
-----------------------------------------------------------------------------
(* The world w: a record of ses, group, client and fault.                   *)

World == [ses |-> ses, group |-> group, client |-> client, fault |-> fault]

Alive(w) == {s \in Session : w.ses[s].alive}
GroupsOf(w, s) == {g \in Session : s \in Range(w.group[g])}
Mates(w, s) == UNION {Range(w.group[g]) : g \in GroupsOf(w, s)} \ {s}
Links(w, v) == {<<s, i>> \in Session \X Index :
                   i \in Indexes(w.ses[s]) /\ w.ses[s].links[i] = v}

(* recalculate_sizes counts the clients.                                    *)
Recount(w) ==
    [w EXCEPT !.ses = [s \in Session |->
        IF @[s].alive
        THEN [@[s] EXCEPT !.attached = \E c \in Client :
                 w.client[c].on = s /\ w.client[c].flags = {}]
        ELSE Dead]]

FaultIf(bad, w, what) == IF bad /\ w.fault = "none" THEN [w EXCEPT !.fault = what] ELSE w
Fault(w, what) == FaultIf(TRUE, w, what)

InOrder == SetToSortSeq(Session, <)

(* session_group_synchronize_from.  A member may end without a current      *)
(* window, which nothing that looks at it expects.                          *)
SynchronizeFrom(w, s) ==
    LET Checked(v) == FaultIf(\E m \in Mates(w, s) : v.ses[m].cur = None, v, "no window")
    IN Checked([w EXCEPT !.ses = [m \in Session |-> IF m \in Mates(w, s)
                                                    THEN Synchronize(w.ses[s], @[m])
                                                    ELSE @[m]]])

(* The stack may get the current window, or a link twice: that closes it,   *)
(* being a list, in a loop.                                                 *)
RenumberOne(w, s) ==
    LET Looped(x) == ~IsInjective(x.last) \/ x.cur \in Range(x.last)
        Checked(v) == FaultIf(Looped(v.ses[s]), v, "stack")
    IN Checked([w EXCEPT !.ses[s] = Renumber(@)])

(* server_renumber_session. *)
RenumberAll(w, s) ==
    IF option.renumber
    THEN FoldLeft(RenumberOne, w, SelectSeq(InOrder, LAMBDA m : m \in Mates(w, s) \cup {s}))
    ELSE w

(* session_destroy: clients are not told.                                   *)
Destroy(w, s) ==
    IF w.ses[s].cur = None THEN w
    ELSE [w EXCEPT !.ses[s] = Dead,
                   !.group = [g \in Session |-> SelectSeq(@[g], LAMBDA m : m # s)]]

(* server_check_unattached, for one session.                                *)
Unattached(w, s) ==
    w.ses[s].alive /\ ~w.ses[s].attached /\
        CASE option.destroy = "off" -> FALSE
          [] option.destroy = "on" -> TRUE
          [] option.destroy = "keep-last" -> Mates(w, s) # {}
          [] option.destroy = "keep-group" -> GroupsOf(w, s) = {} \/ Mates(w, s) # {}

CheckUnattached(w) ==
    FoldLeft(LAMBDA v, s : IF Unattached(v, s) THEN Destroy(v, s) ELSE v,
             w, InOrder)

(* server_client_set_session: only a client that comes to a session makes   *)
(* for a new count.  The current window of s is looked at.                  *)
SetSession(w, c, s) ==
    LET Counted(v) == IF s = NoSession THEN v
                      ELSE IF v.ses[s].cur \notin Indexes(v.ses[s]) THEN Fault(v, "empty session")
                      ELSE Recount(v)
    IN CheckUnattached(Counted([w EXCEPT !.client[c].on = s]))

(* A mutant: only a session without clients will do.                        *)
NewSessionUnattached(w, s, recent) ==
    LET fit == SelectSeq(recent, LAMBDA t :
                  t # s /\ w.ses[t].alive /\ ~w.ses[t].attached)
    IN IF option.detach = "on" \/ fit = <<>> THEN NoSession ELSE Head(fit)

(* server_destroy_session: every client of s goes elsewhere, or exits.      *)
(* recent has the sessions from the most to the least recently active.      *)
NewSessionFor(w, s, recent) ==
    LET fit == SelectSeq(recent, LAMBDA t :
                  /\ t # s /\ w.ses[t].alive
                  /\ option.detach = "off" \/ ~w.ses[t].attached)
    IN IF option.detach = "on" \/ fit = <<>> THEN NoSession ELSE Head(fit)

(* A mutant: the clients stay where they are.                               *)
DestroySessionOnly(w, s, recent) == Recount(w)

DestroySession(w, s, recent) ==
    LET MoveTo(t) ==
            LET Move(v, c) == IF w.client[c].on # s THEN v
                              ELSE SetSession(IF t # NoSession THEN v
                                              ELSE [v EXCEPT !.client[c].flags = {}], c, t)
            IN FoldLeft(Move, w, SetToSeq(Client))
    IN IF option.detach \in {"previous", "next"} /\ w.ses[s].alive
       THEN Fault(w, "no criteria")
       ELSE Recount(MoveTo(NewSessionFor(w, s, recent)))

Kill(w, s, recent) == Destroy(DestroySession(w, s, recent), s)

(* server_destroy_session_group, over the members there were.               *)
DestroyGroup(w, s, recent) ==
    LET members == IF GroupsOf(w, s) = {} THEN <<s>>
                   ELSE w.group[CHOOSE g \in GroupsOf(w, s) : TRUE]
    IN FoldLeft(LAMBDA v, m : Kill(v, m, recent), w, members)

(* What every caller of session_detach does with a session left empty.      *)
DestroyedIfEmpty(w, s, recent) ==
    IF w.ses[s].links = <<>> THEN DestroyGroup(w, s, recent) ELSE w

(* A mutant: the current window is not turned away from.                    *)
DetachOnly(w, s, i, recent) ==
    DestroyedIfEmpty(SynchronizeFrom([w EXCEPT !.ses[s] = Unlink(@, i)], s), s, recent)

(* session_detach. *)
Detach(w, s, i, recent) ==
    LET Left(x) == Unlink(IF x.cur = i THEN TurnAway(x) ELSE x, i)
    IN DestroyedIfEmpty(SynchronizeFrom([w EXCEPT !.ses[s] = Left(@)], s), s, recent)

(* server_kill_window: in every session, every link.                        *)
KillWindowIn(w, s, v, recent) ==
    LET Left(u) == {i \in Indexes(u.ses[s]) : u.ses[s].links[i] = v}
        Once(u, n) == IF Left(u) = {} THEN u ELSE Detach(u, s, Min(Left(u)), recent)
    IN FoldLeft(Once, w, [n \in 1 .. Cardinality(Left(w)) |-> n])

KillWindow(w, v, renumber, recent) ==
    LET Renumbered(u, s) == IF renumber THEN RenumberAll(u, s) ELSE u
        Visit(u, s) ==
          IF \A i \in Indexes(u.ses[s]) : u.ses[s].links[i] # v THEN u
          ELSE Renumbered(KillWindowIn(u, s, v, recent), s)
    IN Recount(FoldLeft(Visit, w, InOrder))

(* A mutant: the other sessions of the group are not told.                  *)
AttachAlone(w, s, i, v) == [w EXCEPT !.ses[s] = Link(@, i, v)]

(* session_attach. *)
Attach(w, s, i, v) ==
    SynchronizeFrom([w EXCEPT !.ses[s] = Link(@, i, v)], s)

(* server_link_window: v goes to i of t, which a window there has to leave. *)
LinkWindow(w, t, v, i, select) ==
    LET x == IF i \in Indexes(w.ses[t]) THEN Evict(w.ses[t], i) ELSE w.ses[t]
        Selected(y) == IF select \/ x.cur = None THEN SetCurrent(y, i) ELSE y
    IN [Attach([w EXCEPT !.ses[t] = x], t, i, v) EXCEPT !.ses[t] = Selected(@)]

(* Where a window goes that is put at i of x ("at"), before or after it, or *)
(* wherever there is room; and what becomes of x.                           *)
Place(x, i, how) ==
    CASE how = "at" -> i
      [] how = "before" -> i
      [] how = "after" -> i + 1
      [] how = "free" -> FreeIndex(x, option.base)
MadeRoom(x, i, how) ==
    IF how \in {"before", "after"} THEN Shuffle(x, Place(x, i, how)) ELSE x
How == {"at", "before", "after", "free"}
-----------------------------------------------------------------------------
(* Commands. *)

Becomes(w) ==
    /\ ses' = w.ses
    /\ group' = w.group
    /\ client' = w.client
    /\ fault' = w.fault

Command(closes) ==
    /\ fault = "none"
    /\ asked' = closes
    /\ UNCHANGED option

Recent == {r \in [1 .. Cardinality(Alive(World)) -> Alive(World)] : IsInjective(r)}
Unused == {v \in option.windows : Links(World, v) = {}}
Usable(s) == ses[s].alive

(* An index of s to name, in use for every placing but "at".                *)
Named(s, i, how) ==
    /\ Usable(s)
    /\ Cardinality(Indexes(ses[s])) <= MaxIndex
    /\ how # "at" => i \in Indexes(ses[s])
    /\ Place(ses[s], i, how) <= MaxIndex
    /\ how = "free" => i = Min(Indexes(ses[s]))
    /\ how # "at" => FreeIndex(ses[s], Place(ses[s], i, how)) <= MaxIndex

(* spawn_window at i of s, for a window v that does not exist yet.  The     *)
(* program may fail to start, after the link was made and whatever was at i *)
(* has gone.                                                                *)
SpawnWindow(w, s, i, v, detached, fails) ==
    LET evicts == i \in Indexes(w.ses[s])
        Current(x) == [x EXCEPT !.cur = IF @ = None THEN i ELSE @]
        Spawned(y) == SynchronizeFrom(
                          [w EXCEPT !.ses[s] = IF detached THEN y ELSE SetCurrent(y, i)], s)
        Failed(y) == FaultIf(y.cur = i \/ (evicts /\ Mates(w, s) # {}),
                             [w EXCEPT !.ses[s] = Unlink(y, i)],
                             IF y.cur = i THEN "no window" ELSE "not shared")
        With(y) == IF fails THEN Failed(y) ELSE Spawned(y)
    IN With(Current(Link(IF evicts THEN Evict(w.ses[s], i) ELSE w.ses[s], i, v)))

(* new-window, without or with -a, -b and -d, and with -k if the number is  *)
(* in use.                                                                  *)
NewWindow(s, i, how, detached, fails) ==
    /\ Command(how = "at" /\ i \in Indexes(ses[s])) /\ Named(s, i, how) /\ Unused # {}
    /\ LET w == [World EXCEPT !.ses[s] = MadeRoom(@, i, how)]
       IN Becomes(SpawnWindow(w, s, Place(ses[s], i, how), Min(Unused), detached, fails))

(* link-window and move-window, with -k if need be.  The link that is moved *)
(* is the one at i, wherever making room has put it.  Between sessions of a *)
(* group it is an error, found when room has been made.                     *)
LinkOrMove(s, i, t, j, how, select, move) ==
    LET k == Place(ses[t], j, how)
        from == IF s = t /\ how \in {"before", "after"} THEN Moved(ses[s], k, i) ELSE i
        v == ses[s].links[i]
        Unlinked(w, r) == IF move THEN Detach(w, s, from, r) ELSE w
        Renumbered(w) == Recount(IF option.renumber THEN RenumberOne(w, s) ELSE w)
        Linked(room, r) == Becomes(Renumbered(Unlinked(LinkWindow(room, t, v, k, select), r)))
        In(room) ==
            /\ Command(k \in Indexes(room.ses[t]))
            /\ k \in Indexes(room.ses[t]) => room.ses[t].links[k] # v
            /\ IF t \in Mates(World, s) THEN Becomes(room)
               ELSE \E r \in IF move THEN Recent ELSE {<<>>} : Linked(room, r)
    IN /\ Usable(s) /\ i \in Indexes(ses[s]) /\ Named(t, j, how)
       /\ In([World EXCEPT !.ses[t] = MadeRoom(@, j, how)])

(* move-window -r. *)
RenumberWindows(s) ==
    /\ Command(FALSE) /\ Usable(s)
    /\ option.base + Cardinality(Indexes(ses[s])) - 1 <= MaxIndex
    /\ Becomes(Recount(RenumberOne(World, s)))

(* swap-window: the two links exchange their windows.                       *)
SwapWindow(s, i, t, j, select) ==
    LET Put(w, x, n, v) == [w EXCEPT !.ses[x].links[n] = v]
        Current(w, x, n) == [w EXCEPT !.ses[x] = SetCurrent(@, n)]
        Both(w) == IF s = t THEN w ELSE Current(w, s, i)
        Selected(w) == IF select THEN Both(Current(w, t, j)) ELSE w
        Synced(w) == IF s = t THEN w ELSE SynchronizeFrom(w, t)
        swapped == Put(Put(World, t, j, ses[s].links[i]), s, i, ses[t].links[j])
    IN /\ Command(FALSE) /\ Usable(s) /\ Usable(t)
       /\ i \in Indexes(ses[s]) /\ j \in Indexes(ses[t])
       /\ t \notin Mates(World, s) /\ ses[s].links[i] # ses[t].links[j]
       /\ Becomes(Recount(Synced(SynchronizeFrom(Selected(swapped), s))))

(* Whether v, which s has, is linked outside s and its group.               *)
LinkedOutside(s, v) ==
    Cardinality(Links(World, v)) #
        IF GroupsOf(World, s) = {} THEN 1 ELSE 1 + Cardinality(Mates(World, s))

(* A mutant: the group is forgotten.                                        *)
IsLinkedAnywhere(s, v, held) == held \/ Cardinality(Links(World, v)) # 1

(* session_is_linked counts the references of v, which are not its links    *)
(* only: it is held by a queued notification (notify_add), as after         *)
(* new-window or rename-window in the same list of commands, by a queued    *)
(* alert (alerts_queue) and by a deferred close (animation-window.c).  At   *)
(* any command there may be one or none.                                    *)
IsLinked(s, v, held) == held \/ LinkedOutside(s, v)

(* unlink-window, with -k if it takes that.  Where only what holds v lets   *)
(* it through, v may lose its last link.                                    *)
UnlinkWindow(s, i) ==
    LET v == ses[s].links[i]
        Unlinked(held, r) ==
            FaultIf(held /\ ~LinkedOutside(s, v), Recount(Detach(World, s, i, r)), "last link")
    IN /\ Usable(s) /\ i \in Indexes(ses[s])
       /\ \E held \in BOOLEAN, r \in Recent :
             Command(~IsLinked(s, v, held)) /\ Becomes(Unlinked(held, r))

(* kill-window. *)
KillWindowCommand(s, i) ==
    /\ Command(TRUE) /\ Usable(s) /\ i \in Indexes(ses[s])
    /\ \E r \in Recent : Becomes(KillWindow(World, ses[s].links[i], TRUE, r))

(* kill-window -a: every other window of s, and this one as well if it is   *)
(* linked more than once; then all the sessions are renumbered.  The window *)
(* is read from the link at i each time: it has been freed, if a session of *)
(* the group comes before s, which synchronises s.                          *)
KillOtherWindows(s, i) ==
    LET v == ses[s].links[i]
        Others(x) == SelectSeq(SetToSortSeq(Indexes(x), <), LAMBDA n : x.links[n] # v)
        Next(x) == IF Others(x) # <<>> THEN {x.links[Head(Others(x))]}
                   ELSE IF Cardinality(Indexes(x)) > 1 THEN {v} ELSE {}
        Close(w, r) == IF Next(w.ses[s]) = {} THEN w
                       ELSE KillWindow(w, CHOOSE u \in Next(w.ses[s]) : TRUE, FALSE, r)
        freed == Others(ses[s]) # <<>> /\ \E m \in Mates(World, s) : m < s
        Rest(r) == FoldLeft(LAMBDA w, n : Close(w, r), FaultIf(freed, World, "freed link"),
                            Others(ses[s]) \o <<i>>)
        Renumbered(w, m) == IF w.ses[m].alive THEN RenumberAll(w, m) ELSE w
    IN /\ Command(TRUE) /\ Usable(s) /\ i \in Indexes(ses[s]) /\ Cardinality(Indexes(ses[s])) > 1
       /\ \E r \in Recent : Becomes(FoldLeft(Renumbered, Rest(r), InOrder))

(* select-window, next-window, previous-window and last-window.             *)
SelectWindow(s, i) ==
    /\ Command(FALSE) /\ Usable(s) /\ i \in Indexes(ses[s])
    /\ Becomes(Recount([World EXCEPT !.ses[s] = SetCurrent(@, i)]))
-----------------------------------------------------------------------------
(* Sessions and clients. *)

(* new-session -t n: the group of the session n, or the one by that name.   *)
(* A session that has no group comes first into the one with its name; if   *)
(* that has others, it brings windows they do not share.                    *)
JoinGroup(w, s, n) ==
    LET with == n # s /\ w.ses[n].alive
        g == IF with /\ GroupsOf(w, n) # {} THEN CHOOSE h \in GroupsOf(w, n) : TRUE ELSE n
        alien == with /\ GroupsOf(w, n) = {}
        members == w.group[g] \o (IF alien THEN <<n>> ELSE <<>>)
        Joined(x) == [w EXCEPT !.group[g] = Append(members, s),
                               !.ses[s] = SetCurrent(x, Min(Indexes(x)))]
    IN FaultIf(alien /\ w.group[g] # <<>>,
               Joined(IF members = <<>> THEN w.ses[s]
                      ELSE Synchronize(w.ses[Head(members)], w.ses[s])),
               "not shared")

(* new-session, with -t for a name n, and with -d for no client.            *)
NewSession(s, n, clients) ==
    LET Grouped(w) == IF n = NoSession THEN w ELSE JoinGroup(w, s, n)
        Shown(w) == IF clients = {} THEN Becomes(w)
                    ELSE \E c \in clients : client[c].flags = {} /\ Becomes(SetSession(w, c, s))
    IN /\ Command(FALSE) /\ ~Usable(s) /\ Unused # {}
       /\ Shown(Grouped(SpawnWindow([World EXCEPT !.ses[s] = Created], s, option.base,
                                    Min(Unused), FALSE, FALSE)))

(* kill-session, and kill-session -a.                                       *)
KillSession(s) ==
    /\ Command(TRUE) /\ Usable(s)
    /\ \E r \in Recent : Becomes(Kill(World, s, r))
KillOtherSessions(s) ==
    /\ Command(TRUE) /\ Usable(s)
    /\ \E r \in Recent :
          Becomes(FoldLeft(LAMBDA w, t : IF t = s \/ ~Usable(t) THEN w ELSE Kill(w, t, r),
                           World, InOrder))

(* attach-session and switch-client, to a session or to a window of it;     *)
(* with -d the other clients of s are told to detach.                       *)
GoTo(c, s, i, others) ==
    LET w == [World EXCEPT
                !.ses[s] = SetCurrent(@, i),
                !.client = [b \in Client |->
                    IF others /\ b # c /\ @[b].on = s
                    THEN [@[b] EXCEPT !.flags = @ \cup {"exit"}] ELSE @[b]]]
    IN /\ Command(FALSE) /\ Usable(s) /\ i \in Indexes(ses[s]) /\ client[c].flags = {}
       /\ Becomes(SetSession(w, c, s))

(* server_client_detach and server_client_suspend: nothing is counted.      *)
Tell(c, flag) ==
    /\ Command(FALSE) /\ client[c].on # NoSession
    /\ client[c].flags \cap {flag, "exit"} = {}
    /\ client' = [client EXCEPT ![c].flags = @ \cup {flag}]
    /\ UNCHANGED <<ses, group, fault>>

(* A client that looks at a session that has been freed.                    *)
Looks(w, c) ==
    IF client[c].on # NoSession /\ ~ses[client[c].on].alive THEN Fault(w, "freed session") ELSE w

(* MSG_WAKEUP: the client has been continued.                               *)
WakeUp(c) ==
    /\ Command(FALSE) /\ "suspended" \in client[c].flags
    /\ LET w == [World EXCEPT !.client[c].flags = @ \ {"suspended"}]
       IN Becomes(IF client[c].on = NoSession THEN w ELSE Looks(Recount(w), c))

(* MSG_EXITING: the client leaves its session, and is then lost.            *)
Exiting(c) ==
    /\ Command(FALSE) /\ client[c].flags = {"exit"} /\ client[c].on # NoSession
    /\ Becomes(Looks(Recount(SetSession(World, c, NoSession)), c))

(* server_client_lost; another client may connect in its place.             *)
Lost(c) ==
    /\ Command(FALSE) /\ client[c] # [on |-> NoSession, flags |-> {}]
    /\ Becomes(CheckUnattached(Recount(
          [World EXCEPT !.client[c] = [on |-> NoSession, flags |-> {}]])))
-----------------------------------------------------------------------------
Live == Alive(World)

SessionNext ==
    \/ \E s \in Live, i \in Index, how \in How, detached, fails \in BOOLEAN :
          NewWindow(s, i, how, detached, fails)
    \/ \E s, t \in Live : \E i \in Indexes(ses[s]), j \in Index, select \in BOOLEAN :
          \/ \E how \in How, move \in BOOLEAN : LinkOrMove(s, i, t, j, how, select, move)
          \/ SwapWindow(s, i, t, j, select)
    \/ \E s \in Live : \E i \in Indexes(ses[s]) :
          \/ UnlinkWindow(s, i)
          \/ KillWindowCommand(s, i)
          \/ KillOtherWindows(s, i)
          \/ SelectWindow(s, i)
          \/ \E c \in option.clients, others \in BOOLEAN : GoTo(c, s, i, others)
    \/ \E s \in Live : RenumberWindows(s) \/ KillSession(s) \/ KillOtherSessions(s)
    \/ \E s \in option.sessions, n \in option.sessions \cup {NoSession},
          clients \in {{}, option.clients} : NewSession(s, n, clients)
    \/ \E c \in option.clients, flag \in {"suspended", "exit"} : Tell(c, flag)
    \/ \E c \in option.clients : WakeUp(c) \/ Exiting(c) \/ Lost(c)

SessionSpec == SessionInit /\ [][SessionNext]_vars
-----------------------------------------------------------------------------
SessionTypeOK ==
    /\ option \in Options
    /\ \A s \in Session :
          /\ DOMAIN ses[s].links \subseteq Index /\ Range(ses[s].links) \subseteq Window
          /\ ses[s].alive \in BOOLEAN /\ ses[s].attached \in BOOLEAN
          /\ ses[s].cur \in Index \cup {None}
          /\ ses[s].last \in Seq(Index)
          /\ group[s] \in Seq(Session)
    /\ \A c \in Client :
          /\ client[c].on \in Session \cup {NoSession}
          /\ client[c].flags \subseteq {"suspended", "exit"}
    /\ asked \in BOOLEAN
    /\ fault \in {"none", "no window", "empty session", "stack", "no criteria",
                  "freed session", "freed link", "last link", "not shared"}

(* A session's current window and those on its stack are among its links,   *)
(* no window is on the stack twice and the current one is not on it: so     *)
(* last-window always goes somewhere.  Every command that takes a link away *)
(* (session_detach, server_link_window and spawn_window with -k) or         *)
(* rebuilds them all (session_group_synchronize1, session_renumber_windows, *)
(* winlink_shuffle_up) has to keep this up, for the other sessions of the   *)
(* group too.                                                               *)
VisitedLinked ==
    fault = "none" => \A s \in Session : Usable(s) =>
        /\ ses[s].cur \in Indexes(ses[s])
        /\ Range(ses[s].last) \subseteq Indexes(ses[s]) \ {ses[s].cur}
        /\ IsInjective(ses[s].last)

(* The sessions of a group have the same windows, each as often             *)
(* (tmux.1:1377): true of every way in and out of a group, and of every     *)
(* command on one of them, but for the faults named "not shared".           *)
WindowsOf(s) == [v \in Window |-> Cardinality({i \in Indexes(ses[s]) : ses[s].links[i] = v})]
Shared == \A s \in Session : \A m \in Mates(World, s) : WindowsOf(s) = WindowsOf(m)
GroupShares == fault = "none" => Shared

(* A client that is attached is on a session that exists, and one that is   *)
(* not (it was told to suspend or to exit) as well, unless                  *)
(* destroy-unattached may take the session from under it.                   *)
ClientsOnSessions ==
    fault = "none" => \A c \in Client :
        \/ client[c].on = NoSession
        \/ Usable(client[c].on)
        \/ client[c].flags # {} /\ option.destroy # "off"

(* What the commands rely on: links and clients lead somewhere.              *)
SessionInv == SessionTypeOK /\ VisitedLinked /\ ClientsOnSessions

(* With detach-on-destroy off a client loses its session to a command only  *)
(* if no session is left to switch to (tmux.1:4744), whatever the sessions  *)
(* of a group, destroyed one after the other, and destroy-unattached make   *)
(* of those it is sent to.                                                  *)
StaysAttached ==
    [][\A c \in Client :
          option.detach = "off" /\ client[c].flags = {} /\ client'[c].on = NoSession
          /\ client[c].on # NoSession /\ fault' = "none"
          => client'[c] = client[c] \/ Lost(c) \/ \A s \in Session : ~Usable(s)']_vars

(* A command that was not asked to close windows (with -k, or kill-window   *)
(* and kill-session) never takes the last link of one (tmux.1:3804): what   *)
(* unlink-window refuses by counting references (session_is_linked), but    *)
(* for the fault named "last link", and what link-window, move-window,      *)
(* swap-window, new-window and the renumbering must not do on the way.      *)
(* Only destroy-unattached, and new-session for the window it has just      *)
(* made, may.                                                               *)
WindowsKept ==
    [][option.destroy = "off" /\ ~asked' /\ fault' = "none" =>
          \A v \in option.windows \ Unused : Links([ses |-> ses'], v) # {}]_vars
=============================================================================
