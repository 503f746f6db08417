----------------------------- MODULE Animation -----------------------------
(***************************************************************************)
(* Client animations (animation.c, animation-window.c, animation-pane.c,   *)
(* animation-scroll.c, animation-dissolve.c) with what they share state    *)
(* with: client overlays (server-client.c), the current window of a        *)
(* session (session.c), references and panes of a window (window.c), and   *)
(* the closing of a pane, which an animation may defer (server-fn.c).      *)
(*                                                                         *)
(* A handler of the event loop runs to its end, but the functions it calls *)
(* come back to one another: clearing an overlay ends an animation, which  *)
(* may close a pane, kill a window and so end further animations.  The     *)
(* calls still to be made are the agenda; a handler starts when it is      *)
(* empty.  A use of something already freed is a fault and ends the run.   *)
(*                                                                         *)
(* Every pane takes the default options: animations are on, an exited pane *)
(* does not remain.  A window is linked to a session at most once.         *)
(***************************************************************************)
EXTENDS Integers, Sequences, FiniteSets, TailQueue

CONSTANTS
    Client,
    Control,            \* the clients in control mode
    Session,
    Window,             \* a window's number is its index in every session
    Placement,          \* the windows of each session at the start
    DetachOnDestroy,    \* the detach-on-destroy option is on
    MaxMoves            \* bound: handlers run, frames and notifications aside

ASSUME AnimationAssumption ==
    /\ IsFiniteSet(Client) /\ Control \subseteq Client
    /\ Session \subseteq Nat \ {0} /\ IsFiniteSet(Session)
    /\ Window \subseteq Nat \ {0} /\ IsFiniteSet(Window)
    /\ Placement \subseteq [Session -> SUBSET Window]
    /\ DetachOnDestroy \in BOOLEAN
    /\ MaxMoves \in Nat

VARIABLES
    cli,        \* struct client: on the list, session, overlay, animation
    ses,        \* struct session: windows, curw and the stack lastw
    win,        \* struct window: panes and references
    capture,    \* c->animation_capture: the window whose panes it holds, or 0
    defer,      \* struct animation_close_defer
    agenda,     \* the calls the running handler still has to make
    fault,      \* what the running handler used after it was freed
    moves       \* handlers run

vars == <<cli, ses, win, capture, defer, agenda, fault, moves>>

PaneId == 1 .. 2        \* bound: panes of a window
Defer == 1 .. Cardinality(Client)

NoAnimation == [kind |-> "none", win |-> 0, defer |-> 0, over |-> FALSE]

(* win: tgt_window of a slide, pl_window of a pane layout; over: its time is *)
(* up.  A scroll and a dissolve hold pictures only.                          *)
AnimationType == [kind : {"none", "slide", "panes", "picture"}, win : Window \cup {0},
                  defer : Defer \cup {0}, over : BOOLEAN]

ClientType == [listed : BOOLEAN, session : Session \cup {0}, sized : BOOLEAN,
               overlay : {"none", "animation", "other"}, anim : AnimationType]

SessionType == [linked : SUBSET Window, curw : Window \cup {0}, lastw : Seq(Window)]

(* closing: its program exited and its close is deferred; revived: closing   *)
(* and respawned.                                                            *)
PaneState == {"none", "running", "closing", "revived"}

(* noted: those of refs that belong to queued notifications.                 *)
WindowType == [panes : [PaneId -> PaneState], refs : Nat, noted : Nat]

DeferType == [win : Window \cup {0}, pane : PaneId \cup {0}, pending : Int]

NoDefer == [win |-> 0, pane |-> 0, pending |-> 0]

Work == [op : {"clear", "cleared", "set", "lost"}, client : Client]
        \cup [op : {"scroll"}, win : Window, pane : PaneId, todo : SUBSET Client]
        \cup [op : {"picture"}, client : Client, win : Window, pane : PaneId]
        \cup [op : {"prompt"}, session : Session, win : Window]
        \cup [op : {"finalize"}, defer : Defer]
        \cup [op : {"kill"}, win : Window, todo : SUBSET Session]
        \cup [op : {"unref"}, win : Window]
        \cup [op : {"invalidate"}, win : Window, todo : SUBSET Client]

AnimationTypeOK ==
    /\ cli \in [Client -> ClientType]
    /\ ses \in [Session -> SessionType]
    /\ win \in [Window -> WindowType]
    /\ capture \in [Client -> Window \cup {0}]
    /\ defer \in [Defer -> DeferType]
    /\ agenda \in Seq(Work)
    /\ fault \in {"none", "pane", "winlink", "session", "picture", "overlay"}
    /\ moves \in 0 .. MaxMoves

(* Every client attached to a session, the first window current, nothing    *)
(* shown over it; a control client has no size yet.                         *)
AnimationInit ==
    /\ \E at \in Placement, of \in [Client -> Session] :
         /\ \A s \in Session : at[s] # {}
         /\ ses = [s \in Session |->
                     [linked |-> at[s], lastw |-> <<>>,
                      curw |-> CHOOSE w \in at[s] : \A v \in at[s] : w <= v]]
         /\ win = [w \in Window |->
                     LET n == Cardinality({s \in Session : w \in at[s]}) IN
                     [panes |-> [p \in PaneId |-> IF p = 1 /\ n > 0 THEN "running" ELSE "none"],
                      refs |-> n, noted |-> 0]]
         /\ cli = [c \in Client |->
                     [listed |-> TRUE, session |-> of[c], sized |-> c \notin Control,
                      overlay |-> "none", anim |-> NoAnimation]]
    /\ capture = [c \in Client |-> 0]
    /\ defer = [d \in Defer |-> NoDefer]
    /\ agenda = <<>>
    /\ fault = "none"
    /\ moves = 0

----------------------------------------------------------------------------
(* What the handlers look at. *)

Panes(w) == {p \in PaneId : win[w].panes[p] # "none"}
Linking(w) == {s \in Session : w \in ses[s].linked}
Alive(s) == ses[s].linked # {}
Clients(s) == {c \in Client : cli[c].listed /\ cli[c].session = s}

(* Clients that show window w. *)
Viewers(w) == {c \in Client : /\ cli[c].listed /\ cli[c].session # 0
                              /\ ses[cli[c].session].curw = w}

(* session_last, else session_previous, else session_next: the window that   *)
(* becomes current when the current one goes; itself if it is the only one.  *)
Successor(s) ==
    LET k == ses[s]
        below == {v \in k.linked : v < k.curw}
        from == IF below # {} THEN below ELSE k.linked
    IN  IF k.lastw # <<>> THEN Head(k.lastw)
        ELSE CHOOSE w \in from : \A v \in from : v <= w

(* A mutant: the window stays on the stack. *)
MadeCurrentStacked(k, w) ==
    IF w = k.curw THEN k ELSE [k EXCEPT !.lastw = <<k.curw>> \o @, !.curw = w]

(* session_set_current, the session's side. *)
MadeCurrent(k, w) ==
    IF w = k.curw THEN k
    ELSE [k EXCEPT !.lastw = <<k.curw>> \o Without(@, {w}), !.curw = w]

Anim(kind, w) == [kind |-> kind, win |-> w, defer |-> 0, over |-> FALSE]

(* A mutant: an animation that is going starts from nothing again. *)
SlidToAnew(k, w) ==
    IF k.overlay = "other" \/ ~k.sized THEN k
    ELSE [k EXCEPT !.overlay = "animation", !.anim = Anim("slide", w)]

(* A mutant: an overlay that is being cleared does not stand in the way. *)
SlidOverCleared(k, w) ==
    LET a == k.anim IN
    IF k.overlay = "other" \/ ~k.sized \/ (a.kind = "slide" /\ a.win = w)
    THEN k
    ELSE [k EXCEPT !.overlay = "animation",
                   !.anim = IF a.kind = "slide" THEN [a EXCEPT !.win = w, !.over = FALSE]
                                                ELSE Anim("slide", w)]

(* animation_begin_window_switch and animation_retarget, from               *)
(* session_set_current: a slide that is going turns to the new window and    *)
(* starts anew, another animation gives way, another overlay stays, even one *)
(* that is being cleared.                                                    *)
SlidTo(k, w) ==
    LET a == k.anim
        cleared == k.overlay = "animation" /\ a.kind = "none"
    IN  IF k.overlay = "other" \/ cleared \/ ~k.sized \/ (a.kind = "slide" /\ a.win = w)
        THEN k
        ELSE [k EXCEPT !.overlay = "animation",
                       !.anim = IF a.kind = "slide"
                                THEN [a EXCEPT !.win = w, !.over = FALSE]
                                ELSE Anim("slide", w)]

(* The client's side, for the sessions of S, whose new window is to[s].      *)
Slid(S, to) ==
    [c \in Client |->
        IF cli[c].listed /\ cli[c].session \in S /\ to[cli[c].session] # ses[cli[c].session].curw
        THEN SlidTo(cli[c], to[cli[c].session])
        ELSE cli[c]]

(* An alternate screen or a dissolve starts when nothing is over the client. *)
CanBegin(k) == k.session # 0 /\ k.sized /\ k.overlay = "none" /\ k.anim.kind = "none"

Begun(k, kind, w) ==
    IF CanBegin(k)
    THEN [k EXCEPT !.overlay = "animation", !.anim = Anim(kind, w)]
    ELSE k

BegunBy(C, kind, w) == [c \in Client |-> IF c \in C THEN Begun(cli[c], kind, w) ELSE cli[c]]

(* animation_begin_pane_layout looks where the panes of a window are, unless *)
(* something that is not an animation is over the client, or an animation    *)
(* that is being cleared; then what it saw the last time stays.              *)
CanCapture(k) == k.session # 0 /\ k.sized /\ (k.overlay = "none" \/ k.anim.kind # "none")

Captured(c, w) == [capture EXCEPT ![c] = IF CanCapture(cli[c]) THEN w ELSE @]

(* A mutant: nothing is forgotten. *)
NothingForgotten(C, w) == capture

(* animation_window_pane_layout_cancel, after ..._begin for the clients C.   *)
Forgotten(C, w) ==
    [c \in Client |-> IF capture[c] = w \/ (c \in C /\ CanCapture(cli[c])) THEN 0 ELSE capture[c]]

(* animation_commit_pane_layout asks for what was captured and that there is *)
(* no animation, not what is over the client: a capture may be left from a   *)
(* command that failed.                                                      *)
Starting(C, w) ==
    {c \in C : cli[c].anim.kind = "none" /\ (CanCapture(cli[c]) \/ capture[c] = w)}

(* A layout animation begins for the clients for which some pane has moved.  *)
(* It takes the place of what is over a client, which is a fault for an      *)
(* animation that is being cleared, as that is freed twice, and for a client *)
(* without a session.                                                        *)
LayoutMoves(C, w, moved) ==
    /\ capture' = [c \in Client |-> IF c \in C THEN 0 ELSE capture[c]]
    /\ IF \E c \in moved : cli[c].session = 0
       THEN fault' = "session" /\ UNCHANGED cli
       ELSE IF \E c \in moved : cli[c].overlay = "animation"
       THEN fault' = "overlay" /\ UNCHANGED cli
       ELSE /\ cli' = [c \in Client |->
                         IF c \in moved
                         THEN [cli[c] EXCEPT !.overlay = "animation", !.anim = Anim("panes", w)]
                         ELSE cli[c]]
            /\ UNCHANGED fault

(* ..._begin and ..._commit, of a command for its own client or of a window  *)
(* for those that show it: nothing starts if no pane has moved.              *)
LayoutChanges(C, w) == \E moved \in SUBSET Starting(C, w) : LayoutMoves(C, w, moved)

Clear(c) == [op |-> "clear", client |-> c]
Kill(w) == [op |-> "kill", win |-> w, todo |-> Session]
Unref(w) == [op |-> "unref", win |-> w]

----------------------------------------------------------------------------
(* The calls of a running handler. *)

Doing(op) == fault = "none" /\ agenda # <<>> /\ Head(agenda).op = op
Call == Head(agenda)
Continue(work) == agenda' = work \o Tail(agenda)
Fault(what) == fault' = what /\ UNCHANGED <<cli, ses, win, capture, defer, agenda, moves>>

(* The count of a deferred close, one carrier less. *)
Release(d) == [defer EXCEPT ![d].pending = @ - 1]

(* server_client_clear_overlay, animation_free_cb: the animation is gone     *)
(* first, and its deferred close is made if it was the last to carry it;     *)
(* then the overlay is reset.                                                *)
ClearOverlay ==
    /\ Doing("clear")
    /\ LET c == Call.client
           d == cli[c].anim.defer
       IN  /\ cli' = [cli EXCEPT ![c].anim = NoAnimation]
           /\ defer' = IF d = 0 THEN defer ELSE Release(d)
           /\ Continue((IF d # 0 /\ defer'[d].pending <= 0
                        THEN <<[op |-> "finalize", defer |-> d]>> ELSE <<>>)
                       \o <<[op |-> "cleared", client |-> c]>>)
    /\ UNCHANGED <<ses, win, capture, fault, moves>>

OverlayCleared ==
    /\ Doing("cleared")
    /\ cli' = [cli EXCEPT ![Call.client].overlay = "none"]
    /\ Continue(<<>>)
    /\ UNCHANGED <<ses, win, capture, defer, fault, moves>>

(* window_remove_pane and what follows: an empty window is killed, the       *)
(* layout of another changes for the clients C.                              *)
PaneGoes(w, p, C, work) ==
    /\ win' = [win EXCEPT ![w].panes[p] = "none"]
    /\ IF Panes(w) = {p}
       THEN /\ agenda' = <<Kill(w)>> \o work
            /\ capture' = Forgotten(C, w)
            /\ UNCHANGED <<cli, fault>>
       ELSE agenda' = work /\ LayoutChanges(C, w)

(* animation_window_close_finalize.                                          *)
Finalize ==
    /\ Doing("finalize")
    /\ LET d == Call.defer
           w == defer[d].win
           p == defer[d].pane
       IN  IF win[w].panes[p] = "none"
           THEN Fault("pane")
           ELSE /\ PaneGoes(w, p, Viewers(w), <<Unref(w)>> \o Tail(agenda))
                /\ defer' = [defer EXCEPT ![d] = NoDefer]
                /\ UNCHANGED <<ses, moves>>

(* session_detach for server_kill_window: the next window becomes current,   *)
(* then the link goes; its reference passes to the window-unlinked           *)
(* notification.  With its last window the session goes, and its clients are *)
(* detached or, if the option says so, go to another session                 *)
(* (server_destroy_session).                                                 *)
Detach(s, w) ==
    LET next == IF ses[s].curw = w THEN Successor(s) ELSE ses[s].curw
        moved == MadeCurrent(ses[s], next)
        left == [moved EXCEPT !.linked = @ \ {w}, !.lastw = Without(@, {w})]
        others == {t \in Session \ {s} : Alive(t)}
    IN  /\ win' = [win EXCEPT ![w].noted = @ + 1]
        /\ IF left.linked # {}
           THEN /\ ses' = [ses EXCEPT ![s] = left]
                /\ cli' = Slid({s}, [t \in {s} |-> next])
           ELSE /\ ses' = [ses EXCEPT ![s] = [linked |-> {}, curw |-> 0, lastw |-> <<>>]]
                /\ \E t \in IF DetachOnDestroy \/ others = {} THEN {0} ELSE others :
                     cli' = [c \in Client |-> IF c \in Clients(s)
                                              THEN [cli[c] EXCEPT !.session = t]
                                              ELSE cli[c]]

(* server_kill_window, one session after the other.                          *)
KillFromSession ==
    /\ Doing("kill")
    /\ \/ /\ Call.todo = {}
          /\ Continue(<<>>)
          /\ UNCHANGED <<cli, ses, win>>
       \/ \E s \in Call.todo :
            /\ Continue(<<[Call EXCEPT !.todo = @ \ {s}]>>)
            /\ IF s \in Linking(Call.win) THEN Detach(s, Call.win)
               ELSE UNCHANGED <<cli, ses, win>>
    /\ UNCHANGED <<capture, defer, fault, moves>>

(* window_remove_ref: the last one destroys the window.                      *)
RemoveRef ==
    /\ Doing("unref")
    /\ LET w == Call.win IN
         /\ win' = [win EXCEPT ![w].refs = @ - 1]
         /\ Continue(IF win[w].refs = 1
                     THEN <<[op |-> "invalidate", win |-> w,
                             todo |-> {c \in Client : cli[c].listed}]>>
                     ELSE <<>>)
    /\ UNCHANGED <<cli, ses, capture, defer, fault, moves>>

(* A mutant: only the slides to the window end. *)
ShowsSlide(c, w) == cli[c].anim.kind = "slide" /\ cli[c].anim.win = w

(* The animation of client c points to window w.                             *)
Shows(c, w) == cli[c].anim.win = w

(* window_destroy: animation_window_invalidate looks at every client, and    *)
(* ends its animation, before the panes and the window are freed.            *)
Invalidate ==
    /\ Doing("invalidate")
    /\ LET w == Call.win IN
         \/ /\ Call.todo = {}
            /\ win' = [win EXCEPT ![w].panes = [p \in PaneId |-> "none"]]
            /\ capture' = Forgotten({}, w)
            /\ Continue(<<>>)
         \/ \E c \in Call.todo :
              /\ Continue((IF Shows(c, w) THEN <<Clear(c)>> ELSE <<>>)
                          \o <<[Call EXCEPT !.todo = @ \ {c}]>>)
              /\ UNCHANGED <<win, capture>>
    /\ UNCHANGED <<cli, ses, defer, fault, moves>>

(* The rest of server_client_set_overlay: it looks at the client's session.  *)
SetOverlay ==
    /\ Doing("set")
    /\ LET c == Call.client IN
         IF cli[c].session = 0
         THEN Fault("session")
         ELSE /\ cli' = [cli EXCEPT ![c].overlay = "other"]
              /\ Continue(<<>>)
              /\ UNCHANGED <<ses, win, capture, defer, fault, moves>>

(* The rest of status_prompt_set: it expands the prompt for its target.      *)
SetPrompt ==
    /\ Doing("prompt")
    /\ IF Call.win \notin ses[Call.session].linked
       THEN Fault("winlink")
       ELSE Continue(<<>>) /\ UNCHANGED <<cli, ses, win, capture, defer, fault, moves>>

(* Copy mode scrolls in a pane: animation_begin_scroll for every client that *)
(* shows its window, whose animation gives way first.                        *)
ScrollForClient ==
    /\ Doing("scroll")
    /\ LET w == Call.win
           p == Call.pane
       IN  \/ /\ Call.todo = {}
              /\ Continue(<<>>)
              /\ UNCHANGED <<cli, ses, win, capture, defer, fault, moves>>
           \/ \E c \in Call.todo :
                LET rest == <<[Call EXCEPT !.todo = @ \ {c}]>>
                    picture == <<[op |-> "picture", client |-> c, win |-> w, pane |-> p]>>
                IN  IF win[w].panes[p] = "none"
                    THEN Fault("pane")
                    ELSE /\ Continue(IF c \notin Viewers(w) \/ cli[c].overlay = "other" \/ ~cli[c].sized
                                     THEN rest
                                     ELSE IF cli[c].overlay = "animation"
                                     THEN <<Clear(c)>> \o picture \o rest
                                     ELSE picture \o rest)
                         /\ UNCHANGED <<cli, ses, win, capture, defer, fault, moves>>

(* The rest of animation_begin_scroll looks at the pane and the session.     *)
SetPicture ==
    /\ Doing("picture")
    /\ LET c == Call.client IN
         IF win[Call.win].panes[Call.pane] = "none"
         THEN Fault("pane")
         ELSE IF cli[c].session = 0
         THEN Fault("session")
         ELSE /\ cli' = [cli EXCEPT ![c].overlay = "animation", ![c].anim = Anim("picture", 0)]
              /\ Continue(<<>>)
              /\ UNCHANGED <<ses, win, capture, defer, fault, moves>>

(* The rest of server_client_lost; nobody looks at its capture any more.     *)
RemoveClient ==
    /\ Doing("lost")
    /\ cli' = [cli EXCEPT ![Call.client].listed = FALSE, ![Call.client].session = 0]
    /\ capture' = [capture EXCEPT ![Call.client] = 0]
    /\ Continue(<<>>)
    /\ UNCHANGED <<ses, win, defer, fault, moves>>

Handle ==
    \/ ClearOverlay \/ OverlayCleared \/ Finalize \/ KillFromSession \/ RemoveRef
    \/ Invalidate \/ SetOverlay \/ SetPrompt \/ ScrollForClient
    \/ SetPicture \/ RemoveClient

----------------------------------------------------------------------------
(* The handlers. *)

Quiet == agenda = <<>> /\ fault = "none"
Move == Quiet /\ moves < MaxMoves /\ moves' = moves + 1

Attached(c) == cli[c].listed /\ cli[c].session # 0

(* select-window, next-window, previous-window, last-window.                 *)
SelectWindow(s, w) ==
    /\ Move
    /\ w \in ses[s].linked /\ w # ses[s].curw
    /\ cli' = Slid({s}, [t \in {s} |-> w])
    /\ ses' = [ses EXCEPT ![s] = MadeCurrent(@, w)]
    /\ UNCHANGED <<win, capture, defer, agenda, fault>>

(* animation_window_close_defer for the last pane of w, if every session     *)
(* that shows it has another window: they all turn away from it, and the     *)
(* pane's close is left to the slides that are going then, whosever they     *)
(* are, unless they carry one already.                                       *)
Deferring(w) ==
    LET S == {s \in Session : ses[s].curw = w} IN
    S # {} /\ \A s \in S : Cardinality(ses[s].linked) > 1

TurnAway(w) ==
    LET S == {s \in Session : ses[s].curw = w}
        to == [s \in S |-> Successor(s)]
        turned == Slid(S, to)
    IN  [ses |-> [s \in Session |->
                    IF s \in S
                    THEN [MadeCurrent(ses[s], to[s]) EXCEPT !.lastw = Without(@, {w})]
                    ELSE ses[s]],
         cli |-> turned,
         carriers |-> {c \in Client : /\ turned[c].listed /\ turned[c].anim.kind = "slide"
                                      /\ turned[c].anim.defer = 0}]

(* A mutant: the deferred close takes no reference. *)
DeferUncounted(w, p) ==
    LET t == TurnAway(w)
        d == CHOOSE e \in Defer : defer[e] = NoDefer
    IN  /\ ses' = t.ses
        /\ cli' = [c \in Client |-> IF c \in t.carriers
                                    THEN [t.cli[c] EXCEPT !.anim.defer = d] ELSE t.cli[c]]
        /\ defer' = [defer EXCEPT ![d] = [win |-> w, pane |-> p,
                                          pending |-> Cardinality(t.carriers)]]
        /\ win' = [win EXCEPT ![w].panes[p] = "closing"]

DeferClose(w, p) ==
    LET t == TurnAway(w)
        d == CHOOSE e \in Defer : defer[e] = NoDefer
    IN  /\ ses' = t.ses
        /\ cli' = [c \in Client |-> IF c \in t.carriers
                                    THEN [t.cli[c] EXCEPT !.anim.defer = d] ELSE t.cli[c]]
        /\ defer' = [defer EXCEPT ![d] = [win |-> w, pane |-> p,
                                          pending |-> Cardinality(t.carriers)]]
        /\ win' = [win EXCEPT ![w].refs = @ + 1, ![w].panes[p] = "closing"]

(* A mutant: the close is deferred even if no slide carries it. *)
PaneExitsDeferred(w, p) ==
    /\ Move
    /\ win[w].panes[p] = "running"
    /\ IF Panes(w) = {p} /\ Deferring(w) /\ \E d \in Defer : defer[d] = NoDefer
       THEN DeferClose(w, p) /\ UNCHANGED <<agenda, capture, fault>>
       ELSE PaneGoes(w, p, Viewers(w), <<>>) /\ UNCHANGED <<ses, defer>>

(* server_destroy_pane: the program of a running pane has exited.  A         *)
(* deferred pane stays as it is, even if it was respawned.                   *)
PaneExits(w, p) ==
    /\ Move
    /\ win[w].panes[p] = "running"
    /\ LET t == TurnAway(w) IN
         IF Panes(w) = {p} /\ Deferring(w)
         THEN IF t.carriers # {}
              THEN DeferClose(w, p) /\ UNCHANGED <<agenda, capture, fault>>
              ELSE /\ ses' = t.ses /\ cli' = t.cli
                   /\ win' = [win EXCEPT ![w].panes[p] = "none"]
                   /\ capture' = Forgotten({}, w)
                   /\ agenda' = <<Kill(w)>>
                   /\ UNCHANGED <<defer, fault>>
         ELSE /\ PaneGoes(w, p, Viewers(w), <<>>)
              /\ UNCHANGED <<ses, defer>>

(* kill-pane by client c: server_kill_pane, with the layout animation of the *)
(* command's own client; when the window goes, nothing starts.               *)
KillPane(c, w, p) ==
    /\ Move
    /\ cli[c].listed /\ p \in Panes(w) /\ Linking(w) # {}
    /\ IF Panes(w) = {p}
       THEN /\ agenda' = <<Kill(w)>>
            /\ capture' = [capture EXCEPT ![c] = 0]
            /\ UNCHANGED <<cli, win, fault>>
       ELSE PaneGoes(w, p, {c}, <<>>)
    /\ UNCHANGED <<ses, defer>>

KillWindow(w) ==
    /\ Move
    /\ Linking(w) # {}
    /\ agenda' = <<Kill(w)>>
    /\ UNCHANGED <<cli, ses, win, capture, defer, fault>>

(* A pane that is not one a deferred close names.                            *)
NewPane(w) ==
    \E p \in PaneId \ Panes(w) :
        /\ \A d \in Defer : defer[d].win # w \/ defer[d].pane # p
        /\ win' = [win EXCEPT ![w].panes[p] = "running"]

(* split-window by client c.                                                 *)
SplitWindow(c, w) ==
    /\ Move
    /\ cli[c].listed /\ Linking(w) # {}
    /\ NewPane(w)
    /\ LayoutMoves({c}, w, Starting({c}, w))
    /\ UNCHANGED <<ses, defer, agenda>>

(* split-window that fails: before there is a pane, with -s, -S or -R and a  *)
(* bad style, when the pane is there, or with -I and no input to be had, when*)
(* it is gone again.  Only the first commits.                                *)
SplitFails(c, w) ==
    /\ Move
    /\ cli[c].listed /\ Linking(w) # {}
    /\ \/ LayoutChanges({c}, w) /\ UNCHANGED win
       \/ /\ NewPane(w) \/ UNCHANGED win
          /\ capture' = Captured(c, w)
          /\ UNCHANGED <<cli, fault>>
    /\ UNCHANGED <<ses, defer, agenda>>

(* respawn-pane of a pane whose program has exited: the flag of the deferred *)
(* close stays.                                                              *)
RespawnPane(w, p) ==
    /\ Move
    /\ win[w].panes[p] = "closing" /\ Linking(w) # {}
    /\ win' = [win EXCEPT ![w].panes[p] = "revived"]
    /\ UNCHANGED <<cli, ses, capture, defer, agenda, fault>>

(* resize-pane -Z by client c.                                               *)
ZoomPane(c, w) ==
    /\ Move
    /\ cli[c].listed /\ Linking(w) # {}
    /\ LayoutChanges({c}, w)
    /\ UNCHANGED <<ses, win, defer, agenda>>

(* animation_alt_screen_broadcast, when a pane of w enters or leaves the     *)
(* alternate screen: the picture is given to the first client that shows w,  *)
(* which frees it if nothing starts there, and copied from it for the others *)
(* (the order of the clients is not modelled: any may be the first).         *)
AlternateScreen(w) ==
    /\ Move
    /\ Panes(w) # {}
    /\ \E first \in Viewers(w) :
         IF ~CanBegin(cli[first]) /\ Viewers(w) # {first}
         THEN fault' = "picture" /\ UNCHANGED cli
         ELSE cli' = BegunBy(Viewers(w), "panes", w) /\ UNCHANGED fault
    /\ UNCHANGED <<ses, win, capture, defer, agenda>>

(* window_pane_set_mode, window_pane_reset_mode: the picture of a pane of w  *)
(* dissolves.                                                                *)
PaneMode(w) ==
    /\ Move
    /\ Panes(w) # {}
    /\ cli' = BegunBy(Viewers(w), "picture", 0)
    /\ UNCHANGED <<ses, win, capture, defer, agenda, fault>>

(* window_copy_pageup, window_copy_scroll...: copy mode scrolls in a pane.   *)
Scroll(w, p) ==
    /\ Move
    /\ p \in Panes(w)
    /\ agenda' = <<[op |-> "scroll", win |-> w, pane |-> p,
                    todo |-> {c \in Client : cli[c].listed}]>>
    /\ UNCHANGED <<cli, ses, win, capture, defer, fault>>

(* server_client_set_overlay: the commands for a menu, a popup or the pane   *)
(* numbers do nothing while something is shown, but the menu of a mode tree  *)
(* or of a prompt's completions replaces it.                                 *)
ShowOverlay(c) ==
    /\ Move
    /\ Attached(c) /\ c \notin Control
    /\ agenda' = (IF cli[c].overlay # "none" THEN <<Clear(c)>> ELSE <<>>)
                 \o <<[op |-> "set", client |-> c]>>
    /\ UNCHANGED <<cli, ses, win, capture, defer, fault>>

(* status_prompt_set, for a command whose target is the current window.      *)
ShowPrompt(c) ==
    /\ Move
    /\ Attached(c) /\ c \notin Control
    /\ LET s == cli[c].session IN
         agenda' = (IF cli[c].overlay # "none" THEN <<Clear(c)>> ELSE <<>>)
                   \o <<[op |-> "prompt", session |-> s, win |-> ses[s].curw]>>
    /\ UNCHANGED <<cli, ses, win, capture, defer, fault>>

(* The overlay times out, or a key or the answer ends it; an animation ends  *)
(* when the terminal has a new size, or with display-popup -C.               *)
EndOverlay(c) ==
    /\ Move
    /\ cli[c].listed /\ cli[c].overlay # "none" /\ c \notin Control
    /\ agenda' = <<Clear(c)>>
    /\ UNCHANGED <<cli, ses, win, capture, defer, fault>>

(* refresh-client -C of a control client.                                    *)
SetSize(c) ==
    /\ Move
    /\ c \in Control /\ cli[c].listed /\ ~cli[c].sized
    /\ cli' = [cli EXCEPT ![c].sized = TRUE]
    /\ UNCHANGED <<ses, win, capture, defer, agenda, fault>>

SwitchClient(c, s) ==
    /\ Move
    /\ Attached(c) /\ cli[c].session # s /\ Alive(s)
    /\ cli' = [cli EXCEPT ![c].session = s]
    /\ UNCHANGED <<ses, win, capture, defer, agenda, fault>>

ClientLost(c) ==
    /\ Move
    /\ cli[c].listed
    /\ agenda' = (IF cli[c].overlay # "none" THEN <<Clear(c)>> ELSE <<>>)
                 \o <<[op |-> "lost", client |-> c]>>
    /\ UNCHANGED <<cli, ses, win, capture, defer, fault>>

(* A mutant: the entry's reference is counted off twice. *)
NotifiedAgain(w) ==
    /\ Quiet
    /\ win[w].noted > 0
    /\ win' = [win EXCEPT ![w].noted = @ - 2]
    /\ agenda' = <<Unref(w)>>
    /\ UNCHANGED <<cli, ses, capture, defer, fault, moves>>

(* notify_callback drops the reference of its window.                        *)
Notified(w) ==
    /\ Quiet
    /\ win[w].noted > 0
    /\ win' = [win EXCEPT ![w].noted = @ - 1]
    /\ agenda' = <<Unref(w)>>
    /\ UNCHANGED <<cli, ses, capture, defer, fault, moves>>

(* Time passes until the animation is to end.                                *)
TimeUp(c) ==
    /\ Quiet
    /\ cli[c].anim.kind # "none" /\ ~cli[c].anim.over
    /\ cli' = [cli EXCEPT ![c].anim.over = TRUE]
    /\ UNCHANGED <<ses, win, capture, defer, agenda, fault, moves>>

(* A mutant: an animation that carries a deferred close goes on. *)
LastFrameHeld(c) ==
    /\ Quiet
    /\ cli[c].anim.over /\ cli[c].anim.defer = 0
    /\ agenda' = <<Clear(c)>>
    /\ UNCHANGED <<cli, ses, win, capture, defer, fault, moves>>

(* animation_frame_cb of an animation that is to end.                        *)
LastFrame(c) ==
    /\ Quiet
    /\ cli[c].anim.over
    /\ agenda' = <<Clear(c)>>
    /\ UNCHANGED <<cli, ses, win, capture, defer, fault, moves>>

UserNext ==
    \/ \E s \in Session, w \in Window : SelectWindow(s, w)
    \/ \E w \in Window, p \in PaneId : PaneExits(w, p) \/ RespawnPane(w, p) \/ Scroll(w, p)
    \/ \E w \in Window : KillWindow(w) \/ AlternateScreen(w) \/ PaneMode(w)
    \/ \E c \in Client, w \in Window :
         SplitWindow(c, w) \/ SplitFails(c, w) \/ ZoomPane(c, w) \/ \E p \in PaneId : KillPane(c, w, p)
    \/ \E c \in Client : ShowOverlay(c) \/ ShowPrompt(c) \/ EndOverlay(c) \/ SetSize(c) \/ ClientLost(c)
    \/ \E c \in Client, s \in Session : SwitchClient(c, s)

LoopNext ==
    \/ \E w \in Window : Notified(w)
    \/ \E c \in Client : TimeUp(c) \/ LastFrame(c)

AnimationNext == Handle \/ UserNext \/ LoopNext

AnimationSpec == AnimationInit /\ [][AnimationNext]_vars

(* A handler runs to its end; the event loop serves the timers and the       *)
(* global queue.                                                             *)
FairAnimationSpec ==
    /\ AnimationSpec
    /\ WF_vars(Handle)
    /\ \A w \in Window : WF_vars(Notified(w))
    /\ \A c \in Client : WF_vars(TimeUp(c)) /\ WF_vars(LastFrame(c))

----------------------------------------------------------------------------
(* The properties. *)

(* Between two handlers a client has an animation exactly while its overlay  *)
(* is the animation's: nothing is left that swallows its drawing, however    *)
(* the handlers that clear overlays come back to one another; a client that  *)
(* is gone or has no size has none.                                          *)
AnimationOwnsOverlay ==
    agenda = <<>> =>
        \A c \in Client :
            /\ cli[c].anim.kind # "none" <=> cli[c].overlay = "animation"
            /\ cli[c].overlay = "animation" => cli[c].listed /\ cli[c].sized

(* A capture that a command has left is of a window that still has panes: it *)
(* is compared by address with the window of a later command.                *)
CapturesKept ==
    \A c \in Client : capture[c] # 0 => cli[c].sized /\ Panes(capture[c]) # {}

(* The window an animation draws exists: animation_window_invalidate finds   *)
(* every animation before a window is freed, and none starts meanwhile.      *)
DrawnWindowsExist ==
    \A c \in Client :
        LET w == cli[c].anim.win IN
        w # 0 => \/ win[w].refs > 0
                 \/ \E k \in DOMAIN agenda : /\ agenda[k].op = "invalidate" /\ agenda[k].win = w
                                             /\ \/ c \in agenda[k].todo
                                                \/ agenda[k] # Head(agenda)

(* A deferred close counts the animations that carry it, and is dropped only *)
(* once none does: so the pane is closed when the last ends, not before, and *)
(* not never.                                                                *)
CarriersCounted ==
    \A d \in Defer :
        /\ defer[d].pending = Cardinality({c \in Client : cli[c].anim.defer = d})
        /\ \A c \in Client : cli[c].anim.defer = d => cli[c].anim.kind = "slide" /\ cli[c].listed

(* A pane that waits to be closed is named by one deferred close, which some *)
(* animation carries, and its window lives, whatever has happened to the     *)
(* window's sessions.                                                        *)
ClosingPaneHeld ==
    agenda = <<>> =>
        \A w \in Window, p \in PaneId :
            win[w].panes[p] \in {"closing", "revived"} =>
                /\ win[w].refs > 0
                /\ \E d \in Defer :
                     /\ defer[d].win = w /\ defer[d].pane = p /\ defer[d].pending > 0
                     /\ \A e \in Defer \ {d} : defer[e].win # w \/ defer[e].pane # p

(* A window has a reference for every link, every notification and every     *)
(* deferred close, and no other: it is neither freed under one of them nor   *)
(* kept for ever.                                                            *)
WindowReferencesExact ==
    agenda = <<>> =>
        \A w \in Window :
            /\ win[w].refs = Cardinality(Linking(w)) + win[w].noted
                             + Cardinality({d \in Defer : defer[d].win = w})
            /\ win[w].refs = 0 => Panes(w) = {}
            /\ Linking(w) # {} => Panes(w) # {}

(* The current window of a session is one of its windows, and the windows    *)
(* that were current before are others of them, each once; a client is       *)
(* attached to a session that exists.                                        *)
CurrentWindowLinked ==
    /\ \A s \in Session :
         /\ Alive(s) => ses[s].curw \in ses[s].linked
         /\ \A k, l \in DOMAIN ses[s].lastw :
              /\ ses[s].lastw[k] \in ses[s].linked \ {ses[s].curw}
              /\ k # l => ses[s].lastw[k] # ses[s].lastw[l]
    /\ \A c \in Client : cli[c].session # 0 => Alive(cli[c].session)

(* What the handlers that end animations rely on between themselves.         *)
AnimationInv ==
    /\ AnimationTypeOK /\ AnimationOwnsOverlay /\ CapturesKept
    /\ CarriersCounted /\ CurrentWindowLinked

(* An animation ends, unless its session keeps turning it to other windows,  *)
(* and a pane whose close was deferred is closed.                            *)
AnimationsEnd ==
    /\ \A c \in Client : cli[c].anim.kind # "none" ~> cli[c].anim.kind = "none" \/ fault # "none"
    /\ \A w \in Window, p \in PaneId :
           win[w].panes[p] = "closing" ~>
               win[w].panes[p] = "none" \/ win[w].panes[p] = "revived" \/ fault # "none"
=============================================================================
