------------------------------ MODULE Control ------------------------------
(***************************************************************************)
(* Output to control clients (control.c) and the pane buffers it is read   *)
(* from (window.c, server-client.c).  A pane keeps what its program wrote  *)
(* until every reader is past it.  A control client has a queue of blocks: *)
(* a block of output stands for bytes still in the pane's buffer, a line   *)
(* (a notification, the output of a command) waits behind the output that  *)
(* came before it.  When the client's descriptor is writable, the panes    *)
(* with blocks take turns to fill a bounded buffer.                        *)
(*                                                                         *)
(* Bytes of a pane are numbered from the start; a position is the number   *)
(* of bytes before it.  libevent calls the handlers of whatever is ready,  *)
(* then the commands run, then server_client_loop.                         *)
(***************************************************************************)
EXTENDS Integers, Sequences, FiniteSets, FiniteSetsExt, SequencesExt, TailQueue

CONSTANTS
    Client,         \* control clients
    Pane,           \* panes
    View,           \* the panes of the windows of each session
    Start,          \* what there is in the beginning
    NoClient,       \* no client is being written to
    Line,           \* marks a block that is a line
    Low, High,      \* CONTROL_BUFFER_LOW and _HIGH; a line or a byte takes 1
    MaxBytes,       \* bound: the bytes all programs write
    MaxMoves        \* bound: commands and lines

ASSUME ControlAssumption ==
    /\ NoClient \notin Client
    /\ Line \notin Pane
    /\ View \subseteq SUBSET Pane
    /\ Start \subseteq [clients : SUBSET Client, panes : SUBSET Pane,
                         read : 0 .. MaxBytes, moves : 0 .. MaxMoves]
    /\ Low \in 1 .. High
    /\ {High, MaxBytes, MaxMoves} \subseteq Nat

VARIABLES
    phase,          \* "events": callbacks; "commands": cmdq_next and the loop
    pane,           \* the panes and their buffers
    cli,            \* the control clients
    served,         \* clients whose descriptor has no write event left to serve
    writing,        \* the state of control_write_callback
    moves,          \* commands and lines so far
    fault           \* what has gone wrong for good, or "none"

vars == <<phase, pane, cli, served, writing, moves, fault>>

Position == Nat

(* base: base_offset; end: where the buffered bytes end; parsed: the        *)
(* position of tmux's own parser; reading: EV_READ; live: the pane has a    *)
(* program.                                                                 *)
PaneType == [base : Position, end : Position, parsed : Position,
             reading : BOOLEAN, live : BOOLEAN]

(* A block of all_blocks.  after: for a line, how much of each pane had     *)
(* been queued before it (a history field).                                 *)
Block == [of : Pane \cup {Line}, size : Position, after : [Pane -> Position]]

ControlPane == [offset : Position, queued : Position, off : BOOLEAN,
                paused : BOOLEAN]

(* view: the panes of its session; pausing and silent: pause-after and      *)
(* no-output; known: panes it keeps offsets for; fill: bytes in the buffer  *)
(* of write_event; armed: EV_WRITE.  due and past are history: the byte of  *)
(* a pane the client expects next, and how much of a pane was queued before *)
(* the last line it was sent.                                               *)
ClientType ==
    [view : View,
     status : {"attached", "suspended", "exiting", "exited", "lost"},
     pausing : BOOLEAN, silent : BOOLEAN, known : SUBSET Pane,
     cp : [Pane -> ControlPane], all : Seq(Block), pending : Seq(Pane),
     fill : Nat, armed : BOOLEAN,
     due : [Pane -> Position], past : [Pane -> Position]]

(* todo: the panes left in this turn; limit and used: for the first of      *)
(* them; message: bytes of it that are read but not yet written.            *)
WriteType == [client : Client \cup {NoClient}, todo : Seq(Pane), limit : Nat,
              used : Nat, message : Nat]

NoPane == [offset |-> 0, queued |-> 0, off |-> FALSE, paused |-> FALSE]
Nowhere == [p \in Pane |-> 0]
NotWriting == [client |-> NoClient, todo |-> <<>>, limit |-> 0, used |-> 0,
               message |-> 0]

(* control_start: a client that is attached to the session with panes v.    *)
NewClient(v, pausing) ==
    [view |-> v, status |-> "attached", pausing |-> pausing, silent |-> FALSE,
     known |-> {}, cp |-> [p \in Pane |-> NoPane], all |-> <<>>,
     pending |-> <<>>, fill |-> 0, armed |-> FALSE, due |-> Nowhere,
     past |-> Nowhere]

Gone(v) == [NewClient(v, FALSE) EXCEPT !.status = "lost"]

(* Some of the panes have a program, whose output so far has been read, and *)
(* some of the clients are attached.                                        *)
ControlInit ==
    /\ phase = "commands"
    /\ \E start \in Start :
          /\ pane = [p \in Pane |->
                [base |-> start.read, end |-> start.read, parsed |-> start.read,
                 reading |-> p \in start.panes, live |-> p \in start.panes]]
          /\ \E v \in View, pausing \in BOOLEAN :
                cli = [c \in Client |-> IF c \in start.clients
                                       THEN NewClient(v, pausing) ELSE Gone(v)]
          /\ moves = start.moves
    /\ served = Client
    /\ writing = NotWriting
    /\ fault = "none"
-----------------------------------------------------------------------------
(* Functions of control.c, from a client x to what becomes of it.           *)

Larger(m, n) == IF m > n THEN m ELSE n
Smaller(m, n) == IF m < n THEN m ELSE n

IsOutput(b) == b.of # Line
HasBlocks(x, p) == \E i \in DOMAIN x.all : x.all[i].of = p

(* The oldest block of p, if it has one.                                    *)
Oldest(x, p) ==
    CHOOSE i \in DOMAIN x.all :
        x.all[i].of = p /\ \A k \in 1 .. i - 1 : x.all[k].of # p

Discard(x, p) == [x EXCEPT !.all = Without(@, {b \in Range(@) : b.of = p})]
DiscardAll(x) == [x EXCEPT !.all = Without(@, {b \in Range(@) : IsOutput(b)})]

(* A mutant: the offsets are put behind the last byte.                      *)
MoveToNext(x, p, n) ==
    [x EXCEPT !.cp[p].offset = n + 1, !.cp[p].queued = n + 1, !.due[p] = n + 1]

(* Both offsets of p move to n; the client expects no byte before.          *)
MoveTo(x, p, n) ==
    [x EXCEPT !.cp[p].offset = n, !.cp[p].queued = n, !.due[p] = n]

AddPane(x, p) ==
    IF p \in x.known THEN x
    ELSE [MoveTo(x, p, pane[p].parsed) EXCEPT
             !.known = @ \cup {p}]

ResetOffsets(x) ==
    [DiscardAll(x) EXCEPT !.known = {}, !.pending = <<>>,
                          !.cp = [p \in Pane |-> NoPane], !.due = Nowhere]

Queued(x) == [p \in Pane |-> IF p \in x.known THEN x.cp[p].queued ELSE 0]

(* A mutant: a line never waits.                                            *)
WriteLineAtOnce(x) ==
    [x EXCEPT !.fill = @ + 1, !.armed = TRUE,
              !.past = [p \in Pane |-> Larger(@[p], Queued(x)[p])]]

(* control_write.                                                           *)
WriteLine(x) ==
    IF x.all = <<>>
    THEN [x EXCEPT !.fill = @ + 1, !.armed = TRUE,
                   !.past = [p \in Pane |-> Larger(@[p], Queued(x)[p])]]
    ELSE [x EXCEPT !.armed = TRUE,
                   !.all = Append(@, [of |-> Line, size |-> 0,
                                      after |-> Queued(x)])]

(* control_flush_all_blocks: the lines ahead of all output are written.     *)
FlushLines(x) ==
    LET out == {i \in DOMAIN x.all : IsOutput(x.all[i])}
        n == IF out = {} THEN Len(x.all) ELSE Min(out) - 1
    IN [x EXCEPT
          !.all = SubSeq(@, n + 1, Len(@)), !.fill = @ + n,
          !.past = [p \in Pane |->
                      Max({@[p]} \cup {x.all[i].after[p] : i \in 1 .. n})]]

Exiting(x) == [DiscardAll(x) EXCEPT !.status = "exiting"]

(* control_check_age when the oldest block of p is too old.                 *)
TooOld(x, p) ==
    IF x.pausing
    THEN WriteLine(Discard([x EXCEPT !.cp[p].paused = TRUE], p))
    ELSE Exiting(x)

Ignored(x, p, end) == MoveTo(x, p, end)

(* A mutant: EV_WRITE is not set.                                           *)
EnqueuedUnarmed(x, p, end) ==
    [x EXCEPT !.all = Append(@, [of |-> p, size |-> end - x.cp[p].queued,
                                 after |-> Nowhere]),
              !.cp[p].queued = end,
              !.pending = IF p \in Range(@) THEN @ ELSE Append(@, p)]

(* A new block of output.                                                   *)
Enqueued(x, p, end) ==
    [x EXCEPT !.all = Append(@, [of |-> p, size |-> end - x.cp[p].queued,
                                 after |-> Nowhere]),
              !.cp[p].queued = end,
              !.pending = IF p \in Range(@) THEN @ ELSE Append(@, p),
              !.armed = TRUE]

(* control_write_output, when the buffer of p has grown to end.             *)
WriteOutput(x, p, end, old) ==
    LET y == AddPane(x, p) IN
    IF x.status = "lost" \/ p \notin x.view THEN x
    ELSE IF x.status # "attached" \/ x.silent
    THEN IF p \in x.known THEN Ignored(x, p, end) ELSE x
    ELSE IF y.cp[p].off \/ y.cp[p].paused THEN Ignored(y, p, end)
    ELSE IF HasBlocks(y, p) /\ old THEN TooOld(y, p)
    ELSE Enqueued(y, p, end)
-----------------------------------------------------------------------------
(* Callbacks. *)

Idle == phase = "events" /\ writing = NotWriting /\ fault = "none"

Listed == {c \in Client : cli[c].status # "lost"}

Written == MapThenSumSet(LAMBDA p : pane[p].end, Pane)

(* window_pane_read_callback: n bytes arrive, each control client gets its  *)
(* block, the parser reads on.                                              *)
PaneRead(p, n) ==
    LET end == pane[p].end + n IN
    /\ Idle /\ pane[p].live /\ pane[p].reading
    /\ pane[p].parsed <= pane[p].end
    /\ Written + n <= MaxBytes
    /\ \E old \in SUBSET Client :
          cli' = [c \in Client |-> WriteOutput(cli[c], p, end, c \in old)]
    /\ pane' = [pane EXCEPT ![p].end = end, ![p].parsed = end,
                            ![p].reading = FALSE]
    /\ UNCHANGED <<phase, served, writing, moves, fault>>

(* A buffer that ends before the parser's position was replaced under it:   *)
(* the sizes wrap and the parser reads what the buffer does not hold.       *)
PaneOverrun(p) ==
    /\ Idle /\ pane[p].live /\ pane[p].reading
    /\ pane[p].end < pane[p].parsed
    /\ fault' = "overrun"
    /\ UNCHANGED <<phase, pane, cli, served, writing, moves>>

(* window_pane_error_callback: the program is gone.  The pane remains       *)
(* (remain-on-exit), without a buffer.                                      *)
PaneExits(p) ==
    /\ Idle /\ pane[p].live /\ pane[p].reading
    /\ pane' = [pane EXCEPT ![p].live = FALSE, ![p].reading = FALSE]
    /\ UNCHANGED <<phase, cli, served, writing, moves, fault>>

(* libevent writes some of the buffer; once there is little left,           *)
(* control_write_callback begins.                                           *)
Writable(c) ==
    /\ Idle /\ c \in Listed \ served /\ cli[c].armed
    /\ \E left \in 0 .. Larger(cli[c].fill - 1, 0) :
          LET x == [cli[c] EXCEPT !.fill = left] IN
          IF left <= Low
          THEN /\ cli' = [cli EXCEPT ![c] = FlushLines(x)]
               /\ writing' = [NotWriting EXCEPT !.client = c]
          ELSE /\ cli' = [cli EXCEPT ![c] = x]
               /\ UNCHANGED writing
    /\ served' = served \cup {c}
    /\ UNCHANGED <<phase, pane, moves, fault>>

(* control_error_callback, or an empty line in control_read_callback.       *)
HangUp(c) ==
    /\ Idle /\ cli[c].status \in {"attached", "suspended"}
    /\ cli' = [cli EXCEPT ![c].status = "exiting"]
    /\ UNCHANGED <<phase, pane, served, writing, moves, fault>>

(* MSG_WAKEUP. *)
WakeUp(c) ==
    /\ Idle /\ cli[c].status = "suspended"
    /\ cli' = [cli EXCEPT ![c].status = "attached"]
    /\ UNCHANGED <<phase, pane, served, writing, moves, fault>>

(* server_client_lost: control_stop frees everything.                       *)
ClientLost(c) ==
    /\ Idle /\ c \in Listed
    /\ cli' = [cli EXCEPT ![c] = Gone(cli[c].view)]
    /\ UNCHANGED <<phase, pane, served, writing, moves, fault>>

EventsDone ==
    /\ Idle
    /\ phase' = "commands"
    /\ UNCHANGED <<pane, cli, served, writing, moves, fault>>
-----------------------------------------------------------------------------
(* control_write_callback for client w, a step at a time.                   *)

w == writing.client
wx == cli[w]
First == Head(writing.todo)
Visiting == w # NoClient /\ writing.todo # <<>> /\ fault = "none"

(* The next pane of the turn; p, if it has no blocks any more, is no longer *)
(* pending.                                                                 *)
NextPane(x, p) ==
    /\ cli' = [cli EXCEPT ![w] =
                  IF HasBlocks(x, p) THEN x
                  ELSE [x EXCEPT !.pending = Without(@, {p})]]
    /\ writing' = [writing EXCEPT !.todo = Tail(@), !.used = 0, !.message = 0]

(* A mutant: a message that does not fill the limit is not written.         *)
SentFull(x, p) ==
    IF writing.used < writing.limit THEN x
    ELSE [x EXCEPT !.fill = @ + writing.message, !.due[p] = @ + writing.message]

(* control_write_data for the bytes read from p.                            *)
Sent(x, p) ==
    [x EXCEPT !.fill = @ + writing.message, !.due[p] = @ + writing.message]

(* A mutant: EV_WRITE goes whatever is left in the buffer.                  *)
DisarmedAlways(x) == [x EXCEPT !.armed = FALSE]

(* Nothing is left to write.                                                *)
Disarmed(x) == [x EXCEPT !.armed = @ /\ x.fill > 0]

(* Every pending pane gets its share of the room that is left.              *)
NextTurn ==
    /\ w # NoClient /\ writing.todo = <<>> /\ fault = "none"
    /\ IF wx.fill < High /\ wx.pending # <<>>
       THEN /\ writing' = [writing EXCEPT
                  !.todo = wx.pending,
                  !.limit = Larger((High - wx.fill) \div Len(wx.pending), 1)]
            /\ UNCHANGED cli
       ELSE /\ cli' = [cli EXCEPT ![w] = Disarmed(@)]
            /\ writing' = NotWriting
    /\ UNCHANGED <<phase, pane, served, moves, fault>>

(* The buffer is full before the next pane's turn.                          *)
TurnFull ==
    /\ Visiting /\ writing.used = 0 /\ wx.fill >= High
    /\ writing' = [writing EXCEPT !.todo = <<>>]
    /\ UNCHANGED <<phase, pane, cli, served, moves, fault>>

(* The pane has no program or is not in the client's session.               *)
PaneGone ==
    /\ Visiting /\ writing.used = 0 /\ wx.fill < High
    /\ First \notin wx.view \/ ~pane[First].live
    /\ NextPane(FlushLines(Discard(wx, First)), First)
    /\ UNCHANGED <<phase, pane, served, moves, fault>>

InTurn ==
    /\ Visiting
    /\ (writing.used = 0 => wx.fill < High)
    /\ First \in wx.view /\ pane[First].live

PaneDone ==
    /\ InTurn
    /\ writing.used = writing.limit \/ ~HasBlocks(wx, First)
    /\ NextPane(Sent(wx, First), First)
    /\ UNCHANGED <<phase, pane, served, moves, fault>>

(* control_check_age: what was read for the message is dropped.             *)
PaneBehind ==
    /\ InTurn
    /\ writing.used < writing.limit /\ HasBlocks(wx, First)
    /\ NextPane(TooOld(wx, First), First)
    /\ UNCHANGED <<phase, pane, served, moves, fault>>

(* How much of the oldest block of the pane fits.                           *)
Taking ==
    Smaller(wx.all[Oldest(wx, First)].size, writing.limit - writing.used)

(* control_append_data finds less in the pane's buffer: fatalx.             *)
NotEnoughData ==
    /\ InTurn
    /\ writing.used < writing.limit /\ HasBlocks(wx, First)
    /\ pane[First].end - wx.cp[First].offset < Taking
    /\ fault' = "not enough data"
    /\ UNCHANGED <<phase, pane, cli, served, writing, moves>>

(* Bytes of the oldest block go to the message.  If that was all of it and  *)
(* a line is next, the message is written and then the lines.               *)
TakeBlock ==
    LET p == First
        i == Oldest(wx, p)
        n == Taking
        x == [wx EXCEPT !.cp[p].offset = @ + n]
        rest == RemoveAt(x.all, i)
        message == writing.message + n
    IN
    /\ InTurn
    /\ writing.used < writing.limit /\ HasBlocks(wx, p)
    /\ n <= pane[p].end - wx.cp[p].offset
    /\ IF n < wx.all[i].size
       THEN /\ cli' = [cli EXCEPT ![w] = [x EXCEPT !.all[i].size = @ - n]]
            /\ writing' = [writing EXCEPT !.used = @ + n, !.message = message]
       ELSE IF rest # <<>> /\ ~IsOutput(Head(rest))
       THEN /\ cli' = [cli EXCEPT ![w] =
                  FlushLines([x EXCEPT !.all = rest, !.fill = @ + message,
                                       !.due[p] = @ + message])]
            /\ writing' = [writing EXCEPT !.used = @ + n, !.message = 0]
       ELSE /\ cli' = [cli EXCEPT ![w] = [x EXCEPT !.all = rest]]
            /\ writing' = [writing EXCEPT !.used = @ + n, !.message = message]
    /\ UNCHANGED <<phase, pane, served, moves, fault>>

WriteCallback ==
    \/ NextTurn \/ TurnFull \/ PaneGone \/ PaneDone \/ PaneBehind
    \/ NotEnoughData \/ TakeBlock
-----------------------------------------------------------------------------
(* Commands. *)

Commanding ==
    /\ phase = "commands" /\ fault = "none" /\ moves < MaxMoves
    /\ moves' = moves + 1
    /\ UNCHANGED <<phase, served, writing, fault>>

(* A command for client c, which becomes x.                                 *)
Becomes(c, x) ==
    /\ cli[c].status # "lost"
    /\ cli' = [cli EXCEPT ![c] = x]
    /\ UNCHANGED pane

(* control_write: a notification or what a command prints.                  *)
Notify(c) == Commanding /\ Becomes(c, WriteLine(cli[c]))

SetPaneOn(c, p) ==
    /\ Commanding
    /\ p \in cli[c].known /\ cli[c].cp[p].off
    /\ Becomes(c, [MoveTo(cli[c], p, pane[p].parsed)
                      EXCEPT !.cp[p].off = FALSE])

SetPaneOff(c, p) ==
    /\ Commanding
    /\ Becomes(c, [MoveTo(Discard(AddPane(cli[c], p), p), p, pane[p].parsed)
                      EXCEPT !.cp[p].off = TRUE])

ContinuePane(c, p) ==
    /\ Commanding
    /\ p \in cli[c].known /\ cli[c].cp[p].paused
    /\ Becomes(c, WriteLine([MoveTo(cli[c], p, pane[p].parsed)
                               EXCEPT !.cp[p].paused = FALSE]))

PausePane(c, p) ==
    LET x == AddPane(cli[c], p) IN
    /\ Commanding
    /\ ~x.cp[p].paused
    /\ Becomes(c, WriteLine(Discard([x EXCEPT !.cp[p].paused = TRUE], p)))

(* server_client_set_flags. *)
SetPauseAfter(c) ==
    Commanding /\ Becomes(c, [cli[c] EXCEPT !.pausing = ~@])
SetNoOutput(c, on) ==
    Commanding /\ Becomes(c, ResetOffsets([cli[c] EXCEPT !.silent = on]))

SwitchClient(c, v) ==
    /\ Commanding
    /\ cli[c].view # v
    /\ Becomes(c, WriteLine([cli[c] EXCEPT !.view = v]))

SuspendClient(c) ==
    /\ Commanding
    /\ cli[c].status = "attached"
    /\ Becomes(c, [cli[c] EXCEPT !.status = "suspended"])

DetachClient(c) ==
    /\ Commanding
    /\ cli[c].status \in {"attached", "suspended"}
    /\ Becomes(c, [cli[c] EXCEPT !.status = "exiting"])

(* respawn-pane: the new program has a new buffer, but base_offset and the  *)
(* offsets stay.                                                            *)
RespawnPane(p) ==
    /\ Commanding
    /\ pane' = [pane EXCEPT ![p].end = pane[p].base, ![p].reading = TRUE,
                            ![p].live = TRUE]
    /\ UNCHANGED cli
-----------------------------------------------------------------------------
(* server_client_loop. *)

CheckExit(x) ==
    LET y == DiscardAll(x) IN
    IF x.status # "exiting" THEN x
    ELSE IF y.all = <<>> /\ y.fill = 0 THEN [y EXCEPT !.status = "exited"]
    ELSE y

(* control_pane_offset: clients that still have to read from the buffer of  *)
(* p, and those that can take nothing at present.                           *)
Counts(x, p) == p \in x.known /\ ~x.silent /\ ~x.cp[p].paused /\ ~x.cp[p].off

(* A mutant: a client that has paused the pane takes nothing either.        *)
TakesNothingPaused(x, p) ==
    /\ p \in x.known /\ ~x.silent
    /\ x.cp[p].paused \/ x.cp[p].off \/ x.fill >= Low

TakesNothing(x, p) ==
    /\ p \in x.known /\ ~x.silent /\ ~x.cp[p].paused
    /\ x.cp[p].off \/ x.fill >= Low

(* A mutant: the buffer is drained up to where the parser is.               *)
ReadToParsed(f, p) == {pane[p].parsed}

(* How far the parser and the clients, as in f, have read.                  *)
ReadTo(f, p) ==
    {pane[p].parsed} \cup
        {f[c].cp[p].offset : c \in {d \in Listed : Counts(f[d], p)}}

(* server_client_check_pane_buffer.                                         *)
CheckPaneBuffer(f, p) ==
    LET base == Min(ReadTo(f, p))
        off == Listed # {} /\ \A c \in Listed : TakesNothing(f[c], p)
    IN [pane[p] EXCEPT !.base = base, !.end = Larger(@, base), !.reading = ~off]

ServerLoop ==
    /\ phase = "commands" /\ fault = "none"
    /\ LET f == [c \in Client |-> CheckExit(cli[c])] IN
       /\ cli' = f
       /\ pane' = [p \in Pane |->
                      IF pane[p].live THEN CheckPaneBuffer(f, p) ELSE pane[p]]
       /\ served' = {c \in Client : ~f[c].armed}
    /\ phase' = "events"
    /\ UNCHANGED <<writing, moves, fault>>
-----------------------------------------------------------------------------
Callback ==
    \/ \E p \in Pane : \/ PaneExits(p) \/ PaneOverrun(p)
                       \/ \E n \in 1 .. MaxBytes : PaneRead(p, n)
    \/ \E c \in Client : Writable(c) \/ HangUp(c) \/ WakeUp(c) \/ ClientLost(c)
    \/ EventsDone

Command ==
    \/ \E c \in Client :
          \/ Notify(c) \/ SetPauseAfter(c)
          \/ \E on \in BOOLEAN : SetNoOutput(c, on)
          \/ SuspendClient(c) \/ DetachClient(c)
          \/ \E v \in View : SwitchClient(c, v)
          \/ \E p \in Pane : \/ SetPaneOn(c, p) \/ SetPaneOff(c, p)
                             \/ ContinuePane(c, p) \/ PausePane(c, p)
    \/ \E p \in Pane : RespawnPane(p)

ControlNext == Callback \/ WriteCallback \/ Command \/ ServerLoop

ControlSpec == ControlInit /\ [][ControlNext]_vars

(* The loop goes on for ever, and a client that reads is found writable     *)
(* again and again.                                                         *)
FairControlSpec ==
    /\ ControlSpec
    /\ WF_vars(WriteCallback) /\ WF_vars(EventsDone) /\ WF_vars(ServerLoop)
    /\ \A c \in Client : SF_vars(Writable(c))
-----------------------------------------------------------------------------
(* Every variable has its type.                                             *)
ControlTypeOK ==
    /\ phase \in {"events", "commands"}
    /\ pane \in [Pane -> PaneType]
    /\ cli \in [Client -> ClientType]
    /\ served \subseteq Client
    /\ writing \in WriteType
    /\ moves \in 0 .. MaxMoves
    /\ fault \in {"none", "overrun", "not enough data"}

(* Bytes of p that c has read but not yet written.                          *)
InMessage(c, p) ==
    IF writing.client = c /\ writing.todo # <<>> /\ Head(writing.todo) = p
    THEN writing.message ELSE 0

(* The bytes of p that the first n blocks of a queue stand for.             *)
Ahead(s, p, n) ==
    LET sum[k \in 0 .. Len(s)] ==
          IF k = 0 THEN 0
          ELSE sum[k - 1] + (IF s[k].of = p THEN s[k].size ELSE 0)
    IN  sum[n]

Bytes(x, p) == Ahead(x.all, p, Len(x.all))

(* c is sent the output of p, and its blocks stand for exactly the bytes    *)
(* between its two offsets.                                                 *)
Receives(c, p) ==
    /\ cli[c].status \in {"attached", "suspended"} /\ Counts(cli[c], p)
    /\ cli[c].cp[p].offset + Bytes(cli[c], p) = cli[c].cp[p].queued

(* server_client_check_pane_buffer drains nothing that the parser or a      *)
(* control client has yet to read, whatever other clients do meanwhile.     *)
BufferKept ==
    fault = "none" => \A p \in Pane :
        pane[p].live /\ pane[p].parsed <= pane[p].end =>
            /\ pane[p].base <= pane[p].parsed
            /\ \A c \in Client : Receives(c, p) =>
                  /\ pane[p].base <= cli[c].cp[p].offset
                  /\ cli[c].cp[p].queued <= pane[p].end

(* A block of output "holds up any subsequent non-%output blocks until it   *)
(* is written" (control.c): no byte of a pane goes out after a line that    *)
(* was written when the byte was already queued.                            *)
LineAfterOutput ==
    \A c \in Client, p \in Pane : Receives(c, p) =>
        cli[c].past[p] <= cli[c].cp[p].offset - InMessage(c, p)

(* A client misses no byte and gets none twice while its pane is neither    *)
(* off nor paused: the next byte to be written is the one it expects.       *)
NoGap ==
    \A c \in Client, p \in Pane : Receives(c, p) =>
        cli[c].due[p] = cli[c].cp[p].offset - InMessage(c, p)

(* Output that is queued has someone to write it: its pane is pending, once,*)
(* and EV_WRITE is set.                                                     *)
OutputScheduled ==
    \A c \in Listed :
        /\ \A p \in Pane : HasBlocks(cli[c], p) =>
              p \in Range(cli[c].pending) /\ (cli[c].armed \/ fault # "none")
        /\ IsInjective(cli[c].pending)

(* What the handlers of a control client rely on between themselves.        *)
ControlInv == ControlTypeOK /\ OutputScheduled

(* Queued output goes out, or is given up: a pane never stays behind others *)
(* for good.                                                                *)
OutputGoesOut ==
    \A c \in Client :
        (\E p \in Pane : HasBlocks(cli[c], p))
            ~> ((\A p \in Pane : ~HasBlocks(cli[c], p)) \/ fault # "none")

(* A pane is read again, unless every client has turned it off.             *)
PaneReadAgain ==
    \A p \in Pane :
        (pane[p].live /\ ~pane[p].reading) ~>
            \/ pane[p].reading \/ ~pane[p].live \/ fault # "none"
            \/ \A c \in Listed : p \in cli[c].known /\ cli[c].cp[p].off

(* control.c asserts that a block never stands for more bytes than the      *)
(* pane's buffer holds: "not enough data".                                  *)
EnoughData == fault # "not enough data"
=============================================================================
