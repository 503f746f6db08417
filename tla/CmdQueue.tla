------------------------------ MODULE CmdQueue ------------------------------
(***************************************************************************)
(* The command queues (cmd-queue.c) and the server loop that runs them     *)
(* (server.c): one queue per client and a global one, items that fire      *)
(* once, groups that an error aborts, items inserted behind the one that   *)
(* runs, hooks, items that wait for a job or, through the wait-for command *)
(* of WaitFor, for one another, and clients that are lost meanwhile.       *)
(*                                                                         *)
(* WaitFor's flag[i] is what item i got from the wait-for command it       *)
(* fired, if it did.  Items are numbered in the order they are created.    *)
(***************************************************************************)
EXTENDS WaitFor, TailQueue, FiniteSets

CONSTANTS
    Client,         \* clients
    Global,         \* the name of the global queue; also "no client"
    MaxItems        \* bound: items ever created

ASSUME CmdQueueAssumption ==
    /\ Global \notin Client
    /\ MaxItems \in Nat
    /\ Item = 1 .. MaxItems

VARIABLES
    queue,          \* queue[q]: the items of a queue, head first
    info,           \* info[i]: what is fixed when item i is created
    fired,          \* items with CMDQ_FIRED set
    failed,         \* fired items whose command returned an error
    job,            \* fired items that wait for a job, a prompt or a menu
    running,        \* the queue cmdq_next is in, or Idle
    listed,         \* clients on the server's list
    refs,           \* references of a client
    dying,          \* clients whose server_client_free is scheduled
    freed,          \* clients freed
    exiting,        \* clients with CLIENT_EXIT set
    created         \* number of items created

qvars == <<queue, info, fired, failed, job, running, listed, refs, dying, freed,
           exiting, created>>
vars == <<qvars, wvars>>

Idle == "idle"
Queue == Client \cup {Global}
Kind == {"command", "notify", "done"}

(* client: item->client; about: the client of a notification; group 0 is no  *)
(* group; stored: the command is of a list that is kept and may be queued    *)
(* again, with the same group; firing: the first of the items that were      *)
(* queued with this one; nohooks: CMDQ_STATE_NOHOOKS; root: the appended     *)
(* item this one was, directly or not, inserted behind.                      *)
Info == [queue : Queue, client : Queue, about : Queue, kind : Kind,
         group : 0 .. MaxItems, stored : BOOLEAN, firing : 0 .. MaxItems,
         nohooks : BOOLEAN, root : 0 .. MaxItems]

Blank == [queue |-> Global, client |-> Global, about |-> Global, kind |-> "done",
          group |-> 0, stored |-> FALSE, firing |-> 0, nohooks |-> FALSE, root |-> 0]

Live == UNION {Range(queue[q]) : q \in Queue}

(* CMDQ_WAITING. *)
Waiting(i) == flag[i] = "waiting" \/ i \in job

(* The clients an item has references of: the one it runs for, or the one    *)
(* that its notification is about.                                           *)
Holds(inf) == {inf.client, inf.about}

(* References that a set of items holds on client c. *)
Holding(c, S) == Cardinality({i \in S : c \in Holds(info[i])})

CmdQueueTypeOK ==
    /\ WaitForTypeOK
    /\ queue \in [Queue -> Seq(Item)]
    /\ info \in [Item -> Info]
    /\ fired \subseteq Item /\ failed \subseteq fired /\ job \subseteq fired
    /\ running \in Queue \cup {Idle}
    /\ listed \subseteq Client /\ dying \subseteq Client /\ freed \subseteq Client
    /\ exiting \subseteq Client
    /\ refs \in [Client -> Nat]
    /\ created \in 0 .. MaxItems

CmdQueueInit ==
    /\ WaitForInit
    /\ queue = [q \in Queue |-> <<>>]
    /\ info = [i \in Item |-> Blank]
    /\ fired = {} /\ failed = {} /\ job = {}
    /\ running = Idle
    /\ listed = Client
    /\ refs = [c \in Client |-> 1]
    /\ dying = {} /\ freed = {} /\ exiting = {}
    /\ created = 0

----------------------------------------------------------------------------
(* Creating, appending, inserting and removing items.  An update of the      *)
(* queues is a record of what cmdq_append, cmdq_insert_after and cmdq_remove *)
(* change, so that a command can make several.                               *)

State == [queue |-> queue, info |-> info, refs |-> refs, dying |-> dying,
          created |-> created]

Commit(st) ==
    /\ queue' = st.queue
    /\ info' = st.info
    /\ refs' = st.refs
    /\ dying' = st.dying
    /\ created' = st.created

(* A reference of each client of C, if it is one, is taken. *)
Take(st, C) == [st EXCEPT !.refs = [d \in Client |->
                  IF d \in C THEN @[d] + 1 ELSE @[d]]]

(* A mutant: two references are dropped. *)
UnrefTwice(st, C) ==
    [st EXCEPT !.refs = [d \in Client |-> IF d \in C THEN @[d] - 2 ELSE @[d]]]

(* server_client_unref: the last reference schedules server_client_free. *)
Unref(st, C) ==
    [st EXCEPT !.refs = [d \in Client |-> IF d \in C THEN @[d] - 1 ELSE @[d]],
               !.dying = @ \cup {d \in Client \cap C : st.refs[d] = 1}]

(* A new item, put in queue q behind its first n items, with its references: *)
(* the one of cmdq_append or cmdq_insert_after, or the one of notify_add.    *)
Place(st, q, n, inf) ==
    LET i == st.created + 1 IN
    Take([st EXCEPT !.created = i,
                    !.info[i] = [inf EXCEPT !.queue = q],
                    !.queue[q] = InsertBehind(@, n, i)],
         Holds(inf))

(* cmdq_append. *)
AppendItem(st, q, inf) ==
    Place(st, q, Len(st.queue[q]), [inf EXCEPT !.client = q, !.root = st.created + 1])

(* A mutant: the item is put at the tail of the queue. *)
InsertAtTail(st, after, client, inf) ==
    LET q == info[after].queue IN
    Place(st, q, Len(st.queue[q]), [inf EXCEPT !.client = client, !.root = info[after].root])

(* A mutant: the item is put before the other. *)
InsertBefore(st, after, client, inf) ==
    LET q == info[after].queue
        k == CHOOSE n \in DOMAIN st.queue[q] : st.queue[q][n] = after
    IN  Place(st, q, k - 1, [inf EXCEPT !.client = client, !.root = info[after].root])

(* A mutant: the reference is taken for the item, not for the found client. *)
InsertUncounted(st, after, client, inf) ==
    LET q == info[after].queue
        k == CHOOSE n \in DOMAIN st.queue[q] : st.queue[q][n] = after
    IN  [Place(st, q, k, [inf EXCEPT !.client = client, !.root = info[after].root])
           EXCEPT !.refs = st.refs]

(* cmdq_insert_after: item->client is what it is while the command runs. *)
InsertAfter(st, after, client, inf) ==
    LET q == info[after].queue
        k == CHOOSE n \in DOMAIN st.queue[q] : st.queue[q][n] = after
    IN  Place(st, q, k, [inf EXCEPT !.client = client, !.root = info[after].root])

(* cmdq_remove, and for a notification the end of notify_callback. *)
RemoveItem(st, i) ==
    Unref([st EXCEPT !.queue[info[i].queue] = Without(@, {i})], Holds(info[i]))

(* A mutant: the whole rest of the queue goes. *)
RemoveRest(st, i) ==
    LET q == info[i].queue
        rest == {j \in Range(st.queue[q]) : j # i}
    IN  [st EXCEPT !.queue[q] = Without(@, rest)]

(* A mutant: nothing goes. *)
RemoveNone(st, i) == st

(* cmdq_remove_group: the later items of the item's group. *)
RemoveGroup(st, i) ==
    LET q == info[i].queue
        g == info[i].group
        doomed == {j \in Range(st.queue[q]) : st.info[j].group = g /\ j # i}
        count(c) == Cardinality({j \in doomed : c \in Holds(st.info[j])})
    IN  IF g = 0 THEN st
        ELSE [st EXCEPT !.queue[q] = Without(@, doomed),
                        !.refs = [c \in Client |-> @[c] - count(c)],
                        !.dying = @ \cup {c \in Client : st.refs[c] = count(c) /\ count(c) # 0}]

(* A command of a list just parsed, as it comes with a message. *)
Command(g, firing) == [Blank EXCEPT !.kind = "command", !.group = g, !.firing = firing]

(* The group of a list that is kept: a key's, a hook's, one in braces.  It   *)
(* is given when the list is parsed (cmd_list_new, cmd_list_append) and is   *)
(* the same whenever the list is queued: a new one, if it never was before.  *)
Groups(st, nohooks) ==
    {st.created + 1} \cup {st.info[j].group : j \in
        {k \in 1 .. st.created : st.info[k].stored /\ st.info[k].nohooks = nohooks}}

(* A command of such a list, queued by itself. *)
Stored(st, g, nohooks) ==
    [Command(g, st.created + 1) EXCEPT !.stored = TRUE, !.nohooks = nohooks]

Room(n) == created + n <= MaxItems

----------------------------------------------------------------------------
(* notify_add: the event is dropped while a hook's item runs in the global   *)
(* queue, as cmdq_running sees it: not waiting, and not yet removed.         *)
HeadOf(q) == IF queue[q] = <<>> THEN 0 ELSE Head(queue[q])

(* cmdq_running outside a command: the head that fired and may go on. *)
CmdqRunning(q) ==
    LET h == HeadOf(q) IN
    IF h # 0 /\ ~Waiting(h) /\ (h \in fired \/ running = q) THEN h ELSE 0

NotifyDropped ==
    LET h == CmdqRunning(Global) IN h # 0 /\ info[h].nohooks

(* The event may be about client c, which is kept until the item has fired. *)
Notify(st, c) ==
    IF NotifyDropped THEN st
    ELSE AppendItem(st, Global, [Blank EXCEPT !.kind = "notify", !.about = c,
                                              !.firing = st.created + 1])

(* A pane exits, a client is resized...: an event between two server loops. *)
Event ==
    /\ running = Idle
    /\ Room(1)
    /\ \E c \in listed \cup {Global} : Commit(Notify(State, c))
    /\ UNCHANGED <<fired, failed, job, running, listed, freed, exiting, wvars>>

----------------------------------------------------------------------------
(* New work for a queue, between two server loops. *)

(* server_client_dispatch_command: the commands of a client that is not      *)
(* exiting, in one group (split by ;) or in two (by newlines), and the       *)
(* callback that lets the client exit.                                       *)
SubmitMessage(c) ==
    /\ running = Idle
    /\ c \in listed \ exiting
    /\ \E n \in 1 .. 2, together \in BOOLEAN :
         LET g == created + 1
             one == AppendItem(State, c, Command(g, g))
             two == IF n = 1 THEN one
                    ELSE AppendItem(one, c,
                           Command(IF together THEN g ELSE g + 1, g))
         IN  /\ Room(n + 1)
             /\ Commit(AppendItem(two, c, [Blank EXCEPT !.firing = two.created + 1]))
    /\ UNCHANGED <<fired, failed, job, running, listed, freed, exiting, wvars>>

(* The commands of a list that is kept: from a key, as key_bindings_dispatch *)
(* queues them, or from if-shell -b, run-shell -bC, confirm-before -b...     *)
SubmitCommand(q) ==
    /\ running = Idle
    /\ q \in listed \cup {Global}
    /\ \E n \in 1 .. 2, g \in Groups(State, FALSE) :
         LET inf == Stored(State, g, FALSE)
             one == AppendItem(State, q, inf)
         IN  /\ Room(n)
             /\ Commit(IF n = 1 THEN one ELSE AppendItem(one, q, inf))
    /\ UNCHANGED <<fired, failed, job, running, listed, freed, exiting, wvars>>

(* cmd_if_shell_callback, cmd_run_shell_callback: the job of a waiting item  *)
(* ends, may insert commands behind it, and lets it go on.                   *)
JobDone(i) ==
    /\ running = Idle
    /\ i \in job
    /\ \/ Commit(State)
       \/ /\ Room(1)
          /\ \E g \in Groups(State, info[i].nohooks) :
               Commit(InsertAfter(State, i, info[i].client,
                                  Stored(State, g, info[i].nohooks)))
    /\ job' = job \ {i}
    /\ UNCHANGED <<fired, failed, running, listed, freed, exiting, wvars>>

(* server_client_lost: the queue stays behind with its items, and so does    *)
(* the client, if it was attached, until its client-detached has fired.      *)
Lost(c) ==
    /\ running = Idle
    /\ c \in listed
    /\ listed' = listed \ {c}
    /\ \/ Commit(Unref(State, {c}))
       \/ Room(1) /\ Commit(Unref(Notify(State, c), {c}))
    /\ UNCHANGED <<fired, failed, job, running, freed, exiting, wvars>>

(* server_client_free, from the event loop. *)
Free(c) ==
    /\ running = Idle
    /\ c \in dying
    /\ dying' = dying \ {c}
    /\ freed' = IF refs[c] = 0 THEN freed \cup {c} ELSE freed
    /\ UNCHANGED <<queue, info, fired, failed, job, running, listed, refs, exiting,
                   created, wvars>>

(* cmd_wait_for_flush, when the server wants to exit. *)
FlushAll ==
    /\ running = Idle
    /\ Flush
    /\ UNCHANGED qvars

----------------------------------------------------------------------------
(* cmdq_next. *)

(* A mutant: a queue whose head has fired is not entered. *)
EnterUnfired(q) ==
    /\ running = Idle
    /\ q \in listed \cup {Global}
    /\ queue[q] # <<>> /\ Head(queue[q]) \notin fired
    /\ running' = q
    /\ UNCHANGED <<queue, info, fired, failed, job, listed, refs, dying, freed,
                   exiting, created, wvars>>

(* The server loop enters the queue of a client on its list. *)
Enter(q) ==
    /\ running = Idle
    /\ q \in listed \cup {Global}
    /\ queue[q] # <<>> /\ ~Waiting(Head(queue[q]))
    /\ running' = q
    /\ UNCHANGED <<queue, info, fired, failed, job, listed, refs, dying, freed,
                   exiting, created, wvars>>

(* The queue is empty or its head waits. *)
Leave ==
    /\ running \in Queue
    /\ HeadOf(running) \in {0} \cup {i \in Item : Waiting(i)}
    /\ running' = Idle
    /\ UNCHANGED <<queue, info, fired, failed, job, listed, refs, dying, freed,
                   exiting, created, wvars>>

(* A mutant: an item that waits is removed too. *)
ReapWaiting ==
    /\ running \in Queue
    /\ queue[running] # <<>>
    /\ LET i == Head(queue[running]) IN
         /\ i \in fired
         /\ Commit(RemoveItem(State, i))
    /\ UNCHANGED <<fired, failed, job, running, listed, freed, exiting, wvars>>

(* The head fired before and was let go: it is removed. *)
Reap ==
    /\ running \in Queue
    /\ queue[running] # <<>>
    /\ LET i == Head(queue[running]) IN
         /\ i \in fired /\ ~Waiting(i)
         /\ Commit(RemoveItem(State, i))
    /\ UNCHANGED <<fired, failed, job, running, listed, freed, exiting, wvars>>

(* The head is to fire. *)
Ready(i) ==
    /\ running \in Queue
    /\ queue[running] # <<>>
    /\ i = Head(queue[running])
    /\ i \notin fired

(* cmd_find_client for an item without one: some client, or none. *)
FoundClient(i) ==
    IF info[i].client = Global THEN listed \cup {Global} ELSE {info[i].client}

(* The item returned CMD_RETURN_NORMAL after st. *)
Succeed(i, st) ==
    /\ Commit(RemoveItem(st, i))
    /\ fired' = fired \cup {i}
    /\ UNCHANGED <<failed, job, running, listed, freed>>

(* cmdq_insert_hook: with the hook's commands behind item i, or without. *)
Hooks(st, i, client) ==
    {st} \cup IF info[i].nohooks \/ st.created = MaxItems THEN {}
              ELSE {InsertAfter(st, i, client, Stored(st, g, TRUE)) : g \in Groups(st, TRUE)}

(* An error: the command-error hook, then the rest of the group. *)
Abort(i, st) ==
    /\ \E hooks \in Hooks(st, i, info[i].client) :
         Commit(RemoveItem(RemoveGroup(hooks, i), i))
    /\ fired' = fired \cup {i}
    /\ failed' = failed \cup {i}
    /\ UNCHANGED <<job, running, listed, freed>>

(* Commands that a command inserts behind itself, if it does: if-shell -F,   *)
(* source-file, a default command; with the hooks on in any case those of a  *)
(* key that send-keys gives to a mode.                                       *)
Nested(i, client) ==
    {State} \cup IF ~Room(1) THEN {}
                 ELSE UNION {{InsertAfter(State, i, client, Stored(State, g, h)) :
                                g \in Groups(State, h)} : h \in {info[i].nohooks, FALSE}}

(* A command that succeeds, and its after hook. *)
FireCommand(i) ==
    /\ Ready(i) /\ info[i].kind = "command"
    /\ \E fc \in FoundClient(i) : \E st \in Nested(i, fc) : \E hooks \in Hooks(st, i, fc) :
         Succeed(i, hooks)
    /\ UNCHANGED <<exiting, wvars>>

(* A command that succeeds and causes an event. *)
FireNotifying(i) ==
    /\ Ready(i) /\ info[i].kind = "command"
    /\ Room(1)
    /\ \E c \in listed \cup {Global} : Succeed(i, Notify(State, c))
    /\ UNCHANGED <<exiting, wvars>>

FireFailing(i) ==
    /\ Ready(i) /\ info[i].kind = "command"
    /\ Abort(i, State)
    /\ UNCHANGED <<exiting, wvars>>

(* A command that waits for a job, a prompt or a menu; its hook is put       *)
(* behind it nevertheless.                                                   *)
FireBlocking(i) ==
    /\ Ready(i) /\ info[i].kind = "command"
    /\ \E fc \in FoundClient(i) : \E hooks \in Hooks(State, i, fc) : Commit(hooks)
    /\ fired' = fired \cup {i}
    /\ job' = job \cup {i}
    /\ UNCHANGED <<failed, running, listed, freed, exiting, wvars>>

(* The wait-for command; what it returned is in flag'[i]. *)
FireWaitFor(i) ==
    /\ Ready(i) /\ info[i].kind = "command"
    /\ \E ch \in Channel, fc \in FoundClient(i) :
         WaitForCommand(i, ch, fc # Global)
    /\ \/ /\ flag'[i] = "waiting"
          /\ fired' = fired \cup {i}
          /\ UNCHANGED <<queue, info, failed, job, running, listed, refs, dying,
                         freed, created>>
       \/ flag'[i] = "done" /\ Succeed(i, State)
       \/ flag'[i] = "error" /\ Abort(i, State)
    /\ UNCHANGED exiting

(* notify_callback: the hook, if there is one, is inserted. *)
FireNotify(i) ==
    /\ Ready(i) /\ info[i].kind = "notify"
    /\ \E hooks \in Hooks(State, i, info[i].client) : Succeed(i, hooks)
    /\ UNCHANGED <<exiting, wvars>>

(* server_client_command_done: a client that is not attached may exit. *)
FireDone(i) ==
    /\ Ready(i) /\ info[i].kind = "done"
    /\ Succeed(i, State)
    /\ exiting' \in {exiting, exiting \cup {info[i].queue}}
    /\ UNCHANGED wvars

Fire(i) ==
    \/ FireCommand(i) \/ FireNotifying(i) \/ FireFailing(i) \/ FireBlocking(i)
    \/ FireWaitFor(i) \/ FireNotify(i) \/ FireDone(i)

ServerLoop == (\E q \in Queue : Enter(q)) \/ Leave \/ Reap \/ (\E i \in Item : Fire(i))

Environment ==
    \/ \E c \in Client : SubmitMessage(c) \/ Lost(c) \/ Free(c)
    \/ \E q \in Queue : SubmitCommand(q)
    \/ \E i \in Item : JobDone(i)
    \/ Event
    \/ FlushAll

CmdQueueNext == ServerLoop \/ Environment

CmdQueueSpec == CmdQueueInit /\ [][CmdQueueNext]_vars

(* The server loop runs to its end after every event, and serves every queue.*)
FairCmdQueueSpec ==
    /\ CmdQueueSpec
    /\ \A q \in Queue : WF_vars(Enter(q))
    /\ WF_vars(Leave \/ Reap \/ \E i \in Item : Fire(i))

----------------------------------------------------------------------------
(* The properties. *)

(* The items the wait channels point at exist: a waiting item is the head of *)
(* its queue, so that neither an aborted group nor cmdq_next frees it while  *)
(* a signal, an unlock or a job may still call cmdq_continue on it.          *)
WaitItemsLive ==
    \A i \in Item :
        Waiting(i) \/ Queued(i) # {} =>
            /\ i \in fired
            /\ queue[info[i].queue] # <<>> /\ Head(queue[info[i].queue]) = i

(* Items fire once and in their place: whatever is behind the head has not. *)
OnlyHeadFired ==
    \A q \in Queue : \A k \in DOMAIN queue[q] :
        queue[q][k] \in fired => k = 1

(* A client is referenced by its place on the list and by every item that    *)
(* runs for it, in its own queue or in the global one; the queue it is freed *)
(* with is empty ("queue not empty" in cmdq_free), and no item points to it. *)
ReferencesExact ==
    /\ \A c \in Client :
         refs[c] = Holding(c, Live) + (IF c \in listed THEN 1 ELSE 0)
    /\ \A c \in dying \cup freed : queue[c] = <<>> /\ Holding(c, Live) = 0
    /\ \A i \in Live : info[i].queue \in Client => info[i].client = info[i].queue

(* What makes it safe to go on with an item by its pointer: it is queued, at *)
(* the head if it has fired, and counted among the references of its client. *)
CmdQueueInv == CmdQueueTypeOK /\ WaitItemsLive /\ OnlyHeadFired /\ ReferencesExact

(* Once a command fails, the later ones of its group that were queued with   *)
(* it never fire, whatever was inserted between them.                        *)
ErrorEndsGroup ==
    \A i \in failed : \A j \in i + 1 .. created :
        info[j].group = info[i].group /\ info[j].firing = info[i].firing =>
            j \notin fired /\ j \notin Live

(* An item that is neither fired nor queued any more is of a group of which  *)
(* a command failed in its queue: an earlier one queued with it, and if the  *)
(* list was sent in a message no other; but a list that is kept has the same *)
(* group at each firing, and the error of one firing takes from the others.  *)
NothingLost ==
    \A j \in 1 .. created :
        \/ j \in fired \/ j \in Live
        \/ \E i \in failed :
             /\ info[i].group = info[j].group /\ info[i].queue = info[j].queue
             /\ \/ info[i].firing = info[j].firing /\ i < j
                \/ info[i].firing # info[j].firing /\ info[i].stored /\ info[j].stored

(* Commands of a queue run in sequence: before an appended item fires, every *)
(* item appended before it to the same queue has finished, with all that was *)
(* inserted behind it, however long it waited.  So a client exits only after *)
(* the wait-for it was told to do.                                           *)
InSequence ==
    \A j \in fired, i \in Live :
        info[i].queue = info[j].queue => info[i].root >= info[j].root

(* The server loop leaves no queue alone: a queue of a listed client empties *)
(* or comes to an item that waits.                                           *)
QueuesDrain ==
    \A q \in Queue :
        (queue[q] # <<>>) ~>
            \/ queue[q] = <<>>
            \/ Waiting(Head(queue[q]))
            \/ q \in Client \ listed
=============================================================================
