---------------------------- MODULE ClientServer ----------------------------
(***************************************************************************)
(* A client process and what the server keeps for it: the messages of the  *)
(* connection (proc.c, client.c, server-client.c), the files a command has *)
(* the client read and write for it (file.c), and how the client leaves.   *)
(* One connection, each direction a queue.  The server's callbacks are     *)
(* steps; a callback of the connection handles the messages it read one    *)
(* after the other with nothing in between.  Data are counted in chunks.   *)
(***************************************************************************)
EXTENDS Integers, Sequences, FiniteSets, FiniteSetsExt, Functions

CONSTANTS
    Controls,       \* whether the client is a control client
    MaxFiles,       \* how many files the commands may read and write
    MaxMoves        \* bound on what users and commands do

ASSUME ClientServerAssumption ==
    /\ Controls \subseteq BOOLEAN
    /\ MaxFiles \in Nat
    /\ MaxMoves \in Nat

VARIABLES
    server,         \* struct client and its queue, in the server
    process,        \* the client process
    toServer,       \* messages on their way
    toClient,
    pane,           \* whether the empty pane is there that takes input
    output,         \* what was printed and written: a history
    moves,
    fault           \* what went wrong for good, or "none"

vars == <<server, process, toServer, toClient, pane, output, moves, fault>>

Printing == {1, 2}                          \* stdout and stderr streams
Stream == Printing \cup 3 .. (2 + MaxFiles)
Descriptor == 0 .. 2
Object == Descriptor \cup Stream            \* its input and output, and files
NoDescriptor == -1                          \* a file by its name
Closed == -1

Kind == {"none", "print", "save", "load", "input"}
ServerFile == [kind : Kind, own : BOOLEAN, left : Nat, error : BOOLEAN,
               closed : BOOLEAN, done : BOOLEAN]
NoServerFile == [kind |-> "none", own |-> FALSE, left |-> 0, error |-> FALSE,
                 closed |-> FALSE, done |-> FALSE]
ProcessFile == [kind : {"none", "write", "read"}, open : BOOLEAN, left : Nat,
                fd : {3} \cup Descriptor, to : Object]
NoProcessFile == [kind |-> "none", open |-> FALSE, left |-> 0, fd |-> 3, to |-> 1]
Flag == {"control", "attached", "exit", "exited", "suspended", "dead", "bad"}
Message == {"command", "exiting", "wakeup", "unlock", "writeready", "read", "readdone", "shell",
            "ready", "writeopen", "write", "writeclose", "readopen", "readcancel", "exit",
            "shutdown", "detach", "detachkill", "exec", "suspend", "lock", "exited", "doshell"}

ServerType ==
    [flags : SUBSET Flag, session : BOOLEAN, exit : {"exit", "shutdown", "detach", "detachkill"},
     work : {"idle", "failing", "running", "waiting", "done"},
     next : Nat, batch : Nat, writing : BOOLEAN, file : [Stream -> ServerFile]]
ProcessType ==
    [pc : {"wait", "attached", "gone", "fatal"}, told : BOOLEAN, why : {"none", "told", "other"},
     type : {"none", "detach", "detachkill", "exec"}, stopped : {"no", "stopped", "locked"},
     fds : [Descriptor -> Object \cup {Closed}],
     file : [Stream -> ProcessFile]]

Msg(type, s, x) == [type |-> type, stream |-> s, x |-> x]
Plain(type) == Msg(type, 0, 0)

ClientServerInit ==
    /\ \E control \in Controls :
          server = [flags |-> IF control THEN {"control"} ELSE {}, session |-> FALSE,
                    exit |-> "exit", work |-> "idle", next |-> 3, batch |-> 0, writing |-> FALSE,
                    file |-> [s \in Stream |-> NoServerFile]]
    /\ process = [pc |-> "wait", told |-> FALSE, why |-> "none", type |-> "none",
                  stopped |-> "no", fds |-> [d \in Descriptor |-> d],
                  file |-> [s \in Stream |-> NoProcessFile]]
    /\ \E first \in {"command", "shell"} : toServer = <<Plain(first)>>
    /\ toClient = <<>>
    /\ pane = TRUE
    /\ output = [printed |-> [s \in Printing |-> 0], promised |-> [s \in Printing |-> 0],
                 written |-> [s \in Printing |-> 0], refused |-> {}]
    /\ moves = MaxMoves
    /\ fault = "none"

Has(flag) == flag \in server.flags
Alive == process.pc \in {"wait", "attached"}
Pending(v) == {s \in Stream : v.file[s].done}
-----------------------------------------------------------------------------
(* The server's side.  A step of it takes a record v of the server, the     *)
(* messages it sends and what went wrong, and gives another.                *)

World == [server |-> server, sent |-> <<>>, output |-> output, fault |-> "none"]
Becomes(v) ==
    /\ server' = v.server
    /\ toClient' = toClient \o v.sent
    /\ output' = v.output
    /\ fault' = v.fault

Faulty(v, what) == IF v.fault = "none" THEN [v EXCEPT !.fault = what] ELSE v
Send(v, m) == IF "bad" \in v.server.flags THEN v ELSE [v EXCEPT !.sent = Append(@, m)]
Flagged(v, flag) == [v EXCEPT !.server.flags = @ \cup {flag}]
WithFile(v, s, f) == [v EXCEPT !.server.file[s] = f]

(* file_fire_done: an event of its own.  The second one for a file will     *)
(* find it freed.                                                           *)
FireDone(v, s) ==
    IF v.server.file[s].done THEN Faulty(v, "freed file")
    ELSE [v EXCEPT !.server.file[s].done = TRUE]

(* A mutant: the file is closed before what is left of it is sent.          *)
PushClosing(v, s) ==
    LET f == v.server.file[s]
        Data == [i \in 1 .. f.left |-> Msg("write", s, 0)]
        Sent(u) == [u EXCEPT !.sent = @ \o Data, !.server.file[s].left = 0]
    IN IF s \in Printing THEN Sent(v) ELSE FireDone(Sent(Send(v, Msg("writeclose", s, 0))), s)

(* file_push: all that is left, and when that is sent a file of a command   *)
(* is done.                                                                 *)
Push(v, s) ==
    LET f == v.server.file[s]
        Data == [i \in 1 .. f.left |-> Msg("write", s, 0)]
        Sent == [v EXCEPT !.sent = @ \o Data, !.server.file[s].left = 0]
    IN IF s \in Printing THEN Sent ELSE FireDone(Send(Sent, Msg("writeclose", s, 0)), s)

CanPrint(v) == v.server.flags \cap {"attached", "control"} = {}

(* file_print and file_error. *)
Printed(v, s) ==
    LET f == v.server.file[s]
        opened == [NoServerFile EXCEPT !.kind = "print", !.own = TRUE, !.left = 1]
        Counted == [v EXCEPT !.output.printed[s] = @ + 1]
    IN IF ~CanPrint(v) THEN v
       ELSE IF f.kind = "none" THEN Send(WithFile(Counted, s, opened), Msg("writeopen", s, s))
       ELSE Push([Counted EXCEPT !.server.file[s].left = @ + 1], s)

(* file_write and file_read, of a file by its name or of the client's own   *)
(* output and input.  An attached client's files are the server's to read   *)
(* and write, at once; it has no output or input to give, nor has a control *)
(* client.                                                                  *)
Ask(v, s, kind, d) ==
    LET attached == "attached" \in v.server.flags
        refused == d # NoDescriptor /\ ~CanPrint(v)
        reads == kind \in {"load", "input"}
        f == [NoServerFile EXCEPT !.kind = kind, !.own = ~attached]
        Open == Msg(IF reads THEN "readopen" ELSE "writeopen", s, d)
    IN CASE refused -> {FireDone(WithFile(v, s, [f EXCEPT !.error = TRUE]), s)}
         [] ~refused /\ attached ->
               {FireDone(WithFile(v, s, [f EXCEPT !.error = e]), s) : e \in BOOLEAN}
         [] OTHER ->
               {Send(WithFile(v, s, [f EXCEPT !.left = IF reads THEN 0 ELSE 1]), Open)}

(* file_cancel. *)
Cancel(v, s) ==
    IF v.server.file[s].closed THEN v
    ELSE Send([v EXCEPT !.server.file[s].closed = TRUE], Msg("readcancel", s, 0))

(* cmdq_error and cmdq_continue. *)
Continue(v, error) ==
    LET u == IF error THEN Printed(v, 2) ELSE v
    IN [u EXCEPT !.server.work = "running"]

(* window_pane_input_callback.  A control client, or one that is attached,  *)
(* has no file to cancel.                                                   *)
PaneInput(v, s, closed) ==
    LET f == v.server.file[s]
        Told == [v EXCEPT !.server.flags = @ \cup {"exit"}]
    IN CASE CanPrint(v) /\ (~pane \/ "dead" \in v.server.flags) ->
               Cancel(IF pane THEN v ELSE Told, s)
         [] (closed \/ f.error) /\ (~CanPrint(v) \/ (pane /\ "dead" \notin v.server.flags)) ->
               Continue(v, FALSE)
         [] OTHER -> v

(* file_read_data: a load keeps what it is given, the pane takes it.        *)
ReadData(v, s) ==
    LET f == v.server.file[s]
        Drained(u) == [u EXCEPT !.server.file[s].left = 0]
    IN IF f.kind = "none" \/ f.error \/ f.closed THEN v
       ELSE IF f.kind = "load" THEN [v EXCEPT !.server.file[s].left = @ + 1]
       ELSE Drained(PaneInput(v, s, FALSE))

(* file_fire_done_cb: the command is told, unless its client is dead, and   *)
(* the file is freed.                                                       *)
Done(v, s) ==
    LET f == v.server.file[s]
        heard == f.closed \/ ~f.own \/ "dead" \notin v.server.flags
        Told == CASE ~heard \/ f.kind = "print" -> v
                  [] heard /\ f.kind = "input" -> PaneInput(v, s, TRUE)
                  [] heard /\ f.kind \in {"save", "load"} -> Continue(v, f.error)
        Orphan == f.kind = "input" /\ "attached" \in v.server.flags
    IN WithFile(IF Orphan THEN Faulty(v, "no client") ELSE Told, s, NoServerFile)

(* A mutant: the files of the client are forgotten.                         *)
LostFiles(v) == [v EXCEPT !.server.flags = @ \cup {"dead"}, !.server.session = FALSE,
                          !.server.batch = 0, !.server.writing = FALSE]

(* server_client_lost: the files it was asked for are done, with an error.  *)
Lost(v) ==
    LET Asked(f) == f.kind # "none" /\ f.own
        Failed(f) == IF Asked(f) THEN [f EXCEPT !.error = TRUE, !.done = TRUE] ELSE f
        Left == [LostFiles(v) EXCEPT !.server.file = [s \in Stream |-> Failed(@[s])]]
    IN IF \E s \in Stream : Asked(v.server.file[s]) /\ v.server.file[s].done
       THEN Faulty(Left, "freed file") ELSE Left

(* A mutant: a file that does not open is not done.                         *)
WriteReadyOnly(v, s, failed) ==
    LET f == v.server.file[s]
    IN CASE f.kind = "none" \/ failed -> v
         [] OTHER -> Push(v, s)

(* file_write_ready. *)
WriteReady(v, s, failed) ==
    LET f == v.server.file[s]
    IN CASE f.kind = "none" -> v
         [] f.kind # "none" /\ failed ->
               FireDone([v EXCEPT !.server.file[s].error = TRUE], s)
         [] OTHER -> Push(v, s)

(* file_read_done. *)
ReadDone(v, s, failed) ==
    IF v.server.file[s].kind = "none" THEN v
    ELSE FireDone([v EXCEPT !.server.file[s].error = failed], s)

(* server_client_dispatch_command: it may not parse, or not be allowed.     *)
Commands(v) ==
    IF "exit" \in v.server.flags THEN {v}
    ELSE {[v EXCEPT !.server.work = "running"],
          [Flagged(v, "exit") EXCEPT !.server.work = "failing"]}

(* server_client_dispatch. *)
Dispatched(v, m) ==
    CASE m.type = "command" -> Commands(v)
      [] m.type = "shell" -> {Flagged(Send(v, Plain("doshell")), "bad")}
      [] m.type = "exiting" -> {Send([v EXCEPT !.server.session = FALSE], Plain("exited"))}
      [] m.type \in {"wakeup", "unlock"} -> {[v EXCEPT !.server.flags = @ \ {"suspended"}]}
      [] m.type = "writeready" -> {WriteReady(v, m.stream, m.x = 1)}
      [] m.type = "read" -> {ReadData(v, m.stream)}
      [] m.type = "readdone" -> {ReadDone(v, m.stream, m.x = 1)}

Quiet == server.batch = 0 /\ Pending(server) = {}
Bystanders == UNCHANGED <<process, pane>>
Free(move) == fault = "none" /\ moves >= move /\ moves' = moves - move

(* proc_event_cb.  The timers of its handlers fire before it runs again.    *)
ServerRead ==
    /\ Free(0) /\ Quiet /\ ~Has("dead") /\ ~Has("bad")
    /\ \E n \in 1 .. Len(toServer) :
          server' = [server EXCEPT !.batch = n, !.writing = toClient # <<>>]
    /\ UNCHANGED <<toServer, toClient, output, fault>> /\ Bystanders

(* After the last message that was read, what is queued for the client is   *)
(* written; if the client is gone that fails.                               *)
ServerReceive ==
    /\ Free(0) /\ server.batch > 0
    /\ toServer' = Tail(toServer)
    /\ \E v \in Dispatched([World EXCEPT !.server.batch = @ - 1], Head(toServer)) :
          \/ Becomes(v)
          \/ server.batch = 1 /\ server.writing /\ ~Alive /\ Becomes(Lost(v))
    /\ Bystanders

(* proc_event_cb: the connection is closed, or was to be.                   *)
ServerLoses ==
    /\ Free(0) /\ Quiet /\ ~Has("dead")
    /\ \/ toServer = <<>> /\ ~Alive
       \/ Has("bad")
    /\ Becomes(Lost(World))
    /\ UNCHANGED toServer /\ Bystanders

FileDone(s) ==
    /\ Free(0) /\ server.batch = 0 /\ server.file[s].done
    /\ Becomes(Done(World, s))
    /\ UNCHANGED toServer /\ Bystanders

(* A mutant: what is not written yet is not waited for.                     *)
CheckExitAtOnce ==
    /\ Free(0) /\ Quiet /\ Has("exit") /\ ~Has("exited") /\ ~Has("dead")
    /\ server.work \notin {"running", "failing"}
    /\ Becomes([Send(Flagged(World, "exited"), Plain(server.exit))
                   EXCEPT !.output.promised = output.printed])
    /\ UNCHANGED toServer /\ Bystanders

(* server_client_check_exit, when the commands of the queue have run or     *)
(* wait.                                                                    *)
CheckExit ==
    /\ \A s \in Stream : server.file[s].own => server.file[s].left = 0
    /\ CheckExitAtOnce
-----------------------------------------------------------------------------
(* The commands of the client's queue, from server_loop. *)

Running == Quiet /\ server.work = "running" /\ ~Has("dead")
Command(move) == Free(move) /\ Running /\ UNCHANGED toServer /\ Bystanders

(* A command that prints, or that fails.                                    *)
PrintOn(s) ==
    /\ Command(1) /\ CanPrint(World)
    /\ Becomes(Printed(World, s))

(* What does not parse is reported before the client goes.                  *)
Report ==
    /\ Free(0) /\ Quiet /\ server.work = "failing" /\ ~Has("dead")
    /\ Becomes([Printed(World, 2) EXCEPT !.server.work = "done"])
    /\ UNCHANGED toServer /\ Bystanders

(* attach-session and new-session. *)
Attach ==
    /\ Command(1) /\ ~server.session /\ ~Has("attached")
    /\ LET v == [Flagged(World, "attached") EXCEPT !.server.session = TRUE]
       IN Becomes(IF Has("control") THEN v ELSE Send(v, Plain("ready")))

(* The next stream, and a command that waits for it.                        *)
Asking(kind, d) ==
    /\ server.next \in Stream
    /\ \E v \in Ask([World EXCEPT !.server.next = @ + 1], server.next, kind, d) :
          Becomes([v EXCEPT !.server.work = "waiting"])

(* save-buffer, show-buffer and load-buffer. *)
BufferFile(kind, d) ==
    /\ Command(1)
    /\ d \in IF kind = "save" THEN {NoDescriptor, 1} ELSE {NoDescriptor, 0}
    /\ Asking(kind, d)

(* display-message -I and split-window -I: window_pane_start_input. *)
StartInput ==
    /\ Command(1) /\ pane /\ ~server.session /\ ~Has("exited")
    /\ Asking("input", 0)

(* server_client_command_done, when the queue has run.                      *)
CommandDone ==
    /\ Command(0)
    /\ LET v == [World EXCEPT !.server.work = "done"]
       IN Becomes(IF Has("attached") THEN v ELSE Flagged(v, "exit"))

(* A key, or a line a control client reads, gives the queue another one.    *)
NewCommand ==
    /\ Free(1) /\ Quiet /\ server.work = "done" /\ ~Has("dead")
    /\ server.session /\ ~Has("exit") /\ ~Has("suspended")
    /\ Becomes([World EXCEPT !.server.work = "running"])
    /\ UNCHANGED toServer /\ Bystanders
-----------------------------------------------------------------------------
(* What other clients and users do to it. *)

Other == Free(1) /\ Quiet /\ ~Has("dead") /\ UNCHANGED toServer /\ Bystanders

(* server_client_detach, with and without -P. *)
DetachClient(type) ==
    /\ Other /\ server.session /\ ~Has("exit")
    /\ Becomes([Flagged(World, "exit") EXCEPT !.server.exit = type])

(* server_client_exec: detach-client -E. *)
ExecClient == Other /\ server.session /\ Becomes(Send(World, Plain("exec")))

(* server_client_suspend and server_lock_client. *)
SuspendClient ==
    /\ Other /\ server.session /\ ~Has("suspended") /\ ~Has("exit")
    /\ Becomes(Send(Flagged(World, "suspended"), Plain("suspend")))
LockClient ==
    /\ Other /\ server.session /\ ~Has("suspended") /\ ~Has("control")
    /\ Becomes(Send(Flagged(World, "suspended"), Plain("lock")))

(* server_send_exit: a suspended client is dropped, and what had not gone   *)
(* out to it with it; the others are told.                                  *)
KillServer ==
    /\ Free(1) /\ server.batch = 0 /\ ~Has("dead") /\ pane
    /\ pane' = FALSE
    /\ LET v == [Flagged(World, "exit") EXCEPT !.server.exit = "shutdown",
                                               !.server.session = FALSE]
       IN IF Has("suspended")
          THEN /\ server' = Lost(World).server /\ fault' = Lost(World).fault
               /\ \E n \in 0 .. Len(toClient) : toClient' = SubSeq(toClient, 1, n)
               /\ UNCHANGED output
          ELSE Becomes(v)
    /\ UNCHANGED <<toServer, process>>

(* The pane that takes input is killed. *)
KillPane ==
    /\ Free(1) /\ Quiet /\ pane
    /\ pane' = FALSE
    /\ UNCHANGED <<server, process, toServer, toClient, output, fault>>
-----------------------------------------------------------------------------
(* The client process.  A step of it takes a record of the process and what *)
(* it sends.                                                                *)

Here == [process |-> process, sent |-> <<>>, fault |-> "none"]
Comes(h) ==
    /\ process' = h.process
    /\ toServer' = toServer \o h.sent
    /\ fault' = IF h.fault = "none" THEN fault ELSE h.fault

Say(h, m) == [h EXCEPT !.sent = Append(@, m)]
Exits(h, why) == [h EXCEPT !.process.pc = "gone", !.process.why = why]
Fatal(h) == [h EXCEPT !.process.pc = "fatal", !.process.why = "other"]

(* A mutant: client_exit without file_write_left.                           *)
ExitAtOnce(h) == IF h.process.pc = "wait" THEN Exits(h, "told") ELSE h

(* client_exit: when nothing is left to write.                              *)
Exit(h) ==
    IF \E s \in Stream : h.process.file[s].kind = "write" /\ h.process.file[s].left > 0
    THEN h ELSE Exits(h, "told")

(* The descriptor a new file gets: the lowest that is free.                 *)
Lowest(fds) == LET closed == {d \in Descriptor : fds[d] = Closed}
               IN IF closed = {} THEN 3 ELSE Min(closed)
Holding(h, d, what) == IF d = 3 THEN h ELSE [h EXCEPT !.process.fds[d] = what]

(* file_write_open and file_read_open: a file that is opened by its name,   *)
(* or one of the process's own descriptors, which is used once unless it is *)
(* a control client's.  What does not open stays in the list.               *)
Opened(h, s, d, kind, control) ==
    LET fds == h.process.fds
        to == IF d = NoDescriptor THEN s ELSE fds[d]
        fd == Lowest(fds)
        f == [kind |-> kind, open |-> TRUE, left |-> 0, fd |-> fd, to |-> to]
        Once(u) == IF control \/ d = NoDescriptor THEN u
                   ELSE [u EXCEPT !.process.fds[d] = Closed]
    IN Once(Holding([h EXCEPT !.process.file[s] = f], fd, to))

Open(h, s, d, kind, control) ==
    LET Failed == [h EXCEPT !.process.file[s] = [NoProcessFile EXCEPT !.kind = kind]]
        Reply(u, x) == IF x = 1 \/ kind = "write"
                       THEN Say(u, Msg(IF kind = "write" THEN "writeready" ELSE "readdone", s, x))
                       ELSE u
        works == Reply(Opened(h, s, d, kind, control), 0)
        fails == Reply(Failed, 1)
    IN CASE h.process.file[s].kind # "none" -> {Reply(h, 1)}
         [] h.process.file[s].kind = "none" /\ d = NoDescriptor -> {works, fails}
         [] OTHER -> {IF h.process.fds[d] = Closed THEN fails ELSE works}

(* The descriptor of a file is closed and the file freed.                   *)
Freed(h, s) ==
    LET f == h.process.file[s]
    IN Holding([h EXCEPT !.process.file[s] = NoProcessFile], IF f.open THEN f.fd ELSE 3, Closed)

(* file_write_close: while something is left to write nothing is closed,    *)
(* then or later.                                                           *)
WriteClose(h, s) ==
    CASE h.process.file[s].kind = "none" -> Fatal(h)
      [] h.process.file[s].kind # "none" /\ h.process.file[s].left = 0 -> Freed(h, s)
      [] OTHER -> h

(* file_write_data. *)
WriteData(h, s) ==
    LET f == h.process.file[s]
    IN CASE f.kind = "none" -> Fatal(h)
         [] f.kind # "none" /\ f.open -> [h EXCEPT !.process.file[s].left = @ + 1]
         [] OTHER -> h

(* file_read_cancel: a file that has been read to the end is not known, one *)
(* that did not open has nothing to free.                                   *)
ReadCancel(h, s) ==
    IF h.process.file[s].open THEN Freed(Say(h, Msg("readdone", s, 0)), s) ELSE Fatal(h)

(* client_dispatch_wait. *)
Waits(h, m) ==
    LET control == Has("control")
    IN CASE m.type \in {"exit", "shutdown"} -> {Exit([h EXCEPT !.process.told = TRUE])}
         [] m.type = "ready" -> {[h EXCEPT !.process.pc = "attached"]}
         [] m.type \in {"detach", "detachkill"} -> {Say(h, Plain("exiting"))}
         [] m.type \in {"exited", "doshell"} -> {Exits(h, "other")}
         [] m.type = "writeopen" -> Open(h, m.stream, m.x, "write", control)
         [] m.type = "readopen" -> Open(h, m.stream, m.x, "read", control)
         [] m.type = "write" -> {WriteData(h, m.stream)}
         [] m.type = "writeclose" -> {WriteClose(h, m.stream)}
         [] m.type = "readcancel" -> {ReadCancel(h, m.stream)}
         [] OTHER -> {h}

(* client_dispatch_attached. *)
Attends(h, m) ==
    CASE m.type \in {"detach", "detachkill", "exec"} ->
            {Say([h EXCEPT !.process.type = m.type], Plain("exiting"))}
      [] m.type \in {"exit", "shutdown"} -> {Say(h, Plain("exiting"))}
      [] m.type = "exited" -> {Exits(h, "told")}
      [] m.type = "suspend" -> {[h EXCEPT !.process.stopped = "stopped"]}
      [] m.type = "lock" -> {[h EXCEPT !.process.stopped = "locked"]}
      [] OTHER -> {h}

Works == fault = "none" /\ Alive /\ process.stopped = "no"
Elsewhere == UNCHANGED <<server, pane>>

(* client_dispatch: a message, or the end of the connection.                *)
ClientReceive ==
    /\ Free(0) /\ Works /\ toClient # <<>>
    /\ toClient' = Tail(toClient)
    /\ \E h \in IF process.pc = "wait" THEN Waits(Here, Head(toClient))
                                       ELSE Attends(Here, Head(toClient)) :
          /\ Comes(h)
          /\ output' = [output EXCEPT !.refused =
                @ \cup {m.stream : m \in {n \in Range(h.sent) : n.type = "writeready" /\ n.x = 1}}]
    /\ Elsewhere

ClientLosesServer ==
    /\ Free(0) /\ Works /\ toClient = <<>> /\ Has("dead")
    /\ Comes(Exits(Here, "other"))
    /\ UNCHANGED <<toClient, output>> /\ Elsewhere

(* A mutant: nothing is looked at when it is written.                       *)
WriteOutOnly(s) ==
    LET f == process.file[s]
    IN /\ Free(0) /\ Works /\ f.kind = "write" /\ f.open /\ f.left > 0
       /\ Comes([Here EXCEPT !.process.file[s].left = 0])
       /\ output' = IF s \in Printing THEN [output EXCEPT !.written[s] = @ + f.left] ELSE output
       /\ UNCHANGED toClient /\ Elsewhere

(* file_write_callback: what was left is written, and a client that has     *)
(* been told to exit may.                                                   *)
WriteOut(s) ==
    LET f == process.file[s]
        written == [Here EXCEPT !.process.file[s].left = 0]
        astray == f.to # s /\ f.to \notin {1, 2}
        Checked(h) == IF h.process.told THEN Exit(h) ELSE h
    IN /\ Free(0) /\ Works /\ f.kind = "write" /\ f.open /\ f.left > 0
       /\ Comes(IF astray THEN [written EXCEPT !.fault = "astray"] ELSE Checked(written))
       /\ output' = IF s \in Printing THEN [output EXCEPT !.written[s] = @ + f.left] ELSE output
       /\ UNCHANGED toClient /\ Elsewhere

(* file_write_error_callback. *)
WriteFails(s) ==
    LET f == process.file[s]
        failed == [Freed(Here, s) EXCEPT !.process.file[s] = [NoProcessFile EXCEPT !.kind = "write"]]
    IN /\ Free(1) /\ Works /\ f.kind = "write" /\ f.open /\ f.left > 0
       /\ Comes(IF failed.process.told THEN Exit(failed) ELSE failed)
       /\ output' = [output EXCEPT !.refused = @ \cup {s}]
       /\ UNCHANGED toClient /\ Elsewhere

(* file_read_callback. *)
ReadSome(s) ==
    /\ Free(1) /\ Works /\ process.file[s].kind = "read" /\ process.file[s].open
    /\ Comes(Say(Here, Msg("read", s, 0)))
    /\ UNCHANGED <<toClient, output>> /\ Elsewhere

(* file_read_error_callback: the end of the file, or an error.              *)
ReadEnds(s) ==
    /\ Free(0) /\ Works /\ process.file[s].kind = "read" /\ process.file[s].open
    /\ \E x \in 0 .. 1 : Comes(Freed(Say(Here, Msg("readdone", s, x)), s))
    /\ UNCHANGED <<toClient, output>> /\ Elsewhere

(* client_signal: SIGTERM and SIGHUP. *)
Signal ==
    /\ Free(1) /\ Works
    /\ Comes(IF process.pc = "wait" THEN Exits(Here, "other") ELSE Say(Here, Plain("exiting")))
    /\ UNCHANGED <<toClient, output>> /\ Elsewhere

(* SIGKILL, of a client that is stopped as well. *)
Killed ==
    /\ Free(1) /\ Alive
    /\ Comes(Exits(Here, "other"))
    /\ UNCHANGED <<toClient, output>> /\ Elsewhere

(* SIGCONT, and the end of the lock command. *)
GoesOn ==
    /\ Free(0) /\ Alive /\ process.stopped # "no"
    /\ Comes(Say([Here EXCEPT !.process.stopped = "no"],
                 Plain(IF process.stopped = "stopped" THEN "wakeup" ELSE "unlock")))
    /\ UNCHANGED <<toClient, output>> /\ Elsewhere

ServerStep ==
    \/ ServerRead \/ ServerReceive \/ ServerLoses \/ \E s \in Stream : FileDone(s)
    \/ Report \/ CheckExit
CommandStep ==
    \/ \E s \in Printing : PrintOn(s)
    \/ Attach \/ StartInput \/ CommandDone \/ NewCommand
    \/ \E kind \in {"save", "load"}, d \in {NoDescriptor, 0, 1} : BufferFile(kind, d)
OtherStep ==
    \/ \E type \in {"detach", "detachkill"} : DetachClient(type)
    \/ ExecClient \/ SuspendClient \/ LockClient \/ KillServer \/ KillPane
ClientStep ==
    \/ ClientReceive \/ ClientLosesServer \/ Signal \/ Killed \/ GoesOn
    \/ \E s \in Stream : WriteOut(s) \/ WriteFails(s) \/ ReadSome(s) \/ ReadEnds(s)

ClientServerNext == ServerStep \/ CommandStep \/ OtherStep \/ ClientStep

ClientServerSpec == ClientServerInit /\ [][ClientServerNext]_vars

(* Both event loops run, commands finish, and what a client writes is read  *)
(* at the other end.  Nothing says that input ends, that a stopped client   *)
(* is continued or that a locked one is unlocked.                           *)
FairClientServerSpec ==
    /\ ClientServerSpec
    /\ WF_vars(ServerStep)
    /\ WF_vars(CommandDone)
    /\ WF_vars(ClientReceive \/ ClientLosesServer)
    /\ \A s \in Stream : WF_vars(WriteOut(s))
-----------------------------------------------------------------------------
(* Properties. *)

ClientServerTypeOK ==
    /\ server \in ServerType
    /\ process \in ProcessType
    /\ \A q \in {toServer, toClient} : \A i \in DOMAIN q : q[i].type \in Message
    /\ pane \in BOOLEAN
    /\ moves \in 0 .. MaxMoves
    /\ fault \in {"none", "freed file", "astray", "no client"}

(* The messages that will answer for the file s, wherever they are.         *)
OnItsWay(s) ==
    \/ server.file[s].done
    \/ \E m \in Range(toServer) : m.stream = s /\ m.type \in {"writeready", "readdone"}
    \/ \E m \in Range(toClient) : m.stream = s /\ m.type \in {"writeopen", "readopen", "readcancel"}
    \/ process.file[s].kind = "read" /\ process.file[s].open

(* A command that waits has something to wait for: as long as its client is *)
(* there the answer for its file is on its way, or the client is reading.   *)
(* Only a pane that was killed leaves its command waiting, with a client    *)
(* that is told to exit (window.c:1813).                                    *)
AnswersOwed ==
    fault = "none" /\ server.work = "waiting" /\ Alive /\ ~Has("dead")
        => \/ ~pane /\ Has("exit")
           \/ \E s \in Stream : /\ server.file[s].kind \in {"save", "load", "input"}
                               /\ OnItsWay(s)

(* The client knows the streams it is told of: it never dies over one (the  *)
(* fatalx of file.c and client.c), unless a read was cancelled because the  *)
(* pane had been killed.  What is printed stays in its order: nothing is    *)
(* written that the server did not send.                                    *)
StreamsKnown ==
    /\ process.pc = "fatal" => ~pane
    /\ \A s \in Printing : output.written[s] <= output.printed[s]

(* A client that waits and goes because it was told to has written all that *)
(* was printed for it before, unless its output failed, had been used or    *)
(* was given up for a session (server_client_check_exit waits for the       *)
(* files, client_exit for the output).                                      *)
OutputArrives ==
    process.pc = "gone" /\ process.why = "told" /\ ~Has("attached") =>
        \A s \in Printing \ output.refused : output.written[s] >= output.promised[s]

(* What a lost client leaves is given back: no file stays with it once its  *)
(* timers have fired (its reference would keep the client for good).        *)
FilesFreed ==
    fault = "none" /\ Has("dead") /\ Pending(server) = {} =>
        \A s \in Stream : server.file[s].kind = "none"

ClientServerInv == ClientServerTypeOK /\ StreamsKnown /\ FilesFreed

(* A client that is to exit goes: it is lost in the end, unless it is       *)
(* stopped or locked, or still reads a file of which the server has a part  *)
(* already (server-client.c:1924 waits for any file that holds data).       *)
LeavesWhenTold ==
    Has("exit") ~> \/ Has("dead") \/ fault # "none" \/ process.stopped # "no"
                   \/ \E s \in Stream : server.file[s].kind = "load" /\ server.file[s].left > 0
=============================================================================
