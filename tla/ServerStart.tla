----------------------------- MODULE ServerStart -----------------------------
(***************************************************************************)
(* How clients find the server or start one (client_connect and            *)
(* client_get_lock in client.c, server_start, server_create_socket,        *)
(* server_accept and the end of server_loop in server.c).  Processes share *)
(* the socket's path and the path of a lock file.  A client that is        *)
(* refused takes the lock, tries again, and starts a server while it holds *)
(* it; the server inherits the lock and gives it back when it listens.     *)
(*                                                                         *)
(* Each system call is a step of its own.  A lock belongs to a file, not   *)
(* to its name, and the server removes the name.                           *)
(***************************************************************************)
EXTENDS Naturals, FiniteSets, FiniteSetsExt

CONSTANTS
    Client,         \* client processes, each run once
    Server          \* bound: server processes, numbered in the order they start

ASSUME StartAssumption == Server \subseteq Nat \ {0} /\ IsFiniteSet(Client)

VARIABLES
    path,           \* the server whose socket has the name, or Nobody
    lockfile,       \* the file that has the lock's name, or NoFile
    cl,             \* the clients
    srv,            \* the servers
    conflict        \* why two servers are being started, or "none"

vars == <<path, lockfile, cl, srv, conflict>>

Nobody == 0
NoFile == 0
File == 1 .. Cardinality(Client) + 1

(* pc: the system call to make next; starts: CLIENT_STARTSERVER; open: the  *)
(* lock file it has open, holds: and has locked; locked: it is past the     *)
(* lock, with or without it; to: the server it is connected to.             *)
ClientType ==
    [pc : {"new", "connect", "open", "flock", "wait", "unlink", "fork",
           "connected", "refused", "lost", "ended"},
     starts : BOOLEAN, open : File \cup {NoFile}, holds : File \cup {NoFile},
     locked : BOOLEAN, to : Server \cup {Nobody}]

(* holds: the lock it inherited; backlog: connected but not accepted;       *)
(* clients: struct client; busy: it has sessions; again: SIGUSR1 has come.  *)
ServerType ==
    [pc : {"none", "unlink", "bind", "listen", "release", "close", "loop", "gone"},
     holds : File \cup {NoFile}, backlog : SUBSET Client, clients : SUBSET Client,
     busy : BOOLEAN, ending : BOOLEAN, again : BOOLEAN]

Blank == [pc |-> "none", holds |-> NoFile, backlog |-> {}, clients |-> {},
          busy |-> FALSE, ending |-> FALSE, again |-> FALSE]

StartInit ==
    /\ path = Nobody
    /\ lockfile = NoFile
    /\ cl \in {[c \in Client |->
                   [pc |-> "new", starts |-> c \in S, open |-> NoFile, holds |-> NoFile,
                    locked |-> FALSE, to |-> Nobody]] : S \in SUBSET Client}
    /\ srv = [s \in Server |-> Blank]
    /\ conflict = "none"
-----------------------------------------------------------------------------
Step == conflict = "none"
At(c, pc) == Step /\ cl[c].pc = pc
Serving(s, pc) == Step /\ srv[s].pc = pc

Alive == {s \in Server : srv[s].pc \notin {"none", "gone"}}
Listening == path # Nobody /\ srv[path].pc \in {"unlink", "release", "close", "loop"}
Starters == {c \in Client : cl[c].pc \in {"unlink", "fork"}}

Holders(f) == {c \in Client : cl[c].holds = f} \cup {s \in Server : srv[s].holds = f}
Opened(f) == f = lockfile \/ Holders(f) # {} \/ \E c \in Client : cl[c].open = f

(* The process goes on at pc without the lock file.                         *)
Closed(x, pc) == [x EXCEPT !.pc = pc, !.open = NoFile, !.holds = NoFile]

(* The lock is on the file that has the name.                               *)
HasTheLock(f) == f # NoFile /\ f = lockfile

(* Why client c goes on to start a server when another one is there.        *)
Reason(c) ==
    IF Starters = {} /\ Alive = {} THEN "none"
    ELSE IF \E s \in Alive : srv[s].again THEN "made again"
    ELSE IF \/ ~HasTheLock(cl[c].holds)
            \/ \E d \in Starters : ~HasTheLock(cl[d].holds)
            \/ \E s \in Alive : srv[s].pc \notin {"close", "loop"} /\ ~HasTheLock(srv[s].holds)
         THEN "stale lock"
    ELSE "same lock"
-----------------------------------------------------------------------------
(* client_connect, client_get_lock.                                         *)

Begin(c) ==
    /\ At(c, "new")
    /\ cl' = [cl EXCEPT ![c].pc = "connect"]
    /\ UNCHANGED <<path, lockfile, srv, conflict>>

(* connect(2) succeeds when the server listens, before it accepts.          *)
Connect(c) ==
    /\ At(c, "connect") /\ Listening
    /\ srv' = [srv EXCEPT ![path].backlog = @ \cup {c}]
    /\ cl' = [cl EXCEPT ![c] = [Closed(@, "connected") EXCEPT !.to = path]]
    /\ UNCHANGED <<path, lockfile, conflict>>

(* connect(2) fails: with the lock this was the second try.                 *)
Refused(c) ==
    /\ At(c, "connect") /\ ~Listening
    /\ cl' = [cl EXCEPT ![c] = IF ~cl[c].starts THEN Closed(@, "refused")
                               ELSE IF ~cl[c].locked THEN [@ EXCEPT !.pc = "open"]
                               ELSE [@ EXCEPT !.pc = "unlink"]]
    /\ conflict' = IF cl[c].starts /\ cl[c].locked THEN Reason(c) ELSE "none"
    /\ UNCHANGED <<path, lockfile, srv>>

OpenLock(c) ==
    /\ At(c, "open")
    /\ lockfile' = IF lockfile # NoFile THEN lockfile
                   ELSE Min({f \in File : ~Opened(f)})
    /\ cl' = [cl EXCEPT ![c].open = lockfile', ![c].pc = "flock"]
    /\ UNCHANGED <<path, srv, conflict>>

(* A mutant: a lock that is held is not waited for.                         *)
TryLockAnyway(c) ==
    /\ At(c, "flock")
    /\ cl' = [cl EXCEPT ![c] = [@ EXCEPT !.pc = "connect", !.holds = cl[c].open,
                                         !.locked = TRUE]]
    /\ UNCHANGED <<path, lockfile, srv, conflict>>

(* A mutant: the one with the lock does not try again.                      *)
TryLockOnce(c) ==
    /\ At(c, "flock")
    /\ cl' = [cl EXCEPT ![c] =
                 IF Holders(cl[c].open) # {} THEN [@ EXCEPT !.pc = "wait"]
                 ELSE [@ EXCEPT !.pc = "unlink", !.holds = cl[c].open, !.locked = TRUE]]
    /\ UNCHANGED <<path, lockfile, srv, conflict>>

(* flock(2) with LOCK_NB.                                                   *)
TryLock(c) ==
    /\ At(c, "flock")
    /\ cl' = [cl EXCEPT ![c] =
                 IF Holders(cl[c].open) # {} THEN [@ EXCEPT !.pc = "wait"]
                 ELSE [@ EXCEPT !.pc = "connect", !.holds = cl[c].open, !.locked = TRUE]]
    /\ UNCHANGED <<path, lockfile, srv, conflict>>

(* flock(2) that blocks; the lock is given back at once, for another try.   *)
WaitForLock(c) ==
    /\ At(c, "wait") /\ Holders(cl[c].open) = {}
    /\ cl' = [cl EXCEPT ![c] = Closed(@, "connect")]
    /\ UNCHANGED <<path, lockfile, srv, conflict>>

UnlinkSocket(c) ==
    /\ At(c, "unlink")
    /\ path' = Nobody
    /\ cl' = [cl EXCEPT ![c].pc = "fork"]
    /\ UNCHANGED <<lockfile, srv, conflict>>

(* server_start up to the fork, with a pair of sockets between the two; the *)
(* client closes its end of the lock.                                       *)
Fork(c) ==
    \E s \in Server :
        /\ At(c, "fork")
        /\ srv[s].pc = "none" /\ \A t \in Server : t < s => srv[t].pc # "none"
        /\ srv' = [srv EXCEPT ![s].pc = "unlink", ![s].holds = cl[c].holds,
                              ![s].clients = {c}]
        /\ cl' = [cl EXCEPT ![c] = [Closed(@, "connected") EXCEPT !.to = s]]
        /\ UNCHANGED <<path, lockfile, conflict>>
-----------------------------------------------------------------------------
(* server_create_socket; the rest of server_start.                          *)

Moved(s, pc) == srv' = [srv EXCEPT ![s].pc = pc]

Unlink(s) ==
    /\ Serving(s, "unlink") /\ Moved(s, "bind")
    /\ path' = Nobody
    /\ UNCHANGED <<lockfile, cl, conflict>>

(* Nobody else binds the path in between: that would be a conflict.         *)
Bind(s) ==
    /\ Serving(s, "bind") /\ path = Nobody /\ Moved(s, "listen")
    /\ path' = s
    /\ UNCHANGED <<lockfile, cl, conflict>>

(* A socket that was made again: the old one is closed, and who was         *)
(* connected to it is not.                                                  *)
Listen(s) ==
    /\ Serving(s, "listen")
    /\ srv' = [srv EXCEPT ![s].pc = IF srv[s].again THEN "loop" ELSE "release",
                          ![s].again = FALSE, ![s].backlog = {}]
    /\ UNCHANGED <<path, lockfile, cl, conflict>>

(* The lock file is removed, and then closed.                               *)
Release(s) ==
    /\ Serving(s, "release") /\ Moved(s, "close")
    /\ lockfile' = NoFile
    /\ UNCHANGED <<path, cl, conflict>>

(* A mutant: the lock is kept for as long as the server runs. *)
EnterLoopLocked(s) ==
    /\ Serving(s, "close") /\ Moved(s, "loop")
    /\ UNCHANGED <<path, lockfile, cl, conflict>>

EnterLoop(s) ==
    /\ Serving(s, "close")
    /\ srv' = [srv EXCEPT ![s].pc = "loop", ![s].holds = NoFile]
    /\ UNCHANGED <<path, lockfile, cl, conflict>>
-----------------------------------------------------------------------------
(* The server's loop.                                                       *)

(* server_accept; a server that is to exit closes what it accepts.          *)
Accept(s, c) ==
    /\ Serving(s, "loop") /\ c \in srv[s].backlog
    /\ srv' = [srv EXCEPT ![s].backlog = @ \ {c},
                          ![s].clients = IF srv[s].ending THEN @ ELSE @ \cup {c}]
    /\ UNCHANGED <<path, lockfile, cl, conflict>>

(* A client makes a session; the last session ends.                         *)
Sessions(s) ==
    /\ Serving(s, "loop") /\ ~srv[s].ending
    /\ srv[s].clients # {} \/ srv[s].busy
    /\ srv' = [srv EXCEPT ![s].busy = ~@]
    /\ UNCHANGED <<path, lockfile, cl, conflict>>

(* server_signal: SIGTERM ends the sessions, SIGUSR1 makes the socket again.*)
Terminate(s) ==
    /\ Serving(s, "loop") /\ ~srv[s].ending
    /\ srv' = [srv EXCEPT ![s].ending = TRUE, ![s].busy = FALSE]
    /\ UNCHANGED <<path, lockfile, cl, conflict>>

MakeAgain(s) ==
    /\ Serving(s, "loop")
    /\ srv' = [srv EXCEPT ![s].again = TRUE, ![s].pc = "unlink"]
    /\ UNCHANGED <<path, lockfile, cl, conflict>>

Gone(s) == [srv EXCEPT ![s] = [Blank EXCEPT !.pc = "gone"]]

(* server_loop ends: no sessions, and no clients it has accepted.           *)
Exit(s) ==
    /\ Serving(s, "loop") /\ ~srv[s].busy /\ srv[s].clients = {}
    /\ srv' = Gone(s)
    /\ UNCHANGED <<path, lockfile, cl, conflict>>

Crash(s) ==
    /\ Step /\ s \in Alive
    /\ srv' = Gone(s)
    /\ UNCHANGED <<path, lockfile, cl, conflict>>

(* client_dispatch without a message: nobody is at the other end.           *)
LostServer(c) ==
    /\ At(c, "connected")
    /\ srv[cl[c].to].pc = "gone" \/ c \notin srv[cl[c].to].backlog \cup srv[cl[c].to].clients
    /\ cl' = [cl EXCEPT ![c].pc = "lost"]
    /\ UNCHANGED <<path, lockfile, srv, conflict>>

(* The client has done its command, or is killed, wherever it is.           *)
Ends(c) ==
    /\ Step /\ cl[c].pc \notin {"new", "refused", "lost", "ended"}
    /\ cl' = [cl EXCEPT ![c] = Closed(@, "ended")]
    /\ srv' = [s \in Server |-> [srv[s] EXCEPT !.backlog = @ \ {c}, !.clients = @ \ {c}]]
    /\ UNCHANGED <<path, lockfile, conflict>>
-----------------------------------------------------------------------------
Call(c) ==
    \/ Connect(c) \/ Refused(c) \/ OpenLock(c) \/ TryLock(c) \/ WaitForLock(c)
    \/ UnlinkSocket(c) \/ Fork(c) \/ LostServer(c)

Start(s) == Unlink(s) \/ Bind(s) \/ Listen(s) \/ Release(s) \/ EnterLoop(s)

StartNext ==
    \/ \E c \in Client : Begin(c) \/ Call(c) \/ Ends(c)
    \/ \E s \in Server :
         \/ Start(s) \/ Sessions(s) \/ Terminate(s) \/ MakeAgain(s) \/ Exit(s) \/ Crash(s)
         \/ \E c \in Client : Accept(s, c)

StartSpec == StartInit /\ [][StartNext]_vars

(* A process that can make its next call makes it.                          *)
FairStartSpec ==
    /\ StartSpec
    /\ \A c \in Client : WF_vars(Call(c))
    /\ \A s \in Server : WF_vars(Start(s))
-----------------------------------------------------------------------------
StartTypeOK ==
    /\ path \in Server \cup {Nobody}
    /\ lockfile \in File \cup {NoFile}
    /\ cl \in [Client -> ClientType]
    /\ srv \in [Server -> ServerType]
    /\ conflict \in {"none", "made again", "stale lock", "same lock"}

(* Nobody starts a server while another one is started or runs, as long as  *)
(* the locks of both are on the file that has the lock's name: the second   *)
(* try after the lock finds what was started before.                        *)
OneServer ==
    /\ StartTypeOK
    /\ \A f \in File : Cardinality(Holders(f)) <= 1
    /\ conflict # "same lock"

(* A server that runs has the socket's name: its sessions can be reached.   *)
ServerReachable ==
    conflict = "none" => \A s \in Server : srv[s].pc = "loop" => path = s

(* A client gets to a server or is told there is none; it does not go round *)
(* between the socket and the lock for ever.                                *)
ClientsGetThrough ==
    \A c \in Client :
        cl[c].pc = "connect" ~>
            cl[c].pc \in {"connected", "refused", "lost", "ended"} \/ conflict # "none"
=============================================================================
