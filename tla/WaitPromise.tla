---------------------------- MODULE WaitPromise ----------------------------
(***************************************************************************)
(* What wait-for promises (tmux.1, wait-for), without the tree of channels *)
(* and its removals: every name has a signal and a lock from the start.    *)
(* Items sleep until the signal comes, or queue for the lock in turn; a    *)
(* signal that finds nobody asleep is noted for the next to come.  A note  *)
(* stays while the lock is held, and goes with it.                         *)
(***************************************************************************)
EXTENDS Naturals, Sequences, Functions

CONSTANTS Channel, Item

VARIABLES
    asleep,         \* asleep[ch]: the items that wait for the signal
    noted,          \* noted[ch]: a signal came that woke nobody
    held,           \* held[ch]: the lock has an owner
    queue,          \* queue[ch]: the items that wait for the lock
    through,        \* the items that have got what they asked for
    refused         \* the items that could not ask

pvars == <<asleep, noted, held, queue, through, refused>>

Fresh(i) ==
    /\ i \notin through \cup refused
    /\ \A ch \in Channel : i \notin asleep[ch] \cup Range(queue[ch])

PromiseInit ==
    /\ asleep = [ch \in Channel |-> {}]
    /\ noted = [ch \in Channel |-> FALSE]
    /\ held = [ch \in Channel |-> FALSE]
    /\ queue = [ch \in Channel |-> <<>>]
    /\ through = {}
    /\ refused = {}

(* Everybody asleep is woken at once, or the signal is noted; a second one *)
(* takes the first back.                                                   *)
Signal(i, ch) ==
    /\ Fresh(i)
    /\ through' = through \cup {i} \cup asleep[ch]
    /\ asleep' = [asleep EXCEPT ![ch] = {}]
    /\ noted' = [noted EXCEPT ![ch] = asleep[ch] = {} /\ (~noted[ch] \/ held[ch])]
    /\ UNCHANGED <<held, queue, refused>>

Sleep(i, ch) ==
    /\ Fresh(i) /\ ~noted[ch]
    /\ asleep' = [asleep EXCEPT ![ch] = @ \cup {i}]
    /\ UNCHANGED <<noted, held, queue, through, refused>>

PassNoted(i, ch) ==
    /\ Fresh(i) /\ noted[ch]
    /\ through' = through \cup {i}
    /\ noted' = [noted EXCEPT ![ch] = held[ch]]
    /\ UNCHANGED <<asleep, held, queue, refused>>

Take(i, ch) ==
    /\ Fresh(i) /\ ~held[ch]
    /\ held' = [held EXCEPT ![ch] = TRUE]
    /\ through' = through \cup {i}
    /\ UNCHANGED <<asleep, noted, queue, refused>>

QueueUp(i, ch) ==
    /\ Fresh(i) /\ held[ch]
    /\ queue' = [queue EXCEPT ![ch] = Append(@, i)]
    /\ UNCHANGED <<asleep, noted, held, through, refused>>

HandOver(i, ch) ==
    /\ Fresh(i) /\ held[ch] /\ queue[ch] # <<>>
    /\ queue' = [queue EXCEPT ![ch] = Tail(@)]
    /\ through' = through \cup {i, Head(queue[ch])}
    /\ UNCHANGED <<asleep, noted, held, refused>>

GiveBack(i, ch) ==
    /\ Fresh(i) /\ held[ch] /\ queue[ch] = <<>>
    /\ held' = [held EXCEPT ![ch] = FALSE]
    /\ noted' = [noted EXCEPT ![ch] = FALSE]
    /\ through' = through \cup {i}
    /\ UNCHANGED <<asleep, queue, refused>>

Refuse(i) ==
    /\ Fresh(i)
    /\ refused' = refused \cup {i}
    /\ UNCHANGED <<asleep, noted, held, queue, through>>

(* When the server goes, everybody goes on and nothing is remembered. *)
LetGo ==
    /\ through' = through \cup UNION {asleep[ch] \cup Range(queue[ch]) : ch \in Channel}
    /\ asleep' = [ch \in Channel |-> {}]
    /\ noted' = [ch \in Channel |-> FALSE]
    /\ held' = [ch \in Channel |-> FALSE]
    /\ queue' = [ch \in Channel |-> <<>>]
    /\ UNCHANGED refused

PromiseNext ==
    \/ \E i \in Item, ch \in Channel :
         \/ Signal(i, ch) \/ Sleep(i, ch) \/ PassNoted(i, ch)
         \/ Take(i, ch) \/ QueueUp(i, ch) \/ HandOver(i, ch) \/ GiveBack(i, ch)
    \/ \E i \in Item : Refuse(i)
    \/ LetGo

PromiseSpec == PromiseInit /\ [][PromiseNext]_pvars
=============================================================================
