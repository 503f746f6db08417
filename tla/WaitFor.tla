------------------------------ MODULE WaitFor ------------------------------
(***************************************************************************)
(* The wait-for command (cmd-wait-for.c): named channels on which command  *)
(* queue items wait for a signal, or take a lock in turn.  The state of a  *)
(* channel is the struct wait_channel; an item is a cmdq_item that fires   *)
(* one wait-for command, and is then done, in error, or waiting until      *)
(* cmdq_continue clears its waiting flag.                                  *)
(***************************************************************************)
EXTENDS Naturals, Sequences, Functions

CONSTANTS
    Channel,        \* channel names
    Item            \* command queue items

VARIABLES
    chan,           \* the tree of channels; Empty stands for an absent one
    flag,           \* flag[i]: how far item i has got
    taken,          \* history: locks granted on the channel
    given           \* history: locks given back on the channel

wvars == <<chan, flag, taken, given>>

Empty == [present |-> FALSE, locked |-> FALSE, woken |-> FALSE,
          waiters |-> <<>>, lockers |-> <<>>]

WaitChannel == [present : BOOLEAN, locked : BOOLEAN, woken : BOOLEAN,
                waiters : Seq(Item), lockers : Seq(Item)]

Flag == {"ready", "waiting", "done", "error"}

WaitForTypeOK ==
    /\ chan \in [Channel -> WaitChannel]
    /\ flag \in [Item -> Flag]
    /\ taken \in [Channel -> Nat]
    /\ given \in [Channel -> Nat]

WaitForInit ==
    /\ chan = [ch \in Channel |-> Empty]
    /\ flag = [i \in Item |-> "ready"]
    /\ taken = [ch \in Channel |-> 0]
    /\ given = [ch \in Channel |-> 0]

----------------------------------------------------------------------------
(* cmd_wait_for_add: find the channel, or put a fresh one in the tree. *)
Add(wc) == [wc EXCEPT !.present = TRUE]

(* A mutant: the lock does not keep the channel. *)
RemoveIgnoringLock(wc) ==
    IF wc.waiters # <<>> \/ ~wc.woken THEN wc ELSE Empty

(* A mutant: a removed channel is left without its lists. *)
RemoveLists(wc) ==
    IF wc.locked \/ wc.waiters # <<>> \/ ~wc.woken
    THEN wc
    ELSE [present |-> FALSE, locked |-> FALSE, woken |-> FALSE]

(* cmd_wait_for_remove: only an unlocked, woken channel nobody waits on goes. *)
Remove(wc) ==
    IF wc.locked \/ wc.waiters # <<>> \/ ~wc.woken THEN wc ELSE Empty

(* The command of item i returns r and cmdq_continue is called on S. *)
Continue(i, r, S) ==
    flag' = [j \in Item |-> IF j = i THEN r ELSE IF j \in S THEN "done" ELSE flag[j]]

(* The command of item i fails: nothing but the item changes. *)
Fail(i) ==
    /\ Continue(i, "error", {})
    /\ UNCHANGED <<chan, taken, given>>

----------------------------------------------------------------------------
(* wait-for -S.  Waking and being woken already take the same branch. *)
Signal(i, ch) ==
    LET wc == Add(chan[ch]) IN
    /\ flag[i] = "ready"
    /\ IF wc.waiters = <<>> /\ ~wc.woken
       THEN /\ chan' = [chan EXCEPT ![ch] = [wc EXCEPT !.woken = TRUE]]
            /\ Continue(i, "done", {})
       ELSE /\ chan' = [chan EXCEPT ![ch] = Remove([wc EXCEPT !.waiters = <<>>])]
            /\ Continue(i, "done", Range(wc.waiters))
    /\ UNCHANGED <<taken, given>>

(* A mutant: the item sleeps even if the channel has been woken. *)
WaitAlways(i, ch, hasClient) ==
    LET wc == Add(chan[ch]) IN
    /\ flag[i] = "ready"
    /\ chan' = [chan EXCEPT ![ch] = [wc EXCEPT !.waiters = Append(@, i)]]
    /\ Continue(i, "waiting", {})
    /\ UNCHANGED <<taken, given>>

(* A mutant: the item is put on both lists. *)
WaitTwice(i, ch, hasClient) ==
    LET wc == Add(chan[ch]) IN
    /\ flag[i] = "ready"
    /\ chan' = [chan EXCEPT ![ch] = [wc EXCEPT !.waiters = Append(Append(@, i), i)]]
    /\ Continue(i, "waiting", {})
    /\ UNCHANGED <<taken, given>>

(* A mutant: a channel that has been woken stays so for everybody. *)
WaitKept(i, ch, hasClient) ==
    LET wc == Add(chan[ch]) IN
    /\ flag[i] = "ready"
    /\ IF wc.woken
       THEN /\ chan' = [chan EXCEPT ![ch] = wc]
            /\ Continue(i, "done", {})
       ELSE /\ chan' = [chan EXCEPT ![ch] = [wc EXCEPT !.waiters = Append(@, i)]]
            /\ Continue(i, "waiting", {})
    /\ UNCHANGED <<taken, given>>

(* wait-for; hasClient says whether the item runs for a client. *)
Wait(i, ch, hasClient) ==
    LET wc == Add(chan[ch]) IN
    /\ flag[i] = "ready"
    /\ IF ~hasClient
       THEN Fail(i)
       ELSE /\ IF wc.woken
               THEN /\ chan' = [chan EXCEPT ![ch] = Remove(wc)]
                    /\ Continue(i, "done", {})
               ELSE /\ chan' = [chan EXCEPT ![ch] =
                                  [wc EXCEPT !.waiters = Append(@, i)]]
                    /\ Continue(i, "waiting", {})
            /\ UNCHANGED <<taken, given>>

(* wait-for -L. *)
Lock(i, ch, hasClient) ==
    LET wc == Add(chan[ch]) IN
    /\ flag[i] = "ready"
    /\ IF ~hasClient
       THEN Fail(i)
       ELSE /\ IF wc.locked
               THEN /\ chan' = [chan EXCEPT ![ch] =
                                  [wc EXCEPT !.lockers = Append(@, i)]]
                    /\ Continue(i, "waiting", {})
                    /\ UNCHANGED taken
               ELSE /\ chan' = [chan EXCEPT ![ch] = [wc EXCEPT !.locked = TRUE]]
                    /\ Continue(i, "done", {})
                    /\ taken' = [taken EXCEPT ![ch] = @ + 1]
            /\ UNCHANGED given

(* A mutant: the lock is let go although it is handed over. *)
UnlockTwice(i, ch) ==
    LET wc == chan[ch] IN
    /\ flag[i] = "ready"
    /\ wc.locked
    /\ given' = [given EXCEPT ![ch] = @ + 1]
    /\ IF wc.lockers # <<>>
       THEN /\ chan' = [chan EXCEPT ![ch] =
                          [wc EXCEPT !.lockers = Tail(@), !.locked = FALSE]]
            /\ Continue(i, "done", {Head(wc.lockers)})
            /\ taken' = [taken EXCEPT ![ch] = @ + 1]
       ELSE /\ chan' = [chan EXCEPT ![ch] = Remove([wc EXCEPT !.locked = FALSE])]
            /\ Continue(i, "done", {})
            /\ UNCHANGED taken

(* A mutant: the list is emptied and everybody goes on, as for a signal. *)
UnlockAll(i, ch) ==
    LET wc == chan[ch] IN
    /\ flag[i] = "ready"
    /\ wc.locked
    /\ given' = [given EXCEPT ![ch] = @ + 1]
    /\ IF wc.lockers # <<>>
       THEN /\ chan' = [chan EXCEPT ![ch] = [wc EXCEPT !.lockers = <<>>]]
            /\ Continue(i, "done", Range(wc.lockers))
            /\ taken' = [taken EXCEPT ![ch] = @ + 1]
       ELSE /\ chan' = [chan EXCEPT ![ch] = Remove([wc EXCEPT !.locked = FALSE])]
            /\ Continue(i, "done", {})
            /\ UNCHANGED taken

(* wait-for -U: the lock is handed to the first locker, or let go. *)
Unlock(i, ch) ==
    LET wc == chan[ch] IN
    /\ flag[i] = "ready"
    /\ IF ~wc.present \/ ~wc.locked
       THEN Fail(i)
       ELSE /\ given' = [given EXCEPT ![ch] = @ + 1]
            /\ IF wc.lockers # <<>>
               THEN /\ chan' = [chan EXCEPT ![ch] =
                                  [wc EXCEPT !.lockers = Tail(@)]]
                    /\ Continue(i, "done", {Head(wc.lockers)})
                    /\ taken' = [taken EXCEPT ![ch] = @ + 1]
               ELSE /\ chan' = [chan EXCEPT ![ch] =
                                  Remove([wc EXCEPT !.locked = FALSE])]
                    /\ Continue(i, "done", {})
                    /\ UNCHANGED taken

(* cmd_wait_for_flush, when the server wants to exit: every waiter and     *)
(* every locker goes on and, woken and unlocked, every channel is removed. *)
(* The history takes the locks that were held as given back.               *)
Flush ==
    LET present == {ch \in Channel : chan[ch].present}
        queued(ch) == Range(chan[ch].waiters) \cup Range(chan[ch].lockers)
    IN  /\ chan' = [ch \in Channel |-> IF ch \in present
                      THEN Remove([chan[ch] EXCEPT !.waiters = <<>>, !.woken = TRUE,
                                                   !.lockers = <<>>, !.locked = FALSE])
                      ELSE chan[ch]]
        /\ flag' = [j \in Item |-> IF \E ch \in present : j \in queued(ch)
                                   THEN "done" ELSE flag[j]]
        /\ given' = taken
        /\ UNCHANGED taken

(* cmd_wait_for_exec. *)
WaitForCommand(i, ch, hasClient) ==
    \/ Signal(i, ch)
    \/ Lock(i, ch, hasClient)
    \/ Unlock(i, ch)
    \/ Wait(i, ch, hasClient)

WaitForNext ==
    \/ \E i \in Item, ch \in Channel, b \in BOOLEAN : WaitForCommand(i, ch, b)
    \/ Flush

WaitForSpec == WaitForInit /\ [][WaitForNext]_wvars

----------------------------------------------------------------------------
(* The channels that have item i on a list. *)
Queued(i) == {ch \in Channel : i \in Range(chan[ch].waiters)}
             \cup {ch \in Channel : i \in Range(chan[ch].lockers)}

(* Removing a channel, waking or handing over a lock never strands anybody: *)
(* an item waits exactly while a channel of the tree has it on a list, so a *)
(* signal, an unlock or a flush will still find it (cmd_wait_for_remove     *)
(* looks at the waiters but not at the lockers).                            *)
NobodyStranded ==
    \A i \in Item :
        /\ flag[i] = "waiting" <=> Queued(i) # {}
        /\ \A ch \in Queued(i) : chan[ch].present

(* An item is on one list, once: cmdq_continue is never called twice for it, *)
(* nor for an item that a first call has let cmdq_next remove and free.      *)
QueuedOnce ==
    /\ \A c \in Channel : IsInjective(chan[c].waiters) /\ IsInjective(chan[c].lockers)
    /\ \A c, d \in Channel :
         /\ c # d => Range(chan[c].waiters) \cap Range(chan[d].waiters) = {}
         /\ c # d => Range(chan[c].lockers) \cap Range(chan[d].lockers) = {}
         /\ Range(chan[c].waiters) \cap Range(chan[d].lockers) = {}

(* Between flushes a channel's lock has one owner, whichever of the free    *)
(* lock, the handover and the release granted it, and it is only when it    *)
(* has one that others queue for it.                                        *)
MutualExclusion ==
    \A ch \in Channel :
        /\ taken[ch] = given[ch] + (IF chan[ch].locked THEN 1 ELSE 0)
        /\ chan[ch].lockers # <<>> => taken[ch] > given[ch]

(* The two wake-up paths exclude each other: nobody sleeps on a channel a   *)
(* signal has already woken, even when the lock keeps the channel alive.    *)
NoSleepOnWoken ==
    \A ch \in Channel : chan[ch].woken => chan[ch].waiters = <<>>

(* What the proofs carry: with the above, an absent channel is blank, so    *)
(* adding one starts it unlocked and unwoken, and only a locked channel has *)
(* lockers, so removing an unlocked one loses nobody.                       *)
WaitForInv ==
    /\ WaitForTypeOK
    /\ \A ch \in Channel :
         /\ ~chan[ch].present => chan[ch] = Empty
         /\ ~chan[ch].locked => chan[ch].lockers = <<>>
    /\ NoSleepOnWoken
    /\ NobodyStranded
    /\ QueuedOnce
    /\ MutualExclusion

(* What a step may do to those who queue for a lock: nothing, let one more  *)
(* queue behind them, or give the lock to the first and let the rest sleep. *)
LockersMove(ch) ==
    \/ chan'[ch].lockers = chan[ch].lockers
    \/ \E i \in Item : chan'[ch].lockers = Append(chan[ch].lockers, i)
    \/ /\ chan[ch].lockers # <<>>
       /\ chan'[ch].lockers = Tail(chan[ch].lockers)
       /\ flag'[Head(chan[ch].lockers)] = "done"
       /\ \A j \in Range(Tail(chan[ch].lockers)) : flag'[j] = "waiting"

(* A lock passes from owner to owner in the order of the requests: the only *)
(* item an unlock continues is the one that asked first.  A flush, after    *)
(* which no channel is left, is the only exception.                         *)
FirstComeFirstServed ==
    [][(\A ch \in Channel : LockersMove(ch)) \/ chan' = [c \in Channel |-> Empty]]_wvars

(* The channels, made when they are asked for and removed when they seem of *)
(* no more use, keep the promise of wait-for as if each had always been     *)
(* there: a removal (cmd_wait_for_remove) forgets nothing but a signal that *)
(* the promise says is spent.                                               *)
Promise == INSTANCE WaitPromise WITH
    asleep  <- [ch \in Channel |-> Range(chan[ch].waiters)],
    noted   <- [ch \in Channel |-> chan[ch].woken],
    held    <- [ch \in Channel |-> chan[ch].locked],
    queue   <- [ch \in Channel |-> chan[ch].lockers],
    through <- {i \in Item : flag[i] = "done"},
    refused <- {i \in Item : flag[i] = "error"}

PromiseKept == Promise!PromiseSpec
=============================================================================
