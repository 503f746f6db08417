-------------------------- MODULE ServerStartProofs --------------------------
(***************************************************************************)
(* What ServerStart guarantees for any number of clients and servers.      *)
(***************************************************************************)
EXTENDS ServerStart, FiniteSetTheorems, TLAPS

(* A file is locked by one process at most. *)
OneHolder ==
    \A f \in File :
        /\ \A c, d \in Client : cl[c].holds = f /\ cl[d].holds = f => c = d
        /\ \A s, t \in Server : srv[s].holds = f /\ srv[t].holds = f => s = t
        /\ \A c \in Client, s \in Server : ~(cl[c].holds = f /\ srv[s].holds = f)

(* A client has the lock file open only between opening it and going on. *)
OpenWhenAsked ==
    \A c \in Client :
        /\ cl[c].holds \in {NoFile, cl[c].open}
        /\ \/ cl[c].pc \in {"new", "open"}
           \/ cl[c].pc = "connect" /\ ~cl[c].locked
           => cl[c].open = NoFile

(* Only a server that runs holds a lock. *)
HoldersRun == \A s \in Server : srv[s].holds # NoFile => s \in Alive

(* As long as there was no conflict, one process at most is a server or is  *)
(* about to fork one ...                                                    *)
OneStarter ==
    Step => /\ \A c, d \in Starters : c = d
            /\ \A s, t \in Alive : s = t
            /\ Starters = {} \/ Alive = {}

(* ... and a server that has bound the socket's name still has it. *)
BoundHasName ==
    Step => \A s \in Server : srv[s].pc \in {"listen", "release", "close", "loop"} => path = s

(* What the proofs carry. *)
StartInv ==
    /\ StartTypeOK
    /\ OneHolder
    /\ OpenWhenAsked
    /\ HoldersRun
    /\ OneStarter
    /\ BoundHasName
    /\ conflict # "same lock"

(* The smallest file that nobody has opened is a file. *)
LEMMA LeastOf ==
    ASSUME NEW S \in SUBSET Nat, S # {}
    PROVE  Min(S) \in S
<1>1. IsWellFoundedOn(OpToRel(<, Nat), Nat)
  BY NatLessThanWellFounded
<1>2. PICK x \in S : \A y \in S : <<y, x>> \notin OpToRel(<, Nat)
  BY <1>1, WFMin
<1>3. \A y \in S : x <= y
  <2> SUFFICES ASSUME NEW y \in S PROVE ~(y < x)
    OBVIOUS
  <2>1. <<y, x>> \in Nat \X Nat /\ <<y, x>>[1] = y /\ <<y, x>>[2] = x
    OBVIOUS
  <2> QED
    BY <1>2, <2>1 DEF OpToRel
<1> QED
  BY <1>3 DEF Min

(* Steps that lock nothing keep a file to one process. *)
LEMMA HoldersKept ==
    ASSUME OneHolder,
           \A c \in Client : cl'[c].holds \in {NoFile, cl[c].holds},
           \A s \in Server : srv'[s].holds \in {NoFile, srv[s].holds}
    PROVE  OneHolder'
<1>1. \A f \in File : f # NoFile
  BY DEF File, NoFile
<1> QED
  BY <1>1 DEF OneHolder

(* A client's step that locks and starts nothing keeps the invariant. *)
LEMMA ClientStep ==
    ASSUME StartInv, Step, NEW c \in Client, NEW x \in ClientType,
           cl' = [cl EXCEPT ![c] = x],
           x.holds \in {NoFile, cl[c].holds}, x.holds \in {NoFile, x.open},
           x.pc \in {"new", "open"} \/ (x.pc = "connect" /\ ~x.locked) => x.open = NoFile,
           x.pc \in {"unlink", "fork"} => c \in Starters,
           srv' \in [Server -> ServerType],
           \A s \in Server : srv'[s].pc = srv[s].pc /\ srv'[s].holds = srv[s].holds,
           lockfile' \in File \cup {NoFile},
           \/ path' = path
           \/ path' = Nobody /\ c \in Starters,
           conflict' = conflict
    PROVE  StartInv'
<1>1. /\ cl \in [Client -> ClientType] /\ cl' \in [Client -> ClientType]
      /\ cl'[c] = x /\ \A d \in Client \ {c} : cl'[d] = cl[d]
  BY DEF StartInv, StartTypeOK
<1>2. StartTypeOK'
  BY <1>1 DEF StartInv, StartTypeOK
<1>3. OneHolder'
  BY <1>1, HoldersKept DEF StartInv
<1>4. OpenWhenAsked'
  BY <1>1 DEF StartInv, OpenWhenAsked
<1>5. Starters' \subseteq Starters /\ Alive' = Alive
  BY <1>1 DEF Starters, Alive
<1>6. HoldersRun' /\ OneStarter'
  BY <1>5 DEF StartInv, HoldersRun, OneStarter, Step
<1>7. BoundHasName'
  <2>1. c \in Starters => Alive = {}
    BY DEF StartInv, OneStarter
  <2> QED
    BY <2>1 DEF StartInv, BoundHasName, Step, Alive
<1> QED
  BY <1>2, <1>3, <1>4, <1>6, <1>7 DEF StartInv

(* So does a server's step, if it takes the name only while it starts. *)
LEMMA ServerStep ==
    ASSUME StartInv, Step, NEW s \in Server, NEW y \in ServerType,
           srv' = [srv EXCEPT ![s] = y],
           y.holds \in {NoFile, srv[s].holds},
           y.pc = "gone" \/ (s \in Alive /\ y.pc # "none"),
           y.pc = "gone" => y.holds = NoFile,
           y.pc \in {"listen", "release", "close", "loop"} => path' = s,
           path' = path \/ (s \in Alive /\ path' \in {s, Nobody}),
           lockfile' \in File \cup {NoFile},
           UNCHANGED <<cl, conflict>>
    PROVE  StartInv'
<1>1. /\ srv \in [Server -> ServerType] /\ srv' \in [Server -> ServerType]
      /\ srv'[s] = y /\ \A t \in Server \ {s} : srv'[t] = srv[t]
  BY DEF StartInv, StartTypeOK
<1>2. StartTypeOK'
  BY <1>1 DEF StartInv, StartTypeOK
<1>3. OneHolder'
  BY <1>1, HoldersKept DEF StartInv
<1>4. OpenWhenAsked'
  BY DEF StartInv, OpenWhenAsked
<1>5. /\ Starters' = Starters /\ Alive' \subseteq Alive
      /\ \A t \in Server \ {s} : t \in Alive' <=> t \in Alive
      /\ s \in Alive' <=> y.pc # "gone"
  BY <1>1 DEF Starters, Alive
<1>6. HoldersRun' /\ OneStarter'
  BY <1>1, <1>5 DEF StartInv, HoldersRun, OneStarter, Step
<1>7. BoundHasName'
  <2>1. ASSUME NEW t \in Server \ {s}, srv[t].pc \in {"listen", "release", "close", "loop"}
        PROVE  path' = t
    <3>1. t \in Alive /\ path = t
      BY <2>1 DEF StartInv, BoundHasName, Alive
    <3>2. s \notin Alive
      BY <3>1 DEF StartInv, OneStarter
    <3> QED
      BY <3>1, <3>2
  <2> QED
    BY <1>1, <2>1 DEF BoundHasName
<1> QED
  BY <1>2, <1>3, <1>4, <1>6, <1>7 DEF StartInv

(* A file is free for a client that opens the lock file: the others have one *)
(* open each, and one server at most holds one.                              *)
LEMMA FreeFile ==
    ASSUME StartInv, Step, NEW c \in Client, cl[c].pc = "open", lockfile = NoFile
    PROVE  \E f \in File : ~Opened(f)
<1> DEFINE others == Client \ {c}
           inUse == {cl[d].open : d \in others}
           held == {srv[s].holds : s \in Alive}
<1>1. IsFiniteSet(others) /\ Cardinality(others) = Cardinality(Client) - 1
  BY FS_RemoveElement, StartAssumption
<1>2. Cardinality(Client) \in Nat
  BY FS_CardinalityType, StartAssumption
<1>3. IsFiniteSet(inUse) /\ Cardinality(inUse) <= Cardinality(others)
  <2> DEFINE g == [d \in others |-> cl[d].open]
  <2>1. g \in Surjection(others, inUse)
    BY DEF Surjection
  <2> HIDE DEF g, others, inUse
  <2> QED
    BY <1>1, <2>1, FS_Surjection
<1>4. IsFiniteSet(held) /\ Cardinality(held) <= 1
  <2>1. CASE Alive = {}
    <3>1. held = {}
      BY <2>1
    <3>2. IsFiniteSet({}) /\ Cardinality({}) = 0
      BY FS_EmptySet
    <3> QED
      BY <3>1, <3>2
  <2>2. CASE Alive # {}
    <3>1. PICK s : s \in Alive
      BY <2>2
    <3>2. held = {srv[s].holds}
      BY <3>1 DEF StartInv, OneStarter
    <3>3. IsFiniteSet({srv[s].holds}) /\ Cardinality({srv[s].holds}) = 1
      BY FS_Singleton
    <3> HIDE DEF held
    <3> QED
      BY <3>2, <3>3
  <2> QED
    BY <2>1, <2>2
<1>5. IsFiniteSet(File) /\ Cardinality(File) = Cardinality(Client) + 1
  <2>1. /\ 1 \in Int /\ Cardinality(Client) + 1 \in Int
        /\ ~(1 > Cardinality(Client) + 1)
        /\ (Cardinality(Client) + 1) - 1 + 1 = Cardinality(Client) + 1
    BY <1>2
  <2> QED
    BY <2>1, FS_Interval DEF File
<1> HIDE DEF others, inUse, held
<1>6. /\ IsFiniteSet(inUse \cup held)
      /\ Cardinality(inUse \cup held) <= Cardinality(Client)
  <2>1. /\ IsFiniteSet(inUse \cup held)
        /\ Cardinality(inUse \cup held) =
             Cardinality(inUse) + Cardinality(held) - Cardinality(inUse \cap held)
    BY <1>3, <1>4, FS_Union
  <2>2. IsFiniteSet(inUse \cap held)
    BY <1>3, FS_Intersection
  <2>3. /\ Cardinality(inUse) \in Nat /\ Cardinality(held) \in Nat
        /\ Cardinality(inUse \cap held) \in Nat
    BY <1>3, <1>4, <2>2, FS_CardinalityType
  <2> QED
    BY <1>1, <1>2, <1>3, <1>4, <2>1, <2>3
<1>7. PICK f \in File : f \notin inUse \cup held
  <2>1. CASE File \subseteq inUse \cup held
    <3>1. Cardinality(File) <= Cardinality(inUse \cup held)
      BY <1>6, <2>1, FS_Subset
    <3>2. Cardinality(inUse \cup held) \in Nat
      BY <1>6, FS_CardinalityType
    <3> QED
      BY <1>2, <1>5, <1>6, <3>1, <3>2
  <2> QED
    BY <2>1
<1>8. f # NoFile
  BY <1>2 DEF File, NoFile
<1>9. \A d \in Client : cl[d].open # f
  BY <1>7, <1>8 DEF StartInv, OpenWhenAsked, inUse, others
<1>10. Holders(f) = {}
  <2>1. \A d \in Client : cl[d].holds # f
    BY <1>8, <1>9 DEF StartInv, OpenWhenAsked
  <2>2. \A s \in Server : srv[s].holds # f
    BY <1>7, <1>8 DEF StartInv, HoldersRun, held
  <2> QED
    BY <2>1, <2>2 DEF Holders
<1> QED
  BY <1>8, <1>9, <1>10 DEF Opened

(* A client that locks a file nobody holds is its only holder. *)
LEMMA TryLockInv ==
    ASSUME StartInv, NEW c \in Client, TryLock(c)
    PROVE  StartInv'
<1>1. /\ cl \in [Client -> ClientType] /\ cl[c] \in ClientType
      /\ Step /\ cl[c].pc = "flock"
      /\ UNCHANGED <<path, lockfile, srv, conflict>>
  BY DEF StartInv, StartTypeOK, TryLock, At
<1>2. CASE Holders(cl[c].open) # {}
  <2> DEFINE x == [cl[c] EXCEPT !.pc = "wait"]
  <2>1. cl' = [cl EXCEPT ![c] = x]
    BY <1>2 DEF TryLock
  <2>2. /\ x \in ClientType /\ x.holds = cl[c].holds /\ x.open = cl[c].open
        /\ x.pc = "wait"
    BY <1>1 DEF ClientType
  <2> HIDE DEF x
  <2> QED
    BY <1>1, <2>1, <2>2, ClientStep DEF StartInv, StartTypeOK, OpenWhenAsked
<1>3. CASE Holders(cl[c].open) = {}
  <2> DEFINE x == [cl[c] EXCEPT !.pc = "connect", !.holds = cl[c].open, !.locked = TRUE]
  <2>1. cl' = [cl EXCEPT ![c] = x]
    BY <1>3 DEF TryLock
  <2>2. /\ x \in ClientType /\ x.holds = cl[c].open /\ x.open = cl[c].open
        /\ x.pc = "connect" /\ x.locked = TRUE
    BY <1>1 DEF ClientType
  <2> HIDE DEF x
  <2>3. /\ cl' \in [Client -> ClientType] /\ cl'[c] = x
        /\ \A d \in Client \ {c} : cl'[d] = cl[d]
    BY <1>1, <2>1, <2>2
  <2>4. StartTypeOK'
    BY <1>1, <2>3 DEF StartInv, StartTypeOK
  <2>5. OneHolder'
    <3>1. /\ \A d \in Client : cl[d].holds # cl[c].open
          /\ \A s \in Server : srv[s].holds # cl[c].open
      BY <1>3 DEF Holders
    <3>2. cl'[c].holds = cl[c].open /\ srv' = srv
      BY <1>1, <2>2, <2>3
    <3>3. \A d \in Client \ {c} : cl'[d].holds = cl[d].holds
      BY <2>3
    <3>4. OneHolder
      BY DEF StartInv
    <3> HIDE DEF x
    <3>5. SUFFICES ASSUME NEW f \in File
                   PROVE  /\ \A d, e \in Client : cl'[d].holds = f /\ cl'[e].holds = f => d = e
                          /\ \A s \in Server, d \in Client :
                               ~(cl'[d].holds = f /\ srv[s].holds = f)
      BY <3>2, <3>4 DEF OneHolder
    <3>6. CASE f = cl[c].open
      BY <3>1, <3>2, <3>3, <3>6
    <3>7. CASE f # cl[c].open
      BY <3>2, <3>3, <3>4, <3>7 DEF OneHolder
    <3> QED
      BY <3>6, <3>7
  <2>6. OpenWhenAsked'
    BY <2>2, <2>3 DEF StartInv, OpenWhenAsked
  <2>7. Starters' \subseteq Starters /\ Alive' = Alive
    BY <1>1, <2>2, <2>3 DEF Starters, Alive
  <2>8. HoldersRun' /\ OneStarter' /\ BoundHasName'
    BY <1>1, <2>7 DEF StartInv, HoldersRun, OneStarter, BoundHasName, Step
  <2> QED
    BY <1>1, <2>4, <2>5, <2>6, <2>8 DEF StartInv
<1> QED
  BY <1>2, <1>3

(* A client is refused: whoever was started first is found by the second try,*)
(* as long as the locks are on the file that has the lock's name.            *)
LEMMA RefusedInv ==
    ASSUME StartInv, NEW c \in Client, Refused(c)
    PROVE  StartInv'
<1>1. /\ cl \in [Client -> ClientType] /\ cl[c] \in ClientType
      /\ Step /\ cl[c].pc = "connect" /\ ~Listening
      /\ UNCHANGED <<path, lockfile, srv>>
  BY DEF StartInv, StartTypeOK, Refused, At
<1>2. CASE ~(cl[c].starts /\ cl[c].locked)
  <2> DEFINE x == IF ~cl[c].starts THEN Closed(cl[c], "refused")
                  ELSE [cl[c] EXCEPT !.pc = "open"]
  <2>1. cl' = [cl EXCEPT ![c] = x] /\ conflict' = conflict
    BY <1>1, <1>2 DEF Refused, Step
  <2>2. CASE ~cl[c].starts
    <3>1. /\ x \in ClientType /\ x.holds = NoFile /\ x.open = NoFile /\ x.pc = "refused"
      BY <1>1, <2>2 DEF ClientType, Closed
    <3> HIDE DEF x
    <3> QED
      BY <1>1, <2>1, <3>1, ClientStep DEF StartInv, StartTypeOK
  <2>3. CASE cl[c].starts
    <3>1. /\ x \in ClientType /\ x.holds = cl[c].holds /\ x.open = cl[c].open
          /\ x.pc = "open" /\ ~cl[c].locked
      BY <1>1, <1>2, <2>3 DEF ClientType
    <3> HIDE DEF x
    <3>2. x.holds \in {NoFile, x.open} /\ x.open = NoFile
      BY <1>1, <3>1 DEF StartInv, OpenWhenAsked
    <3> QED
      BY <1>1, <2>1, <3>1, <3>2, ClientStep DEF StartInv, StartTypeOK
  <2> QED
    BY <2>2, <2>3
<1>3. CASE cl[c].starts /\ cl[c].locked
  <2> DEFINE x == [cl[c] EXCEPT !.pc = "unlink"]
  <2>1. cl' = [cl EXCEPT ![c] = x] /\ conflict' = Reason(c)
    BY <1>3 DEF Refused
  <2>2. /\ x \in ClientType /\ x.holds = cl[c].holds /\ x.open = cl[c].open
        /\ x.pc = "unlink"
    BY <1>1 DEF ClientType
  <2> HIDE DEF x
  <2>3. /\ cl' \in [Client -> ClientType] /\ cl'[c] = x
        /\ \A d \in Client \ {c} : cl'[d] = cl[d]
    BY <1>1, <2>1, <2>2
  <2>4. /\ conflict' \in {"none", "made again", "stale lock", "same lock"}
        /\ conflict' = "none" => Starters = {} /\ Alive = {}
        /\ conflict' = "same lock" =>
             /\ Starters # {} \/ Alive # {}
             /\ \A s \in Alive : ~srv[s].again
             /\ HasTheLock(cl[c].holds)
             /\ \A d \in Starters : HasTheLock(cl[d].holds)
             /\ \A s \in Alive : srv[s].pc \notin {"close", "loop"} => HasTheLock(srv[s].holds)
    BY <2>1 DEF Reason
  <2>5. StartTypeOK'
    BY <1>1, <2>3, <2>4 DEF StartInv, StartTypeOK
  <2>6. OneHolder'
    BY <1>1, <2>2, <2>3, HoldersKept DEF StartInv
  <2>7. OpenWhenAsked'
    BY <2>2, <2>3 DEF StartInv, OpenWhenAsked
  <2>8. Starters' = Starters \cup {c} /\ Alive' = Alive
    BY <1>1, <2>2, <2>3 DEF Starters, Alive
  <2>9. HoldersRun' /\ OneStarter' /\ BoundHasName'
    <3>1. HoldersRun'
      BY <1>1, <2>8 DEF StartInv, HoldersRun
    <3>2. OneStarter'
      BY <2>4, <2>8 DEF OneStarter, Step
    <3>3. BoundHasName'
      BY <1>1, <2>4 DEF StartInv, BoundHasName, Step
    <3> QED
      BY <3>1, <3>2, <3>3
  <2>10. conflict' # "same lock"
    <3> SUFFICES ASSUME conflict' = "same lock" PROVE FALSE
      OBVIOUS
    <3>1. cl[c].holds \in File /\ cl[c].holds = lockfile
      BY <1>1, <2>4 DEF HasTheLock, ClientType
    <3>2. c \notin Starters
      BY <1>1 DEF Starters
    <3>3. Starters = {}
      <4>1. \A d \in Starters : d \in Client /\ cl[d].holds = lockfile
        BY <2>4 DEF Starters, HasTheLock
      <4>2. \A d \in Client : cl[d].holds = lockfile => d = c
        BY <3>1 DEF StartInv, OneHolder
      <4> QED
        BY <3>2, <4>1, <4>2
    <3>4. PICK s \in Alive : TRUE
      BY <2>4, <3>3
    <3>5. s \in Server /\ srv[s].pc \in {"close", "loop"}
      <4>1. s \in Server
        BY DEF Alive
      <4>2. srv[s].holds # lockfile
        BY <3>1, <4>1 DEF StartInv, OneHolder
      <4> QED
        BY <2>4, <4>1, <4>2 DEF HasTheLock
    <3>6. path = s
      BY <1>1, <3>5 DEF StartInv, BoundHasName
    <3>7. s # Nobody
      BY <3>5, StartAssumption DEF Nobody
    <3> QED
      BY <1>1, <3>5, <3>6, <3>7 DEF Listening
  <2> QED
    BY <2>5, <2>6, <2>7, <2>9, <2>10 DEF StartInv
<1> QED
  BY <1>2, <1>3

(* The lock passes to the server that is forked, the only one there is. *)
LEMMA ForkInv ==
    ASSUME StartInv, NEW c \in Client, Fork(c)
    PROVE  StartInv'
<1>1. PICK s \in Server :
        /\ At(c, "fork") /\ srv[s].pc = "none"
        /\ srv' = [srv EXCEPT ![s].pc = "unlink", ![s].holds = cl[c].holds,
                              ![s].clients = {c}]
        /\ cl' = [cl EXCEPT ![c] = [Closed(@, "connected") EXCEPT !.to = s]]
        /\ UNCHANGED <<path, lockfile, conflict>>
  BY DEF Fork
<1>2. /\ cl \in [Client -> ClientType] /\ cl[c] \in ClientType
      /\ srv \in [Server -> ServerType] /\ srv[s] \in ServerType
      /\ Step /\ cl[c].pc = "fork" /\ c \in Starters
  BY <1>1 DEF StartInv, StartTypeOK, At, Starters
<1> DEFINE x == [Closed(cl[c], "connected") EXCEPT !.to = s]
           y == [srv[s] EXCEPT !.pc = "unlink", !.holds = cl[c].holds, !.clients = {c}]
<1>3. cl' = [cl EXCEPT ![c] = x] /\ srv' = [srv EXCEPT ![s] = y]
  BY <1>1, <1>2
<1>4. /\ x \in ClientType /\ x.pc = "connected" /\ x.open = NoFile /\ x.holds = NoFile
      /\ y \in ServerType /\ y.pc = "unlink" /\ y.holds = cl[c].holds
  BY <1>2 DEF ClientType, ServerType, Closed
<1> HIDE DEF x, y
<1>5. /\ cl' \in [Client -> ClientType] /\ cl'[c] = x
      /\ \A d \in Client \ {c} : cl'[d] = cl[d]
      /\ srv' \in [Server -> ServerType] /\ srv'[s] = y
      /\ \A t \in Server \ {s} : srv'[t] = srv[t]
  BY <1>2, <1>3, <1>4
<1>6. StartTypeOK'
  BY <1>1, <1>5 DEF StartInv, StartTypeOK
<1>7. OneHolder'
  <2>1. OneHolder
    BY DEF StartInv
  <2> SUFFICES ASSUME NEW f \in File
               PROVE  /\ \A d, e \in Client : cl'[d].holds = f /\ cl'[e].holds = f => d = e
                      /\ \A t, u \in Server : srv'[t].holds = f /\ srv'[u].holds = f => t = u
                      /\ \A d \in Client, t \in Server :
                           ~(cl'[d].holds = f /\ srv'[t].holds = f)
    BY DEF OneHolder
  <2>2. f # NoFile
    BY DEF File, NoFile
  <2>3. cl'[c].holds = NoFile /\ srv'[s].holds = cl[c].holds
    BY <1>4, <1>5
  <2>4. /\ \A d \in Client \ {c} : cl'[d].holds = cl[d].holds
        /\ \A t \in Server \ {s} : srv'[t].holds = srv[t].holds
    BY <1>5
  <2>5. /\ \A d, e \in Client : cl[d].holds = f /\ cl[e].holds = f => d = e
        /\ \A t, u \in Server : srv[t].holds = f /\ srv[u].holds = f => t = u
        /\ \A d \in Client, t \in Server : ~(cl[d].holds = f /\ srv[t].holds = f)
    BY <2>1 DEF OneHolder
  <2> QED
    BY <2>2, <2>3, <2>4, <2>5
<1>8. OpenWhenAsked'
  BY <1>4, <1>5 DEF StartInv, OpenWhenAsked
<1>9. Starters = {c} /\ Alive = {}
  BY <1>2 DEF StartInv, OneStarter
<1>10. Starters' = {} /\ Alive' = {s}
  BY <1>4, <1>5, <1>9 DEF Starters, Alive
<1>11. HoldersRun'
  BY <1>5, <1>9, <1>10 DEF StartInv, HoldersRun
<1>12. OneStarter' /\ BoundHasName'
  BY <1>4, <1>5, <1>9, <1>10 DEF OneStarter, BoundHasName, Alive
<1> QED
  BY <1>1, <1>6, <1>7, <1>8, <1>11, <1>12 DEF StartInv

(* The other calls of a client lock nothing and start nothing. *)
LEMMA CallInv ==
    ASSUME StartInv, NEW c \in Client,
           \/ Begin(c) \/ Connect(c) \/ OpenLock(c) \/ WaitForLock(c)
           \/ UnlinkSocket(c) \/ LostServer(c) \/ Ends(c)
    PROVE  StartInv'
<1>1. /\ cl \in [Client -> ClientType] /\ cl[c] \in ClientType
      /\ srv \in [Server -> ServerType] /\ lockfile \in File \cup {NoFile}
      /\ path \in Server \cup {Nobody}
      /\ cl[c].holds \in {NoFile, cl[c].open}
  BY DEF StartInv, StartTypeOK, OpenWhenAsked
<1>3. CASE Begin(c)
  <2> DEFINE x == [cl[c] EXCEPT !.pc = "connect"]
  <2>1. /\ cl' = [cl EXCEPT ![c] = x] /\ UNCHANGED <<path, lockfile, srv, conflict>>
        /\ Step /\ cl[c].pc = "new"
    BY <1>3 DEF Begin, At
  <2>2. x \in ClientType /\ x.holds = cl[c].holds /\ x.open = cl[c].open /\ x.pc = "connect"
    BY <1>1 DEF ClientType
  <2>3. cl[c].open = NoFile
    BY <2>1 DEF StartInv, OpenWhenAsked
  <2> HIDE DEF x
  <2> QED
    BY <1>1, <2>1, <2>2, <2>3, ClientStep
<1>4. CASE Connect(c)
  <2> DEFINE x == [Closed(cl[c], "connected") EXCEPT !.to = path]
  <2>1. /\ cl' = [cl EXCEPT ![c] = x]
        /\ srv' = [srv EXCEPT ![path] = [srv[path] EXCEPT !.backlog = @ \cup {c}]]
        /\ UNCHANGED <<path, lockfile, conflict>>
        /\ Step /\ path \in Server
    BY <1>1, <1>4 DEF Connect, At, Listening
  <2>2. x \in ClientType /\ x.holds = NoFile /\ x.open = NoFile /\ x.pc = "connected"
    BY <1>1, <2>1 DEF ClientType, Closed
  <2>3. /\ srv' \in [Server -> ServerType]
        /\ \A s \in Server : srv'[s].pc = srv[s].pc /\ srv'[s].holds = srv[s].holds
    BY <1>1, <2>1 DEF ServerType
  <2> HIDE DEF x
  <2> QED
    BY <1>1, <2>1, <2>2, <2>3, ClientStep
<1>5. CASE OpenLock(c)
  <2> DEFINE f == IF lockfile # NoFile THEN lockfile ELSE Min({g \in File : ~Opened(g)})
             x == [cl[c] EXCEPT !.open = f, !.pc = "flock"]
  <2>1. /\ cl' = [cl EXCEPT ![c].open = f, ![c].pc = "flock"]
        /\ lockfile' = f
        /\ UNCHANGED <<path, srv, conflict>>
        /\ Step /\ cl[c].pc = "open"
    BY <1>5 DEF OpenLock, At
  <2>2. f \in File
    <3>1. CASE lockfile # NoFile
      BY <1>1, <3>1
    <3>2. CASE lockfile = NoFile
      <4> DEFINE free == {g \in File : ~Opened(g)}
      <4>1. free # {} /\ free \subseteq File
        BY <2>1, <3>2, FreeFile
      <4>2. free \in SUBSET Nat
        <5>1. Cardinality(Client) \in Nat
          BY FS_CardinalityType, StartAssumption
        <5> QED
          BY <4>1, <5>1 DEF File
      <4>3. Min(free) \in free
        <5> HIDE DEF free
        <5> QED
          BY <4>1, <4>2, LeastOf
      <4> QED
        BY <3>2, <4>1, <4>3
    <3> QED
      BY <3>1, <3>2
  <2> HIDE DEF f
  <2>3. cl' = [cl EXCEPT ![c] = x]
    BY <1>1, <2>1 DEF ClientType
  <2>4. x \in ClientType /\ x.holds = cl[c].holds /\ x.open = f /\ x.pc = "flock"
    BY <1>1, <2>2 DEF ClientType
  <2>5. cl[c].holds = NoFile
    BY <2>1 DEF StartInv, OpenWhenAsked
  <2> HIDE DEF x
  <2> QED
    BY <1>1, <2>1, <2>2, <2>3, <2>4, <2>5, ClientStep
<1>6. CASE WaitForLock(c)
  <2> DEFINE x == Closed(cl[c], "connect")
  <2>1. /\ cl' = [cl EXCEPT ![c] = x] /\ UNCHANGED <<path, lockfile, srv, conflict>>
        /\ Step
    BY <1>6 DEF WaitForLock, At
  <2>2. x \in ClientType /\ x.holds = NoFile /\ x.open = NoFile /\ x.pc = "connect"
    BY <1>1 DEF ClientType, Closed
  <2> HIDE DEF x
  <2> QED
    BY <1>1, <2>1, <2>2, ClientStep
<1>7. CASE UnlinkSocket(c)
  <2> DEFINE x == [cl[c] EXCEPT !.pc = "fork"]
  <2>1. /\ cl' = [cl EXCEPT ![c] = x] /\ UNCHANGED <<lockfile, srv, conflict>>
        /\ Step /\ path' = Nobody /\ c \in Starters
    BY <1>7 DEF UnlinkSocket, At, Starters
  <2>2. x \in ClientType /\ x.holds = cl[c].holds /\ x.open = cl[c].open /\ x.pc = "fork"
    BY <1>1 DEF ClientType
  <2> HIDE DEF x
  <2> QED
    BY <1>1, <2>1, <2>2, ClientStep
<1>8. CASE LostServer(c)
  <2> DEFINE x == [cl[c] EXCEPT !.pc = "lost"]
  <2>1. /\ cl' = [cl EXCEPT ![c] = x] /\ UNCHANGED <<path, lockfile, srv, conflict>>
        /\ Step
    BY <1>8 DEF LostServer, At
  <2>2. x \in ClientType /\ x.holds = cl[c].holds /\ x.open = cl[c].open /\ x.pc = "lost"
    BY <1>1 DEF ClientType
  <2> HIDE DEF x
  <2> QED
    BY <1>1, <2>1, <2>2, ClientStep
<1>9. CASE Ends(c)
  <2> DEFINE x == Closed(cl[c], "ended")
  <2>1. /\ cl' = [cl EXCEPT ![c] = x] /\ UNCHANGED <<path, lockfile, conflict>>
        /\ srv' = [s \in Server |-> [srv[s] EXCEPT !.backlog = @ \ {c}, !.clients = @ \ {c}]]
        /\ Step
    BY <1>9 DEF Ends
  <2>2. x \in ClientType /\ x.holds = NoFile /\ x.open = NoFile /\ x.pc = "ended"
    BY <1>1 DEF ClientType, Closed
  <2>3. /\ srv' \in [Server -> ServerType]
        /\ \A s \in Server : srv'[s].pc = srv[s].pc /\ srv'[s].holds = srv[s].holds
    BY <1>1, <2>1 DEF ServerType
  <2> HIDE DEF x
  <2> QED
    BY <1>1, <2>1, <2>2, <2>3, ClientStep
<1> QED
  BY <1>3, <1>4, <1>5, <1>6, <1>7, <1>8, <1>9

(* A server's calls, on the only server that runs. *)
LEMMA ServerInv ==
    ASSUME StartInv, NEW s \in Server,
           \/ Start(s) \/ Sessions(s) \/ Terminate(s) \/ MakeAgain(s)
           \/ Exit(s) \/ Crash(s) \/ \E c \in Client : Accept(s, c)
    PROVE  StartInv'
<1>1. /\ srv \in [Server -> ServerType] /\ srv[s] \in ServerType
      /\ lockfile \in File \cup {NoFile} /\ NoFile \in File \cup {NoFile}
  BY DEF StartInv, StartTypeOK
<1>2. Step /\ srv[s].pc \in {"listen", "release", "close", "loop"} => path = s
  BY DEF StartInv, BoundHasName
<1>3. CASE Unlink(s)
  <2> DEFINE y == [srv[s] EXCEPT !.pc = "bind"]
  <2>1. /\ srv' = [srv EXCEPT ![s] = y] /\ UNCHANGED <<lockfile, cl, conflict>>
        /\ path' = Nobody /\ Step /\ s \in Alive
    BY <1>3 DEF Unlink, Moved, Serving, Alive
  <2>2. y \in ServerType /\ y.holds = srv[s].holds /\ y.pc = "bind"
    BY <1>1 DEF ServerType
  <2> HIDE DEF y
  <2> QED
    BY <1>1, <2>1, <2>2, ServerStep
<1>4. CASE Bind(s)
  <2> DEFINE y == [srv[s] EXCEPT !.pc = "listen"]
  <2>1. /\ srv' = [srv EXCEPT ![s] = y] /\ UNCHANGED <<lockfile, cl, conflict>>
        /\ path' = s /\ Step /\ s \in Alive
    BY <1>4 DEF Bind, Moved, Serving, Alive
  <2>2. y \in ServerType /\ y.holds = srv[s].holds /\ y.pc = "listen"
    BY <1>1 DEF ServerType
  <2> HIDE DEF y
  <2> QED
    BY <1>1, <2>1, <2>2, ServerStep
<1>5. CASE Listen(s)
  <2> DEFINE next == IF srv[s].again THEN "loop" ELSE "release"
             y == [srv[s] EXCEPT !.pc = next, !.again = FALSE, !.backlog = {}]
  <2>1. /\ srv' = [srv EXCEPT ![s] = y] /\ UNCHANGED <<path, lockfile, cl, conflict>>
        /\ Step /\ s \in Alive /\ srv[s].pc = "listen"
    BY <1>1, <1>5 DEF Listen, Serving, Alive, ServerType
  <2>2. y \in ServerType /\ y.holds = srv[s].holds /\ y.pc \in {"loop", "release"}
    BY <1>1 DEF ServerType
  <2> HIDE DEF y
  <2> QED
    BY <1>1, <1>2, <2>1, <2>2, ServerStep
<1>6. CASE Release(s)
  <2> DEFINE y == [srv[s] EXCEPT !.pc = "close"]
  <2>1. /\ srv' = [srv EXCEPT ![s] = y] /\ UNCHANGED <<path, cl, conflict>>
        /\ lockfile' = NoFile /\ Step /\ s \in Alive /\ srv[s].pc = "release"
    BY <1>6 DEF Release, Moved, Serving, Alive
  <2>2. y \in ServerType /\ y.holds = srv[s].holds /\ y.pc = "close"
    BY <1>1 DEF ServerType
  <2> HIDE DEF y
  <2> QED
    BY <1>1, <1>2, <2>1, <2>2, ServerStep
<1>7. CASE EnterLoop(s)
  <2> DEFINE y == [srv[s] EXCEPT !.pc = "loop", !.holds = NoFile]
  <2>1. /\ srv' = [srv EXCEPT ![s] = y] /\ UNCHANGED <<path, lockfile, cl, conflict>>
        /\ Step /\ s \in Alive /\ srv[s].pc = "close"
    BY <1>1, <1>7 DEF EnterLoop, Serving, Alive, ServerType
  <2>2. y \in ServerType /\ y.holds = NoFile /\ y.pc = "loop"
    BY <1>1 DEF ServerType
  <2> HIDE DEF y
  <2> QED
    BY <1>1, <1>2, <2>1, <2>2, ServerStep
<1>8. CASE Sessions(s) \/ Terminate(s) \/ MakeAgain(s) \/ \E c \in Client : Accept(s, c)
  <2>1. /\ Step /\ srv[s].pc = "loop" /\ s \in Alive /\ path = s
        /\ UNCHANGED <<path, lockfile, cl, conflict>>
    BY <1>2, <1>8 DEF Sessions, Terminate, MakeAgain, Accept, Serving, Alive
  <2>2. PICK y : /\ srv' = [srv EXCEPT ![s] = y]
                 /\ y \in ServerType /\ y.holds = srv[s].holds
                 /\ y.pc \in {"loop", "unlink"}
    <3>1. CASE Sessions(s)
      <4> DEFINE y == [srv[s] EXCEPT !.busy = ~@]
      <4>1. srv' = [srv EXCEPT ![s] = y]
        BY <3>1 DEF Sessions
      <4>2. y \in ServerType /\ y.holds = srv[s].holds /\ y.pc = "loop"
        BY <1>1, <2>1 DEF ServerType
      <4> QED
        BY <4>1, <4>2
    <3>2. CASE Terminate(s)
      <4> DEFINE y == [srv[s] EXCEPT !.ending = TRUE, !.busy = FALSE]
      <4>1. srv' = [srv EXCEPT ![s] = y]
        BY <1>1, <3>2 DEF Terminate, ServerType
      <4>2. y \in ServerType /\ y.holds = srv[s].holds /\ y.pc = "loop"
        BY <1>1, <2>1 DEF ServerType
      <4> QED
        BY <4>1, <4>2
    <3>3. CASE MakeAgain(s)
      <4> DEFINE y == [srv[s] EXCEPT !.again = TRUE, !.pc = "unlink"]
      <4>1. srv' = [srv EXCEPT ![s] = y]
        BY <1>1, <3>3 DEF MakeAgain, ServerType
      <4>2. y \in ServerType /\ y.holds = srv[s].holds /\ y.pc = "unlink"
        BY <1>1, <2>1 DEF ServerType
      <4> QED
        BY <4>1, <4>2
    <3>4. ASSUME NEW c \in Client, Accept(s, c)
          PROVE  \E y : /\ srv' = [srv EXCEPT ![s] = y]
                        /\ y \in ServerType /\ y.holds = srv[s].holds
                        /\ y.pc \in {"loop", "unlink"}
      <4> DEFINE known == IF srv[s].ending THEN srv[s].clients ELSE srv[s].clients \cup {c}
                 y == [srv[s] EXCEPT !.backlog = @ \ {c}, !.clients = known]
      <4>1. srv' = [srv EXCEPT ![s] = y]
        BY <1>1, <3>4 DEF Accept, ServerType
      <4>2. known \in SUBSET Client
        BY <1>1 DEF ServerType
      <4> HIDE DEF known
      <4>3. y \in ServerType /\ y.holds = srv[s].holds /\ y.pc = "loop"
        BY <1>1, <2>1, <4>2 DEF ServerType
      <4> QED
        BY <4>1, <4>3
    <3> QED
      BY <1>8, <3>1, <3>2, <3>3, <3>4
  <2> QED
    BY <1>1, <2>1, <2>2, ServerStep
<1>9. CASE Exit(s) \/ Crash(s)
  <2> DEFINE y == [Blank EXCEPT !.pc = "gone"]
  <2>1. /\ srv' = [srv EXCEPT ![s] = y] /\ UNCHANGED <<path, lockfile, cl, conflict>>
        /\ Step
    BY <1>9 DEF Exit, Crash, Gone, Serving
  <2>2. y \in ServerType /\ y.holds = NoFile /\ y.pc = "gone"
    BY DEF Blank, ServerType
  <2> HIDE DEF y
  <2> QED
    BY <1>1, <2>1, <2>2, ServerStep
<1> QED
  BY <1>3, <1>4, <1>5, <1>6, <1>7, <1>8, <1>9 DEF Start

(* The invariant holds however many clients and servers there are. *)
THEOREM StartInvariant == StartSpec => []StartInv
<1>1. StartInit => StartInv
  <2> SUFFICES ASSUME StartInit PROVE StartInv
    OBVIOUS
  <2>1. PICK S \in SUBSET Client :
          cl = [c \in Client |->
                  [pc |-> "new", starts |-> c \in S, open |-> NoFile, holds |-> NoFile,
                   locked |-> FALSE, to |-> Nobody]]
    BY DEF StartInit
  <2>2. /\ \A c \in Client : /\ cl[c].pc = "new" /\ cl[c].open = NoFile
                             /\ cl[c].holds = NoFile
        /\ \A s \in Server : /\ srv[s].pc = "none" /\ srv[s].holds = NoFile
    BY <2>1 DEF StartInit, Blank
  <2>3. StartTypeOK
    BY <2>1 DEF StartInit, StartTypeOK, ClientType, ServerType, Blank
  <2>4. OneHolder
    <3>1. \A f \in File : f # NoFile
      BY DEF File, NoFile
    <3> QED
      BY <2>2, <3>1 DEF OneHolder
  <2>5. OpenWhenAsked /\ HoldersRun /\ OneStarter /\ BoundHasName
    BY <2>2 DEF OpenWhenAsked, HoldersRun, OneStarter, BoundHasName, Starters, Alive
  <2> QED
    BY <2>3, <2>4, <2>5 DEF StartInv, StartInit
<1>2. StartInv /\ [StartNext]_vars => StartInv'
  <2> SUFFICES ASSUME StartInv, [StartNext]_vars PROVE StartInv'
    OBVIOUS
  <2>1. ASSUME NEW c \in Client, Begin(c) \/ Call(c) \/ Ends(c) PROVE StartInv'
    BY <2>1, CallInv, RefusedInv, TryLockInv, ForkInv DEF Call
  <2>2. ASSUME NEW s \in Server,
               \/ Start(s) \/ Sessions(s) \/ Terminate(s) \/ MakeAgain(s)
               \/ Exit(s) \/ Crash(s) \/ \E c \in Client : Accept(s, c)
        PROVE  StartInv'
    BY <2>2, ServerInv
  <2>3. CASE UNCHANGED vars
    <3>1. /\ path' = path /\ lockfile' = lockfile /\ cl' = cl /\ srv' = srv
          /\ conflict' = conflict
      BY <2>3 DEF vars
    <3>2. StartTypeOK' /\ OneHolder' /\ OpenWhenAsked'
      BY <3>1 DEF StartInv, StartTypeOK, OneHolder, OpenWhenAsked
    <3>3. HoldersRun' /\ OneStarter' /\ BoundHasName'
      <4>1. Starters' = Starters /\ Alive' = Alive
        BY <3>1 DEF Starters, Alive
      <4> QED
        BY <3>1, <4>1 DEF StartInv, HoldersRun, OneStarter, BoundHasName, Step
    <3> QED
      BY <3>1, <3>2, <3>3 DEF StartInv
  <2> QED
    BY <2>1, <2>2, <2>3 DEF StartNext
<1> QED
  BY <1>1, <1>2, PTL DEF StartSpec

(* A lock file is locked by one process at most, and nobody starts a server  *)
(* beside another one while their locks are on the file that has the name    *)
(* (client_connect, client_get_lock).                                        *)
THEOREM OneServerStarts == StartSpec => []OneServer
<1>1. StartInv => OneServer
  <2> SUFFICES ASSUME StartInv PROVE OneServer
    OBVIOUS
  <2>1. ASSUME NEW f \in File PROVE Cardinality(Holders(f)) <= 1
    <3>1. \A x, y \in Holders(f) : x = y
      BY DEF StartInv, OneHolder, Holders
    <3>2. CASE Holders(f) = {}
      <4>1. Cardinality({}) = 0
        BY FS_EmptySet
      <4> QED
        BY <3>2, <4>1
    <3>3. CASE Holders(f) # {}
      <4>1. PICK x : Holders(f) = {x}
        BY <3>1, <3>3
      <4>2. Cardinality({x}) = 1
        BY FS_Singleton
      <4> QED
        BY <4>1, <4>2
    <3> QED
      BY <3>2, <3>3
  <2> QED
    BY <2>1 DEF StartInv, OneServer
<1> QED
  BY <1>1, StartInvariant, PTL

(* A server that runs has the socket's name, until a conflict takes it: its  *)
(* sessions can be reached (server_create_socket, server_start).             *)
THEOREM RunningServerIsReachable == StartSpec => []ServerReachable
<1>1. StartInv => ServerReachable
  BY DEF StartInv, BoundHasName, ServerReachable, Step
<1> QED
  BY <1>1, StartInvariant, PTL
=============================================================================
