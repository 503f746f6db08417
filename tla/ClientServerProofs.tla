------------------------- MODULE ClientServerProofs -------------------------
(***************************************************************************)
(* What a connection guarantees, for any number of files and any course of *)
(* the two processes.  The invariant is about a record x of both processes *)
(* and the messages between them, so that a step of the server can be      *)
(* followed from one function of the code to the next.                     *)
(***************************************************************************)
EXTENDS ClientServer, FiniteSetTheorems, FunctionTheorems, SequenceTheorems, TLAPS

ToServer ==
    [type : {"command", "shell", "exiting", "wakeup", "unlock"}, stream : {0}, x : {0}]
    \cup [type : {"writeready", "readdone"}, stream : Stream, x : 0 .. 1]
    \cup [type : {"read"}, stream : Stream, x : {0}]
ToClient ==
    [type : {"ready", "exit", "shutdown", "detach", "detachkill", "exec", "suspend", "lock",
             "exited", "doshell"}, stream : {0}, x : {0}]
    \cup [type : {"writeopen", "readopen"}, stream : Stream, x : {NoDescriptor} \cup Descriptor]
    \cup [type : {"write", "writeclose", "readcancel"}, stream : Stream, x : {0}]
OutputType ==
    [printed : [Printing -> Nat], promised : [Printing -> Nat], written : [Printing -> Nat],
     refused : SUBSET Stream]

State == [server |-> server, process |-> process, toServer |-> toServer,
          toClient |-> toClient, pane |-> pane, output |-> output]

Holds(q, type, s) == \E k \in DOMAIN q : q[k].type = type /\ q[k].stream = s
Silent(q, s) == \A k \in DOMAIN q : q[k].stream # s

(* How many of the first n messages carry a chunk of stream s. *)
Carrying(q, n, s) == {k \in 1 .. n : q[k].type = "write" /\ q[k].stream = s}
Chunks(q, n, s) == Cardinality(Carrying(q, n, s))

Typed(x) ==
    /\ x.server \in ServerType /\ x.process \in ProcessType
    /\ x.toServer \in Seq(ToServer) /\ x.toClient \in Seq(ToClient)
    /\ x.pane \in BOOLEAN /\ x.output \in OutputType

(* What the server and the client are doing. *)
Phases(x) ==
    LET v == x.server IN
    /\ v.session \/ "suspended" \in v.flags => "attached" \in v.flags
    /\ "bad" \in v.flags => v.work = "idle"
    /\ "dead" \in v.flags => v.batch = 0
    /\ v.batch <= Len(x.toServer)
    /\ v.next >= 3
    /\ v.work = "idle" => \A s \in Stream : v.file[s].kind = "none"
    /\ \A k \in DOMAIN x.toServer : x.toServer[k].type \in {"command", "shell"} =>
          k = 1 /\ v.work = "idle" /\ "bad" \notin v.flags
    /\ x.process.pc = "attached" \/ Holds(x.toClient, "ready", 0) => "attached" \in v.flags
    /\ x.process.pc = "fatal" => ~x.pane
    /\ \A s \in Stream : Holds(x.toClient, "readcancel", s) => ~x.pane /\ "exit" \in v.flags

(* The client is told to exit once. *)
Leaving(x) ==
    /\ x.process.told => "exited" \in x.server.flags
    /\ x.process.why = "told" => x.server.flags \cap {"exited", "attached"} # {}
    /\ Holds(x.toClient, "exit", 0) \/ Holds(x.toClient, "shutdown", 0)
         => "exited" \in x.server.flags

(* A file of the server. *)
FileKept(x, s) ==
    LET f == x.server.file[s] IN
    /\ f.kind = "none" => f = NoServerFile
    /\ f.kind # "none" => s < x.server.next
    /\ s \in Printing => f.kind \in {"none", "print"}
    /\ f.kind = "print" => s \in Printing /\ f.own
    /\ f.kind # "none" /\ ~f.own => f.done /\ "attached" \in x.server.flags
    /\ f.kind # "none" /\ "dead" \in x.server.flags => f.done
    /\ f.closed => f.kind = "input"
    /\ f.kind = "print" /\ f.done /\ "dead" \notin x.server.flags => s \in x.output.refused

(* A file of the client. *)
StreamKept(x, s) ==
    LET f == x.process.file[s] IN
    s \in Printing =>
         /\ f.left > 0 => f.kind = "write"
         /\ f.kind = "write" /\ ~f.open => s \in x.output.refused
         /\ \A k \in DOMAIN x.toClient :
              x.toClient[k].stream = s => x.toClient[k].type \in {"write", "writeopen"}
         /\ \A k \in DOMAIN x.toServer :
              x.toServer[k] = Msg("writeready", s, 1) => s \in x.output.refused

(* What is read is a file that some command has read. *)
Reading(x, s) ==
    \/ x.process.file[s].kind = "read"
    \/ Holds(x.toClient, "readopen", s) \/ Holds(x.toClient, "readcancel", s)
    \/ Holds(x.toServer, "read", s) \/ Holds(x.toServer, "readdone", s)
Matched(x, s) ==
    Reading(x, s) => /\ s \notin Printing /\ s < x.server.next
                     /\ x.server.file[s].kind \in {"none", "load", "input"}

(* A file that is not for printing is opened once and closed last. *)
InTurn(x, s) ==
    LET q == x.toClient
        r == x.toServer
    IN /\ Holds(r, "writeready", s) => x.process.file[s].kind = "write" /\ Silent(q, s)
       /\ \A i, j \in DOMAIN r :
            /\ r[i].type = "writeready" /\ r[i].stream = s
            /\ r[j].type = "writeready" /\ r[j].stream = s
            => i = j
       /\ \A i \in DOMAIN q :
            q[i].stream = s /\ q[i].type \in {"writeopen", "readopen", "writeclose"}
              => \A j \in DOMAIN q : q[j].stream = s => j <= i
       /\ \A i \in DOMAIN q :
            q[i].stream = s /\ q[i].type \in {"writeopen", "readopen"}
              => x.process.file[s].kind = "none"

(* The client knows a file before it gets chunks of it. *)
Ordered(x, s) ==
    LET q == x.toClient
        open == x.process.file[s].kind = "write"
    IN /\ s >= x.server.next =>
            x.process.file[s].kind = "none" /\ ~Holds(x.toServer, "writeready", s) /\ Silent(q, s)
       /\ x.server.file[s].kind = "print" /\ "dead" \notin x.server.flags
            => open \/ Holds(q, "writeopen", s)
       /\ \A i \in DOMAIN q :
            q[i].stream = s /\ q[i].type \in {"write", "writeclose"} =>
                open \/ \E j \in DOMAIN q : j < i /\ q[j].type = "writeopen" /\ q[j].stream = s
       /\ s \notin Printing => InTurn(x, s)
Known(x, s) ==
    x.process.pc = "wait" /\ (x.pane \/ "exit" \notin x.server.flags) => Ordered(x, s)

(* Where the chunks of stream s are that were printed: written or about to  *)
(* be, on their way, or with the server.                                    *)
Reached(x, s) == x.output.written[s] + x.process.file[s].left
Total(x, s) == Reached(x, s) + Chunks(x.toClient, Len(x.toClient), s) + x.server.file[s].left
Arriving(x, s) ==
    x.process.pc = "wait" =>
       /\ "dead" \notin x.server.flags => Total(x, s) = x.output.printed[s]
       /\ \A k \in DOMAIN x.toClient : x.toClient[k].type \in {"exit", "shutdown"} =>
             x.output.promised[s] <= Reached(x, s) + Chunks(x.toClient, k, s)
       /\ x.process.told => x.output.promised[s] <= Reached(x, s)
Arrived(x, s) ==
    x.process.pc = "gone" /\ x.process.why = "told" => x.output.promised[s] <= x.output.written[s]
Sums(x, s) ==
    /\ Total(x, s) <= x.output.printed[s]
    /\ s \notin x.output.refused /\ "attached" \notin x.server.flags => Arriving(x, s) /\ Arrived(x, s)

Core(x) ==
    /\ Typed(x) /\ Phases(x) /\ Leaving(x)
    /\ \A s \in Stream : FileKept(x, s) /\ StreamKept(x, s) /\ Matched(x, s) /\ Known(x, s)
    /\ \A s \in Printing : Sums(x, s)

(* What a command that waits is waiting for. *)
Coming(x, s) ==
    \/ x.server.file[s].done
    \/ /\ "attached" \notin x.server.flags /\ x.process.pc = "wait"
       /\ \/ Holds(x.toServer, "writeready", s) \/ Holds(x.toServer, "readdone", s)
          \/ Holds(x.toClient, "writeopen", s) \/ Holds(x.toClient, "readopen", s)
          \/ x.process.file[s].kind = "read" /\ x.process.file[s].open
Awaited(x) ==
    /\ x.server.work = "waiting" /\ "dead" \notin x.server.flags
    /\ x.process.pc \in {"wait", "attached"}
    => \/ ~x.pane /\ "exit" \in x.server.flags
       \/ \E s \in Stream : x.server.file[s].kind \in {"save", "load", "input"} /\ Coming(x, s)

ConnectionInv ==
    /\ Core(State) /\ (fault = "none" => Awaited(State))
    /\ moves \in 0 .. MaxMoves
    /\ fault \in {"none", "freed file", "astray", "no client"}

----------------------------------------------------------------------------
(* Queues of messages. *)

(* What is on a queue that got a message m at its end. *)
LEMMA Appended ==
    ASSUME NEW S, NEW q \in Seq(S), NEW m \in S, NEW r, r = Append(q, m)
    PROVE  /\ r \in Seq(S) /\ Len(r) = Len(q) + 1 /\ Len(q) \in Nat
           /\ DOMAIN q = 1 .. Len(q) /\ DOMAIN r = 1 .. Len(q) + 1
           /\ \A k \in 1 .. Len(q) : r[k] = q[k]
           /\ r[Len(q) + 1] = m
  OBVIOUS

(* What is on a queue whose head is taken off. *)
LEMMA Popped ==
    ASSUME NEW S, NEW q \in Seq(S), q # <<>>, NEW r, r = Tail(q)
    PROVE  /\ r \in Seq(S) /\ Len(q) \in Nat \ {0} /\ Len(r) = Len(q) - 1
           /\ DOMAIN q = 1 .. Len(q) /\ DOMAIN r = 1 .. Len(q) - 1 /\ 1 \in DOMAIN q
           /\ \A k \in 1 .. Len(q) - 1 : r[k] = q[k + 1]
           /\ q[1] \in S
  OBVIOUS

(* The chunks of a part of a queue can be counted.                          *)
LEMMA ChunksFinite ==
    ASSUME NEW q, NEW n \in Nat, NEW s
    PROVE  IsFiniteSet(Carrying(q, n, s)) /\ Chunks(q, n, s) \in Nat
<1>1. IsFiniteSet(1 .. n)
  BY FS_Interval
<1>2. Carrying(q, n, s) \in SUBSET (1 .. n)
  BY DEF Carrying
<1>3. IsFiniteSet(Carrying(q, n, s))
  BY <1>1, <1>2, FS_Subset
<1> QED
  BY <1>3, FS_CardinalityType DEF Chunks

(* Chunks are counted one by one. *)
LEMMA ChunksNext ==
    ASSUME NEW q, NEW n \in Nat, NEW s
    PROVE  Chunks(q, n + 1, s) = Chunks(q, n, s)
             + IF q[n + 1].type = "write" /\ q[n + 1].stream = s THEN 1 ELSE 0
<1> DEFINE A == Carrying(q, n, s)
           B == Carrying(q, n + 1, s)
<1>1. IsFiniteSet(A) /\ Cardinality(A) \in Nat
  BY ChunksFinite DEF Chunks
<1>2. n + 1 \notin A
  BY DEF Carrying
<1>3. CASE q[n + 1].type = "write" /\ q[n + 1].stream = s
  <2>1. B = A \cup {n + 1}
    BY <1>3 DEF Carrying
  <2>2. Cardinality(B) = Cardinality(A) + 1
    BY <1>1, <1>2, <2>1, FS_AddElement
  <2> QED
    BY <1>3, <2>2 DEF Chunks
<1>4. CASE ~(q[n + 1].type = "write" /\ q[n + 1].stream = s)
  <2>1. B = A
    BY <1>4 DEF Carrying
  <2> QED
    BY <1>1, <1>4, <2>1 DEF Chunks
<1> QED
  BY <1>3, <1>4

(* Queues that begin alike have the same chunks there. *)
LEMMA ChunksSame ==
    ASSUME NEW q, NEW r, NEW n \in Nat, NEW s, \A k \in 1 .. n : r[k] = q[k]
    PROVE  Chunks(r, n, s) = Chunks(q, n, s)
<1>1. Carrying(r, n, s) = Carrying(q, n, s)
  BY DEF Carrying
<1> QED
  BY <1>1 DEF Chunks

(* A shorter part of a queue has no more of them. *)
LEMMA ChunksFewer ==
    ASSUME NEW q, NEW m \in Nat, NEW n \in Nat, m <= n, NEW s
    PROVE  Chunks(q, m, s) <= Chunks(q, n, s)
<1> DEFINE A == Carrying(q, m, s)
           B == Carrying(q, n, s)
<1>1. A \in SUBSET B
  BY DEF Carrying
<1>2. IsFiniteSet(B)
  BY ChunksFinite
<1> QED
  BY <1>1, <1>2, FS_Subset DEF Chunks

(* Without its head a queue has what is behind it. *)
LEMMA ChunksPopped ==
    ASSUME NEW S, NEW q \in Seq(S), q # <<>>, NEW n \in 1 .. Len(q), NEW s
    PROVE  Chunks(q, n, s) = Chunks(Tail(q), n - 1, s)
             + IF q[1].type = "write" /\ q[1].stream = s THEN 1 ELSE 0
<1> DEFINE r == Tail(q)
           A == Carrying(r, n - 1, s)
           B == {k \in 2 .. n : q[k].type = "write" /\ q[k].stream = s}
           C == Carrying(q, n, s)
           f == [k \in A |-> k + 1]
<1>1. /\ Len(q) \in Nat \ {0} /\ \A k \in 1 .. Len(q) - 1 : r[k] = q[k + 1]
  BY Popped
<1> HIDE DEF r
<1>2. n \in Nat /\ n - 1 \in Nat
  BY <1>1
<1>3. IsFiniteSet(A) /\ Cardinality(A) \in Nat
  BY <1>2, ChunksFinite DEF Chunks
<1>4. IsFiniteSet(B) /\ Cardinality(B) = Cardinality(A)
  <2>1. f \in [A -> B]
    BY <1>1, <1>2 DEF Carrying
  <2>2. \A a, b \in A : f[a] = f[b] => a = b
    BY <1>2 DEF Carrying
  <2>3. ASSUME NEW b \in B PROVE \E a \in A : f[a] = b
    <3>1. b - 1 \in 1 .. n - 1 /\ (b - 1) + 1 = b
      BY <1>2
    <3>2. b - 1 \in A
      BY <1>1, <1>2, <3>1 DEF Carrying
    <3> QED
      BY <3>1, <3>2
  <2>4. f \in Bijection(A, B)
    BY <2>1, <2>2, <2>3, Fun_IsBij
  <2>5. ExistsBijection(A, B)
    BY <2>4 DEF ExistsBijection
  <2> QED
    BY <1>3, <2>5, FS_Bijection
<1>5. 1 \notin B
  OBVIOUS
<1>6. CASE q[1].type = "write" /\ q[1].stream = s
  <2>1. C = B \cup {1}
    BY <1>2, <1>6 DEF Carrying
  <2>2. Cardinality(C) = Cardinality(A) + 1
    BY ZenonT(60), <1>3, <1>4, <1>5, <2>1, FS_AddElement
  <2> QED
    BY <1>6, <2>2 DEF Chunks, r
<1>7. CASE ~(q[1].type = "write" /\ q[1].stream = s)
  <2>1. C = B
    BY <1>2, <1>7 DEF Carrying
  <2>2. Cardinality(C) = Cardinality(A)
    BY <1>4, <2>1
  <2> QED
    BY <1>3, <1>7, <2>2 DEF Chunks, r
<1> QED
  BY <1>6, <1>7

(* What file_push sends of stream s: n chunks. *)
Sent(n, s) == [k \in 1 .. n |-> Msg("write", s, 0)]

(* r is q and n copies of m. *)
Longer(r, q, n, m) ==
    /\ Len(q) \in Nat /\ n \in Nat /\ Len(r) = Len(q) + n
    /\ DOMAIN q = 1 .. Len(q) /\ DOMAIN r = 1 .. Len(q) + n
    /\ \A k \in 1 .. Len(q) : r[k] = q[k]
    /\ \A k \in Len(q) + 1 .. Len(q) + n : r[k] = m

(* A queue with n chunks of s behind it.                                    *)
LEMMA Pushed ==
    ASSUME NEW q \in Seq(ToClient), NEW n \in Nat, NEW s \in Stream, NEW r, r = q \o Sent(n, s)
    PROVE  r \in Seq(ToClient) /\ Longer(r, q, n, Msg("write", s, 0))
<1> DEFINE t == Sent(n, s)
<1>1. Msg("write", s, 0) \in ToClient
  BY DEF Msg, ToClient
<1>2. t \in Seq(ToClient) /\ Len(t) = n /\ \A k \in 1 .. n : t[k] = Msg("write", s, 0)
  <2>1. t \in [1 .. n -> ToClient]
    BY <1>1 DEF Sent
  <2> QED
    BY <2>1 DEF Sent
<1> HIDE DEF t
<1>3. Len(q) \in Nat /\ DOMAIN q = 1 .. Len(q)
  OBVIOUS
<1>4. r = q \o t
  BY DEF t
<1>5. r \in Seq(ToClient) /\ Len(r) = Len(q) + n
      /\ \A k \in 1 .. Len(r) : r[k] = IF k <= Len(q) THEN q[k] ELSE t[k - Len(q)]
  BY ONLY ZenonT(60), <1>2, <1>4, q \in Seq(ToClient), ConcatProperties
<1>6. DOMAIN r = 1 .. Len(q) + n
  BY <1>5
<1>7. \A k \in 1 .. Len(q) : r[k] = q[k]
  BY <1>3, <1>5
<1>8. ASSUME NEW k \in Len(q) + 1 .. Len(q) + n PROVE r[k] = Msg("write", s, 0)
  <2>1. k \in 1 .. Len(r) /\ ~(k <= Len(q)) /\ k - Len(q) \in 1 .. n
    BY ONLY <1>3, <1>5, n \in Nat, k \in Len(q) + 1 .. Len(q) + n
  <2> QED
    BY <1>2, <1>5, <2>1
<1>9. Longer(r, q, n, Msg("write", s, 0))
  BY ONLY <1>3, <1>5, <1>6, <1>7, <1>8, n \in Nat DEF Longer
<1> QED
  BY <1>5, <1>9

(* r carries n more chunks of s than q. *)
MoreChunks(r, q, n, s) ==
    \A t \in Stream : Chunks(r, Len(r), t) = Chunks(q, Len(q), t) + IF t = s THEN n ELSE 0

(* n chunks of s at the end add n for s and none for another stream.        *)
LEMMA ChunksAdded ==
    ASSUME NEW q, NEW r, NEW n, NEW s, NEW m, Longer(r, q, n, m),
           m.type = "write" /\ m.stream = s
    PROVE  MoreChunks(r, q, n, s)
<1> SUFFICES ASSUME NEW t \in Stream
             PROVE  Chunks(r, Len(r), t) = Chunks(q, Len(q), t) + IF t = s THEN n ELSE 0
  BY DEF MoreChunks
<1> DEFINE l == Len(q)
<1>0. /\ l \in Nat /\ n \in Nat /\ Len(r) = l + n
      /\ \A k \in 1 .. l : r[k] = q[k]
      /\ \A k \in l + 1 .. l + n : r[k] = m
  BY DEF Longer
<1> HIDE DEF l
<1> DEFINE A == Carrying(q, l, t)
           B == Carrying(r, l + n, t)
           C == l + 1 .. l + n
<1>1. Chunks(q, l, t) = Cardinality(A) /\ Chunks(r, l + n, t) = Cardinality(B)
  BY <1>0 DEF Chunks
<1>2. IsFiniteSet(A) /\ Cardinality(A) \in Nat
  <2>1. IsFiniteSet(A)
    BY ONLY <1>0, ChunksFinite
  <2> QED
    BY <2>1, FS_CardinalityType
<1>5. \A k \in A : k \in 1 .. l /\ k \in B
  BY <1>0 DEF Carrying
<1>6. \A k \in B : k \in A \/ (k \in C /\ t = s)
  BY <1>0 DEF Carrying
<1>7. t = s => C \subseteq B
  BY <1>0 DEF Carrying
<1>8. IsFiniteSet(C) /\ Cardinality(C) = n
  <2> DEFINE a == l + 1
             b == l + n
  <2>1. a \in Int /\ b \in Int /\ C = a .. b /\ b - a + 1 = n /\ (a > b <=> n = 0)
    BY <1>0
  <2> HIDE DEF a, b, C
  <2>2. IsFiniteSet(a .. b) /\ Cardinality(a .. b) = IF a > b THEN 0 ELSE b - a + 1
    BY ONLY <2>1, FS_Interval
  <2> QED
    BY ONLY <2>1, <2>2
<1>9. A \cap C = {}
  BY <1>0 DEF Carrying
<1> HIDE DEF A, B, C
<1>3. CASE t = s
  <2>1. B = A \cup C
    BY <1>3, <1>5, <1>6, <1>7
  <2>2. Cardinality(A \cap C) = 0
    BY <1>9, FS_EmptySet
  <2>3. Cardinality(A \cup C) = Cardinality(A) + Cardinality(C) - Cardinality(A \cap C)
    BY <1>2, <1>8, FS_Union
  <2>4. Cardinality(B) = Cardinality(A) + n
    BY ONLY <1>0, <1>2, <1>8, <2>1, <2>2, <2>3
  <2> QED
    BY <1>0, <1>1, <1>3, <2>4 DEF l
<1>4. CASE t # s
  <2>1. B = A
    BY <1>4, <1>5, <1>6
  <2> QED
    BY <1>0, <1>1, <1>2, <1>4, <2>1 DEF l
<1> QED
  BY <1>3, <1>4

(* ... as file_push does.                                                   *)
LEMMA ChunksPushed ==
    ASSUME NEW q \in Seq(ToClient), NEW n \in Nat, NEW s \in Stream, NEW r, r = q \o Sent(n, s)
    PROVE  MoreChunks(r, q, n, s)
<1> DEFINE m == Msg("write", s, 0)
<1>1. Longer(r, q, n, m)
  BY Pushed
<1>2. m.type = "write" /\ m.stream = s
  BY DEF Msg
<1> HIDE DEF m
<1> QED
  BY ONLY <1>1, <1>2, ChunksAdded

(* q with messages about s behind it. *)
Extends(r, q, s) ==
    /\ Len(q) \in Nat /\ Len(r) \in Nat /\ Len(q) <= Len(r)
    /\ DOMAIN q = 1 .. Len(q) /\ DOMAIN r = 1 .. Len(r)
    /\ \A k \in 1 .. Len(q) : r[k] = q[k]
    /\ \A k \in Len(q) + 1 .. Len(r) : r[k].stream = s

(* q without its first d messages. *)
Without(r, q, d) ==
    /\ Len(q) \in Nat /\ d \in Nat /\ d <= Len(q)
    /\ DOMAIN q = 1 .. Len(q) /\ DOMAIN r = 1 .. Len(q) - d
    /\ \A k \in 1 .. Len(q) - d : r[k] = q[k + d]

(* A queue as it is has nothing new and nothing taken.                      *)
LEMMA ExtendsNothing ==
    ASSUME NEW S, NEW q \in Seq(S), NEW s
    PROVE  Extends(q, q, s) /\ Without(q, q, 0)
  BY DEF Extends, Without

(* A message at the end of a queue.                                         *)
LEMMA ExtendsOne ==
    ASSUME NEW S, NEW q \in Seq(S), NEW m \in S
    PROVE  Extends(Append(q, m), q, m.stream)
<1> DEFINE r == Append(q, m)
<1>1. /\ Len(r) = Len(q) + 1 /\ Len(q) \in Nat
      /\ DOMAIN q = 1 .. Len(q) /\ DOMAIN r = 1 .. Len(q) + 1
      /\ \A k \in 1 .. Len(q) : r[k] = q[k]
      /\ r[Len(q) + 1] = m
  BY Appended
<1> HIDE DEF r
<1>2. \A k \in Len(q) + 1 .. Len(r) : k = Len(q) + 1
  BY <1>1
<1>3. Extends(r, q, m.stream)
  BY <1>1, <1>2 DEF Extends
<1> QED
  BY <1>3 DEF r

(* Copies of a message at the end of a queue.                               *)
LEMMA ExtendsMany ==
    ASSUME NEW r, NEW q, NEW n, NEW m, Longer(r, q, n, m)
    PROVE  Extends(r, q, m.stream)
  BY DEF Longer, Extends

(* The tail of a queue is the queue without its first message.              *)
LEMMA WithoutFirst ==
    ASSUME NEW S, NEW q \in Seq(S), q # <<>>
    PROVE  Without(Tail(q), q, 1)
<1>1. /\ Len(q) \in Nat \ {0}
      /\ DOMAIN q = 1 .. Len(q) /\ DOMAIN Tail(q) = 1 .. Len(q) - 1
      /\ \A k \in 1 .. Len(q) - 1 : Tail(q)[k] = q[k + 1]
  BY Popped
<1> QED
  BY <1>1 DEF Without

(* Messages about s bring no chunk of another stream.                       *)
LEMMA ChunksExtended ==
    ASSUME NEW r, NEW q, NEW s, Extends(r, q, s), NEW t, t # s
    PROVE  Chunks(r, Len(r), t) = Chunks(q, Len(q), t)
<1>1. Carrying(r, Len(r), t) = Carrying(q, Len(q), t)
  BY DEF Extends, Carrying
<1> QED
  BY <1>1 DEF Chunks

(* ... and change nothing of what is before them.                           *)
LEMMA ChunksBefore ==
    ASSUME NEW r, NEW q, NEW s, Extends(r, q, s), NEW k \in 1 .. Len(q), NEW t
    PROVE  Chunks(r, k, t) = Chunks(q, k, t)
<1>1. k \in Nat /\ \A j \in 1 .. k : r[j] = q[j]
  BY DEF Extends
<1> QED
  BY <1>1, ChunksSame

(* A step of the server that works on the file s, or on none if s is 0. *)
Serves(x, y, s) ==
    /\ y.process = x.process
    /\ \E d \in {0, 1} : Without(y.toServer, x.toServer, d)
    /\ Extends(y.toClient, x.toClient, s)
    /\ y.pane => x.pane
    /\ x.server.flags \subseteq y.server.flags \cup {"suspended"}
    /\ "dead" \in y.server.flags => "dead" \in x.server.flags
    /\ y.server.next >= x.server.next
    /\ \A t \in Stream : t # s => y.server.file[t] = x.server.file[t]
    /\ x.output.refused \subseteq y.output.refused
    /\ \A t \in Printing : t # s => y.output.printed[t] = x.output.printed[t]
    /\ y.output.promised = x.output.promised /\ y.output.written = x.output.written

(* The messages that are new are about s, and none of them says to exit.    *)
Quietly(x, y) ==
    \A k \in Len(x.toClient) + 1 .. Len(y.toClient) :
        y.toClient[k].type \notin {"exit", "shutdown"}

(* Numbers of streams are numbers.                                          *)
LEMMA NextNumber ==
    ASSUME NEW x, Typed(x)
    PROVE  x.server.next \in Nat /\ \A s \in Stream : s \in Nat
<1>1. x.server.next \in Nat
  BY DEF Typed, ServerType
<1>2. \A s \in Stream : s \in Nat
  BY ClientServerAssumption DEF Stream, Printing
<1> QED
  BY <1>1, <1>2

(* A step for s leaves the other files of the server as they should be.     *)
LEMMA OtherFiles ==
    ASSUME NEW x, Core(x), NEW y, Typed(y), NEW s, Serves(x, y, s), NEW t \in Stream, t # s
    PROVE  FileKept(y, t)
<1>1. /\ FileKept(x, t) /\ y.server.file[t] = x.server.file[t] /\ y.server.next >= x.server.next
      /\ x.server.flags \subseteq y.server.flags \cup {"suspended"}
      /\ "dead" \in y.server.flags <=> "dead" \in x.server.flags
      /\ x.output.refused \subseteq y.output.refused
  BY DEF Core, Serves
<1>2. x.server.next \in Nat /\ y.server.next \in Nat /\ t \in Nat
  BY NextNumber DEF Core
<1> QED
  BY <1>1, <1>2 DEF FileKept

(* ... the other files of the client,                                       *)
LEMMA OtherStreams ==
    ASSUME NEW x, Core(x), NEW y, NEW s, Serves(x, y, s), NEW t \in Stream, t # s
    PROVE  StreamKept(y, t)
<1>1. /\ StreamKept(x, t) /\ y.process = x.process /\ x.output.refused \subseteq y.output.refused
      /\ Extends(y.toClient, x.toClient, s)
  BY DEF Core, Serves
<1>2. PICK d \in {0, 1} : Without(y.toServer, x.toServer, d)
  BY DEF Serves
<1>3. ASSUME t \in Printing, NEW k \in DOMAIN y.toClient, y.toClient[k].stream = t
      PROVE  y.toClient[k].type \in {"write", "writeopen"}
  <2>1. k \in DOMAIN x.toClient /\ y.toClient[k] = x.toClient[k]
    BY <1>1, <1>3 DEF Extends
  <2> QED
    BY <1>1, <1>3, <2>1 DEF StreamKept
<1>4. ASSUME t \in Printing, NEW k \in DOMAIN y.toServer, y.toServer[k] = Msg("writeready", t, 1)
      PROVE  t \in y.output.refused
  <2>1. k + d \in DOMAIN x.toServer /\ y.toServer[k] = x.toServer[k + d]
    BY <1>2 DEF Without
  <2> QED
    BY <1>1, <1>4, <2>1 DEF StreamKept
<1> QED
  BY <1>1, <1>3, <1>4 DEF StreamKept

(* What is held by a queue that got messages about s, of another stream.    *)
LEMMA OtherHolds ==
    ASSUME NEW r, NEW q, NEW s, Extends(r, q, s), NEW t, t # s, NEW type, Holds(r, type, t)
    PROVE  Holds(q, type, t)
  BY DEF Extends, Holds

(* What a queue holds without its first messages it held with them.         *)
LEMMA HeldBefore ==
    ASSUME NEW r, NEW q, NEW d, Without(r, q, d), NEW type, NEW t, Holds(r, type, t)
    PROVE  Holds(q, type, t)
  BY DEF Without, Holds

(* ... what the client reads of other files,                                *)
LEMMA OtherMatched ==
    ASSUME NEW x, Core(x), NEW y, Typed(y), NEW s, Serves(x, y, s), NEW t \in Stream, t # s
    PROVE  Matched(y, t)
<1>1. /\ Matched(x, t) /\ y.process = x.process /\ Extends(y.toClient, x.toClient, s)
      /\ y.server.file[t] = x.server.file[t] /\ y.server.next >= x.server.next
  BY DEF Core, Serves
<1>2. PICK d \in {0, 1} : Without(y.toServer, x.toServer, d)
  BY DEF Serves
<1>3. Reading(y, t) => Reading(x, t)
  BY <1>1, <1>2, OtherHolds, HeldBefore DEF Reading
<1>4. x.server.next \in Nat /\ y.server.next \in Nat /\ t \in Nat
  BY NextNumber DEF Core
<1> QED
  BY <1>1, <1>3, <1>4 DEF Matched

(* ... the turns the messages of other files come in,                       *)
LEMMA OtherTurns ==
    ASSUME NEW x, NEW y, NEW s, Serves(x, y, s), NEW t \in Stream, t # s, InTurn(x, t)
    PROVE  InTurn(y, t)
<1>1. y.process = x.process /\ Extends(y.toClient, x.toClient, s)
  BY DEF Serves
<1>2. PICK d \in {0, 1} : Without(y.toServer, x.toServer, d)
  BY DEF Serves
<1>3. \A k \in DOMAIN y.toServer : k + d \in DOMAIN x.toServer /\ y.toServer[k] = x.toServer[k + d]
  BY <1>2 DEF Without
<1>4. \A k \in DOMAIN y.toClient : y.toClient[k].stream = t =>
         k \in DOMAIN x.toClient /\ y.toClient[k] = x.toClient[k]
  BY <1>1 DEF Extends
<1>5. Holds(y.toServer, "writeready", t) => Holds(x.toServer, "writeready", t)
  BY <1>3 DEF Holds
<1>6. Silent(x.toClient, t) => Silent(y.toClient, t)
  BY <1>4 DEF Silent
<1>7. ASSUME NEW i \in DOMAIN y.toServer, NEW j \in DOMAIN y.toServer,
             y.toServer[i].type = "writeready", y.toServer[i].stream = t,
             y.toServer[j].type = "writeready", y.toServer[j].stream = t
      PROVE  i = j
  <2>1. i + d = j + d
    BY <1>3, <1>7 DEF InTurn
  <2>2. i \in Nat /\ j \in Nat
    BY <1>2 DEF Without
  <2> QED
    BY <2>1, <2>2
<1> QED
  BY <1>1, <1>4, <1>5, <1>6, <1>7 DEF InTurn

(* ... what the client knows of other files,                                *)
LEMMA OtherKnown ==
    ASSUME NEW x, Core(x), NEW y, Typed(y), NEW s, Serves(x, y, s), NEW t \in Stream, t # s
    PROVE  Known(y, t)
<1> SUFFICES ASSUME y.process.pc = "wait", y.pane \/ "exit" \notin y.server.flags
             PROVE  Ordered(y, t)
  BY DEF Known
<1>1. /\ y.process = x.process /\ Extends(y.toClient, x.toClient, s)
      /\ y.server.file[t] = x.server.file[t] /\ y.server.next >= x.server.next
      /\ x.server.flags \subseteq y.server.flags \cup {"suspended"}
      /\ "dead" \in y.server.flags <=> "dead" \in x.server.flags
      /\ y.pane => x.pane
  BY DEF Serves
<1>2. Ordered(x, t)
  BY <1>1 DEF Core, Known
<1>3. PICK d \in {0, 1} : Without(y.toServer, x.toServer, d)
  BY DEF Serves
<1>4. \A k \in DOMAIN y.toServer : k + d \in DOMAIN x.toServer /\ y.toServer[k] = x.toServer[k + d]
  BY <1>3 DEF Without
<1>5. \A k \in DOMAIN y.toClient : y.toClient[k].stream = t =>
         k \in DOMAIN x.toClient /\ y.toClient[k] = x.toClient[k]
  BY <1>1 DEF Extends
<1>6. \A k \in DOMAIN x.toClient : k \in DOMAIN y.toClient /\ y.toClient[k] = x.toClient[k]
  BY <1>1 DEF Extends
<1>7. Holds(y.toServer, "writeready", t) => Holds(x.toServer, "writeready", t)
  BY <1>4 DEF Holds
<1>8. Silent(x.toClient, t) => Silent(y.toClient, t)
  BY <1>5 DEF Silent
<1>9. x.server.next \in Nat /\ y.server.next \in Nat /\ t \in Nat
  BY NextNumber DEF Core
<1>10. Holds(x.toClient, "writeopen", t) => Holds(y.toClient, "writeopen", t)
  BY <1>6 DEF Holds
<1>11. ASSUME NEW i \in DOMAIN y.toClient, y.toClient[i].stream = t,
              y.toClient[i].type \in {"write", "writeclose"}, y.process.file[t].kind # "write"
       PROVE  \E j \in DOMAIN y.toClient :
                j < i /\ y.toClient[j].type = "writeopen" /\ y.toClient[j].stream = t
  <2>1. PICK j \in DOMAIN x.toClient :
              j < i /\ x.toClient[j].type = "writeopen" /\ x.toClient[j].stream = t
    BY <1>1, <1>2, <1>5, <1>11 DEF Ordered
  <2> QED
    BY <1>6, <2>1
<1>12. t \notin Printing => InTurn(y, t)
  BY <1>2, OtherTurns DEF Ordered
<1>13. t >= y.server.next => t >= x.server.next
  BY <1>1, <1>9
<1> QED
  BY <1>1, <1>2, <1>7, <1>8, <1>10, <1>11, <1>12, <1>13 DEF Ordered

(* What is added up for a stream are numbers.                               *)
LEMMA SumTypes ==
    ASSUME NEW x, Typed(x), NEW s \in Printing
    PROVE  /\ s \in Stream
           /\ x.output.written[s] \in Nat /\ x.output.printed[s] \in Nat /\ x.output.promised[s] \in Nat
           /\ x.process.file[s].left \in Nat /\ x.server.file[s].left \in Nat
           /\ Len(x.toClient) \in Nat /\ DOMAIN x.toClient = 1 .. Len(x.toClient)
           /\ \A n \in Nat : Chunks(x.toClient, n, s) \in Nat
<1>1. s \in Stream
  BY DEF Stream
<1>2. x.process.file[s] \in ProcessFile /\ x.server.file[s] \in ServerFile
  BY <1>1 DEF Typed, ProcessType, ServerType
<1>3. x.process.file[s].left \in Nat /\ x.server.file[s].left \in Nat
  BY <1>2 DEF ProcessFile, ServerFile
<1>4. x.output.written[s] \in Nat /\ x.output.printed[s] \in Nat /\ x.output.promised[s] \in Nat
  BY DEF Typed, OutputType
<1>5. Len(x.toClient) \in Nat /\ DOMAIN x.toClient = 1 .. Len(x.toClient)
  BY DEF Typed
<1>6. \A n \in Nat : Chunks(x.toClient, n, s) \in Nat
  BY ChunksFinite
<1> QED
  BY <1>1, <1>3, <1>4, <1>5, <1>6

(* ... and the chunks of other streams.                                     *)
LEMMA OtherSums ==
    ASSUME NEW x, Core(x), NEW y, Typed(y), NEW s, Serves(x, y, s), Quietly(x, y),
           NEW t \in Printing, t # s
    PROVE  Sums(y, t)
<1>1. /\ y.process = x.process /\ Extends(y.toClient, x.toClient, s)
      /\ y.server.file[t] = x.server.file[t] /\ y.output.printed[t] = x.output.printed[t]
      /\ x.server.flags \subseteq y.server.flags \cup {"suspended"}
      /\ "dead" \in y.server.flags <=> "dead" \in x.server.flags
      /\ x.output.refused \subseteq y.output.refused
      /\ y.output.promised = x.output.promised /\ y.output.written = x.output.written
  BY SumTypes DEF Serves, Core
<1>2. Chunks(y.toClient, Len(y.toClient), t) = Chunks(x.toClient, Len(x.toClient), t)
  BY <1>1, ChunksExtended
<1>3. Sums(x, t)
  BY DEF Core
<1>4. Reached(y, t) = Reached(x, t) /\ Total(y, t) = Total(x, t)
  BY <1>1, <1>2 DEF Reached, Total
<1>5. ASSUME Arriving(x, t) PROVE Arriving(y, t)
  <2>1. ASSUME y.process.pc = "wait", NEW k \in DOMAIN y.toClient,
               y.toClient[k].type \in {"exit", "shutdown"}
        PROVE  y.output.promised[t] <= Reached(y, t) + Chunks(y.toClient, k, t)
    <3>1. k \in 1 .. Len(x.toClient) /\ y.toClient[k] = x.toClient[k]
      BY <1>1, <2>1 DEF Quietly, Extends
    <3>2. Chunks(y.toClient, k, t) = Chunks(x.toClient, k, t)
      BY <1>1, <3>1, ChunksBefore
    <3>3. k \in DOMAIN x.toClient
      BY <1>1, <3>1 DEF Extends
    <3> QED
      BY <1>1, <1>4, <1>5, <2>1, <3>1, <3>2, <3>3 DEF Arriving
  <2> QED
    BY <1>1, <1>4, <1>5, <2>1 DEF Arriving
<1>6. Arrived(x, t) => Arrived(y, t)
  BY <1>1 DEF Arrived
<1> QED
  BY <1>1, <1>3, <1>4, <1>5, <1>6 DEF Sums

(* If only phases and plain messages change, the files are as they should. *)
LEMMA PlainStep ==
    ASSUME NEW x, Core(x), NEW y, Typed(y), Serves(x, y, 0), Quietly(x, y), Phases(y), Leaving(y)
    PROVE  Core(y)
<1>1. \A t \in Stream : t # 0
  BY ClientServerAssumption DEF Stream, Printing
<1>2. \A t \in Printing : t # 0
  BY DEF Printing
<1>3. \A t \in Stream : FileKept(y, t) /\ StreamKept(y, t) /\ Matched(y, t) /\ Known(y, t)
  BY <1>1, OtherFiles, OtherStreams, OtherMatched, OtherKnown
<1>4. \A t \in Printing : Sums(y, t)
  BY <1>2, OtherSums
<1> QED
  BY <1>3, <1>4 DEF Core

(* If one file changes, it is that one that has to be as it should. *)
LEMMA FileStep ==
    ASSUME NEW x, Core(x), NEW y, Typed(y), NEW s \in Stream, Serves(x, y, s), Quietly(x, y),
           Phases(y), Leaving(y), FileKept(y, s), StreamKept(y, s), Matched(y, s), Known(y, s),
           s \in Printing => Sums(y, s)
    PROVE  Core(y)
<1>1. \A t \in Stream : FileKept(y, t) /\ StreamKept(y, t) /\ Matched(y, t) /\ Known(y, t)
  BY OtherFiles, OtherStreams, OtherMatched, OtherKnown
<1>2. \A t \in Printing : Sums(y, t)
  BY OtherSums
<1> QED
  BY <1>1, <1>2 DEF Core

(* The process, what it sent and the pane are as they were. *)
Beside(x, y) == y.process = x.process /\ y.toServer = x.toServer /\ y.pane = x.pane

(* Of the server only the file s is another. *)
OneFile(v, u, s) ==
    /\ u.flags = v.flags /\ u.session = v.session /\ u.exit = v.exit /\ u.work = v.work
    /\ u.next = v.next /\ u.batch = v.batch /\ u.writing = v.writing
    /\ \A t \in Stream : t # s => u.file[t] = v.file[t]

Heard(x) == x.process.pc = "wait" /\ (x.pane \/ "exit" \notin x.server.flags)

(* A change of one file is a step that serves it.                           *)
LEMMA OneFileServes ==
    ASSUME NEW x, Core(x), NEW y, NEW s \in Stream, Beside(x, y), OneFile(x.server, y.server, s),
           Extends(y.toClient, x.toClient, s), x.output.refused = y.output.refused,
           y.output.promised = x.output.promised, y.output.written = x.output.written,
           \A t \in Printing : t # s => y.output.printed[t] = x.output.printed[t]
    PROVE  Serves(x, y, s)
<1>1. Without(y.toServer, x.toServer, 0)
  BY ExtendsNothing DEF Core, Typed, Beside
<1>2. x.server.next \in Nat
  BY NextNumber DEF Core
<1> QED
  BY <1>1, <1>2 DEF Serves, Beside, OneFile

(* ... and no other phase, if the file is none for a client that had none. *)
LEMMA OneFilePhases ==
    ASSUME NEW x, Core(x), NEW y, NEW s \in Stream, Beside(x, y), OneFile(x.server, y.server, s),
           y.toClient = x.toClient, x.server.work = "idle" => y.server.file[s].kind = "none"
    PROVE  Phases(y) /\ Leaving(y)
<1>1. Phases(x) /\ Leaving(x)
  BY DEF Core
<1>2. Phases(y)
  BY <1>1 DEF Phases, Beside, OneFile
<1>3. Leaving(y)
  BY <1>1 DEF Leaving, Beside, OneFile
<1> QED
  BY <1>2, <1>3

(* The sums for a stream are numbers.                                       *)
LEMMA ReachedType ==
    ASSUME NEW x, Typed(x), NEW s \in Printing
    PROVE  Reached(x, s) \in Nat /\ Total(x, s) \in Nat
<1>1. /\ x.output.written[s] \in Nat /\ x.process.file[s].left \in Nat
      /\ x.server.file[s].left \in Nat /\ Chunks(x.toClient, Len(x.toClient), s) \in Nat
  BY SumTypes
<1>2. Reached(x, s) \in Nat
  BY ONLY <1>1 DEF Reached
<1> QED
  BY ONLY <1>1, <1>2 DEF Total

(* A file changes, and nothing is sent. *)
LEMMA Refiled ==
    ASSUME NEW x, Core(x), NEW y, Typed(y), NEW s \in Stream, Beside(x, y),
           y.toClient = x.toClient, y.output = x.output, OneFile(x.server, y.server, s),
           FileKept(y, s),
           \/ y.server.file[s].kind \in {"none", x.server.file[s].kind}
           \/ s \notin Printing /\ ~Reading(x, s) /\ x.server.work # "idle",
           s \in Printing =>
              \/ y.server.file[s].left = x.server.file[s].left
              \/ /\ y.server.file[s].left <= x.server.file[s].left
                 /\ s \in x.output.refused \/ "dead" \in x.server.flags
    PROVE  Core(y)
<1>1. Extends(y.toClient, x.toClient, s)
  BY ExtendsNothing DEF Core, Typed
<1>2. Serves(x, y, s)
  BY <1>1, OneFileServes
<1>3. Quietly(x, y)
  BY <1>1 DEF Quietly, Extends
<1>4. x.server.work = "idle" => y.server.file[s].kind = "none"
  BY DEF Core, Phases
<1>5. Phases(y) /\ Leaving(y)
  BY <1>4, OneFilePhases
<1>6. StreamKept(x, s) /\ Matched(x, s) /\ Known(x, s) /\ (s \in Printing => Sums(x, s))
  BY DEF Core
<1>7. StreamKept(y, s)
  BY <1>6 DEF StreamKept, Beside
<1>8. Matched(y, s)
  <2>1. Reading(y, s) => Reading(x, s)
    BY ONLY Beside(x, y), y.toClient = x.toClient DEF Reading, Beside
  <2> QED
    BY <1>6, <2>1 DEF Matched, OneFile, Phases, Core
<1>9. Known(y, s)
  <2> SUFFICES ASSUME Heard(y) PROVE Ordered(y, s)
    BY DEF Known, Heard
  <2>1. Ordered(x, s)
    BY <1>6 DEF Known, Heard, Beside, OneFile
  <2>2. y.server.file[s].kind = "print" => x.server.file[s].kind = "print"
    BY DEF FileKept
  <2>3. /\ y.process = x.process /\ y.toServer = x.toServer /\ y.toClient = x.toClient
        /\ y.server.next = x.server.next /\ y.server.flags = x.server.flags
    BY DEF Beside, OneFile
  <2>4. InTurn(x, s) => InTurn(y, s)
    BY ONLY <2>3 DEF InTurn
  <2> QED
    BY ONLY <2>1, <2>2, <2>3, <2>4 DEF Ordered
<1>10. ASSUME s \in Printing PROVE Sums(y, s)
  <2>1. /\ Sums(x, s) /\ Reached(y, s) = Reached(x, s)
        /\ y.server.flags = x.server.flags
        /\ y.server.file[s].left <= x.server.file[s].left
    <3>1. Sums(x, s) /\ Typed(x) /\ Typed(y)
      BY <1>6, <1>10 DEF Core
    <3>2. Reached(y, s) = Reached(x, s)
      BY ONLY Beside(x, y), y.output = x.output DEF Reached, Beside
    <3>3. y.server.file[s].left <= x.server.file[s].left
      <4>1. x.server.file[s].left \in Nat /\ y.server.file[s].left \in Nat
        BY ONLY <1>10, <3>1, SumTypes
      <4> QED
        BY <1>10, <4>1
    <3> QED
      BY ONLY <3>1, <3>2, <3>3, OneFile(x.server, y.server, s) DEF OneFile
  <2>2. /\ y.server.file[s].left \in Nat /\ x.server.file[s].left \in Nat
        /\ Chunks(x.toClient, Len(x.toClient), s) \in Nat
        /\ Reached(x, s) \in Nat /\ x.output.printed[s] \in Nat
    <3>1. Typed(x) /\ Typed(y)
      BY DEF Core
    <3>2. Reached(x, s) \in Nat
      BY <1>10, <3>1, ReachedType
    <3> QED
      BY ONLY <1>10, <3>1, <3>2, SumTypes
  <2>3. Total(y, s) <= Total(x, s)
    BY ONLY <2>1, <2>2, y.toClient = x.toClient DEF Total
  <2>4. Total(x, s) \in Nat /\ Total(y, s) \in Nat
    BY <2>1, <2>2 DEF Total
  <2>5. Total(y, s) <= y.output.printed[s]
    BY <2>1, <2>2, <2>3, <2>4 DEF Sums
  <2>6. s \notin x.output.refused /\ "dead" \notin x.server.flags => Total(y, s) = Total(x, s)
    BY <1>10, <2>1 DEF Total
  <2>7. s \notin x.output.refused /\ Arriving(x, s) => Arriving(y, s)
    BY <2>1, <2>6 DEF Arriving, Beside
  <2>8. Arrived(x, s) => Arrived(y, s)
    BY DEF Arrived, Beside
  <2> QED
    BY ONLY <2>1, <2>5, <2>7, <2>8, y.output = x.output DEF Sums
<1> QED
  BY <1>2, <1>3, <1>5, <1>7, <1>8, <1>9, <1>10, FileStep

(* A chunk is printed. *)
LEMMA Counted ==
    ASSUME NEW x, Core(x), NEW y, Typed(y), NEW s \in Printing, Beside(x, y),
           y.toClient = x.toClient, OneFile(x.server, y.server, s), FileKept(y, s),
           x.server.work # "idle", "dead" \notin x.server.flags,
           y.server.file[s].left = x.server.file[s].left + 1,
           x.server.file[s].kind = "none" /\ Heard(x) =>
               x.process.file[s].kind = "write" \/ Holds(x.toClient, "writeopen", s),
           x.server.file[s].kind \in {"none", "print"},
           y.output.refused = x.output.refused, y.output.promised = x.output.promised,
           y.output.written = x.output.written, y.output.printed[s] = x.output.printed[s] + 1,
           \A t \in Printing : t # s => y.output.printed[t] = x.output.printed[t]
    PROVE  Core(y)
<1>1. Extends(y.toClient, x.toClient, s)
  BY ExtendsNothing DEF Core, Typed
<1>0. s \in Stream
  BY DEF Stream
<1>2. Serves(x, y, s)
  BY <1>0, <1>1, OneFileServes
<1>3. Quietly(x, y)
  BY <1>1 DEF Quietly, Extends
<1>5. Phases(y) /\ Leaving(y)
  BY <1>0, OneFilePhases
<1>6. StreamKept(x, s) /\ Matched(x, s) /\ Known(x, s) /\ Sums(x, s)
  BY <1>0 DEF Core
<1>7. StreamKept(y, s)
  BY <1>6 DEF StreamKept, Beside
<1>8. Matched(y, s)
  BY <1>6 DEF Matched, Reading, Beside, OneFile
<1>9. Known(y, s)
  <2> SUFFICES ASSUME Heard(y) PROVE Ordered(y, s)
    BY DEF Known, Heard
  <2>1. Heard(x)
    BY DEF Heard, Beside, OneFile
  <2>2. Ordered(x, s)
    BY <1>6, <2>1 DEF Known, Heard
  <2> QED
    BY <2>1, <2>2 DEF Ordered, Beside, OneFile
<1>10. Sums(y, s)
  <2>1. /\ Reached(y, s) = Reached(x, s) /\ y.server.flags = x.server.flags
    BY DEF Reached, Beside, OneFile
  <2>2. /\ x.server.file[s].left \in Nat /\ x.output.printed[s] \in Nat
        /\ Chunks(x.toClient, Len(x.toClient), s) \in Nat
        /\ Reached(x, s) \in Nat
    <3>1. Typed(x)
      BY DEF Core
    <3>2. Reached(x, s) \in Nat
      BY <3>1, ReachedType
    <3> QED
      BY <3>1, <3>2, SumTypes
  <2>3. Total(y, s) = Total(x, s) + 1 /\ Total(x, s) \in Nat
    <3>1. PICK a \in Nat, b \in Nat, c \in Nat :
             a = Reached(x, s) /\ b = Chunks(x.toClient, Len(x.toClient), s) /\ c = x.server.file[s].left
      BY ONLY <2>2
    <3>2. Total(x, s) = a + b + c
      BY ONLY <3>1 DEF Total
    <3>3. Total(y, s) = a + b + (c + 1)
      BY ONLY <2>1, <3>1, y.toClient = x.toClient,
              y.server.file[s].left = x.server.file[s].left + 1 DEF Total
    <3> QED
      BY ONLY <3>2, <3>3, a \in Nat, b \in Nat, c \in Nat
  <2>5. Total(y, s) <= y.output.printed[s]
    BY <1>6, <2>2, <2>3 DEF Sums
  <2>7. Arriving(x, s) => Arriving(y, s)
    BY <2>1, <2>3 DEF Arriving, Beside
  <2>8. Arrived(x, s) => Arrived(y, s)
    BY DEF Arrived, Beside
  <2> QED
    BY <1>6, <2>1, <2>5, <2>7, <2>8 DEF Sums
<1> QED
  BY <1>0, <1>2, <1>3, <1>5, <1>7, <1>8, <1>9, <1>10, FileStep

(* Nothing but its queue changes of the server. *)
Still(x, y) == Beside(x, y) /\ y.server = x.server /\ y.output = x.output

Opens == {"writeopen", "readopen"}
Ends == {"writeopen", "readopen", "writeclose"}

(* A message m about a file may follow what is on its way.                  *)
MayFollow(x, m) ==
    LET s == m.stream
        q == x.toClient
    IN /\ m.type \in {"writeopen", "readopen", "writeclose", "readcancel"}
       /\ s \in Printing => m.type = "writeopen"
       /\ m.type \in {"readopen", "readcancel"} =>
             s < x.server.next /\ x.server.file[s].kind \in {"none", "load", "input"}
       /\ m.type = "readcancel" => ~x.pane /\ "exit" \in x.server.flags
       /\ Heard(x) =>
            /\ s < x.server.next
            /\ m.type = "writeclose" => x.process.file[s].kind = "write"
            /\ s \notin Printing =>
                 /\ ~Holds(x.toServer, "writeready", s)
                 /\ \A i \in DOMAIN q : q[i].stream = s => q[i].type \notin Ends
                 /\ m.type \in Opens => x.process.file[s].kind = "none"

(* A message about a file is sent. *)
LEMMA FileMessage ==
    ASSUME NEW x, Core(x), NEW y, Typed(y), NEW m \in ToClient, m.stream \in Stream, Still(x, y),
           y.toClient = Append(x.toClient, m), MayFollow(x, m)
    PROVE  Core(y)
<1> DEFINE s == m.stream
           q == x.toClient
           r == y.toClient
           l == Len(q)
<1>0. q \in Seq(ToClient)
  BY DEF Core, Typed
<1>1. Extends(r, q, s)
  BY <1>0, ExtendsOne
<1>2. /\ l \in Nat /\ Len(r) = l + 1 /\ DOMAIN q = 1 .. l /\ DOMAIN r = 1 .. l + 1
      /\ \A k \in 1 .. l : r[k] = q[k]
      /\ r[l + 1] = m
  BY <1>0, Appended
<1>20. l \in Nat
  BY <1>2
<1>21. \A k \in 1 .. l : r[k] = q[k]
  BY <1>2
<1> HIDE DEF l
<1>3. \A k \in DOMAIN r : k \in DOMAIN q \/ k = l + 1
  BY <1>2
<1>4. Serves(x, y, s)
  BY <1>1, OneFileServes DEF Still, OneFile
<1>5. Quietly(x, y)
  BY <1>2 DEF Quietly, MayFollow, l
<1>6. \A type, t : Holds(r, type, t) => Holds(q, type, t) \/ (type = m.type /\ t = s)
  BY <1>2, <1>3 DEF Holds
<1>7. Phases(y)
  <2>1. Holds(r, "ready", 0) => Holds(q, "ready", 0)
    BY <1>6 DEF MayFollow
  <2>2. ASSUME NEW t \in Stream, Holds(r, "readcancel", t) PROVE ~x.pane /\ "exit" \in x.server.flags
    <3>1. CASE Holds(q, "readcancel", t)
      BY <3>1 DEF Core, Phases
    <3> QED
      BY <1>6, <2>2, <3>1 DEF MayFollow
  <2> QED
    BY <2>1, <2>2 DEF Core, Phases, Still, Beside
<1>8. Leaving(y)
  <2>1. \A type \in {"exit", "shutdown"} : Holds(r, type, 0) => Holds(q, type, 0)
    BY <1>6 DEF MayFollow
  <2> QED
    BY <2>1 DEF Core, Leaving, Still, Beside
<1>9. FileKept(x, s) /\ StreamKept(x, s) /\ Matched(x, s) /\ Known(x, s) /\ (s \in Printing => Sums(x, s))
  BY DEF Core
<1>10. FileKept(y, s)
  BY <1>9 DEF FileKept, Still
<1>11. StreamKept(y, s)
  <2>1. ASSUME s \in Printing, NEW k \in DOMAIN r, r[k].stream = s
        PROVE  r[k].type \in {"write", "writeopen"}
    BY <1>2, <1>3, <1>9, <2>1 DEF StreamKept, MayFollow
  <2> QED
    BY <1>9, <2>1 DEF StreamKept, Still, Beside
<1>12. Matched(y, s)
  <2>1. Reading(y, s) => Reading(x, s) \/ m.type \in {"readopen", "readcancel"}
    BY <1>6 DEF Reading, Still, Beside
  <2>2. m.type \in {"readopen", "readcancel"} => s \notin Printing
    BY DEF MayFollow
  <2> QED
    BY <1>9, <2>1, <2>2 DEF Matched, MayFollow, Still
<1>13. Known(y, s)
  <2> SUFFICES ASSUME Heard(y) PROVE Ordered(y, s)
    BY DEF Known, Heard
  <2>1. Heard(x) /\ y.process = x.process /\ y.toServer = x.toServer /\ y.server = x.server
    BY DEF Heard, Still, Beside
  <2>2. Ordered(x, s)
    BY <1>9, <2>1 DEF Known, Heard
  <2>3. s < x.server.next /\ ~(s >= x.server.next)
    BY <2>1, NextNumber DEF MayFollow, Core
  <2>4. Holds(q, "writeopen", s) => Holds(r, "writeopen", s)
    BY <1>2 DEF Holds
  <2>5. ASSUME NEW i \in DOMAIN r, r[i].stream = s, r[i].type \in {"write", "writeclose"},
               x.process.file[s].kind # "write"
        PROVE  \E j \in DOMAIN r : j < i /\ r[j].type = "writeopen" /\ r[j].stream = s
    <3>1. i \in DOMAIN q /\ r[i] = q[i]
      BY <1>2, <1>3, <2>1, <2>5 DEF MayFollow
    <3>2. PICK j \in DOMAIN q : j < i /\ q[j].type = "writeopen" /\ q[j].stream = s
      BY <2>2, <2>5, <3>1 DEF Ordered
    <3> QED
      BY <1>2, <3>2
  <2>6. ASSUME s \notin Printing PROVE InTurn(y, s)
    <3>1. InTurn(x, s) /\ ~Holds(x.toServer, "writeready", s)
      BY <2>1, <2>2, <2>6 DEF Ordered, MayFollow
    <3>2. \A i \in DOMAIN r : r[i].stream = s /\ r[i].type \in Ends => i = l + 1 /\ r[i] = m
      BY <1>2, <1>3, <2>1, <2>6 DEF MayFollow
    <3>3. \A j \in DOMAIN r : j <= l + 1
      BY <1>2
    <3>4. m.type \in Opens => x.process.file[s].kind = "none"
      BY <2>1, <2>6 DEF MayFollow
    <3> QED
      BY <2>1, <3>1, <3>2, <3>3, <3>4 DEF InTurn, Ends, Opens
  <2> QED
    BY <2>1, <2>2, <2>3, <2>4, <2>5, <2>6 DEF Ordered
<1>14. ASSUME s \in Printing PROVE Sums(y, s)
  <2>1. Chunks(r, l + 1, s) = Chunks(q, l, s)
    <3>1. Chunks(r, l + 1, s) = Chunks(r, l, s)
      <4>1. r[l + 1].type # "write"
        BY <1>2 DEF MayFollow
      <4>2. Chunks(r, l, s) \in Nat
        BY <1>2, ChunksFinite
      <4>3. Chunks(r, l + 1, s) = Chunks(r, l, s)
              + IF r[l + 1].type = "write" /\ r[l + 1].stream = s THEN 1 ELSE 0
        BY ONLY <1>20, ChunksNext
      <4> QED
        BY ONLY <4>1, <4>2, <4>3
    <3>2. Chunks(r, l, s) = Chunks(q, l, s)
      BY ONLY <1>20, <1>21, ChunksSame
    <3> QED
      BY ONLY <3>1, <3>2
  <2>2. Reached(y, s) = Reached(x, s) /\ Total(y, s) = Total(x, s)
    BY <1>2, <2>1 DEF Reached, Total, Still, Beside, l
  <2>3. ASSUME Arriving(x, s) PROVE Arriving(y, s)
    <3>1. ASSUME NEW k \in DOMAIN r, r[k].type \in {"exit", "shutdown"}
          PROVE  k \in DOMAIN q /\ r[k] = q[k] /\ Chunks(r, k, s) = Chunks(q, k, s)
      <4>1. k \in 1 .. l /\ l = Len(q)
        BY <1>2, <3>1 DEF MayFollow, l
      <4>2. Chunks(r, k, s) = Chunks(q, k, s)
        BY <1>1, <4>1, ChunksBefore
      <4> QED
        BY <1>2, <4>1, <4>2
    <3> QED
      BY <2>2, <2>3, <3>1 DEF Arriving, Still, Beside
  <2>4. Arrived(x, s) => Arrived(y, s)
    BY DEF Arrived, Still, Beside
  <2> QED
    BY <1>9, <1>14, <2>2, <2>3, <2>4 DEF Sums, Still
<1> QED
  BY <1>4, <1>5, <1>7, <1>8, <1>10, <1>11, <1>12, <1>13, <1>14, FileStep

(* What is left of a file may be sent: the client has opened it, or a       *)
(* stream for printing has been asked for.                                  *)
MayWrite(x, s) ==
    Heard(x) =>
       /\ x.process.file[s].kind = "write" \/ (s \in Printing /\ Holds(x.toClient, "writeopen", s))
       /\ s \notin Printing =>
            /\ ~Holds(x.toServer, "writeready", s)
            /\ \A i \in DOMAIN x.toClient : x.toClient[i].stream = s => x.toClient[i].type \notin Ends

(* The file keeps all but what was left. *)
Emptied(g, f) ==
    /\ g.kind = f.kind /\ g.own = f.own /\ g.left = 0 /\ g.error = f.error
    /\ g.closed = f.closed /\ g.done = f.done

(* A queue with n chunks behind it ...                                      *)
LEMMA DataLonger ==
    ASSUME NEW x, Core(x), NEW y, Typed(y), NEW s \in Stream, Beside(x, y), y.output = x.output,
           OneFile(x.server, y.server, s), Emptied(y.server.file[s], x.server.file[s]),
           x.server.file[s].kind # "none",
           NEW n \in Nat, n = x.server.file[s].left, MayWrite(x, s),
           NEW m, m.type = "write", m.stream = s,
           Longer(y.toClient, x.toClient, n, m), MoreChunks(y.toClient, x.toClient, n, s)
    PROVE  Core(y) /\ MayWrite(y, s)
<1> DEFINE q == x.toClient
           r == y.toClient
           l == Len(q)
<1>1. Longer(r, q, n, m) /\ MoreChunks(r, q, n, s)
  OBVIOUS
<1>2. m.type = "write" /\ m.stream = s
  OBVIOUS
<1>3. Extends(r, q, s)
  BY ONLY <1>1, <1>2, ExtendsMany
<1>4. /\ l \in Nat /\ Len(r) = l + n /\ DOMAIN q = 1 .. l /\ DOMAIN r = 1 .. l + n
      /\ \A k \in 1 .. l : r[k] = q[k]
      /\ \A k \in l + 1 .. l + n : r[k] = m
  BY ONLY <1>1 DEF Longer
<1> HIDE DEF l
<1>5. \A k \in DOMAIN r : (k \in DOMAIN q /\ r[k] = q[k]) \/ (k \in l + 1 .. l + n /\ r[k] = m)
  BY ONLY <1>4, n \in Nat
<1>6. Serves(x, y, s)
  BY <1>3, OneFileServes
<1>7. \A k \in DOMAIN q : k \in DOMAIN r /\ r[k] = q[k]
  BY ONLY <1>4, n \in Nat
<1>8. Quietly(x, y)
  BY <1>2, <1>4 DEF Quietly, l
<1>9. \A type, t : type # "write" /\ Holds(r, type, t) => Holds(q, type, t)
  BY <1>2, <1>5 DEF Holds
<1>10. Phases(y)
  <2>1. x.server.work # "idle" /\ y.server.work # "idle"
    BY DEF Core, Phases, OneFile
  <2>2. Holds(r, "ready", 0) => Holds(q, "ready", 0)
    BY <1>9
  <2>3. \A t : Holds(r, "readcancel", t) => Holds(q, "readcancel", t)
    BY <1>9
  <2> QED
    BY <2>1, <2>2, <2>3 DEF Core, Phases, Beside, OneFile
<1>11. Leaving(y)
  <2>1. \A type \in {"exit", "shutdown"} : Holds(r, type, 0) => Holds(q, type, 0)
    BY <1>9
  <2> QED
    BY <2>1 DEF Core, Leaving, Beside, OneFile
<1>12. FileKept(x, s) /\ StreamKept(x, s) /\ Matched(x, s) /\ Known(x, s)
       /\ (s \in Printing => Sums(x, s))
  BY DEF Core
<1>13. FileKept(y, s)
  <2>1. y.server.flags = x.server.flags /\ y.server.next = x.server.next
    BY ONLY OneFile(x.server, y.server, s) DEF OneFile
  <2> QED
    BY ONLY <1>12, <2>1, x.server.file[s].kind # "none", y.output = x.output,
            Emptied(y.server.file[s], x.server.file[s]) DEF FileKept, Emptied
<1>14. StreamKept(y, s)
  <2>1. ASSUME s \in Printing, NEW k \in DOMAIN r, r[k].stream = s
        PROVE  r[k].type \in {"write", "writeopen"}
    BY <1>2, <1>5, <1>12, <2>1 DEF StreamKept
  <2> QED
    BY <1>12, <2>1 DEF StreamKept, Beside
<1>15. Matched(y, s)
  <2>1. Reading(y, s) => Reading(x, s)
    BY <1>9 DEF Reading, Beside
  <2> QED
    BY <1>12, <2>1 DEF Matched, OneFile, Emptied
<1>16. Heard(y) => Heard(x)
  <2>1. y.server.flags = x.server.flags
    BY ONLY OneFile(x.server, y.server, s) DEF OneFile
  <2> QED
    BY ONLY <2>1, Beside(x, y) DEF Heard, Beside
<1>17. Holds(q, "writeopen", s) => Holds(r, "writeopen", s)
  BY <1>7 DEF Holds
<1>18. MayWrite(y, s)
  <2>1. ASSUME Heard(y), s \notin Printing, NEW i \in DOMAIN r, r[i].stream = s
        PROVE  r[i].type \notin Ends
    <3>1. \A k \in DOMAIN q : q[k].stream = s => q[k].type \notin Ends
      BY ONLY MayWrite(x, s), <1>16, <2>1 DEF MayWrite
    <3>2. "write" \notin Ends
      BY DEF Ends
    <3> QED
      BY ONLY <1>2, <1>5, <2>1, <3>1, <3>2
  <2> QED
    BY <1>16, <1>17, <2>1 DEF MayWrite, Beside
<1>19. Known(y, s)
  <2> SUFFICES ASSUME Heard(y) PROVE Ordered(y, s)
    BY DEF Known, Heard
  <2>1. y.process = x.process /\ y.toServer = x.toServer /\ y.server.next = x.server.next
        /\ y.server.flags = x.server.flags
    BY DEF Beside, OneFile
  <2>2. Ordered(x, s)
    BY <1>12, <1>16 DEF Known, Heard
  <2>3. ~(s >= y.server.next)
    BY <1>12, <2>1, NextNumber DEF FileKept, Core
  <2>4. y.server.file[s].kind = "print" /\ "dead" \notin y.server.flags
          => y.process.file[s].kind = "write" \/ Holds(r, "writeopen", s)
    BY ONLY <1>17, <2>1, <2>2, Emptied(y.server.file[s], x.server.file[s]) DEF Ordered, Emptied
  <2>5. ASSUME NEW i \in DOMAIN r, r[i].stream = s, r[i].type \in {"write", "writeclose"},
               x.process.file[s].kind # "write"
        PROVE  \E j \in DOMAIN r : j < i /\ r[j].type = "writeopen" /\ r[j].stream = s
    <3>1. CASE i \in DOMAIN q /\ r[i] = q[i]
      <4>1. PICK j \in DOMAIN q : j < i /\ q[j].type = "writeopen" /\ q[j].stream = s
        BY ONLY <2>2, <2>5, <3>1 DEF Ordered
      <4> QED
        BY <1>7, <4>1
    <3>2. CASE i \in l + 1 .. l + n
      <4>1. PICK j \in DOMAIN q : q[j].type = "writeopen" /\ q[j].stream = s
        BY <1>16, <2>5 DEF MayWrite, Holds
      <4>2. j < i
        BY ONLY <1>4, <3>2, <4>1, n \in Nat
      <4> QED
        BY <1>7, <4>1, <4>2
    <3> QED
      BY ZenonT(60), <1>5, <3>1, <3>2
  <2>6. ASSUME s \notin Printing PROVE InTurn(y, s)
    <3>1. InTurn(x, s)
      BY <2>2, <2>6 DEF Ordered
    <3>2. ~Holds(y.toServer, "writeready", s)
      BY ONLY <1>16, <2>1, <2>6, MayWrite(x, s), Heard(y) DEF MayWrite
    <3>3. \A i \in DOMAIN r : r[i].stream = s => r[i].type \notin Ends
      BY <1>18, <2>6 DEF MayWrite
    <3> QED
      BY ONLY <2>1, <3>1, <3>2, <3>3 DEF InTurn, Ends
  <2> QED
    BY <2>1, <2>2, <2>3, <2>4, <2>5, <2>6 DEF Ordered
<1>20. ASSUME s \in Printing PROVE Sums(y, s)
  <2>1. Chunks(r, Len(r), s) = Chunks(q, Len(q), s) + n
    BY <1>1 DEF MoreChunks
  <2>2. /\ Chunks(q, Len(q), s) \in Nat /\ Reached(x, s) \in Nat
    BY <1>20, SumTypes, ReachedType DEF Core
  <2>3. Reached(y, s) = Reached(x, s)
    BY DEF Reached, Beside
  <2>4. Total(y, s) = Total(x, s)
    <3>1. y.server.file[s].left = 0
      BY ONLY Emptied(y.server.file[s], x.server.file[s]) DEF Emptied
    <3>2. PICK a \in Nat, b \in Nat : a = Reached(x, s) /\ b = Chunks(q, Len(q), s)
      BY <2>2
    <3>3. Total(x, s) = a + b + n
      BY ONLY <3>2, n = x.server.file[s].left DEF Total
    <3>4. Total(y, s) = a + (b + n) + 0
      BY ONLY <2>1, <2>3, <3>1, <3>2 DEF Total
    <3> QED
      BY ONLY <3>3, <3>4, n \in Nat, a \in Nat, b \in Nat
  <2>5. ASSUME Arriving(x, s) PROVE Arriving(y, s)
    <3>1. ASSUME NEW k \in DOMAIN r, r[k].type \in {"exit", "shutdown"}
          PROVE  k \in DOMAIN q /\ r[k] = q[k] /\ Chunks(r, k, s) = Chunks(q, k, s)
      <4>1. k \in 1 .. Len(q) /\ r[k] = q[k] /\ k \in DOMAIN q
        BY <1>2, <1>4, <1>5, <3>1 DEF l
      <4>2. Chunks(r, k, s) = Chunks(q, k, s)
        BY <1>3, <4>1, ChunksBefore
      <4> QED
        BY <4>1, <4>2
    <3> QED
      BY <2>3, <2>4, <2>5, <3>1 DEF Arriving, Beside, OneFile
  <2>6. Arrived(x, s) => Arrived(y, s)
    BY DEF Arrived, Beside
  <2> QED
    BY <1>12, <1>20, <2>4, <2>5, <2>6 DEF Sums, OneFile
<1> QED
  BY <1>6, <1>8, <1>10, <1>11, <1>13, <1>14, <1>15, <1>18, <1>19, <1>20, FileStep

(* ... is what there is when what is left of a file is sent.                *)
LEMMA DataSent ==
    ASSUME NEW x, Core(x), NEW y, Typed(y), NEW s \in Stream, Beside(x, y), y.output = x.output,
           OneFile(x.server, y.server, s), Emptied(y.server.file[s], x.server.file[s]),
           x.server.file[s].kind # "none",
           NEW n \in Nat, n = x.server.file[s].left,
           y.toClient = x.toClient \o Sent(n, s), MayWrite(x, s)
    PROVE  Core(y) /\ MayWrite(y, s)
<1> DEFINE m == Msg("write", s, 0)
<1>1. x.toClient \in Seq(ToClient)
  BY DEF Core, Typed
<1>2. Longer(y.toClient, x.toClient, n, m) /\ MoreChunks(y.toClient, x.toClient, n, s)
  BY ONLY <1>1, n \in Nat, s \in Stream, y.toClient = x.toClient \o Sent(n, s), Pushed, ChunksPushed
<1>3. m.type = "write" /\ m.stream = s
  BY DEF Msg
<1> HIDE DEF m
<1> QED
  BY ONLY <1>2, <1>3, Core(x), Typed(y), s \in Stream, Beside(x, y), y.output = x.output,
          OneFile(x.server, y.server, s), Emptied(y.server.file[s], x.server.file[s]),
          x.server.file[s].kind # "none", n \in Nat, n = x.server.file[s].left, MayWrite(x, s),
          DataLonger

(* The next number is given to a file of a command: until then nobody knows *)
(* of it.                                                                   *)
Fresh(x, s) ==
    /\ s \notin Printing /\ ~Reading(x, s) /\ s < x.server.next
    /\ x.server.file[s].kind = "none"
    /\ Heard(x) => x.process.file[s].kind = "none" /\ ~Holds(x.toServer, "writeready", s)
                   /\ Silent(x.toClient, s)

(* A command takes the next number: the file of that number is fresh.       *)
LEMMA NumberGiven ==
    ASSUME NEW x, Core(x), NEW y, Typed(y), NEW s \in Stream, s = x.server.next,
           Beside(x, y), y.toClient = x.toClient, y.output = x.output,
           y.server.flags = x.server.flags, y.server.session = x.server.session,
           y.server.exit = x.server.exit, y.server.work = x.server.work,
           y.server.batch = x.server.batch, y.server.file = x.server.file,
           y.server.next = x.server.next + 1
    PROVE  Core(y) /\ Fresh(y, s)
<1>1. Extends(y.toClient, x.toClient, 0) /\ Without(y.toServer, x.toServer, 0)
  BY ExtendsNothing DEF Core, Typed, Beside
<1>2. x.server.next \in Nat /\ y.server.next \in Nat
  BY NextNumber DEF Core
<1>3. Serves(x, y, 0)
  BY <1>1, <1>2 DEF Serves, Beside
<1>4. Quietly(x, y)
  BY <1>1 DEF Quietly, Extends
<1>5. Phases(y)
  BY <1>2 DEF Core, Phases, Beside
<1>6. Leaving(y)
  BY DEF Core, Leaving, Beside
<1>7. Core(y)
  BY <1>3, <1>4, <1>5, <1>6, PlainStep
<1>8. s >= 3
  BY DEF Core, Phases
<1>9. s \notin Printing
  BY <1>2, <1>8 DEF Printing
<1>10. ~Reading(x, s)
  BY <1>2 DEF Core, Matched
<1>11. x.server.file[s].kind = "none"
  BY <1>2 DEF Core, FileKept
<1>12. Heard(x) => x.process.file[s].kind = "none" /\ ~Holds(x.toServer, "writeready", s)
                   /\ Silent(x.toClient, s)
  BY <1>2 DEF Core, Known, Ordered, Heard
<1>13. Reading(y, s) => Reading(x, s)
  BY DEF Reading, Beside
<1>14. Heard(y) => Heard(x)
  BY DEF Heard, Beside
<1> QED
  BY <1>2, <1>7, <1>9, <1>10, <1>11, <1>12, <1>13, <1>14 DEF Fresh, Beside

Fault == {"none", "freed file", "astray", "no client"}
Worlds == [server : ServerType, sent : Seq(ToClient), output : OutputType, fault : Fault]

(* What is there when a step of the server has come to v, with r in its     *)
(* queue.                                                                   *)
At(r, v) == [server |-> v.server, process |-> process, toServer |-> r,
             toClient |-> toClient \o v.sent, pane |-> pane, output |-> v.output]
Keeps(r, v) == v \in Worlds /\ toClient \in Seq(ToClient) /\ Core(At(r, v))

(* The fields of the state a step of the server has come to.                *)
LEMMA AtFields ==
    ASSUME NEW r, NEW v
    PROVE  /\ At(r, v).server = v.server /\ At(r, v).process = process /\ At(r, v).toServer = r
           /\ At(r, v).toClient = toClient \o v.sent /\ At(r, v).pane = pane
           /\ At(r, v).output = v.output
  BY DEF At

(* A file that is there is kept as it was, and may be done meanwhile.       *)
LEMMA StillKept ==
    ASSUME NEW x, NEW y, NEW s, FileKept(x, s), OneFile(x.server, y.server, s),
           y.output = x.output, NEW g, g = x.server.file[s], NEW f, f = y.server.file[s],
           g.kind # "none", f.kind = g.kind, f.own = g.own, f.closed => g.closed \/ g.kind = "input", g.done => f.done,
           f.kind = "print" /\ f.done => g.done \/ s \in y.output.refused \/ "dead" \in y.server.flags
    PROVE  FileKept(y, s)
<1>1. y.server.flags = x.server.flags /\ y.server.next = x.server.next
  BY ONLY OneFile(x.server, y.server, s) DEF OneFile
<1> QED
  BY <1>1 DEF FileKept

(* It is typed if what the server has become is.                            *)
LEMMA AtTyped ==
    ASSUME NEW r, NEW v, Keeps(r, v), NEW u \in Worlds
    PROVE  Typed(At(r, u)) /\ Beside(At(r, v), At(r, u))
<1>1. /\ process \in ProcessType /\ r \in Seq(ToServer) /\ pane \in BOOLEAN
      /\ toClient \in Seq(ToClient)
  BY AtFields DEF Keeps, Core, Typed
<1>2. u.sent \in Seq(ToClient) /\ u.server \in ServerType /\ u.output \in OutputType
  BY DEF Worlds
<1>3. toClient \o u.sent \in Seq(ToClient)
  BY ONLY <1>1, <1>2, ConcatProperties
<1> QED
  BY ONLY <1>1, <1>2, <1>3 DEF At, Typed, Beside

(* A file of the server becomes f.                                          *)
LEMMA WithFileFields ==
    ASSUME NEW v \in Worlds, NEW s \in Stream, NEW f \in ServerFile, NEW u, u = WithFile(v, s, f)
    PROVE  /\ u \in Worlds /\ u.sent = v.sent /\ u.output = v.output /\ u.fault = v.fault
           /\ OneFile(v.server, u.server, s) /\ u.server.file[s] = f
<1>1. u = [v EXCEPT !.server = [v.server EXCEPT !.file = [v.server.file EXCEPT ![s] = f]]]
  BY DEF WithFile
<1>2. v.server \in ServerType /\ v.server.file \in [Stream -> ServerFile]
  BY DEF Worlds, ServerType
<1>3. [v.server.file EXCEPT ![s] = f] \in [Stream -> ServerFile]
  BY <1>2
<1>4. [v.server EXCEPT !.file = [v.server.file EXCEPT ![s] = f]] \in ServerType
  BY <1>2, <1>3 DEF ServerType
<1>5. u \in Worlds /\ u.sent = v.sent /\ u.output = v.output /\ u.fault = v.fault
      /\ u.server = [v.server EXCEPT !.file = [v.server.file EXCEPT ![s] = f]]
  BY <1>1, <1>4 DEF Worlds
<1> QED
  BY <1>2, <1>3, <1>5 DEF ServerType, OneFile

(* A step goes wrong: nothing else of it changes.                           *)
LEMMA FaultyFields ==
    ASSUME NEW v \in Worlds, NEW what \in Fault
    PROVE  /\ Faulty(v, what) \in Worlds /\ Faulty(v, what).sent = v.sent
           /\ Faulty(v, what).output = v.output /\ Faulty(v, what).server = v.server
  BY DEF Faulty, Worlds

(* ... and what holds of the state still does.                              *)
LEMMA FaultyKeeps ==
    ASSUME NEW r, NEW v, Keeps(r, v), NEW what \in Fault
    PROVE  Keeps(r, Faulty(v, what))
<1>1. At(r, Faulty(v, what)) = At(r, v)
  BY FaultyFields DEF Keeps, At
<1> QED
  BY <1>1, FaultyFields DEF Keeps

(* A file becomes f, and nothing is sent. *)
LEMMA WithFileKeeps ==
    ASSUME NEW r, NEW v, Keeps(r, v), NEW s \in Stream, NEW f \in ServerFile,
           NEW u, u = WithFile(v, s, f), FileKept(At(r, u), s),
           \/ f.kind \in {"none", v.server.file[s].kind}
           \/ s \notin Printing /\ ~Reading(At(r, v), s) /\ v.server.work # "idle",
           s \in Printing =>
              \/ f.left = v.server.file[s].left
              \/ /\ f.left <= v.server.file[s].left
                 /\ s \in v.output.refused \/ "dead" \in v.server.flags
    PROVE  Keeps(r, u)
<1> DEFINE x == At(r, v)
           y == At(r, u)
<1>1. /\ u \in Worlds /\ u.sent = v.sent /\ u.output = v.output
      /\ OneFile(v.server, u.server, s) /\ u.server.file[s] = f
  BY WithFileFields DEF Keeps
<1>2. Typed(y) /\ Beside(x, y) /\ Core(x)
  BY <1>1, AtTyped DEF Keeps
<1>3. /\ x.server = v.server /\ y.server = u.server /\ y.toClient = x.toClient
      /\ y.output = x.output /\ x.output = v.output
  BY ONLY <1>1 DEF At
<1> HIDE DEF x, y
<1>4. Core(y)
  BY <1>1, <1>2, <1>3, Refiled DEF x, y
<1> QED
  BY <1>1, <1>4 DEF Keeps, y

(* file_fire_done *)
LEMMA FireDoneFields ==
    ASSUME NEW v \in Worlds, NEW s \in Stream, ~v.server.file[s].done
    PROVE  /\ [v.server.file[s] EXCEPT !.done = TRUE] \in ServerFile
           /\ FireDone(v, s) = WithFile(v, s, [v.server.file[s] EXCEPT !.done = TRUE])
<1>1. v.server.file[s] \in ServerFile
  BY DEF Worlds, ServerType
<1>2. FireDone(v, s) = [v EXCEPT !.server.file[s].done = TRUE]
  BY DEF FireDone
<1>3. FireDone(v, s) = WithFile(v, s, [v.server.file[s] EXCEPT !.done = TRUE])
  BY <1>2 DEF WithFile
<1> QED
  BY <1>1, <1>3 DEF ServerFile

(* A file that is there may be done, one that prints only if it failed.     *)
LEMMA FireDoneKeeps ==
    ASSUME NEW r, NEW v, Keeps(r, v), NEW s \in Stream, v.server.file[s].kind # "none",
           v.server.file[s].kind = "print" =>
              s \in v.output.refused \/ "dead" \in v.server.flags
    PROVE  Keeps(r, FireDone(v, s))
<1>1. CASE v.server.file[s].done
  BY <1>1, FaultyKeeps DEF FireDone, Fault
<1>2. CASE ~v.server.file[s].done
  <2> DEFINE g == v.server.file[s]
             f == [g EXCEPT !.done = TRUE]
             u == FireDone(v, s)
  <2>1. u = WithFile(v, s, f) /\ f \in ServerFile
    BY <1>2, FireDoneFields DEF Keeps
  <2>2. g \in ServerFile
    BY DEF Keeps, Worlds, ServerType
  <2>3. f.kind = g.kind /\ f.own = g.own /\ f.left = g.left /\ f.closed = g.closed /\ f.done
    BY <2>2 DEF ServerFile
  <2>4. OneFile(v.server, u.server, s) /\ u.server.file[s] = f /\ u.output = v.output
    BY <2>1, WithFileFields DEF Keeps
  <2> HIDE DEF f, u
  <2>5. FileKept(At(r, v), s)
    BY DEF Keeps, Core
  <2>6. FileKept(At(r, u), s)
    <3>1. /\ At(r, v).server = v.server /\ At(r, u).server = u.server
          /\ At(r, v).output = v.output /\ At(r, u).output = u.output
      BY ONLY AtFields
    <3>2. u.server.flags = v.server.flags
      BY <2>4 DEF OneFile
    <3> QED
      BY <2>3, <2>4, <2>5, <3>1, <3>2, StillKept
  <2> QED
    BY <2>1, <2>3, <2>6, WithFileKeeps DEF u
<1> QED
  BY <1>1, <1>2

(* To append a message to what was sent is to append it to the queue.       *)
LEMMA AppendedLast ==
    ASSUME NEW S, NEW q \in Seq(S), NEW p \in Seq(S), NEW m \in S
    PROVE  q \o Append(p, m) = Append(q \o p, m)
  OBVIOUS

(* proc_send *)
LEMMA SendFields ==
    ASSUME NEW v \in Worlds, NEW m \in ToClient, NEW u, u = Send(v, m)
    PROVE  /\ u \in Worlds /\ u.server = v.server /\ u.output = v.output /\ u.fault = v.fault
           /\ "bad" \in v.server.flags => u = v
           /\ "bad" \notin v.server.flags => u.sent = Append(v.sent, m)
<1>1. Append(v.sent, m) \in Seq(ToClient)
  BY DEF Worlds
<1>2. CASE "bad" \in v.server.flags
  BY <1>2 DEF Send
<1>3. CASE "bad" \notin v.server.flags
  <2>1. u = [v EXCEPT !.sent = Append(v.sent, m)]
    BY <1>3 DEF Send
  <2> QED
    BY <1>1, <1>3, <2>1 DEF Worlds
<1> QED
  BY <1>2, <1>3

(* A message about a file may be sent when it may follow what is on its way.*)
LEMMA SendFileKeeps ==
    ASSUME NEW r, NEW v, Keeps(r, v), NEW m \in ToClient, m.stream \in Stream,
           "bad" \notin v.server.flags => MayFollow(At(r, v), m)
    PROVE  Keeps(r, Send(v, m))
<1> DEFINE u == Send(v, m)
           x == At(r, v)
           y == At(r, u)
<1>1. v \in Worlds /\ v.sent \in Seq(ToClient) /\ toClient \in Seq(ToClient) /\ Core(x)
  BY DEF Keeps, Worlds
<1>2. CASE "bad" \in v.server.flags
  BY <1>1, <1>2, SendFields
<1>3. CASE "bad" \notin v.server.flags
  <2>1. u \in Worlds /\ u.server = v.server /\ u.output = v.output /\ u.sent = Append(v.sent, m)
    BY <1>1, <1>3, SendFields
  <2> HIDE DEF u
  <2>2. toClient \o u.sent = Append(toClient \o v.sent, m)
    BY ONLY <1>1, <2>1, m \in ToClient, AppendedLast
  <2>3. Typed(y) /\ Beside(x, y)
    BY <2>1, AtTyped
  <2>4. Still(x, y) /\ y.toClient = Append(x.toClient, m)
    BY ONLY <2>1, <2>2, <2>3 DEF Still, At
  <2>5. MayFollow(x, m)
    BY <1>3
  <2> HIDE DEF x, y
  <2>6. Core(y)
    BY <1>1, <2>3, <2>4, <2>5, FileMessage
  <2> QED
    BY <1>1, <2>1, <2>6 DEF Keeps, u, y
<1> QED
  BY <1>2, <1>3

(* The data of file_push. *)
Flushed(v, s) == [v EXCEPT !.sent = @ \o Sent(v.server.file[s].left, s), !.server.file[s].left = 0]

(* All that is left of a file is sent.                                      *)
LEMMA FlushedFields ==
    ASSUME NEW v \in Worlds, NEW s \in Stream, NEW n, n = v.server.file[s].left, NEW u, u = Flushed(v, s)
    PROVE  /\ u \in Worlds /\ u.output = v.output /\ u.fault = v.fault
           /\ OneFile(v.server, u.server, s) /\ Emptied(u.server.file[s], v.server.file[s])
           /\ n \in Nat /\ Sent(n, s) \in Seq(ToClient) /\ u.sent = v.sent \o Sent(n, s)
<1> DEFINE g == v.server.file[s]
           f == [g EXCEPT !.left = 0]
           w == WithFile(v, s, f)
           d == Sent(n, s)
<1>1. v.sent \in Seq(ToClient) /\ g \in ServerFile
  BY DEF Worlds, ServerType
<1>2. n \in Nat /\ f \in ServerFile /\ Emptied(f, g)
  BY <1>1 DEF ServerFile, Emptied
<1>3. w \in Worlds /\ w.sent = v.sent /\ w.output = v.output /\ w.fault = v.fault
      /\ OneFile(v.server, w.server, s) /\ w.server.file[s] = f
  BY <1>2, WithFileFields
<1>4. u = [w EXCEPT !.sent = v.sent \o d]
  BY DEF Flushed, WithFile, Worlds
<1>5. d \in Seq(ToClient)
  <2>1. Msg("write", s, 0) \in ToClient
    BY DEF Msg, ToClient
  <2> QED
    BY <1>2, <2>1 DEF Sent
<1> HIDE DEF w, d, f
<1>6. v.sent \o d \in Seq(ToClient)
  BY ONLY <1>1, <1>5, ConcatProperties
<1>7. u \in Worlds /\ u.sent = v.sent \o d /\ u.output = w.output /\ u.fault = w.fault
      /\ u.server = w.server
  BY ONLY <1>3, <1>4, <1>6 DEF Worlds
<1> QED
  BY <1>2, <1>3, <1>5, <1>7 DEF d

(* ... which is right once the client has opened it or was asked to.        *)
LEMMA FlushedKeeps ==
    ASSUME NEW r, NEW v, Keeps(r, v), NEW s \in Stream, v.server.file[s].kind # "none",
           MayWrite(At(r, v), s)
    PROVE  Keeps(r, Flushed(v, s)) /\ MayWrite(At(r, Flushed(v, s)), s)
<1> DEFINE u == Flushed(v, s)
           x == At(r, v)
           y == At(r, u)
           n == v.server.file[s].left
           d == Sent(n, s)
           p == v.sent
<1>1. v \in Worlds /\ p \in Seq(ToClient) /\ toClient \in Seq(ToClient) /\ Core(x)
  BY DEF Keeps, Worlds
<1>2. /\ u \in Worlds /\ u.output = v.output
      /\ OneFile(v.server, u.server, s) /\ Emptied(u.server.file[s], v.server.file[s])
      /\ n \in Nat /\ d \in Seq(ToClient) /\ u.sent = p \o d
  BY ZenonT(60), <1>1, FlushedFields
<1>20. d \in Seq(ToClient) /\ u.sent = p \o d
  BY <1>2
<1>21. toClient \in Seq(ToClient) /\ p \in Seq(ToClient)
  BY <1>1
<1> HIDE DEF u, d, p
<1>3. (toClient \o p) \o d = toClient \o (p \o d)
  BY ONLY <1>20, <1>21, ConcatAssociative
<1>4. toClient \o u.sent = (toClient \o v.sent) \o Sent(n, s)
  BY ONLY <1>3, <1>20 DEF d, p
<1>5. Typed(y) /\ Beside(x, y)
  BY <1>2, Keeps(r, v), AtTyped
<1>6. /\ x.server = v.server /\ y.server = u.server /\ y.output = x.output
      /\ y.toClient = x.toClient \o Sent(n, s)
  BY ONLY <1>2, <1>4 DEF At
<1> HIDE DEF x, y
<1>7. Core(y) /\ MayWrite(y, s)
  BY <1>1, <1>2, <1>5, <1>6, DataSent DEF x
<1> QED
  BY <1>1, <1>2, <1>7 DEF Keeps, u, y

(* file_push *)
LEMMA PushKeeps ==
    ASSUME NEW r, NEW v, Keeps(r, v), NEW s \in Stream, v.server.file[s].kind # "none",
           MayWrite(At(r, v), s)
    PROVE  Keeps(r, Push(v, s))
<1> DEFINE w == Flushed(v, s)
           m == Msg("writeclose", s, 0)
           u == Send(w, m)
<1>1. /\ Keeps(r, w) /\ MayWrite(At(r, w), s)
      /\ w.server.file[s].kind = v.server.file[s].kind
  BY FlushedKeeps, FlushedFields DEF Emptied, Keeps
<1>2. Push(v, s) = IF s \in Printing THEN w ELSE FireDone(u, s)
  BY DEF Push, Flushed, Sent
<1>3. ASSUME s \notin Printing PROVE Keeps(r, FireDone(u, s))
  <2>1. m \in ToClient /\ m.stream = s /\ m.type = "writeclose"
    BY DEF Msg, ToClient
  <2> HIDE DEF w, m
  <2>2. At(r, w).server = w.server
    BY AtFields
  <2>3. s < w.server.next
    BY <1>1, <2>2 DEF Keeps, Core, FileKept
  <2>4. MayFollow(At(r, w), m)
    BY <1>1, <1>3, <2>1, <2>2, <2>3 DEF MayFollow, MayWrite, Opens
  <2>5. Keeps(r, u)
    BY <1>1, <2>1, <2>4, SendFileKeeps
  <2>6. u.server = w.server
    BY <1>1, <2>1, SendFields DEF Keeps
  <2>7. w.server.file[s].kind # "print"
    BY <1>1, <1>3, <2>2 DEF Keeps, Core, FileKept
  <2> QED
    BY <1>1, <2>5, <2>6, <2>7, FireDoneKeeps
<1> QED
  BY <1>1, <1>2, <1>3

CountedAs(v, s, f) == [v EXCEPT !.server.file[s] = f, !.output.printed[s] = @ + 1]

(* A chunk more is printed, in a file that becomes f.                       *)
LEMMA CountedFields ==
    ASSUME NEW v \in Worlds, NEW s \in Printing, NEW f \in ServerFile, NEW u, u = CountedAs(v, s, f)
    PROVE  /\ u \in Worlds /\ u.sent = v.sent /\ u.fault = v.fault
           /\ OneFile(v.server, u.server, s) /\ u.server.file[s] = f
           /\ u.output.refused = v.output.refused /\ u.output.promised = v.output.promised
           /\ u.output.written = v.output.written
           /\ u.output.printed[s] = v.output.printed[s] + 1
           /\ \A t \in Printing : t # s => u.output.printed[t] = v.output.printed[t]
<1> DEFINE w == WithFile(v, s, f)
           p == [v.output.printed EXCEPT ![s] = @ + 1]
<1>0. s \in Stream
  BY DEF Stream
<1>1. /\ w \in Worlds /\ w.sent = v.sent /\ w.output = v.output /\ w.fault = v.fault
      /\ OneFile(v.server, w.server, s) /\ w.server.file[s] = f
  BY <1>0, WithFileFields
<1>2. v.output \in OutputType
  BY DEF Worlds
<1>3. u = [w EXCEPT !.output = [v.output EXCEPT !.printed = p]]
  BY DEF CountedAs, WithFile, Worlds
<1>4. p \in [Printing -> Nat]
  BY <1>2 DEF OutputType
<1>5. [v.output EXCEPT !.printed = p] \in OutputType
  BY <1>2, <1>4 DEF OutputType
<1> HIDE DEF w
<1>6. /\ u \in Worlds /\ u.sent = w.sent /\ u.fault = w.fault /\ u.server = w.server
      /\ u.output = [v.output EXCEPT !.printed = p]
  BY ONLY <1>1, <1>3, <1>5 DEF Worlds
<1> QED
  BY <1>1, <1>2, <1>6 DEF OutputType

(* ... and what was printed is still somewhere.                             *)
LEMMA CountedKeeps ==
    ASSUME NEW r, NEW v, Keeps(r, v), NEW s \in Printing, NEW f \in ServerFile,
           NEW u, u = CountedAs(v, s, f),
           v.server.work # "idle", "dead" \notin v.server.flags,
           f.kind = "print", f.own, ~f.closed, f.left = v.server.file[s].left + 1,
           f.done <=> v.server.file[s].done, v.server.file[s].kind \in {"none", "print"},
           v.server.file[s].kind = "none" /\ Heard(At(r, v)) =>
               At(r, v).process.file[s].kind = "write" \/ Holds(At(r, v).toClient, "writeopen", s)
    PROVE  Keeps(r, u)
<1> DEFINE x == At(r, v)
           y == At(r, u)
<1>0. s \in Stream
  BY DEF Stream
<1>1. /\ u \in Worlds /\ u.sent = v.sent
      /\ OneFile(v.server, u.server, s) /\ u.server.file[s] = f
      /\ u.output.refused = v.output.refused /\ u.output.promised = v.output.promised
      /\ u.output.written = v.output.written
      /\ u.output.printed[s] = v.output.printed[s] + 1
      /\ \A t \in Printing : t # s => u.output.printed[t] = v.output.printed[t]
  BY CountedFields DEF Keeps
<1>2. Typed(y) /\ Beside(x, y) /\ Core(x)
  BY <1>1, AtTyped DEF Keeps
<1>3. /\ x.server = v.server /\ y.server = u.server /\ y.toClient = x.toClient
      /\ y.output = u.output /\ x.output = v.output
  BY ONLY <1>1 DEF At
<1>4. Heard(x) /\ v.server.file[s].kind = "none" =>
        x.process.file[s].kind = "write" \/ Holds(x.toClient, "writeopen", s)
  OBVIOUS
<1> HIDE DEF x, y
<1>5. FileKept(x, s) /\ x.server.next >= 3 /\ x.server.next \in Nat
  BY <1>0, <1>2, NextNumber DEF Core, Phases
<1>6. v.server.file[s].kind = "none" => ~v.server.file[s].done
  BY <1>3, <1>5 DEF FileKept, NoServerFile
<1>7. FileKept(y, s)
  <2>1. /\ y.server.flags = x.server.flags /\ y.server.next = x.server.next
        /\ y.server.file[s] = f /\ y.output.refused = x.output.refused
    BY ONLY <1>1, <1>3 DEF OneFile
  <2>2. s < x.server.next
    BY <1>5 DEF Printing
  <2>3. "dead" \notin x.server.flags
    BY <1>3
  <2>4. f.done => x.server.file[s].kind = "print" /\ x.server.file[s].done
    BY <1>3, <1>6
  <2>5. f.done => s \in y.output.refused
    BY ONLY <1>5, <2>1, <2>3, <2>4 DEF FileKept
  <2> QED
    BY ONLY <2>1, <2>2, <2>3, <2>5, s \in Printing, f.kind = "print", f.own, ~f.closed DEF FileKept
<1>8. Core(y)
  <2>1. OneFile(x.server, y.server, s)
    BY ONLY <1>1, <1>3
  <2>2. /\ x.server.work # "idle" /\ "dead" \notin x.server.flags
        /\ y.server.file[s].left = x.server.file[s].left + 1
        /\ x.server.file[s].kind \in {"none", "print"}
    BY <1>1, <1>3
  <2>3. x.server.file[s].kind = "none" /\ Heard(x) =>
           x.process.file[s].kind = "write" \/ Holds(x.toClient, "writeopen", s)
    BY ONLY <1>3, <1>4
  <2>4. /\ y.output.refused = x.output.refused /\ y.output.promised = x.output.promised
        /\ y.output.written = x.output.written /\ y.output.printed[s] = x.output.printed[s] + 1
        /\ \A t \in Printing : t # s => y.output.printed[t] = x.output.printed[t]
    BY ONLY <1>1, <1>3
  <2>5. y.toClient = x.toClient
    BY ONLY <1>3
  <2> QED
    BY ONLY <1>2, <1>7, <2>1, <2>2, <2>3, <2>4, <2>5, s \in Printing, Counted
<1> QED
  BY <1>1, <1>8 DEF Keeps, y

(* file_print and file_error *)
LEMMA PrintedKeeps ==
    ASSUME NEW r, NEW v, Keeps(r, v), NEW s \in Printing,
           v.server.work # "idle", "dead" \notin v.server.flags
    PROVE  Keeps(r, Printed(v, s))
<1> DEFINE g == v.server.file[s]
           x == At(r, v)
<1>0. s \in Stream /\ s \in Descriptor /\ s < 3 /\ s \in Nat
  BY DEF Stream, Printing, Descriptor
<1>1. v \in Worlds /\ v.server \in ServerType /\ v.output \in OutputType /\ g \in ServerFile /\ Core(x)
  BY <1>0 DEF Keeps, Worlds, ServerType
<1>2. x.server = v.server
  BY AtFields
<1>3. FileKept(x, s) /\ Known(x, s) /\ x.server.next >= 3 /\ x.server.next \in Nat
  BY <1>0, <1>1, NextNumber DEF Core, Phases
<1>4. CASE ~CanPrint(v)
  BY <1>4 DEF Printed
<1>5. CASE CanPrint(v) /\ g.kind = "none"
  <2> DEFINE f == [NoServerFile EXCEPT !.kind = "print", !.own = TRUE, !.left = 1]
             m == Msg("writeopen", s, s)
             w == Send(v, m)
             u == CountedAs(w, s, f)
  <2>1. m \in ToClient /\ m.stream = s /\ m.type = "writeopen"
    BY <1>0 DEF Msg, ToClient
  <2>2. f \in ServerFile /\ f.kind = "print" /\ f.own /\ ~f.closed /\ f.left = 1 /\ ~f.done
    BY DEF NoServerFile, ServerFile, Kind
  <2>3. MayFollow(x, m)
    BY <1>0, <1>3, <2>1 DEF MayFollow
  <2> HIDE DEF m
  <2>4. Keeps(r, w)
    BY <1>0, <2>1, <2>3, SendFileKeeps
  <2>5. "bad" \notin v.server.flags
    BY <1>1, <1>2 DEF Core, Phases
  <2>6. /\ w \in Worlds /\ w.server = v.server /\ w.output = v.output /\ w.fault = v.fault
        /\ w.sent = Append(v.sent, m)
    BY <1>1, <2>1, <2>5, SendFields
  <2>7. Printed(v, s) = u
    <3> DEFINE c == CountedAs(v, s, f)
    <3>1. Printed(v, s) = Send(c, m)
      BY <1>5 DEF Printed, CountedAs, WithFile, m
    <3>2. c.server.flags = v.server.flags
      BY <1>1, <2>2, CountedFields DEF OneFile
    <3>3. Send(c, m) = [c EXCEPT !.sent = Append(@, m)]
      BY <2>5, <3>2 DEF Send
    <3>4. w = [v EXCEPT !.sent = Append(@, m)]
      BY <2>5 DEF Send
    <3>5. Send(c, m) = CountedAs(w, s, f)
      BY ZenonT(60), <1>1, <3>3, <3>4 DEF CountedAs, Worlds
    <3> QED
      BY <3>1, <3>5
  <2>8. g = NoServerFile
    BY <1>2, <1>3, <1>5 DEF FileKept
  <2>9. g.left = 0 /\ ~g.done
    BY <2>8 DEF NoServerFile
  <2>10. Holds(At(r, w).toClient, "writeopen", s)
    <3> DEFINE q == toClient \o v.sent
    <3>1. q \in Seq(ToClient) /\ v.sent \in Seq(ToClient) /\ toClient \in Seq(ToClient)
      BY <1>1 DEF Keeps, Core, Typed, At, Worlds
    <3>2. toClient \o w.sent = Append(q, m)
      BY ONLY <2>1, <2>6, <3>1, AppendedLast
    <3> HIDE DEF q
    <3>3. Len(q) + 1 \in DOMAIN Append(q, m) /\ Append(q, m)[Len(q) + 1] = m
      BY <2>1, <3>1
    <3>4. At(r, w).toClient = Append(q, m)
      BY ONLY <3>2 DEF At
    <3> QED
      BY ONLY <2>1, <3>3, <3>4 DEF Holds
  <2> HIDE DEF f, w
  <2>11. Keeps(r, u)
    <3>1. /\ w.server.work # "idle" /\ "dead" \notin w.server.flags
          /\ f.left = w.server.file[s].left + 1 /\ (f.done <=> w.server.file[s].done)
          /\ w.server.file[s].kind = "none"
      BY <1>5, <2>2, <2>6, <2>9
    <3>2. w.server.file[s].kind = "none" /\ Heard(At(r, w)) =>
            At(r, w).process.file[s].kind = "write" \/ Holds(At(r, w).toClient, "writeopen", s)
      BY <2>10
    <3> QED
      BY ONLY <2>2, <2>4, <3>1, <3>2, s \in Printing, CountedKeeps
  <2> QED
    BY <2>7, <2>11
<1>6. CASE CanPrint(v) /\ g.kind # "none"
  <2> DEFINE f == [g EXCEPT !.left = @ + 1]
             u == CountedAs(v, s, f)
  <2>1. f \in ServerFile /\ f.kind = g.kind /\ f.own = g.own /\ f.closed = g.closed
        /\ f.left = g.left + 1 /\ f.done = g.done
    BY <1>1 DEF ServerFile
  <2>2. g.kind = "print" /\ g.own /\ ~g.closed
    BY <1>0, <1>2, <1>3, <1>6 DEF FileKept
  <2>3. Printed(v, s) = Push(u, s)
    <3>1. u = [[v EXCEPT !.output.printed[s] = @ + 1] EXCEPT !.server.file[s].left = @ + 1]
      BY <1>1 DEF CountedAs, Worlds, ServerType
    <3> QED
      BY <1>6, <3>1 DEF Printed
  <2> HIDE DEF f
  <2>4. Keeps(r, u)
    <3>1. f.kind = "print" /\ f.own /\ ~f.closed /\ f.left = v.server.file[s].left + 1
          /\ (f.done <=> v.server.file[s].done) /\ v.server.file[s].kind = "print"
      BY <2>1, <2>2
    <3>2. v.server.file[s].kind = "none" /\ Heard(At(r, v)) =>
            At(r, v).process.file[s].kind = "write" \/ Holds(At(r, v).toClient, "writeopen", s)
      BY <3>1
    <3>3. f \in ServerFile
      BY <2>1
    <3> QED
      BY ONLY <3>1, <3>2, <3>3, Keeps(r, v), s \in Printing, v.server.work # "idle",
              "dead" \notin v.server.flags, CountedKeeps
  <2>5. u.server.file[s].kind = "print" /\ u.server.flags = v.server.flags
    BY <1>1, <2>1, <2>2, CountedFields DEF OneFile
  <2> HIDE DEF u
  <2>6. At(r, u).server = u.server
    BY AtFields
  <2>7. MayWrite(At(r, u), s)
    BY <1>0, <2>4, <2>5, <2>6 DEF MayWrite, Keeps, Core, Known, Ordered, Heard
  <2>8. Keeps(r, Push(u, s))
    BY <1>0, <2>4, <2>5, <2>7, PushKeeps
  <2> QED
    BY <2>3, <2>8
<1> QED
  BY <1>4, <1>5, <1>6

FirstMessage(r) == \E k \in DOMAIN r : r[k].type \in {"command", "shell"}

(* What the server does changes, no file and no message. *)
PlainChange(v, u, r) ==
    /\ u.sent = v.sent /\ u.output = v.output
    /\ u.server.file = v.server.file /\ u.server.next = v.server.next
    /\ v.server.flags \subseteq u.server.flags \cup {"suspended"}
    /\ "dead" \in u.server.flags => "dead" \in v.server.flags
    /\ u.server.session \/ "suspended" \in u.server.flags => "attached" \in u.server.flags
    /\ "bad" \in u.server.flags => u.server.work = "idle"
    /\ u.server.batch <= Len(r) /\ ("dead" \in u.server.flags => u.server.batch = 0)
    /\ u.server.work = "idle" => v.server.work = "idle"
    /\ \/ v.server.work # "idle"
       \/ u.server.work = v.server.work /\ ("bad" \in u.server.flags => "bad" \in v.server.flags)
       \/ ~FirstMessage(r)

(* A change that leaves files and messages alone keeps the invariant.       *)
LEMMA PlainKeeps ==
    ASSUME NEW r, NEW v, Keeps(r, v), NEW u \in Worlds, PlainChange(v, u, r)
    PROVE  Keeps(r, u)
<1> DEFINE x == At(r, v)
           y == At(r, u)
<1>1. Typed(y) /\ Beside(x, y) /\ Core(x)
  BY AtTyped DEF Keeps
<1>2. /\ x.server = v.server /\ y.server = u.server /\ y.toClient = x.toClient
      /\ y.output = x.output /\ x.toServer = r
  BY ONLY PlainChange(v, u, r) DEF PlainChange, At
<1> HIDE DEF x, y
<1>3. Extends(y.toClient, x.toClient, 0) /\ Without(y.toServer, x.toServer, 0)
  BY <1>1, <1>2, ExtendsNothing DEF Core, Typed, Beside
<1>4. x.server.next \in Nat
  BY <1>1, NextNumber DEF Core
<1>5. Serves(x, y, 0)
  BY <1>1, <1>2, <1>3, <1>4 DEF Serves, Beside, PlainChange
<1>6. Quietly(x, y)
  BY <1>2, <1>3 DEF Quietly, Extends
<1>7. Phases(y)
  <2>1. Phases(x)
    BY <1>1 DEF Core
  <2>2. ASSUME NEW k \in DOMAIN r, r[k].type \in {"command", "shell"}
        PROVE  k = 1 /\ u.server.work = "idle" /\ "bad" \notin u.server.flags
    <3>1. k = 1 /\ v.server.work = "idle" /\ "bad" \notin v.server.flags
      BY <1>2, <2>1, <2>2 DEF Phases
    <3> QED
      BY <2>2, <3>1 DEF PlainChange, FirstMessage
  <2> QED
    BY <1>1, <1>2, <2>1, <2>2 DEF Phases, Beside, PlainChange
<1>8. Leaving(y)
  BY <1>1, <1>2 DEF Core, Leaving, Beside, PlainChange
<1>9. Core(y)
  BY <1>1, <1>5, <1>6, <1>7, <1>8, PlainStep
<1> QED
  BY <1>9 DEF Keeps, y

(* A message that is about no file. *)
LEMMA PlainMessageKeeps ==
    ASSUME NEW r, NEW v, Keeps(r, v),
           NEW type \in {"ready", "exec", "suspend", "lock", "exited", "doshell"},
           type = "ready" => "attached" \in v.server.flags
    PROVE  Keeps(r, Send(v, Plain(type)))
<1> DEFINE m == Plain(type)
           u == Send(v, m)
           x == At(r, v)
           y == At(r, u)
           q == toClient \o v.sent
<1>0. m \in ToClient /\ m.stream = 0 /\ m.type = type
  BY DEF Plain, Msg, ToClient
<1> HIDE DEF m
<1>1. v \in Worlds /\ v.sent \in Seq(ToClient) /\ toClient \in Seq(ToClient) /\ Core(x)
  BY DEF Keeps, Worlds
<1>2. CASE "bad" \in v.server.flags
  BY <1>0, <1>1, <1>2, SendFields DEF m
<1>3. CASE "bad" \notin v.server.flags
  <2>1. u \in Worlds /\ u.server = v.server /\ u.output = v.output /\ u.sent = Append(v.sent, m)
    BY <1>0, <1>1, <1>3, SendFields
  <2> HIDE DEF u
  <2>2. q \in Seq(ToClient)
    BY ONLY <1>1, ConcatProperties
  <2>3. toClient \o u.sent = Append(q, m)
    BY ONLY <1>0, <1>1, <2>1, AppendedLast
  <2>4. Typed(y) /\ Beside(x, y)
    BY <2>1, AtTyped
  <2>5. /\ x.server = v.server /\ y.server = x.server /\ y.output = x.output
        /\ x.toClient = q /\ y.toClient = Append(q, m)
    BY ONLY <2>1, <2>3 DEF At
  <2> HIDE DEF x, y, q
  <2>6. Extends(y.toClient, x.toClient, 0)
    BY <1>0, <2>2, <2>5, ExtendsOne
  <2>7. Without(y.toServer, x.toServer, 0)
    BY <1>1, <2>4, ExtendsNothing DEF Core, Typed, Beside
  <2>8. x.server.next \in Nat
    BY <1>1, NextNumber DEF Core
  <2>9. Serves(x, y, 0)
    BY <2>4, <2>5, <2>6, <2>7, <2>8 DEF Serves, Beside
  <2>10. \A k \in DOMAIN y.toClient :
           \/ k \in DOMAIN x.toClient /\ y.toClient[k] = x.toClient[k]
           \/ k = Len(q) + 1 /\ y.toClient[k] = m
    <3>1. DOMAIN Append(q, m) = 1 .. Len(q) + 1 /\ DOMAIN q = 1 .. Len(q) /\ Len(q) \in Nat
          /\ (\A k \in 1 .. Len(q) : Append(q, m)[k] = q[k]) /\ Append(q, m)[Len(q) + 1] = m
      BY ONLY <1>0, <2>2, Appended
    <3> QED
      BY <2>5, <3>1
  <2>11. Quietly(x, y)
    <3>1. \A k \in DOMAIN x.toClient : k \in 1 .. Len(x.toClient)
      BY <1>1 DEF Core, Typed
    <3>2. \A k \in Len(x.toClient) + 1 .. Len(y.toClient) : k \in DOMAIN y.toClient /\ k \notin DOMAIN x.toClient
      BY <2>6, <3>1 DEF Extends
    <3> QED
      BY <1>0, <2>10, <3>2 DEF Quietly
  <2>12. \A t, s : Holds(y.toClient, t, s) => Holds(x.toClient, t, s) \/ (t = type /\ s = 0)
    BY <1>0, <2>10 DEF Holds
  <2>13. \A s \in Stream : s # 0
    BY ClientServerAssumption DEF Stream, Printing
  <2>14. \A s \in Stream : Holds(y.toClient, "readcancel", s) => Holds(x.toClient, "readcancel", s)
    BY <2>12, <2>13
  <2>15. Holds(y.toClient, "ready", 0) => "attached" \in x.server.flags
    BY <1>1, <2>5, <2>12 DEF Core, Phases
  <2>16. Phases(y)
    BY <1>1, <2>4, <2>5, <2>14, <2>15 DEF Core, Phases, Beside
  <2>17. Leaving(y)
    BY <1>1, <2>4, <2>5, <2>12 DEF Core, Leaving, Beside
  <2>18. Core(y)
    BY <1>1, <2>4, <2>9, <2>11, <2>16, <2>17, PlainStep
  <2> QED
    BY <1>1, <2>1, <2>18 DEF Keeps, u, y, m
<1> QED
  BY <1>2, <1>3

(* Of the server nothing but the file s is another, which is of the same    *)
(* kind and done if it was.                                                 *)
Worked(v, u, s) ==
    /\ u \in Worlds /\ OneFile(v.server, u.server, s)
    /\ u.server.file[s].kind = v.server.file[s].kind
    /\ v.server.file[s].done => u.server.file[s].done

(* The files of the world are files.                                        *)
LEMMA WorldFile ==
    ASSUME NEW v \in Worlds, NEW s \in Stream
    PROVE  /\ v.server.file[s] \in ServerFile /\ v.server.flags \subseteq Flag
           /\ v.server.file \in [Stream -> ServerFile]
  BY DEF Worlds, ServerType

(* What the world knows of its streams. *)
LEMMA WorldKept ==
    ASSUME NEW r, NEW v, Keeps(r, v), NEW s \in Stream
    PROVE  LET f == v.server.file[s] IN
           /\ f.kind = "none" => f = NoServerFile
           /\ f.kind # "none" => s < v.server.next
           /\ s \in Printing => f.kind \in {"none", "print"}
           /\ f.kind = "print" => s \in Printing /\ f.own
           /\ f.kind # "none" /\ ~f.own => f.done /\ "attached" \in v.server.flags
           /\ f.kind # "none" /\ "dead" \in v.server.flags => f.done
           /\ f.closed => f.kind = "input"
           /\ f.kind = "print" /\ f.done /\ "dead" \notin v.server.flags => s \in v.output.refused
           /\ f.kind # "none" => v.server.work # "idle" /\ "bad" \notin v.server.flags
<1>1. At(r, v).server = v.server /\ At(r, v).output = v.output
  BY AtFields
<1>2. FileKept(At(r, v), s) /\ Phases(At(r, v))
  BY DEF Keeps, Core
<1> QED
  BY <1>1, <1>2 DEF FileKept, Phases

(* What the world knows of its phases.                                      *)
LEMMA WorldPhases ==
    ASSUME NEW r, NEW v, Keeps(r, v)
    PROVE  /\ v.server.session \/ "suspended" \in v.server.flags => "attached" \in v.server.flags
           /\ "bad" \in v.server.flags => v.server.work = "idle"
           /\ "dead" \in v.server.flags => v.server.batch = 0
           /\ v.server.batch <= Len(r)
           /\ v.server \in ServerType /\ v.server.next >= 3 /\ v.server.next \in Nat
<1>1. At(r, v).server = v.server /\ At(r, v).toServer = r
  BY AtFields
<1>2. Typed(At(r, v)) /\ Phases(At(r, v))
  BY DEF Keeps, Core
<1>3. v.server.next \in Nat
  BY <1>1, <1>2, NextNumber
<1> QED
  BY <1>1, <1>2, <1>3 DEF Phases, Typed

(* A file that is done is of the kind it was.                               *)
LEMMA FireDoneWorked ==
    ASSUME NEW v \in Worlds, NEW s \in Stream
    PROVE  Worked(v, FireDone(v, s), s) /\ FireDone(v, s).server.file[s].done
           /\ FireDone(v, s).output = v.output
<1>1. CASE v.server.file[s].done
  <2>1. FireDone(v, s).server = v.server /\ FireDone(v, s).output = v.output /\ FireDone(v, s) \in Worlds
    BY <1>1, FaultyFields DEF FireDone, Fault
  <2> QED
    BY <1>1, <2>1 DEF Worked, OneFile
<1>2. CASE ~v.server.file[s].done
  <2> DEFINE g == v.server.file[s]
             f == [g EXCEPT !.done = TRUE]
  <2>1. f \in ServerFile /\ FireDone(v, s) = WithFile(v, s, f)
    BY <1>2, FireDoneFields
  <2>2. f.kind = g.kind /\ f.done
    BY WorldFile DEF ServerFile
  <2> HIDE DEF f
  <2> QED
    BY <2>1, <2>2, WithFileFields DEF Worked
<1> QED
  BY <1>1, <1>2

(* Two steps for the same file are one.                                     *)
LEMMA WorkedOn ==
    ASSUME NEW v, NEW u, NEW w, NEW s, Worked(v, u, s), Worked(u, w, s)
    PROVE  Worked(v, w, s)
  BY DEF Worked, OneFile

(* A message that is sent changes no file.                                  *)
LEMMA SentWorked ==
    ASSUME NEW v \in Worlds, NEW m \in ToClient, NEW s
    PROVE  Worked(v, Send(v, m), s) /\ Send(v, m).output = v.output
<1>1. Send(v, m) \in Worlds /\ Send(v, m).server = v.server /\ Send(v, m).output = v.output
  BY SendFields
<1> QED
  BY <1>1 DEF Worked, OneFile

(* A file of a command that is pushed is done.                              *)
LEMMA PushWorked ==
    ASSUME NEW v \in Worlds, NEW s \in Stream
    PROVE  /\ Worked(v, Push(v, s), s) /\ Push(v, s).output = v.output
           /\ s \notin Printing => Push(v, s).server.file[s].done
<1> DEFINE w == Flushed(v, s)
           m == Msg("writeclose", s, 0)
           u == Send(w, m)
<1>1. w \in Worlds /\ Worked(v, w, s) /\ w.output = v.output
  BY FlushedFields DEF Emptied, Worked
<1>2. Push(v, s) = IF s \in Printing THEN w ELSE FireDone(u, s)
  BY DEF Push, Flushed, Sent
<1>3. m \in ToClient
  BY DEF Msg, ToClient
<1> HIDE DEF w, m
<1>4. Worked(w, u, s) /\ u \in Worlds /\ u.output = w.output
  BY <1>1, <1>3, SentWorked DEF Worked
<1>5. Worked(u, FireDone(u, s), s) /\ FireDone(u, s).server.file[s].done
      /\ FireDone(u, s).output = u.output
  BY <1>4, FireDoneWorked
<1>6. Worked(v, FireDone(u, s), s)
  BY <1>1, <1>4, <1>5, WorkedOn
<1> QED
  BY <1>1, <1>2, <1>4, <1>5, <1>6

(* file_cancel *)
LEMMA CancelKeeps ==
    ASSUME NEW r, NEW v, Keeps(r, v), NEW s \in Stream, v.server.file[s].kind = "input",
           v.server.file[s].closed \/ (~pane /\ "exit" \in v.server.flags)
    PROVE  Keeps(r, Cancel(v, s)) /\ Worked(v, Cancel(v, s), s) /\ Cancel(v, s).output = v.output
<1>1. CASE v.server.file[s].closed
  BY <1>1 DEF Cancel, Worked, OneFile, Keeps
<1>2. CASE ~v.server.file[s].closed
  <2> DEFINE g == v.server.file[s]
             f == [g EXCEPT !.closed = TRUE]
             w == WithFile(v, s, f)
             m == Msg("readcancel", s, 0)
  <2>1. v \in Worlds /\ g \in ServerFile
    BY WorldFile DEF Keeps
  <2>2. f \in ServerFile /\ f.kind = g.kind /\ f.own = g.own /\ f.left = g.left /\ f.done = g.done
    BY <2>1 DEF ServerFile
  <2>3. Cancel(v, s) = Send(w, m)
    BY <1>2 DEF Cancel, WithFile
  <2>4. m \in ToClient /\ m.stream = s /\ m.type = "readcancel"
    BY DEF Msg, ToClient
  <2> HIDE DEF f, m
  <2>5. w \in Worlds /\ OneFile(v.server, w.server, s) /\ w.server.file[s] = f /\ w.output = v.output
    BY <2>1, <2>2, WithFileFields
  <2>6. FileKept(At(r, v), s)
    BY DEF Keeps, Core
  <2>7. FileKept(At(r, w), s)
    <3>1. /\ At(r, v).server = v.server /\ At(r, w).server = w.server
          /\ At(r, v).output = v.output /\ At(r, w).output = w.output
      BY ONLY AtFields
    <3>2. g.kind = "input"
      OBVIOUS
    <3> QED
      BY ONLY <2>2, <2>5, <2>6, <3>1, <3>2, StillKept
  <2>8. s \notin Printing
    BY WorldKept
  <2>9. Keeps(r, w)
    BY <2>2, <2>7, <2>8, WithFileKeeps
  <2> HIDE DEF w
  <2>10. At(r, w).server = w.server /\ At(r, w).pane = pane
    BY AtFields
  <2>11. s < w.server.next /\ "exit" \in w.server.flags
    BY <1>2, <2>2, <2>5, <2>9, WorldKept DEF OneFile
  <2>12. ~Heard(At(r, w))
    BY <1>2, <2>10, <2>11 DEF Heard
  <2>13. MayFollow(At(r, w), m)
    BY <1>2, <2>2, <2>4, <2>5, <2>8, <2>10, <2>11, <2>12 DEF MayFollow
  <2>14. Keeps(r, Send(w, m))
    BY <2>4, <2>9, <2>13, SendFileKeeps
  <2>15. Worked(v, w, s)
    BY <2>2, <2>5 DEF Worked
  <2>16. Worked(w, Send(w, m), s) /\ Send(w, m).output = w.output
    BY <2>4, <2>5, SentWorked
  <2> QED
    BY <2>3, <2>5, <2>14, <2>15, <2>16, WorkedOn
<1> QED
  BY <1>1, <1>2

(* A step inside the server: no file of a command is forgotten, and the     *)
(* client may be told to exit.                                              *)
Onward(v, u) ==
    /\ u \in Worlds
    /\ v.server.flags \subseteq u.server.flags /\ u.server.flags \subseteq v.server.flags \cup {"exit"}
    /\ u.server.next = v.server.next /\ u.server.batch = v.server.batch
    /\ u.server.work \in {v.server.work, "running"}
    /\ \A t \in Stream : t \notin Printing =>
          /\ u.server.file[t].kind = v.server.file[t].kind
          /\ v.server.file[t].done => u.server.file[t].done

(* Two steps inside the server are one.                                     *)
LEMMA OnwardTwice ==
    ASSUME NEW v, NEW u, NEW w, Onward(v, u), Onward(u, w)
    PROVE  Onward(v, w)
  BY DEF Onward

(* Nothing is a step inside the server.                                     *)
LEMMA OnwardNone ==
    ASSUME NEW v \in Worlds
    PROVE  Onward(v, v)
  BY DEF Onward

(* A step for one file is a step inside the server.                         *)
LEMMA OnwardFile ==
    ASSUME NEW v, NEW u, NEW s, Worked(v, u, s)
    PROVE  Onward(v, u)
  BY DEF Onward, Worked, OneFile

(* So is printing, and the queue of the client goes on as it was.           *)
LEMMA PrintedOnward ==
    ASSUME NEW r, NEW v, Keeps(r, v), NEW s \in Printing,
           v.server.work # "idle", "dead" \notin v.server.flags
    PROVE  Onward(v, Printed(v, s)) /\ Printed(v, s).server.work = v.server.work
<1> DEFINE g == v.server.file[s]
           u == Printed(v, s)
<1>0. s \in Stream /\ s \in Descriptor
  BY DEF Stream, Printing, Descriptor
<1>1. v \in Worlds /\ g \in ServerFile
  BY <1>0, WorldFile DEF Keeps
<1>2. u \in Worlds /\ OneFile(v.server, u.server, s)
  <2>1. CASE ~CanPrint(v)
    BY <1>1, <2>1 DEF Printed, OneFile
  <2>2. CASE CanPrint(v) /\ g.kind = "none"
    <3> DEFINE f == [NoServerFile EXCEPT !.kind = "print", !.own = TRUE, !.left = 1]
               m == Msg("writeopen", s, s)
               c == CountedAs(v, s, f)
    <3>1. m \in ToClient
      BY <1>0 DEF Msg, ToClient
    <3>2. f \in ServerFile
      BY DEF NoServerFile, ServerFile, Kind
    <3>3. u = Send(c, m)
      BY <2>2 DEF Printed, CountedAs, WithFile
    <3> HIDE DEF m, f, u
    <3>4. c \in Worlds /\ OneFile(v.server, c.server, s)
      BY <1>1, <3>2, CountedFields
    <3> HIDE DEF c
    <3>5. Send(c, m) \in Worlds /\ Send(c, m).server = c.server
      BY <3>1, <3>4, SendFields
    <3> QED
      BY <3>3, <3>4, <3>5
  <2>3. CASE CanPrint(v) /\ g.kind # "none"
    <3> DEFINE f == [g EXCEPT !.left = @ + 1]
               c == CountedAs(v, s, f)
               w == Flushed(c, s)
    <3>1. f \in ServerFile
      BY <1>1 DEF ServerFile
    <3>2. u = w
      <4>1. c = [[v EXCEPT !.output.printed[s] = @ + 1] EXCEPT !.server.file[s].left = @ + 1]
        BY <1>1 DEF CountedAs, Worlds, ServerType
      <4>2. Printed(v, s) = Push(c, s)
        BY <2>3, <4>1 DEF Printed
      <4> HIDE DEF c
      <4>3. Push(c, s) = Flushed(c, s)
        BY DEF Push, Flushed, Sent
      <4> QED
        BY ONLY <4>2, <4>3
    <3>3. c \in Worlds /\ OneFile(v.server, c.server, s)
      BY <1>1, <3>1, CountedFields
    <3> HIDE DEF c
    <3>4. w \in Worlds /\ OneFile(c.server, w.server, s)
      BY <1>0, <3>3, FlushedFields
    <3> QED
      BY <3>2, <3>3, <3>4 DEF OneFile
  <2> QED
    BY <2>1, <2>2, <2>3
<1> QED
  BY <1>2 DEF Onward, OneFile

(* What the queue of the client does now. *)
LEMMA WorkKeeps ==
    ASSUME NEW r, NEW v, Keeps(r, v), v.server.work # "idle",
           NEW work \in {"running", "waiting", "done"}, NEW u, u = [v EXCEPT !.server.work = work]
    PROVE  /\ Keeps(r, u) /\ u.server.work = work /\ u.server.file = v.server.file
           /\ u.server.flags = v.server.flags /\ u.sent = v.sent
           /\ work = "running" => Onward(v, u)
<1> DEFINE srv == [v.server EXCEPT !.work = work]
<1>1. v \in Worlds /\ v.server \in ServerType
  BY DEF Keeps, Worlds
<1>2. srv \in ServerType /\ srv.work = work /\ srv.file = v.server.file
      /\ srv.flags = v.server.flags /\ srv.next = v.server.next
      /\ srv.batch = v.server.batch /\ srv.session = v.server.session
  BY <1>1 DEF ServerType
<1>3. u = [v EXCEPT !.server = srv]
  OBVIOUS
<1> HIDE DEF srv
<1>4. u \in Worlds /\ u.sent = v.sent /\ u.output = v.output /\ u.server = srv
  BY ONLY <1>1, <1>2, <1>3 DEF Worlds
<1>5. work # "idle"
  OBVIOUS
<1>6. PlainChange(v, u, r)
  BY ONLY <1>2, <1>4, <1>5, Keeps(r, v), v.server.work # "idle", WorldPhases DEF PlainChange
<1>7. Keeps(r, u)
  BY ONLY <1>4, <1>6, Keeps(r, v), PlainKeeps
<1>8. work = "running" => Onward(v, u)
  BY ONLY <1>2, <1>4 DEF Onward
<1> QED
  BY ONLY <1>2, <1>4, <1>7, <1>8

(* cmdq_continue *)
LEMMA ContinueKeeps ==
    ASSUME NEW r, NEW v, Keeps(r, v), v.server.work # "idle", NEW error \in BOOLEAN,
           error => "dead" \notin v.server.flags \/ ~CanPrint(v)
    PROVE  LET u == Continue(v, error)
           IN /\ Keeps(r, u) /\ Onward(v, u) /\ u.server.work = "running"
              /\ ~error => u.server.file = v.server.file
<1> DEFINE p == IF error THEN Printed(v, 2) ELSE v
           u == Continue(v, error)
<1>1. u = [p EXCEPT !.server.work = "running"]
  BY DEF Continue
<1>2. Keeps(r, p) /\ Onward(v, p) /\ p.server.work # "idle"
  <2>1. CASE ~error
    BY <2>1, OnwardNone DEF Keeps
  <2>2. CASE error /\ ~CanPrint(v)
    BY <2>2, OnwardNone DEF Keeps, Printed
  <2>3. CASE error /\ "dead" \notin v.server.flags
    BY <2>3, PrintedKeeps, PrintedOnward DEF Printing
  <2> QED
    BY <2>1, <2>2, <2>3
<1>3. ~error => p = v
  OBVIOUS
<1> HIDE DEF p, u
<1>4. Keeps(r, u) /\ Onward(p, u) /\ u.server.work = "running" /\ u.server.file = p.server.file
  <2> DEFINE work == "running"
  <2>1. work \in {"running", "waiting", "done"} /\ u = [p EXCEPT !.server.work = work]
    BY <1>1
  <2> HIDE DEF work
  <2>2. Keeps(r, u) /\ u.server.work = work /\ u.server.file = p.server.file
        /\ (work = "running" => Onward(p, u))
    BY ONLY <1>2, <2>1, WorkKeeps
  <2> QED
    BY <2>2 DEF work
<1> QED
  BY <1>2, <1>3, <1>4, OnwardTwice DEF u

(* A flag that only adds to what the client is told. *)
LEMMA ExitFlagKeeps ==
    ASSUME NEW r, NEW v, Keeps(r, v)
    PROVE  LET u == [v EXCEPT !.server.flags = @ \cup {"exit"}]
           IN /\ Keeps(r, u) /\ Onward(v, u) /\ u.server.work = v.server.work
              /\ u.server.file = v.server.file /\ u.server.flags = v.server.flags \cup {"exit"}
<1> DEFINE u == [v EXCEPT !.server.flags = @ \cup {"exit"}]
<1>1. v \in Worlds /\ v.server \in ServerType
  BY DEF Keeps, Worlds
<1>2. [v.server EXCEPT !.flags = @ \cup {"exit"}] \in ServerType
  BY <1>1 DEF ServerType, Flag
<1>3. u = [v EXCEPT !.server = [v.server EXCEPT !.flags = @ \cup {"exit"}]]
  OBVIOUS
<1>4. u \in Worlds /\ u.sent = v.sent /\ u.output = v.output
      /\ u.server = [v.server EXCEPT !.flags = @ \cup {"exit"}]
  BY ONLY <1>1, <1>2, <1>3 DEF Worlds
<1> HIDE DEF u
<1>5. /\ u.server.work = v.server.work /\ u.server.file = v.server.file
      /\ u.server.flags = v.server.flags \cup {"exit"} /\ u.server.next = v.server.next
      /\ u.server.batch = v.server.batch /\ u.server.session = v.server.session
  BY ONLY <1>1, <1>4 DEF ServerType
<1>6. PlainChange(v, u, r)
  BY <1>4, <1>5, WorldPhases DEF PlainChange
<1>7. Keeps(r, u)
  BY <1>4, <1>6, PlainKeeps
<1>8. Onward(v, u)
  BY <1>4, <1>5 DEF Onward
<1> QED
  BY <1>5, <1>7, <1>8 DEF u

(* window_pane_input_callback: when nothing more comes the command goes on, *)
(* or is told with its client to go.                                        *)
LEMMA PaneInputKeeps ==
    ASSUME NEW r, NEW v, Keeps(r, v), NEW s \in Stream, NEW closed \in BOOLEAN,
           v.server.file[s].kind = "input",
           "dead" \in v.server.flags => v.server.file[s].closed \/ ~CanPrint(v)
    PROVE  LET u == PaneInput(v, s, closed)
           IN /\ Keeps(r, u) /\ Onward(v, u) /\ u.server.file[s].kind = "input"
              /\ closed => \/ u.server.work = "running" \/ "dead" \in u.server.flags
                           \/ ~pane /\ "exit" \in u.server.flags
<1> DEFINE g == v.server.file[s]
           u == PaneInput(v, s, closed)
           lost == ~pane \/ "dead" \in v.server.flags
<1>0. v.server.work # "idle" /\ g \in ServerFile
  BY WorldKept, WorldFile DEF Keeps
<1>1. CASE CanPrint(v) /\ lost
  <2> DEFINE t == [v EXCEPT !.server.flags = @ \cup {"exit"}]
             w == IF pane THEN v ELSE t
  <2>1. u = Cancel(w, s)
    BY <1>1 DEF PaneInput
  <2>2. Keeps(r, w) /\ Onward(v, w) /\ w.server.file = v.server.file
        /\ (~pane => "exit" \in w.server.flags) /\ (pane => "dead" \in w.server.flags)
    <3>1. CASE pane
      BY <1>1, <3>1, OnwardNone DEF Keeps
    <3>2. CASE ~pane
      BY <3>2, ExitFlagKeeps
    <3> QED
      BY <3>1, <3>2
  <2>3. w.server.file[s].closed \/ (~pane /\ "exit" \in w.server.flags)
    BY <1>1, <2>2
  <2> HIDE DEF w, u
  <2>4. Keeps(r, u) /\ Worked(w, u, s)
    BY <2>1, <2>2, <2>3, CancelKeeps
  <2>5. Onward(v, u)
    BY <2>2, <2>4, OnwardFile, OnwardTwice
  <2> QED
    BY <2>2, <2>4, <2>5 DEF Worked, OneFile, u
<1>2. CASE ~(CanPrint(v) /\ lost) /\ (closed \/ g.error)
  <2>1. u = Continue(v, FALSE)
    BY <1>2 DEF PaneInput
  <2> HIDE DEF u
  <2>2. Keeps(r, u) /\ Onward(v, u) /\ u.server.work = "running" /\ u.server.file = v.server.file
    BY <1>0, <2>1, ContinueKeeps
  <2> QED
    BY <2>2 DEF u
<1>3. CASE ~(CanPrint(v) /\ lost) /\ ~(closed \/ g.error)
  <2>1. u = v
    BY <1>3 DEF PaneInput
  <2> QED
    BY <1>3, <2>1, OnwardNone DEF Keeps
<1> QED
  BY <1>1, <1>2, <1>3

(* How much is left of a file that is not for printing tells nobody.        *)
LEMMA LeftKeeps ==
    ASSUME NEW r, NEW v, Keeps(r, v), NEW s \in Stream, s \notin Printing, NEW n \in Nat
    PROVE  LET u == [v EXCEPT !.server.file[s].left = n]
           IN v.server.file[s].kind # "none" => Keeps(r, u) /\ Onward(v, u) /\ Worked(v, u, s)
<1> DEFINE g == v.server.file[s]
           f == [g EXCEPT !.left = n]
           u == [v EXCEPT !.server.file[s].left = n]
<1> SUFFICES ASSUME g.kind # "none" PROVE Keeps(r, u) /\ Onward(v, u) /\ Worked(v, u, s)
  OBVIOUS
<1>1. v \in Worlds /\ g \in ServerFile
  BY WorldFile DEF Keeps
<1>2. f \in ServerFile /\ f.kind = g.kind /\ f.own = g.own /\ f.closed = g.closed /\ f.done = g.done
  BY <1>1 DEF ServerFile
<1>3. u = WithFile(v, s, f)
  BY DEF WithFile
<1> HIDE DEF u, f
<1>4. u \in Worlds /\ OneFile(v.server, u.server, s) /\ u.server.file[s] = f /\ u.output = v.output
  BY <1>1, <1>2, <1>3, WithFileFields
<1>5. FileKept(At(r, v), s)
  BY DEF Keeps, Core
<1>6. FileKept(At(r, u), s)
  <2>1. /\ At(r, v).server = v.server /\ At(r, u).server = u.server
        /\ At(r, v).output = v.output /\ At(r, u).output = u.output
    BY ONLY AtFields
  <2> QED
    BY ONLY <1>2, <1>4, <1>5, <2>1, g.kind # "none", StillKept
<1>7. Keeps(r, u)
  BY <1>2, <1>3, <1>6, WithFileKeeps
<1>8. Worked(v, u, s)
  BY <1>2, <1>4 DEF Worked
<1> QED
  BY <1>7, <1>8, OnwardFile

(* file_read_data *)
LEMMA ReadDataKeeps ==
    ASSUME NEW r, NEW v, Keeps(r, v), NEW s \in Stream, s \notin Printing,
           "dead" \notin v.server.flags, v.server.file[s].kind \in {"none", "load", "input"}
    PROVE  Keeps(r, ReadData(v, s)) /\ Onward(v, ReadData(v, s))
<1> DEFINE f == v.server.file[s]
<1>0. v \in Worlds /\ f \in ServerFile /\ f.left \in Nat
  BY WorldFile DEF Keeps, ServerFile
<1>1. CASE f.kind = "none" \/ f.error \/ f.closed
  BY <1>0, <1>1, OnwardNone DEF ReadData
<1>2. CASE f.kind = "load" /\ ~f.error /\ ~f.closed
  <2> DEFINE n == f.left + 1
  <2>1. ReadData(v, s) = [v EXCEPT !.server.file[s].left = n]
    BY <1>2 DEF ReadData
  <2>2. n \in Nat
    BY <1>0
  <2> HIDE DEF n
  <2> QED
    BY <1>2, <2>1, <2>2, LeftKeeps
<1>3. CASE f.kind = "input" /\ ~f.error /\ ~f.closed
  <2> DEFINE w == PaneInput(v, s, FALSE)
  <2>1. ReadData(v, s) = [w EXCEPT !.server.file[s].left = 0]
    BY <1>3 DEF ReadData
  <2>2. Keeps(r, w) /\ Onward(v, w) /\ w.server.file[s].kind = "input"
    BY <1>3, PaneInputKeeps
  <2> HIDE DEF w
  <2>3. Keeps(r, ReadData(v, s)) /\ Onward(w, ReadData(v, s))
    BY <2>1, <2>2, LeftKeeps
  <2> QED
    BY <2>2, <2>3, OnwardTwice
<1> QED
  BY <1>1, <1>2, <1>3

(* An error of a file is kept with it. *)
LEMMA ErrorKeeps ==
    ASSUME NEW r, NEW v, Keeps(r, v), NEW s \in Stream, v.server.file[s].kind # "none",
           NEW error \in BOOLEAN, NEW u, u = [v EXCEPT !.server.file[s].error = error]
    PROVE  Keeps(r, u) /\ Worked(v, u, s) /\ u.output = v.output
<1> DEFINE g == v.server.file[s]
           f == [g EXCEPT !.error = error]
<1>1. v \in Worlds /\ g \in ServerFile
  BY WorldFile DEF Keeps
<1>2. f \in ServerFile /\ f.kind = g.kind /\ f.own = g.own /\ f.closed = g.closed /\ f.done = g.done
      /\ f.left = g.left
  BY <1>1 DEF ServerFile
<1>3. u = WithFile(v, s, f)
  BY DEF WithFile
<1> HIDE DEF f
<1>4. u \in Worlds /\ OneFile(v.server, u.server, s) /\ u.server.file[s] = f /\ u.output = v.output
  BY ONLY <1>1, <1>2, <1>3, s \in Stream, WithFileFields
<1>5. FileKept(At(r, v), s)
  BY DEF Keeps, Core
<1>6. FileKept(At(r, u), s)
  <2>1. /\ At(r, v).server = v.server /\ At(r, u).server = u.server
        /\ At(r, v).output = v.output /\ At(r, u).output = u.output
    BY ONLY AtFields
  <2> QED
    BY ONLY <1>2, <1>4, <1>5, <2>1, g.kind # "none", StillKept
<1>7. Keeps(r, u)
  BY <1>2, <1>3, <1>6, WithFileKeeps
<1> QED
  BY <1>2, <1>4, <1>7 DEF Worked

(* file_write_ready *)
LEMMA WriteReadyKeeps ==
    ASSUME NEW r, NEW v, Keeps(r, v), NEW s \in Stream, NEW failed \in BOOLEAN,
           "dead" \notin v.server.flags,
           failed /\ s \in Printing => s \in v.output.refused,
           v.server.file[s].kind # "none" => MayWrite(At(r, v), s)
    PROVE  LET u == WriteReady(v, s, failed)
           IN /\ Keeps(r, u) /\ Onward(v, u)
              /\ s \notin Printing /\ v.server.file[s].kind # "none" => u.server.file[s].done
<1> DEFINE u == WriteReady(v, s, failed)
<1>1. CASE v.server.file[s].kind = "none"
  BY <1>1, OnwardNone DEF WriteReady, Keeps
<1>2. CASE v.server.file[s].kind # "none" /\ failed
  <2> DEFINE e == TRUE
             w == [v EXCEPT !.server.file[s].error = e]
  <2>0. e \in BOOLEAN
    OBVIOUS
  <2>1. u = FireDone(w, s)
    BY <1>2 DEF WriteReady
  <2> HIDE DEF e
  <2>2. Keeps(r, w) /\ Worked(v, w, s) /\ w.output = v.output
    BY <1>2, <2>0, ErrorKeeps
  <2> HIDE DEF w, u
  <2>3. w.server.file[s].kind # "none" /\ w \in Worlds
    BY <1>2, <2>2 DEF Worked
  <2>4. w.server.file[s].kind = "print" => s \in w.output.refused
    BY <1>2, <2>2, WorldKept
  <2>5. Keeps(r, u)
    BY <2>1, <2>2, <2>3, <2>4, FireDoneKeeps
  <2>6. Worked(w, u, s) /\ u.server.file[s].done
    BY <2>1, <2>3, FireDoneWorked
  <2> QED
    BY <2>2, <2>5, <2>6, WorkedOn, OnwardFile DEF u
<1>3. CASE v.server.file[s].kind # "none" /\ ~failed
  <2>1. u = Push(v, s)
    BY <1>3 DEF WriteReady
  <2>2. Keeps(r, Push(v, s))
    BY <1>3, PushKeeps
  <2>3. Worked(v, Push(v, s), s) /\ (s \notin Printing => Push(v, s).server.file[s].done)
    BY PushWorked DEF Keeps
  <2> QED
    BY <2>1, <2>2, <2>3, OnwardFile
<1> QED
  BY <1>1, <1>2, <1>3

(* file_read_done *)
LEMMA ReadDoneKeeps ==
    ASSUME NEW r, NEW v, Keeps(r, v), NEW s \in Stream, s \notin Printing, NEW failed \in BOOLEAN
    PROVE  LET u == ReadDone(v, s, failed)
           IN /\ Keeps(r, u) /\ Onward(v, u)
              /\ v.server.file[s].kind # "none" => u.server.file[s].done
<1> DEFINE u == ReadDone(v, s, failed)
<1>1. CASE v.server.file[s].kind = "none"
  BY <1>1, OnwardNone DEF ReadDone, Keeps
<1>2. CASE v.server.file[s].kind # "none"
  <2> DEFINE w == [v EXCEPT !.server.file[s].error = failed]
  <2>1. u = FireDone(w, s)
    BY <1>2 DEF ReadDone
  <2>2. Keeps(r, w) /\ Worked(v, w, s)
    BY <1>2, ErrorKeeps
  <2> HIDE DEF w, u
  <2>3. w.server.file[s].kind # "none" /\ w \in Worlds
    BY <1>2, <2>2 DEF Worked
  <2>4. w.server.file[s].kind # "print"
    BY <2>2, WorldKept
  <2>5. Keeps(r, u)
    BY <2>1, <2>2, <2>3, <2>4, FireDoneKeeps
  <2>6. Worked(w, u, s) /\ u.server.file[s].done
    BY <2>1, <2>3, FireDoneWorked
  <2> QED
    BY <2>2, <2>5, <2>6, WorkedOn, OnwardFile DEF u
<1> QED
  BY <1>1, <1>2

(* A file is freed when it is done. *)
LEMMA FreedKeeps ==
    ASSUME NEW r, NEW v, Keeps(r, v), NEW s \in Stream,
           v.server.file[s].kind = "print" => v.server.file[s].done
    PROVE  Keeps(r, WithFile(v, s, NoServerFile))
<1> DEFINE u == WithFile(v, s, NoServerFile)
           g == v.server.file[s]
<1>1. v \in Worlds /\ NoServerFile \in ServerFile /\ g \in ServerFile
  BY WorldFile DEF Keeps, ServerFile, NoServerFile, Kind
<1>2. u \in Worlds /\ OneFile(v.server, u.server, s) /\ u.server.file[s] = NoServerFile
  BY <1>1, WithFileFields
<1>3. FileKept(At(r, u), s)
  BY <1>2, AtFields DEF FileKept, NoServerFile
<1>4. g.left \in Nat /\ NoServerFile.left = 0 /\ NoServerFile.kind = "none"
  BY <1>1 DEF ServerFile, NoServerFile
<1>5. s \in Printing /\ g.kind = "none" => g = NoServerFile
  BY WorldKept
<1>6. s \in Printing => \/ NoServerFile.left = g.left
                        \/ s \in v.output.refused \/ "dead" \in v.server.flags
  BY <1>4, <1>5, WorldKept
<1> QED
  BY <1>1, <1>3, <1>4, <1>6, WithFileKeeps

(* file_fire_done_cb: whoever waited for the file goes on. *)
LEMMA DoneKeeps ==
    ASSUME NEW r, NEW v, Keeps(r, v), NEW s \in Stream, v.server.file[s].done, v.fault = "none"
    PROVE  LET u == Done(v, s)
           IN /\ Keeps(r, u)
              /\ v.server.flags \subseteq u.server.flags
              /\ u.server.flags \subseteq v.server.flags \cup {"exit"}
              /\ u.server.work \in {v.server.work, "running"}
              /\ \A t \in Stream : t \notin Printing /\ t # s =>
                    /\ u.server.file[t].kind = v.server.file[t].kind
                    /\ v.server.file[t].done => u.server.file[t].done
              /\ v.server.file[s].kind \in {"save", "load", "input"} =>
                    \/ u.server.work = "running" \/ "dead" \in u.server.flags
                    \/ ~pane /\ "exit" \in u.server.flags
                    \/ u.fault # "none"
<1> DEFINE f == v.server.file[s]
           heard == f.closed \/ ~f.own \/ "dead" \notin v.server.flags
           told == CASE ~heard \/ f.kind = "print" -> v
                     [] heard /\ f.kind = "input" -> PaneInput(v, s, TRUE)
                     [] heard /\ f.kind \in {"save", "load"} -> Continue(v, f.error)
           orphan == f.kind = "input" /\ "attached" \in v.server.flags
           lost == Faulty(v, "no client")
           w == IF orphan THEN lost ELSE told
           u == Done(v, s)
<1>0. /\ v \in Worlds /\ f \in ServerFile /\ f.kind # "none" /\ v.server.work # "idle"
      /\ f.kind # "none" /\ ~f.own => "attached" \in v.server.flags
      /\ f.closed => f.kind = "input"
  BY WorldKept, WorldFile DEF Keeps, NoServerFile
<1>1. u = WithFile(w, s, NoServerFile)
  BY DEF Done
<1>2. f.kind \in {"print", "input", "save", "load"} /\ f.error \in BOOLEAN
  BY <1>0 DEF ServerFile, Kind
<1>3. /\ Keeps(r, w) /\ Onward(v, w)
      /\ w.server.file[s].kind = "print" => w.server.file[s].done
      /\ f.kind \in {"save", "load", "input"} =>
            \/ w.server.work = "running" \/ "dead" \in w.server.flags
            \/ ~pane /\ "exit" \in w.server.flags
            \/ w.fault # "none"
  <2>1. CASE orphan
    <3>1. Keeps(r, lost) /\ lost \in Worlds /\ lost.server = v.server
      BY <1>0, FaultyKeeps, FaultyFields DEF Fault
    <3>2. lost.fault = "no client"
      BY <1>0 DEF Faulty, Worlds
    <3>3. w = lost
      BY <2>1
    <3> HIDE DEF w, lost
    <3> QED
      BY <2>1, <3>1, <3>2, <3>3, OnwardNone DEF Onward
  <2>2. CASE ~orphan /\ (~heard \/ f.kind = "print")
    <3>1. w = v
      BY <2>2
    <3> HIDE DEF w
    <3> QED
      BY <1>0, <2>2, <3>1, OnwardNone
  <2>3. CASE ~orphan /\ heard /\ f.kind = "input"
    <3>1. w = PaneInput(v, s, TRUE)
      BY <2>3
    <3>2. "dead" \in v.server.flags => f.closed \/ ~CanPrint(v)
      BY <1>0, <2>3 DEF CanPrint
    <3> HIDE DEF w
    <3> QED
      BY <2>3, <3>1, <3>2, PaneInputKeeps
  <2>4. CASE ~orphan /\ heard /\ f.kind \in {"save", "load"}
    <3>1. w = Continue(v, f.error)
      BY <2>4
    <3>2. "dead" \notin v.server.flags \/ ~CanPrint(v)
      BY <1>0, <2>4 DEF CanPrint
    <3> HIDE DEF w
    <3>3. Keeps(r, w) /\ Onward(v, w) /\ w.server.work = "running"
      BY <1>0, <1>2, <3>1, <3>2, ContinueKeeps
    <3>4. w.server.file[s].kind # "print"
      BY <2>4, <3>3, WorldKept DEF Onward
    <3> QED
      BY <3>3, <3>4
  <2> HIDE DEF w, heard, told, orphan, lost
  <2> QED
    BY ONLY <1>2, <2>1, <2>2, <2>3, <2>4
<1> HIDE DEF w, u
<1>4. Keeps(r, u)
  BY <1>1, <1>3, FreedKeeps
<1>5. NoServerFile \in ServerFile /\ w \in Worlds
  BY <1>3 DEF ServerFile, NoServerFile, Kind, Keeps
<1>6. OneFile(w.server, u.server, s) /\ u.fault = w.fault
  BY <1>1, <1>5, WithFileFields
<1> QED
  BY <1>3, <1>4, <1>6 DEF Onward, OneFile, u

(* A file of a client that was lost is as it was, or done if it was asked for. *)
FailedAs(g, f) ==
    /\ g.kind = f.kind /\ g.own = f.own /\ g.left = f.left /\ g.closed = f.closed
    /\ f.done => g.done
    /\ f.kind # "none" /\ f.own => g.done
    /\ f.kind = "none" => g = f

(* server_client_lost *)
LEMMA LostFields ==
    ASSUME NEW v \in Worlds, NEW u, u = Lost(v)
    PROVE  /\ u \in Worlds /\ u.sent = v.sent /\ u.output = v.output
           /\ u.server.flags = v.server.flags \cup {"dead"} /\ u.server.session = FALSE
           /\ u.server.exit = v.server.exit /\ u.server.work = v.server.work
           /\ u.server.next = v.server.next /\ u.server.batch = 0
           /\ \A s \in Stream : FailedAs(u.server.file[s], v.server.file[s])
<1> DEFINE Asked(f) == f.kind # "none" /\ f.own
           Failed(f) == IF Asked(f) THEN [f EXCEPT !.error = TRUE, !.done = TRUE] ELSE f
           files == [s \in Stream |-> Failed(v.server.file[s])]
           srv == [v.server EXCEPT !.flags = @ \cup {"dead"}, !.session = FALSE, !.batch = 0,
                                   !.writing = FALSE, !.file = files]
           left == [v EXCEPT !.server = srv]
<1>1. v.server \in ServerType /\ \A s \in Stream : v.server.file[s] \in ServerFile
  BY DEF Worlds, ServerType
<1>2. ASSUME NEW f \in ServerFile
      PROVE  /\ Failed(f) \in ServerFile /\ FailedAs(Failed(f), f)
  BY DEF ServerFile, FailedAs
<1>3. files \in [Stream -> ServerFile] /\ \A s \in Stream : files[s] = Failed(v.server.file[s])
  BY ONLY <1>1, <1>2
<1>4. left = [LostFiles(v) EXCEPT !.server.file = files]
  BY <1>1 DEF LostFiles, Worlds, ServerType
<1>5. u = IF \E s \in Stream : Asked(v.server.file[s]) /\ v.server.file[s].done
          THEN Faulty(left, "freed file") ELSE left
  <2>1. [LostFiles(v) EXCEPT !.server.file = [s \in Stream |-> Failed(@[s])]]
          = [LostFiles(v) EXCEPT !.server.file = files]
    BY <1>1 DEF LostFiles, Worlds, ServerType
  <2> QED
    BY ONLY <1>4, <2>1, u = Lost(v) DEF Lost
<1> HIDE DEF files
<1>6. srv \in ServerType
  BY <1>1, <1>3 DEF ServerType, Flag
<1>7. /\ srv.flags = v.server.flags \cup {"dead"} /\ srv.session = FALSE
      /\ srv.exit = v.server.exit /\ srv.work = v.server.work
      /\ srv.next = v.server.next /\ srv.batch = 0 /\ srv.file = files
  BY <1>1 DEF ServerType
<1> HIDE DEF srv
<1>8. left \in Worlds /\ left.sent = v.sent /\ left.output = v.output /\ left.server = srv
  BY <1>6 DEF Worlds
<1> HIDE DEF left
<1>9. u \in Worlds /\ u.sent = v.sent /\ u.output = v.output /\ u.server = srv
  BY ONLY ZenonT(60), <1>5, <1>8, FaultyFields DEF Fault
<1>10. \A s \in Stream :
         /\ u.server.file[s] = Failed(v.server.file[s]) /\ v.server.file[s] \in ServerFile
  BY ONLY <1>1, <1>3, <1>7, <1>9
<1> HIDE DEF Failed
<1>11. \A s \in Stream : FailedAs(u.server.file[s], v.server.file[s])
  BY ONLY <1>2, <1>10
<1> QED
  BY ONLY <1>7, <1>9, <1>11

(* A lost client leaves the invariant as it was: its files are done.        *)
LEMMA LostKeeps ==
    ASSUME NEW r, NEW v, Keeps(r, v)
    PROVE  Keeps(r, Lost(v)) /\ "dead" \in Lost(v).server.flags
<1> DEFINE u == Lost(v)
           x == At(r, v)
           y == At(r, u)
<1>1. /\ u \in Worlds /\ u.sent = v.sent /\ u.output = v.output
      /\ u.server.flags = v.server.flags \cup {"dead"} /\ u.server.session = FALSE
      /\ u.server.work = v.server.work
      /\ u.server.next = v.server.next /\ u.server.batch = 0
  BY LostFields DEF Keeps
<1>2. \A s \in Stream : FailedAs(u.server.file[s], v.server.file[s])
  BY LostFields DEF Keeps
<1> HIDE DEF u
<1>3. Typed(y) /\ Beside(x, y) /\ Core(x)
  BY <1>1, AtTyped DEF Keeps
<1>4. /\ x.server = v.server /\ y.server = u.server /\ y.toClient = x.toClient
      /\ y.output = x.output
  BY ONLY <1>1 DEF At
<1> HIDE DEF x, y
<1>5. Phases(y)
  <2>1. Phases(x) /\ \A s \in Stream : y.server.file[s].kind = x.server.file[s].kind
    BY <1>2, <1>3, <1>4 DEF Core, FailedAs
  <2>2. Len(y.toServer) \in Nat
    BY <1>3 DEF Typed
  <2> QED
    BY <1>1, <1>3, <1>4, <2>1, <2>2 DEF Phases, Beside
<1>6. Leaving(y)
  BY <1>1, <1>3, <1>4 DEF Core, Leaving, Beside
<1>7. ASSUME NEW s \in Stream PROVE FileKept(y, s)
  <2>1. FileKept(x, s)
    BY <1>3 DEF Core
  <2> QED
    BY <1>1, <1>2, <1>4, <2>1 DEF FileKept, FailedAs
<1>8. ASSUME NEW s \in Stream PROVE StreamKept(y, s)
  BY <1>3, <1>4 DEF Core, StreamKept, Beside
<1>9. ASSUME NEW s \in Stream PROVE Matched(y, s)
  <2>1. Matched(x, s)
    BY <1>3 DEF Core
  <2> QED
    BY <1>1, <1>2, <1>3, <1>4, <2>1 DEF Matched, Reading, Beside, FailedAs
<1>10. ASSUME NEW s \in Stream PROVE Known(y, s)
  <2>1. Known(x, s)
    BY <1>3 DEF Core
  <2> QED
    BY <1>1, <1>3, <1>4, <2>1 DEF Known, Ordered, InTurn, Beside
<1>11. ASSUME NEW s \in Printing PROVE Sums(y, s)
  <2>1. Sums(x, s)
    BY <1>3 DEF Core
  <2>2. s \in Stream
    BY DEF Stream
  <2>3. Reached(y, s) = Reached(x, s) /\ Total(y, s) = Total(x, s)
    BY <1>2, <1>3, <1>4, <2>2 DEF Reached, Total, Beside, FailedAs
  <2> QED
    BY <1>1, <1>3, <1>4, <2>1, <2>3 DEF Sums, Arriving, Arrived, Beside
<1>12. Core(y)
  BY <1>3, <1>5, <1>6, <1>7, <1>8, <1>9, <1>10, <1>11 DEF Core
<1> QED
  BY <1>1, <1>12 DEF Keeps, u, y

(* Of two changes of a file the second counts.                              *)
LEMMA WithFileTwice ==
    ASSUME NEW v \in Worlds, NEW s \in Stream, NEW f, NEW g
    PROVE  WithFile(WithFile(v, s, f), s, g) = WithFile(v, s, g)
  BY ZenonT(60) DEF WithFile, Worlds, ServerType

(* What was asked for is on its way, or has been answered already.          *)
Answering(x, s) ==
    \/ x.server.file[s].done
    \/ /\ "attached" \notin x.server.flags
       /\ Holds(x.toClient, "writeopen", s) \/ Holds(x.toClient, "readopen", s)

(* A file that is given its answer at once. *)
LEMMA AnsweredKeeps ==
    ASSUME NEW r, NEW v, Keeps(r, v), NEW s \in Stream, Fresh(At(r, v), s),
           v.server.work # "idle", NEW f \in ServerFile, f.kind \in {"save", "load", "input"},
           ~f.own => "attached" \in v.server.flags, ~f.done, ~f.closed,
           NEW u, u = FireDone(WithFile(v, s, f), s)
    PROVE  /\ Keeps(r, u) /\ OneFile(v.server, u.server, s)
           /\ u.server.file[s].kind = f.kind /\ u.server.file[s].done
<1> DEFINE w == WithFile(v, s, f)
           g == [f EXCEPT !.done = TRUE]
<1>1. v \in Worlds
  BY DEF Keeps
<1>2. w \in Worlds /\ w.server.file[s] = f
  BY <1>1, WithFileFields
<1>3. g \in ServerFile /\ g.kind = f.kind /\ g.own = f.own /\ g.done /\ g.closed = f.closed
  BY DEF ServerFile
<1> HIDE DEF w
<1>4. u = WithFile(w, s, g)
  BY <1>2, FireDoneFields DEF w
<1> HIDE DEF g
<1>5. u = WithFile(v, s, g)
  BY <1>1, <1>4, WithFileTwice DEF w
<1>6. OneFile(v.server, u.server, s) /\ u.server.file[s] = g
  BY ONLY <1>1, <1>3, <1>5, s \in Stream, WithFileFields
<1>7. At(r, v).server = v.server /\ At(r, u).server = u.server
  BY AtFields
<1>8. s \notin Printing /\ ~Reading(At(r, v), s) /\ s < u.server.next
  BY ONLY <1>6, <1>7, Fresh(At(r, v), s) DEF Fresh, OneFile
<1>9. FileKept(At(r, u), s)
  BY ONLY <1>3, <1>6, <1>7, <1>8, f.kind \in {"save", "load", "input"}, ~f.closed,
          ~f.own => "attached" \in v.server.flags DEF FileKept, OneFile
<1>10. Keeps(r, u)
  BY ONLY <1>3, <1>5, <1>8, <1>9, Keeps(r, v), s \in Stream, v.server.work # "idle", WithFileKeeps
<1> QED
  BY ONLY <1>3, <1>6, <1>10

(* file_write and file_read *)
LEMMA AskKeeps ==
    ASSUME NEW r, NEW v, Keeps(r, v), NEW s \in Stream, Fresh(At(r, v), s),
           v.server.work # "idle", NEW kind \in {"save", "load", "input"},
           NEW d \in {NoDescriptor} \cup Descriptor, NEW u \in Ask(v, s, kind, d),
           "dead" \notin v.server.flags
    PROVE  /\ Keeps(r, u) /\ OneFile(v.server, u.server, s)
           /\ u.server.file[s].kind = kind /\ Answering(At(r, u), s)
<1> DEFINE attached == "attached" \in v.server.flags
           refused == d # NoDescriptor /\ ~CanPrint(v)
           reads == kind \in {"load", "input"}
           f == [NoServerFile EXCEPT !.kind = kind, !.own = ~attached]
           m == Msg(IF reads THEN "readopen" ELSE "writeopen", s, d)
           n == IF reads THEN 0 ELSE 1
<1>1. f \in ServerFile /\ f.kind = kind /\ (~f.own => attached) /\ ~f.done /\ ~f.closed
      /\ (~attached => f.own)
  BY DEF ServerFile, NoServerFile, Kind
<1>2. Ask(v, s, kind, d) =
        CASE refused -> {FireDone(WithFile(v, s, [f EXCEPT !.error = TRUE]), s)}
         [] ~refused /\ attached ->
               {FireDone(WithFile(v, s, [f EXCEPT !.error = e]), s) : e \in BOOLEAN}
         [] OTHER -> {Send(WithFile(v, s, [f EXCEPT !.left = n]), m)}
  BY DEF Ask
<1> HIDE DEF f
<1>3. CASE refused \/ attached
  <2>1. PICK e \in BOOLEAN : u = FireDone(WithFile(v, s, [f EXCEPT !.error = e]), s)
    BY <1>2, <1>3
  <2> DEFINE g == [f EXCEPT !.error = e]
  <2>2. g \in ServerFile /\ g.kind = kind /\ g.own = f.own /\ ~g.done /\ ~g.closed
    BY <1>1 DEF ServerFile
  <2>3. u = FireDone(WithFile(v, s, g), s)
    BY <2>1
  <2> HIDE DEF g
  <2>4. /\ Keeps(r, u) /\ OneFile(v.server, u.server, s)
        /\ u.server.file[s].kind = kind /\ u.server.file[s].done
    BY <1>1, <2>2, <2>3, AnsweredKeeps
  <2> QED
    BY <2>4, AtFields DEF Answering
<1>4. CASE ~refused /\ ~attached
  <2> DEFINE g == [f EXCEPT !.left = n]
             w == WithFile(v, s, g)
  <2>1. u = Send(w, m)
    BY <1>2, <1>4
  <2>2. g \in ServerFile /\ g.kind = kind /\ g.own /\ ~g.done /\ ~g.closed
    BY <1>1, <1>4 DEF ServerFile
  <2> HIDE DEF g
  <2>3. w \in Worlds /\ OneFile(v.server, w.server, s) /\ w.server.file[s] = g /\ w.sent = v.sent
    BY <2>2, WithFileFields DEF Keeps
  <2>4. /\ At(r, v).server = v.server /\ At(r, w).server = w.server
        /\ At(r, w).toClient = At(r, v).toClient /\ At(r, w).process = At(r, v).process
        /\ At(r, w).toServer = At(r, v).toServer /\ At(r, w).pane = At(r, v).pane
    BY ONLY <2>3 DEF At
  <2>5. s \notin Printing /\ ~Reading(At(r, v), s) /\ s < w.server.next
    BY <2>3, <2>4 DEF Fresh, OneFile
  <2>6. FileKept(At(r, w), s)
    BY <2>2, <2>3, <2>4, <2>5 DEF FileKept, OneFile
  <2>7. Keeps(r, w)
    BY <2>2, <2>5, <2>6, WithFileKeeps
  <2>8. m \in ToClient /\ m.stream = s /\ m.type \in Opens /\ (m.type = "readopen" => reads)
    BY DEF Msg, ToClient, Opens
  <2> HIDE DEF m, w
  <2>9. Heard(At(r, w)) => /\ ~Holds(At(r, w).toServer, "writeready", s)
                           /\ Silent(At(r, w).toClient, s)
                           /\ At(r, w).process.file[s].kind = "none"
    BY <2>3, <2>4 DEF Fresh, Heard, OneFile
  <2>10. MayFollow(At(r, w), m)
    BY <2>2, <2>3, <2>4, <2>5, <2>8, <2>9 DEF MayFollow, Opens, Silent
  <2>11. Keeps(r, u)
    BY <2>1, <2>7, <2>8, <2>10, SendFileKeeps
  <2>12. "bad" \notin w.server.flags /\ w.server.flags = v.server.flags
    BY <2>3, WorldPhases DEF OneFile
  <2>13. u.server = w.server /\ u.sent = Append(w.sent, m)
    BY <2>1, <2>3, <2>8, <2>12, SendFields
  <2>14. Holds(At(r, u).toClient, m.type, s)
    <3> DEFINE q == toClient \o w.sent
    <3>1. q \in Seq(ToClient) /\ w.sent \in Seq(ToClient) /\ toClient \in Seq(ToClient)
      BY <2>7 DEF Keeps, Core, Typed, At, Worlds
    <3>2. toClient \o u.sent = Append(q, m)
      BY ONLY <2>8, <2>13, <3>1, AppendedLast
    <3> HIDE DEF q
    <3>3. Len(q) + 1 \in DOMAIN Append(q, m) /\ Append(q, m)[Len(q) + 1] = m
      BY <2>8, <3>1
    <3>4. At(r, u).toClient = Append(q, m)
      BY ONLY <3>2 DEF At
    <3> QED
      BY ONLY <2>8, <3>3, <3>4 DEF Holds
  <2>15. At(r, u).server = u.server
    BY AtFields
  <2> QED
    BY <1>4, <2>2, <2>3, <2>8, <2>11, <2>12, <2>13, <2>14, <2>15 DEF Answering, Opens, OneFile
<1> QED
  BY <1>3, <1>4

----------------------------------------------------------------------------
(* The steps of the server. *)

(* The state is where a step of the server begins. *)
LEMMA Begins ==
    ASSUME Core(State)
    PROVE  /\ Keeps(toServer, World) /\ At(toServer, World) = State
           /\ World.server = server /\ World.sent = <<>> /\ World.output = output
           /\ World.fault = "none"
           /\ toClient \in Seq(ToClient) /\ toServer \in Seq(ToServer)
           /\ server \in ServerType /\ process \in ProcessType /\ output \in OutputType
<1>1. /\ toClient \in Seq(ToClient) /\ toServer \in Seq(ToServer)
      /\ server \in ServerType /\ process \in ProcessType /\ output \in OutputType
  BY DEF Core, Typed, State
<1>2. /\ World.server = server /\ World.sent = <<>> /\ World.output = output
      /\ World.fault = "none"
  BY DEF World
<1>3. World \in Worlds
  BY <1>1 DEF World, Worlds, Fault
<1>4. toClient \o World.sent = toClient
  BY <1>1, <1>2
<1>5. At(toServer, World) = State
  BY ONLY <1>2, <1>4 DEF At, State
<1> QED
  BY <1>1, <1>2, <1>3, <1>5 DEF Keeps

(* ... and where it ends. *)
LEMMA StepEnds ==
    ASSUME NEW v, Keeps(toServer', v), Becomes(v), Bystanders
    PROVE  Core(State)' /\ fault' \in Fault
<1>1. State' = At(toServer', v)
  BY DEF State, At, Becomes, Bystanders
<1>2. Core(State') /\ v.fault \in Fault
  BY <1>1 DEF Keeps, Worlds
<1> QED
  BY <1>2 DEF Becomes

Waited == {"save", "load", "input"}
Answers == {"writeready", "readdone"}

(* As long as the command still waits, what it waits for is there.          *)
Stays(v) ==
    v.server.work = "waiting" /\ "dead" \notin v.server.flags =>
       /\ server.work = "waiting" /\ "dead" \notin server.flags
       /\ "exit" \in server.flags => "exit" \in v.server.flags
       /\ "attached" \in v.server.flags => "attached" \in server.flags
       /\ \A t \in Stream : server.file[t].kind \in Waited =>
             /\ v.server.file[t].kind = server.file[t].kind
             /\ server.file[t].done => v.server.file[t].done

(* What a queue holds it holds with more behind it.                         *)
LEMMA HeldStill ==
    ASSUME NEW S, NEW q \in Seq(S), NEW p \in Seq(S), NEW type, NEW s, Holds(q, type, s)
    PROVE  Holds(q \o p, type, s)
<1>1. PICK k \in DOMAIN q : q[k].type = type /\ q[k].stream = s
  BY DEF Holds
<1>2. k \in DOMAIN (q \o p) /\ (q \o p)[k] = q[k]
  OBVIOUS
<1> QED
  BY <1>1, <1>2 DEF Holds

(* A command that waits keeps what it waits for.                            *)
LEMMA AwaitedStays ==
    ASSUME Awaited(State), NEW v, Keeps(toServer', v), Becomes(v), process' = process,
           pane' => pane, Stays(v),
           \A t \in Stream, type \in Answers :
              Holds(toServer, type, t) /\ server.file[t].kind \in Waited
                => Holds(toServer', type, t) \/ v.server.file[t].done
    PROVE  Awaited(State)'
<1> SUFFICES ASSUME v.server.work = "waiting", "dead" \notin v.server.flags,
                    process.pc \in {"wait", "attached"}
             PROVE  \/ ~pane' /\ "exit" \in v.server.flags
                    \/ \E s \in Stream : v.server.file[s].kind \in Waited /\ Coming(State', s)
  BY DEF Awaited, State, Becomes, Waited
<1>1. server.work = "waiting" /\ "dead" \notin server.flags
  BY DEF Stays
<1>2. CASE ~pane /\ "exit" \in server.flags
  BY <1>2 DEF Stays
<1>3. CASE \E s \in Stream : server.file[s].kind \in Waited /\ Coming(State, s)
  <2>1. PICK s \in Stream : server.file[s].kind \in Waited /\ Coming(State, s)
    BY <1>3
  <2>2. toClient \in Seq(ToClient) /\ v.sent \in Seq(ToClient)
    BY DEF Keeps, Worlds
  <2>3. \A type : Holds(toClient, type, s) => Holds(toClient', type, s)
    BY <2>2, HeldStill DEF Becomes
  <2>4. \A type \in Answers : Holds(toServer, type, s) =>
          Holds(toServer', type, s) \/ v.server.file[s].done
    BY <2>1
  <2>5. /\ v.server.file[s].kind = server.file[s].kind
        /\ server.file[s].done => v.server.file[s].done
        /\ "attached" \in v.server.flags => "attached" \in server.flags
    BY <2>1 DEF Stays
  <2>6. Coming(State', s)
    BY <2>1, <2>3, <2>4, <2>5 DEF Coming, State, Becomes, Answers
  <2> QED
    BY <2>1, <2>5, <2>6
<1> QED
  BY <1>1, <1>2, <1>3 DEF Awaited, State, Waited

(* The message that is handled is off the queue. *)
Handling == [World EXCEPT !.server.batch = @ - 1]

(* The first message is taken: what it says is about what it should be.     *)
LEMMA PoppedKeeps ==
    ASSUME Core(State), server.batch > 0
    PROVE  LET m == Head(toServer)
               r == Tail(toServer)
               s == m.stream
           IN /\ Keeps(r, Handling) /\ m \in ToServer /\ toServer # <<>>
              /\ Handling.server = [server EXCEPT !.batch = @ - 1]
              /\ Handling.sent = <<>> /\ Handling.output = output /\ Handling.fault = "none"
              /\ "dead" \notin server.flags
              /\ m.type \in {"command", "shell"} => server.work = "idle" /\ "bad" \notin server.flags
                                                 /\ ~FirstMessage(r)
              /\ m.type = "writeready" =>
                    /\ m.x = 1 /\ s \in Printing => s \in output.refused
                    /\ server.file[s].kind # "none" => MayWrite(At(r, Handling), s)
              /\ m.type \in {"read", "readdone"} =>
                    s \notin Printing /\ server.file[s].kind \in {"none", "load", "input"}
<1> DEFINE m == Head(toServer)
           r == Tail(toServer)
           s == m.stream
           w == Handling
           x == State
           y == At(r, w)
<1>1. /\ toServer \in Seq(ToServer) /\ server \in ServerType /\ World \in Worlds
      /\ server.batch <= Len(toServer) /\ toClient \in Seq(ToClient) /\ x.server = server
      /\ x.toServer = toServer /\ x.process = process /\ x.toClient = toClient
      /\ x.pane = pane /\ x.output = output
  BY Begins DEF Keeps, Core, Phases, State
<1>2. server.batch \in Nat /\ server.batch - 1 \in Nat
  BY <1>1 DEF ServerType
<1>3. toServer # <<>>
  BY <1>1, <1>2
<1>4. /\ r \in Seq(ToServer) /\ Len(toServer) \in Nat \ {0} /\ Len(r) = Len(toServer) - 1
      /\ DOMAIN toServer = 1 .. Len(toServer) /\ DOMAIN r = 1 .. Len(toServer) - 1
      /\ 1 \in DOMAIN toServer
      /\ \A k \in 1 .. Len(toServer) - 1 : r[k] = toServer[k + 1]
      /\ m = toServer[1] /\ m \in ToServer
  BY <1>1, <1>3, Popped
<1>5. Without(r, toServer, 1)
  BY <1>1, <1>3, WithoutFirst
<1> HIDE DEF m, r
<1>6. [server EXCEPT !.batch = @ - 1] \in ServerType
  BY <1>1, <1>2 DEF ServerType
<1>7. /\ w.server = [server EXCEPT !.batch = @ - 1] /\ w.sent = <<>> /\ w.output = output
      /\ w.fault = "none"
  BY DEF Handling, World
<1>8. w \in Worlds
  BY <1>1, <1>6, Begins DEF Handling, World, Worlds, Fault
<1> HIDE DEF w
<1>9. /\ y.server = w.server /\ y.process = process /\ y.toServer = r
      /\ y.toClient = toClient /\ y.pane = pane /\ y.output = output
  BY <1>1, <1>7 DEF At
<1> HIDE DEF x, y
<1>10. /\ w.server.flags = server.flags /\ w.server.file = server.file
       /\ w.server.work = server.work /\ w.server.next = server.next
       /\ w.server.batch = server.batch - 1 /\ w.server.session = server.session
  BY <1>1, <1>7 DEF ServerType
<1>11. Typed(y) /\ Core(x)
  BY <1>1, <1>4, <1>8, <1>9, Begins DEF Typed, x, Worlds, Core, State
<1>12. Extends(y.toClient, x.toClient, 0)
  BY <1>1, <1>9, ExtendsNothing
<1>13. Serves(x, y, 0)
  <2>1. x.server.next \in Nat
    BY <1>11, NextNumber DEF Core
  <2> QED
    BY <1>1, <1>5, <1>9, <1>10, <1>12, <2>1 DEF Serves
<1>14. Quietly(x, y)
  BY <1>1, <1>9, <1>12 DEF Quietly, Extends
<1>15. Phases(x) /\ Leaving(x)
  BY <1>11 DEF Core
<1>16. "dead" \notin server.flags
  BY <1>1, <1>2, <1>15 DEF Phases
<1>17. \A k \in DOMAIN r : r[k].type \notin {"command", "shell"}
  <2> SUFFICES ASSUME NEW k \in DOMAIN r, r[k].type \in {"command", "shell"} PROVE FALSE
    OBVIOUS
  <2>1. k \in Nat /\ k >= 1 /\ k + 1 \in DOMAIN toServer /\ toServer[k + 1] = r[k]
    BY <1>4
  <2>2. k + 1 = 1
    BY <1>1, <1>15, <2>1 DEF Phases
  <2> QED
    BY <2>1, <2>2
<1>18. Phases(y)
  BY <1>1, <1>2, <1>4, <1>9, <1>10, <1>15, <1>16, <1>17 DEF Phases
<1>19. Leaving(y)
  BY <1>1, <1>9, <1>10, <1>15 DEF Leaving
<1>20. Core(y)
  BY <1>11, <1>13, <1>14, <1>18, <1>19, PlainStep
<1>21. Keeps(r, w)
  BY <1>1, <1>8, <1>20 DEF Keeps, y
<1>22. m.type \in {"command", "shell"} => server.work = "idle" /\ "bad" \notin server.flags
                                                 /\ ~FirstMessage(r)
  <2>1. m.type \in {"command", "shell"} => server.work = "idle" /\ "bad" \notin server.flags
    BY <1>1, <1>4, <1>15 DEF Phases
  <2> QED
    BY <1>17, <2>1 DEF FirstMessage
<1>23. ASSUME m.type = "writeready"
       PROVE  /\ m.x = 1 /\ s \in Printing => s \in output.refused
              /\ server.file[s].kind # "none" => MayWrite(y, s)
  <2>1. s \in Stream /\ (m.x = 1 => m = Msg("writeready", s, 1))
    BY <1>4, <1>23 DEF ToServer, Msg
  <2>2. Holds(toServer, "writeready", s)
    BY <1>4, <1>23 DEF Holds
  <2>3. StreamKept(x, s) /\ FileKept(x, s) /\ Known(x, s)
    BY <1>11, <2>1 DEF Core
  <2>4. m.x = 1 /\ s \in Printing => s \in output.refused
    BY <1>1, <1>4, <2>1, <2>3 DEF StreamKept
  <2>5. ASSUME server.file[s].kind # "none", Heard(y) PROVE Ordered(x, s)
    BY <1>1, <1>9, <1>10, <2>3, <2>5 DEF Heard, Known
  <2>6. CASE s \in Printing
    <3>1. server.file[s].kind # "none" => server.file[s].kind = "print"
      BY <1>1, <2>3, <2>6 DEF FileKept
    <3> QED
      BY <1>1, <1>9, <1>16, <2>4, <2>5, <2>6, <3>1 DEF MayWrite, Ordered
  <2>7. CASE s \notin Printing
    <3>1. ASSUME InTurn(x, s), Holds(r, "writeready", s) PROVE FALSE
      <4>1. PICK k \in DOMAIN r : r[k].type = "writeready" /\ r[k].stream = s
        BY <3>1 DEF Holds
      <4>2. k \in Nat /\ k >= 1 /\ k + 1 \in DOMAIN toServer /\ toServer[k + 1] = r[k]
        BY <1>4
      <4>3. k + 1 = 1
        BY <1>1, <1>4, <1>23, <3>1, <4>1, <4>2 DEF InTurn
      <4> QED
        BY <4>2, <4>3
    <3>2. ASSUME server.file[s].kind # "none", Heard(y)
          PROVE  /\ InTurn(x, s) /\ process.file[s].kind = "write" /\ Silent(toClient, s)
      BY <1>1, <2>2, <2>5, <2>7, <3>2 DEF Ordered, InTurn
    <3> QED
      BY <1>9, <2>4, <2>7, <3>1, <3>2 DEF MayWrite, Silent
  <2> QED
    BY <2>6, <2>7
<1>24. ASSUME m.type \in {"read", "readdone"}
       PROVE  s \notin Printing /\ server.file[s].kind \in {"none", "load", "input"}
  <2>1. s \in Stream
    BY <1>4, <1>24 DEF ToServer
  <2>2. Holds(toServer, "read", s) \/ Holds(toServer, "readdone", s)
    BY <1>4, <1>24 DEF Holds
  <2> QED
    BY <1>1, <1>11, <2>1, <2>2 DEF Core, Matched, Reading
<1> QED
  BY <1>3, <1>4, <1>7, <1>16, <1>21, <1>22, <1>23, <1>24 DEF w, m, r, y

(* The server of a world becomes srv.                                       *)
LEMMA SetServer ==
    ASSUME NEW v \in Worlds, NEW srv \in ServerType, NEW u, u = [v EXCEPT !.server = srv]
    PROVE  /\ u \in Worlds /\ u.sent = v.sent /\ u.output = v.output /\ u.fault = v.fault
           /\ u.server = srv
  BY DEF Worlds

(* A step inside the server forgets no file that is waited for.             *)
LEMMA OnwardStays ==
    ASSUME Core(State), NEW w, NEW v, Onward(w, v), w.server.flags = server.flags,
           w.server.file = server.file, w.server.work = server.work
    PROVE  Stays(v)
<1>1. \A t \in Stream : server.file[t].kind \in Waited => t \notin Printing
  BY DEF Core, FileKept, State, Waited
<1> QED
  BY <1>1 DEF Stays, Onward

(* What a queue holds it holds without its first message, or that was it.   *)
LEMMA HeldRest ==
    ASSUME NEW S, NEW q \in Seq(S), q # <<>>, NEW type, NEW s, Holds(q, type, s)
    PROVE  Holds(Tail(q), type, s) \/ (Head(q).type = type /\ Head(q).stream = s)
<1>1. PICK k \in DOMAIN q : q[k].type = type /\ q[k].stream = s
  BY DEF Holds
<1>2. CASE k = 1
  BY <1>1, <1>2
<1>3. CASE k # 1
  <2>1. k - 1 \in DOMAIN Tail(q) /\ Tail(q)[k - 1] = q[k]
    BY <1>3
  <2> QED
    BY <1>1, <2>1 DEF Holds
<1> QED
  BY <1>2, <1>3

(* server_client_dispatch_command *)
LEMMA CommandsKeeps ==
    ASSUME NEW r, NEW w, Keeps(r, w), w.server.work = "idle", "bad" \notin w.server.flags,
           ~FirstMessage(r), NEW v \in Commands(w)
    PROVE  Keeps(r, v) /\ v.server.work # "waiting"
<1>1. w \in Worlds /\ w.server \in ServerType
  BY DEF Keeps, Worlds
<1>2. CASE v = w
  BY <1>2
<1>3. CASE v = [w EXCEPT !.server.work = "running"]
  <2> DEFINE srv == [w.server EXCEPT !.work = "running"]
  <2>1. srv \in ServerType /\ srv.work = "running" /\ srv.flags = w.server.flags /\ srv.file = w.server.file
        /\ srv.next = w.server.next /\ srv.batch = w.server.batch /\ srv.session = w.server.session
    BY <1>1 DEF ServerType
  <2>2. v = [w EXCEPT !.server = srv]
    BY <1>3
  <2> HIDE DEF srv
  <2>3. v \in Worlds /\ v.sent = w.sent /\ v.output = w.output /\ v.server = srv
    BY ONLY <1>1, <2>1, <2>2, SetServer
  <2>4. PlainChange(w, v, r)
    BY ONLY <2>1, <2>3, "bad" \notin w.server.flags, ~FirstMessage(r), WorldPhases, Keeps(r, w) DEF PlainChange
  <2> QED
    BY ONLY <2>1, <2>3, <2>4, Keeps(r, w), PlainKeeps
<1>4. CASE v = [Flagged(w, "exit") EXCEPT !.server.work = "failing"]
  <2> DEFINE srv == [w.server EXCEPT !.flags = @ \cup {"exit"}, !.work = "failing"]
  <2>1. srv \in ServerType /\ srv.work = "failing" /\ srv.flags = w.server.flags \cup {"exit"}
        /\ srv.file = w.server.file
        /\ srv.next = w.server.next /\ srv.batch = w.server.batch /\ srv.session = w.server.session
    BY <1>1 DEF ServerType, Flag
  <2>2. v = [w EXCEPT !.server = srv]
    BY <1>1, <1>4 DEF Flagged, Worlds, ServerType
  <2> HIDE DEF srv
  <2>3. v \in Worlds /\ v.sent = w.sent /\ v.output = w.output /\ v.server = srv
    BY ONLY <1>1, <2>1, <2>2, SetServer
  <2>4. PlainChange(w, v, r)
    BY ONLY <2>1, <2>3, "bad" \notin w.server.flags, ~FirstMessage(r), WorldPhases, Keeps(r, w) DEF PlainChange
  <2> QED
    BY ONLY <2>1, <2>3, <2>4, Keeps(r, w), PlainKeeps
<1> QED
  BY <1>2, <1>3, <1>4 DEF Commands

(* server_client_dispatch: MSG_SHELL *)
LEMMA ShellKeeps ==
    ASSUME NEW r, NEW w, Keeps(r, w), w.server.work = "idle", ~FirstMessage(r),
           NEW v, v = Flagged(Send(w, Plain("doshell")), "bad")
    PROVE  Keeps(r, v) /\ v.server.work # "waiting"
<1> DEFINE u == Send(w, Plain("doshell"))
           srv == [u.server EXCEPT !.flags = @ \cup {"bad"}]
<1>1. Keeps(r, u) /\ w \in Worlds
  BY PlainMessageKeeps DEF Keeps
<1>2. Plain("doshell") \in ToClient
  BY DEF Plain, Msg, ToClient
<1>3. u.server = w.server
  BY <1>1, <1>2, SendFields
<1> HIDE DEF u
<1>4. u \in Worlds /\ u.server \in ServerType
  BY <1>1 DEF Keeps, Worlds
<1>5. srv \in ServerType /\ srv.work = u.server.work /\ srv.flags = u.server.flags \cup {"bad"}
      /\ srv.file = u.server.file
      /\ srv.next = u.server.next /\ srv.batch = u.server.batch /\ srv.session = u.server.session
  BY <1>4 DEF ServerType, Flag
<1>6. v = [u EXCEPT !.server = srv]
  BY DEF Flagged, u
<1> HIDE DEF srv
<1>7. v \in Worlds /\ v.sent = u.sent /\ v.output = u.output /\ v.server = srv
  BY ONLY <1>4, <1>5, <1>6, SetServer
<1>8. PlainChange(u, v, r)
  BY ONLY <1>1, <1>3, <1>5, <1>7, w.server.work = "idle", ~FirstMessage(r), WorldPhases DEF PlainChange
<1> QED
  BY ONLY <1>1, <1>3, <1>5, <1>7, <1>8, w.server.work = "idle", PlainKeeps

(* server_client_dispatch: MSG_EXITING *)
LEMMA ExitingKeeps ==
    ASSUME NEW r, NEW w, Keeps(r, w),
           NEW v, v = Send([w EXCEPT !.server.session = FALSE], Plain("exited"))
    PROVE  Keeps(r, v) /\ Onward(w, v)
<1> DEFINE u == [w EXCEPT !.server.session = FALSE]
           srv == [w.server EXCEPT !.session = FALSE]
<1>1. w \in Worlds /\ w.server \in ServerType
  BY DEF Keeps, Worlds
<1>2. srv \in ServerType /\ srv.work = w.server.work /\ srv.flags = w.server.flags
      /\ srv.file = w.server.file
      /\ srv.next = w.server.next /\ srv.batch = w.server.batch /\ srv.session = FALSE
  BY <1>1 DEF ServerType
<1>3. u = [w EXCEPT !.server = srv]
  OBVIOUS
<1> HIDE DEF srv, u
<1>4. u \in Worlds /\ u.sent = w.sent /\ u.output = w.output /\ u.server = srv
  BY ONLY <1>1, <1>2, <1>3, SetServer
<1>5. PlainChange(w, u, r)
  BY ONLY <1>2, <1>4, Keeps(r, w), WorldPhases DEF PlainChange
<1>6. Keeps(r, u)
  BY ONLY <1>4, <1>5, Keeps(r, w), PlainKeeps
<1>7. Keeps(r, v)
  <2>1. v = Send(u, Plain("exited"))
    BY DEF u
  <2> QED
    BY ONLY <1>6, <2>1, PlainMessageKeeps
<1>8. v.server = u.server /\ v \in Worlds
  <2>1. Plain("exited") \in ToClient
    BY DEF Plain, Msg, ToClient
  <2>2. v = Send(u, Plain("exited"))
    BY DEF u
  <2> QED
    BY ONLY <1>4, <2>1, <2>2, SendFields
<1> QED
  BY ONLY <1>2, <1>4, <1>7, <1>8 DEF Onward

(* server_client_dispatch: MSG_WAKEUP and MSG_UNLOCK *)
LEMMA WakeupKeeps ==
    ASSUME NEW r, NEW w, Keeps(r, w), NEW v, v = [w EXCEPT !.server.flags = @ \ {"suspended"}]
    PROVE  /\ Keeps(r, v) /\ v.server.work = w.server.work /\ v.server.file = w.server.file
           /\ v.server.flags = w.server.flags \ {"suspended"}
<1> DEFINE srv == [w.server EXCEPT !.flags = @ \ {"suspended"}]
<1>1. w \in Worlds /\ w.server \in ServerType
  BY DEF Keeps, Worlds
<1>2. srv \in ServerType /\ srv.work = w.server.work /\ srv.flags = w.server.flags \ {"suspended"}
      /\ srv.file = w.server.file
      /\ srv.next = w.server.next /\ srv.batch = w.server.batch /\ srv.session = w.server.session
  BY <1>1 DEF ServerType
<1>3. v = [w EXCEPT !.server = srv]
  OBVIOUS
<1> HIDE DEF srv
<1>4. v \in Worlds /\ v.sent = w.sent /\ v.output = w.output /\ v.server = srv
  BY ONLY <1>1, <1>2, <1>3, SetServer
<1>5. PlainChange(w, v, r)
  BY ONLY <1>2, <1>4, Keeps(r, w), WorldPhases DEF PlainChange
<1> QED
  BY ONLY <1>2, <1>4, <1>5, Keeps(r, w), PlainKeeps

(* A message of the client is handled.                                      *)
LEMMA DispatchedKeeps ==
    ASSUME Core(State), server.batch > 0, NEW v \in Dispatched(Handling, Head(toServer))
    PROVE  /\ Keeps(Tail(toServer), v) /\ Stays(v)
           /\ \A t \in Stream, type \in Answers :
                Holds(toServer, type, t) /\ server.file[t].kind \in Waited
                  => Holds(Tail(toServer), type, t) \/ v.server.file[t].done
<1> DEFINE m == Head(toServer)
           r == Tail(toServer)
           s == m.stream
           w == Handling
           answered == m.type \in Answers /\ server.file[s].kind \in Waited => v.server.file[s].done
<1>1. /\ Keeps(r, w) /\ m \in ToServer /\ toServer # <<>>
      /\ w.server = [server EXCEPT !.batch = @ - 1]
      /\ w.sent = <<>> /\ w.output = output /\ w.fault = "none"
      /\ "dead" \notin server.flags
      /\ m.type \in {"command", "shell"} => server.work = "idle" /\ "bad" \notin server.flags
                                            /\ ~FirstMessage(r)
      /\ m.type = "writeready" =>
            /\ m.x = 1 /\ s \in Printing => s \in output.refused
            /\ server.file[s].kind # "none" => MayWrite(At(r, w), s)
      /\ m.type \in {"read", "readdone"} =>
            s \notin Printing /\ server.file[s].kind \in {"none", "load", "input"}
  BY PoppedKeeps
<1>2. server \in ServerType /\ toServer \in Seq(ToServer)
  BY Begins
<1>3. /\ w.server.flags = server.flags /\ w.server.file = server.file /\ w.server.work = server.work
  BY <1>1, <1>2 DEF ServerType
<1>4. v \in Dispatched(w, m)
  OBVIOUS
<1> HIDE DEF m, r, w
<1>5. Keeps(r, v) /\ Stays(v) /\ answered
  <2>1. CASE m.type = "command"
    <3>1. v \in Commands(w)
      BY <1>4, <2>1 DEF Dispatched
    <3>2. Keeps(r, v) /\ v.server.work # "waiting"
      BY ZenonT(60), <1>1, <1>3, <2>1, <3>1, CommandsKeeps
    <3> QED
      BY <2>1, <3>2 DEF Stays, Answers
  <2>2. CASE m.type = "shell"
    <3>1. v = Flagged(Send(w, Plain("doshell")), "bad")
      BY <1>4, <2>2 DEF Dispatched
    <3>2. Keeps(r, v) /\ v.server.work # "waiting"
      BY ONLY ZenonT(60), <1>1, <1>3, <2>2, <3>1, ShellKeeps
    <3> QED
      BY <2>2, <3>2 DEF Stays, Answers
  <2>3. CASE m.type = "exiting"
    <3>1. v = Send([w EXCEPT !.server.session = FALSE], Plain("exited"))
      BY <1>4, <2>3 DEF Dispatched
    <3>2. Keeps(r, v) /\ Onward(w, v)
      BY ONLY <1>1, <3>1, ExitingKeeps
    <3> QED
      BY <1>3, <2>3, <3>2, OnwardStays DEF Answers
  <2>4. CASE m.type \in {"wakeup", "unlock"}
    <3>1. v = [w EXCEPT !.server.flags = @ \ {"suspended"}]
      BY <1>4, <2>4 DEF Dispatched
    <3>2. /\ Keeps(r, v) /\ v.server.work = w.server.work /\ v.server.file = w.server.file
          /\ v.server.flags = w.server.flags \ {"suspended"}
      <4>1. Keeps(r, w)
        BY <1>1
      <4>2. \A u : u = [w EXCEPT !.server.flags = @ \ {"suspended"}] =>
               /\ Keeps(r, u) /\ u.server.work = w.server.work /\ u.server.file = w.server.file
               /\ u.server.flags = w.server.flags \ {"suspended"}
        BY ONLY <4>1, WakeupKeeps
      <4> QED
        BY ONLY <3>1, <4>2
    <3> QED
      BY <1>1, <1>3, <2>4, <3>2 DEF Stays, Answers
  <2>5. CASE m.type = "writeready"
    <3> DEFINE failed == m.x = 1
    <3>1. v = WriteReady(w, s, failed) /\ failed \in BOOLEAN
      BY <1>4, <2>5 DEF Dispatched
    <3>2. s \in Stream
      BY <1>1, <2>5 DEF ToServer
    <3>3. /\ failed /\ s \in Printing => s \in w.output.refused
          /\ w.server.file[s].kind # "none" => MayWrite(At(r, w), s)
          /\ "dead" \notin w.server.flags
      BY <1>1, <1>3, <2>5
    <3> HIDE DEF failed
    <3>4. /\ Keeps(r, v) /\ Onward(w, v)
          /\ s \notin Printing /\ w.server.file[s].kind # "none" => v.server.file[s].done
      BY <1>1, <3>1, <3>2, <3>3, WriteReadyKeeps
    <3>5. server.file[s].kind \in Waited => s \notin Printing
      BY <3>2 DEF Core, FileKept, State, Waited
    <3> QED
      BY <1>3, <3>4, <3>5, OnwardStays DEF Waited
  <2>6. CASE m.type = "read"
    <3>1. v = ReadData(w, s)
      BY <1>4, <2>6 DEF Dispatched
    <3>2. s \in Stream
      BY <1>1, <2>6 DEF ToServer
    <3>3. Keeps(r, v) /\ Onward(w, v)
      BY <1>1, <1>3, <2>6, <3>1, <3>2, ReadDataKeeps
    <3> QED
      BY <1>3, <2>6, <3>3, OnwardStays DEF Answers
  <2>7. CASE m.type = "readdone"
    <3> DEFINE failed == m.x = 1
    <3>1. v = ReadDone(w, s, failed) /\ failed \in BOOLEAN
      BY <1>4, <2>7 DEF Dispatched
    <3>2. s \in Stream
      BY <1>1, <2>7 DEF ToServer
    <3> HIDE DEF failed
    <3>3. /\ Keeps(r, v) /\ Onward(w, v)
          /\ w.server.file[s].kind # "none" => v.server.file[s].done
      BY <1>1, <2>7, <3>1, <3>2, ReadDoneKeeps
    <3> QED
      BY <1>3, <3>3, OnwardStays DEF Waited
  <2>8. m.type \in {"command", "shell", "exiting", "wakeup", "unlock", "writeready", "readdone", "read"}
    BY <1>1 DEF ToServer
  <2> QED
    BY <2>1, <2>2, <2>3, <2>4, <2>5, <2>6, <2>7, <2>8
<1>6. ASSUME NEW t \in Stream, NEW type \in Answers,
             Holds(toServer, type, t), server.file[t].kind \in Waited
      PROVE  Holds(r, type, t) \/ v.server.file[t].done
  <2>1. Holds(r, type, t) \/ (m.type = type /\ m.stream = t)
    BY <1>1, <1>2, <1>6, HeldRest DEF r, m
  <2> QED
    BY <1>5, <1>6, <2>1
<1> QED
  BY <1>5, <1>6 DEF r

Kept == Core(State) /\ (fault = "none" => Awaited(State)) /\ fault \in Fault
Before == Core(State) /\ Awaited(State)

(* A step of the server that keeps the invariant keeps the command waiting  *)
(* for something.                                                           *)
LEMMA ServerMoves ==
    ASSUME Before, NEW v, Keeps(toServer, v), Becomes(v), UNCHANGED toServer, Bystanders,
           v.fault = "none" => Stays(v)
    PROVE  Kept'
<1>1. Keeps(toServer', v)
  OBVIOUS
<1>2. Core(State)' /\ fault' \in Fault
  BY <1>1, StepEnds
<1>3. fault' = v.fault /\ process' = process /\ (pane' => pane)
  BY DEF Becomes, Bystanders
<1>4. \A t \in Stream, type \in Answers :
        Holds(toServer, type, t) /\ server.file[t].kind \in Waited
          => Holds(toServer', type, t) \/ v.server.file[t].done
  OBVIOUS
<1>5. fault' = "none" => Awaited(State)'
  BY <1>1, <1>3, <1>4, AwaitedStays DEF Before
<1> QED
  BY <1>2, <1>5 DEF Kept

(* What the server keeps changes and at most a plain message is sent.       *)
LEMMA PlainMoves ==
    ASSUME Before, NEW srv \in ServerType, NEW u, u = [World EXCEPT !.server = srv],
           PlainChange(World, u, toServer),
           NEW v, Becomes(v), UNCHANGED toServer, Bystanders,
           \/ v = u
           \/ \E type \in {"ready", "exec", "suspend", "lock", "exited", "doshell"} :
                 v = Send(u, Plain(type)) /\ (type = "ready" => "attached" \in srv.flags),
           srv.work = "waiting" =>
              /\ server.work = "waiting" /\ "dead" \notin server.flags
              /\ "exit" \in server.flags => "exit" \in srv.flags
              /\ "attached" \in srv.flags => "attached" \in server.flags
    PROVE  Kept'
<1>1. Keeps(toServer, World) /\ World.server = server /\ World \in Worlds /\ World.fault = "none"
  BY Begins DEF Before, Keeps
<1>2. u \in Worlds /\ u.server = srv /\ u.fault = "none"
  BY ONLY <1>1, srv \in ServerType, u = [World EXCEPT !.server = srv], SetServer
<1>3. Keeps(toServer, u)
  BY ONLY <1>1, <1>2, PlainChange(World, u, toServer), PlainKeeps
<1>4. Keeps(toServer, v) /\ v.server = srv
  <2>1. CASE v = u
    BY ONLY <1>2, <1>3, <2>1
  <2>2. ASSUME NEW type \in {"ready", "exec", "suspend", "lock", "exited", "doshell"},
               v = Send(u, Plain(type)), type = "ready" => "attached" \in srv.flags
        PROVE  Keeps(toServer, v) /\ v.server = srv
    <3>1. Keeps(toServer, v)
      BY ONLY <1>2, <1>3, <2>2, PlainMessageKeeps
    <3>2. Plain(type) \in ToClient
      BY DEF Plain, Msg, ToClient
    <3>3. v.server = u.server
      BY ONLY <1>2, <2>2, <3>2, SendFields
    <3> QED
      BY ONLY <1>2, <3>1, <3>3
  <2> QED
    BY <2>1, <2>2
<1>5. srv.file = server.file
  BY ONLY <1>1, <1>2, PlainChange(World, u, toServer) DEF PlainChange
<1>6. Stays(v)
  BY ONLY <1>4, <1>5, srv.work = "waiting" =>
              /\ server.work = "waiting" /\ "dead" \notin server.flags
              /\ "exit" \in server.flags => "exit" \in srv.flags
              /\ "attached" \in srv.flags => "attached" \in server.flags DEF Stays
<1> QED
  BY ONLY <1>4, <1>6, Before, Becomes(v), UNCHANGED toServer, Bystanders, ServerMoves

(* What a command, a user or the connection makes of the server. *)
LEMMA ServerFacts ==
    ASSUME Before
    PROVE  /\ server \in ServerType /\ World.server = server /\ World.sent = <<>>
           /\ World.output = output /\ Keeps(toServer, World) /\ World \in Worlds
           /\ server.session \/ "suspended" \in server.flags => "attached" \in server.flags
           /\ "bad" \in server.flags => server.work = "idle"
           /\ "dead" \in server.flags => server.batch = 0
           /\ server.batch <= Len(toServer) /\ server.batch \in Nat /\ Len(toServer) \in Nat
<1>1. Keeps(toServer, World) /\ World.server = server /\ toServer \in Seq(ToServer)
      /\ World.sent = <<>> /\ World.output = output /\ World \in Worlds
  BY Begins DEF Before, Keeps
<1>2. server.batch \in Nat
  BY Begins DEF Before, ServerType
<1> QED
  BY <1>1, <1>2, WorldPhases

(* proc_event_cb: messages are read                                         *)
LEMMA ServerReadKept ==
    ASSUME Before, ServerRead
    PROVE  Kept'
<1>1. PICK n \in 1 .. Len(toServer) :
         server' = [server EXCEPT !.batch = n, !.writing = toClient # <<>>]
  BY DEF ServerRead
<1> DEFINE b == toClient # <<>>
           srv == [server EXCEPT !.batch = n, !.writing = b]
           u == [World EXCEPT !.server = srv]
<1>2. server \in ServerType /\ n \in Nat /\ b \in BOOLEAN
  BY ServerFacts
<1> HIDE DEF b
<1>3. /\ srv \in ServerType /\ srv.flags = server.flags /\ srv.file = server.file
      /\ srv.work = server.work /\ srv.next = server.next /\ srv.session = server.session
      /\ srv.batch = n
  BY <1>2 DEF ServerType
<1> HIDE DEF srv
<1>4. u.server = srv /\ u.sent = <<>> /\ u.output = output /\ u.fault = "none"
  BY DEF World
<1>5. Becomes(u) /\ UNCHANGED toServer /\ Bystanders
  <2>1. toClient \o <<>> = toClient
    BY Begins DEF Before
  <2> QED
    BY <1>1, <1>4, <2>1 DEF ServerRead, Becomes, Free, srv, b
<1>6. "dead" \notin server.flags
  BY DEF ServerRead, Has
<1> HIDE DEF u
<1>7. PlainChange(World, u, toServer)
  BY <1>3, <1>4, <1>6, ServerFacts DEF PlainChange
<1> QED
  BY <1>3, <1>5, <1>6, <1>7, PlainMoves DEF u

(* server_client_dispatch: a message is handled                             *)
LEMMA ServerReceiveKept ==
    ASSUME Before, ServerReceive
    PROVE  Kept'
<1> DEFINE r == Tail(toServer)
<1>1. server.batch > 0 /\ toServer' = r /\ Bystanders
  BY DEF ServerReceive
<1>2. PICK v \in Dispatched(Handling, Head(toServer)) : Becomes(v) \/ Becomes(Lost(v))
  BY DEF ServerReceive, Handling
<1>3. /\ Keeps(r, v) /\ Stays(v)
      /\ \A t \in Stream, type \in Answers :
           Holds(toServer, type, t) /\ server.file[t].kind \in Waited
             => Holds(r, type, t) \/ v.server.file[t].done
  BY <1>1, DispatchedKeeps DEF Before
<1>4. CASE Becomes(v)
  <2>1. Core(State)' /\ fault' \in Fault
    BY <1>1, <1>3, <1>4, StepEnds
  <2>2. Awaited(State)'
    BY <1>1, <1>3, <1>4, AwaitedStays DEF Before, Bystanders
  <2> QED
    BY <2>1, <2>2 DEF Kept
<1>5. CASE Becomes(Lost(v))
  <2>1. Keeps(r, Lost(v)) /\ "dead" \in Lost(v).server.flags
    BY <1>3, LostKeeps
  <2>2. Core(State)' /\ fault' \in Fault
    BY <1>1, <1>5, <2>1, StepEnds
  <2>3. Awaited(State)'
    BY <1>5, <2>1 DEF Becomes, Awaited, State
  <2> QED
    BY <2>2, <2>3 DEF Kept
<1> QED
  BY <1>2, <1>4, <1>5

(* proc_event_cb: the connection is closed                                  *)
LEMMA ServerLosesKept ==
    ASSUME Before, ServerLoses
    PROVE  Kept'
<1>1. Keeps(toServer, Lost(World)) /\ "dead" \in Lost(World).server.flags
  BY ServerFacts, LostKeeps
<1>2. Stays(Lost(World))
  BY <1>1 DEF Stays
<1> QED
  BY <1>1, <1>2, ServerMoves DEF ServerLoses

(* file_fire_done_cb                                                        *)
LEMMA FileDoneKept ==
    ASSUME Before, NEW s \in Stream, FileDone(s)
    PROVE  Kept'
<1> DEFINE u == Done(World, s)
           v == World
<1>1. Keeps(toServer, v) /\ v.server = server /\ v.fault = "none"
  BY Begins DEF Before
<1>2. server.file[s].done /\ Becomes(u) /\ UNCHANGED toServer /\ Bystanders
  BY DEF FileDone
<1> HIDE DEF v
<1>3. u = Done(v, s)
  BY DEF v
<1> HIDE DEF u
<1>4. /\ Keeps(toServer, u)
      /\ v.server.flags \subseteq u.server.flags
      /\ u.server.work \in {v.server.work, "running"}
      /\ u.server.flags \subseteq v.server.flags \cup {"exit"}
      /\ \A t \in Stream : t \notin Printing /\ t # s =>
            /\ u.server.file[t].kind = v.server.file[t].kind
            /\ v.server.file[t].done => u.server.file[t].done
      /\ v.server.file[s].kind \in {"save", "load", "input"} =>
            \/ u.server.work = "running" \/ "dead" \in u.server.flags
            \/ ~pane /\ "exit" \in u.server.flags
            \/ u.fault # "none"
  BY <1>1, <1>2, <1>3, DoneKeeps
<1>5. \A t \in Stream : server.file[t].kind \in Waited => t \notin Printing
  BY DEF Before, Core, FileKept, State, Waited
<1>6. CASE ~pane /\ "exit" \in u.server.flags
  <2>1. Core(State)' /\ fault' \in Fault
    BY <1>2, <1>4, StepEnds
  <2>2. Awaited(State)'
    BY <1>2, <1>6 DEF Awaited, State, Becomes, Bystanders
  <2> QED
    BY <2>1, <2>2 DEF Kept
<1>7. CASE ~(~pane /\ "exit" \in u.server.flags)
  <2>1. u.fault = "none" => Stays(u)
    BY <1>1, <1>4, <1>5, <1>7 DEF Stays, Waited
  <2> QED
    BY <1>2, <1>4, <2>1, ServerMoves
<1> QED
  BY <1>6, <1>7

(* cmdq_print and cmdq_error                                                *)
LEMMA PrintOnKept ==
    ASSUME Before, NEW s \in Printing, PrintOn(s)
    PROVE  Kept'
<1> DEFINE u == Printed(World, s)
<1>1. /\ server.work = "running" /\ "dead" \notin server.flags /\ Becomes(u)
      /\ UNCHANGED toServer /\ Bystanders
  BY DEF PrintOn, Command, Running, Has
<1>2. Keeps(toServer, World) /\ World.server = server
  BY ServerFacts
<1>3. Keeps(toServer, u) /\ u.server.work = "running"
  BY <1>1, <1>2, PrintedKeeps, PrintedOnward
<1> HIDE DEF u
<1>4. Stays(u)
  BY <1>3 DEF Stays
<1> QED
  BY <1>1, <1>3, <1>4, ServerMoves

(* What did not parse is reported.                                          *)
LEMMA ReportKept ==
    ASSUME Before, Report
    PROVE  Kept'
<1> DEFINE p == Printed(World, 2)
           work == "done"
           u == [p EXCEPT !.server.work = work]
<1>1. /\ server.work = "failing" /\ "dead" \notin server.flags /\ Becomes(u)
      /\ UNCHANGED toServer /\ Bystanders
  BY DEF Report, Has
<1>2. Keeps(toServer, World) /\ World.server = server
  BY ServerFacts
<1>3. Keeps(toServer, p) /\ p.server.work = "failing"
  BY <1>1, <1>2, PrintedKeeps, PrintedOnward DEF Printing
<1>4. work \in {"running", "waiting", "done"} /\ work # "waiting"
  OBVIOUS
<1> HIDE DEF p, work
<1>5. Keeps(toServer, u) /\ u.server.work = work
  BY <1>3, <1>4, WorkKeeps
<1> HIDE DEF u
<1>6. Stays(u)
  BY <1>4, <1>5 DEF Stays
<1> QED
  BY <1>1, <1>5, <1>6, ServerMoves

(* server_client_set_session and MSG_READY                                  *)
LEMMA AttachKept ==
    ASSUME Before, Attach
    PROVE  Kept'
<1> DEFINE srv == [server EXCEPT !.flags = @ \cup {"attached"}, !.session = TRUE]
           u == [World EXCEPT !.server = srv]
           v == IF Has("control") THEN u ELSE Send(u, Plain("ready"))
<1>1. /\ server.work = "running" /\ "dead" \notin server.flags
      /\ UNCHANGED toServer /\ Bystanders
  BY DEF Attach, Command, Running, Has
<1>2. Becomes(v)
  <2>1. [Flagged(World, "attached") EXCEPT !.server.session = TRUE] = u
    BY ServerFacts DEF Flagged, Worlds, ServerType
  <2> QED
    BY <2>1 DEF Attach
<1>3. server \in ServerType
  BY ServerFacts
<1>4. /\ srv \in ServerType /\ srv.flags = server.flags \cup {"attached"} /\ srv.file = server.file
      /\ srv.work = server.work /\ srv.next = server.next /\ srv.session = TRUE
      /\ srv.batch = server.batch
  BY <1>3 DEF ServerType, Flag
<1> HIDE DEF srv
<1>5. u.server = srv /\ u.sent = <<>> /\ u.output = output
  BY DEF World
<1> HIDE DEF u
<1>6. PlainChange(World, u, toServer)
  BY ONLY <1>1, <1>4, <1>5, Before, ServerFacts DEF PlainChange
<1>7. \/ v = u
      \/ \E type \in {"ready", "exec", "suspend", "lock", "exited", "doshell"} :
            v = Send(u, Plain(type)) /\ (type = "ready" => "attached" \in srv.flags)
  BY <1>4
<1> HIDE DEF v
<1>8. srv.work # "waiting"
  BY <1>1, <1>4
<1> QED
  BY <1>1, <1>2, <1>4, <1>6, <1>7, <1>8, PlainMoves DEF u

(* server_client_command_done                                               *)
LEMMA CommandDoneKept ==
    ASSUME Before, CommandDone
    PROVE  Kept'
<1> DEFINE flags == IF Has("attached") THEN server.flags ELSE server.flags \cup {"exit"}
           srv == [server EXCEPT !.flags = flags, !.work = "done"]
           u == [World EXCEPT !.server = srv]
<1>1. /\ server.work = "running" /\ "dead" \notin server.flags
      /\ UNCHANGED toServer /\ Bystanders
  BY DEF CommandDone, Command, Running, Has
<1>2. Becomes(u)
  <2> DEFINE v == [World EXCEPT !.server.work = "done"]
  <2>1. (IF Has("attached") THEN v ELSE Flagged(v, "exit")) = u
    BY ZenonT(60), ServerFacts DEF Flagged, Worlds, ServerType
  <2> QED
    BY <2>1 DEF CommandDone
<1>3. server \in ServerType
  BY ServerFacts
<1>4. flags \subseteq Flag /\ server.flags \subseteq flags /\ flags \subseteq server.flags \cup {"exit"}
  BY <1>3 DEF ServerType, Flag
<1> HIDE DEF flags
<1>5. /\ srv \in ServerType /\ srv.flags = flags /\ srv.file = server.file
      /\ srv.work = "done" /\ srv.next = server.next /\ srv.session = server.session
      /\ srv.batch = server.batch
  BY <1>3, <1>4 DEF ServerType
<1> HIDE DEF srv
<1>6. u.server = srv /\ u.sent = <<>> /\ u.output = output
  BY DEF World
<1> HIDE DEF u
<1>7. PlainChange(World, u, toServer)
  BY ONLY <1>1, <1>4, <1>5, <1>6, Before, ServerFacts DEF PlainChange
<1>8. srv.work # "waiting"
  BY <1>5
<1> QED
  BY <1>1, <1>2, <1>5, <1>7, <1>8, PlainMoves DEF u

(* A key or a line of a control client                                      *)
LEMMA NewCommandKept ==
    ASSUME Before, NewCommand
    PROVE  Kept'
<1> DEFINE work == "running"
           u == [World EXCEPT !.server.work = work]
<1>1. /\ server.work = "done" /\ Becomes(u) /\ UNCHANGED toServer /\ Bystanders
  BY DEF NewCommand
<1>2. Keeps(toServer, World) /\ World.server = server
  BY ServerFacts
<1>3. work \in {"running", "waiting", "done"} /\ work # "waiting"
  OBVIOUS
<1> HIDE DEF work
<1>4. Keeps(toServer, u) /\ u.server.work = work
  BY <1>1, <1>2, <1>3, WorkKeeps
<1> HIDE DEF u
<1>5. Stays(u)
  BY <1>3, <1>4 DEF Stays
<1> QED
  BY <1>1, <1>4, <1>5, ServerMoves

(* server_client_detach                                                     *)
LEMMA DetachClientKept ==
    ASSUME Before, NEW type \in {"detach", "detachkill"}, DetachClient(type)
    PROVE  Kept'
<1> DEFINE srv == [server EXCEPT !.flags = @ \cup {"exit"}, !.exit = type]
           u == [World EXCEPT !.server = srv]
<1>1. "dead" \notin server.flags /\ UNCHANGED toServer /\ Bystanders
  BY DEF DetachClient, Other, Has
<1>2. Becomes(u)
  <2>1. [Flagged(World, "exit") EXCEPT !.server.exit = type] = u
    BY ServerFacts DEF Flagged, Worlds, ServerType
  <2> QED
    BY <2>1 DEF DetachClient
<1>3. server \in ServerType
  BY ServerFacts
<1>4. /\ srv \in ServerType /\ srv.flags = server.flags \cup {"exit"} /\ srv.file = server.file
      /\ srv.work = server.work /\ srv.next = server.next /\ srv.session = server.session
      /\ srv.batch = server.batch
  BY <1>3 DEF ServerType, Flag
<1> HIDE DEF srv
<1>5. u.server = srv /\ u.sent = <<>> /\ u.output = output
  BY DEF World
<1> HIDE DEF u
<1>6. PlainChange(World, u, toServer)
  BY ONLY <1>1, <1>4, <1>5, Before, ServerFacts DEF PlainChange
<1> QED
  BY <1>1, <1>2, <1>4, <1>6, PlainMoves DEF u

(* server_client_exec                                                       *)
LEMMA ExecClientKept ==
    ASSUME Before, ExecClient
    PROVE  Kept'
<1> DEFINE v == Send(World, Plain("exec"))
<1>1. Becomes(v) /\ "dead" \notin server.flags /\ UNCHANGED toServer /\ Bystanders
  BY DEF ExecClient, Other, Has
<1>2. Keeps(toServer, v)
  BY ServerFacts, PlainMessageKeeps
<1>3. v.server = server
  <2>1. Plain("exec") \in ToClient
    BY DEF Plain, Msg, ToClient
  <2> QED
    BY <2>1, ServerFacts, SendFields
<1> HIDE DEF v
<1>4. Stays(v)
  BY <1>3 DEF Stays
<1> QED
  BY <1>1, <1>2, <1>4, ServerMoves

(* server_client_suspend and server_lock_client say the same of the server. *)
LEMMA SuspendedKept ==
    ASSUME Before, NEW type \in {"suspend", "lock"}, server.session,
           Becomes(Send(Flagged(World, "suspended"), Plain(type))), UNCHANGED toServer, Bystanders,
           "dead" \notin server.flags
    PROVE  Kept'
<1> DEFINE srv == [server EXCEPT !.flags = @ \cup {"suspended"}]
           u == [World EXCEPT !.server = srv]
           v == Send(u, Plain(type))
<1>1. Becomes(v)
  <2>1. Flagged(World, "suspended") = u
    BY ServerFacts DEF Flagged, Worlds, ServerType
  <2> QED
    BY <2>1
<1>3. server \in ServerType /\ "attached" \in server.flags
  BY ServerFacts
<1>4. /\ srv \in ServerType /\ srv.flags = server.flags \cup {"suspended"} /\ srv.file = server.file
      /\ srv.work = server.work /\ srv.next = server.next /\ srv.session = server.session
      /\ srv.batch = server.batch
  BY <1>3 DEF ServerType, Flag
<1> HIDE DEF srv
<1>5. u.server = srv /\ u.sent = <<>> /\ u.output = output
  BY DEF World
<1> HIDE DEF u
<1>6. PlainChange(World, u, toServer)
  BY ONLY <1>3, <1>4, <1>5, Before, "dead" \notin server.flags, ServerFacts DEF PlainChange
<1>7. \E k \in {"ready", "exec", "suspend", "lock", "exited", "doshell"} :
            v = Send(u, Plain(k)) /\ (k = "ready" => "attached" \in srv.flags)
  OBVIOUS
<1> HIDE DEF v
<1> QED
  BY <1>1, <1>4, <1>6, <1>7, PlainMoves DEF u

(* server_client_suspend and server_lock_client                             *)
LEMMA SuspendClientKept ==
    ASSUME Before, SuspendClient \/ LockClient
    PROVE  Kept'
  BY SuspendedKept DEF SuspendClient, LockClient, Other, Has

(* file_get_path and the like: a command asks for a file and waits.         *)
LEMMA AskingKept ==
    ASSUME Before, NEW kind \in {"save", "load", "input"}, NEW d \in {NoDescriptor} \cup Descriptor,
           Asking(kind, d), server.work = "running", "dead" \notin server.flags,
           UNCHANGED toServer, Bystanders
    PROVE  Kept'
<1> DEFINE s == server.next
           srv == [server EXCEPT !.next = @ + 1]
           w == [World EXCEPT !.server = srv]
           r == toServer
           x == At(r, World)
           y == At(r, w)
<1>1. s \in Stream
  BY DEF Asking
<1>2. PICK v \in Ask([World EXCEPT !.server.next = @ + 1], s, kind, d) :
         Becomes([v EXCEPT !.server.work = "waiting"])
  BY DEF Asking
<1>3. /\ server \in ServerType /\ World \in Worlds /\ World.server = server /\ World.sent = <<>>
      /\ World.output = output /\ Keeps(r, World) /\ s \in Nat
      /\ toClient \in Seq(ToClient)
  BY ServerFacts DEF ServerType, Keeps
<1>4. /\ srv \in ServerType /\ srv.flags = server.flags /\ srv.file = server.file
      /\ srv.work = server.work /\ srv.next = s + 1 /\ srv.session = server.session
      /\ srv.batch = server.batch /\ srv.exit = server.exit
  BY <1>3 DEF ServerType
<1>5. [World EXCEPT !.server.next = @ + 1] = w
  BY <1>3 DEF Worlds
<1> HIDE DEF srv
<1>6. w \in Worlds /\ w.sent = World.sent /\ w.output = World.output /\ w.server = srv
  BY <1>3, <1>4, SetServer
<1> HIDE DEF w
<1>7. Typed(y) /\ Beside(x, y) /\ Core(x)
  BY <1>3, <1>6, AtTyped DEF Keeps
<1>8. x.server = server /\ y.server = srv /\ y.toClient = x.toClient /\ y.output = x.output
  BY ONLY <1>3, <1>6 DEF At
<1> HIDE DEF x, y
<1>9. Core(y) /\ Fresh(y, s)
  BY ONLY <1>1, <1>4, <1>7, <1>8, NumberGiven
<1>10. Keeps(r, w)
  BY <1>3, <1>6, <1>9 DEF Keeps, y
<1>11. v \in Ask(w, s, kind, d)
  BY <1>2, <1>5
<1>12. /\ Keeps(r, v) /\ OneFile(w.server, v.server, s)
       /\ v.server.file[s].kind = kind /\ Answering(At(r, v), s)
  BY <1>1, <1>4, <1>6, <1>9, <1>10, <1>11, AskKeeps DEF y
<1> DEFINE work == "waiting"
           u == [v EXCEPT !.server.work = work]
<1>13. work \in {"running", "waiting", "done"} /\ v.server.work # "idle" /\ Becomes(u)
  BY <1>2, <1>4, <1>6, <1>12 DEF OneFile
<1> HIDE DEF work
<1>14. /\ Keeps(r, u) /\ u.server.file = v.server.file /\ u.server.flags = v.server.flags
       /\ u.sent = v.sent
  BY <1>12, <1>13, WorkKeeps
<1> HIDE DEF u
<1>15. Core(State)' /\ fault' \in Fault
  BY <1>13, <1>14, StepEnds
<1>16. Awaited(State)'
  <2> SUFFICES ASSUME process.pc \in {"wait", "attached"}
               PROVE  \E t \in Stream :
                         server'.file[t].kind \in {"save", "load", "input"} /\ Coming(State', t)
    BY DEF Awaited, State, Bystanders
  <2>1. server' = u.server /\ toClient' = toClient \o v.sent /\ process' = process
    BY <1>13, <1>14 DEF Becomes, Bystanders
  <2>2. At(r, v).server = v.server /\ At(r, v).toClient = toClient \o v.sent
    BY AtFields
  <2>3. process.pc = "attached" => "attached" \in v.server.flags
    BY <1>12, AtFields DEF Keeps, Core, Phases
  <2>4. Coming(State', s)
    BY <1>12, <1>14, <2>1, <2>2, <2>3 DEF Coming, Answering, State
  <2> QED
    BY <1>1, <1>12, <1>14, <2>1, <2>4
<1> QED
  BY <1>15, <1>16 DEF Kept

(* save-buffer, show-buffer and load-buffer                                 *)
LEMMA BufferFileKept ==
    ASSUME Before, NEW kind \in {"save", "load"}, NEW d \in {NoDescriptor, 0, 1}, BufferFile(kind, d)
    PROVE  Kept'
<1>1. d \in {NoDescriptor} \cup Descriptor
  BY DEF Descriptor
<1> QED
  BY <1>1, AskingKept DEF BufferFile, Command, Running, Has

(* window_pane_start_input                                                  *)
LEMMA StartInputKept ==
    ASSUME Before, StartInput
    PROVE  Kept'
<1>1. 0 \in {NoDescriptor} \cup Descriptor
  BY DEF Descriptor
<1> QED
  BY <1>1, AskingKept DEF StartInput, Command, Running, Has

(* server_client_check_exit: all that was printed has been sent, so it is    *)
(* before the message to exit.                                              *)
LEMMA ToldToGo ==
    ASSUME NEW x, Core(x), NEW y, Typed(y), Beside(x, y),
           y.server.flags = x.server.flags \cup {"exited"}, y.server.session = x.server.session,
           y.server.work = x.server.work, y.server.next = x.server.next,
           y.server.batch = x.server.batch, y.server.file = x.server.file,
           "exited" \notin x.server.flags, "dead" \notin x.server.flags,
           \A s \in Stream : x.server.file[s].own => x.server.file[s].left = 0,
           NEW m \in ToClient, m.stream = 0, m.type # "ready",
           y.toClient \in {x.toClient, Append(x.toClient, m)},
           y.output.printed = x.output.printed, y.output.written = x.output.written,
           y.output.refused = x.output.refused, y.output.promised = x.output.printed
    PROVE  Core(y)
<1> DEFINE q == x.toClient
           r == y.toClient
           z == [server |-> y.server, process |-> y.process, toServer |-> y.toServer,
                 toClient |-> r, pane |-> y.pane, output |-> x.output]
<1>1. Typed(x)
  BY DEF Core
<1>2. q \in Seq(ToClient) /\ r \in Seq(ToClient) /\ Len(q) \in Nat /\ DOMAIN q = 1 .. Len(q)
  BY <1>1 DEF Typed
<1>3. /\ Extends(r, q, 0)
      /\ \A k \in DOMAIN r : \/ k \in DOMAIN q /\ r[k] = q[k]
                             \/ k = Len(q) + 1 /\ Len(r) = Len(q) + 1 /\ r[k] = m
  <2> HIDE DEF r, z
  <2>1. r \in {q, Append(q, m)}
    BY DEF r
  <2>2. CASE r = q
    <3>1. Extends(q, q, 0)
      BY ONLY <1>2, ExtendsNothing
    <3> QED
      BY ONLY <1>2, <2>2, <3>1
  <2>3. CASE r = Append(q, m)
    <3>1. Extends(Append(q, m), q, 0)
      BY ONLY <1>2, m \in ToClient, m.stream = 0, ExtendsOne
    <3>2. Len(r) = Len(q) + 1 /\ DOMAIN r = 1 .. Len(q) + 1
          /\ (\A k \in 1 .. Len(q) : r[k] = q[k]) /\ r[Len(q) + 1] = m
      BY ONLY <1>2, <2>3, m \in ToClient, Appended
    <3> QED
      BY ONLY <1>2, <2>3, <3>1, <3>2
  <2> QED
    BY ONLY <2>1, <2>2, <2>3
<1>4. \A k \in DOMAIN r : \/ k \in DOMAIN q /\ r[k] = q[k]
                          \/ k = Len(q) + 1 /\ Len(r) = Len(q) + 1 /\ r[k] = m
  BY <1>3
<1>5. Typed(z)
  BY <1>1 DEF Typed
<1>6. Serves(x, z, 0)
  <2>1. Without(y.toServer, x.toServer, 0)
    BY <1>1, ExtendsNothing DEF Typed, Beside
  <2>2. x.server.next \in Nat
    BY <1>1, NextNumber
  <2> QED
    BY <1>3, <2>1, <2>2 DEF Serves, Beside
<1>7. z.server = y.server /\ z.process = y.process /\ z.toServer = y.toServer
      /\ z.toClient = y.toClient /\ z.pane = y.pane /\ z.output.refused = y.output.refused
  OBVIOUS
<1> HIDE DEF z
<1>8. \A s \in Stream : s # 0
  BY ClientServerAssumption DEF Stream, Printing
<1>9. ASSUME NEW s \in Stream PROVE FileKept(y, s) /\ StreamKept(y, s) /\ Matched(y, s) /\ Known(y, s)
  <2>1. FileKept(z, s) /\ StreamKept(z, s) /\ Matched(z, s) /\ Known(z, s)
    BY <1>5, <1>6, <1>8, OtherFiles, OtherStreams, OtherMatched, OtherKnown
  <2>2. FileKept(y, s)
    BY <1>7, <2>1 DEF FileKept
  <2>3. StreamKept(y, s)
    BY <1>7, <2>1 DEF StreamKept
  <2>4. Matched(y, s)
    BY <1>7, <2>1 DEF Matched, Reading
  <2>5. Known(y, s)
    BY <1>7, <2>1 DEF Known, Ordered, InTurn
  <2> QED
    BY <2>2, <2>3, <2>4, <2>5
<1>10. \A t, s : Holds(r, t, s) => Holds(q, t, s) \/ (t = m.type /\ s = 0)
  BY <1>4 DEF Holds
<1>11. Phases(x) /\ Leaving(x)
  BY DEF Core
<1>12. Phases(y)
  <2>1. \A s \in Stream : Holds(r, "readcancel", s) => Holds(q, "readcancel", s)
    BY <1>8, <1>10
  <2>2. Holds(r, "ready", 0) => Holds(q, "ready", 0)
    BY <1>10
  <2> QED
    BY <1>11, <2>1, <2>2 DEF Phases, Beside
<1>13. Leaving(y)
  BY <1>11 DEF Leaving, Beside
<1>14. ASSUME NEW s \in Printing PROVE Sums(y, s)
  <2>1. Sums(x, s) /\ s \in Stream /\ 0 # s
    BY DEF Core, Stream, Printing
  <2>2. Chunks(r, Len(r), s) = Chunks(q, Len(q), s)
    BY ONLY <1>3, <2>1, ChunksExtended
  <2>3. Reached(y, s) = Reached(x, s) /\ Total(y, s) = Total(x, s)
    BY <2>2 DEF Reached, Total, Beside
  <2>4. Reached(x, s) \in Nat /\ Chunks(q, Len(q), s) \in Nat /\ x.output.printed[s] \in Nat
    BY <1>1, ReachedType, SumTypes
  <2>5. x.server.file[s].left = 0
    <3>1. FileKept(x, s)
      BY <2>1 DEF Core
    <3>2. CASE x.server.file[s].kind = "none"
      BY <3>1, <3>2 DEF FileKept, NoServerFile
    <3>3. CASE x.server.file[s].kind # "none"
      BY <2>1, <3>1, <3>3 DEF FileKept
    <3> QED
      BY <3>2, <3>3
  <2>6. Total(x, s) = Reached(x, s) + Chunks(q, Len(q), s)
    BY ONLY <2>4, <2>5 DEF Total
  <2>7. ASSUME Arriving(x, s) PROVE Arriving(y, s)
    <3>1. ASSUME y.process.pc = "wait", NEW k \in DOMAIN r, r[k].type \in {"exit", "shutdown"}
          PROVE  y.output.promised[s] <= Reached(y, s) + Chunks(r, k, s)
      <4>1. ~(k \in DOMAIN q /\ r[k] = q[k])
        <5>1. ASSUME k \in DOMAIN q, r[k] = q[k] PROVE FALSE
          <6>1. q[k] \in ToClient /\ q[k].type \in {"exit", "shutdown"}
            BY <1>2, <3>1, <5>1
          <6>2. q[k].stream = 0
            BY <6>1 DEF ToClient
          <6>3. Holds(q, "exit", 0) \/ Holds(q, "shutdown", 0)
            BY <5>1, <6>1, <6>2 DEF Holds
          <6> QED
            BY <1>11, <6>3 DEF Leaving
        <5> QED
          BY <5>1
      <4>2. k = Len(r)
        BY <1>4, <4>1
      <4>3. x.output.printed[s] = Reached(x, s) + Chunks(q, Len(q), s)
        BY <2>6, <2>7, <3>1 DEF Arriving, Beside
      <4>4. y.output.promised[s] = Reached(y, s) + Chunks(r, k, s)
        BY <2>2, <2>3, <4>2, <4>3
      <4> QED
        BY ONLY <2>2, <2>3, <2>4, <4>2, <4>4
    <3>2. ~x.process.told
      BY <1>11 DEF Leaving
    <3> QED
      BY <2>3, <2>7, <3>1, <3>2 DEF Arriving, Beside
  <2>8. "attached" \notin y.server.flags => Arrived(y, s)
    BY <1>11 DEF Leaving, Arrived, Beside
  <2> QED
    BY <2>1, <2>3, <2>7, <2>8 DEF Sums
<1> QED
  BY <1>9, <1>12, <1>13, <1>14 DEF Core

(* server_client_check_exit, as a step                                      *)
LEMMA CheckExitKept ==
    ASSUME Before, CheckExit
    PROVE  Kept'
<1> DEFINE m == Plain(server.exit)
           srv == [server EXCEPT !.flags = @ \cup {"exited"}]
           w == [World EXCEPT !.server = srv]
           t == Send(w, m)
           u == [t EXCEPT !.output.promised = output.printed]
           r == toServer
           x == At(r, World)
           y == At(r, u)
<1>1. /\ "exited" \notin server.flags /\ "dead" \notin server.flags
      /\ \A s \in Stream : server.file[s].own => server.file[s].left = 0
      /\ UNCHANGED toServer /\ Bystanders
  BY DEF CheckExit, CheckExitAtOnce, Has
<1>2. /\ server \in ServerType /\ World \in Worlds /\ World.server = server /\ World.sent = <<>>
      /\ World.output = output /\ Keeps(r, World) /\ output \in OutputType
      /\ toClient \in Seq(ToClient)
  BY ServerFacts DEF Keeps, Worlds
<1>3. Flagged(World, "exited") = w
  BY <1>2 DEF Flagged, Worlds
<1>4. Becomes(u)
  BY <1>3 DEF CheckExit, CheckExitAtOnce
<1>5. m \in ToClient /\ m.stream = 0 /\ m.type # "ready"
  BY <1>2 DEF ServerType, Plain, Msg, ToClient
<1>6. /\ srv \in ServerType /\ srv.flags = server.flags \cup {"exited"} /\ srv.file = server.file
      /\ srv.work = server.work /\ srv.next = server.next /\ srv.session = server.session
      /\ srv.batch = server.batch
  BY <1>2 DEF ServerType, Flag
<1> HIDE DEF srv, m
<1>7. w \in Worlds /\ w.sent = World.sent /\ w.output = World.output /\ w.server = srv
  BY <1>2, <1>6, SetServer
<1> HIDE DEF w
<1>8. /\ t \in Worlds /\ t.server = w.server /\ t.output = w.output
      /\ t.sent = w.sent \/ t.sent = Append(w.sent, m)
  BY <1>5, <1>7, SendFields
<1> HIDE DEF t
<1> DEFINE p == [output EXCEPT !.promised = output.printed]
<1>9. /\ p \in OutputType /\ p.promised = output.printed /\ p.printed = output.printed
      /\ p.written = output.written /\ p.refused = output.refused
  BY <1>2 DEF OutputType
<1>10. u \in Worlds /\ u.server = srv /\ u.sent = t.sent /\ u.output = p
  BY <1>2, <1>7, <1>8, <1>9 DEF Worlds
<1> HIDE DEF u, p
<1>11. Typed(y) /\ Beside(x, y) /\ Core(x)
  BY <1>2, <1>10, AtTyped DEF Keeps
<1>12. toClient \o World.sent = toClient /\ toClient \o u.sent \in {toClient, Append(toClient, m)}
  <2>0. <<>> \in Seq(ToClient) /\ toClient \o <<>> = toClient
    BY <1>2
  <2>1. CASE t.sent = w.sent
    BY ONLY <1>2, <1>7, <1>10, <2>0, <2>1
  <2>2. CASE t.sent = Append(w.sent, m)
    <3>1. toClient \o Append(<<>>, m) = Append(toClient \o <<>>, m)
      BY ONLY <1>2, <1>5, <2>0, AppendedLast
    <3> QED
      BY ONLY <1>2, <1>7, <1>10, <2>0, <2>2, <3>1
  <2> QED
    BY ONLY <1>8, <2>1, <2>2
<1>13. /\ x.server = server /\ y.server = srv /\ x.output = output /\ y.output = p
       /\ y.toClient \in {x.toClient, Append(x.toClient, m)}
  BY ONLY <1>2, <1>10, <1>12 DEF At
<1> HIDE DEF x, y
<1>14. Core(y)
  BY ONLY <1>1, <1>5, <1>6, <1>9, <1>11, <1>13, ToldToGo
<1>15. Keeps(r, u)
  BY <1>2, <1>10, <1>14 DEF Keeps, y
<1>16. Stays(u)
  BY <1>6, <1>10 DEF Stays
<1> QED
  BY <1>1, <1>4, <1>15, <1>16, ServerMoves

(* The pane that takes input is gone: less is known of the client than was. *)
LEMMA PaneGone ==
    ASSUME NEW x, Core(x), NEW y, Typed(y), y.server = x.server, y.process = x.process,
           y.toServer = x.toServer, y.toClient = x.toClient, y.output = x.output, y.pane = FALSE
    PROVE  Core(y)
<1>1. Phases(y) /\ Leaving(y)
  BY DEF Core, Phases, Leaving
<1>2. ASSUME NEW s \in Stream
      PROVE  FileKept(y, s) /\ StreamKept(y, s) /\ Matched(y, s) /\ Known(y, s)
  <2>1. FileKept(x, s) /\ StreamKept(x, s) /\ Matched(x, s) /\ Known(x, s)
    BY DEF Core
  <2>2. FileKept(y, s) /\ StreamKept(y, s) /\ Matched(y, s)
    BY <2>1 DEF FileKept, StreamKept, Matched, Reading
  <2>3. Known(y, s)
    BY <2>1 DEF Known, Ordered, InTurn
  <2> QED
    BY <2>2, <2>3
<1>3. ASSUME NEW s \in Printing PROVE Sums(y, s)
  <2>1. Sums(x, s)
    BY DEF Core
  <2> QED
    BY <2>1 DEF Sums, Total, Reached, Arriving, Arrived
<1> QED
  BY <1>1, <1>2, <1>3 DEF Core

(* q is what was queued, r as much of it as went out. *)
Prefix(r, q) ==
    /\ Len(q) \in Nat /\ Len(r) \in Nat /\ Len(r) <= Len(q)
    /\ DOMAIN q = 1 .. Len(q) /\ DOMAIN r = 1 .. Len(r)
    /\ \A k \in 1 .. Len(r) : r[k] = q[k]

(* A lost client that was attached gets no more than had been written to it. *)
LEMMA QueueCut ==
    ASSUME NEW x, Core(x), NEW y, Typed(y), y.server = x.server, Beside(x, y), y.output = x.output,
           Prefix(y.toClient, x.toClient), {"dead", "attached"} \subseteq x.server.flags
    PROVE  Core(y)
<1> DEFINE q == x.toClient
           r == y.toClient
<1>1. \A type, s : Holds(r, type, s) => Holds(q, type, s)
  BY DEF Holds, Prefix
<1>2. \A s : Silent(q, s) => Silent(r, s)
  BY DEF Silent, Prefix
<1>3. Phases(x) /\ Leaving(x)
  BY DEF Core
<1>4. Phases(y)
  BY <1>1, <1>3 DEF Phases, Beside
<1>5. Leaving(y)
  BY <1>1, <1>3 DEF Leaving, Beside
<1>6. ASSUME NEW s \in Stream
      PROVE  FileKept(y, s) /\ StreamKept(y, s) /\ Matched(y, s) /\ Known(y, s)
  <2>1. FileKept(x, s) /\ StreamKept(x, s) /\ Matched(x, s) /\ Known(x, s)
    BY DEF Core
  <2>2. FileKept(y, s)
    BY <2>1 DEF FileKept
  <2>3. StreamKept(y, s)
    BY <2>1 DEF StreamKept, Beside, Prefix
  <2>4. Matched(y, s)
    <3>1. Reading(y, s) => Reading(x, s)
      BY <1>1 DEF Reading, Beside
    <3> QED
      BY <2>1, <3>1 DEF Matched
  <2>5. Known(y, s)
    <3> SUFFICES ASSUME Heard(x) PROVE Ordered(y, s)
      BY DEF Known, Heard, Beside
    <3>1. Ordered(x, s)
      BY <2>1 DEF Known, Heard
    <3>2. InTurn(x, s) => InTurn(y, s)
      <4>1. \A k \in DOMAIN r : k \in DOMAIN q /\ r[k] = q[k]
        BY DEF Prefix
      <4> HIDE DEF q, r
      <4>2. y.toClient = r /\ x.toClient = q /\ y.toServer = x.toServer /\ y.process = x.process
        BY DEF q, r, Beside
      <4> SUFFICES ASSUME InTurn(x, s) PROVE InTurn(y, s)
        OBVIOUS
      <4>3. \A i \in DOMAIN q :
              q[i].stream = s /\ q[i].type \in {"writeopen", "readopen", "writeclose"}
                 => \A j \in DOMAIN q : q[j].stream = s => j <= i
        BY <4>2 DEF InTurn
      <4>4. \A i \in DOMAIN r :
              r[i].stream = s /\ r[i].type \in {"writeopen", "readopen", "writeclose"}
                 => \A j \in DOMAIN r : r[j].stream = s => j <= i
        BY <4>1, <4>3
      <4> QED
        BY <1>2, <4>1, <4>2, <4>4 DEF InTurn
    <3>3. ASSUME NEW i \in DOMAIN r, r[i].stream = s, r[i].type \in {"write", "writeclose"}
          PROVE  \/ x.process.file[s].kind = "write"
                 \/ \E j \in DOMAIN r : j < i /\ r[j].type = "writeopen" /\ r[j].stream = s
      <4>1. i \in DOMAIN q /\ r[i] = q[i]
        BY <3>3 DEF Prefix
      <4>2. \/ x.process.file[s].kind = "write"
            \/ \E j \in DOMAIN q : j < i /\ q[j].type = "writeopen" /\ q[j].stream = s
        BY <3>1, <3>3, <4>1 DEF Ordered
      <4>3. \A j \in DOMAIN q : j < i => j \in DOMAIN r /\ r[j] = q[j]
        BY <3>3 DEF Prefix
      <4> QED
        BY <4>2, <4>3
    <3> QED
      BY <1>2, <3>1, <3>2, <3>3 DEF Ordered, Beside
  <2> QED
    BY <2>2, <2>3, <2>4, <2>5
<1>7. ASSUME NEW s \in Printing PROVE Sums(y, s)
  <2>1. Sums(x, s)
    BY DEF Core
  <2>2. /\ Len(q) \in Nat /\ Len(r) \in Nat /\ Len(r) <= Len(q)
        /\ \A k \in 1 .. Len(r) : r[k] = q[k]
    BY DEF Prefix
  <2>3. Chunks(r, Len(r), s) = Chunks(q, Len(r), s)
    <3> HIDE DEF q, r
    <3> DEFINE n == Len(r)
    <3>1. n \in Nat /\ \A k \in 1 .. n : r[k] = q[k]
      BY <2>2
    <3> HIDE DEF n
    <3>2. Chunks(r, n, s) = Chunks(q, n, s)
      BY ONLY <3>1, ChunksSame
    <3> QED
      BY <3>2 DEF n
  <2>4. Chunks(q, Len(r), s) <= Chunks(q, Len(q), s)
    BY ONLY <2>2, ChunksFewer
  <2>5. Chunks(q, Len(r), s) \in Nat /\ Chunks(q, Len(q), s) \in Nat
    BY ONLY <2>2, ChunksFinite
  <2>6. Typed(x)
    BY DEF Core
  <2>7. Reached(x, s) \in Nat /\ x.server.file[s].left \in Nat /\ x.output.printed[s] \in Nat
    BY <2>6, ReachedType, SumTypes
  <2>8. Reached(y, s) = Reached(x, s)
    BY DEF Reached, Beside
  <2>9. Total(y, s) <= x.output.printed[s]
    BY <2>1, <2>3, <2>4, <2>5, <2>7, <2>8 DEF Sums, Total
  <2> QED
    BY <2>9 DEF Sums
<1> QED
  BY <1>4, <1>5, <1>6, <1>7 DEF Core

(* The pane is killed.                                                      *)
LEMMA KillPaneKept ==
    ASSUME Before, KillPane
    PROVE  Kept'
<1> DEFINE y == State'
<1>1. /\ State.server = server /\ State.process = process /\ State.toServer = toServer
      /\ State.toClient = toClient /\ State.output = output
  BY DEF State
<1>2. /\ y.server = server /\ y.process = process /\ y.toServer = toServer
      /\ y.toClient = toClient /\ y.output = output /\ y.pane = FALSE
  BY DEF State, KillPane
<1>3. Core(State) /\ Awaited(State)
  BY DEF Before
<1>4. Core(State')
  <2> HIDE DEF y
  <2>1. Typed(State)
    BY <1>3 DEF Core
  <2>2. Typed(y)
    BY <1>1, <1>2, <2>1 DEF Typed
  <2>3. Core(y)
    BY <1>1, <1>2, <1>3, <2>2, PaneGone
  <2> QED
    BY <2>3 DEF y
<1>5. Awaited(State')
  BY <1>1, <1>2, <1>3 DEF Awaited, Coming
<1>6. fault' = "none"
  BY DEF KillPane, Free
<1> QED
  BY <1>4, <1>5, <1>6 DEF Kept, Fault

(* server_send_exit *)
LEMMA KillServerKept ==
    ASSUME Before, KillServer
    PROVE  Kept'
<1> DEFINE srv == [server EXCEPT !.flags = @ \cup {"exit"}, !.exit = "shutdown", !.session = FALSE]
           u == [World EXCEPT !.server = srv]
           y == State'
<1>1. /\ server \in ServerType /\ World.server = server /\ World.sent = <<>>
      /\ World.output = output /\ Keeps(toServer, World) /\ World \in Worlds
      /\ World.fault = "none"
  BY ServerFacts, Begins DEF Before
<1>2. toClient \in Seq(ToClient)
  BY <1>1 DEF Keeps
<1>3. pane' = FALSE /\ toServer' = toServer /\ process' = process /\ "dead" \notin server.flags
  BY DEF KillServer, Has
<1>4. toClient \o World.sent = toClient
  BY <1>1, <1>2
<1>5. CASE Has("suspended")
  <2> DEFINE v == Lost(World)
             x == At(toServer, v)
             z == [server |-> v.server, process |-> process, toServer |-> toServer,
                   toClient |-> toClient', pane |-> pane, output |-> v.output]
  <2>1. PICK n \in 0 .. Len(toClient) : toClient' = SubSeq(toClient, 1, n)
    BY <1>5 DEF KillServer
  <2>2. /\ v \in Worlds /\ v.sent = World.sent /\ v.output = World.output
        /\ v.server.flags = server.flags \cup {"dead"}
    BY <1>1, LostFields
  <2>3. Core(x)
    BY <1>1, LostKeeps DEF Keeps
  <2>4. server' = v.server /\ fault' = v.fault /\ output' = output
    BY <1>5 DEF KillServer
  <2> HIDE DEF v
  <2>5. /\ x.server = v.server /\ x.process = process /\ x.toServer = toServer
        /\ x.toClient = toClient /\ x.pane = pane /\ x.output = v.output
    BY <1>4, <2>2 DEF At
  <2> HIDE DEF x
  <2>6. /\ z.server = v.server /\ z.process = process /\ z.toServer = toServer
        /\ z.toClient = toClient' /\ z.pane = pane /\ z.output = v.output
    OBVIOUS
  <2> HIDE DEF z
  <2>7. toClient' \in Seq(ToClient) /\ Prefix(toClient', toClient)
    <3>1. Len(toClient) \in Nat /\ DOMAIN toClient = 1 .. Len(toClient)
      BY <1>2
    <3>2. /\ toClient' \in Seq(ToClient) /\ Len(toClient') = n /\ DOMAIN toClient' = 1 .. n
          /\ \A k \in 1 .. n : toClient'[k] = toClient[k]
      BY <1>2, <2>1, <3>1
    <3> QED
      BY <3>1, <3>2 DEF Prefix
  <2>8. Typed(z) /\ Beside(x, z)
    BY <2>3, <2>5, <2>6, <2>7 DEF Core, Typed, Beside
  <2>9. {"dead", "attached"} \subseteq v.server.flags
    <3>1. "attached" \in server.flags
      BY <1>5, ServerFacts DEF Has
    <3> QED
      BY <2>2, <3>1
  <2>10. Core(z)
    BY <2>3, <2>5, <2>6, <2>7, <2>8, <2>9, QueueCut
  <2>11. /\ y.server = v.server /\ y.process = process /\ y.toServer = toServer
         /\ y.toClient = toClient' /\ y.pane = FALSE /\ y.output = v.output
    BY <1>1, <1>3, <2>2, <2>4 DEF State
  <2>12. Core(State')
    <3> HIDE DEF y
    <3>1. Typed(y)
      BY <2>6, <2>8, <2>11 DEF Typed
    <3>2. Core(y)
      BY <2>6, <2>10, <2>11, <3>1, PaneGone
    <3> QED
      BY <3>2 DEF y
  <2>13. Awaited(State')
    BY <2>9, <2>11 DEF Awaited
  <2>14. fault' \in Fault
    BY <2>2, <2>4 DEF Worlds
  <2> QED
    BY <2>12, <2>13, <2>14 DEF Kept
<1>6. CASE ~Has("suspended")
  <2> DEFINE v == [Flagged(World, "exit") EXCEPT !.server.exit = "shutdown", !.server.session = FALSE]
             x == At(toServer, u)
  <2>1. v = u
    BY <1>1 DEF Flagged, Worlds
  <2>2. Becomes(v)
    BY <1>6 DEF KillServer
  <2>3. Becomes(u)
    BY <2>1, <2>2
  <2> HIDE DEF v
  <2>4. /\ srv \in ServerType /\ srv.flags = server.flags \cup {"exit"} /\ srv.file = server.file
        /\ srv.work = server.work /\ srv.next = server.next /\ srv.session = FALSE
        /\ srv.batch = server.batch
    BY <1>1 DEF ServerType, Flag
  <2> HIDE DEF srv
  <2>5. /\ u \in Worlds /\ u.server = srv /\ u.sent = World.sent /\ u.output = World.output
        /\ u.fault = "none"
    BY <1>1, <2>4, SetServer
  <2> HIDE DEF u
  <2>6. /\ server.session \/ "suspended" \in server.flags => "attached" \in server.flags
        /\ "bad" \in server.flags => server.work = "idle"
        /\ "dead" \in server.flags => server.batch = 0
        /\ server.batch <= Len(toServer)
    BY ServerFacts
  <2>7. PlainChange(World, u, toServer)
    BY <1>1, <2>4, <2>5, <2>6 DEF PlainChange
  <2>8. Keeps(toServer, u)
    BY <1>1, <2>5, <2>7, PlainKeeps
  <2>9. Core(x)
    BY <2>8 DEF Keeps
  <2>10. /\ x.server = srv /\ x.process = process /\ x.toServer = toServer
         /\ x.toClient = toClient \o u.sent /\ x.pane = pane /\ x.output = u.output
    BY <2>5 DEF At
  <2>11. /\ y.server = srv /\ y.process = process /\ y.toServer = toServer
         /\ y.toClient = toClient \o u.sent /\ y.pane = FALSE /\ y.output = u.output
    BY <1>3, <2>3, <2>5 DEF State, Becomes
  <2> HIDE DEF x
  <2>12. Core(State')
    <3> HIDE DEF y
    <3>1. Typed(y)
      BY <2>9, <2>10, <2>11 DEF Core, Typed
    <3>2. Core(y)
      BY <2>9, <2>10, <2>11, <3>1, PaneGone
    <3> QED
      BY <3>2 DEF y
  <2>13. Awaited(State')
    BY <2>4, <2>11 DEF Awaited
  <2>14. fault' \in Fault
    BY <2>3, <2>5 DEF Becomes, Fault
  <2> QED
    BY <2>12, <2>13, <2>14 DEF Kept
<1> QED
  BY <1>5, <1>6

----------------------------------------------------------------------------
(* The steps of the client. *)

(* The client takes d messages, that are about the file s, and may say some *)
(* about it; s is 0 if they are about none.  Of its files it changes s.     *)
Takes(x, y, s, d) ==
    /\ d \in {0, 1}
    /\ y.server = x.server /\ y.pane = x.pane
    /\ Extends(y.toServer, x.toServer, s)
    /\ \A k \in Len(x.toServer) + 1 .. Len(y.toServer) :
          y.toServer[k].type \notin {"command", "shell"}
    /\ d = 0 => y.toClient = x.toClient
    /\ d = 1 => x.toClient # <<>> /\ x.toClient[1].stream = s /\ y.toClient = Tail(x.toClient)
    /\ y.process.told => x.process.told \/ (d = 1 /\ x.toClient[1].type \in {"exit", "shutdown"})
    /\ y.process.pc = "attached" =>
          x.process.pc = "attached" \/ (d = 1 /\ x.toClient[1].type = "ready")
    /\ y.process.pc \in {"wait", "attached"} /\ (y.process.pc = "wait" => x.process.pc = "wait")
    /\ y.process.why = x.process.why
    /\ \A t \in Stream : t # s => y.process.file[t] = x.process.file[t]
    /\ x.output.refused \subseteq y.output.refused
    /\ y.output.printed = x.output.printed /\ y.output.promised = x.output.promised
    /\ \A t \in Printing : t # s => y.output.written[t] = x.output.written[t]

(* What is left of the queue is what is behind those messages. *)
LEMMA TakenQueue ==
    ASSUME NEW x, Typed(x), NEW y, NEW s, NEW d, Takes(x, y, s, d)
    PROVE  /\ Without(y.toClient, x.toClient, d) /\ d \in {0, 1}
           /\ y.toClient \in Seq(ToClient) /\ Len(y.toClient) = Len(x.toClient) - d
           /\ \A k \in DOMAIN y.toClient :
                 k + d \in DOMAIN x.toClient /\ y.toClient[k] = x.toClient[k + d]
           /\ \A k \in DOMAIN x.toClient : k > d =>
                 k - d \in DOMAIN y.toClient /\ y.toClient[k - d] = x.toClient[k]
<1> DEFINE q == x.toClient
           r == y.toClient
<1>1. q \in Seq(ToClient) /\ d \in {0, 1}
  BY DEF Typed, Takes
<1>2. Without(r, q, d) /\ r \in Seq(ToClient) /\ Len(r) = Len(q) - d
  <2>1. CASE d = 0
    <3>1. r = q
      BY <2>1 DEF Takes
    <3>2. Without(q, q, 0)
      BY <1>1, ExtendsNothing
    <3>3. Len(q) - 0 = Len(q)
      BY <1>1
    <3> QED
      BY ONLY <1>1, <2>1, <3>1, <3>2, <3>3
  <2>2. CASE d = 1
    <3>1. q # <<>> /\ r = Tail(q)
      BY <2>2 DEF Takes
    <3> HIDE DEF q, r
    <3>2. Without(Tail(q), q, 1)
      BY <1>1, <3>1, WithoutFirst
    <3>3. r \in Seq(ToClient) /\ Len(r) = Len(q) - 1
      BY <1>1, <3>1, Popped
    <3> QED
      BY ONLY <1>1, <2>2, <3>1, <3>2, <3>3
  <2> QED
    BY <1>1, <2>1, <2>2
<1>3. \A k \in DOMAIN r : k + d \in DOMAIN q /\ r[k] = q[k + d]
  BY <1>1, <1>2 DEF Without
<1>4. ASSUME NEW k \in DOMAIN q, k > d PROVE k - d \in DOMAIN r /\ r[k - d] = q[k]
  <2>1. k - d \in 1 .. Len(q) - d /\ (k - d) + d = k
    BY <1>1, <1>2, <1>4 DEF Without
  <2> QED
    BY <1>2, <2>1 DEF Without
<1> QED
  BY <1>1, <1>2, <1>3, <1>4

(* Whether the first of d messages is a chunk of stream t. *)
Chunk(x, t, d) ==
    IF d = 1 /\ x.toClient[1].type = "write" /\ x.toClient[1].stream = t THEN 1 ELSE 0

(* ... and so are its chunks. *)
LEMMA TakenChunk ==
    ASSUME NEW x, Typed(x), NEW y, NEW s, NEW d, Takes(x, y, s, d), NEW t
    PROVE  /\ Chunk(x, t, d) \in {0, 1}
           /\ \A n \in 0 .. Len(y.toClient) :
                 /\ n + d \in 0 .. Len(x.toClient) /\ Chunks(y.toClient, n, t) \in Nat
                 /\ Chunks(x.toClient, n + d, t) = Chunks(y.toClient, n, t) + Chunk(x, t, d)
<1>0. d \in {0, 1} /\ Chunk(x, t, d) \in {0, 1}
  BY DEF Takes, Chunk
<1> SUFFICES ASSUME NEW n \in 0 .. Len(y.toClient)
             PROVE  /\ n + d \in 0 .. Len(x.toClient) /\ Chunks(y.toClient, n, t) \in Nat
                    /\ Chunks(x.toClient, n + d, t) = Chunks(y.toClient, n, t) + Chunk(x, t, d)
  BY <1>0
<1> DEFINE q == x.toClient
           r == y.toClient
           c == Chunk(x, t, d)
<1>1. /\ q \in Seq(ToClient) /\ Len(q) \in Nat /\ Len(r) = Len(q) - d
      /\ d = 0 => r = q
      /\ d = 1 => q # <<>> /\ r = Tail(q)
  <2>1. Len(r) = Len(q) - d
    BY TakenQueue
  <2>2. q \in Seq(ToClient) /\ Len(q) \in Nat
    BY DEF Typed
  <2>3. (d = 0 => r = q) /\ (d = 1 => q # <<>> /\ r = Tail(q))
    BY DEF Takes
  <2> QED
    BY <2>1, <2>2, <2>3
<1>2. d = 0 => c = 0
  BY DEF Chunk
<1>3. d = 1 => c = IF q[1].type = "write" /\ q[1].stream = t THEN 1 ELSE 0
  BY DEF Chunk
<1>4. n \in Nat /\ n <= Len(r)
  BY <1>1
<1> HIDE DEF q, r, c
<1>5. Chunks(r, n, t) \in Nat
  BY <1>4, ChunksFinite
<1>6. n + d \in 0 .. Len(q)
  BY <1>0, <1>1, <1>4
<1>7. Chunks(q, n + d, t) = Chunks(r, n, t) + c
  <2>1. CASE d = 0
    <3>1. n + d = n /\ Chunks(q, n, t) = Chunks(r, n, t) /\ c = 0
      BY <1>1, <1>2, <1>4, <2>1
    <3> QED
      BY <1>5, <3>1
  <2>2. CASE d = 1
    <3> DEFINE k == n + d
    <3>1. k \in 1 .. Len(q) /\ k - 1 = n
      BY <1>1, <1>4, <2>2
    <3> HIDE DEF k
    <3>2. Chunks(q, k, t) = Chunks(Tail(q), k - 1, t)
               + IF q[1].type = "write" /\ q[1].stream = t THEN 1 ELSE 0
      BY ONLY <1>1, <2>2, <3>1, ChunksPopped
    <3>3. Chunks(q, k, t) = Chunks(r, n, t) + c
      BY <1>1, <1>3, <2>2, <3>1, <3>2
    <3> QED
      BY <3>3 DEF k
  <2> QED
    BY <1>0, <2>1, <2>2
<1> QED
  BY <1>5, <1>6, <1>7 DEF q, r, c

(* The files that are not s. *)
LEMMA OtherTaken ==
    ASSUME NEW x, Core(x), NEW y, Typed(y), NEW s, NEW d, Takes(x, y, s, d),
           NEW t \in Stream, t # s
    PROVE  StreamKept(y, t) /\ Matched(y, t) /\ Known(y, t)
<1> DEFINE q == x.toClient
           r == y.toClient
<1>1. /\ y.server = x.server /\ y.pane = x.pane /\ y.process.file[t] = x.process.file[t]
      /\ Extends(y.toServer, x.toServer, s) /\ x.output.refused \subseteq y.output.refused
      /\ y.process.pc = "wait" => x.process.pc = "wait"
      /\ d = 1 => q[1].stream = s
  BY DEF Takes
<1>2. /\ d \in {0, 1}
      /\ \A k \in DOMAIN r : k + d \in DOMAIN q /\ r[k] = q[k + d]
      /\ \A k \in DOMAIN q : k > d => k - d \in DOMAIN r /\ r[k - d] = q[k]
      /\ r \in Seq(ToClient) /\ q \in Seq(ToClient)
  BY TakenQueue DEF Core, Typed
<1>3. StreamKept(x, t) /\ Matched(x, t) /\ Known(x, t)
  BY DEF Core
<1>4. \A type : Holds(y.toServer, type, t) <=> Holds(x.toServer, type, t)
  <2>1. ASSUME NEW type, Holds(y.toServer, type, t) PROVE Holds(x.toServer, type, t)
    BY ONLY <1>1, <2>1, t # s, OtherHolds
  <2>2. ASSUME NEW type, Holds(x.toServer, type, t) PROVE Holds(y.toServer, type, t)
    BY <1>1, <2>2 DEF Holds, Extends
  <2> QED
    BY <2>1, <2>2
<1>5. \A k \in DOMAIN y.toServer : y.toServer[k].stream = t =>
         k \in DOMAIN x.toServer /\ y.toServer[k] = x.toServer[k]
  BY <1>1 DEF Extends
<1>6. \A k \in DOMAIN q : q[k].stream = t => k > d
  BY <1>1, <1>2
<1>7. \A type : Holds(r, type, t) <=> Holds(q, type, t)
  BY <1>2, <1>6 DEF Holds
<1>8. Silent(q, t) => Silent(r, t)
  BY <1>2 DEF Silent
<1>9. StreamKept(y, t)
  <2>1. ASSUME t \in Printing, NEW k \in DOMAIN y.toServer, y.toServer[k] = Msg("writeready", t, 1)
        PROVE  t \in y.output.refused
    <3>1. k \in DOMAIN x.toServer /\ y.toServer[k] = x.toServer[k]
      BY <1>5, <2>1 DEF Msg
    <3> QED
      BY <1>1, <1>3, <2>1, <3>1 DEF StreamKept
  <2> QED
    BY <1>1, <1>2, <1>3, <2>1 DEF StreamKept
<1>10. Matched(y, t)
  <2>1. Reading(y, t) => Reading(x, t)
    BY <1>1, <1>4, <1>7 DEF Reading
  <2> QED
    BY <1>1, <1>3, <2>1 DEF Matched
<1>11. Known(y, t)
  <2> SUFFICES ASSUME Heard(y) PROVE Ordered(y, t)
    BY DEF Known, Heard
  <2>1. Ordered(x, t)
    BY <1>1, <1>3 DEF Known, Heard
  <2>2. ASSUME NEW i \in DOMAIN r, r[i].stream = t, r[i].type \in {"write", "writeclose"},
               y.process.file[t].kind # "write"
        PROVE  \E j \in DOMAIN r : j < i /\ r[j].type = "writeopen" /\ r[j].stream = t
    <3>1. i + d \in DOMAIN q /\ q[i + d] = r[i]
      BY <1>2, <2>2
    <3>2. PICK j \in DOMAIN q : j < i + d /\ q[j].type = "writeopen" /\ q[j].stream = t
      BY <1>1, <2>1, <2>2, <3>1 DEF Ordered
    <3>3. j > d
      BY <1>6, <3>2
    <3>4. j - d \in DOMAIN r /\ r[j - d] = q[j]
      BY <1>2, <3>3
    <3>5. j \in Nat /\ i \in Nat
      BY <1>2
    <3>6. j - d < i
      BY <1>2, <3>2, <3>5
    <3> QED
      BY <3>2, <3>4, <3>6
  <2>3. InTurn(x, t) => InTurn(y, t)
    <3> SUFFICES ASSUME InTurn(x, t) PROVE InTurn(y, t)
      OBVIOUS
    <3>1. \A i \in DOMAIN q : q[i].stream = t /\ q[i].type \in Ends
             => \A j \in DOMAIN q : q[j].stream = t => j <= i
      BY DEF InTurn, Ends
    <3>2. ASSUME NEW i \in DOMAIN r, r[i].stream = t, r[i].type \in Ends,
                 NEW j \in DOMAIN r, r[j].stream = t
          PROVE  j <= i
      <4>1. j + d <= i + d
        BY <1>2, <3>1, <3>2
      <4>2. j \in Nat /\ i \in Nat
        BY <1>2
      <4> QED
        BY <1>2, <4>1, <4>2
    <3>3. \A i \in DOMAIN q : q[i].stream = t /\ q[i].type \in Opens
             => x.process.file[t].kind = "none"
      BY DEF InTurn, Opens
    <3>4. \A i \in DOMAIN r : r[i].stream = t /\ r[i].type \in Opens
             => y.process.file[t].kind = "none"
      BY <1>1, <1>2, <3>3
    <3>5. ASSUME NEW i \in DOMAIN y.toServer, NEW j \in DOMAIN y.toServer,
                 y.toServer[i].type = "writeready", y.toServer[i].stream = t,
                 y.toServer[j].type = "writeready", y.toServer[j].stream = t
          PROVE  i = j
      BY <1>5, <3>5 DEF InTurn
    <3>6. Holds(y.toServer, "writeready", t) => y.process.file[t].kind = "write" /\ Silent(r, t)
      BY <1>1, <1>4, <1>8 DEF InTurn
    <3> QED
      BY <3>2, <3>4, <3>5, <3>6 DEF InTurn, Ends, Opens
  <2> QED
    BY <1>1, <1>4, <1>7, <1>8, <2>1, <2>2, <2>3 DEF Ordered
<1> QED
  BY <1>9, <1>10, <1>11

(* What was printed is still somewhere if the chunk that is taken is kept. *)
LEMMA TakenSums ==
    ASSUME NEW x, Core(x), NEW y, Typed(y), NEW s, NEW d, Takes(x, y, s, d),
           NEW t \in Printing, Reached(y, t) = Reached(x, t) + Chunk(x, t, d)
    PROVE  Sums(y, t)
<1> DEFINE q == x.toClient
           r == y.toClient
           c == Chunk(x, t, d)
<1>1. /\ y.server = x.server
      /\ x.output.refused \subseteq y.output.refused
      /\ y.output.printed = x.output.printed /\ y.output.promised = x.output.promised
      /\ y.process.pc = "wait" => x.process.pc = "wait"
      /\ y.process.pc # "gone"
      /\ y.process.told => x.process.told \/ (d = 1 /\ q[1].type \in {"exit", "shutdown"})
  BY DEF Takes
<1>2. Typed(x) /\ Sums(x, t)
  BY DEF Core
<1>3. /\ d \in {0, 1} /\ Len(q) \in Nat /\ Len(r) \in Nat /\ Len(r) = Len(q) - d
      /\ DOMAIN q = 1 .. Len(q) /\ DOMAIN r = 1 .. Len(r)
      /\ \A k \in DOMAIN r : k + d \in DOMAIN q /\ r[k] = q[k + d]
  <2>1. q \in Seq(ToClient) /\ r \in Seq(ToClient)
    BY <1>2 DEF Typed
  <2> QED
    BY <1>2, <2>1, TakenQueue
<1>4. ASSUME NEW n \in 0 .. Len(r)
      PROVE  n + d \in 0 .. Len(q) /\ Chunks(q, n + d, t) = Chunks(r, n, t) + c
             /\ Chunks(r, n, t) \in Nat
  BY <1>2, TakenChunk
<1>5. Chunks(q, Len(q), t) = Chunks(r, Len(r), t) + c /\ Chunks(r, Len(r), t) \in Nat
  <2>1. Len(r) \in 0 .. Len(r) /\ Len(r) + d = Len(q)
    BY <1>3
  <2> QED
    BY <1>4, <2>1
<1>6. /\ c \in {0, 1} /\ Reached(x, t) \in Nat /\ Reached(y, t) = Reached(x, t) + c
      /\ x.server.file[t].left \in Nat
  BY <1>2, ReachedType, SumTypes DEF Chunk
<1> HIDE DEF c
<1>7. Total(y, t) = Total(x, t)
  BY <1>1, <1>5, <1>6 DEF Total
<1>8. ASSUME Arriving(x, t) PROVE Arriving(y, t)
  <2> SUFFICES ASSUME y.process.pc = "wait"
               PROVE  /\ "dead" \notin y.server.flags => Total(y, t) = y.output.printed[t]
                      /\ \A k \in DOMAIN r : r[k].type \in {"exit", "shutdown"} =>
                            y.output.promised[t] <= Reached(y, t) + Chunks(r, k, t)
                      /\ y.process.told => y.output.promised[t] <= Reached(y, t)
    BY DEF Arriving
  <2>1. /\ "dead" \notin x.server.flags => Total(x, t) = x.output.printed[t]
        /\ \A k \in DOMAIN q : q[k].type \in {"exit", "shutdown"} =>
              x.output.promised[t] <= Reached(x, t) + Chunks(q, k, t)
        /\ x.process.told => x.output.promised[t] <= Reached(x, t)
    BY <1>1, <1>8 DEF Arriving
  <2>2. x.output.promised[t] \in Nat
    BY <1>2, SumTypes
  <2>3. ASSUME NEW k \in DOMAIN r, r[k].type \in {"exit", "shutdown"}
        PROVE  y.output.promised[t] <= Reached(y, t) + Chunks(r, k, t)
    <3>1. k \in 0 .. Len(r)
      BY <1>3
    <3>2. /\ Chunks(q, k + d, t) = Chunks(r, k, t) + c /\ Chunks(r, k, t) \in Nat
          /\ k + d \in DOMAIN q /\ q[k + d] = r[k]
      BY <1>3, <1>4, <3>1
    <3>3. x.output.promised[t] <= Reached(x, t) + Chunks(q, k + d, t)
      BY <2>1, <2>3, <3>2
    <3> QED
      BY <1>1, <1>6, <2>2, <3>2, <3>3
  <2>4. ASSUME y.process.told PROVE y.output.promised[t] <= Reached(y, t)
    <3>1. CASE x.process.told
      BY <1>1, <1>6, <2>1, <2>2, <3>1
    <3>2. CASE d = 1 /\ q[1].type \in {"exit", "shutdown"}
      <4>1. 1 \in DOMAIN q /\ 0 \in 0 .. Len(r) /\ 0 + d = 1
        BY <1>3, <3>2
      <4>2. Chunks(q, 1, t) = Chunks(r, 0, t) + c
        BY <1>4, <4>1
      <4>3. Chunks(r, 0, t) = 0
        <5>1. Carrying(r, 0, t) = {}
          BY DEF Carrying
        <5> QED
          BY <5>1, FS_EmptySet DEF Chunks
      <4>4. x.output.promised[t] <= Reached(x, t) + Chunks(q, 1, t)
        BY <2>1, <3>2, <4>1
      <4> QED
        BY <1>1, <1>6, <2>2, <4>2, <4>3, <4>4
    <3> QED
      BY <1>1, <2>4, <3>1, <3>2
  <2> QED
    BY <1>1, <1>7, <2>1, <2>3, <2>4
<1>9. Arrived(y, t)
  BY <1>1 DEF Arrived
<1> QED
  BY <1>1, <1>2, <1>7, <1>8, <1>9 DEF Sums

(* If less is kept, then of a stream that nothing is promised of. *)
LEMMA TakenLess ==
    ASSUME NEW x, Core(x), NEW y, Typed(y), NEW s, NEW d, Takes(x, y, s, d),
           NEW t \in Printing, Reached(y, t) <= Reached(x, t),
           t \in y.output.refused \/ "attached" \in x.server.flags
    PROVE  Sums(y, t)
<1> DEFINE q == x.toClient
           r == y.toClient
<1>0. Typed(x)
  BY DEF Core
<1>1. Typed(x) /\ Sums(x, t) /\ y.server = x.server /\ y.output.printed = x.output.printed
  BY DEF Core, Takes
<1>2. q \in Seq(ToClient) /\ r \in Seq(ToClient) /\ Len(r) \in Nat /\ Len(q) \in Nat
  BY <1>1 DEF Typed
<1>3. d \in {0, 1} /\ Len(r) = Len(q) - d
  BY <1>1, TakenQueue
<1>4. Chunks(r, Len(r), t) \in Nat /\ Chunks(q, Len(q), t) \in Nat
      /\ Chunks(r, Len(r), t) <= Chunks(q, Len(q), t)
  <2>1. Len(r) \in 0 .. Len(r) /\ Len(r) + d = Len(q)
    BY <1>2, <1>3
  <2>2. /\ Chunk(x, t, d) \in {0, 1}
        /\ \A n \in 0 .. Len(y.toClient) :
              /\ n + d \in 0 .. Len(x.toClient) /\ Chunks(y.toClient, n, t) \in Nat
              /\ Chunks(x.toClient, n + d, t) = Chunks(y.toClient, n, t) + Chunk(x, t, d)
    BY <1>0, TakenChunk
  <2> QED
    BY <2>1, <2>2
<1>5. /\ Reached(x, t) \in Nat /\ Reached(y, t) \in Nat /\ x.server.file[t].left \in Nat
      /\ x.output.printed[t] \in Nat
  BY <1>1, ReachedType, SumTypes
<1>6. Total(y, t) <= Total(x, t)
  BY <1>1, <1>4, <1>5 DEF Total
<1>7. Total(y, t) <= x.output.printed[t]
  BY <1>1, <1>4, <1>5, <1>6 DEF Sums, Total
<1> QED
  BY <1>1, <1>7 DEF Sums

(* What was printed on streams that are not s. *)
LEMMA OtherTakenSums ==
    ASSUME NEW x, Core(x), NEW y, Typed(y), NEW s, NEW d, Takes(x, y, s, d),
           NEW t \in Printing, t # s
    PROVE  Sums(y, t)
<1>1. Reached(x, t) \in Nat /\ t \in Stream
  BY ReachedType, SumTypes DEF Core
<1>2. Reached(y, t) = Reached(x, t)
  BY <1>1 DEF Takes, Reached
<1>3. Chunk(x, t, d) = 0
  BY DEF Chunk, Takes
<1> QED
  BY <1>1, <1>2, <1>3, TakenSums

(* What the two are doing, when the client has done something. *)
LEMMA TakenPhases ==
    ASSUME NEW x, Core(x), NEW y, Typed(y), NEW s, NEW d, Takes(x, y, s, d)
    PROVE  Phases(y) /\ Leaving(y)
<1> DEFINE q == x.toClient
           r == y.toClient
<1>1. Phases(x) /\ Leaving(x) /\ Typed(x)
  BY DEF Core
<1>2. /\ d \in {0, 1} /\ q \in Seq(ToClient)
      /\ \A k \in DOMAIN r : k + d \in DOMAIN q /\ r[k] = q[k + d]
  BY <1>1, TakenQueue DEF Typed
<1>3. \A type, t : Holds(r, type, t) => Holds(q, type, t)
  BY <1>2 DEF Holds
<1>4. ASSUME d = 1 PROVE 1 \in DOMAIN q /\ q[1] \in ToClient
  <2>1. q # <<>>
    BY <1>4 DEF Takes
  <2> QED
    BY <1>2, <2>1
<1>5. \A type \in {"ready", "exit", "shutdown"} : d = 1 /\ q[1].type = type => Holds(q, type, 0)
  BY <1>4 DEF Holds, ToClient
<1>6. Phases(y)
  <2>1. /\ y.server = x.server /\ y.pane = x.pane
        /\ y.process.pc \in {"wait", "attached"}
        /\ y.process.pc = "attached" =>
             x.process.pc = "attached" \/ (d = 1 /\ q[1].type = "ready")
    BY DEF Takes
  <2>2. /\ Len(x.toServer) <= Len(y.toServer) /\ Len(x.toServer) \in Nat /\ Len(y.toServer) \in Nat
        /\ \A k \in DOMAIN y.toServer : y.toServer[k].type \in {"command", "shell"} =>
              k \in DOMAIN x.toServer /\ y.toServer[k] = x.toServer[k]
    BY DEF Takes, Extends
  <2>3. x.server.batch \in Nat
    BY <1>1 DEF Typed, ServerType
  <2>4. y.server.batch <= Len(y.toServer)
    BY <1>1, <2>1, <2>2, <2>3 DEF Phases
  <2>5. \A t \in Stream : Holds(r, "readcancel", t) => ~y.pane /\ "exit" \in y.server.flags
    BY <1>1, <1>3, <2>1 DEF Phases
  <2>6. y.process.pc = "attached" \/ Holds(r, "ready", 0) => "attached" \in y.server.flags
    BY <1>1, <1>3, <1>5, <2>1 DEF Phases
  <2>7. y.process.pc # "fatal"
    BY <2>1
  <2> HIDE DEF q, r
  <2> QED
    BY <1>1, <2>1, <2>2, <2>4, <2>5, <2>6, <2>7 DEF Phases, q, r
<1>7. Leaving(y)
  BY <1>1, <1>3, <1>5 DEF Leaving, Takes
<1> QED
  BY <1>6, <1>7

(* If the client takes a step for the file s, it is that one that has to be *)
(* as it should; a step for none keeps everything.                          *)
LEMMA Taken ==
    ASSUME NEW x, Core(x), NEW y, Typed(y), NEW s, NEW d, Takes(x, y, s, d),
           s \in Stream => StreamKept(y, s) /\ Matched(y, s) /\ Known(y, s),
           s \in Printing => Sums(y, s)
    PROVE  Core(y)
<1>1. Phases(y) /\ Leaving(y)
  BY TakenPhases
<1>2. ASSUME NEW t \in Stream PROVE StreamKept(y, t) /\ Matched(y, t) /\ Known(y, t)
  BY OtherTaken
<1>3. ASSUME NEW t \in Stream PROVE FileKept(y, t)
  <2>1. FileKept(x, t) /\ y.server = x.server /\ x.output.refused \subseteq y.output.refused
    BY DEF Core, Takes
  <2> QED
    BY <2>1 DEF FileKept
<1>4. ASSUME NEW t \in Printing PROVE Sums(y, t)
  BY OtherTakenSums
<1> QED
  BY <1>1, <1>2, <1>3, <1>4 DEF Core

(* The client is gone: because it was told to and has nothing left to write, *)
(* or for another reason; or over a stream it does not know.                *)
LEMMA ClientGone ==
    ASSUME NEW x, Core(x), NEW y, Typed(y), y.server = x.server, y.pane = x.pane,
           y.toServer = x.toServer, y.toClient = x.toClient, y.output = x.output,
           y.process.file = x.process.file, y.process.told = x.process.told,
           \/ y.process.pc = "gone"
           \/ y.process.pc = "fatal" /\ ~x.pane,
           y.process.why = "told" =>
              \/ "attached" \in x.server.flags
              \/ /\ x.process.pc = "wait" /\ x.process.told
                 /\ \A s \in Printing : x.process.file[s].left = 0
    PROVE  Core(y)
<1>1. Phases(y) /\ Leaving(y)
  BY DEF Core, Phases, Leaving
<1>2. ASSUME NEW s \in Stream
      PROVE  FileKept(y, s) /\ StreamKept(y, s) /\ Matched(y, s) /\ Known(y, s)
  <2>1. FileKept(x, s) /\ StreamKept(x, s) /\ Matched(x, s)
    BY DEF Core
  <2>2. FileKept(y, s) /\ StreamKept(y, s) /\ Matched(y, s)
    BY <2>1 DEF FileKept, StreamKept, Matched, Reading
  <2> QED
    BY <2>2 DEF Known
<1>3. ASSUME NEW s \in Printing PROVE Sums(y, s)
  <2>1. Sums(x, s) /\ Typed(x)
    BY DEF Core
  <2>2. Total(y, s) = Total(x, s)
    BY DEF Total, Reached
  <2>3. ASSUME s \notin y.output.refused, "attached" \notin y.server.flags, y.process.why = "told"
        PROVE  y.output.promised[s] <= y.output.written[s]
    <3>1. x.process.pc = "wait" /\ x.process.told /\ x.process.file[s].left = 0
      BY <2>3
    <3>2. x.output.promised[s] <= Reached(x, s)
      BY <2>1, <2>3, <3>1 DEF Sums, Arriving
    <3>3. x.output.written[s] \in Nat
      BY <2>1, SumTypes
    <3>4. Reached(x, s) = x.output.written[s]
      BY <3>1, <3>3 DEF Reached
    <3> QED
      BY <3>2, <3>4
  <2> QED
    BY <2>1, <2>2, <2>3 DEF Sums, Arriving, Arrived
<1> QED
  BY <1>1, <1>2, <1>3 DEF Core

(* What the client says about a file it reads. *)
SaysRead(x, y, s) ==
    \A k \in Len(x.toServer) + 1 .. Len(y.toServer) :
        y.toServer[k].type \in {"read", "readdone"} /\ Reading(x, s)

(* A file of the client may be closed: it was read, or the server has said  *)
(* all it had to say of it.                                                 *)
MayClose(x, s, d) ==
    Heard(x) => \/ x.process.file[s].kind = "read"
                \/ d = 1 /\ x.toClient[1].type = "writeclose"

(* A file of the client is written, read or closed: nothing is opened.      *)
LEMMA TakenKept ==
    ASSUME NEW x, Core(x), NEW y, Typed(y), NEW s \in Stream, NEW d, Takes(x, y, s, d),
           SaysRead(x, y, s),
           Heard(x) => ~(d = 1 /\ x.toClient[1].type \in Opens),
           \/ y.process.file[s].kind = x.process.file[s].kind
           \/ y.process.file[s].kind = "none" /\ s \notin Printing /\ MayClose(x, s, d),
           s \in Printing =>
              /\ y.process.file[s].left > 0 => y.process.file[s].kind = "write"
              /\ y.process.file[s].kind = "write" /\ ~y.process.file[s].open => s \in y.output.refused
    PROVE  StreamKept(y, s) /\ Matched(y, s) /\ Known(y, s)
<1> DEFINE q == x.toClient
           r == y.toClient
           f == x.process.file[s]
           g == y.process.file[s]
<1>1. /\ y.server = x.server /\ y.pane = x.pane
      /\ Extends(y.toServer, x.toServer, s) /\ x.output.refused \subseteq y.output.refused
      /\ y.process.pc = "wait" => x.process.pc = "wait"
      /\ d = 1 => q[1].stream = s
  BY DEF Takes
<1>2. /\ d \in {0, 1}
      /\ \A k \in DOMAIN r : k + d \in DOMAIN q /\ r[k] = q[k + d]
      /\ \A k \in DOMAIN q : k > d => k - d \in DOMAIN r /\ r[k - d] = q[k]
      /\ q \in Seq(ToClient) /\ r \in Seq(ToClient)
  BY TakenQueue DEF Core, Typed
<1>3. d = 1 => 1 \in DOMAIN q /\ q[1].stream = s
  <2>1. d = 1 => q # <<>>
    BY DEF Takes
  <2> QED
    BY <1>1, <1>2, <2>1
<1>4. StreamKept(x, s) /\ Matched(x, s) /\ Known(x, s) /\ FileKept(x, s)
  BY DEF Core
<1>5. \A k \in DOMAIN y.toServer :
         \/ k \in DOMAIN x.toServer /\ y.toServer[k] = x.toServer[k]
         \/ y.toServer[k].type \in {"read", "readdone"} /\ Reading(x, s)
  BY <1>1 DEF SaysRead, Extends
<1>6. Holds(y.toServer, "writeready", s) => Holds(x.toServer, "writeready", s)
  BY <1>5 DEF Holds
<1>7. \A type : Holds(r, type, s) => Holds(q, type, s)
  BY <1>2 DEF Holds
<1>8. StreamKept(y, s)
  <2>1. ASSUME s \in Printing, NEW k \in DOMAIN y.toServer, y.toServer[k] = Msg("writeready", s, 1)
        PROVE  s \in y.output.refused
    <3>1. k \in DOMAIN x.toServer /\ y.toServer[k] = x.toServer[k]
      BY <1>5, <2>1 DEF Msg
    <3> QED
      BY <1>1, <1>4, <2>1, <3>1 DEF StreamKept
  <2>2. ASSUME s \in Printing, NEW k \in DOMAIN r, r[k].stream = s
        PROVE  r[k].type \in {"write", "writeopen"}
    BY <1>2, <1>4, <2>2 DEF StreamKept
  <2> QED
    BY <2>1, <2>2 DEF StreamKept
<1>9. Matched(y, s)
  <2>1. \A type \in {"read", "readdone"} : Holds(y.toServer, type, s) =>
           Holds(x.toServer, type, s) \/ Reading(x, s)
    BY <1>5 DEF Holds
  <2>2. g.kind = "read" => f.kind = "read"
    OBVIOUS
  <2>3. Reading(y, s) => Reading(x, s)
    BY <1>7, <2>1, <2>2 DEF Reading
  <2> QED
    BY <1>1, <1>4, <2>3 DEF Matched
<1>10. Known(y, s)
  <2> SUFFICES ASSUME Heard(y) PROVE Ordered(y, s)
    BY DEF Known, Heard
  <2>1. Heard(x) /\ Ordered(x, s)
    BY <1>1, <1>4 DEF Known, Heard
  <2>2. ~(d = 1 /\ q[1].type \in Opens)
    BY <2>1
  <2>3. s \notin Printing => InTurn(x, s)
    BY <2>1 DEF Ordered
  <2>4. Silent(q, s) => Silent(r, s)
    BY <1>2 DEF Silent
  <2>5. f.kind = "read" => ~Holds(x.toServer, "writeready", s) /\ s \notin Printing
    BY <1>4, <2>3 DEF Matched, Reading, InTurn
  <2>6. d = 1 => ~Silent(q, s)
    BY <1>3 DEF Silent
  <2>7. CASE g.kind = f.kind
    <3>1. s \notin Printing => InTurn(y, s)
      <4> SUFFICES ASSUME InTurn(x, s) PROVE InTurn(y, s)
        BY <2>3
      <4>1. \A i \in DOMAIN q : q[i].stream = s /\ q[i].type \in Ends
               => \A j \in DOMAIN q : q[j].stream = s => j <= i
        BY DEF InTurn, Ends
      <4>2. ASSUME NEW i \in DOMAIN r, r[i].stream = s, r[i].type \in Ends,
                   NEW j \in DOMAIN r, r[j].stream = s
            PROVE  j <= i
        <5>1. j + d <= i + d
          BY <1>2, <4>1, <4>2
        <5>2. j \in Nat /\ i \in Nat
          BY <1>2
        <5> QED
          BY <1>2, <5>1, <5>2
      <4>3. \A i \in DOMAIN q : q[i].stream = s /\ q[i].type \in Opens => f.kind = "none"
        BY DEF InTurn, Opens
      <4>4. \A i \in DOMAIN r : r[i].stream = s /\ r[i].type \in Opens => g.kind = "none"
        BY <1>2, <2>7, <4>3
      <4>5. ASSUME NEW i \in DOMAIN y.toServer, NEW j \in DOMAIN y.toServer,
                   y.toServer[i].type = "writeready", y.toServer[i].stream = s,
                   y.toServer[j].type = "writeready", y.toServer[j].stream = s
            PROVE  i = j
        <5>1. /\ i \in DOMAIN x.toServer /\ y.toServer[i] = x.toServer[i]
              /\ j \in DOMAIN x.toServer /\ y.toServer[j] = x.toServer[j]
          BY <1>5, <4>5
        <5> QED
          BY <4>5, <5>1 DEF InTurn
      <4>6. Holds(y.toServer, "writeready", s) => g.kind = "write" /\ Silent(r, s)
        BY <1>6, <2>4, <2>7 DEF InTurn
      <4> QED
        BY <4>2, <4>4, <4>5, <4>6 DEF InTurn, Ends, Opens
    <3>2. ASSUME NEW i \in DOMAIN r, r[i].stream = s, r[i].type \in {"write", "writeclose"},
                 g.kind # "write"
          PROVE  \E j \in DOMAIN r : j < i /\ r[j].type = "writeopen" /\ r[j].stream = s
      <4>1. i + d \in DOMAIN q /\ q[i + d] = r[i]
        BY <1>2, <3>2
      <4>2. PICK j \in DOMAIN q : j < i + d /\ q[j].type = "writeopen" /\ q[j].stream = s
        BY <2>1, <2>7, <3>2, <4>1 DEF Ordered
      <4>3. j > d
        <5>1. j \in Nat \ {0}
          BY <1>2
        <5>2. ~(d = 1 /\ j = 1)
          BY <2>2, <4>2 DEF Opens
        <5> QED
          BY <1>2, <5>1, <5>2
      <4>4. j - d \in DOMAIN r /\ r[j - d] = q[j]
        BY <1>2, <4>3
      <4>5. j \in Nat /\ i \in Nat
        BY <1>2
      <4>6. j - d < i
        BY <1>2, <4>2, <4>5
      <4> QED
        BY <4>2, <4>4, <4>6
    <3>3. s >= x.server.next => g.kind = "none" /\ ~Holds(y.toServer, "writeready", s) /\ Silent(r, s)
      BY <1>6, <2>1, <2>4, <2>7 DEF Ordered
    <3>4. x.server.file[s].kind = "print" /\ "dead" \notin x.server.flags
             => g.kind = "write" \/ Holds(r, "writeopen", s)
      <4>1. ASSUME Holds(q, "writeopen", s) PROVE Holds(r, "writeopen", s)
        <5>1. PICK j \in DOMAIN q : q[j].type = "writeopen" /\ q[j].stream = s
          BY <4>1 DEF Holds
        <5>2. j > d
          <6>1. j \in Nat \ {0} /\ ~(d = 1 /\ j = 1)
            BY <1>2, <2>2, <5>1 DEF Opens
          <6> QED
            BY <1>2, <6>1
        <5>3. j - d \in DOMAIN r /\ r[j - d] = q[j]
          BY <1>2, <5>2
        <5> QED
          BY <5>1, <5>3 DEF Holds
      <4> QED
        BY <2>1, <2>7, <4>1 DEF Ordered
    <3> QED
      BY <1>1, <3>1, <3>2, <3>3, <3>4 DEF Ordered
  <2>8. CASE g.kind # f.kind
    <3>1. /\ g.kind = "none" /\ s \notin Printing
          /\ \/ f.kind = "read"
             \/ d = 1 /\ q[1].type = "writeclose"
      BY <2>1, <2>8 DEF MayClose
    <3>2. x.server.file[s].kind # "print"
      BY <1>4, <3>1 DEF FileKept
    <3>3. ~Holds(y.toServer, "writeready", s)
      <4>1. CASE f.kind = "read"
        BY <1>6, <2>5, <4>1
      <4>2. CASE d = 1
        BY <1>6, <2>3, <2>6, <3>1, <4>2 DEF InTurn
      <4> QED
        BY <3>1, <4>1, <4>2
    <3>4. InTurn(y, s)
      <4>1. \A i \in DOMAIN q : q[i].stream = s /\ q[i].type \in Ends
               => \A j \in DOMAIN q : q[j].stream = s => j <= i
        BY <2>3, <3>1 DEF InTurn, Ends
      <4>2. ASSUME NEW i \in DOMAIN r, r[i].stream = s, r[i].type \in Ends,
                   NEW j \in DOMAIN r, r[j].stream = s
            PROVE  j <= i
        <5>1. j + d <= i + d
          BY <1>2, <4>1, <4>2
        <5>2. j \in Nat /\ i \in Nat
          BY <1>2
        <5> QED
          BY <1>2, <5>1, <5>2
      <4>3. ASSUME NEW i \in DOMAIN y.toServer, NEW j \in DOMAIN y.toServer,
                   y.toServer[i].type = "writeready", y.toServer[i].stream = s
            PROVE  i = j
        BY <3>3, <4>3 DEF Holds
      <4> QED
        BY <3>1, <3>3, <4>2, <4>3 DEF InTurn, Ends
    <3>5. s >= x.server.next => Silent(r, s)
      BY <2>1, <2>4 DEF Ordered
    <3>6. ASSUME NEW i \in DOMAIN r, r[i].stream = s, r[i].type \in {"write", "writeclose"}
          PROVE  \E j \in DOMAIN r : j < i /\ r[j].type = "writeopen" /\ r[j].stream = s
      <4>1. i + d \in DOMAIN q /\ q[i + d] = r[i] /\ i \in Nat \ {0}
        BY <1>2, <3>6
      <4>2. CASE f.kind = "read"
        <5>1. PICK j \in DOMAIN q : j < i + d /\ q[j].type = "writeopen" /\ q[j].stream = s
          BY <2>1, <3>6, <4>1, <4>2 DEF Ordered
        <5>2. f.kind = "none"
          BY <2>3, <3>1, <5>1 DEF InTurn
        <5> QED
          BY <4>2, <5>2
      <4>3. CASE d = 1 /\ q[1].type = "writeclose"
        <5>1. i + 1 <= 1
          BY <1>3, <2>3, <3>1, <3>6, <4>1, <4>3 DEF InTurn
        <5> QED
          BY <4>1, <5>1
      <4> QED
        BY <3>1, <4>2, <4>3
    <3> QED
      BY <1>1, <3>1, <3>2, <3>3, <3>4, <3>5, <3>6 DEF Ordered
  <2> QED
    BY <2>7, <2>8
<1> QED
  BY <1>8, <1>9, <1>10

(* What the client answers when it is to open the file s: type is writeready *)
(* or readdone, and it says at most one such thing.                          *)
SaysOnce(x, y, s, type) ==
    /\ Len(y.toServer) <= Len(x.toServer) + 1
    /\ \A k \in Len(x.toServer) + 1 .. Len(y.toServer) :
          /\ y.toServer[k].type = type
          /\ type = "writeready" /\ y.toServer[k].x = 1 => s \in y.output.refused

(* The client is to open a file, which it can, or cannot, or knows already. *)
LEMMA Opening ==
    ASSUME NEW x, Core(x), NEW y, Typed(y), NEW s \in Stream, Takes(x, y, s, 1),
           NEW type, x.toClient[1].type = type, type \in Opens,
           NEW kind, kind = (IF type = "writeopen" THEN "write" ELSE "read"),
           SaysOnce(x, y, s, IF kind = "write" THEN "writeready" ELSE "readdone"),
           y.output.written = x.output.written,
           \/ y.process.file[s] = x.process.file[s] /\ x.process.file[s].kind # "none"
           \/ /\ x.process.file[s].kind = "none"
              /\ y.process.file[s].kind = kind /\ y.process.file[s].left = 0
              /\ kind = "write" /\ ~y.process.file[s].open => s \in y.output.refused
    PROVE  Core(y)
<1> DEFINE q == x.toClient
           r == y.toClient
           f == x.process.file[s]
           g == y.process.file[s]
           d == 1
<1>0. Takes(x, y, s, d)
  OBVIOUS
<1>1. /\ y.server = x.server /\ y.pane = x.pane
      /\ Extends(y.toServer, x.toServer, s) /\ x.output.refused \subseteq y.output.refused
      /\ y.process.pc = "wait" => x.process.pc = "wait"
      /\ q # <<>> /\ q[1].stream = s
  BY <1>0 DEF Takes
<1>2. /\ \A k \in DOMAIN r : k + 1 \in DOMAIN q /\ r[k] = q[k + 1]
      /\ q \in Seq(ToClient) /\ r \in Seq(ToClient) /\ 1 \in DOMAIN q
  <2>1. q \in Seq(ToClient) /\ r \in Seq(ToClient)
    BY DEF Core, Typed
  <2>2. \A k \in DOMAIN r : k + d \in DOMAIN q /\ r[k] = q[k + d]
    BY ONLY <1>0, Core(x), TakenQueue DEF Core
  <2> QED
    BY <1>1, <2>1, <2>2
<1>4. StreamKept(x, s) /\ Matched(x, s) /\ Known(x, s) /\ FileKept(x, s)
  BY DEF Core
<1>5. Holds(q, type, s) /\ ~Silent(q, s)
  BY <1>1, <1>2 DEF Holds, Silent
<1>6. s \in Printing => type = "writeopen"
  BY <1>1, <1>2, <1>4 DEF StreamKept, Opens
<1>7. s \in Printing /\ f.kind # "none" => f.kind = "write"
  <2>1. f.kind \in {"none", "write", "read"}
    BY DEF Core, Typed, ProcessType, ProcessFile
  <2>2. f.kind = "read" => s \notin Printing
    BY <1>4 DEF Matched, Reading
  <2> QED
    BY <2>1, <2>2
<1>8. \A k \in DOMAIN y.toServer :
         \/ k \in DOMAIN x.toServer /\ y.toServer[k] = x.toServer[k]
         \/ /\ y.toServer[k].type = (IF kind = "write" THEN "writeready" ELSE "readdone")
            /\ kind = "write" /\ y.toServer[k].x = 1 => s \in y.output.refused
  BY <1>1 DEF SaysOnce, Extends
<1>9. \A t : Holds(r, t, s) => Holds(q, t, s)
  BY <1>2 DEF Holds
<1>10. StreamKept(y, s)
  <2> SUFFICES ASSUME s \in Printing
               PROVE  /\ g.left > 0 => g.kind = "write"
                      /\ g.kind = "write" /\ ~g.open => s \in y.output.refused
                      /\ \A k \in DOMAIN r : r[k].stream = s => r[k].type \in {"write", "writeopen"}
                      /\ \A k \in DOMAIN y.toServer :
                            y.toServer[k] = Msg("writeready", s, 1) => s \in y.output.refused
    BY DEF StreamKept
  <2>1. kind = "write"
    BY <1>6
  <2>2. \A k \in DOMAIN r : r[k].stream = s => r[k].type \in {"write", "writeopen"}
    BY <1>2, <1>4 DEF StreamKept
  <2>3. \A k \in DOMAIN y.toServer :
           y.toServer[k] = Msg("writeready", s, 1) => s \in y.output.refused
    BY <1>1, <1>4, <1>8, <2>1 DEF StreamKept, Msg
  <2>4. g.left > 0 => g.kind = "write"
    BY <1>4, <2>1 DEF StreamKept
  <2>5. g.kind = "write" /\ ~g.open => s \in y.output.refused
    BY <1>1, <1>4, <2>1 DEF StreamKept
  <2> QED
    BY <2>2, <2>3, <2>4, <2>5
<1>11. Matched(y, s)
  <2>1. kind = "read" => Reading(x, s)
    BY <1>5 DEF Reading, Opens
  <2>2. \A t \in {"read", "readdone"} : Holds(y.toServer, t, s) =>
           Holds(x.toServer, t, s) \/ Reading(x, s)
    BY <1>8, <2>1 DEF Holds
  <2>3. g.kind = "read" => f.kind = "read" \/ kind = "read"
    OBVIOUS
  <2>4. Reading(y, s) => Reading(x, s)
    BY <1>9, <2>1, <2>2, <2>3 DEF Reading
  <2> QED
    BY <1>1, <1>4, <2>4 DEF Matched
<1>12. Known(y, s)
  <2> SUFFICES ASSUME Heard(y) PROVE Ordered(y, s)
    BY DEF Known, Heard
  <2>1. Heard(x) /\ Ordered(x, s)
    BY <1>1, <1>4 DEF Known, Heard
  <2>2. ~(s >= y.server.next)
    BY <1>1, <1>5, <2>1 DEF Ordered
  <2>3. CASE s \in Printing
    <3>1. g.kind = "write"
      BY <1>6, <1>7, <2>3
    <3> QED
      BY <2>2, <2>3, <3>1 DEF Ordered
  <2>4. CASE s \notin Printing
    <3>1. InTurn(x, s)
      BY <2>1, <2>4 DEF Ordered
    <3>2. f.kind = "none" /\ g.kind = kind
      BY <1>1, <1>2, <3>1 DEF InTurn, Opens
    <3>3. ~Holds(x.toServer, "writeready", s)
      BY <1>5, <3>1 DEF InTurn
    <3>4. \A j \in DOMAIN q : q[j].stream = s => j <= 1
      BY <1>1, <1>2, <3>1 DEF InTurn, Opens
    <3>5. \A k \in DOMAIN r : r[k].stream # s
      <4> SUFFICES ASSUME NEW k \in DOMAIN r, r[k].stream = s PROVE FALSE
        OBVIOUS
      <4>1. k + 1 <= 1 /\ k \in Nat \ {0}
        BY <1>2, <3>4
      <4> QED
        BY <4>1
    <3>6. x.server.file[s].kind # "print"
      BY <1>4, <2>4 DEF FileKept
    <3>7. \A k \in DOMAIN y.toServer :
             y.toServer[k].type = "writeready" /\ y.toServer[k].stream = s
               => k = Len(x.toServer) + 1 /\ kind = "write"
      <4>1. ASSUME NEW k \in DOMAIN y.toServer, y.toServer[k].type = "writeready",
                   y.toServer[k].stream = s
            PROVE  k \notin DOMAIN x.toServer /\ kind = "write"
        BY <1>1, <1>8, <3>3, <4>1 DEF Holds, Extends
      <4> QED
        BY <1>1, <4>1 DEF Extends, SaysOnce
    <3>8. InTurn(y, s)
      BY <3>2, <3>5, <3>7 DEF InTurn, Holds, Silent
    <3> QED
      BY <1>1, <2>2, <2>4, <3>5, <3>6, <3>8 DEF Ordered
  <2> QED
    BY <2>3, <2>4
<1>13. ASSUME s \in Printing PROVE Sums(y, s)
  <2>1. Reached(x, s) \in Nat /\ x.process.file[s].left \in Nat
    BY <1>13, ReachedType, SumTypes DEF Core
  <2>2. f.kind = "none" => f.left = 0
    BY <1>4, <1>13, <2>1 DEF StreamKept
  <2>3. g.left = f.left
    BY <2>2
  <2>4. Reached(y, s) = Reached(x, s)
    BY <2>3 DEF Reached
  <2>5. Chunk(x, s, d) = 0
    BY DEF Chunk, Opens
  <2>6. Reached(y, s) = Reached(x, s) + Chunk(x, s, d)
    BY <2>1, <2>4, <2>5
  <2> HIDE DEF d
  <2> QED
    BY ONLY Core(x), Typed(y), <1>0, <1>13, <2>6, TakenSums
<1> HIDE DEF d
<1> QED
  BY ONLY Core(x), Typed(y), s \in Stream, <1>0, <1>10, <1>11, <1>12, <1>13, Taken

(* As long as the client is there, a command that waits for a file has its  *)
(* answer coming: the client opens it, says so or goes on reading.          *)
StillAnswers(x, y, s, d) ==
    \/ Holds(y.toServer, "writeready", s) \/ Holds(y.toServer, "readdone", s)
    \/ y.process.file[s].kind = "read" /\ y.process.file[s].open
    \/ /\ ~(d = 1 /\ x.toClient[1].type \in Opens)
       /\ ~(x.process.file[s].kind = "read" /\ x.process.file[s].open)

(* What was coming still is, after a step of the client.                    *)
LEMMA StillOwed ==
    ASSUME NEW x, Core(x), Awaited(x), NEW y, Core(y), NEW s, NEW d, Takes(x, y, s, d),
           x.process.pc \in {"wait", "attached"},
           s \in Stream /\ Heard(x) => StillAnswers(x, y, s, d)
    PROVE  Awaited(y)
<1> DEFINE q == x.toClient
           r == y.toClient
<1>1. /\ y.server = x.server /\ y.pane = x.pane /\ y.process.pc \in {"wait", "attached"}
      /\ y.process.pc = "wait" => x.process.pc = "wait"
      /\ Extends(y.toServer, x.toServer, s)
      /\ d = 1 => q[1].stream = s
      /\ \A t \in Stream : t # s => y.process.file[t] = x.process.file[t]
  BY DEF Takes
<1>2. /\ d \in {0, 1} /\ q \in Seq(ToClient)
      /\ \A k \in DOMAIN q : k > d => k - d \in DOMAIN r /\ r[k - d] = q[k]
  BY TakenQueue DEF Core, Typed
<1>3. y.process.pc = "attached" => "attached" \in x.server.flags
  BY <1>1 DEF Core, Phases
<1>5. ASSUME NEW type, NEW t, Holds(x.toServer, type, t) PROVE Holds(y.toServer, type, t)
  BY <1>1, <1>5 DEF Holds, Extends
<1>6. ASSUME NEW type, NEW t, Holds(q, type, t), ~(d = 1 /\ q[1].type = type /\ t = s)
      PROVE  Holds(r, type, t)
  <2>1. PICK k \in DOMAIN q : q[k].type = type /\ q[k].stream = t
    BY <1>6 DEF Holds
  <2>2. k \in Nat \ {0} /\ ~(d = 1 /\ k = 1)
    BY <1>1, <1>2, <1>6, <2>1
  <2>3. k - d \in DOMAIN r /\ r[k - d] = q[k]
    BY <1>2, <2>2
  <2> QED
    BY <2>1, <2>3 DEF Holds
<1> SUFFICES ASSUME x.server.work = "waiting", "dead" \notin x.server.flags,
                    ~(~x.pane /\ "exit" \in x.server.flags)
             PROVE  \E t \in Stream : y.server.file[t].kind \in {"save", "load", "input"} /\ Coming(y, t)
  BY <1>1 DEF Awaited
<1> QED
  <2>1. PICK t \in Stream : x.server.file[t].kind \in {"save", "load", "input"} /\ Coming(x, t)
    BY DEF Awaited
  <2>2. CASE x.server.file[t].done
    BY <1>1, <2>1, <2>2 DEF Coming
  <2>3. CASE ~x.server.file[t].done
    <3>1. /\ "attached" \notin x.server.flags /\ x.process.pc = "wait"
          /\ \/ Holds(x.toServer, "writeready", t) \/ Holds(x.toServer, "readdone", t)
             \/ Holds(q, "writeopen", t) \/ Holds(q, "readopen", t)
             \/ x.process.file[t].kind = "read" /\ x.process.file[t].open
      BY <2>1, <2>3 DEF Coming
    <3>2. y.process.pc = "wait" /\ Heard(x)
      BY <1>1, <1>3, <3>1 DEF Heard
    <3>3. /\ \/ Holds(y.toServer, "writeready", t) \/ Holds(y.toServer, "readdone", t)
             \/ Holds(r, "writeopen", t) \/ Holds(r, "readopen", t)
             \/ y.process.file[t].kind = "read" /\ y.process.file[t].open
      <4>1. CASE t # s
        BY <1>1, <1>5, <1>6, <3>1, <4>1
      <4>2. CASE t = s
        <5>1. StillAnswers(x, y, s, d)
          BY <3>2, <4>2
        <5> QED
          BY <1>5, <1>6, <3>1, <4>2, <5>1 DEF StillAnswers, Opens
      <4> QED
        BY <4>1, <4>2
    <3>4. Coming(y, t)
      BY <1>1, <3>1, <3>2, <3>3 DEF Coming
    <3> QED
      BY <1>1, <2>1, <3>4
  <2> QED
    BY <2>2, <2>3

Clients == [process : ProcessType, sent : Seq(ToServer), fault : Fault]

(* What is there when a step of the client has come to h, with q in its     *)
(* queue and o in the history.                                              *)
There(q, h, o) == [server |-> server, process |-> h.process, toServer |-> toServer \o h.sent,
                   toClient |-> q, pane |-> pane, output |-> o]

(* A step of the client that takes d messages and works on the file s.      *)
Does(h, s, d) ==
    /\ h \in Clients /\ d \in {0, 1}
    /\ d = 1 => toClient # <<>> /\ toClient[1].stream = s
    /\ h.process.pc \in {"wait", "attached"} /\ (h.process.pc = "wait" => process.pc = "wait")
    /\ h.process.why = process.why
    /\ h.process.told => process.told \/ (d = 1 /\ toClient[1].type \in {"exit", "shutdown"})
    /\ h.process.pc = "attached" => process.pc = "attached" \/ (d = 1 /\ toClient[1].type = "ready")
    /\ \A t \in Stream : t # s => h.process.file[t] = process.file[t]
    /\ \/ h.sent = <<>>
       \/ \E m \in ToServer : m.stream = s /\ m.type \notin {"command", "shell"} /\ h.sent = <<m>>

(* ... and of the history only what s has written and which were refused.   *)
Notes(o, s) ==
    /\ o \in OutputType /\ o.printed = output.printed /\ o.promised = output.promised
    /\ output.refused \subseteq o.refused
    /\ \A t \in Printing : t # s => o.written[t] = output.written[t]

(* What the client said is at the end of the queue. *)
Said(h, r) ==
    /\ Len(r) <= Len(toServer) + 1
    /\ \A k \in Len(toServer) + 1 .. Len(r) : h.sent = <<r[k]>>
    /\ h.sent # <<>> => Len(r) = Len(toServer) + 1 /\ Len(r) \in DOMAIN r
    /\ h.sent = <<>> => r = toServer

(* What is behind the messages that were taken. *)
Rest(d) == IF d = 0 THEN toClient ELSE Tail(toClient)

(* Such a step takes its messages and changes what it may.                  *)
LEMMA DoesTakes ==
    ASSUME Core(State), NEW s, NEW d, NEW h, Does(h, s, d), NEW o, Notes(o, s),
           NEW q, q = Rest(d)
    PROVE  LET y == There(q, h, o)
           IN Typed(y) /\ Takes(State, y, s, d) /\ Said(h, y.toServer)
<1> DEFINE y == There(q, h, o)
           x == State
           r == toServer \o h.sent
<1>1. /\ toServer \in Seq(ToServer) /\ toClient \in Seq(ToClient) /\ server \in ServerType
      /\ pane \in BOOLEAN /\ Len(toServer) \in Nat /\ DOMAIN toServer = 1 .. Len(toServer)
  BY DEF Core, Typed, State
<1>2. h.process \in ProcessType /\ h.sent \in Seq(ToServer)
  BY DEF Does, Clients
<1>3. /\ r \in Seq(ToServer) /\ Extends(r, toServer, s) /\ Said(h, r)
      /\ \A k \in Len(toServer) + 1 .. Len(r) : r[k].type \notin {"command", "shell"}
  <2>1. CASE h.sent = <<>>
    <3>1. r = toServer
      BY <1>1, <2>1
    <3>2. Extends(toServer, toServer, s)
      BY <1>1, ExtendsNothing
    <3>3. Extends(r, toServer, s) /\ Len(r) = Len(toServer)
      BY ONLY <3>1, <3>2
    <3> HIDE DEF r
    <3> QED
      BY <1>1, <2>1, <3>1, <3>3 DEF Said
  <2>2. ASSUME NEW m \in ToServer, m.stream = s, m.type \notin {"command", "shell"}, h.sent = <<m>>
        PROVE  /\ r \in Seq(ToServer) /\ Extends(r, toServer, s) /\ Said(h, r)
               /\ \A k \in Len(toServer) + 1 .. Len(r) : r[k].type \notin {"command", "shell"}
    <3>1. r = Append(toServer, m)
      BY <1>1, <2>2
    <3>2. Extends(Append(toServer, m), toServer, m.stream)
      BY ONLY <1>1, <2>2, ExtendsOne
    <3>3. Extends(r, toServer, s)
      BY ONLY <2>2, <3>1, <3>2
    <3> HIDE DEF r
    <3>4. /\ r \in Seq(ToServer) /\ Len(r) = Len(toServer) + 1 /\ DOMAIN r = 1 .. Len(toServer) + 1
          /\ r[Len(toServer) + 1] = m
      BY ONLY <1>1, <2>2, <3>1, Appended
    <3>5. \A k \in Len(toServer) + 1 .. Len(r) : k = Len(toServer) + 1
      BY <1>1, <3>4
    <3>6. <<m>> # <<>>
      OBVIOUS
    <3>7. Said(h, r)
      BY ONLY <1>1, <2>2, <3>4, <3>5, <3>6 DEF Said
    <3> QED
      BY <2>2, <3>3, <3>4, <3>5, <3>7
  <2> QED
    BY <2>1, <2>2 DEF Does
<1> HIDE DEF r
<1>4. /\ y.server = server /\ y.process = h.process /\ y.toServer = r /\ y.toClient = q
      /\ y.pane = pane /\ y.output = o
  BY DEF There, r
<1>5. /\ x.server = server /\ x.process = process /\ x.toServer = toServer /\ x.toClient = toClient
      /\ x.pane = pane /\ x.output = output
  BY DEF State
<1>6. d \in {0, 1} /\ (d = 1 => toClient # <<>> /\ toClient[1].stream = s)
  BY DEF Does
<1>7. q \in Seq(ToClient) /\ (d = 0 => q = toClient) /\ (d = 1 => q = Tail(toClient))
  BY <1>1, <1>6 DEF Rest
<1> HIDE DEF x, y
<1>8. Typed(y)
  BY <1>1, <1>2, <1>3, <1>4, <1>7 DEF Typed, Notes
<1>9. Takes(x, y, s, d)
  <2>1. /\ y.server = x.server /\ y.pane = x.pane
        /\ Extends(y.toServer, x.toServer, s)
        /\ \A k \in Len(x.toServer) + 1 .. Len(y.toServer) :
              y.toServer[k].type \notin {"command", "shell"}
    BY ONLY <1>3, <1>4, <1>5
  <2>2. /\ d \in {0, 1}
        /\ d = 0 => y.toClient = x.toClient
        /\ d = 1 => x.toClient # <<>> /\ x.toClient[1].stream = s /\ y.toClient = Tail(x.toClient)
    BY ONLY <1>4, <1>5, <1>6, <1>7
  <2>3. /\ y.process.told => x.process.told \/ (d = 1 /\ x.toClient[1].type \in {"exit", "shutdown"})
        /\ y.process.pc = "attached" =>
              x.process.pc = "attached" \/ (d = 1 /\ x.toClient[1].type = "ready")
        /\ y.process.pc \in {"wait", "attached"} /\ (y.process.pc = "wait" => x.process.pc = "wait")
        /\ y.process.why = x.process.why
        /\ \A t \in Stream : t # s => y.process.file[t] = x.process.file[t]
    BY ONLY <1>4, <1>5, Does(h, s, d) DEF Does
  <2>4. /\ x.output.refused \subseteq y.output.refused
        /\ y.output.printed = x.output.printed /\ y.output.promised = x.output.promised
        /\ \A t \in Printing : t # s => y.output.written[t] = x.output.written[t]
    BY ONLY <1>4, <1>5, Notes(o, s) DEF Notes
  <2> QED
    BY ONLY <2>1, <2>2, <2>3, <2>4 DEF Takes
<1> QED
  BY <1>3, <1>4, <1>8, <1>9 DEF x, y

(* The fields of the state.                                                 *)
LEMMA StateFields ==
    /\ State.server = server /\ State.process = process /\ State.toServer = toServer
    /\ State.toClient = toClient /\ State.pane = pane /\ State.output = output
  BY DEF State

(* The fields of the state a step of the client has come to.                *)
LEMMA ThereFields ==
    ASSUME NEW q, NEW h, NEW o
    PROVE  /\ There(q, h, o).server = server /\ There(q, h, o).process = h.process
           /\ There(q, h, o).toServer = toServer \o h.sent /\ There(q, h, o).toClient = q
           /\ There(q, h, o).pane = pane /\ There(q, h, o).output = o
  BY DEF There

(* proc_exit *)
LEMMA ExitsKeeps ==
    ASSUME NEW q, NEW h \in Clients, NEW o, Core(There(q, h, o)), NEW why \in {"told", "other"},
           NEW u, u = Exits(h, why),
           why = "told" =>
              \/ "attached" \in server.flags
              \/ /\ h.process.pc = "wait" /\ h.process.told
                 /\ \A s \in Printing : h.process.file[s].left = 0
    PROVE  /\ u \in Clients /\ u.sent = h.sent /\ u.fault = h.fault /\ u.process.pc = "gone"
           /\ Core(There(q, u, o))
<1> DEFINE p == [h.process EXCEPT !.pc = "gone", !.why = why]
           x == There(q, h, o)
           y == There(q, u, o)
<1>1. /\ p \in ProcessType /\ p.pc = "gone" /\ p.why = why
      /\ p.file = h.process.file /\ p.told = h.process.told
  BY DEF Clients, ProcessType
<1> HIDE DEF p
<1>2. u = [h EXCEPT !.process = p]
  BY DEF Exits, Clients, p
<1>3. u \in Clients /\ u.sent = h.sent /\ u.fault = h.fault /\ u.process = p
  BY <1>1, <1>2 DEF Clients
<1>4. /\ x.server = server /\ x.process = h.process /\ x.toServer = toServer \o h.sent
      /\ x.toClient = q /\ x.pane = pane /\ x.output = o
      /\ y.server = server /\ y.process = p /\ y.toServer = toServer \o h.sent
      /\ y.toClient = q /\ y.pane = pane /\ y.output = o
  BY <1>3 DEF There
<1> HIDE DEF x, y
<1>5. Core(x)
  BY DEF x
<1>6. Typed(y)
  BY <1>1, <1>4, <1>5 DEF Core, Typed
<1>7. Core(y)
  BY ZenonT(60), <1>1, <1>4, <1>5, <1>6, ClientGone
<1> QED
  BY <1>1, <1>3, <1>7 DEF y

(* client_exit *)
LEMMA ExitKeeps ==
    ASSUME NEW q, NEW h \in Clients, NEW o, Core(There(q, h, o)), h.process.told,
           h.process.pc \in {"wait", "attached"}, NEW u, u = Exit(h)
    PROVE  /\ u \in Clients /\ u.sent = h.sent /\ u.fault = h.fault
           /\ u = h \/ u.process.pc = "gone"
           /\ Core(There(q, u, o))
<1>1. CASE u = h
  BY <1>1
<1>2. CASE u # h
  <2>1. /\ u = Exits(h, "told")
        /\ \A s \in Stream : ~(h.process.file[s].kind = "write" /\ h.process.file[s].left > 0)
    BY <1>2 DEF Exit
  <2>2. ASSUME NEW s \in Printing PROVE h.process.file[s].left = 0
    <3>1. s \in Stream
      BY DEF Stream
    <3>2. StreamKept(There(q, h, o), s)
      BY <3>1 DEF Core
    <3>3. h.process.file[s].left > 0 => h.process.file[s].kind = "write"
      BY <3>2, ThereFields DEF StreamKept
    <3>4. h.process.file[s].left \in Nat
      BY <3>1 DEF Clients, ProcessType, ProcessFile
    <3> QED
      BY <2>1, <3>1, <3>3, <3>4
  <2>3. h.process.pc = "attached" => "attached" \in server.flags
    BY ThereFields DEF Core, Phases
  <2> DEFINE why == "told"
  <2>4. why \in {"told", "other"} /\ u = Exits(h, why)
    BY <2>1
  <2> HIDE DEF why
  <2> QED
    BY <2>2, <2>3, <2>4, ExitsKeeps
<1> QED
  BY <1>1, <1>2

(* A fatalx of the client: only when the pane is gone. *)
LEMMA FatalKeeps ==
    ASSUME NEW q, NEW h \in Clients, NEW o, Core(There(q, h, o)), ~pane, NEW u, u = Fatal(h)
    PROVE  /\ u \in Clients /\ u.sent = h.sent /\ u.fault = h.fault /\ u.process.pc = "fatal"
           /\ Core(There(q, u, o))
<1> DEFINE p == [h.process EXCEPT !.pc = "fatal", !.why = "other"]
           x == There(q, h, o)
           y == There(q, u, o)
<1>1. /\ p \in ProcessType /\ p.pc = "fatal" /\ p.why = "other"
      /\ p.file = h.process.file /\ p.told = h.process.told
  BY DEF Clients, ProcessType
<1> HIDE DEF p
<1>2. u = [h EXCEPT !.process = p]
  BY DEF Fatal, Clients, p
<1>3. u \in Clients /\ u.sent = h.sent /\ u.fault = h.fault /\ u.process = p
  BY <1>1, <1>2 DEF Clients
<1>4. /\ x.server = server /\ x.process = h.process /\ x.toServer = toServer \o h.sent
      /\ x.toClient = q /\ x.pane = pane /\ x.output = o
      /\ y.server = server /\ y.process = p /\ y.toServer = toServer \o h.sent
      /\ y.toClient = q /\ y.pane = pane /\ y.output = o
  BY <1>3 DEF There
<1> HIDE DEF x, y
<1>5. Core(x)
  BY DEF x
<1>6. Typed(y)
  BY <1>1, <1>4, <1>5 DEF Core, Typed
<1>7. Core(y)
  BY <1>1, <1>4, <1>5, <1>6, ClientGone
<1> QED
  BY <1>1, <1>3, <1>7 DEF y

(* The client does and has said what it had. *)
Alike(h, u) ==
    /\ u \in Clients /\ u.sent = h.sent /\ u.fault = h.fault
    /\ u.process.pc = h.process.pc /\ u.process.told = h.process.told
    /\ u.process.why = h.process.why

(* The client as its step begins.                                           *)
LEMMA HereFields ==
    ASSUME Core(State)
    PROVE  /\ Here \in Clients /\ Here.process = process /\ Here.sent = <<>> /\ Here.fault = "none"
           /\ process \in ProcessType
  BY DEF Core, Typed, State, Here, Clients, Fault

(* The client says m.                                                       *)
LEMMA SayFields ==
    ASSUME NEW h \in Clients, NEW m \in ToServer, NEW u, u = Say(h, m)
    PROVE  /\ u \in Clients /\ u.process = h.process /\ u.fault = h.fault
           /\ h.sent = <<>> => u.sent = <<m>>
<1>1. h.sent \in Seq(ToServer) /\ Append(h.sent, m) \in Seq(ToServer)
  BY DEF Clients
<1>2. u = [h EXCEPT !.sent = Append(h.sent, m)]
  BY DEF Say, Clients
<1>3. u \in Clients /\ u.process = h.process /\ u.fault = h.fault /\ u.sent = Append(h.sent, m)
  BY <1>1, <1>2 DEF Clients
<1>4. Append(<<>>, m) = <<m>>
  OBVIOUS
<1> QED
  BY <1>3, <1>4

(* The process becomes p. *)
LEMMA SetProcess ==
    ASSUME NEW h \in Clients, NEW p \in ProcessType, NEW u, u = [h EXCEPT !.process = p]
    PROVE  u \in Clients /\ u.process = p /\ u.sent = h.sent /\ u.fault = h.fault
  BY DEF Clients

(* Of the files of the client s becomes f. *)
Put(h, s, f) == [h EXCEPT !.process.file[s] = f]

(* ... and the others are as they were.                                     *)
LEMMA PutFile ==
    ASSUME NEW h \in Clients, NEW s \in Stream, NEW f \in ProcessFile,
           NEW u, u = Put(h, s, f)
    PROVE  /\ Alike(h, u) /\ u.process.file[s] = f /\ u.process.fds = h.process.fds
           /\ \A t \in Stream : t # s => u.process.file[t] = h.process.file[t]
<1> DEFINE files == [h.process.file EXCEPT ![s] = f]
           p == [h.process EXCEPT !.file = files]
<1>1. h.process \in ProcessType /\ h.process.file \in [Stream -> ProcessFile]
  BY DEF Clients, ProcessType
<1>2. /\ files \in [Stream -> ProcessFile] /\ files[s] = f
      /\ \A t \in Stream : t # s => files[t] = h.process.file[t]
  BY <1>1
<1>3. u = [h EXCEPT !.process = p]
  BY DEF Clients, Put
<1> HIDE DEF files
<1>4. /\ p \in ProcessType /\ p.file = files /\ p.fds = h.process.fds /\ p.pc = h.process.pc
      /\ p.told = h.process.told /\ p.why = h.process.why
  BY <1>1, <1>2 DEF ProcessType
<1> HIDE DEF p
<1>5. u \in Clients /\ u.process = p /\ u.sent = h.sent /\ u.fault = h.fault
  BY ONLY <1>3, <1>4, h \in Clients, SetProcess
<1> QED
  BY <1>2, <1>4, <1>5 DEF Alike

(* A descriptor that is opened or closed changes no file.                   *)
LEMMA HoldingFields ==
    ASSUME NEW h \in Clients, NEW d \in {3} \cup Descriptor, NEW what \in Object \cup {Closed},
           NEW u, u = Holding(h, d, what)
    PROVE  Alike(h, u) /\ u.process.file = h.process.file
<1> DEFINE fds == [h.process.fds EXCEPT ![d] = what]
           p == [h.process EXCEPT !.fds = fds]
<1>1. h.process \in ProcessType /\ h.process.fds \in [Descriptor -> Object \cup {Closed}]
  BY DEF Clients, ProcessType
<1>2. CASE d = 3
  BY <1>2 DEF Holding, Alike
<1>3. CASE d # 3
  <2>1. u = [h EXCEPT !.process = p]
    BY <1>3 DEF Clients, Holding
  <2>2. fds \in [Descriptor -> Object \cup {Closed}]
    BY <1>1, <1>3
  <2> HIDE DEF fds
  <2>3. /\ p \in ProcessType /\ p.file = h.process.file /\ p.pc = h.process.pc
        /\ p.told = h.process.told /\ p.why = h.process.why
    BY <1>1, <2>2 DEF ProcessType
  <2> HIDE DEF p
  <2>4. u \in Clients /\ u.process = p /\ u.sent = h.sent /\ u.fault = h.fault
    BY <2>1, <2>3, SetProcess
  <2> QED
    BY <2>3, <2>4 DEF Alike
<1> QED
  BY <1>2, <1>3

(* A new file gets a descriptor, or none of the three.                      *)
LEMMA LowestFree ==
    ASSUME NEW fds \in [Descriptor -> Object \cup {Closed}]
    PROVE  Lowest(fds) \in {3} \cup Descriptor
<1> DEFINE closed == {d \in Descriptor : fds[d] = Closed}
<1>1. CASE closed = {}
  BY <1>1 DEF Lowest
<1>2. CASE closed # {}
  <2>1. \E d \in closed : \A e \in closed : d <= e
    BY <1>2 DEF Descriptor
  <2>2. Min(closed) \in closed
    BY <2>1 DEF Min
  <2> QED
    BY <1>2, <2>2 DEF Lowest
<1> QED
  BY <1>1, <1>2

(* A file that is not there is a file.                                      *)
LEMMA NoFile == NoProcessFile \in ProcessFile
  BY DEF NoProcessFile, ProcessFile, Object, Stream, Printing, Descriptor

(* Of the client nothing but its descriptors and the file s is another. *)
Files(h, u, s) ==
    Alike(h, u) /\ \A t \in Stream : t # s => u.process.file[t] = h.process.file[t]

(* evbuffer and descriptor of a file are freed with it *)
LEMMA FreedFields ==
    ASSUME NEW h \in Clients, NEW s \in Stream, NEW u, u = Freed(h, s)
    PROVE  Files(h, u, s) /\ u.process.file[s] = NoProcessFile
<1> DEFINE f == h.process.file[s]
           v == [h EXCEPT !.process.file[s] = NoProcessFile]
           d == IF f.open THEN f.fd ELSE 3
<1>1. f \in ProcessFile
  BY DEF Clients, ProcessType
<1>2. d \in {3} \cup Descriptor
  BY <1>1 DEF ProcessFile
<1>4. u = Holding(v, d, Closed)
  BY DEF Freed
<1>8. v = Put(h, s, NoProcessFile)
  BY DEF Put
<1> HIDE DEF v, d, f
<1>3. /\ Alike(h, v) /\ v.process.file[s] = NoProcessFile
      /\ \A t \in Stream : t # s => v.process.file[t] = h.process.file[t]
  BY ONLY h \in Clients, s \in Stream, NoFile, <1>8, PutFile
<1>5. v \in Clients
  BY <1>3 DEF Alike
<1>6. Closed \in Object \cup {Closed}
  OBVIOUS
<1>7. Alike(v, u) /\ u.process.file = v.process.file
  BY ONLY <1>2, <1>4, <1>5, <1>6, HoldingFields
<1> QED
  BY <1>3, <1>7 DEF Files, Alike

(* file_write_open and file_read_open, when the file opens. *)
LEMMA OpenedFields ==
    ASSUME NEW h \in Clients, NEW s \in Stream, NEW d \in {NoDescriptor} \cup Descriptor,
           NEW kind \in {"write", "read"}, NEW control \in BOOLEAN,
           d # NoDescriptor => h.process.fds[d] # Closed,
           NEW u, u = Opened(h, s, d, kind, control)
    PROVE  /\ Files(h, u, s) /\ u.process.file[s].kind = kind /\ u.process.file[s].open
           /\ u.process.file[s].left = 0
<1> DEFINE fds == h.process.fds
           to == IF d = NoDescriptor THEN s ELSE fds[d]
           fd == Lowest(fds)
           f == [kind |-> kind, open |-> TRUE, left |-> 0, fd |-> fd, to |-> to]
           v == [h EXCEPT !.process.file[s] = f]
           w == Holding(v, fd, to)
<1>1. fds \in [Descriptor -> Object \cup {Closed}]
  BY DEF Clients, ProcessType
<1>2. to \in Object
  <2>1. CASE d = NoDescriptor
    BY <2>1 DEF Object
  <2>2. CASE d # NoDescriptor
    BY <1>1, <2>2
  <2> QED
    BY <2>1, <2>2
<1>3. fd \in {3} \cup Descriptor
  BY <1>1, LowestFree
<1>4. u = IF control \/ d = NoDescriptor THEN w ELSE [w EXCEPT !.process.fds[d] = Closed]
  BY DEF Opened
<1> HIDE DEF fd, to
<1>5. f \in ProcessFile /\ f.kind = kind /\ f.open /\ f.left = 0
  BY <1>2, <1>3 DEF ProcessFile
<1> HIDE DEF f
<1>11. v = Put(h, s, f)
  BY DEF Put
<1> HIDE DEF v
<1>6. /\ Alike(h, v) /\ v.process.file[s] = f
      /\ \A t \in Stream : t # s => v.process.file[t] = h.process.file[t]
  BY ONLY h \in Clients, s \in Stream, <1>5, <1>11, PutFile
<1>7. v \in Clients /\ to \in Object \cup {Closed}
  BY <1>2, <1>6 DEF Alike
<1>8. Alike(v, w) /\ w.process.file = v.process.file
  BY ONLY <1>3, <1>7, HoldingFields
<1> HIDE DEF w
<1>9. CASE control \/ d = NoDescriptor
  BY <1>4, <1>5, <1>6, <1>8, <1>9 DEF Files, Alike
<1>10. CASE ~(control \/ d = NoDescriptor)
  <2>1. d \in {3} \cup Descriptor /\ d # 3 /\ Closed \in Object \cup {Closed}
    BY <1>10 DEF Descriptor
  <2>2. u = Holding(w, d, Closed)
    BY <1>4, <1>10, <2>1 DEF Holding
  <2>3. w \in Clients
    BY <1>8 DEF Alike
  <2>4. Alike(w, u) /\ u.process.file = w.process.file
    BY ONLY <2>1, <2>2, <2>3, HoldingFields
  <2> QED
    BY <1>5, <1>6, <1>8, <2>4 DEF Files, Alike
<1> QED
  BY <1>9, <1>10

(* A step of the client that may come to h, with q in its queue and o in    *)
(* the history.                                                             *)
Fits(q, h, o) ==
    /\ h \in Clients /\ Core(There(q, h, o))
    /\ h.process.pc \in {"wait", "attached"} => Awaited(There(q, h, o))

(* A step of the client that fits keeps the invariant.                      *)
LEMMA ComesKept ==
    ASSUME Before, fault = "none", NEW h, Comes(h), Elsewhere, Fits(toClient', h, output')
    PROVE  Kept'
<1> DEFINE y == There(toClient', h, output')
<1>1. State' = y
  BY DEF State, There, Comes, Elsewhere
<1>2. Core(y) /\ y.process = h.process
  BY ThereFields DEF Fits
<1>3. Awaited(y)
  BY <1>2 DEF Fits, Awaited
<1>4. fault' \in Fault
  BY DEF Comes, Fits, Clients, Fault
<1> HIDE DEF y
<1> QED
  BY <1>1, <1>2, <1>3, <1>4 DEF Kept

(* A step that is about no file. *)
LEMMA PlainFits ==
    ASSUME Before, Alive, NEW d, NEW h, Does(h, 0, d),
           NEW q, q = Rest(d)
    PROVE  Fits(q, h, output)
<1> DEFINE y == There(q, h, output)
<1>1. Core(State) /\ Awaited(State) /\ State.process.pc \in {"wait", "attached"}
  BY StateFields DEF Before, Alive
<1>2. 0 \notin Stream /\ 0 \notin Printing
  BY DEF Stream, Printing
<1>3. Notes(output, 0)
  BY <1>1, StateFields DEF Notes, Core, Typed
<1>4. Typed(y) /\ Takes(State, y, 0, d)
  BY <1>1, <1>3, DoesTakes
<1> HIDE DEF y
<1>5. Core(y)
  BY <1>1, <1>2, <1>4, Taken
<1>6. Awaited(y)
  BY <1>1, <1>2, <1>4, <1>5, StillOwed
<1>7. h \in Clients
  BY DEF Does
<1> QED
  BY <1>5, <1>6, <1>7 DEF Fits, y

(* What the client still owes for the file s. *)
Owes(h, s) ==
    \/ \E x \in 0 .. 1 : h.sent = <<Msg("readdone", s, x)>>
    \/ h.process.file[s].kind = "read" /\ h.process.file[s].open
    \/ ~(process.file[s].kind = "read" /\ process.file[s].open)

(* What it has of stream s, and whether that may be less than it had. *)
Keeping(h, o, s, d) ==
    LET f == h.process.file[s]
        has == o.written[s] + f.left
    IN /\ f.left > 0 => f.kind = "write"
       /\ f.kind = "write" /\ ~f.open => s \in o.refused
       /\ \/ has = Reached(State, s) + Chunk(State, s, d)
          \/ has <= Reached(State, s) /\ (s \in o.refused \/ "attached" \in server.flags)

(* A step that writes, reads or closes the file s. *)
LEMMA FileFits ==
    ASSUME Before, Alive, NEW s \in Stream, NEW d, NEW h, Does(h, s, d), NEW o, Notes(o, s),
           NEW q, q = Rest(d),
           h.sent # <<>> =>
              /\ Reading(State, s)
              /\ \E type \in {"read", "readdone"}, x \in 0 .. 1 : h.sent = <<Msg(type, s, x)>>,
           Heard(State) => ~(d = 1 /\ toClient[1].type \in Opens) /\ Owes(h, s),
           \/ h.process.file[s].kind = process.file[s].kind
           \/ h.process.file[s].kind = "none" /\ s \notin Printing /\ MayClose(State, s, d),
           s \in Printing => Keeping(h, o, s, d)
    PROVE  Fits(q, h, o)
<1> DEFINE y == There(q, h, o)
<1>1. Core(State) /\ Awaited(State) /\ State.process.pc \in {"wait", "attached"}
  BY StateFields DEF Before, Alive
<1>2. Typed(y) /\ Takes(State, y, s, d) /\ Said(h, y.toServer)
  BY <1>1, DoesTakes
<1>3. /\ y.process = h.process /\ y.output = o /\ State.process = process
      /\ State.toClient = toClient /\ State.server = server /\ State.toServer = toServer
  BY StateFields, ThereFields
<1>4. y.toServer \in Seq(ToServer)
  BY <1>2 DEF Typed
<1> HIDE DEF y
<1>5. SaysRead(State, y, s)
  <2> SUFFICES ASSUME NEW k \in Len(toServer) + 1 .. Len(y.toServer)
               PROVE  y.toServer[k].type \in {"read", "readdone"} /\ Reading(State, s)
    BY <1>3 DEF SaysRead
  <2>1. h.sent = <<y.toServer[k]>>
    BY <1>2 DEF Said
  <2>2. h.sent # <<>>
    BY <2>1
  <2>3. PICK type \in {"read", "readdone"}, x \in 0 .. 1 : h.sent = <<Msg(type, s, x)>>
    BY <2>2
  <2>4. y.toServer[k] = Msg(type, s, x)
    BY <2>1, <2>3
  <2> QED
    BY <2>2, <2>4 DEF Msg
<1>6. s \in Printing => Sums(y, s)
  <2> SUFFICES ASSUME s \in Printing PROVE Sums(y, s)
    OBVIOUS
  <2>1. \/ Reached(y, s) = Reached(State, s) + Chunk(State, s, d)
        \/ Reached(y, s) <= Reached(State, s) /\ (s \in o.refused \/ "attached" \in server.flags)
    BY <1>3 DEF Keeping, Reached
  <2>2. CASE Reached(y, s) = Reached(State, s) + Chunk(State, s, d)
    BY <1>1, <1>2, <2>2, TakenSums
  <2>3. CASE Reached(y, s) <= Reached(State, s) /\ (s \in o.refused \/ "attached" \in server.flags)
    BY <1>1, <1>2, <1>3, <2>3, TakenLess
  <2> QED
    BY <2>1, <2>2, <2>3
<1>7. s \in Printing =>
        /\ y.process.file[s].left > 0 => y.process.file[s].kind = "write"
        /\ y.process.file[s].kind = "write" /\ ~y.process.file[s].open => s \in y.output.refused
  BY <1>3 DEF Keeping
<1>8. StreamKept(y, s) /\ Matched(y, s) /\ Known(y, s)
  <2>1. \/ y.process.file[s].kind = State.process.file[s].kind
        \/ y.process.file[s].kind = "none" /\ s \notin Printing /\ MayClose(State, s, d)
    BY <1>3
  <2>2. Heard(State) => ~(d = 1 /\ State.toClient[1].type \in Opens)
    BY <1>3
  <2> QED
    BY <1>1, <1>2, <1>5, <1>7, <2>1, <2>2, TakenKept
<1>9. Core(y)
  BY <1>1, <1>2, <1>6, <1>8, Taken
<1>10. s \in Stream /\ Heard(State) => StillAnswers(State, y, s, d)
  <2> SUFFICES ASSUME Heard(State) PROVE StillAnswers(State, y, s, d)
    OBVIOUS
  <2>1. ASSUME NEW x \in 0 .. 1, h.sent = <<Msg("readdone", s, x)>>
        PROVE  Holds(y.toServer, "readdone", s)
    <3>1. h.sent # <<>>
      BY <2>1
    <3>2. Len(y.toServer) = Len(toServer) + 1 /\ Len(y.toServer) \in DOMAIN y.toServer
      BY <1>2, <3>1 DEF Said
    <3>3. Len(toServer) \in Nat
      BY <1>1, <1>3 DEF Core, Typed
    <3>4. h.sent = <<y.toServer[Len(y.toServer)]>>
      BY <1>2, <3>2, <3>3 DEF Said
    <3>5. y.toServer[Len(y.toServer)] = Msg("readdone", s, x)
      BY <2>1, <3>4
    <3> QED
      BY <3>2, <3>5 DEF Holds, Msg
  <2>2. Owes(h, s) /\ ~(d = 1 /\ State.toClient[1].type \in Opens)
    BY <1>3
  <2> QED
    BY <1>3, <2>1, <2>2 DEF Owes, StillAnswers
<1>11. Awaited(y)
  BY <1>1, <1>2, <1>9, <1>10, StillOwed
<1>12. h \in Clients
  BY DEF Does
<1> QED
  BY <1>9, <1>11, <1>12 DEF Fits, y

(* proc_exit and client_exit, from a state that fits. *)
LEMMA ExitsFits ==
    ASSUME NEW q, NEW h, NEW o, Fits(q, h, o), NEW why \in {"told", "other"},
           NEW u, u = Exits(h, why),
           why = "told" =>
              \/ "attached" \in server.flags
              \/ /\ h.process.pc = "wait" /\ h.process.told
                 /\ \A s \in Printing : h.process.file[s].left = 0
    PROVE  Fits(q, u, o)
<1>1. h \in Clients /\ Core(There(q, h, o))
  BY DEF Fits
<1>2. u \in Clients /\ u.process.pc = "gone" /\ Core(There(q, u, o))
  BY <1>1, ExitsKeeps
<1> QED
  BY <1>2 DEF Fits

(* client_exit, from a state that fits.                                     *)
LEMMA ExitFits ==
    ASSUME NEW q, NEW h, NEW o, Fits(q, h, o), h.process.told,
           h.process.pc \in {"wait", "attached"}, NEW u, u = Exit(h)
    PROVE  Fits(q, u, o)
<1>1. h \in Clients /\ Core(There(q, h, o))
  BY DEF Fits
<1>2. u \in Clients /\ (u = h \/ u.process.pc = "gone") /\ Core(There(q, u, o))
  BY <1>1, ExitKeeps
<1> QED
  BY <1>2 DEF Fits

(* The client as a step of it finds it. *)
LEMMA ClientFacts ==
    ASSUME Before
    PROVE  /\ Core(State) /\ Awaited(State) /\ Here \in Clients /\ Here.process = process
           /\ Here.sent = <<>> /\ Here.fault = "none" /\ process \in ProcessType
           /\ process.file \in [Stream -> ProcessFile]
           /\ output \in OutputType /\ toClient \in Seq(ToClient) /\ toServer \in Seq(ToServer)
           /\ server.flags \subseteq Flag /\ pane \in BOOLEAN
<1>1. Core(State) /\ Awaited(State)
  BY DEF Before
<1>2. Typed(State)
  BY <1>1 DEF Core
<1> QED
  BY <1>1, <1>2, HereFields, StateFields DEF Typed, ProcessType, ServerType

(* Nothing is done, and no message taken. *)
LEMMA HereFits ==
    ASSUME Before, Alive
    PROVE  Fits(toClient, Here, output)
<1>1. Does(Here, 0, 0)
  BY ClientFacts DEF Does, Alive
<1>2. toClient = Rest(0)
  BY DEF Rest
<1> QED
  BY <1>1, <1>2, PlainFits

(* The client says m, a message about no file. *)
LEMMA SayDoes ==
    ASSUME Before, NEW d \in {0, 1}, NEW h, Does(h, 0, d), h.sent = <<>>,
           NEW type \in {"exiting", "wakeup", "unlock"}, NEW u, u = Say(h, Plain(type))
    PROVE  Does(u, 0, d)
<1> DEFINE m == Plain(type)
<1>1. m \in ToServer /\ m.stream = 0 /\ m.type \notin {"command", "shell"}
  BY DEF Plain, Msg, ToServer
<1>2. u = Say(h, m)
  OBVIOUS
<1> HIDE DEF m
<1>3. h \in Clients
  BY DEF Does
<1>4. u \in Clients /\ u.process = h.process /\ u.fault = h.fault /\ u.sent = <<m>>
  BY ONLY <1>1, <1>2, <1>3, h.sent = <<>>, SayFields
<1> QED
  BY <1>1, <1>4 DEF Does

(* A client is killed.                                                      *)
LEMMA KilledKept ==
    ASSUME Before, Killed
    PROVE  Kept'
<1>1. /\ Alive /\ fault = "none" /\ toClient' = toClient /\ output' = output /\ Elsewhere
      /\ Comes(Exits(Here, "other"))
  BY DEF Killed, Free
<1> DEFINE u == Exits(Here, "other")
<1>2. Fits(toClient, Here, output)
  BY <1>1, HereFits
<1>3. u = Exits(Here, "other")
  OBVIOUS
<1> HIDE DEF u
<1>4. Fits(toClient, u, output)
  BY ONLY <1>2, <1>3, ExitsFits
<1>5. Comes(u)
  BY <1>1, <1>3
<1> QED
  BY <1>1, <1>4, <1>5, ComesKept

(* client_dispatch: the server is gone                                      *)
LEMMA ClientLosesServerKept ==
    ASSUME Before, ClientLosesServer
    PROVE  Kept'
<1>1. /\ Alive /\ fault = "none" /\ toClient' = toClient /\ output' = output /\ Elsewhere
      /\ Comes(Exits(Here, "other"))
  BY DEF ClientLosesServer, Free, Works
<1> DEFINE u == Exits(Here, "other")
<1>2. Fits(toClient, Here, output)
  BY <1>1, HereFits
<1>3. u = Exits(Here, "other")
  OBVIOUS
<1> HIDE DEF u
<1>4. Fits(toClient, u, output)
  BY ONLY <1>2, <1>3, ExitsFits
<1>5. Comes(u)
  BY <1>1, <1>3
<1> QED
  BY <1>1, <1>4, <1>5, ComesKept

(* client_signal *)
LEMMA SignalKept ==
    ASSUME Before, Signal
    PROVE  Kept'
<1>1. /\ Alive /\ fault = "none" /\ toClient' = toClient /\ output' = output /\ Elsewhere
      /\ Comes(IF process.pc = "wait" THEN Exits(Here, "other") ELSE Say(Here, Plain("exiting")))
  BY DEF Signal, Free, Works
<1>2. Fits(toClient, Here, output)
  BY <1>1, HereFits
<1>3. CASE process.pc = "wait"
  <2> DEFINE u == Exits(Here, "other")
  <2>1. u = Exits(Here, "other") /\ Comes(u)
    BY <1>1, <1>3
  <2> HIDE DEF u
  <2>2. Fits(toClient, u, output)
    BY ONLY <1>2, <2>1, ExitsFits
  <2> QED
    BY <1>1, <2>1, <2>2, ComesKept
<1>4. CASE process.pc # "wait"
  <2> DEFINE u == Say(Here, Plain("exiting"))
  <2>1. u = Say(Here, Plain("exiting")) /\ Comes(u)
    BY <1>1, <1>4
  <2> HIDE DEF u
  <2>2. Does(Here, 0, 0) /\ Here.sent = <<>>
    BY <1>1, ClientFacts DEF Does, Alive
  <2>3. Does(u, 0, 0)
    BY <2>1, <2>2, SayDoes
  <2>4. toClient = Rest(0)
    BY DEF Rest
  <2>5. Fits(toClient, u, output)
    BY <1>1, <2>3, <2>4, PlainFits
  <2> QED
    BY <1>1, <2>1, <2>5, ComesKept
<1> QED
  BY <1>3, <1>4

(* SIGCONT and the end of the lock command *)
LEMMA GoesOnKept ==
    ASSUME Before, GoesOn
    PROVE  Kept'
<1> DEFINE p == [process EXCEPT !.stopped = "no"]
           h == [Here EXCEPT !.process.stopped = "no"]
           type == IF process.stopped = "stopped" THEN "wakeup" ELSE "unlock"
           u == Say(h, Plain(type))
<1>1. /\ Alive /\ fault = "none" /\ toClient' = toClient /\ output' = output /\ Elsewhere
      /\ Comes(u)
  BY DEF GoesOn, Free
<1>2. /\ p \in ProcessType /\ p.pc = process.pc /\ p.told = process.told /\ p.why = process.why
      /\ p.file = process.file
  BY ClientFacts DEF ProcessType
<1>3. h = [Here EXCEPT !.process = p]
  BY DEF Here
<1>4. u = Say(h, Plain(type)) /\ type \in {"exiting", "wakeup", "unlock"}
  OBVIOUS
<1> HIDE DEF p, h, type, u
<1>5. h \in Clients /\ h.process = p /\ h.sent = <<>> /\ h.fault = "none"
  BY <1>2, <1>3, ClientFacts, SetProcess
<1>6. Does(h, 0, 0)
  BY <1>1, <1>2, <1>5 DEF Does, Alive
<1>7. Does(u, 0, 0)
  BY <1>4, <1>5, <1>6, SayDoes
<1>8. toClient = Rest(0)
  BY DEF Rest
<1>9. Fits(toClient, u, output)
  BY <1>1, <1>7, <1>8, PlainFits
<1> QED
  BY <1>1, <1>9, ComesKept

(* What the state tells of the file s of the client. *)
LEMMA ClientFile ==
    ASSUME Before, NEW s \in Stream
    PROVE  LET f == process.file[s] IN
           /\ f \in ProcessFile /\ f.left \in Nat
           /\ s \in Printing /\ f.left > 0 => f.kind = "write"
           /\ s \in Printing /\ f.kind = "write" /\ ~f.open => s \in output.refused
           /\ f.kind = "read" => s \notin Printing /\ Reading(State, s)
           /\ s \in Printing => /\ Reached(State, s) = output.written[s] + f.left
                                /\ output.written[s] \in Nat /\ Chunk(State, s, 0) = 0
<1>1. Core(State) /\ Typed(State)
  BY DEF Before, Core
<1>2. StreamKept(State, s) /\ Matched(State, s)
  BY <1>1 DEF Core
<1>3. process.file[s] \in ProcessFile /\ process.file[s].left \in Nat
  BY ClientFacts DEF ProcessFile
<1>4. process.file[s].kind = "read" => Reading(State, s)
  BY StateFields DEF Reading
<1>5. process.file[s].kind = "read" => s \notin Printing
  BY <1>2, <1>4 DEF Matched
<1>6. s \in Printing => /\ Reached(State, s) = output.written[s] + process.file[s].left
                        /\ output.written[s] \in Nat /\ Chunk(State, s, 0) = 0
  BY ClientFacts, StateFields DEF Reached, Chunk, OutputType
<1> QED
  BY <1>2, <1>3, <1>4, <1>5, <1>6, StateFields DEF StreamKept

(* The file s of the client changes, and something may be said of it. *)
LEMMA FilesDoes ==
    ASSUME Before, Alive, NEW s \in Stream, NEW d \in {0, 1},
           d = 1 => toClient # <<>> /\ toClient[1].stream = s,
           NEW g \in Clients, g.process = process,
           \/ g.sent = <<>>
           \/ \E m \in ToServer : m.stream = s /\ m.type \notin {"command", "shell"} /\ g.sent = <<m>>,
           NEW u, Files(g, u, s)
    PROVE  /\ Does(u, s, d) /\ u \in Clients /\ u.sent = g.sent /\ u.fault = g.fault
           /\ u.process.told = process.told /\ u.process.pc = process.pc
<1>1. /\ u \in Clients /\ u.sent = g.sent /\ u.fault = g.fault
      /\ u.process.pc = process.pc /\ u.process.told = process.told
      /\ u.process.why = process.why
      /\ \A t \in Stream : t # s => u.process.file[t] = process.file[t]
  BY DEF Files, Alike
<1> QED
  BY <1>1 DEF Does, Alive

(* A client is like itself.                                                 *)
LEMMA SameFiles ==
    ASSUME NEW h \in Clients, NEW s
    PROVE  Files(h, h, s)
  BY DEF Files, Alike

(* The client says what it has to say of a file. *)
LEMMA SaysOfFile ==
    ASSUME Before, NEW s \in Stream, NEW type \in {"read", "readdone", "writeready"},
           NEW x \in 0 .. 1, type = "read" => x = 0, NEW u, u = Say(Here, Msg(type, s, x))
    PROVE  /\ u \in Clients /\ u.process = process /\ u.fault = "none"
           /\ u.sent = <<Msg(type, s, x)>>
           /\ \E m \in ToServer : m.stream = s /\ m.type \notin {"command", "shell"} /\ u.sent = <<m>>
<1> DEFINE m == Msg(type, s, x)
<1>1. m \in ToServer /\ m.stream = s /\ m.type \notin {"command", "shell"}
  BY DEF Msg, ToServer
<1>2. u = Say(Here, m) /\ m = Msg(type, s, x)
  OBVIOUS
<1> HIDE DEF m
<1>3. u \in Clients /\ u.process = process /\ u.fault = "none" /\ u.sent = <<m>>
  BY ONLY Before, <1>1, <1>2, ClientFacts, SayFields
<1> QED
  BY <1>1, <1>2, <1>3

(* The history may stay as it is.                                           *)
LEMMA NoNotes ==
    ASSUME Before, NEW s
    PROVE  Notes(output, s)
  BY ClientFacts DEF Notes

(* file_read_callback *)
LEMMA ReadSomeKept ==
    ASSUME Before, NEW s \in Stream, ReadSome(s)
    PROVE  Kept'
<1> DEFINE u == Say(Here, Msg("read", s, 0))
<1>1. /\ Alive /\ fault = "none" /\ toClient' = toClient /\ output' = output /\ Elsewhere
      /\ Comes(u) /\ process.file[s].kind = "read" /\ process.file[s].open
  BY DEF ReadSome, Free, Works
<1>2. u = Say(Here, Msg("read", s, 0)) /\ 0 \in 0 .. 1
  OBVIOUS
<1> HIDE DEF u
<1>3. /\ u \in Clients /\ u.process = process /\ u.fault = "none"
      /\ u.sent = <<Msg("read", s, 0)>>
      /\ \E m \in ToServer : m.stream = s /\ m.type \notin {"command", "shell"} /\ u.sent = <<m>>
  BY <1>2, SaysOfFile
<1>4. Files(u, u, s)
  BY <1>3, SameFiles
<1>5. Does(u, s, 0)
  BY <1>1, <1>3, <1>4, FilesDoes
<1>6. s \notin Printing /\ Reading(State, s)
  BY <1>1, ClientFile
<1>7. Owes(u, s)
  BY <1>1, <1>3 DEF Owes
<1>8. toClient = Rest(0) /\ Notes(output, s)
  BY NoNotes DEF Rest
<1>9. Fits(toClient, u, output)
  BY <1>1, <1>3, <1>5, <1>6, <1>7, <1>8, FileFits
<1> QED
  BY <1>1, <1>9, ComesKept

(* file_read_error_callback *)
LEMMA ReadEndsKept ==
    ASSUME Before, NEW s \in Stream, ReadEnds(s)
    PROVE  Kept'
<1>1. /\ Alive /\ fault = "none" /\ toClient' = toClient /\ output' = output /\ Elsewhere
      /\ process.file[s].kind = "read" /\ process.file[s].open
  BY DEF ReadEnds, Free, Works
<1>2. PICK x \in 0 .. 1 : Comes(Freed(Say(Here, Msg("readdone", s, x)), s))
  BY DEF ReadEnds
<1> DEFINE g == Say(Here, Msg("readdone", s, x))
           u == Freed(g, s)
<1>3. g = Say(Here, Msg("readdone", s, x)) /\ u = Freed(g, s) /\ Comes(u)
  BY <1>2
<1> HIDE DEF u, g
<1>4. /\ g \in Clients /\ g.process = process /\ g.fault = "none"
      /\ g.sent = <<Msg("readdone", s, x)>>
      /\ \E m \in ToServer : m.stream = s /\ m.type \notin {"command", "shell"} /\ g.sent = <<m>>
  BY <1>3, SaysOfFile
<1>5. Files(g, u, s) /\ u.process.file[s] = NoProcessFile
  BY <1>3, <1>4, FreedFields
<1>6. Does(u, s, 0) /\ u.sent = g.sent
  BY <1>1, <1>4, <1>5, FilesDoes
<1>7. s \notin Printing /\ Reading(State, s)
  BY <1>1, ClientFile
<1>8. Owes(u, s)
  BY <1>4, <1>6 DEF Owes
<1>9. toClient = Rest(0) /\ Notes(output, s)
  BY NoNotes DEF Rest
<1>10. MayClose(State, s, 0) /\ u.process.file[s].kind = "none"
  BY <1>1, <1>5, StateFields DEF MayClose, NoProcessFile
<1>11. u.sent # <<>> /\ \E type \in {"read", "readdone"}, y \in 0 .. 1 : u.sent = <<Msg(type, s, y)>>
  BY <1>4, <1>6
<1>12. Fits(toClient, u, output)
  BY <1>1, <1>6, <1>7, <1>8, <1>9, <1>10, <1>11, FileFits
<1> QED
  BY <1>1, <1>3, <1>12, ComesKept

(* A step goes wrong for good. *)
LEMMA FaultFits ==
    ASSUME NEW q, NEW h, NEW o, Fits(q, h, o), NEW what \in Fault,
           NEW u, u = [h EXCEPT !.fault = what]
    PROVE  Fits(q, u, o)
<1>1. u \in Clients /\ u.process = h.process /\ u.sent = h.sent
  BY DEF Fits, Clients
<1>2. There(q, u, o) = There(q, h, o)
  BY <1>1 DEF There
<1> QED
  BY <1>1, <1>2 DEF Fits

(* A client that has been told to exit may, once it has written or could not. *)
LEMMA CheckedFits ==
    ASSUME Before, Alive, NEW q, NEW h, NEW o, Fits(q, h, o), Does(h, 0, 0) \/ h.process.pc = process.pc,
           NEW u, u = (IF h.process.told THEN Exit(h) ELSE h)
    PROVE  Fits(q, u, o)
<1>1. CASE h.process.told
  <2>1. u = Exit(h) /\ h.process.pc \in {"wait", "attached"}
    BY <1>1 DEF Alive, Does
  <2> QED
    BY ONLY <1>1, <2>1, Fits(q, h, o), ExitFits
<1>2. CASE ~h.process.told
  BY <1>2
<1> QED
  BY <1>1, <1>2

(* What is written of stream s is added to the history. *)
LEMMA WrittenNotes ==
    ASSUME Before, NEW s \in Stream, NEW n \in Nat,
           NEW o, o = (IF s \in Printing THEN [output EXCEPT !.written[s] = @ + n] ELSE output)
    PROVE  Notes(o, s) /\ o.refused = output.refused /\ (s \in Printing => o.written[s] = output.written[s] + n)
<1> DEFINE w == [output.written EXCEPT ![s] = @ + n]
<1>1. output \in OutputType /\ output.written \in [Printing -> Nat]
  BY ClientFacts DEF OutputType
<1>2. CASE s \in Printing
  <2>1. /\ w \in [Printing -> Nat] /\ w[s] = output.written[s] + n
        /\ \A t \in Printing : t # s => w[t] = output.written[t]
    BY <1>1, <1>2
  <2>2. o = [output EXCEPT !.written = w]
    BY <1>2
  <2> HIDE DEF w
  <2>3. /\ o \in OutputType /\ o.printed = output.printed /\ o.promised = output.promised
        /\ o.refused = output.refused /\ o.written = w
    BY <1>1, <2>1, <2>2 DEF OutputType
  <2> QED
    BY <2>1, <2>3 DEF Notes
<1>3. CASE s \notin Printing
  BY <1>1, <1>3 DEF Notes
<1> QED
  BY <1>2, <1>3

(* file_write_callback *)
LEMMA WriteOutKept ==
    ASSUME Before, NEW s \in Stream, WriteOut(s)
    PROVE  Kept'
<1> DEFINE f == process.file[s]
           g == [f EXCEPT !.left = 0]
           w == [Here EXCEPT !.process.file[s].left = 0]
           n == f.left
           o == IF s \in Printing THEN [output EXCEPT !.written[s] = @ + n] ELSE output
           astray == f.to # s /\ f.to \notin {1, 2}
           u == IF w.process.told THEN Exit(w) ELSE w
           v == [w EXCEPT !.fault = "astray"]
<1>1. /\ Alive /\ fault = "none" /\ toClient' = toClient /\ output' = o /\ Elsewhere
      /\ f.kind = "write" /\ f.open
      /\ Comes(IF astray THEN v ELSE u)
  BY DEF WriteOut, Free, Works
<1>2. /\ f \in ProcessFile /\ n \in Nat
      /\ s \in Printing => Reached(State, s) = output.written[s] + n
                           /\ output.written[s] \in Nat /\ Chunk(State, s, 0) = 0
  BY ClientFile
<1>3. g \in ProcessFile /\ g.kind = f.kind /\ g.open = f.open /\ g.left = 0
  BY <1>2 DEF ProcessFile
<1>4. w = Put(Here, s, g)
  BY DEF Put, Here
<1>5. u = (IF w.process.told THEN Exit(w) ELSE w) /\ v = [w EXCEPT !.fault = "astray"]
  OBVIOUS
<1>6. o = (IF s \in Printing THEN [output EXCEPT !.written[s] = @ + n] ELSE output)
  OBVIOUS
<1>7. f = process.file[s]
  OBVIOUS
<1> HIDE DEF f, g, w, n, o, u, v
<1>8. Files(Here, w, s) /\ w.process.file[s] = g
  BY <1>3, <1>4, ClientFacts, PutFile DEF Files
<1>9. Does(w, s, 0) /\ w.sent = <<>> /\ w.process.pc = process.pc
  BY <1>1, <1>8, ClientFacts, FilesDoes
<1>10. Notes(o, s) /\ o.refused = output.refused /\ (s \in Printing => o.written[s] = output.written[s] + n)
  BY <1>2, <1>6, WrittenNotes
<1>11. Keeping(w, o, s, 0) \/ s \notin Printing
  BY <1>1, <1>2, <1>3, <1>8, <1>10 DEF Keeping
<1>12. Owes(w, s) /\ w.process.file[s].kind = process.file[s].kind
  BY <1>1, <1>3, <1>7, <1>8 DEF Owes
<1>13. toClient = Rest(0)
  BY DEF Rest
<1>14. Fits(toClient, w, o)
  BY <1>1, <1>9, <1>10, <1>11, <1>12, <1>13, FileFits
<1>15. CASE astray
  <2>1. Comes(v) /\ "astray" \in Fault
    BY <1>1, <1>15 DEF Fault
  <2>2. Fits(toClient, v, o)
    BY ONLY <1>5, <1>14, <2>1, FaultFits
  <2> QED
    BY <1>1, <2>1, <2>2, ComesKept
<1>16. CASE ~astray
  <2>1. Comes(u)
    BY <1>1, <1>16
  <2>2. Fits(toClient, u, o)
    BY ONLY Before, <1>1, <1>5, <1>9, <1>14, CheckedFits
  <2> QED
    BY <1>1, <2>1, <2>2, ComesKept
<1> QED
  BY <1>15, <1>16

(* file_write_error_callback *)
LEMMA WriteFailsKept ==
    ASSUME Before, NEW s \in Stream, WriteFails(s)
    PROVE  Kept'
<1> DEFINE f == process.file[s]
           g == [NoProcessFile EXCEPT !.kind = "write"]
           e == Freed(Here, s)
           w == [e EXCEPT !.process.file[s] = g]
           o == [output EXCEPT !.refused = @ \cup {s}]
           u == IF w.process.told THEN Exit(w) ELSE w
<1>1. /\ Alive /\ fault = "none" /\ toClient' = toClient /\ output' = o /\ Elsewhere
      /\ f.kind = "write" /\ Comes(u)
  BY DEF WriteFails, Free, Works
<1>2. /\ f.left \in Nat
      /\ s \in Printing => Reached(State, s) = output.written[s] + f.left
                           /\ output.written[s] \in Nat
  BY ClientFile
<1>3. g \in ProcessFile /\ g.kind = "write" /\ g.left = 0
  BY NoFile DEF ProcessFile, NoProcessFile
<1>4. w = Put(e, s, g) /\ e = Freed(Here, s)
  BY DEF Put
<1>5. u = (IF w.process.told THEN Exit(w) ELSE w)
  OBVIOUS
<1>6. /\ o \in OutputType /\ o.printed = output.printed /\ o.promised = output.promised
      /\ o.refused = output.refused \cup {s} /\ o.written = output.written
  BY ClientFacts DEF OutputType
<1>7. f = process.file[s]
  OBVIOUS
<1> HIDE DEF f, g, e, w, o, u
<1>8. Files(Here, e, s)
  BY <1>4, ClientFacts, FreedFields
<1>9. e \in Clients
  BY <1>8 DEF Files, Alike
<1>10. Files(e, w, s) /\ w.process.file[s] = g
  BY <1>3, <1>4, <1>9, PutFile DEF Files
<1>11. Files(Here, w, s)
  BY <1>8, <1>10 DEF Files, Alike
<1>12. Does(w, s, 0) /\ w.sent = <<>> /\ w.process.pc = process.pc
  BY <1>1, <1>11, ClientFacts, FilesDoes
<1>13. Notes(o, s)
  BY <1>6 DEF Notes
<1>14. Keeping(w, o, s, 0) \/ s \notin Printing
  BY <1>1, <1>2, <1>3, <1>6, <1>10 DEF Keeping
<1>15. Owes(w, s) /\ w.process.file[s].kind = process.file[s].kind
  BY <1>1, <1>3, <1>7, <1>10 DEF Owes
<1>16. toClient = Rest(0)
  BY DEF Rest
<1>17. Fits(toClient, w, o)
  BY <1>1, <1>12, <1>13, <1>14, <1>15, <1>16, FileFits
<1>18. Fits(toClient, u, o)
  BY ONLY Before, <1>1, <1>5, <1>12, <1>17, CheckedFits
<1> QED
  BY <1>1, <1>18, ComesKept

(* What was queued for a client that is gone is of no use to it. *)
LEMMA GonePops ==
    ASSUME NEW x, Core(x), x.process.pc \notin {"wait", "attached"}, x.toClient # <<>>,
           NEW y, Typed(y), y.server = x.server, y.process = x.process, y.toServer = x.toServer,
           y.pane = x.pane, y.output = x.output, y.toClient = Tail(x.toClient)
    PROVE  Core(y)
<1> DEFINE q == x.toClient
           r == y.toClient
<1>1. Typed(x) /\ q \in Seq(ToClient) /\ Len(q) \in Nat \ {0} /\ Len(r) = Len(q) - 1
  BY Popped DEF Core, Typed
<1>2. Without(r, q, 1)
  BY <1>1, WithoutFirst
<1>3. ASSUME NEW type, NEW t, Holds(r, type, t) PROVE Holds(q, type, t)
  BY <1>2, <1>3, HeldBefore
<1>4. \A k \in DOMAIN r : k + 1 \in DOMAIN q /\ r[k] = q[k + 1]
  BY <1>1, <1>2 DEF Without
<1>5. Phases(y) /\ Leaving(y)
  <2>1. Phases(x) /\ Leaving(x)
    BY DEF Core
  <2> QED
    BY <1>3, <2>1 DEF Phases, Leaving
<1>6. ASSUME NEW s \in Stream
      PROVE  FileKept(y, s) /\ StreamKept(y, s) /\ Matched(y, s) /\ Known(y, s)
  <2>1. FileKept(x, s) /\ StreamKept(x, s) /\ Matched(x, s)
    BY DEF Core
  <2>2. FileKept(y, s)
    BY <2>1 DEF FileKept
  <2>3. StreamKept(y, s)
    BY <1>4, <2>1 DEF StreamKept
  <2>4. Matched(y, s)
    BY <1>3, <2>1 DEF Matched, Reading
  <2> QED
    BY <2>2, <2>3, <2>4 DEF Known
<1>7. ASSUME NEW s \in Printing PROVE Sums(y, s)
  <2>1. Sums(x, s)
    BY DEF Core
  <2>2. Arrived(x, s) => Arrived(y, s)
    BY DEF Arrived
  <2>3. Arriving(y, s)
    BY DEF Arriving
  <2>4. Chunks(q, Len(q), s) = Chunks(r, Len(r), s) + IF q[1].type = "write" /\ q[1].stream = s THEN 1 ELSE 0
    BY <1>1, ChunksPopped
  <2>5. Chunks(r, Len(r), s) \in Nat
    BY <1>1, ChunksFinite
  <2>6. Total(y, s) <= Total(x, s) /\ Total(x, s) \in Nat /\ Total(y, s) \in Nat
    <3>1. Reached(y, s) = Reached(x, s) /\ Reached(x, s) \in Nat /\ y.server.file[s].left \in Nat
      BY <1>1, ReachedType, SumTypes DEF Reached
    <3>2. PICK d \in {0, 1} : Chunks(q, Len(q), s) = Chunks(r, Len(r), s) + d
      BY <2>4
    <3>3. PICK a \in Nat, b \in Nat, c \in Nat :
             a = Reached(x, s) /\ b = Chunks(r, Len(r), s) /\ c = x.server.file[s].left
      BY <2>5, <3>1
    <3>4. Total(x, s) = a + (b + d) + c
      BY <3>2, <3>3 DEF Total
    <3>5. Total(y, s) = a + b + c
      BY <3>1, <3>3 DEF Total
    <3> HIDE DEF q, r
    <3> QED
      BY <3>4, <3>5
  <2>7. x.output.printed[s] \in Nat
    BY <1>1, SumTypes
  <2> QED
    BY <2>1, <2>2, <2>3, <2>6, <2>7 DEF Sums
<1> QED
  BY <1>5, <1>6, <1>7 DEF Core

(* A fatalx over a message, when the pane is gone. *)
LEMMA FatalFits ==
    ASSUME Before, Alive, toClient # <<>>, ~pane, NEW u, u = Fatal(Here)
    PROVE  Fits(Tail(toClient), u, output)
<1> DEFINE x == There(toClient, u, output)
           y == There(Tail(toClient), u, output)
<1>1. Here \in Clients /\ Core(There(toClient, Here, output))
  BY HereFits DEF Fits
<1>2. /\ u \in Clients /\ u.sent = Here.sent /\ u.process.pc = "fatal" /\ Core(x)
  BY ONLY <1>1, ~pane, u = Fatal(Here), FatalKeeps
<1>3. /\ x.server = server /\ x.process = u.process /\ x.toServer = toServer \o u.sent
      /\ x.toClient = toClient /\ x.pane = pane /\ x.output = output
  BY ThereFields
<1>4. /\ y.server = server /\ y.process = u.process /\ y.toServer = toServer \o u.sent
      /\ y.toClient = Tail(toClient) /\ y.pane = pane /\ y.output = output
  BY DEF There
<1> HIDE DEF x, y
<1>5. Tail(toClient) \in Seq(ToClient)
  BY ClientFacts
<1>6. Typed(y)
  BY <1>2, <1>3, <1>4, <1>5 DEF Core, Typed
<1>7. Core(y)
  BY <1>2, <1>3, <1>4, <1>6, GonePops
<1> QED
  BY <1>2, <1>7 DEF Fits, y

(* What the first message tells of the file it is about. *)
LEMMA FirstMessageFor ==
    ASSUME Before, toClient # <<>>, NEW m, m = Head(toClient)
    PROVE  LET s == m.stream
               f == process.file[s]
           IN /\ m = toClient[1] /\ m \in ToClient
              /\ s = 0 \/ (s \in Stream /\ m.type \in Opens \cup {"write", "writeclose", "readcancel"})
              /\ m.type \in Opens => m.x \in {NoDescriptor} \cup Descriptor
              /\ m.type \in {"write", "writeclose"} /\ Heard(State) => f.kind = "write"
              /\ m.type \in {"writeclose", "readcancel", "readopen"} => s \notin Printing
              /\ m.type = "readcancel" => ~Heard(State) /\ ~pane /\ Reading(State, s)
<1>1. Core(State) /\ toClient \in Seq(ToClient) /\ 1 \in DOMAIN toClient /\ m = toClient[1]
  BY ClientFacts
<1>2. m \in ToClient
  BY <1>1
<1>3. /\ m.stream = 0 \/ (m.stream \in Stream /\ m.type \in Opens \cup {"write", "writeclose", "readcancel"})
      /\ m.type \in Opens => m.x \in {NoDescriptor} \cup Descriptor
      /\ m.type \in Opens \cup {"write", "writeclose", "readcancel"} => m.stream \in Stream
  BY <1>2 DEF ToClient, Opens
<1>4. ASSUME m.type \in {"write", "writeclose"}, Heard(State)
      PROVE  process.file[m.stream].kind = "write"
  <2>1. m.stream \in Stream
    BY <1>3, <1>4
  <2>2. Ordered(State, m.stream)
    BY <1>1, <1>4, <2>1 DEF Core, Known, Heard
  <2>3. ~\E j \in DOMAIN toClient : j < 1
    BY <1>1
  <2> QED
    BY <1>1, <1>4, <2>2, <2>3, StateFields DEF Ordered
<1>5. ASSUME m.type \in {"writeclose", "readcancel", "readopen"} PROVE m.stream \notin Printing
  <2>1. m.stream \in Stream
    BY <1>3, <1>5 DEF Opens
  <2>2. StreamKept(State, m.stream)
    BY <1>1, <2>1 DEF Core
  <2> QED
    BY <1>1, <1>5, <2>2, StateFields DEF StreamKept
<1>6. ASSUME m.type = "readcancel" PROVE ~Heard(State) /\ ~pane /\ Reading(State, m.stream)
  <2>1. m.stream \in Stream
    BY <1>3, <1>6
  <2>2. Holds(State.toClient, "readcancel", m.stream)
    BY <1>1, <1>6, StateFields DEF Holds
  <2>3. ~State.pane /\ "exit" \in State.server.flags
    BY <1>1, <2>1, <2>2 DEF Core, Phases
  <2> QED
    BY <2>2, <2>3, StateFields DEF Heard, Reading
<1> QED
  BY <1>1, <1>2, <1>3, <1>4, <1>5, <1>6

(* The history after a message was handled. *)
Noted(h) == [output EXCEPT !.refused =
                @ \cup {m.stream : m \in {n \in Range(h.sent) : n.type = "writeready" /\ n.x = 1}}]

(* The history is as it was if nothing was refused.                         *)
LEMMA NotedQuiet ==
    ASSUME Before, NEW h, h.sent = <<>> \/ \E m : h.sent = <<m>> /\ m.type # "writeready"
    PROVE  Noted(h) = output
<1> DEFINE M == {m.stream : m \in {n \in Range(h.sent) : n.type = "writeready" /\ n.x = 1}}
<1>1. \A n \in Range(h.sent) : n.type # "writeready"
  BY DEF Range
<1>2. M = {}
  BY <1>1
<1>3. Noted(h) = [output EXCEPT !.refused = @ \cup M]
  BY DEF Noted
<1> HIDE DEF M
<1>4. output.refused \cup M = output.refused
  BY <1>2
<1> QED
  BY <1>3, <1>4, ClientFacts DEF OutputType

(* A stream that could not be opened is noted.                              *)
LEMMA NotedRefused ==
    ASSUME Before, NEW s \in Stream, NEW x \in 0 .. 1, NEW h, h.sent = <<Msg("writeready", s, x)>>,
           NEW o, o = Noted(h)
    PROVE  /\ Notes(o, s) /\ o.written = output.written
           /\ x = 1 => s \in o.refused
<1> DEFINE M == {m.stream : m \in {n \in Range(h.sent) : n.type = "writeready" /\ n.x = 1}}
<1>1. Range(h.sent) = {Msg("writeready", s, x)}
  BY DEF Range
<1>2. M = IF x = 1 THEN {s} ELSE {}
  BY <1>1 DEF Msg
<1>3. o = [output EXCEPT !.refused = @ \cup M]
  BY DEF Noted
<1> HIDE DEF M
<1>4. /\ o \in OutputType /\ o.printed = output.printed /\ o.promised = output.promised
      /\ o.written = output.written /\ o.refused = output.refused \cup M
  <2>1. M \subseteq Stream /\ output \in OutputType
    BY <1>2, ClientFacts
  <2> DEFINE R == output.refused \cup M
  <2>2. R \subseteq Stream
    BY <2>1 DEF OutputType
  <2>3. o = [output EXCEPT !.refused = R]
    BY <1>3
  <2> HIDE DEF R
  <2>4. /\ o \in OutputType /\ o.printed = output.printed /\ o.promised = output.promised
        /\ o.written = output.written /\ o.refused = R
    BY ONLY <2>1, <2>2, <2>3 DEF OutputType
  <2> QED
    BY <2>4 DEF R
<1> QED
  BY <1>2, <1>4 DEF Notes

(* The process changes and takes a message that is about no file. *)
LEMMA PlainDoes ==
    ASSUME Before, Alive, toClient # <<>>, toClient[1].stream = 0, NEW p \in ProcessType,
           p.file = process.file, p.why = process.why,
           p.told => process.told \/ toClient[1].type \in {"exit", "shutdown"},
           \/ p.pc = process.pc
           \/ p.pc = "attached" /\ toClient[1].type = "ready",
           NEW u, u = [Here EXCEPT !.process = p]
    PROVE  Does(u, 0, 1) /\ u.sent = <<>> /\ u.process = p /\ u \in Clients
<1>1. u \in Clients /\ u.process = p /\ u.sent = <<>>
  BY ONLY Before, p \in ProcessType, u = [Here EXCEPT !.process = p], ClientFacts, SetProcess
<1> QED
  BY <1>1, ClientFacts DEF Does, Alive

(* Behind the first message is the tail.                                    *)
LEMMA RestOne == Tail(toClient) = Rest(1)
  BY DEF Rest

(* A message about no file is not heeded. *)
LEMMA PoppedFits ==
    ASSUME Before, Alive, toClient # <<>>, toClient[1].stream = 0
    PROVE  Fits(Tail(toClient), Here, output) /\ Does(Here, 0, 1) /\ Here.sent = <<>>
<1>1. Does(Here, 0, 1) /\ Here.sent = <<>>
  BY ClientFacts DEF Does, Alive
<1> QED
  BY <1>1, RestOne, PlainFits

(* client_dispatch_wait: MSG_EXIT and MSG_SHUTDOWN *)
LEMMA WaitsExit ==
    ASSUME Before, Alive, toClient # <<>>, toClient[1].type \in {"exit", "shutdown"},
           toClient[1].stream = 0, NEW u, u = Exit([Here EXCEPT !.process.told = TRUE])
    PROVE  Fits(Tail(toClient), u, output)
<1> DEFINE p == [process EXCEPT !.told = TRUE]
           w == [Here EXCEPT !.process.told = TRUE]
           q == Tail(toClient)
<1>1. p \in ProcessType /\ p.file = process.file /\ p.why = process.why /\ p.pc = process.pc /\ p.told
  BY ClientFacts DEF ProcessType
<1>2. w = [Here EXCEPT !.process = p] /\ u = Exit(w)
  BY DEF Here
<1>3. q = Rest(1) /\ q = Tail(toClient)
  BY RestOne
<1> HIDE DEF p, w, q
<1>4. Does(w, 0, 1) /\ w.process = p
  BY <1>1, <1>2, PlainDoes
<1>5. Fits(q, w, output)
  BY <1>3, <1>4, PlainFits
<1>6. w.process.told /\ w.process.pc \in {"wait", "attached"}
  BY <1>1, <1>4 DEF Alive
<1>7. Fits(q, u, output)
  BY ONLY <1>2, <1>5, <1>6, ExitFits
<1> QED
  BY <1>3, <1>7

(* client_dispatch_wait: MSG_READY *)
LEMMA WaitsReady ==
    ASSUME Before, Alive, toClient # <<>>, toClient[1].type = "ready", toClient[1].stream = 0,
           NEW u, u = [Here EXCEPT !.process.pc = "attached"]
    PROVE  Fits(Tail(toClient), u, output) /\ u.sent = <<>>
<1> DEFINE p == [process EXCEPT !.pc = "attached"]
           q == Tail(toClient)
<1>1. /\ p \in ProcessType /\ p.file = process.file /\ p.why = process.why /\ p.pc = "attached"
      /\ p.told <=> process.told
  BY ClientFacts DEF ProcessType
<1>2. u = [Here EXCEPT !.process = p]
  BY DEF Here
<1>3. q = Rest(1) /\ q = Tail(toClient)
  BY RestOne
<1> HIDE DEF p, q
<1>4. Does(u, 0, 1) /\ u.sent = <<>>
  BY <1>1, <1>2, PlainDoes
<1> QED
  BY <1>3, <1>4, PlainFits

(* The client says that it exits. *)
LEMMA ExitingFits ==
    ASSUME Before, Alive, toClient # <<>>, NEW h, Does(h, 0, 1), h.sent = <<>>,
           NEW u, u = Say(h, Plain("exiting"))
    PROVE  Fits(Tail(toClient), u, output) /\ Noted(u) = output
<1> DEFINE q == Tail(toClient)
<1>1. q = Rest(1) /\ q = Tail(toClient)
  BY RestOne
<1> HIDE DEF q
<1>2. Does(u, 0, 1)
  BY SayDoes
<1>3. u.sent = <<Plain("exiting")>>
  <2>1. Plain("exiting") \in ToServer /\ h \in Clients
    BY DEF Plain, Msg, ToServer, Does
  <2> QED
    BY <2>1, SayFields
<1>4. Plain("exiting").type = "exiting"
  BY DEF Plain, Msg
<1>5. Noted(u) = output
  BY <1>3, <1>4, NotedQuiet
<1> QED
  BY <1>1, <1>2, <1>5, PlainFits

(* The client has tried to open a file, or knew it, and answers m.          *)
LEMMA OpenedFits ==
    ASSUME Before, Alive, toClient # <<>>, NEW s \in Stream, toClient[1].stream = s,
           NEW type \in Opens, toClient[1].type = type,
           NEW kind, kind = (IF type = "writeopen" THEN "write" ELSE "read"),
           NEW answer, answer = (IF kind = "write" THEN "writeready" ELSE "readdone"),
           NEW x \in 0 .. 1, NEW m, m = Msg(answer, s, x),
           NEW g, Files(Here, g, s), NEW u,
           \/ u = Say(g, m)
           \/ u = g /\ kind = "read" /\ g.process.file[s].kind = "read" /\ g.process.file[s].open,
           \/ g.process.file[s] = process.file[s] /\ process.file[s].kind # "none"
           \/ /\ process.file[s].kind = "none"
              /\ g.process.file[s].kind = kind /\ g.process.file[s].left = 0
              /\ kind = "write" /\ ~g.process.file[s].open => x = 1
    PROVE  Fits(Tail(toClient), u, Noted(u))
<1> DEFINE q == Tail(toClient)
           o == Noted(u)
           y == There(q, u, o)
<1>1. /\ g \in Clients /\ g.sent = <<>> /\ g.fault = "none"
      /\ g.process.pc = process.pc /\ g.process.told = process.told
      /\ g.process.why = process.why
      /\ \A t \in Stream : t # s => g.process.file[t] = process.file[t]
  BY ClientFacts DEF Files, Alike
<1>2. m \in ToServer /\ m.stream = s /\ m.type = answer /\ m.x = x /\ m.type \notin {"command", "shell"}
  BY DEF Msg, ToServer
<1>3. /\ u \in Clients /\ u.process = g.process
      /\ \/ u.sent = <<m>>
         \/ u.sent = <<>> /\ kind = "read" /\ g.process.file[s].kind = "read" /\ g.process.file[s].open
  <2>1. CASE u = Say(g, m)
    <3>1. u \in Clients /\ u.process = g.process /\ u.sent = <<m>>
      BY ONLY <1>1, <1>2, <2>1, SayFields
    <3> QED
      BY <3>1
  <2>2. CASE u # Say(g, m)
    BY <1>1, <2>2
  <2> QED
    BY <2>1, <2>2
<1>4. /\ Notes(o, s) /\ o.written = output.written
      /\ u.sent = <<m>> /\ answer = "writeready" /\ x = 1 => s \in o.refused
  <2>1. CASE u.sent = <<m>> /\ answer = "writeready"
    <3>1. u.sent = <<Msg("writeready", s, x)>> /\ o = Noted(u)
      BY <2>1
    <3> HIDE DEF o
    <3> QED
      BY <3>1, NotedRefused
  <2>2. CASE ~(u.sent = <<m>> /\ answer = "writeready")
    <3>1. u.sent = <<>> \/ \E n : u.sent = <<n>> /\ n.type # "writeready"
      BY <1>2, <1>3, <2>2
    <3>2. Noted(u) = output
      BY ONLY Before, <3>1, NotedQuiet
    <3> QED
      BY <2>2, <3>2, NoNotes
  <2> QED
    BY <2>1, <2>2
<1>5. q = Rest(1)
  BY RestOne
<1>6. Does(u, s, 1)
  BY <1>1, <1>2, <1>3 DEF Does, Alive
<1> HIDE DEF q, o
<1>7. Core(State) /\ Awaited(State) /\ State.process.pc \in {"wait", "attached"}
  BY StateFields DEF Before, Alive
<1>8. Typed(y) /\ Takes(State, y, s, 1) /\ Said(u, y.toServer)
  BY <1>4, <1>5, <1>6, <1>7, DoesTakes
<1>9. /\ y.process = u.process /\ y.output = o /\ State.process = process
      /\ State.toClient = toClient /\ State.toServer = toServer /\ State.output = output
  BY StateFields, ThereFields
<1> HIDE DEF y
<1>10. SaysOnce(State, y, s, answer)
  <2>1. ASSUME NEW k \in Len(toServer) + 1 .. Len(y.toServer)
        PROVE  /\ y.toServer[k].type = answer
               /\ answer = "writeready" /\ y.toServer[k].x = 1 => s \in y.output.refused
    <3>1. u.sent = <<y.toServer[k]>>
      BY <1>8 DEF Said
    <3>2. y.toServer[k] = m
      BY <1>3, <3>1
    <3>3. u.sent = <<m>>
      BY <3>1, <3>2
    <3> QED
      BY <1>2, <1>4, <1>9, <3>2, <3>3
  <2>2. Len(y.toServer) <= Len(toServer) + 1
    BY <1>8 DEF Said
  <2> QED
    BY <1>9, <2>1, <2>2 DEF SaysOnce
<1>11. kind = "write" /\ ~g.process.file[s].open /\ process.file[s].kind = "none" => s \in o.refused
  BY <1>3, <1>4
<1>12. Core(y)
  <2>1. \/ y.process.file[s] = State.process.file[s] /\ State.process.file[s].kind # "none"
        \/ /\ State.process.file[s].kind = "none"
           /\ y.process.file[s].kind = kind /\ y.process.file[s].left = 0
           /\ kind = "write" /\ ~y.process.file[s].open => s \in y.output.refused
    BY <1>3, <1>9, <1>11
  <2>2. State.toClient[1].type = type /\ y.output.written = State.output.written
    BY <1>4, <1>9
  <2>3. answer = IF kind = "write" THEN "writeready" ELSE "readdone"
    OBVIOUS
  <2>4. SaysOnce(State, y, s, IF kind = "write" THEN "writeready" ELSE "readdone")
    BY <1>10, <2>3
  <2> QED
    BY <1>7, <1>8, <2>1, <2>2, <2>4, Opening
<1>13. StillAnswers(State, y, s, 1)
  <2>1. CASE u.sent = <<m>>
    <3>1. Len(y.toServer) = Len(toServer) + 1 /\ Len(y.toServer) \in DOMAIN y.toServer
      BY <1>8, <2>1 DEF Said
    <3>2. Len(toServer) \in Nat
      BY ClientFacts
    <3>3. u.sent = <<y.toServer[Len(y.toServer)]>>
      BY <1>8, <3>1, <3>2 DEF Said
    <3>4. y.toServer[Len(y.toServer)] = m
      BY <2>1, <3>3
    <3> QED
      BY <1>2, <3>1, <3>4 DEF Holds, StillAnswers
  <2>2. CASE u.sent # <<m>>
    BY <1>3, <1>9, <2>2 DEF StillAnswers
  <2> QED
    BY <2>1, <2>2
<1>14. Awaited(y)
  BY <1>7, <1>8, <1>12, <1>13, StillOwed
<1> QED
  BY <1>3, <1>12, <1>14 DEF Fits, y, q, o

(* file_write_open and file_read_open *)
LEMMA OpenFits ==
    ASSUME Before, Alive, toClient # <<>>, NEW s \in Stream, toClient[1].stream = s,
           NEW type \in Opens, toClient[1].type = type,
           NEW kind, kind = (IF type = "writeopen" THEN "write" ELSE "read"),
           NEW d \in {NoDescriptor} \cup Descriptor, NEW control \in BOOLEAN,
           NEW u \in Open(Here, s, d, kind, control)
    PROVE  Fits(Tail(toClient), u, Noted(u))
<1> DEFINE answer == IF kind = "write" THEN "writeready" ELSE "readdone"
           f == [NoProcessFile EXCEPT !.kind = kind]
           failed == [Here EXCEPT !.process.file[s] = f]
           opened == Opened(Here, s, d, kind, control)
           yes == Msg(answer, s, 0)
           no == Msg(answer, s, 1)
<1>1. \/ process.file[s].kind # "none" /\ u = Say(Here, no)
      \/ process.file[s].kind = "none" /\ u = Say(failed, no)
      \/ /\ process.file[s].kind = "none" /\ (d # NoDescriptor => process.fds[d] # Closed)
         /\ u = IF kind = "write" THEN Say(opened, yes) ELSE opened
  BY ClientFacts DEF Open
<1>2. kind \in {"write", "read"}
  OBVIOUS
<1>3. /\ answer = (IF kind = "write" THEN "writeready" ELSE "readdone")
      /\ yes = Msg(answer, s, 0) /\ no = Msg(answer, s, 1) /\ {0, 1} \subseteq 0 .. 1
  OBVIOUS
<1>4. f \in ProcessFile /\ f.kind = kind /\ f.left = 0
  BY <1>2, NoFile DEF ProcessFile, NoProcessFile
<1>5. failed = Put(Here, s, f) /\ opened = Opened(Here, s, d, kind, control)
  BY DEF Put
<1> HIDE DEF answer, f, failed, opened, yes, no
<1>6. CASE process.file[s].kind # "none" /\ u = Say(Here, no)
  <2>1. Files(Here, Here, s) /\ Here.process.file[s] = process.file[s]
    BY ClientFacts, SameFiles
  <2> QED
    BY <1>3, <1>6, <2>1, OpenedFits
<1>7. CASE process.file[s].kind = "none" /\ u = Say(failed, no)
  <2>1. Files(Here, failed, s) /\ failed.process.file[s] = f
    BY <1>4, <1>5, ClientFacts, PutFile DEF Files
  <2> QED
    BY <1>3, <1>4, <1>7, <2>1, OpenedFits
<1>8. CASE /\ process.file[s].kind = "none" /\ (d # NoDescriptor => process.fds[d] # Closed)
           /\ u = IF kind = "write" THEN Say(opened, yes) ELSE opened
  <2>1. /\ Files(Here, opened, s) /\ opened.process.file[s].kind = kind
        /\ opened.process.file[s].open /\ opened.process.file[s].left = 0
    <3>1. Here \in Clients /\ (d # NoDescriptor => Here.process.fds[d] # Closed)
      BY <1>8, ClientFacts
    <3> QED
      BY ONLY <1>2, <1>5, <3>1, s \in Stream, d \in {NoDescriptor} \cup Descriptor,
              control \in BOOLEAN, OpenedFields
  <2>2. \/ u = Say(opened, yes)
        \/ u = opened /\ kind = "read" /\ opened.process.file[s].kind = "read" /\ opened.process.file[s].open
    BY <1>2, <1>8, <2>1
  <2> QED
    BY <1>3, <1>8, <2>1, <2>2, OpenedFits
<1> QED
  BY <1>1, <1>6, <1>7, <1>8

(* file_write_data *)
LEMMA WriteDataFits ==
    ASSUME Before, process.pc = "wait", toClient # <<>>, NEW s \in Stream, toClient[1].stream = s,
           toClient[1].type = "write", NEW u, u = WriteData(Here, s)
    PROVE  Fits(Tail(toClient), u, output) /\ u.sent = <<>>
<1> DEFINE f == process.file[s]
           g == [f EXCEPT !.left = @ + 1]
           w == [Here EXCEPT !.process.file[s].left = @ + 1]
           q == Tail(toClient)
<1>1. /\ f.kind = "none" => u = Fatal(Here)
      /\ f.kind # "none" => u = IF f.open THEN w ELSE Here
  BY ClientFacts DEF WriteData
<1>2. /\ f \in ProcessFile /\ f.left \in Nat /\ f.kind \in {"none", "write", "read"}
      /\ f.kind = "read" => s \notin Printing
      /\ s \in Printing /\ f.kind = "write" /\ ~f.open => s \in output.refused
      /\ s \in Printing => Reached(State, s) = output.written[s] + f.left /\ output.written[s] \in Nat
      /\ s \in Printing /\ f.left > 0 => f.kind = "write"
  BY ClientFile DEF ProcessFile
<1>3. g \in ProcessFile /\ g.kind = f.kind /\ (g.open <=> f.open) /\ g.left = f.left + 1
  BY <1>2 DEF ProcessFile
<1>4. w = Put(Here, s, g)
  BY DEF Put, Here
<1>5. f = process.file[s] /\ q = Tail(toClient) /\ q = Rest(1)
  BY RestOne
<1> HIDE DEF f, g, w, q
<1>6. Alive /\ Here.sent = <<>> /\ State.toClient = toClient /\ Core(State)
  BY ClientFacts, StateFields DEF Alive
<1>7. toClient[1] = Head(toClient)
  BY ClientFacts
<1>8. Heard(State) => f.kind = "write"
  BY <1>5, <1>7, FirstMessageFor
<1>9. CASE f.kind = "none"
  <2>1. ~pane /\ u = Fatal(Here)
    BY <1>1, <1>8, <1>9, StateFields, ClientFacts DEF Heard
  <2>2. u.sent = <<>>
    BY <1>6, <2>1 DEF Fatal, Here
  <2> QED
    BY <1>6, <2>1, <2>2, FatalFits
<1>10. CASE f.kind # "none" /\ f.open
  <2>1. u = w /\ Files(Here, w, s) /\ w.process.file[s] = g
    BY <1>1, <1>3, <1>4, <1>10, ClientFacts, PutFile DEF Files
  <2>2. Does(u, s, 1) /\ u.sent = <<>>
    BY <1>6, <2>1, ClientFacts, FilesDoes
  <2>3. s \in Printing => Keeping(u, output, s, 1)
    <3>1. Chunk(State, s, 1) = 1
      BY <1>6 DEF Chunk
    <3>2. s \in Printing => f.kind = "write"
      BY <1>2, <1>10
    <3>3. s \in Printing => output.written[s] + g.left = Reached(State, s) + 1
      BY <1>2, <1>3
    <3> QED
      BY <1>3, <1>10, <2>1, <3>1, <3>2, <3>3 DEF Keeping
  <2>4. Owes(u, s) /\ u.process.file[s].kind = process.file[s].kind
    BY <1>3, <1>5, <2>1 DEF Owes
  <2> QED
    BY <1>5, <1>6, <2>2, <2>3, <2>4, NoNotes, FileFits DEF Opens
<1>11. CASE f.kind # "none" /\ ~f.open
  <2>1. u = Here
    BY <1>1, <1>11
  <2>2. Does(u, s, 1) /\ u.sent = <<>> /\ u.process = process
    BY <1>6, <2>1, ClientFacts, FilesDoes, SameFiles
  <2>3. s \in Printing => Keeping(u, output, s, 1)
    BY <1>2, <1>5, <1>11, <2>2 DEF Keeping
  <2>4. Owes(u, s) /\ u.process.file[s].kind = process.file[s].kind
    BY <1>5, <1>11, <2>2 DEF Owes
  <2> QED
    BY <1>5, <1>6, <2>2, <2>3, <2>4, NoNotes, FileFits DEF Opens
<1> QED
  BY <1>9, <1>10, <1>11

(* file_write_close *)
LEMMA WriteCloseFits ==
    ASSUME Before, process.pc = "wait", toClient # <<>>, NEW s \in Stream, toClient[1].stream = s,
           toClient[1].type = "writeclose", NEW u, u = WriteClose(Here, s)
    PROVE  Fits(Tail(toClient), u, output) /\ u.sent = <<>>
<1> DEFINE f == process.file[s]
           q == Tail(toClient)
<1>1. /\ f.kind = "none" => u = Fatal(Here)
      /\ f.kind # "none" => u = IF f.left = 0 THEN Freed(Here, s) ELSE Here
  BY ClientFacts DEF WriteClose
<1>2. f = process.file[s] /\ q = Tail(toClient) /\ q = Rest(1)
  BY RestOne
<1> HIDE DEF f, q
<1>3. /\ Alive /\ Here.sent = <<>> /\ State.toClient = toClient /\ Core(State)
      /\ toClient[1] = Head(toClient)
  BY ClientFacts, StateFields DEF Alive
<1>4. s \notin Printing /\ (Heard(State) => f.kind = "write")
  BY <1>2, <1>3, FirstMessageFor
<1>5. CASE f.kind = "none"
  <2>1. ~pane /\ u = Fatal(Here)
    BY <1>1, <1>4, <1>5, StateFields, ClientFacts DEF Heard
  <2>2. u.sent = <<>>
    BY <1>3, <2>1 DEF Fatal, Here
  <2> QED
    BY <1>3, <2>1, <2>2, FatalFits
<1>6. CASE f.kind # "none" /\ f.left = 0
  <2>1. u = Freed(Here, s)
    BY <1>1, <1>6
  <2>2. Files(Here, u, s) /\ u.process.file[s] = NoProcessFile
    BY <2>1, ClientFacts, FreedFields
  <2>3. Does(u, s, 1) /\ u.sent = <<>>
    BY <1>3, <2>2, ClientFacts, FilesDoes
  <2>4. u.process.file[s].kind = "none" /\ MayClose(State, s, 1)
    BY <1>3, <2>2 DEF MayClose, NoProcessFile
  <2>5. Heard(State) => Owes(u, s)
    BY <1>2, <1>4 DEF Owes
  <2> QED
    BY <1>2, <1>3, <1>4, <2>3, <2>4, <2>5, NoNotes, FileFits DEF Opens
<1>7. CASE f.kind # "none" /\ f.left # 0
  <2>1. u = Here
    BY <1>1, <1>7
  <2>2. Does(u, s, 1) /\ u.sent = <<>> /\ u.process = process
    BY <1>3, <2>1, ClientFacts, FilesDoes, SameFiles
  <2>3. (Heard(State) => Owes(u, s)) /\ u.process.file[s].kind = process.file[s].kind
    BY <1>2, <1>4, <2>2 DEF Owes
  <2> QED
    BY <1>2, <1>3, <1>4, <2>2, <2>3, NoNotes, FileFits DEF Opens
<1> QED
  BY <1>5, <1>6, <1>7

(* file_read_cancel *)
LEMMA ReadCancelFits ==
    ASSUME Before, process.pc = "wait", toClient # <<>>, NEW s \in Stream, toClient[1].stream = s,
           toClient[1].type = "readcancel", NEW u, u = ReadCancel(Here, s)
    PROVE  Fits(Tail(toClient), u, output) /\ Noted(u) = output
<1> DEFINE f == process.file[s]
           q == Tail(toClient)
           g == Say(Here, Msg("readdone", s, 0))
<1>1. u = IF f.open THEN Freed(g, s) ELSE Fatal(Here)
  BY ClientFacts DEF ReadCancel
<1>2. /\ f = process.file[s] /\ q = Tail(toClient) /\ q = Rest(1)
      /\ g = Say(Here, Msg("readdone", s, 0)) /\ 0 \in 0 .. 1
  BY RestOne
<1> HIDE DEF f, q, g
<1>3. /\ Alive /\ Here.sent = <<>> /\ State.toClient = toClient /\ Core(State)
      /\ toClient[1] = Head(toClient)
  BY ClientFacts, StateFields DEF Alive
<1>4. s \notin Printing /\ ~Heard(State) /\ ~pane /\ Reading(State, s)
  BY <1>3, FirstMessageFor
<1>5. CASE ~f.open
  <2>1. u = Fatal(Here) /\ u.sent = <<>>
    BY <1>1, <1>3, <1>5 DEF Fatal, Here
  <2>2. Noted(u) = output
    BY <2>1, NotedQuiet
  <2> QED
    BY <1>3, <1>4, <2>1, <2>2, FatalFits
<1>6. CASE f.open
  <2>1. /\ g \in Clients /\ g.process = process /\ g.sent = <<Msg("readdone", s, 0)>>
        /\ \E m \in ToServer : m.stream = s /\ m.type \notin {"command", "shell"} /\ g.sent = <<m>>
    BY <1>2, SaysOfFile
  <2>2. u = Freed(g, s)
    BY <1>1, <1>6
  <2>3. Files(g, u, s) /\ u.process.file[s] = NoProcessFile
    BY <2>1, <2>2, FreedFields
  <2>4. Does(u, s, 1) /\ u.sent = g.sent
    BY <1>3, <2>1, <2>3, FilesDoes
  <2>5. u.process.file[s].kind = "none" /\ MayClose(State, s, 1)
    BY <1>4, <2>3 DEF MayClose, NoProcessFile
  <2>6. \E type \in {"read", "readdone"}, y \in 0 .. 1 : u.sent = <<Msg(type, s, y)>>
    BY <2>1, <2>4
  <2>7. \E m : u.sent = <<m>> /\ m.type # "writeready"
    BY <2>1, <2>4 DEF Msg
  <2>8. Noted(u) = output
    BY ONLY Before, <2>7, NotedQuiet
  <2> QED
    BY ZenonT(60), <1>2, <1>3, <1>4, <2>4, <2>5, <2>6, <2>8, NoNotes, FileFits
<1> QED
  BY <1>5, <1>6

(* client_dispatch_wait *)
LEMMA WaitsFits ==
    ASSUME Before, process.pc = "wait", toClient # <<>>, NEW m, m = Head(toClient),
           NEW u \in Waits(Here, m)
    PROVE  Fits(Tail(toClient), u, Noted(u))
<1> DEFINE control == Has("control")
           s == m.stream
           q == Tail(toClient)
<1>1. /\ m = toClient[1] /\ m \in ToClient /\ control \in BOOLEAN
      /\ s = 0 \/ (s \in Stream /\ m.type \in Opens \cup {"write", "writeclose", "readcancel"})
      /\ m.type \in Opens => m.x \in {NoDescriptor} \cup Descriptor
  BY FirstMessageFor DEF Has
<1>2. Alive /\ toClient[1] = m /\ toClient[1].stream = s
  BY <1>1 DEF Alive
<1>3. m.type \in Opens \cup {"write", "writeclose", "readcancel"} => s \in Stream
  BY <1>1 DEF ToClient, Opens
<1>4. ASSUME u.sent = <<>> PROVE Noted(u) = output
  BY <1>4, NotedQuiet
<1>5. Here.sent = <<>> /\ Here \in Clients
  BY ClientFacts
<1> HIDE DEF control, s, q
<1>6. CASE m.type \in {"exit", "shutdown"}
  <2>1. u = Exit([Here EXCEPT !.process.told = TRUE])
    BY <1>6 DEF Waits
  <2>2. s = 0
    BY <1>1, <1>6 DEF Opens
  <2>3. u.sent = <<>>
    BY <1>5, <2>1 DEF Exit, Exits, Clients
  <2> QED
    BY <1>2, <1>4, <1>6, <2>1, <2>2, <2>3, WaitsExit
<1>7. CASE m.type = "ready"
  <2>1. u = [Here EXCEPT !.process.pc = "attached"]
    BY <1>7 DEF Waits
  <2>2. s = 0
    BY <1>1, <1>7 DEF Opens
  <2> QED
    BY <1>2, <1>4, <1>7, <2>1, <2>2, WaitsReady
<1>8. CASE m.type \in {"detach", "detachkill"}
  <2>1. u = Say(Here, Plain("exiting"))
    BY <1>8 DEF Waits
  <2>2. s = 0
    BY <1>1, <1>8 DEF Opens
  <2>3. Does(Here, 0, 1)
    BY <1>2, <2>2, PoppedFits
  <2> QED
    BY <1>2, <1>5, <2>1, <2>3, ExitingFits
<1>9. CASE m.type \in {"exited", "doshell"}
  <2>1. u = Exits(Here, "other")
    BY <1>9 DEF Waits
  <2>2. s = 0
    BY <1>1, <1>9 DEF Opens
  <2>3. Fits(Tail(toClient), Here, output)
    BY <1>2, <2>2, PoppedFits
  <2>4. u.sent = <<>>
    BY <1>5, <2>1 DEF Exits, Clients
  <2> DEFINE r == Tail(toClient)
  <2>5. Fits(r, Here, output)
    BY <2>3
  <2> HIDE DEF r
  <2>6. Fits(r, u, output)
    BY ONLY <2>1, <2>5, ExitsFits
  <2> QED
    BY <1>4, <2>4, <2>6 DEF r
<1>10. CASE m.type \in Opens
  <2> DEFINE kind == IF m.type = "writeopen" THEN "write" ELSE "read"
             d == m.x
  <2>1. u \in Open(Here, s, d, kind, control)
    BY <1>10 DEF Waits, Opens, s, control
  <2>2. s \in Stream /\ d \in {NoDescriptor} \cup Descriptor
    BY <1>1, <1>3, <1>10
  <2>3. kind = IF m.type = "writeopen" THEN "write" ELSE "read"
    OBVIOUS
  <2> HIDE DEF kind, d
  <2>4. toClient[1].type = m.type
    BY <1>2
  <2> QED
    BY ONLY Before, <1>1, <1>2, <1>10, toClient # <<>>, <2>1, <2>2, <2>3, <2>4, OpenFits
<1>11. CASE m.type = "write"
  <2>1. u = WriteData(Here, s) /\ s \in Stream
    BY <1>3, <1>11 DEF Waits, s
  <2>2. Fits(Tail(toClient), u, output) /\ u.sent = <<>>
    BY <1>2, <1>11, <2>1, WriteDataFits
  <2> QED
    BY <1>4, <2>2
<1>12. CASE m.type = "writeclose"
  <2>1. u = WriteClose(Here, s) /\ s \in Stream
    BY <1>3, <1>12 DEF Waits, s
  <2>2. Fits(Tail(toClient), u, output) /\ u.sent = <<>>
    BY <1>2, <1>12, <2>1, WriteCloseFits
  <2> QED
    BY <1>4, <2>2
<1>13. CASE m.type = "readcancel"
  <2>1. u = ReadCancel(Here, s) /\ s \in Stream
    BY <1>3, <1>13 DEF Waits, s
  <2>2. Fits(Tail(toClient), u, output) /\ Noted(u) = output
    BY <1>2, <1>13, <2>1, ReadCancelFits
  <2> QED
    BY <2>2
<1>14. CASE m.type \notin {"exit", "shutdown", "ready", "detach", "detachkill", "exited", "doshell",
                           "writeopen", "readopen", "write", "writeclose", "readcancel"}
  <2>1. u = Here
    BY <1>14 DEF Waits
  <2>2. s = 0
    BY <1>1, <1>14 DEF Opens
  <2>3. Fits(Tail(toClient), Here, output)
    BY <1>2, <2>2, PoppedFits
  <2> QED
    BY <1>4, <1>5, <2>1, <2>3
<1> QED
  BY <1>6, <1>7, <1>8, <1>9, <1>10, <1>11, <1>12, <1>13, <1>14 DEF Opens

(* client_dispatch_attached *)
LEMMA AttendsFits ==
    ASSUME Before, process.pc = "attached", toClient # <<>>, NEW m, m = Head(toClient),
           NEW u \in Attends(Here, m)
    PROVE  Fits(Tail(toClient), u, Noted(u))
<1> DEFINE s == m.stream
           q == Tail(toClient)
<1>1. /\ m = toClient[1] /\ m \in ToClient
      /\ s = 0 \/ (s \in Stream /\ m.type \in Opens \cup {"write", "writeclose", "readcancel"})
  BY FirstMessageFor
<1>2. Alive /\ toClient[1] = m /\ toClient[1].stream = s
  BY <1>1 DEF Alive
<1>3. ASSUME u.sent = <<>> PROVE Noted(u) = output
  BY <1>3, NotedQuiet
<1>4. Here.sent = <<>> /\ Here \in Clients /\ Here.process = process
  BY ClientFacts
<1>5. q = Tail(toClient) /\ q = Rest(1)
  BY RestOne
<1> HIDE DEF s, q
<1>6. "attached" \in server.flags /\ ~Heard(State)
  BY ClientFacts, StateFields DEF Core, Phases, Heard
<1>7. CASE m.type \in {"detach", "detachkill", "exec"}
  <2> DEFINE p == [process EXCEPT !.type = m.type]
             w == [Here EXCEPT !.process.type = m.type]
  <2>1. u = Say(w, Plain("exiting")) /\ w = [Here EXCEPT !.process = p]
    BY <1>7 DEF Attends, Here
  <2>2. /\ p \in ProcessType /\ p.pc = process.pc /\ (p.told <=> process.told)
        /\ p.why = process.why /\ p.file = process.file
    BY <1>7, ClientFacts DEF ProcessType
  <2>3. s = 0
    BY <1>1, <1>7 DEF Opens
  <2> HIDE DEF p, w
  <2>4. Does(w, 0, 1) /\ w.sent = <<>>
    BY <1>2, <2>1, <2>2, <2>3, PlainDoes
  <2> QED
    BY <1>2, <2>1, <2>4, ExitingFits
<1>8. CASE m.type \in {"exit", "shutdown"}
  <2>1. u = Say(Here, Plain("exiting"))
    BY <1>8 DEF Attends
  <2>2. s = 0
    BY <1>1, <1>8 DEF Opens
  <2>3. Does(Here, 0, 1)
    BY <1>2, <2>2, PoppedFits
  <2> QED
    BY <1>2, <1>4, <2>1, <2>3, ExitingFits
<1>9. CASE m.type = "exited"
  <2>1. u = Exits(Here, "told")
    BY <1>9 DEF Attends
  <2>2. s = 0
    BY <1>1, <1>9 DEF Opens
  <2>3. Fits(q, Here, output)
    BY <1>2, <1>5, <2>2, PoppedFits
  <2>4. u.sent = <<>>
    BY <1>4, <2>1 DEF Exits, Clients
  <2> DEFINE why == "told"
  <2>5. why \in {"told", "other"} /\ u = Exits(Here, why)
    BY <2>1
  <2> HIDE DEF why
  <2>6. Fits(q, u, output)
    BY ONLY <1>6, <2>3, <2>5, ExitsFits
  <2> QED
    BY <1>3, <1>5, <2>4, <2>6
<1>10. CASE m.type \in {"suspend", "lock"}
  <2> DEFINE stopped == IF m.type = "suspend" THEN "stopped" ELSE "locked"
             p == [process EXCEPT !.stopped = stopped]
  <2>1. u = [Here EXCEPT !.process = p]
    BY <1>10 DEF Attends, Here
  <2>2. /\ p \in ProcessType /\ p.pc = process.pc /\ (p.told <=> process.told)
        /\ p.why = process.why /\ p.file = process.file
    BY ClientFacts DEF ProcessType
  <2>3. s = 0
    BY <1>1, <1>10 DEF Opens
  <2> HIDE DEF p
  <2>4. Does(u, 0, 1) /\ u.sent = <<>>
    BY <1>2, <2>1, <2>2, <2>3, PlainDoes
  <2> QED
    BY <1>2, <1>3, <1>5, <2>4, PlainFits
<1>11. CASE m.type \notin {"detach", "detachkill", "exec", "exit", "shutdown", "exited", "suspend", "lock"}
  <2>1. u = Here
    BY <1>11 DEF Attends
  <2>2. CASE s = 0
    <3>1. Fits(Tail(toClient), Here, output)
      BY <1>2, <2>2, PoppedFits
    <3> QED
      BY <1>3, <1>4, <2>1, <3>1
  <2>3. CASE s \in Stream
    <3>1. Does(u, s, 1) /\ u.sent = <<>> /\ u.process = process
      BY <1>2, <1>4, <2>1, <2>3, FilesDoes, SameFiles
    <3>2. s \in Printing => Keeping(u, output, s, 1)
      BY <1>6, <2>3, <3>1, ClientFile DEF Keeping
    <3>3. Fits(q, u, output)
      BY <1>2, <1>5, <1>6, <2>3, <3>1, <3>2, NoNotes, FileFits
    <3> QED
      BY <1>3, <1>5, <3>1, <3>3
  <2> QED
    BY <1>1, <2>2, <2>3 DEF s
<1> QED
  BY <1>7, <1>8, <1>9, <1>10, <1>11

(* client_dispatch *)
LEMMA ClientReceiveKept ==
    ASSUME Before, ClientReceive
    PROVE  Kept'
<1>1. fault = "none" /\ Alive /\ toClient # <<>> /\ toClient' = Tail(toClient) /\ Elsewhere
  BY DEF ClientReceive, Free, Works
<1>2. PICK u \in IF process.pc = "wait" THEN Waits(Here, Head(toClient))
                                         ELSE Attends(Here, Head(toClient)) :
         Comes(u) /\ output' = Noted(u)
  BY DEF ClientReceive, Noted
<1>3. Fits(Tail(toClient), u, Noted(u))
  <2>1. CASE process.pc = "wait"
    BY <1>1, <1>2, <2>1, WaitsFits
  <2>2. CASE process.pc = "attached"
    BY <1>1, <1>2, <2>2, AttendsFits
  <2> QED
    BY <1>1, <2>1, <2>2 DEF Alive
<1>4. Fits(toClient', u, output')
  BY <1>1, <1>2, <1>3
<1> QED
  BY <1>1, <1>2, <1>4, ComesKept

----------------------------------------------------------------------------
(* The invariant of a connection. *)

LEMMA ConnectionBegins ==
    ASSUME ClientServerInit
    PROVE  ConnectionInv
<1> DEFINE x == State
<1>1. PICK control \in Controls :
         server = [flags |-> IF control THEN {"control"} ELSE {}, session |-> FALSE,
                   exit |-> "exit", work |-> "idle", next |-> 3, batch |-> 0, writing |-> FALSE,
                   file |-> [s \in Stream |-> NoServerFile]]
  BY DEF ClientServerInit
<1>2. PICK first \in {"command", "shell"} : toServer = <<Plain(first)>>
  BY DEF ClientServerInit
<1>3. /\ server \in ServerType /\ server.flags \subseteq {"control"} /\ ~server.session
      /\ server.work = "idle" /\ server.next = 3 /\ server.batch = 0
      /\ \A s \in Stream : server.file[s] = NoServerFile
  <2>1. NoServerFile \in ServerFile
    BY DEF NoServerFile, ServerFile, Kind
  <2> QED
    BY <1>1, <2>1 DEF ServerType, Flag
<1>4. /\ process \in ProcessType /\ process.pc = "wait" /\ ~process.told /\ process.why = "none"
      /\ \A s \in Stream : process.file[s] = NoProcessFile
  <2>1. [d \in Descriptor |-> d] \in [Descriptor -> Object \cup {Closed}]
    BY DEF Object
  <2>2. [s \in Stream |-> NoProcessFile] \in [Stream -> ProcessFile]
    BY NoFile
  <2> QED
    BY <2>1, <2>2 DEF ClientServerInit, ProcessType
<1>5. /\ toServer \in Seq(ToServer) /\ DOMAIN toServer = {1} /\ toServer[1].type \in {"command", "shell"}
      /\ toServer[1].stream = 0 /\ Len(toServer) = 1
  <2>1. Plain(first) \in ToServer /\ Plain(first).type = first /\ Plain(first).stream = 0
    BY DEF Plain, Msg, ToServer
  <2> QED
    BY <1>2, <2>1
<1>6. /\ toClient = <<>> /\ toClient \in Seq(ToClient) /\ DOMAIN toClient = {} /\ Len(toClient) = 0
      /\ pane = TRUE /\ fault = "none" /\ moves = MaxMoves
  BY DEF ClientServerInit
<1>7. /\ output \in OutputType /\ output.refused = {}
      /\ \A s \in Printing : output.printed[s] = 0 /\ output.promised[s] = 0 /\ output.written[s] = 0
  BY DEF ClientServerInit, OutputType
<1>8. /\ x.server = server /\ x.process = process /\ x.toServer = toServer
      /\ x.toClient = toClient /\ x.pane = pane /\ x.output = output
  BY StateFields
<1> HIDE DEF x
<1>9. Typed(x)
  BY <1>3, <1>4, <1>5, <1>6, <1>7, <1>8 DEF Typed
<1>10. ASSUME NEW type, NEW s PROVE ~Holds(x.toClient, type, s)
  BY <1>6, <1>8 DEF Holds
<1>11. ASSUME NEW type, type \notin {"command", "shell"}, NEW s PROVE ~Holds(x.toServer, type, s)
  BY <1>5, <1>8, <1>11 DEF Holds
<1>12. Phases(x)
  BY <1>3, <1>4, <1>5, <1>6, <1>8, <1>10 DEF Phases, NoServerFile
<1>13. Leaving(x)
  BY <1>4, <1>8, <1>10 DEF Leaving
<1>14. ASSUME NEW s \in Stream
       PROVE  FileKept(x, s) /\ StreamKept(x, s) /\ Matched(x, s) /\ Known(x, s)
  <2>1. x.server.file[s] = NoServerFile /\ x.process.file[s] = NoProcessFile
    BY <1>3, <1>4, <1>8
  <2>2. FileKept(x, s)
    BY <2>1 DEF FileKept, NoServerFile
  <2>3. StreamKept(x, s)
    <3>1. ~\E k \in DOMAIN x.toServer : x.toServer[k] = Msg("writeready", s, 1)
      BY <1>5, <1>8 DEF Msg
    <3> QED
      BY <1>6, <1>8, <2>1, <3>1 DEF StreamKept, NoProcessFile
  <2>4. Matched(x, s)
    BY <1>10, <1>11, <2>1 DEF Matched, Reading, NoProcessFile
  <2>5. Silent(x.toClient, s)
    BY <1>6, <1>8 DEF Silent
  <2>6. InTurn(x, s)
    <3>1. \A i \in DOMAIN x.toServer : x.toServer[i].type # "writeready"
      BY <1>5, <1>8
    <3> QED
      BY <1>6, <1>8, <1>11, <3>1 DEF InTurn
  <2>7. Ordered(x, s)
    BY <1>6, <1>8, <1>11, <2>1, <2>5, <2>6 DEF Ordered, NoProcessFile, NoServerFile
  <2> QED
    BY <2>2, <2>3, <2>4, <2>7 DEF Known
<1>15. ASSUME NEW s \in Printing PROVE Sums(x, s)
  <2>1. s \in Stream
    BY DEF Stream
  <2>2. x.server.file[s].left = 0 /\ x.process.file[s].left = 0
    BY <1>3, <1>4, <1>8, <2>1 DEF NoServerFile, NoProcessFile
  <2>3. Chunks(x.toClient, 0, s) = 0
    <3>1. Carrying(x.toClient, 0, s) = {}
      BY DEF Carrying
    <3> QED
      BY <3>1, FS_EmptySet DEF Chunks
  <2>4. Reached(x, s) = 0 /\ Total(x, s) = 0
    BY <1>6, <1>7, <1>8, <2>2, <2>3 DEF Reached, Total
  <2>5. Arriving(x, s) /\ Arrived(x, s)
    BY <1>4, <1>6, <1>7, <1>8, <2>4 DEF Arriving, Arrived
  <2> QED
    BY <1>7, <1>8, <2>4, <2>5 DEF Sums
<1>16. Core(x)
  BY <1>9, <1>12, <1>13, <1>14, <1>15 DEF Core
<1>17. Awaited(x)
  BY <1>3, <1>8 DEF Awaited
<1>18. moves \in 0 .. MaxMoves
  BY <1>6, ClientServerAssumption
<1> QED
  BY <1>6, <1>16, <1>17, <1>18 DEF ConnectionInv, x

(* A step is one of these, and takes at most one of the moves. *)
LEMMA Moved ==
    ASSUME ClientServerNext, moves \in 0 .. MaxMoves
    PROVE  fault = "none" /\ moves' \in 0 .. MaxMoves
<1>1. \E move \in {0, 1} : Free(move)
  <2>1. CASE ServerStep
    BY <2>1 DEF ServerStep, ServerRead, ServerReceive, ServerLoses, FileDone, Report, CheckExit,
                CheckExitAtOnce
  <2>2. CASE CommandStep
    BY <2>2 DEF CommandStep, PrintOn, Attach, StartInput, CommandDone, NewCommand, BufferFile, Command
  <2>3. CASE OtherStep
    BY <2>3 DEF OtherStep, DetachClient, ExecClient, SuspendClient, LockClient, KillServer, KillPane, Other
  <2>4. CASE ClientStep
    <3>1. CASE ClientReceive \/ ClientLosesServer \/ Signal \/ Killed \/ GoesOn
      BY <3>1 DEF ClientReceive, ClientLosesServer, Signal, Killed, GoesOn
    <3>2. ASSUME NEW s \in Stream, WriteOut(s) \/ WriteFails(s) \/ ReadSome(s) \/ ReadEnds(s)
          PROVE  \E move \in {0, 1} : Free(move)
      BY <3>2 DEF WriteOut, WriteFails, ReadSome, ReadEnds
    <3> QED
      BY ONLY <2>4, <3>1, <3>2 DEF ClientStep
  <2> QED
    BY <2>1, <2>2, <2>3, <2>4 DEF ClientServerNext
<1> QED
  BY <1>1, ClientServerAssumption DEF Free

(* Every step keeps the invariant of the connection.                        *)
LEMMA ConnectionKept ==
    ASSUME ConnectionInv, [ClientServerNext]_vars
    PROVE  ConnectionInv'
<1>1. CASE UNCHANGED vars
  <2>1. State' = State /\ moves' = moves /\ fault' = fault
    BY <1>1 DEF vars, State
  <2> QED
    BY <2>1 DEF ConnectionInv
<1>2. CASE ClientServerNext
  <2>1. fault = "none" /\ moves' \in 0 .. MaxMoves
    BY <1>2, Moved DEF ConnectionInv
  <2>2. Before
    BY <2>1 DEF Before, ConnectionInv
  <2>3. Kept'
    <3>1. CASE ServerStep
      BY <2>2, <3>1, ServerReadKept, ServerReceiveKept, ServerLosesKept, FileDoneKept,
         ReportKept, CheckExitKept DEF ServerStep
    <3>2. CASE CommandStep
      BY <2>2, <3>2, PrintOnKept, AttachKept, StartInputKept, CommandDoneKept, NewCommandKept,
         BufferFileKept DEF CommandStep
    <3>3. CASE OtherStep
      BY <2>2, <3>3, DetachClientKept, ExecClientKept, SuspendClientKept, KillServerKept,
         KillPaneKept DEF OtherStep
    <3>4. CASE ClientStep
      BY <2>2, <3>4, ClientReceiveKept, ClientLosesServerKept, SignalKept, KilledKept, GoesOnKept,
         WriteOutKept, WriteFailsKept, ReadSomeKept, ReadEndsKept DEF ClientStep
    <3> QED
      BY <1>2, <3>1, <3>2, <3>3, <3>4 DEF ClientServerNext
  <2> QED
    BY <2>1, <2>3 DEF Kept, ConnectionInv, Fault
<1> QED
  BY <1>1, <1>2

(* The invariant holds of every connection, whatever the two processes do.  *)
THEOREM Connection == ClientServerSpec => []ConnectionInv
<1>1. ClientServerInit => ConnectionInv
  BY ConnectionBegins
<1>2. ConnectionInv /\ [ClientServerNext]_vars => ConnectionInv'
  BY ConnectionKept
<1> QED
  BY <1>1, <1>2, PTL DEF ClientServerSpec

(* What it says of types, of the streams the client knows and of the files  *)
(* a lost client leaves.                                                    *)
LEMMA ConnectionServes == ConnectionInv => ClientServerInv
<1> SUFFICES ASSUME ConnectionInv PROVE ClientServerInv
  OBVIOUS
<1>1. Core(State) /\ Typed(State)
  BY DEF ConnectionInv, Core
<1>2. ClientServerTypeOK
  <2>1. /\ server \in ServerType /\ process \in ProcessType /\ pane \in BOOLEAN
        /\ toServer \in Seq(ToServer) /\ toClient \in Seq(ToClient)
    BY <1>1, StateFields DEF Typed
  <2>2. \A m \in ToServer \cup ToClient : m.type \in Message
    BY DEF ToServer, ToClient, Message
  <2>3. \A q \in {toServer, toClient} : \A i \in DOMAIN q : q[i].type \in Message
    BY <2>1, <2>2
  <2> QED
    BY <2>1, <2>3 DEF ClientServerTypeOK, ConnectionInv
<1>3. StreamsKnown
  <2>1. process.pc = "fatal" => ~pane
    BY <1>1, StateFields DEF Core, Phases
  <2>2. ASSUME NEW s \in Printing PROVE output.written[s] <= output.printed[s]
    <3>1. Total(State, s) <= output.printed[s]
      BY <1>1, StateFields DEF Core, Sums
    <3>2. /\ output.written[s] \in Nat /\ output.printed[s] \in Nat
          /\ process.file[s].left \in Nat /\ server.file[s].left \in Nat
          /\ Chunks(toClient, Len(toClient), s) \in Nat
      BY <1>1, SumTypes, StateFields
    <3>3. Total(State, s) = output.written[s] + process.file[s].left
                              + Chunks(toClient, Len(toClient), s) + server.file[s].left
      BY StateFields DEF Total, Reached
    <3> QED
      BY <3>1, <3>2, <3>3
  <2> QED
    BY <2>1, <2>2 DEF StreamsKnown
<1>4. FilesFreed
  <2> SUFFICES ASSUME Has("dead"), Pending(server) = {}, NEW s \in Stream
               PROVE  server.file[s].kind = "none"
    BY DEF FilesFreed
  <2>1. ~server.file[s].done
    BY DEF Pending
  <2>2. server.file[s].kind # "none" => server.file[s].done
    BY <1>1, StateFields DEF Core, FileKept, Has
  <2> QED
    BY <2>1, <2>2
<1> QED
  BY <1>2, <1>3, <1>4 DEF ClientServerInv

(* The client never dies over a stream it does not know as long as the pane *)
(* is there, nothing is written that was not printed, and a lost client's   *)
(* files are all given back.                                                *)
THEOREM ClientServerSafe == ClientServerSpec => []ClientServerInv
  BY Connection, ConnectionServes, PTL

(* What a command waits for is on its way.                                  *)
LEMMA ConnectionOwes == ConnectionInv => AnswersOwed
<1> SUFFICES ASSUME ConnectionInv, fault = "none", server.work = "waiting", Alive, ~Has("dead"),
                    ~(~pane /\ Has("exit"))
             PROVE  \E s \in Stream : server.file[s].kind \in {"save", "load", "input"} /\ OnItsWay(s)
  BY DEF AnswersOwed
<1>1. Core(State) /\ Awaited(State) /\ Typed(State)
  BY DEF ConnectionInv, Core
<1>2. PICK s \in Stream : server.file[s].kind \in {"save", "load", "input"} /\ Coming(State, s)
  BY <1>1, StateFields DEF Awaited, Has, Alive
<1>3. ASSUME NEW type, Holds(toServer, type, s)
      PROVE  \E m \in Range(toServer) : m.stream = s /\ m.type = type
  BY <1>3 DEF Holds, Range
<1>4. ASSUME NEW type, Holds(toClient, type, s)
      PROVE  \E m \in Range(toClient) : m.stream = s /\ m.type = type
  BY <1>4 DEF Holds, Range
<1>5. \/ server.file[s].done
      \/ Holds(toServer, "writeready", s) \/ Holds(toServer, "readdone", s)
      \/ Holds(toClient, "writeopen", s) \/ Holds(toClient, "readopen", s)
      \/ process.file[s].kind = "read" /\ process.file[s].open
  BY <1>2, StateFields DEF Coming
<1>6. OnItsWay(s)
  BY <1>3, <1>4, <1>5 DEF OnItsWay
<1> QED
  BY <1>2, <1>6

(* A command that waits for a file is never forgotten: its answer is on its *)
(* way as long as the client is there.                                      *)
THEOREM AnswersAreOwed == ClientServerSpec => []AnswersOwed
  BY Connection, ConnectionOwes, PTL

(* What was promised has arrived when the client goes.                      *)
LEMMA ConnectionArrives == ConnectionInv => OutputArrives
<1> SUFFICES ASSUME ConnectionInv, process.pc = "gone", process.why = "told", ~Has("attached"),
                    NEW s \in Printing \ output.refused
             PROVE  output.written[s] >= output.promised[s]
  BY DEF OutputArrives
<1>1. Core(State) /\ Typed(State)
  BY DEF ConnectionInv, Core
<1>2. Sums(State, s)
  BY <1>1 DEF Core
<1>3. output.promised[s] <= output.written[s]
  BY <1>2, StateFields DEF Sums, Arrived, Has
<1>4. output.promised[s] \in Nat /\ output.written[s] \in Nat
  BY <1>1, SumTypes, StateFields
<1> QED
  BY <1>3, <1>4

(* What was printed before a client is told to exit has been written when   *)
(* it goes.                                                                 *)
THEOREM OutputDoesArrive == ClientServerSpec => []OutputArrives
  BY Connection, ConnectionArrives, PTL
=============================================================================
