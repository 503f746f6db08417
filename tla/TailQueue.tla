------------------------------ MODULE TailQueue -----------------------------
(***************************************************************************)
(* Tail queues (compat/queue.h) as sequences: what inserting an element    *)
(* behind another and removing elements wherever they are do to them.      *)
(***************************************************************************)
EXTENDS Naturals, Sequences

(* TAILQ_INSERT_AFTER: x behind the first n elements; none is the head. *)
InsertBehind(s, n, x) == SubSeq(s, 1, n) \o <<x>> \o SubSeq(s, n + 1, Len(s))

(* TAILQ_REMOVE of every element of D; the others keep their order. *)
Without(s, D) ==
    LET kept[n \in 0 .. Len(s)] ==
          IF n = 0 THEN <<>>
          ELSE IF s[n] \in D THEN kept[n - 1]
          ELSE Append(kept[n - 1], s[n])
    IN  kept[Len(s)]
=============================================================================
