---------------------------- MODULE MCAnimation ----------------------------
(* Small instances of Animation. *)
EXTENDS Animation

(* Two sessions that share a window, or have a window each and share none. *)
MCPlacement == {[s \in Session |-> IF s = 1 THEN {1, 2} ELSE {2, 3}],
                [s \in Session |-> IF s = 1 THEN {1, 2, 3} ELSE {1}]}

=============================================================================
