------------------------------ MODULE MCLayout ------------------------------
(* Small instances of Layout: each has a line for the pane status or none,   *)
(* and a few of the commands.                                                *)
EXTENDS Layout

MCScreen == {[lr |-> 7, tb |-> 6], [lr |-> 4, tb |-> 8]}
MCHint == {-1, 2}
MCAdjustment == {-2, 3}

Statuses == {"off", "top", "bottom"}
With(status, commands) == [status |-> status, commands |-> commands]

MCOptions ==
    {With("top", {"-b", "-f", "fail", "kill"}), With("bottom", {"-b", "join"}),
     With("off", {"-d", "zoom", "kill"}), With("off", {"-d", "swap"})}
    \cup {With(status, {"resize", "-b"}) : status \in Statuses}
    \cup {With(status, {"arrange", "kill"}) : status \in Statuses}
    \cup {With(status, {"arrange", "window"}) : status \in {"off", "top"}}

MCSpreadOptions == {With("top", {"arrange", "resize"})}
=============================================================================
