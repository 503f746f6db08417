----------------------------- MODULE MCCmdQueue ----------------------------
(* Small instances of CmdQueue. *)
EXTENDS CmdQueue

MCItem == 1 .. MaxItems
=============================================================================
