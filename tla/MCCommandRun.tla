---------------------------- MODULE MCCommandRun ----------------------------
(* CommandRun on small instances *)
EXTENDS CommandRun
=============================================================================
