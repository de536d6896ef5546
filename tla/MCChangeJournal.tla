--------------------------- MODULE MCChangeJournal ---------------------------
(* ChangeJournal on a small instance *)
EXTENDS ChangeJournal

(* A created file snapshots nothing; the two contents one and two bytes, *)
(* against a limit of three                                              *)
MCSizeOf == [c \in Contents |-> IF c = "short" THEN 1 ELSE 2]
=============================================================================
