----------------------------- MODULE MCFileTools -----------------------------
(* FileTools on small instances: one file closely, and two files together *)
EXTENDS FileTools, TLC

(* One byte each, but two for "b" *)
MCSizeOf == [c \in Contents |-> IF c = "b" THEN 2 ELSE 1]

(* The files are interchangeable *)
MCSymmetry == Permutations(Paths)
=============================================================================
