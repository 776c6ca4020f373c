----------------------------- MODULE MCFileStore -----------------------------
(***************************************************************************)
(* Instances of FileStore for TLC: files of equal size that all go with    *)
(* one message, and a quota in units of that size.                         *)
(***************************************************************************)
EXTENDS FileStore, TLC

OneMessage == [f \in Files |-> CHOOSE m \in Messages : TRUE]
UnitSize == [f \in Files |-> 1]

FileSymmetry == Permutations(Files)
=============================================================================
