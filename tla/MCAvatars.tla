----------------------------- MODULE MCAvatars ------------------------------
(***************************************************************************)
(* Instances of Avatars for TLC: all uploads are of one kind, because no   *)
(* query mixes the two.                                                    *)
(***************************************************************************)
EXTENDS Avatars, TLC

AllCustom == [a \in AvatarIds |-> "custom"]
AllDefault == [a \in AvatarIds |-> "default"]

AvatarSymmetry == Permutations(AvatarIds) \cup Permutations(Commits)
=============================================================================
