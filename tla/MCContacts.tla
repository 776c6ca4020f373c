----------------------------- MODULE MCContacts -----------------------------
(***************************************************************************)
(* Instances of Contacts for TLC.                                          *)
(***************************************************************************)
EXTENDS Contacts, TLC

ContactSymmetry == Permutations(Users) \cup Permutations(Codes)
                   \cup Permutations(Requests)
=============================================================================
