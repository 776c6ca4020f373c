--------------------------- MODULE MCRegistration ---------------------------
(* Instances of Registration for TLC.                                      *)
EXTENDS Registration, TLC

(* The bytes on both sides of the mask of difficulty 14, and a first byte  *)
(* that is not zero.                                                       *)
Samples == {<<0, 3>>, <<0, 4>>, <<0, 128>>, <<1, 0>>}

RegistrationSymmetry ==
    Permutations(Requests) \cup Permutations(Challenges)
        \cup Permutations(Names) \cup Permutations(Keys \ {Founder})
=============================================================================
