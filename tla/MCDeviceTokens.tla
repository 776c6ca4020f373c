--------------------------- MODULE MCDeviceTokens ---------------------------
(* Instances of DeviceTokens for TLC.                                      *)
EXTENDS DeviceTokens, TLC

TokenSymmetry ==
    Permutations(Users) \cup Permutations(Tokens) \cup Permutations(Wakes)
=============================================================================
