--------------------------- MODULE MCCallSignaling ---------------------------
(***************************************************************************)
(* Instances of CallSignaling: alice calls bob, once or twice, or they     *)
(* call each other.                                                        *)
(***************************************************************************)
EXTENDS CallSignaling, TLC

CONSTANTS alice, bob, aliceApp, aliceTablet, bobApp, bobService, c1, c2

BothUsers == {alice, bob}
OwnerOf == [s \in Sockets |-> IF s \in {bobApp, bobService} THEN bob
                              ELSE alice]

(* Every call is made from alice's phone to bob.                           *)
FromPhone == [c \in Calls |-> aliceApp]
ToBob == [c \in Calls |-> bob]

(* The second call goes the other way.                                     *)
Glare == [c \in Calls |-> IF c = c2 THEN bobService ELSE aliceApp]
GlareTo == [c \in Calls |-> IF c = c2 THEN alice ELSE bob]
=============================================================================
