--------------------------- MODULE MCHousehold ---------------------------
(* Small instances of Household for TLC: ann founds the household; bob is   *)
(* invited, perhaps first by an address that only later proves to be his.   *)
EXTENDS Household

CONSTANTS ann, bob

MCClaims == [s \in Stub |-> bob]
==========================================================================
