----------------------------- MODULE MCSession -----------------------------
(* Two households, listed in a fixed order.                                 *)
EXTENDS Session, TLC

CONSTANTS h1, h2
MCRank == (h1 :> 1) @@ (h2 :> 2)
=============================================================================
