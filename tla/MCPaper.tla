------------------------------ MODULE MCPaper ------------------------------
(***************************************************************************)
(* A small instance of Paper: a market that ends with the second second,   *)
(* one bid at a time before the order for Up, and taker trades that meet   *)
(* that bid by either way or pass it by.                                   *)
(***************************************************************************)
EXTENDS Paper

CONSTANT a

ThreeKinds ==
    {[asset |-> "up", side |-> "SELL", price |-> BuyPrice],
     [asset |-> "down", side |-> "BUY", price |-> Unit - BuyPrice],
     [asset |-> "up", side |-> "SELL", price |-> BuyPrice - 1]}

OneForUp == [up |-> 1, down |-> 0]
EndsAtTwo == [m \in Markets |-> 2]
=============================================================================
