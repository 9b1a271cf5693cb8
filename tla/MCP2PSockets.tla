---------------------------- MODULE MCP2PSockets ----------------------------
(* A small instance of P2PSockets: a peer that is announced, withdrawn and announced again *)
(* (twice in a row too) and speaks.                                                         *)
EXTENDS P2PSockets
CONSTANT i1

Connects == [i \in Ids |-> 3]
Speaks   == [i \in Ids |-> 2]
=============================================================================
