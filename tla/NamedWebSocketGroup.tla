------------------------- MODULE NamedWebSocketGroup -------------------------
(* A named websocket is a broadcast group of its peers and writeable proxies,*)
(* until an update of one of their lists overlaps another use of it.         *)
EXTENDS NamedWebSocket

Receivers == Peers \cup Writeable

Group == INSTANCE BroadcastGroup WITH
  Messages <- Message,
  Wanted   <- [r \in Receivers |-> For(r)],  \* what the loops leave out: socket.go:178, 191, 196
  members  <- joined \cap Receivers,
  queue    <- buffer,
  start    <- [r \in Receivers |-> since[r]],
  got      <- inbox,
  sound    <- DistinctIds /\ race \cap {"peers", "proxies"} = {}

\* socket.go:149-204: lists, copied headers, channel and goroutines together
\* implement the abstract group: one order for all, nothing skipped, doubled or
\* handed out before everybody has what came earlier.
ImplementsGroup == Group!Spec

=============================================================================
