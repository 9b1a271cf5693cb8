-------------------------------- MODULE MCMdns --------------------------------
(* A small instance of Mdns: two services of one host. *)
EXTENDS Mdns
CONSTANTS s1, s2, h1
MCHostOf == (s1 :> h1) @@ (s2 :> h1)

\* Only the first service may have both sockets, one server is shut down, and the client binds
\* the sockets that servers have.
Few == /\ Cardinality(server[s2].loops) <= 1
       /\ Cardinality({s \in Services : server[s].down}) <= 1
       /\ phase # "idle" => UNION {server[s].loops : s \in Services} \subseteq Listening
=============================================================================
