----------------------------- MODULE MCDiscovery -----------------------------
(* A small instance of Discovery; the functions asked for take every way.  *)
EXTENDS Discovery
CONSTANTS k1, k2, k3, n1, n2
MCAsked == {<<"getServices", "upnp">>, <<"isPresent", "camera">>, <<"isPresent", "audio">>,
            <<"getExtra", "geolocation">>, <<"getExtra", "deviceproximity">>, <<"getExtra", "agent">>}
MCServices == {<<"getServices", "upnp">>}

\* Calls and connections share no variable: each half is explored with the other at rest.
OneHalf == \/ \A c \in Calls : call[c].pc = "idle"
           \/ \A n \in Connects : conn[n].ws = "none"
=============================================================================
