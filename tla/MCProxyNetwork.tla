--------------------------- MODULE MCProxyNetwork ---------------------------
(* Small instances of ProxyNetwork: hosts ha and hb, clients of ha.        *)
EXTENDS ProxyNetwork, TLC

CONSTANTS ha, hb, d1, d2, r1, r2

\* causes never shrinks, so a property that asks for causes = {} loses nothing
\* when the states behind a cause are not explored.
NoCause == causes = {}

\* hb browses, with one goroutine at a time or with two that overlap; or nobody.
OnceB == [h \in Hosts |-> IF h = hb THEN {r1} ELSE {}]
TwiceB == [h \in Hosts |-> IF h = hb THEN {r1, r2} ELSE {}]
NoRounds == [h \in Hosts |-> {}]

Stable == [h \in Hosts |-> 0]
RestartA == [h \in Hosts |-> IF h = ha THEN 1 ELSE 0]

\* Bound of run network: the second client comes or the second browse goroutine
\* does, not both.
OneMore == \/ \E c \in Clients : At(<<Host[c], c>>, "new")
           \/ \E b \in Browsers : At(b, "idle")

\* Clients are alike, and so are the browse goroutines of a host: nothing but
\* equality of their names is used.
Alike == Permutations({d1, d2}) \cup Permutations({r1, r2})

MCHost == [c \in Clients |-> ha]

=============================================================================
