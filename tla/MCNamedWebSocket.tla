-------------------------- MODULE MCNamedWebSocket --------------------------
(* Small instances of NamedWebSocket.  Client n has peer pn and control cn *)
(* with id n; x1 is a proxy another host dialled, y1 one this host dialled.*)
EXTENDS NamedWebSocketInv, NamedWebSocketGroup, TLC

CONSTANTS p1, p2, p3, c1, c2, x1, y1

ClientId == p1 :> 1 @@ p2 :> 2 @@ p3 :> 3 @@ c1 :> 1 @@ c2 :> 2 @@ x1 :> 8 @@ y1 :> 9
MCId == [c \in Conn |-> ClientId[c]]

\* race never shrinks, so a property that asks for race = {} loses nothing
\* when states behind a race are not explored.
RaceFree == race = {}

\* Bounds of run relay: all talkers together send two frames, and the second
\* control comes to no more than two others, after the first control; then the
\* sum of frames and of members that leave is two as well.
Frames == { f \in Talkers \X (1..MaxInput) : inputs[f[1]] >= f[2] }
Came == { c \in Conn : pc[<<c, "serve">>] # "new" }
Left == { c \in Conn : pc[Pump(c)] \in {"scan", "cut", "cutw", "close", "done"} }

TwoFrames == Cardinality(Frames) <= 2
SecondControl ==
  c2 \in Came => /\ c1 \in Came
                 /\ Cardinality(Came) <= 3
                 /\ Cardinality(Frames) + Cardinality(Left) <= 2

=============================================================================
