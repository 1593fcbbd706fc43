----------------------------- MODULE MCWsServer -----------------------------
EXTENDS WsServer, TLC

CONSTANTS c1, c2

\* One peer that talks, and one that connects, listens and breaks off.
Frames == c1 :> 4 @@ c2 :> 1

\* One peer that talks.
Alone == c1 :> 3

=============================================================================
