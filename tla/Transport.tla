----------------------------- MODULE Transport -----------------------------
(***************************************************************************)
(* What the host relies on from its WebSocket server, with no bytes and no *)
(* sockets: a connection opens once and closes once, and between the two   *)
(* the host hears what the peer said, whole, in order, with no gap.        *)
(***************************************************************************)
EXTENDS Naturals, Sequences

CONSTANTS Conns, Said   \* connection ids, and what a peer may say

VARIABLES life,    \* life[c]: "new", "open" or "gone"
          said,    \* said[c]: the messages of the peer
          heard    \* heard[c]: those the host was handed

vars == <<life, said, heard>>

Init == /\ life = [c \in Conns |-> "new"]
        /\ said = [c \in Conns |-> <<>>]
        /\ heard = [c \in Conns |-> <<>>]

Say(c) == /\ UNCHANGED <<life, heard>> /\ said' # said
          /\ \E m \in Said : said' = [said EXCEPT ![c] = Append(@, m)]

Open(c) == /\ life[c] = "new"
           /\ life' = [life EXCEPT ![c] = "open"]
           /\ UNCHANGED <<said, heard>>

Hear(c) == /\ life[c] = "open"
           /\ Len(heard[c]) < Len(said[c])
           /\ heard' = [heard EXCEPT ![c] = Append(@, said[c][Len(@) + 1])]
           /\ UNCHANGED <<life, said>>

\* Several connections may close in one step of the server.
Close(cs) == /\ \A c \in cs : life[c] = "open"
             /\ life' = [c \in Conns |-> IF c \in cs THEN "gone" ELSE life[c]]
             /\ UNCHANGED <<said, heard>>

Next == \/ \E c \in Conns : Open(c) \/ Hear(c) \/ Say(c)
        \/ \E cs \in SUBSET Conns : Close(cs)

Spec == Init /\ [][Next]_vars

=============================================================================
