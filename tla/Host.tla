-------------------------------- MODULE Host --------------------------------
(***************************************************************************)
(* host/src/host.cpp: one engine at a time, or none (the launcher).  The    *)
(* sockets outlive both: an engine is started with a fresh room over those   *)
(* that are open, and stopped with no onLeave for anybody.                  *)
(*                                                                         *)
(* The announce that goes out with each change is left out: the chess and    *)
(* filter pages ignore it, and the chat page words its status line by it.    *)
(***************************************************************************)
EXTENDS Room

VARIABLE running   \* active_ is set

hostVars == <<vars, running>>

HostInit == Init /\ running \in BOOLEAN

\* stopEngine: the room goes, and the engine with all it knew; what clients
\* were told and shown stands.  (Faulty variant: the room is kept for the next engine.)
StopKeepingRoom == /\ running /\ running' = FALSE
                   /\ engine' = NewLedger
                   /\ UNCHANGED <<open, gone, seats, members, told, board>>
StopEngine == /\ running /\ running' = FALSE
              /\ seats' = [s \in Seats |-> Vacant]
              /\ members' = {}
              /\ engine' = NewLedger
              /\ UNCHANGED <<open, gone, told, board>>

\* startEngine, from the launcher: the new room is empty, as the old one's
\* destruction left the state here.
StartEngine == /\ ~running /\ running' = TRUE
               /\ UNCHANGED vars

\* The callbacks of the launcher ignore joins and messages.  A socket still
\* comes and goes, and with no member OnClose has nobody to tell.
Routed(A) == running /\ A /\ UNCHANGED running

HostNext ==
  \/ \E c \in Conns : (Connect(c) \/ OnClose(c)) /\ UNCHANGED running
  \/ \E c \in Conns : Routed(Relay(c))
  \/ \E c \in Conns, requested \in Requests : Routed(HandleJoin(c, requested))
  \/ \E s \in Seats : Routed(FreeSeat(s))
  \/ StopEngine \/ StartEngine

HostSpec == HostInit /\ [][HostNext]_hostVars

=============================================================================
