------------------------------- MODULE Table -------------------------------
(***************************************************************************)
(* What a room promises the engine it serves, with no sockets and no       *)
(* envelopes: every connection is away, watching, or in exactly one seat,  *)
(* and a seat whose player departs stays reserved until somebody takes it,  *)
(* the admin frees it or the engine is stopped.  Room, and Host over it, are *)
(* shown to implement this module.                                         *)
(***************************************************************************)
EXTENDS Integers

CONSTANTS Conns,      \* connection ids
          NumSeats    \* seats in the engine's roster

Seats  == 0 .. NumSeats - 1
NoSeat == -1          \* watching: a member with no seat
Absent == -2          \* not a member

VARIABLES role,       \* role[c]: the seat of c, NoSeat or Absent
          reserved    \* seats kept for a player that dropped

vars == <<role, reserved>>

Vacant(s) == \A c \in Conns : role[c] # s

Init == /\ role = [c \in Conns |-> Absent]
        /\ reserved = {}

\* A connection without a seat sits down.
Sit(c, s) == /\ role[c] \in {NoSeat, Absent}
             /\ Vacant(s)
             /\ role' = [role EXCEPT ![c] = s]
             /\ reserved' = reserved \ {s}

\* A newcomer watches.
Watch(c) == /\ role[c] = Absent
            /\ role' = [role EXCEPT ![c] = NoSeat]
            /\ UNCHANGED reserved

\* A member's connection ends; its seat, if it has one, is reserved.
Depart(c) == /\ role[c] # Absent
             /\ role' = [role EXCEPT ![c] = Absent]
             /\ reserved' = reserved \cup ({role[c]} \cap Seats)

\* The admin opens a seat; a player still in it becomes a watcher.
Open(s) == /\ role' = [c \in Conns |-> IF role[c] = s THEN NoSeat ELSE role[c]]
           /\ reserved' = reserved \ {s}

\* The table is cleared: a fresh one stands in its place.
Clear == /\ role' = [c \in Conns |-> Absent]
         /\ reserved' = {}

Next == \/ \E c \in Conns, s \in Seats : Sit(c, s)
        \/ \E c \in Conns : Watch(c) \/ Depart(c)
        \/ \E s \in Seats : Open(s)
        \/ Clear

Spec == Init /\ [][Next]_vars

=============================================================================
