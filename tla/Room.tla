-------------------------------- MODULE Room --------------------------------
(***************************************************************************)
(* host/src/room.cpp: the membership of one active engine.  Room owns the  *)
(* seats and the set of members, answers `join`, relays everything else to *)
(* the engine, and tells the engine who comes and goes.                    *)
(*                                                                         *)
(* A connection id is never reused (WsServer counts them up), so Conns is  *)
(* the set of ids a run may hand out.  `engine` is the ledger of an engine *)
(* that believes every callback it gets: chat and filter key state by      *)
(* connection and release it in onLeave.                                   *)
(***************************************************************************)
EXTENDS Integers

CONSTANTS Conns,      \* connection ids
          NumSeats,   \* seats in the roster the engine declared
          NoConn      \* ConnId 0: nobody

ASSUME RoomAssumption == /\ NumSeats \in Nat
                         /\ NoConn \notin Conns

Seats    == 0 .. NumSeats - 1
NoSeat   == -1        \* kNoSeat: a spectator; also a name no roster entry has
Absent   == -2        \* the engine was never told of, or was told to forget
Unnamed  == -3        \* a join whose seat field is empty: auto-assign
Requests == Seats \cup {NoSeat, Unnamed}
Roles    == Seats \cup {NoSeat, Absent}
Statuses == {"open", "connected", "disconnected"}

VARIABLES
  open,     \* connections past the handshake that the server still has
  gone,     \* connections the server has dropped
  seats,    \* seats[s] = [conn, held]
  members,  \* members_: connections owed one onLeave
  engine,   \* the engine's ledger of callbacks, see Joined and Left
  told,     \* told[c]: the seat in the last `joined` sent to c
  board     \* the seat statuses in the last sessionUpdate broadcast

vars == <<open, gone, seats, members, engine, told, board>>

Seat   == [conn : Conns \cup {NoConn}, held : BOOLEAN]
Vacant == [conn |-> NoConn, held |-> FALSE]

-----------------------------------------------------------------------------
(* Reading the seats.                                                      *)

SeatsIn(table, c) == {s \in Seats : table[s].conn = c}

SeatIn(table, c) ==
  IF SeatsIn(table, c) = {} THEN NoSeat
  ELSE CHOOSE s \in SeatsIn(table, c) : \A t \in SeatsIn(table, c) : s <= t

SeatsOf(c) == SeatsIn(seats, c)
SeatOf(c)  == SeatIn(seats, c)

StatusOf(seat) == IF seat.conn # NoConn THEN "connected"
                  ELSE IF seat.held THEN "disconnected" ELSE "open"

BoardOf(table) == [s \in Seats |-> StatusOf(table[s])]

\* An open seat, or by name a held one.  (Faulty variant: a held one anyway.)
TakeableHeld(s, byName) == seats[s].conn = NoConn
Takeable(s, byName)     == seats[s].conn = NoConn /\ (~seats[s].held \/ byName)

FirstOpen(s) == /\ Takeable(s, FALSE)
                /\ \A t \in Seats : Takeable(t, FALSE) => s <= t

\* The seat a join by an unseated connection wins; none, and it spectates.
\* (Faulty variant: the loop runs one past the roster's last seat.)
WonPastEnd(requested) ==
  IF requested = Unnamed
  THEN IF \E s \in Seats : Takeable(s, FALSE) THEN {s \in Seats : FirstOpen(s)}
       ELSE {NumSeats}
  ELSE {s \in Seats : s = requested /\ Takeable(s, TRUE)}

Won(requested) ==
  {s \in Seats : IF requested = Unnamed THEN FirstOpen(s)
                 ELSE s = requested /\ Takeable(s, TRUE)}

-----------------------------------------------------------------------------
(* The engine's ledger after a callback.  `stray` collects connections the *)
(* engine was told to leave a role they did not have, `kept` those it      *)
(* holds per-connection state for.                                         *)

Ledger == [role : [Conns -> Roles], stray : SUBSET Conns, kept : SUBSET Conns]

NewLedger == [role |-> [c \in Conns |-> Absent], stray |-> {}, kept |-> {}]

Joined(l, c, s) == [l EXCEPT !.role[c] = s]

\* One onLeave(c, s) for each s in from.
Left(l, c, from) ==
  IF from = {} THEN l
  ELSE [l EXCEPT !.role[c] = Absent,
                 !.stray = @ \cup (IF from = {l.role[c]} THEN {} ELSE {c}),
                 !.kept = @ \ {c}]

Heard(l, c) == [l EXCEPT !.kept = @ \cup {c}]

-----------------------------------------------------------------------------
(* A room is built when an engine starts; sockets may be open already.     *)
Init == /\ open \in SUBSET Conns
        /\ gone = {}
        /\ seats = [s \in Seats |-> Vacant]
        /\ members = {}
        /\ engine = NewLedger
        /\ told = [c \in Conns |-> Absent]
        /\ board = [s \in Seats |-> "open"]

\* onOpen does nothing: membership starts with a join.
Connect(c) == /\ c \notin open \cup gone
              /\ open' = open \cup {c}
              /\ UNCHANGED <<gone, seats, members, engine, told, board>>

\* handleJoin of a seated connection: confirm the seat, whatever was asked.
Reconfirm(c) ==
  /\ SeatOf(c) # NoSeat
  /\ told' = [told EXCEPT ![c] = SeatOf(c)]
  /\ members' = members \cup {c}
  /\ engine' = Joined(engine, c, SeatOf(c))
  /\ UNCHANGED <<open, gone, seats, board>>

\* The lambda take(s).  It clears any hold, and a spectator's role ends with
\* an onLeave before its onJoin as a player.  (Faulty variants first: the hold
\* stays; the calls are made the other way round.)
TakenKeepingHold(seat, c) == [seat EXCEPT !.conn = c]
Taken(seat, c)            == [conn |-> c, held |-> FALSE]

Leaving(c) == IF SeatsOf(c) # {} THEN SeatsOf(c)
              ELSE IF c \in members THEN {NoSeat} ELSE {}

SeatingJoinFirst(l, c, s) == Left(Joined(l, c, s), c, Leaving(c))
Seating(l, c, s)          == Joined(Left(l, c, Leaving(c)), c, s)

Take(c, s) ==
  /\ seats' = [seats EXCEPT ![s] = Taken(@, c)]
  /\ told' = [told EXCEPT ![c] = s]
  /\ members' = members \cup {c}
  /\ engine' = Seating(engine, c, s)
  /\ board' = BoardOf(seats')
  /\ UNCHANGED <<open, gone>>

Spectate(c) ==
  /\ told' = [told EXCEPT ![c] = NoSeat]
  /\ members' = members \cup {c}
  /\ engine' = Joined(engine, c, NoSeat)
  /\ UNCHANGED <<open, gone, seats, board>>

\* Faulty variant: a seated connection is not recognised.
HandleJoinAgain(c, requested) ==
  /\ c \in open
  /\ \/ \E s \in Won(requested) : Take(c, s)
     \/ Won(requested) = {} /\ Spectate(c)

HandleJoin(c, requested) ==
  /\ c \in open
  /\ \/ Reconfirm(c)
     \/ /\ SeatOf(c) = NoSeat
        /\ \/ \E s \in Won(requested) : Take(c, s)
           \/ Won(requested) = {} /\ Spectate(c)

\* Any other text, and every binary frame, goes to the engine as it is.
Relay(c) == /\ c \in open
            /\ engine' = Heard(engine, c)
            /\ UNCHANGED <<open, gone, seats, members, told, board>>

\* onClose: a seat is held for its player; a member that had none leaves as a
\* spectator; only a change of seats is broadcast.  (Faulty variants: the seat
\* is vacated; nothing is broadcast; spectators get no onLeave.)
DroppedVacating(seat) == Vacant
Dropped(seat)         == [conn |-> NoConn, held |-> TRUE]

BoardAfterDropSilent(own) == board
BoardAfterDrop(own)       == IF own # {} THEN BoardOf(seats') ELSE board

Departing(c) == Left(engine, c, Leaving(c))

OnClose(c) ==
  LET own == SeatsOf(c)
  IN /\ c \in open
     /\ open' = open \ {c}
     /\ gone' = gone \cup {c}
     /\ seats' = [s \in Seats |-> IF s \in own THEN Dropped(seats[s]) ELSE seats[s]]
     /\ members' = members \ {c}
     /\ engine' = Departing(c)
     /\ board' = BoardAfterDrop(own)
     /\ UNCHANGED told

\* The admin's Free: a live player in the seat becomes a spectator, and is told
\* so.  (Faulty variants: the engine hears only of the leave; nobody is told.)
DemotedLeaveOnly(l, c, s) == Left(l, c, {s})
Demoted(l, c, s)          == Joined(Left(l, c, {s}), c, NoSeat)

TellFreedNobody(c) == told
TellFreed(c)       == [told EXCEPT ![c] = NoSeat]

FreeSeat(s) ==
  LET kicked == seats[s].conn
  IN /\ seats' = [seats EXCEPT ![s] = Vacant]
     /\ IF kicked # NoConn
        THEN /\ engine' = Demoted(engine, kicked, s)
             /\ told' = TellFreed(kicked)
        ELSE UNCHANGED <<engine, told>>
     /\ board' = BoardOf(seats')
     /\ UNCHANGED <<open, gone, members>>

Next == \/ \E c \in Conns : Connect(c) \/ Relay(c) \/ OnClose(c)
        \/ \E c \in Conns, requested \in Requests : HandleJoin(c, requested)
        \/ \E s \in Seats : FreeSeat(s)

Spec == Init /\ [][Next]_vars

-----------------------------------------------------------------------------
(* Properties.                                                             *)

\* Every variable has the type its declaration in room.hpp gives it.
TypeOK ==
  /\ open \subseteq Conns /\ gone \subseteq Conns
  /\ seats \in [Seats -> Seat]
  /\ members \subseteq Conns
  /\ engine \in Ledger
  /\ told \in [Conns -> Roles]
  /\ board \in [Seats -> Statuses]

\* No connection ever sits in two seats, however it joins, drops and is freed:
\* seatOf, which returns the first match, is then the seat (room.cpp:30).
OnceIn(table) == \A s, t \in Seats : table[s].conn = table[t].conn =>
                   s = t \/ table[s].conn = NoConn
SeatedOnce == OnceIn(seats)

\* An occupied seat belongs to a live member, and is never also held
\* (the three states of room.hpp:60); members are live connections.
SeatsLive == /\ \A s \in Seats : seats[s].conn # NoConn =>
                   seats[s].conn \in members /\ ~seats[s].held
             /\ members \subseteq open
             /\ open \cap gone = {}

\* What the engine was told by onJoin/onLeave is what the room would answer:
\* no sequence of joins, drops and frees lets the two drift apart.
EngineAgrees == \A c \in Conns :
                  engine.role[c] = IF c \in members THEN SeatOf(c) ELSE Absent

\* Each onLeave closes the role its connection had (integration_tests.cpp:164,
\* room.hpp:77): none for an unknown connection, none for another role.
LeavesMatch == engine.stray = {}

\* The seat in the last `joined` a member got is its seat: nobody plays on
\* believing in a seat the admin freed (room.cpp:173).
ClientAgrees == \A c \in members : told[c] = SeatOf(c)

\* Every change of a seat's status was broadcast.
BoardCurrent == board = BoardOf(seats)

\* A member that goes takes its per-connection state with it (room.hpp:81).
DepartureReleases == [][\A c \in members \ members' : c \notin engine'.kept]_vars

\* The room implements the abstract table.
T == INSTANCE Table WITH role <- engine.role,
                         reserved <- {s \in Seats : seats[s].held}
ImplementsTable == T!Spec

\* As room.hpp:81 and chess/chat/filter's onLeave have it: an engine holds no
\* state for a connection that is gone.
NothingKeptForGone == engine.kept \cap gone = {}

=============================================================================
