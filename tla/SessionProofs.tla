---------------------------- MODULE SessionProofs ----------------------------
(***************************************************************************)
(* The room, for any set of connections and any roster size; and what rests  *)
(* on it: members see the table and only the side to move moves, for any     *)
(* number of players and positions, across restarts of the engine.          *)
(***************************************************************************)
EXTENDS Session, TLAPS

-----------------------------------------------------------------------------
(* Lemmas about the operators.                                             *)

\* Whatever was asked, the seat a join wins is a vacant one of the roster.
LEMMA WonVacant ==
  ASSUME NEW requested, NEW s \in Won(requested)
  PROVE  s \in Seats /\ seats[s].conn = NoConn
BY DEF Won, FirstOpen, Takeable

\* A connection that no seat names is a spectator to seatOf.
LEMMA SeatInNone ==
  ASSUME NEW table, NEW c, \A s \in Seats : table[s].conn # c
  PROVE  SeatsIn(table, c) = {} /\ SeatIn(table, c) = NoSeat
BY DEF SeatsIn, SeatIn

\* With no connection in two seats, seatOf finds the seat that names it.
LEMMA SeatInOne ==
  ASSUME NEW table, NEW c \in Conns, OnceIn(table),
         NEW s \in Seats, table[s].conn = c
  PROVE  SeatsIn(table, c) = {s} /\ SeatIn(table, c) = s
<1>1. SeatsIn(table, c) = {s}
  BY RoomAssumption DEF SeatsIn, OnceIn
<1>2. s <= s
  BY RoomAssumption DEF Seats
<1> QED BY <1>1, <1>2 DEF SeatIn

\* seatOf depends on nothing but which seats name the connection.
LEMMA SeatInSame ==
  ASSUME NEW t1, NEW t2, NEW c,
         \A s \in Seats : t1[s].conn = c <=> t2[s].conn = c
  PROVE  SeatIn(t1, c) = SeatIn(t2, c)
<1>1. SeatsIn(t1, c) = SeatsIn(t2, c)
  BY DEF SeatsIn
<1> QED BY <1>1 DEF SeatIn

\* seatOf is a seat or NoSeat; NoSeat exactly when no seat names c.
LEMMA SeatInRoles ==
  ASSUME NEW table, NEW c \in Conns, OnceIn(table)
  PROVE  /\ SeatIn(table, c) \in Seats \cup {NoSeat}
         /\ SeatIn(table, c) # NoSeat =>
              /\ SeatIn(table, c) \in Seats
              /\ table[SeatIn(table, c)].conn = c
         /\ SeatIn(table, c) = NoSeat => \A s \in Seats : table[s].conn # c
         /\ \A s \in Seats : s # NoSeat /\ s # Absent
<1>1. \A s \in Seats : s # NoSeat /\ s # Absent
  BY RoomAssumption DEF Seats, NoSeat, Absent
<1>2. CASE \A s \in Seats : table[s].conn # c
  BY <1>1, <1>2, SeatInNone
<1>3. CASE \E s \in Seats : table[s].conn = c
  BY <1>1, <1>3, SeatInOne
<1> QED BY <1>2, <1>3

\* The statuses of any table are statuses.
LEMMA BoardType ==
  ASSUME NEW table
  PROVE  BoardOf(table) \in [Seats -> Statuses]
BY DEF BoardOf, StatusOf, Statuses

\* An onJoin changes its connection's role and accuses nobody of a stray leave.
LEMMA JoinedLedger ==
  ASSUME NEW l \in Ledger, NEW c \in Conns, NEW s \in Roles
  PROVE  /\ Joined(l, c, s) \in Ledger
         /\ Joined(l, c, s).role = [l.role EXCEPT ![c] = s]
         /\ Joined(l, c, s).stray = l.stray
         /\ Joined(l, c, s).kept = l.kept
BY DEF Ledger, Joined

\* An onLeave of the very role a connection has is no stray one.
LEMMA LeftLedger ==
  ASSUME NEW l \in Ledger, NEW c \in Conns
  PROVE  /\ Left(l, c, {l.role[c]}) \in Ledger
         /\ Left(l, c, {l.role[c]}).role = [l.role EXCEPT ![c] = Absent]
         /\ Left(l, c, {l.role[c]}).stray = l.stray
         /\ Left(l, c, {l.role[c]}).kept = l.kept \ {c}
BY DEF Ledger, Left, Roles

\* Leaving a seat and joining as a spectator, as one step.
LEMMA DemotedLedger ==
  ASSUME NEW l \in Ledger, NEW c \in Conns
  PROVE  /\ Demoted(l, c, l.role[c]) \in Ledger
         /\ Demoted(l, c, l.role[c]).role = [l.role EXCEPT ![c] = NoSeat]
         /\ Demoted(l, c, l.role[c]).stray = l.stray
<1>1. PICK left : left = Left(l, c, {l.role[c]})
  OBVIOUS
<1>2. /\ left \in Ledger
      /\ left.role = [l.role EXCEPT ![c] = Absent]
      /\ left.stray = l.stray
  BY <1>1, LeftLedger
<1>3. /\ Joined(left, c, NoSeat) \in Ledger
      /\ Joined(left, c, NoSeat).role = [left.role EXCEPT ![c] = NoSeat]
      /\ Joined(left, c, NoSeat).stray = left.stray
  BY <1>2, JoinedLedger DEF Roles
<1>4. [left.role EXCEPT ![c] = NoSeat] = [l.role EXCEPT ![c] = NoSeat]
  BY <1>2 DEF Ledger
<1> QED BY <1>1, <1>2, <1>3, <1>4 DEF Demoted

-----------------------------------------------------------------------------
(* The inductive invariant.  No conjunct is inductive alone: that an       *)
(* onLeave matches the role needs EngineAgrees, which needs SeatedOnce;    *)
(* that a freed player is a member needs SeatsLive.                        *)

IInv == /\ TypeOK
        /\ SeatedOnce
        /\ SeatsLive
        /\ EngineAgrees
        /\ LeavesMatch
        /\ ClientAgrees

\* In a new room nobody is seated and nobody is a member.
LEMMA InitIInv == Init => IInv
<1> SUFFICES ASSUME Init PROVE IInv
  OBVIOUS
<1>1. TypeOK
  <2>1. NewLedger \in Ledger
    BY DEF NewLedger, Ledger, Roles
  <2> QED BY <2>1 DEF TypeOK, Init, Seat, Vacant, Roles, Statuses
<1>2. SeatedOnce /\ SeatsLive
  BY DEF Init, SeatedOnce, OnceIn, SeatsLive, Vacant
<1>3. EngineAgrees /\ LeavesMatch
  BY DEF Init, EngineAgrees, LeavesMatch, NewLedger
<1>4. ClientAgrees
  BY DEF Init, ClientAgrees
<1> QED BY <1>1, <1>2, <1>3, <1>4 DEF IInv

\* What the engine's ledger says of a connection, from the seats.
LEMMA RoleOf ==
  ASSUME IInv, NEW c \in Conns
  PROVE  /\ c \notin members => /\ engine.role[c] = Absent
                                /\ \A s \in Seats : seats[s].conn # c
                                /\ SeatOf(c) = NoSeat
                                /\ Leaving(c) = {}
         /\ c \in members => /\ engine.role[c] = SeatOf(c)
                             /\ Leaving(c) = {SeatOf(c)}
<1>1. c \notin members => \A s \in Seats : seats[s].conn # c
  BY RoomAssumption DEF IInv, SeatsLive
<1>2. c \notin members => SeatOf(c) = NoSeat /\ SeatsOf(c) = {}
  BY <1>1, SeatInNone DEF SeatOf, SeatsOf
<1>3. c \in members => Leaving(c) = {SeatOf(c)}
  <2>1. CASE \A s \in Seats : seats[s].conn # c
    BY <2>1, SeatInNone DEF Leaving, SeatsOf, SeatOf
  <2>2. ASSUME NEW s \in Seats, seats[s].conn = c
        PROVE  SeatsOf(c) = {s} /\ SeatOf(c) = s
    BY <2>2, SeatInOne DEF IInv, SeatedOnce, SeatOf, SeatsOf
  <2> QED BY <2>1, <2>2 DEF Leaving
<1> QED BY <1>1, <1>2, <1>3 DEF IInv, EngineAgrees, Leaving

\* Leaving, whatever c is to the room, never accuses it of a stray onLeave.
LEMMA LeftLeaving ==
  ASSUME IInv, NEW c \in Conns
  PROVE  /\ Left(engine, c, Leaving(c)) \in Ledger
         /\ Left(engine, c, Leaving(c)).role = [engine.role EXCEPT ![c] = Absent]
         /\ Left(engine, c, Leaving(c)).stray = {}
         /\ c \in members =>
              Left(engine, c, Leaving(c)).kept = engine.kept \ {c}
<1>1. engine \in Ledger /\ engine.stray = {}
  BY DEF IInv, TypeOK, LeavesMatch
<1>2. CASE c \in members
  <2>1. Leaving(c) = {engine.role[c]}
    BY <1>2, RoleOf
  <2>2. /\ Left(engine, c, {engine.role[c]}) \in Ledger
        /\ Left(engine, c, {engine.role[c]}).role = [engine.role EXCEPT ![c] = Absent]
        /\ Left(engine, c, {engine.role[c]}).stray = engine.stray
        /\ Left(engine, c, {engine.role[c]}).kept = engine.kept \ {c}
    BY <1>1, LeftLedger
  <2> QED BY <1>1, <2>1, <2>2
<1>3. CASE c \notin members
  <2>1. Left(engine, c, Leaving(c)) = engine
    BY <1>3, RoleOf DEF Left
  <2>2. engine.role = [engine.role EXCEPT ![c] = Absent]
    BY <1>1, <1>3, RoleOf DEF Ledger
  <2> QED BY <1>1, <1>3, <2>1, <2>2
<1> QED BY <1>2, <1>3

-----------------------------------------------------------------------------
(* Each operation preserves the invariant.                                 *)

LEMMA ConnectIInv ==
  ASSUME IInv, NEW c \in Conns, Connect(c)
  PROVE  IInv'
<1> USE DEF Connect, IInv
<1>1. TypeOK'
  BY DEF TypeOK
<1>2. SeatedOnce' /\ SeatsLive'
  BY DEF SeatedOnce, SeatsLive
<1>3. EngineAgrees' /\ LeavesMatch'
  BY DEF EngineAgrees, LeavesMatch, SeatOf
<1>4. ClientAgrees'
  BY DEF ClientAgrees, SeatOf
<1> QED BY <1>1, <1>2, <1>3, <1>4

LEMMA RelayIInv ==
  ASSUME IInv, NEW c \in Conns, Relay(c)
  PROVE  IInv'
<1> USE DEF Relay, IInv
<1>1. /\ engine' \in Ledger
      /\ engine'.role = engine.role
      /\ engine'.stray = engine.stray
  BY DEF TypeOK, Heard, Ledger
<1>2. TypeOK'
  BY <1>1 DEF TypeOK
<1>3. SeatedOnce' /\ SeatsLive'
  BY DEF SeatedOnce, SeatsLive
<1>4. EngineAgrees' /\ LeavesMatch'
  BY <1>1 DEF EngineAgrees, LeavesMatch, SeatOf
<1>5. ClientAgrees'
  BY DEF ClientAgrees, SeatOf
<1> QED BY <1>2, <1>3, <1>4, <1>5

\* A join that moves no seat: c is told, and becomes, what seatOf says.
LEMMA SeatlessJoinIInv ==
  ASSUME IInv, NEW c \in Conns, c \in open, Reconfirm(c) \/ (Spectate(c) /\ SeatOf(c) = NoSeat)
  PROVE  IInv'
<1> USE DEF IInv
<1> DEFINE s == SeatOf(c)
<1>1. s \in Seats \cup {NoSeat} /\ s \in Roles
  BY SeatInRoles DEF SeatedOnce, SeatOf, Roles
<1>2. /\ told' = [told EXCEPT ![c] = s]
      /\ members' = members \cup {c}
      /\ engine' = Joined(engine, c, s)
      /\ UNCHANGED <<open, gone, seats, board>>
  BY DEF Reconfirm, Spectate
<1>3. /\ engine' \in Ledger
      /\ engine'.role = [engine.role EXCEPT ![c] = s]
      /\ engine'.stray = engine.stray
  BY <1>1, <1>2, JoinedLedger DEF TypeOK
<1>4. TypeOK'
  BY <1>1, <1>2, <1>3 DEF TypeOK
<1>5. SeatedOnce' /\ SeatsLive'
  BY <1>2 DEF SeatedOnce, SeatsLive
<1>6. EngineAgrees' /\ LeavesMatch'
  BY <1>2, <1>3 DEF EngineAgrees, LeavesMatch, SeatOf, TypeOK, Ledger
<1>7. ClientAgrees'
  BY <1>2 DEF ClientAgrees, SeatOf, TypeOK
<1> QED BY <1>4, <1>5, <1>6, <1>7

LEMMA TakeIInv ==
  ASSUME IInv, NEW c \in Conns, c \in open, SeatOf(c) = NoSeat,
         NEW s \in Seats, seats[s].conn = NoConn, Take(c, s)
  PROVE  IInv'
<1> USE DEF IInv
<1>1. \A t \in Seats : seats[t].conn # c
  BY SeatInRoles DEF SeatedOnce, SeatOf
<1>2. /\ seats' = [seats EXCEPT ![s] = [conn |-> c, held |-> FALSE]]
      /\ seats' \in [Seats -> Seat]
      /\ seats'[s].conn = c /\ ~seats'[s].held
      /\ \A t \in Seats \ {s} : seats'[t] = seats[t]
  BY DEF Take, Taken, TypeOK, Seat
<1>3. OnceIn(seats')
  BY <1>1, <1>2, RoomAssumption DEF SeatedOnce, OnceIn
<1>4. SeatIn(seats', c) = s
  <2> DEFINE table == seats'
  <2>1. OnceIn(table) /\ table[s].conn = c
    BY <1>2, <1>3
  <2> HIDE DEF table
  <2>2. SeatIn(table, c) = s
    BY <2>1, SeatInOne
  <2> QED BY <2>2 DEF table
<1>5. \A d \in Conns \ {c} : SeatIn(seats', d) = SeatIn(seats, d)
  <2> SUFFICES ASSUME NEW d \in Conns \ {c}
               PROVE  SeatIn(seats', d) = SeatIn(seats, d)
    OBVIOUS
  <2>1. \A t \in Seats : seats'[t].conn = d <=> seats[t].conn = d
    BY <1>2, RoomAssumption
  <2> QED BY <2>1, SeatInSame
<1>6. /\ engine' \in Ledger
      /\ engine'.role = [engine.role EXCEPT ![c] = s]
      /\ engine'.stray = {}
  <2> DEFINE left == Left(engine, c, Leaving(c))
  <2>1. left \in Ledger /\ left.role = [engine.role EXCEPT ![c] = Absent] /\ left.stray = {}
    BY LeftLeaving
  <2>2. engine' = Joined(left, c, s)
    BY DEF Take, Seating
  <2>3. engine' \in Ledger /\ engine'.role = [left.role EXCEPT ![c] = s] /\ engine'.stray = left.stray
    <3> HIDE DEF left
    <3> QED BY <2>1, <2>2, JoinedLedger DEF Roles
  <2> QED BY <2>1, <2>3 DEF TypeOK, Ledger
<1>7. TypeOK'
  BY <1>2, <1>6, BoardType DEF Take, TypeOK, Roles
<1>8. SeatedOnce' /\ SeatsLive'
  BY <1>2, <1>3 DEF Take, SeatedOnce, SeatsLive
<1>9. EngineAgrees' /\ LeavesMatch'
  BY <1>4, <1>5, <1>6 DEF Take, EngineAgrees, LeavesMatch, SeatOf, TypeOK, Ledger
<1>10. ClientAgrees'
  BY <1>4, <1>5 DEF Take, ClientAgrees, SeatOf, TypeOK
<1> QED BY <1>7, <1>8, <1>9, <1>10

LEMMA OnCloseIInv ==
  ASSUME IInv, NEW c \in Conns, OnClose(c)
  PROVE  IInv'
<1> USE DEF IInv
<1>1. \A t \in Seats : seats'[t] = IF seats[t].conn = c THEN [conn |-> NoConn, held |-> TRUE]
                                   ELSE seats[t]
  BY DEF OnClose, SeatsOf, SeatsIn, Dropped
<1>2. seats' \in [Seats -> Seat] /\ OnceIn(seats')
  <2>1. seats' \in [Seats -> Seat]
    BY DEF OnClose, Dropped, TypeOK, Seat
  <2>2. OnceIn(seats')
    BY <1>1 DEF SeatedOnce, OnceIn
  <2> QED BY <2>1, <2>2
<1>3. \A t \in Seats : seats'[t].conn # c
  BY <1>1, RoomAssumption
<1>4. \A d \in Conns \ {c} : SeatIn(seats', d) = SeatIn(seats, d)
  <2> SUFFICES ASSUME NEW d \in Conns \ {c}
               PROVE  SeatIn(seats', d) = SeatIn(seats, d)
    OBVIOUS
  <2>1. \A t \in Seats : seats'[t].conn = d <=> seats[t].conn = d
    BY <1>1, RoomAssumption
  <2> QED BY <2>1, SeatInSame
<1>5. /\ engine' \in Ledger
      /\ engine'.role = [engine.role EXCEPT ![c] = Absent]
      /\ engine'.stray = {}
  BY LeftLeaving DEF OnClose, Departing
<1>6. board' \in [Seats -> Statuses]
  BY <1>2, BoardType DEF OnClose, BoardAfterDrop, TypeOK
<1>7. TypeOK'
  BY <1>2, <1>5, <1>6 DEF OnClose, TypeOK
<1>8. SeatedOnce' /\ SeatsLive'
  BY <1>1, <1>2, <1>3 DEF OnClose, SeatedOnce, SeatsLive
<1>9. EngineAgrees' /\ LeavesMatch'
  BY <1>4, <1>5 DEF OnClose, EngineAgrees, LeavesMatch, SeatOf, TypeOK, Ledger
<1>10. ClientAgrees'
  BY <1>4 DEF OnClose, ClientAgrees, SeatOf, TypeOK
<1> QED BY <1>7, <1>8, <1>9, <1>10

LEMMA FreeSeatIInv ==
  ASSUME IInv, NEW s \in Seats, FreeSeat(s)
  PROVE  IInv'
<1> USE DEF IInv
<1>k. PICK k : k = seats[s].conn
  OBVIOUS
<1>1. /\ seats' \in [Seats -> Seat]
      /\ seats'[s] = Vacant
      /\ \A t \in Seats \ {s} : seats'[t] = seats[t]
  BY DEF FreeSeat, TypeOK, Seat, Vacant
<1>2. OnceIn(seats')
  BY <1>1 DEF SeatedOnce, OnceIn, Vacant
<1>3. \A d \in Conns \ {k} : SeatIn(seats', d) = SeatIn(seats, d)
  <2> SUFFICES ASSUME NEW d \in Conns \ {k}
               PROVE  SeatIn(seats', d) = SeatIn(seats, d)
    OBVIOUS
  <2>1. \A t \in Seats : seats'[t].conn = d <=> seats[t].conn = d
    BY <1>1, <1>k, RoomAssumption DEF Vacant
  <2> QED BY <2>1, SeatInSame
<1>4. TypeOK' /\ SeatedOnce' /\ SeatsLive' /\ EngineAgrees' /\ LeavesMatch' /\ ClientAgrees'
  <2>1. CASE k = NoConn
    <3>1. engine' = engine /\ told' = told
      BY <1>k, <2>1 DEF FreeSeat
    <3>2. \A d \in Conns : SeatIn(seats', d) = SeatIn(seats, d)
      BY <1>3, <2>1, RoomAssumption
    <3>3. TypeOK'
      BY <1>1, <3>1, BoardType DEF FreeSeat, TypeOK
    <3>4. SeatedOnce' /\ SeatsLive'
      BY <1>1, <1>2 DEF FreeSeat, SeatedOnce, SeatsLive, Vacant
    <3>5. EngineAgrees' /\ LeavesMatch' /\ ClientAgrees'
      <4>1. members' = members
        BY DEF FreeSeat
      <4> QED BY <3>1, <3>2, <4>1 DEF EngineAgrees, LeavesMatch, ClientAgrees, SeatOf, TypeOK
    <3> QED BY <3>3, <3>4, <3>5
  <2>2. CASE k # NoConn
    <3>1. k \in Conns /\ k \in members /\ SeatOf(k) = s /\ engine.role[k] = s
      BY <1>k, <2>2, SeatInOne DEF SeatsLive, SeatedOnce, SeatOf, EngineAgrees, TypeOK, Seat
    <3>2. SeatIn(seats', k) = NoSeat
      <4>1. \A t \in Seats : seats'[t].conn # k
        BY <1>1, <1>k, <2>2 DEF SeatedOnce, OnceIn, Vacant
      <4> QED BY <4>1, SeatInNone
    <3>3. /\ engine' \in Ledger
          /\ engine'.role = [engine.role EXCEPT ![k] = NoSeat]
          /\ engine'.stray = {}
      <4>1. engine' = Demoted(engine, k, engine.role[k])
        BY <1>k, <2>2, <3>1 DEF FreeSeat
      <4>2. engine \in Ledger /\ engine.stray = {}
        BY DEF TypeOK, LeavesMatch
      <4> QED BY <3>1, <4>1, <4>2, DemotedLedger
    <3>4. told' = [told EXCEPT ![k] = NoSeat]
      BY <1>k, <2>2 DEF FreeSeat, TellFreed
    <3>5. TypeOK'
      BY <1>1, <3>3, <3>4, BoardType DEF FreeSeat, TypeOK, Roles
    <3>6. SeatedOnce' /\ SeatsLive'
      BY <1>1, <1>2 DEF FreeSeat, SeatedOnce, SeatsLive, Vacant
    <3>7. EngineAgrees' /\ LeavesMatch'
      <4>1. members' = members
        BY DEF FreeSeat
      <4> QED BY <1>3, <3>1, <3>2, <3>3, <4>1 DEF EngineAgrees, LeavesMatch, SeatOf, TypeOK, Ledger
    <3>8. ClientAgrees'
      BY <1>3, <3>1, <3>2, <3>4 DEF FreeSeat, ClientAgrees, SeatOf, TypeOK
    <3> QED BY <3>5, <3>6, <3>7, <3>8
  <2> QED BY <2>1, <2>2
<1> QED BY <1>4

\* Every step of the room preserves the invariant.
LEMMA NextIInv == IInv /\ [Next]_vars => IInv'
<1> SUFFICES ASSUME IInv, [Next]_vars PROVE IInv'
  OBVIOUS
<1>1. ASSUME NEW c \in Conns, Connect(c) PROVE IInv'
  BY <1>1, ConnectIInv
<1>2. ASSUME NEW c \in Conns, Relay(c) PROVE IInv'
  BY <1>2, RelayIInv
<1>3. ASSUME NEW c \in Conns, OnClose(c) PROVE IInv'
  BY <1>3, OnCloseIInv
<1>4. ASSUME NEW c \in Conns, NEW requested \in Requests, HandleJoin(c, requested)
      PROVE  IInv'
  <2>1. CASE Reconfirm(c)
    BY <1>4, <2>1, SeatlessJoinIInv DEF HandleJoin
  <2>2. ASSUME SeatOf(c) = NoSeat, NEW s \in Won(requested), Take(c, s)
        PROVE  IInv'
    BY <1>4, <2>2, WonVacant, TakeIInv DEF HandleJoin
  <2>3. CASE SeatOf(c) = NoSeat /\ Spectate(c)
    BY <1>4, <2>3, SeatlessJoinIInv DEF HandleJoin
  <2> QED BY <1>4, <2>1, <2>2, <2>3 DEF HandleJoin
<1>5. ASSUME NEW s \in Seats, FreeSeat(s) PROVE IInv'
  BY <1>5, FreeSeatIInv
<1>6. CASE UNCHANGED vars
  BY <1>6 DEF vars, IInv, TypeOK, SeatedOnce, SeatsLive, EngineAgrees, LeavesMatch,
              ClientAgrees, SeatOf
<1> QED BY <1>1, <1>2, <1>3, <1>4, <1>5, <1>6 DEF Next

\* The room's invariant: it has the right types, nobody sits twice, occupied
\* seats belong to live members, engine and clients agree with the seats.
THEOREM RoomInvariant == Spec => []IInv
<1> QED BY InitIInv, NextIInv, PTL DEF Spec

\* Every variable keeps its type (room.hpp:60-90).
THEOREM RoomTypes == Spec => []TypeOK
<1>1. IInv => TypeOK
  BY DEF IInv
<1> QED BY <1>1, RoomInvariant, PTL

\* No sequence of joins, drops and frees seats one connection twice.
THEOREM RoomSeatsOnce == Spec => []SeatedOnce
<1>1. IInv => SeatedOnce
  BY DEF IInv
<1> QED BY <1>1, RoomInvariant, PTL

\* What the engine heard is what the room would answer, at any time.
THEOREM RoomEngineAgrees == Spec => []EngineAgrees
<1>1. IInv => EngineAgrees
  BY DEF IInv
<1> QED BY <1>1, RoomInvariant, PTL

\* No onLeave is stray: each closes the role the engine was told of.
THEOREM RoomLeavesMatch == Spec => []LeavesMatch
<1>1. IInv => LeavesMatch
  BY DEF IInv
<1> QED BY <1>1, RoomInvariant, PTL

\* No member believes in a seat it does not have.
THEOREM RoomClientAgrees == Spec => []ClientAgrees
<1>1. IInv => ClientAgrees
  BY DEF IInv
<1> QED BY <1>1, RoomInvariant, PTL

\* An occupied seat belongs to a live member and is not held.
THEOREM RoomSeatsLive == Spec => []SeatsLive
<1>1. IInv => SeatsLive
  BY DEF IInv
<1> QED BY <1>1, RoomInvariant, PTL

\* The board that was last broadcast is the seats' (room.cpp:193).
THEOREM RoomBoardCurrent == Spec => []BoardCurrent
<1>1. Init => BoardCurrent
  BY DEF Init, BoardCurrent, BoardOf, StatusOf, Vacant
<1>2. TypeOK /\ BoardCurrent /\ [Next]_vars => BoardCurrent'
  <2> SUFFICES ASSUME TypeOK, BoardCurrent, [Next]_vars PROVE BoardCurrent'
    OBVIOUS
  <2>1. CASE seats' = seats /\ board' = board
    BY <2>1 DEF BoardCurrent
  <2>2. CASE board' = BoardOf(seats')
    BY <2>2 DEF BoardCurrent
  <2>3. ASSUME NEW c \in Conns, OnClose(c) PROVE BoardCurrent'
    <3>1. CASE SeatsOf(c) # {}
      BY <2>2, <2>3, <3>1 DEF OnClose, BoardAfterDrop
    <3>2. CASE SeatsOf(c) = {}
      BY <2>1, <2>3, <3>2 DEF OnClose, BoardAfterDrop, TypeOK
    <3> QED BY <3>1, <3>2
  <2>4. ASSUME NEW c \in Conns, NEW requested \in Requests, HandleJoin(c, requested)
        PROVE  BoardCurrent'
    BY <2>1, <2>2, <2>4 DEF HandleJoin, Reconfirm, Spectate, Take
  <2>5. CASE \/ \E c \in Conns : Connect(c) \/ Relay(c)
             \/ UNCHANGED vars
    BY <2>1, <2>5 DEF Connect, Relay, vars
  <2>6. CASE \E s \in Seats : FreeSeat(s)
    BY <2>2, <2>6 DEF FreeSeat
  <2> QED BY <2>3, <2>4, <2>5, <2>6 DEF Next
<1> QED BY <1>1, <1>2, RoomTypes, PTL DEF Spec

\* A member that goes takes its per-connection state with it.
THEOREM RoomDepartureReleases == Spec => DepartureReleases
<1> DEFINE Releases == \A c \in members \ members' : c \notin engine'.kept
<1>1. IInv /\ [Next]_vars => [Releases]_vars
  <2> SUFFICES ASSUME IInv, Next, NEW d \in members, d \notin members'
               PROVE  d \notin engine'.kept
    OBVIOUS
  <2>1. ASSUME NEW c \in Conns, Connect(c) \/ Relay(c) PROVE FALSE
    BY <2>1 DEF Connect, Relay
  <2>2. ASSUME NEW c \in Conns, NEW requested \in Requests, HandleJoin(c, requested)
        PROVE  FALSE
    BY <2>2 DEF HandleJoin, Reconfirm, Spectate, Take
  <2>3. ASSUME NEW s \in Seats, FreeSeat(s) PROVE FALSE
    BY <2>3 DEF FreeSeat
  <2>4. ASSUME NEW c \in Conns, OnClose(c) PROVE d \notin engine'.kept
    <3>1. d = c
      BY <2>4 DEF OnClose
    <3>2. engine'.kept = engine.kept \ {c}
      BY <2>4, <3>1, LeftLeaving DEF OnClose, Departing
    <3> QED BY <3>1, <3>2
  <2> QED BY <2>1, <2>2, <2>3, <2>4 DEF Next
<1>2. IInv /\ [Next]_vars => [\A c \in members \ members' : c \notin engine'.kept]_vars
  BY <1>1
<1> QED BY <1>2, RoomInvariant, PTL DEF Spec, DepartureReleases

-----------------------------------------------------------------------------
(* Room implements Table.                                                  *)

\* Seats a room holds for a dropped player.
Reserved == {s \in Seats : seats[s].held}

\* A seat nobody occupies is nobody's role.
LEMMA VacantRole ==
  ASSUME IInv, NEW s \in Seats, seats[s].conn = NoConn
  PROVE  \A d \in Conns : engine.role[d] # s
<1> SUFFICES ASSUME NEW d \in Conns, engine.role[d] = s PROVE FALSE
  OBVIOUS
<1>1. s # Absent /\ s # NoSeat
  BY SeatInRoles DEF IInv, SeatedOnce
<1>2. SeatIn(seats, d) = s
  BY <1>1 DEF IInv, EngineAgrees, SeatOf
<1>3. seats[s].conn = d
  BY <1>1, <1>2, SeatInRoles DEF IInv, SeatedOnce
<1> QED BY <1>3, RoomAssumption

\* An occupied seat is the role of its connection alone.
LEMMA OccupiedRole ==
  ASSUME IInv, NEW s \in Seats, seats[s].conn # NoConn
  PROVE  /\ seats[s].conn \in Conns
         /\ \A d \in Conns : engine.role[d] = s <=> d = seats[s].conn
<1>1. seats[s].conn \in Conns /\ seats[s].conn \in members
  BY DEF IInv, TypeOK, Seat, SeatsLive
<1>2. engine.role[seats[s].conn] = s
  BY <1>1, SeatInOne DEF IInv, SeatedOnce, EngineAgrees, SeatOf
<1>3. ASSUME NEW d \in Conns, engine.role[d] = s PROVE d = seats[s].conn
  <2>1. s # Absent /\ s # NoSeat
    BY SeatInRoles DEF IInv, SeatedOnce
  <2>2. SeatIn(seats, d) = s
    BY <1>3, <2>1 DEF IInv, EngineAgrees, SeatOf
  <2> QED BY <2>1, <2>2, SeatInRoles DEF IInv, SeatedOnce
<1> QED BY <1>1, <1>2, <1>3

\* Every step of the room is a step of the table, or changes none of it.
LEMMA TableStep == IInv /\ [Next]_vars => [T!Next]_(T!vars)
<1>s. T!Seats = Seats /\ T!NoSeat = NoSeat /\ T!Absent = Absent
  BY DEF T!Seats, T!NoSeat, T!Absent, Seats, NoSeat, Absent
<1> SUFFICES ASSUME IInv, [Next]_vars
             PROVE  T!Next \/ UNCHANGED <<engine.role, Reserved>>
  BY DEF Reserved, T!vars
<1>0. engine \in Ledger /\ engine.role \in [Conns -> Roles]
  BY DEF IInv, TypeOK, Ledger
<1>1. ASSUME NEW c \in Conns, Connect(c) \/ Relay(c)
      PROVE  UNCHANGED <<engine.role, Reserved>>
  BY <1>1, <1>0 DEF Connect, Relay, Heard, Reserved, Ledger
<1>2. ASSUME NEW c \in Conns, Reconfirm(c) \/ (SeatOf(c) = NoSeat /\ Spectate(c))
      PROVE  T!Watch(c) \/ UNCHANGED <<engine.role, Reserved>>
  <2> DEFINE s == SeatOf(c)
  <2>1. s \in Seats \cup {NoSeat} /\ s \in Roles
    BY SeatInRoles DEF IInv, SeatedOnce, SeatOf, Roles
  <2>2. engine'.role = [engine.role EXCEPT ![c] = s] /\ UNCHANGED Reserved
    BY <1>0, <1>2, <2>1, JoinedLedger DEF Reconfirm, Spectate, Reserved
  <2>3. CASE c \in members
    BY <1>0, <2>2, <2>3, RoleOf
  <2>4. CASE c \notin members
    BY <1>0, <1>s, <1>2, <2>2, <2>4, RoleOf DEF T!Watch, Reconfirm, Reserved
  <2> QED BY <2>3, <2>4
<1>3. ASSUME NEW c \in Conns, SeatOf(c) = NoSeat, NEW s \in Seats,
             seats[s].conn = NoConn, Take(c, s)
      PROVE  T!Sit(c, s)
  <2>1. engine.role[c] \in {NoSeat, Absent}
    BY <1>3, RoleOf
  <2>2. T!Vacant(s)
    BY <1>3, VacantRole DEF T!Vacant
  <2>3. engine'.role = [engine.role EXCEPT ![c] = s]
    <3>1. PICK left : left = Left(engine, c, Leaving(c))
      OBVIOUS
    <3>2. left \in Ledger /\ left.role = [engine.role EXCEPT ![c] = Absent]
      BY <3>1, LeftLeaving
    <3>3. engine'.role = [left.role EXCEPT ![c] = s]
      BY <1>3, <3>1, <3>2, JoinedLedger DEF Take, Seating, Roles
    <3> QED BY <1>0, <3>2, <3>3
  <2>4. Reserved' = Reserved \ {s}
    BY <1>3 DEF Take, Taken, Reserved, IInv, TypeOK, Seat
  <2> QED BY <1>s, <2>1, <2>2, <2>3, <2>4 DEF T!Sit, Reserved
<1>4. ASSUME NEW c \in Conns, OnClose(c)
      PROVE  T!Depart(c) \/ UNCHANGED <<engine.role, Reserved>>
  <2>1. engine'.role = [engine.role EXCEPT ![c] = Absent]
    BY <1>4, LeftLeaving DEF OnClose, Departing
  <2>2. Reserved' = Reserved \cup SeatsOf(c)
    BY <1>4 DEF OnClose, Dropped, Reserved, SeatsOf, SeatsIn, IInv, TypeOK, Seat
  <2>3. CASE c \in members
    <3>1. engine.role[c] # Absent /\ engine.role[c] = SeatOf(c)
      BY <2>3, RoleOf, SeatInRoles DEF SeatOf, IInv, SeatedOnce, NoSeat, Absent
    <3>2. SeatsOf(c) = {engine.role[c]} \cap Seats
      <4>1. CASE \A t \in Seats : seats[t].conn # c
        BY <3>1, <4>1, SeatInNone, SeatInRoles DEF SeatOf, SeatsOf, IInv, SeatedOnce
      <4>2. CASE \E t \in Seats : seats[t].conn = c
        BY <3>1, <4>2, SeatInOne DEF SeatOf, SeatsOf, IInv, SeatedOnce
      <4> QED BY <4>1, <4>2
    <3> QED BY <1>s, <2>1, <2>2, <3>1, <3>2 DEF T!Depart, Reserved
  <2>4. CASE c \notin members
    <3>1. engine.role[c] = Absent /\ SeatsOf(c) = {}
      BY <2>4, RoleOf, SeatInNone DEF SeatsOf
    <3> QED BY <1>0, <2>1, <2>2, <3>1
  <2> QED BY <2>3, <2>4
<1>5. ASSUME NEW s \in Seats, FreeSeat(s) PROVE T!Open(s)
  <2>1. Reserved' = Reserved \ {s}
    BY <1>5 DEF FreeSeat, Vacant, Reserved, IInv, TypeOK, Seat
  <2>2. CASE seats[s].conn = NoConn
    <3>1. engine.role = [c \in Conns |-> IF engine.role[c] = s THEN NoSeat ELSE engine.role[c]]
      BY <1>0, <2>2, VacantRole
    <3> QED BY <1>s, <1>5, <2>1, <2>2, <3>1 DEF FreeSeat, T!Open, Reserved
  <2>3. CASE seats[s].conn # NoConn
    <3>1. PICK k : k = seats[s].conn
      OBVIOUS
    <3>2. k \in Conns /\ \A d \in Conns : engine.role[d] = s <=> d = k
      BY <2>3, <3>1, OccupiedRole
    <3>3. engine' = Demoted(engine, k, engine.role[k])
      BY <1>5, <2>3, <3>1, <3>2 DEF FreeSeat
    <3>4. engine'.role = [engine.role EXCEPT ![k] = NoSeat]
      BY <1>0, <3>2, <3>3, DemotedLedger
    <3>5. engine'.role = [c \in Conns |-> IF engine.role[c] = s THEN NoSeat ELSE engine.role[c]]
      BY <1>0, <3>2, <3>4
    <3> QED BY <1>s, <2>1, <3>5 DEF T!Open, Reserved
  <2> QED BY <2>2, <2>3
<1>6. CASE UNCHANGED vars
  BY <1>6 DEF vars, Reserved
<1>7. ASSUME NEW c \in Conns, NEW requested \in Requests, HandleJoin(c, requested)
      PROVE  T!Next \/ UNCHANGED <<engine.role, Reserved>>
  <2>1. CASE Reconfirm(c) \/ (SeatOf(c) = NoSeat /\ Spectate(c))
    BY <1>2, <2>1 DEF T!Next
  <2>2. ASSUME SeatOf(c) = NoSeat, NEW s \in Won(requested), Take(c, s)
        PROVE  T!Next
    <3>1. s \in Seats /\ T!Sit(c, s)
      BY <1>3, <2>2, WonVacant
    <3> QED BY <1>s, <3>1 DEF T!Next
  <2> QED BY <1>7, <2>1, <2>2 DEF HandleJoin
<1>8. CASE Next
  BY <1>s, <1>1, <1>4, <1>5, <1>7, <1>8 DEF Next, T!Next
<1> QED BY <1>6, <1>8

\* A new room is an empty table.
LEMMA TableInit == Init => T!Init
BY DEF Init, T!Init, NewLedger, T!Absent, Absent, Vacant

\* The room implements the abstract table of seats.
THEOREM RoomImplementsTable == Spec => ImplementsTable
<1>1. Init => T!Init
  BY TableInit
<1>2. IInv /\ [Next]_vars => [T!Next]_(T!vars)
  BY TableStep
<1> QED BY <1>1, <1>2, RoomInvariant, PTL DEF Spec, ImplementsTable, T!Spec

-----------------------------------------------------------------------------
(* The host: what is shown of one room holds across the stops and starts of  *)
(* engines under live sockets.                                              *)

\* A step of the host is a step of the room, or replaces the room.
LEMMA HostStep ==
  ASSUME [HostNext]_hostVars
  PROVE  [Next]_vars \/ StopEngine
<1>1. CASE UNCHANGED hostVars
  BY <1>1 DEF hostVars
<1>2. CASE HostNext
  BY <1>2 DEF HostNext, Next, Routed, StartEngine
<1> QED BY <1>1, <1>2

\* Nobody sits at the table that a stopped engine leaves, and nobody is owed an
\* onLeave: the next engine starts from a clean slate.
LEMMA StopIInv == ASSUME IInv, StopEngine PROVE IInv'
<1>1. NewLedger \in Ledger
  BY DEF NewLedger, Ledger, Roles
<1>2. TypeOK'
  <2>1. seats' \in [Seats -> Seat]
    BY DEF StopEngine, Seat, Vacant
  <2> QED BY <1>1, <2>1 DEF StopEngine, IInv, TypeOK
<1>3. SeatedOnce' /\ SeatsLive'
  BY DEF StopEngine, IInv, TypeOK, SeatedOnce, OnceIn, SeatsLive, Vacant
<1>4. EngineAgrees' /\ LeavesMatch'
  BY DEF StopEngine, EngineAgrees, LeavesMatch, NewLedger
<1>5. ClientAgrees'
  BY DEF StopEngine, ClientAgrees
<1> QED BY <1>2, <1>3, <1>4, <1>5 DEF IInv

LEMMA HostIInv == IInv /\ [HostNext]_hostVars => IInv'
BY HostStep, StopIInv, NextIInv

\* The room's invariant survives every stop and start of an engine.
THEOREM HostInvariant == HostSpec => []IInv
<1>1. HostInit => IInv
  BY InitIInv DEF HostInit
<1> QED BY <1>1, HostIInv, PTL DEF HostSpec

\* Across engines the room's laws stand: one seat per connection, seats only of
\* live members, and engine, clients and onLeaves that agree with them.
THEOREM HostKeepsRoom ==
  HostSpec => [](SeatedOnce /\ SeatsLive /\ EngineAgrees /\ LeavesMatch /\ ClientAgrees)
<1>1. IInv => SeatedOnce /\ SeatsLive /\ EngineAgrees /\ LeavesMatch /\ ClientAgrees
  BY DEF IInv
<1> QED BY <1>1, HostInvariant, PTL

\* To the abstract table, stopping an engine is clearing it.
LEMMA StopClears == ASSUME StopEngine PROVE T!Clear
BY DEF StopEngine, T!Clear, NewLedger, T!Absent, Absent, Vacant

\* With its engines coming and going, the host still implements the table.
THEOREM HostImplementsTable == HostSpec => ImplementsTable
<1>1. HostInit => T!Init
  BY TableInit DEF HostInit
<1>2. IInv /\ [HostNext]_hostVars => [T!Next]_(T!vars)
  <2> SUFFICES ASSUME IInv, [HostNext]_hostVars PROVE [T!Next]_(T!vars)
    OBVIOUS
  <2>1. CASE StopEngine
    BY <2>1, StopClears DEF T!Next
  <2>2. CASE [Next]_vars
    BY <2>2, TableStep
  <2> QED BY <2>1, <2>2, HostStep
<1> QED BY <1>1, <1>2, HostInvariant, PTL DEF HostSpec, ImplementsTable, T!Spec

-----------------------------------------------------------------------------
(* The session.                                                            *)

TurnOK == turn \in Seats

ViewOK == /\ version \in Nat
          /\ view \in [Conns -> [version : Int, seats : [Seats -> Statuses]]]

\* What the pages remember and ask for is a seat, or no seat.
PagesOK == /\ sock \in [Players -> Conns \cup {NoConn}]
           /\ mySeat \in [Players -> Seats \cup {NoSeat}]
           /\ asked \in [Conns -> Requests \cup {None}]

\* The launcher has no members.
Idle == ~running => members = {}

SInv == IInv /\ Idle /\ TurnOK /\ ViewOK /\ PagesOK /\ MembersSeeTable

LEMMA SessionInitInv == SessionInit => SInv
<1> SUFFICES ASSUME SessionInit PROVE SInv
  OBVIOUS
<1>1. IInv
  BY InitIInv DEF SessionInit, ChessInit, HostInit
<1>0. Idle /\ TurnOK
  BY ChessAssumption DEF SessionInit, ChessInit, HostInit, Init, Idle, TurnOK, Seats, White
<1>2. ViewOK /\ PagesOK
  BY DEF SessionInit, ChessInit, ViewOK, PagesOK, NoView, Statuses
<1>3. MembersSeeTable
  BY DEF SessionInit, ChessInit, HostInit, Init, MembersSeeTable
<1> QED BY <1>0, <1>1, <1>2, <1>3 DEF SInv

-----------------------------------------------------------------------------
(* A step of the session is one of the host, as far as rooms go.           *)

LEMMA SessionHostStep == ASSUME SInv, [SessionNext]_allVars PROVE [HostNext]_hostVars
<1>1. CASE UNCHANGED allVars
  BY <1>1 DEF allVars, chessVars
<1>2. ASSUME NEW p \in Players, NEW c \in Conns, Dial(p, c)
      PROVE  [HostNext]_hostVars
  BY <1>2 DEF Dial, Open, HostNext
<1>3. ASSUME NEW p \in Players, Hear(p) \/ DropSocket(p) \/ Reload(p)
      PROVE  [HostNext]_hostVars
  BY <1>3 DEF Hear, DropSocket, Reload, chessVars
<1>4. ASSUME NEW p \in Players, NEW legal \in BOOLEAN, Play(p, legal)
      PROVE  [HostNext]_hostVars
  BY <1>4 DEF Play, Propose, Advance
<1>5. ASSUME NEW c \in Conns, ServeJoin(c)
      PROVE  [HostNext]_hostVars
  <2>1. asked[c] \in Requests
    BY <1>5 DEF ServeJoin, SInv, PagesOK
  <2> QED BY <1>5, <2>1 DEF ServeJoin, Join, HostNext, chessVars
<1>6. ASSUME NEW c \in Conns, Notice(c)
      PROVE  [HostNext]_hostVars
  BY <1>6 DEF Notice, Leave, HostNext
<1>7. ASSUME NEW s \in Seats, AdminFree(s)
      PROVE  [HostNext]_hostVars
  BY <1>7 DEF AdminFree, Free, HostNext
<1>8. CASE NewGame \/ Home \/ Launch
  BY <1>8 DEF NewGame, Reset, Advance, Home, Stop, Launch, Start, HostNext
<1> QED BY <1>1, <1>2, <1>3, <1>4, <1>5, <1>6, <1>7, <1>8 DEF SessionNext

LEMMA IdleStep == ASSUME Idle, [HostNext]_hostVars PROVE Idle'
<1>1. CASE UNCHANGED hostVars
  BY <1>1 DEF hostVars, vars, Idle
<1>2. CASE \E c \in Conns : (Connect(c) \/ OnClose(c)) /\ UNCHANGED running
  BY <1>2 DEF Connect, OnClose, Idle
<1>3. CASE running /\ running'
  BY <1>3 DEF Idle
<1>4. CASE StopEngine \/ StartEngine
  BY <1>4 DEF StopEngine, StartEngine, Idle
<1> QED BY <1>1, <1>2, <1>3, <1>4 DEF HostNext, Routed

-----------------------------------------------------------------------------
(* What the pages remember.                                                *)

LEMMA PagesStep == ASSUME SInv, [SessionNext]_allVars PROVE PagesOK'
<1> USE DEF SInv, PagesOK
<1>1. ASSUME NEW p \in Players, NEW c \in Conns, Dial(p, c)
      PROVE  PagesOK'
  BY <1>1 DEF Dial, Open, Requests
<1>2. ASSUME NEW p \in Players, Hear(p)
      PROVE  PagesOK'
  BY <1>2 DEF Hear, IInv, TypeOK, Roles, SeatsLive
<1>3. ASSUME NEW p \in Players, DropSocket(p)
      PROVE  PagesOK'
  BY <1>3 DEF DropSocket
<1>4. ASSUME NEW p \in Players, Reload(p)
      PROVE  PagesOK'
  BY <1>4 DEF Reload
<1>5. ASSUME ~ \E p \in Players : \/ Hear(p) \/ DropSocket(p) \/ Reload(p)
                                  \/ \E c \in Conns : Dial(p, c)
      PROVE  UNCHANGED <<sock, mySeat, asked>>
  BY <1>5 DEF SessionNext, Play, ServeJoin, Notice, AdminFree, NewGame, Home,
     Launch, allVars, clientVars
<1> QED BY <1>1, <1>2, <1>3, <1>4, <1>5

-----------------------------------------------------------------------------
(* What the members were shown.                                            *)

Message == [version : Int, seats : [Seats -> Statuses]]

\* The side to move is one of the two seats.
LEMMA TurnStep == ASSUME SInv, [SessionNext]_allVars PROVE TurnOK'
<1> USE ChessAssumption DEF SInv, TurnOK, Seats
<1>1. CASE UNCHANGED turn
  BY <1>1
<1>2. CASE turn' \in {White, 1 - turn}
  BY <1>2 DEF White
<1>3. turn' = turn \/ turn' \in {White, 1 - turn}
  <2>1. ASSUME NEW p \in Players, NEW legal \in BOOLEAN, Play(p, legal)
        PROVE  turn' = 1 - turn
    BY <2>1 DEF Play, Propose, Advance, NewPosition
  <2>2. CASE NewGame \/ Home \/ Launch
    BY <2>2 DEF NewGame, Reset, Advance, NewPosition, Home, Stop, Launch, Start
  <2>3. CASE UNCHANGED allVars
    BY <2>3 DEF allVars, chessVars
  <2>4. ASSUME NEW p \in Players,
               \/ \E c \in Conns : Dial(p, c)
               \/ Hear(p) \/ DropSocket(p) \/ Reload(p)
        PROVE  turn' = turn
    BY <2>4 DEF Dial, Open, Hear, DropSocket, Reload, chessVars
  <2>5. ASSUME NEW c \in Conns, ServeJoin(c) \/ Notice(c)
        PROVE  turn' = turn
    BY <2>5 DEF ServeJoin, Join, Notice, Leave, chessVars
  <2>6. ASSUME NEW s \in Seats, AdminFree(s)
        PROVE  turn' = turn
    BY <2>6 DEF AdminFree, Free
  <2> QED BY <2>1, <2>2, <2>3, <2>4, <2>5, <2>6 DEF SessionNext
<1> QED BY <1>1, <1>2, <1>3

\* The seats stay as they are, or all are sent what they become.
SeatsTold == seats' = seats \/ board' = BoardOf(seats')

\* A broadcast of the seats brings everyone up to date who has this position.
LEMMA SeatsReach ==
  ASSUME NEW v \in [Conns -> Message], NEW c \in Conns,
         SeatsTold, c \in open', version' = version,
         v[c].version = version,
         v[c].seats = BoardOf(seats) \/ v[c].seats = BoardOf(seats')
  PROVE  SeatsSent(v)[c] = StateMsg'
<1>1. v[c] = [version |-> v[c].version, seats |-> v[c].seats]
  BY DEF Message
<1>2. CASE seats' = seats
  BY <1>1, <1>2 DEF SeatsSent, StateMsg
<1>3. CASE seats' # seats
  BY <1>1, <1>3 DEF SeatsTold, SeatsSent, StateMsg, Message
<1> QED BY <1>2, <1>3

LEMMA SeatsSentType ==
  ASSUME NEW v \in [Conns -> Message], board' \in [Seats -> Statuses]
  PROVE  SeatsSent(v) \in [Conns -> Message]
BY DEF SeatsSent, Message

LEMMA StateMsgType ==
  ASSUME version' \in Nat
  PROVE  StateMsg' \in Message
<1>1. BoardOf(seats') \in [Seats -> Statuses]
  BY BoardType
<1> QED BY <1>1 DEF StateMsg, Message

\* A step in which the seats of v are sent keeps ViewOK and the members' sight.
LEMMA SentShown ==
  ASSUME SInv, IInv', NEW v \in [Conns -> Message],
         version' = version, view' = SeatsSent(v), SeatsTold,
         \A c \in members' : (v[c] = view[c] /\ c \in members) \/ v[c] = StateMsg'
  PROVE  ViewOK' /\ MembersSeeTable'
<1>1. board' \in [Seats -> Statuses]
  BY DEF IInv, TypeOK
<1>2. ViewOK'
  BY <1>1, SeatsSentType DEF SInv, ViewOK, Message
<1>3. ASSUME NEW c \in members' PROVE view'[c] = StateMsg'
  <2>1. c \in Conns /\ c \in open'
    BY DEF IInv, TypeOK, SeatsLive
  <2>2. CASE v[c] = StateMsg'
    <3>1. v[c].version = version /\ v[c].seats = BoardOf(seats')
      BY <2>2 DEF StateMsg
    <3> QED BY <2>1, <3>1, SeatsReach
  <2>3. CASE v[c] = view[c] /\ c \in members
    <3>1. view[c] = StateMsg
      BY <2>3 DEF SInv, MembersSeeTable
    <3>2. v[c].version = version /\ v[c].seats = BoardOf(seats)
      BY <2>3, <3>1 DEF StateMsg
    <3> QED BY <2>1, <3>2, SeatsReach
  <2> QED BY <2>2, <2>3
<1> QED BY <1>2, <1>3 DEF MembersSeeTable

LEMMA GreetedType ==
  ASSUME SInv, version' = version, NEW c \in Conns
  PROVE  /\ Greeted(c) \in [Conns -> Message]
         /\ Greeted(c)[c] = StateMsg'
         /\ \A d \in Conns \ {c} : Greeted(c)[d] = view[d]
<1>1. StateMsg' \in Message
  BY StateMsgType DEF SInv, ViewOK
<1> QED BY <1>1 DEF Greeted, SInv, ViewOK, Message

LEMMA JoinShown ==
  ASSUME SInv, IInv', NEW c \in Conns, NEW requested, Join(c, requested)
  PROVE  ViewOK' /\ MembersSeeTable'
<1>1. version' = version /\ view' = SeatsSent(Greeted(c))
  BY DEF Join
<1>2. members' = members \cup {c}
  BY DEF Join, Routed, HandleJoin, Reconfirm, Take, Spectate
<1>3. members' \subseteq Conns
  BY DEF IInv, TypeOK
<1>4. SeatsTold
  BY DEF Join, Routed, HandleJoin, Reconfirm, Take, Spectate, SeatsTold
<1> QED BY <1>1, <1>2, <1>3, <1>4, GreetedType, SentShown

LEMMA LeaveShown ==
  ASSUME SInv, IInv', NEW c \in Conns, Leave(c)
  PROVE  ViewOK' /\ MembersSeeTable'
<1>1. version' = version /\ view' = SeatsSent(view) /\ members' = members \ {c}
  BY DEF Leave, OnClose
<1>2. view \in [Conns -> Message]
  BY DEF SInv, ViewOK, Message
<1>3. SeatsTold
  BY DEF Leave, OnClose, BoardAfterDrop, SeatsTold, SInv, IInv, TypeOK
<1> QED BY <1>1, <1>2, <1>3, SentShown

LEMMA FreeShown ==
  ASSUME SInv, IInv', NEW s \in Seats, Free(s)
  PROVE  ViewOK' /\ MembersSeeTable'
<1>1. version' = version /\ members' = members /\ members \subseteq Conns
  BY DEF Free, Routed, FreeSeat, SInv, IInv, TypeOK
<1>2. view \in [Conns -> Message]
  BY DEF SInv, ViewOK, Message
<1>0. SeatsTold
  BY DEF Free, Routed, FreeSeat, SeatsTold
<1>3. CASE seats[s].conn = NoConn
  BY <1>0, <1>1, <1>2, <1>3, SentShown DEF Free
<1>4. CASE seats[s].conn # NoConn
  <2>1. seats[s].conn \in Conns
    BY <1>4 DEF SInv, IInv, SeatsLive, TypeOK
  <2>2. view' = SeatsSent(Greeted(seats[s].conn))
    BY <1>4 DEF Free
  <2> QED BY <1>0, <1>1, <2>1, <2>2, GreetedType, SentShown
<1> QED BY <1>3, <1>4

LEMMA AdvanceShown ==
  ASSUME SInv, NEW next, NEW by, Advance(next, by)
  PROVE  ViewOK' /\ MembersSeeTable'
<1>1. version' \in Nat /\ members' = members /\ open' = open /\ members \subseteq open
  BY DEF Advance, NewPosition, SInv, ViewOK, IInv, SeatsLive, hostVars, vars
<1>2. view' = [c \in Conns |-> IF c \in open THEN StateMsg' ELSE view[c]]
  BY DEF Advance
<1>3. StateMsg' \in Message
  BY <1>1, StateMsgType
<1>4. view' \in [Conns -> Message]
  BY <1>2, <1>3 DEF SInv, ViewOK, Message
<1>5. \A c \in members : view'[c] = StateMsg'
  BY <1>1, <1>2 DEF SInv, IInv, TypeOK
<1> QED BY <1>1, <1>4, <1>5 DEF ViewOK, Message, MembersSeeTable

\* A connection that opens is no member, and what members see stands.
LEMMA StillShown ==
  ASSUME SInv, UNCHANGED <<seats, members, version, view>>
  PROVE  ViewOK' /\ MembersSeeTable'
BY DEF SInv, ViewOK, MembersSeeTable, StateMsg, BoardOf

LEMMA ViewStep == ASSUME SInv, IInv', [SessionNext]_allVars PROVE ViewOK' /\ MembersSeeTable'
<1>1. CASE UNCHANGED allVars
  BY <1>1, StillShown DEF allVars, chessVars, hostVars, vars
<1>2. ASSUME NEW p \in Players, NEW c \in Conns, Dial(p, c)
      PROVE  ViewOK' /\ MembersSeeTable'
  BY <1>2, StillShown DEF Dial, Open, Connect
<1>3. ASSUME NEW p \in Players, Hear(p) \/ DropSocket(p) \/ Reload(p)
      PROVE  ViewOK' /\ MembersSeeTable'
  BY <1>3, StillShown DEF Hear, DropSocket, Reload, chessVars, hostVars, vars
<1>4. ASSUME NEW p \in Players, NEW legal \in BOOLEAN, Play(p, legal)
      PROVE  ViewOK' /\ MembersSeeTable'
  BY <1>4, AdvanceShown DEF Play, Propose
<1>5. ASSUME NEW c \in Conns, ServeJoin(c)
      PROVE  ViewOK' /\ MembersSeeTable'
  BY <1>5, JoinShown, StillShown DEF ServeJoin, chessVars, hostVars, vars
<1>6. ASSUME NEW c \in Conns, Notice(c)
      PROVE  ViewOK' /\ MembersSeeTable'
  BY <1>6, LeaveShown DEF Notice
<1>7. ASSUME NEW s \in Seats, AdminFree(s)
      PROVE  ViewOK' /\ MembersSeeTable'
  BY <1>7, FreeShown DEF AdminFree
<1>8. CASE NewGame
  BY <1>8, AdvanceShown DEF NewGame, Reset
<1>9. CASE Home
  BY <1>9 DEF Home, Stop, StopEngine, SInv, ViewOK, MembersSeeTable
<1>10. CASE Launch
  <2>1. ViewOK'
    BY <1>10 DEF Launch, Start, NewPosition, SInv, ViewOK
  <2>2. members' = {}
    BY <1>10 DEF Launch, Start, StartEngine, SInv, Idle, vars
  <2> QED BY <2>1, <2>2 DEF MembersSeeTable
<1> QED BY <1>1, <1>2, <1>3, <1>4, <1>5, <1>6, <1>7, <1>8, <1>9, <1>10 DEF SessionNext

LEMMA SessionStep == SInv /\ [SessionNext]_allVars => SInv'
<1> SUFFICES ASSUME SInv, [SessionNext]_allVars PROVE SInv'
  OBVIOUS
<1>1. [HostNext]_hostVars
  BY SessionHostStep
<1>2. IInv'
  BY <1>1, HostIInv DEF SInv
<1>3. Idle'
  BY <1>1, IdleStep DEF SInv
<1> QED BY <1>2, <1>3, PagesStep, TurnStep, ViewStep DEF SInv

\* Every member was last sent the position and the seats as they are, in every
\* order of joins, drops, frees, moves, new games and restarts.
THEOREM SessionMembersSeeTable == SessionSpec => []MembersSeeTable
<1>1. SInv => MembersSeeTable
  BY DEF SInv
<1> QED BY <1>1, SessionInitInv, SessionStep, PTL DEF SessionSpec

\* The session runs on the host: what is proved of every room holds in it.
THEOREM SessionImplementsHost == SessionSpec => HostInit /\ [][HostNext]_hostVars
<1>1. SessionInit => HostInit
  BY DEF SessionInit, ChessInit
<1> QED BY <1>1, SessionInitInv, SessionStep, SessionHostStep, PTL DEF SessionSpec

\* A position comes only from a seated player, for its own side or an open one.
THEOREM SessionMoverHasTurn == SessionSpec => MoverHasTurn
<1> DEFINE Fair == /\ \E s \in Seats : seats[s].conn = mover'
                   /\ seats[turn].conn = mover' \/ seats[turn] = Vacant
<1>1. SInv /\ [SessionNext]_allVars =>
        [version' # version /\ mover' # NoConn => Fair]_chessVars
  <2> SUFFICES ASSUME SInv, SessionNext, version' # version, mover' # NoConn
               PROVE  Fair
    BY DEF allVars, chessVars
  <2>1. ~ \/ \E p \in Players : \/ \E c \in Conns : Dial(p, c)
                               \/ Hear(p) \/ DropSocket(p) \/ Reload(p)
          \/ \E c \in Conns : ServeJoin(c) \/ Notice(c)
          \/ \E s \in Seats : AdminFree(s)
    BY DEF Dial, Open, Hear, DropSocket, Reload, ServeJoin, Join, Notice, Leave,
       AdminFree, Free, chessVars
  <2>2. ~ (NewGame \/ Home \/ Launch)
    BY DEF NewGame, Reset, Advance, Home, Stop, Launch, Start, NewPosition
  <2>3. PICK p \in Players, legal \in BOOLEAN : Play(p, legal)
    BY <2>1, <2>2 DEF SessionNext
  <2> DEFINE c == sock[p]
  <2>4. mover' = c /\ c \in Conns /\ Rejection(c, legal) = "none"
    BY <2>3 DEF Play, Propose, Advance, NewPosition, SInv, IInv, TypeOK
  <2>5. UNCHANGED seats /\ turn \in Seats /\ seats \in [Seats -> Seat]
    BY <2>3 DEF Play, Propose, Advance, hostVars, vars, SInv, TurnOK, IInv, TypeOK
  <2>6. \E s \in Seats : seats[s].conn = c
    <3>1. SeatIn(seats, c) # NoSeat
      BY <2>4 DEF Rejection, SeatOf
    <3> QED BY <2>4, <3>1, SeatInRoles DEF SInv, IInv, SeatedOnce
  <2>7. seats[turn].conn \in {NoConn, c} /\ StatusOf(seats[turn]) # "disconnected"
    BY <2>4 DEF Rejection
  <2>8. seats[turn].conn = c \/ seats[turn] = Vacant
    BY <2>5, <2>7 DEF StatusOf, Seat, Vacant
  <2>9. c = mover' /\ seats' = seats
    BY <2>4, <2>5
  <2> HIDE DEF c
  <2> QED BY <2>6, <2>8, <2>9
<1> QED BY <1>1, SessionInitInv, SessionStep, PTL DEF SessionSpec, MoverHasTurn

\* A held seat is only ever taken over by a join that names it.
THEOREM SessionHeldTakenByName == SessionSpec => HeldTakenByName
<1> DEFINE ByName(s) == seats[s].held /\ seats'[s].conn # NoConn =>
                          asked[seats'[s].conn] = s
<1>1. SInv /\ [SessionNext]_allVars => [\A s \in Seats : ByName(s)]_allVars
  <2> SUFFICES ASSUME SInv, SessionNext, NEW s \in Seats,
                      seats[s].held, seats'[s].conn # NoConn
               PROVE  asked[seats'[s].conn] = s
    OBVIOUS
  <2>1. seats \in [Seats -> Seat] /\ seats[s].conn = NoConn
    BY DEF SInv, IInv, TypeOK, SeatsLive
  <2>2. \E c \in Conns : ServeJoin(c)
    <3>1. ASSUME NEW c \in Conns, Notice(c) PROVE FALSE
      BY <2>1, <3>1 DEF Notice, Leave, OnClose, Dropped
    <3>2. ASSUME NEW t \in Seats, AdminFree(t) PROVE FALSE
      BY <2>1, <3>2 DEF AdminFree, Free, Routed, FreeSeat, Vacant
    <3>3. CASE Home
      BY <3>3 DEF Home, Stop, StopEngine, Vacant
    <3>4. ~ UNCHANGED seats
      BY <2>1
    <3>5. ~ (NewGame \/ Launch)
      BY <3>4 DEF NewGame, Reset, Advance, Launch, Start, StartEngine, hostVars, vars
    <3>6. ASSUME NEW p \in Players,
                 \/ \E c \in Conns : Dial(p, c)
                 \/ Hear(p) \/ DropSocket(p) \/ Reload(p)
                 \/ \E legal \in BOOLEAN : Play(p, legal)
          PROVE  FALSE
      BY <3>4, <3>6
      DEF Dial, Open, Connect, Hear, DropSocket, Reload, Play, Propose, Advance,
          chessVars, hostVars, vars
    <3> QED BY <3>1, <3>2, <3>3, <3>5, <3>6 DEF SessionNext
  <2>3. PICK c \in Conns : ServeJoin(c)
    BY <2>2
  <2>4. PICK t \in Won(asked[c]) : seats' = [seats EXCEPT ![t] = Taken(@, c)]
    BY <2>1, <2>3
    DEF ServeJoin, Join, Routed, HandleJoin, Reconfirm, Take, Spectate, chessVars,
        hostVars, vars
  <2>5. t = s /\ seats'[s].conn = c
    BY <2>1, <2>4 DEF Taken
  <2>6. asked[c] = s
    BY <2>4, <2>5 DEF Won, FirstOpen, Takeable
  <2> QED BY <2>5, <2>6
<1> QED BY <1>1, SessionInitInv, SessionStep, PTL DEF SessionSpec, HeldTakenByName

=============================================================================
