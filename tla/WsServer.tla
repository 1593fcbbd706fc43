------------------------------ MODULE WsServer ------------------------------
(***************************************************************************)
(* host/src/ws_server.cpp: the poll loop of the WebSocket server against   *)
(* the kernel and the peers at the other end.  poll takes a snapshot of    *)
(* what is ready and serves it connection by connection, frame by frame;   *)
(* peers go on sending, closing and resetting meanwhile, and callbacks     *)
(* send.                                                                   *)
(*                                                                         *)
(* A frame is whole: the part of one that has arrived waits for the rest   *)
(* and changes nothing.  An upgrade or a plain GET is a frame too.         *)
(***************************************************************************)
EXTENDS Integers, Sequences, FiniteSetsExt

CONSTANTS Conns,      \* connection ids: nextId_ never returns one twice
          NoConn,
          MaxFrames,  \* MaxFrames[c]: bound on the frames of peer c
          MaxTalk,    \* bound on those of all peers, and what the host sends
          MaxSends,   \* bound on what the host sends of its own
          MaxBreaks,  \* bound on the peers that break off
          Window      \* frames the kernel takes before the peer reads

ASSUME WsAssumption == /\ NoConn \notin Conns
                       /\ MaxFrames \in [Conns -> Nat] /\ MaxTalk \in Nat
                       /\ MaxSends \in Nat /\ MaxBreaks \in Nat /\ Window \in Nat \ {0}

VARIABLES
  peer,     \* "absent", "up", "fin" once it has shut its side, "reset"
  talk,     \* talk[c]: frames sent, those of the message it is at, whether Close was
  rude,     \* peers that broke off, or broke the protocol
  net,      \* frames on their way to the host
  window,   \* frames on their way to the peer
  live,     \* ids in conns_
  dropped,  \* ids that were in conns_
  conn,     \* conns_
  polling, todo,  \* in poll; the rest of the snapshot
  parsing,  \* the connection parseFrames is at
  opened, gone,  \* connections onOpen, and onClose, was called for
  said, heard,  \* what a peer said, and what onMessage was called with
  sends

peers == <<peer, talk, rude, said>>
loop  == <<polling, todo, parsing>>
calls == <<opened, gone, heard>>
conns == <<live, dropped, conn>>
vars  == <<peers, net, window, conns, loop, calls, sends>>

NewConn == [hand |-> FALSE, inbuf |-> <<>>, out |-> <<>>, frag |-> <<>>, closing |-> FALSE]
Fresh   == [n |-> 0, part |-> <<>>, bye |-> FALSE]

Init == /\ peer = [c \in Conns |-> "absent"] /\ talk = [c \in Conns |-> Fresh]
        /\ rude = {}
        /\ net = [c \in Conns |-> <<>>] /\ window = [c \in Conns |-> <<>>]
        /\ live = {} /\ dropped = {} /\ conn = [c \in Conns |-> NewConn]
        /\ polling = FALSE /\ todo = {} /\ parsing = NoConn
        /\ opened = {} /\ gone = {}
        /\ said = [c \in Conns |-> <<>>] /\ heard = [c \in Conns |-> <<>>]
        /\ sends = 0

-----------------------------------------------------------------------------
(* The peers and the kernel.                                               *)

Dial(c) == /\ peer[c] = "absent"
           /\ peer' = [peer EXCEPT ![c] = "up"]
           /\ UNCHANGED <<talk, rude, said, net, window, conns, loop, calls, sends>>

\* A request first; then frames, a message in fragments not mixed with another:
\* "part" begins it, "more" goes on with it, "cont" ends it.  "bad" is an unmasked
\* or oversized frame.
Offers(c) == IF talk[c].n = 0 THEN {"hello", "get"}
             ELSE {"ping", "close", "bad"}
                    \cup (IF talk[c].part = <<>> THEN {"text", "part"} ELSE {"more", "cont"})

Talked == MapThenSumSet(LAMBDA c : talk[c].n, Conns) + sends

\* What is open once f was sent, or parsed, with some fragments open.
After(part, f) == IF f.op = "part" THEN <<f.n>>
                  ELSE IF f.op = "more" THEN Append(part, f.n)
                  ELSE IF f.op \in {"text", "cont"} THEN <<>> ELSE part

Put(c, op) ==
  LET n == talk[c].n + 1
      f == [op |-> op, n |-> n]
  IN /\ peer[c] = "up" /\ ~talk[c].bye /\ n <= MaxFrames[c]
     /\ Talked < MaxTalk /\ op \in Offers(c)
     /\ net' = [net EXCEPT ![c] = Append(@, f)]
     /\ talk' = [talk EXCEPT ![c] = [n |-> n, bye |-> op \in {"close", "get"},
                                     part |-> After(talk[c].part, f)]]
     /\ said' = IF op \in {"text", "cont"}
                THEN [said EXCEPT ![c] = Append(@, Append(talk[c].part, n))] ELSE said
     /\ rude' = IF op = "bad" THEN rude \cup {c} ELSE rude
     /\ UNCHANGED <<peer, window, conns, loop, calls, sends>>

Read(c) == /\ peer[c] \in {"up", "fin"} /\ window[c] # <<>>
           /\ window' = [window EXCEPT ![c] = Tail(@)]
           /\ UNCHANGED <<peers, net, conns, loop, calls, sends>>

\* The peer shuts its side, rudely unless the host has dropped it, or resets.
BreakOff(c, how) ==
  /\ Cardinality({d \in Conns \ {c} : peer[d] \in {"fin", "reset"}}) < MaxBreaks
  /\ peer[c] = "up" \/ (peer[c] = "fin" /\ how = "reset")
  /\ peer' = [peer EXCEPT ![c] = how]
  /\ rude' = IF c \in dropped THEN rude ELSE rude \cup {c}
  /\ UNCHANGED <<talk, said, net, window, conns, loop, calls, sends>>

-----------------------------------------------------------------------------
(* Writing.                                                                *)

\* flush: as much of what is queued as the kernel takes.
Taken(c, out) == LET room == Window - Len(window[c])
                 IN IF peer[c] = "reset" THEN 0
                    ELSE IF Len(out) < room THEN Len(out) ELSE room

\* Connection c becomes k, with some frames more queued and flushed.
Queue(c, k, frames) ==
  LET out == k.out \o frames
  IN /\ window' = [window EXCEPT ![c] = @ \o SubSeq(out, 1, Taken(c, out))]
     /\ conn' = [conn EXCEPT ![c] = [k EXCEPT !.out = SubSeq(out, Taken(c, out) + 1, Len(out))]]

\* drop: onClose is for connections past their handshake.
Closed(cs) == {c \in cs : conn[c].hand}

Drop(cs) == /\ live' = live \ cs /\ dropped' = dropped \cup cs
            /\ gone' = gone \cup Closed(cs)
            /\ conn' = [c \in Conns |-> IF c \in cs THEN NewConn ELSE conn[c]]
            /\ UNCHANGED <<opened, heard>>

\* send, from a callback or a tick: to a connection past its handshake.
Send(c) == /\ sends < MaxSends /\ Talked < MaxTalk /\ sends' = sends + 1
           /\ c \in live /\ conn[c].hand
           /\ Queue(c, conn[c], <<"msg">>)
           /\ UNCHANGED <<peers, net, live, dropped, loop, calls>>

Broadcast ==
  LET to == {c \in live : conn[c].hand /\ ~conn[c].closing}
      out(c) == Append(conn[c].out, "msg")
      k(c) == Taken(c, out(c))
  IN /\ sends < MaxSends /\ Talked < MaxTalk /\ sends' = sends + 1
     /\ window' = [c \in Conns |-> IF c \in to THEN window[c] \o SubSeq(out(c), 1, k(c))
                                   ELSE window[c]]
     /\ conn' = [c \in Conns |-> IF c \in to
                   THEN [conn[c] EXCEPT !.out = SubSeq(out(c), k(c) + 1, Len(out(c)))]
                   ELSE conn[c]]
     /\ UNCHANGED <<peers, net, live, dropped, loop, calls>>

-----------------------------------------------------------------------------
(* poll.                                                                   *)

\* (Faulty variant: POLLOUT is not asked for.)
EventsIn(c) == [id |-> c, err |-> peer[c] = "reset", out |-> FALSE,
                in |-> net[c] # <<>> \/ peer[c] = "fin", half |-> FALSE]
Events(c)   == [id |-> c, err |-> peer[c] = "reset",
                out |-> conn[c].out # <<>> /\ Len(window[c]) < Window,
                in |-> net[c] # <<>> \/ peer[c] = "fin", half |-> FALSE]
Ready   == {e \in {Events(c) : c \in live} : e.err \/ e.out \/ e.in}
Waiting == {c \in Conns : peer[c] # "absent"} \ (live \cup dropped)

\* The snapshot; acceptNew takes whoever waits.
Poll == /\ ~polling
        /\ Ready # {} \/ Waiting # {}
        /\ polling' = TRUE /\ todo' = Ready
        /\ live' = live \cup Waiting
        /\ UNCHANGED <<peers, net, window, dropped, conn, parsing, calls, sends>>

\* onReadable.  At the end of the stream the connection is dropped, with
\* whatever was read ahead of it.  (Faulty variant: the end is not seen.)
AtEndNever(c) == FALSE
AtEnd(c)      == peer[c] = "fin"

\* tryHandshake.  (Faulty variant: it drops what was read with the request.)
AfterRequestNone(inbuf) == <<>>
AfterRequest(inbuf)     == Tail(inbuf)

Handshake(c, inbuf) ==
  LET k == [conn[c] EXCEPT !.inbuf = AfterRequest(inbuf)]
  IN IF Head(inbuf).op = "hello"
     THEN /\ Queue(c, [k EXCEPT !.hand = TRUE], <<"101">>)
          /\ opened' = opened \cup {c}
          /\ parsing' = c
     ELSE /\ Queue(c, [k EXCEPT !.closing = TRUE], <<"http">>)
          /\ UNCHANGED <<opened, parsing>>

Receive(c) ==
  /\ net' = [net EXCEPT ![c] = <<>>]
  /\ IF AtEnd(c) THEN Drop({c}) /\ UNCHANGED <<window, parsing>>
     ELSE /\ UNCHANGED <<live, dropped, gone, heard>>
          /\ IF conn[c].hand
             THEN /\ conn' = [conn EXCEPT ![c].inbuf = @ \o net[c]]
                  /\ parsing' = c
                  /\ UNCHANGED <<window, opened>>
             ELSE IF net[c] = <<>>
             THEN UNCHANGED <<conn, window, opened, parsing>>
             ELSE Handshake(c, conn[c].inbuf \o net[c])

\* The next of the snapshot.  What is both writable and readable is flushed,
\* and read next.
Visit(e) ==
  /\ polling /\ parsing = NoConn
  /\ \A d \in todo : d.half => d = e
  /\ todo' = (todo \ {e}) \cup (IF ~e.err /\ e.out /\ e.in
                                THEN {[e EXCEPT !.out = FALSE, !.half = TRUE]} ELSE {})
  /\ IF e.err THEN Drop({e.id}) /\ UNCHANGED <<net, window, parsing>>
     ELSE IF e.out THEN /\ Queue(e.id, conn[e.id], <<>>)
                        /\ UNCHANGED <<net, live, dropped, calls, parsing>>
     ELSE Receive(e.id)
  /\ UNCHANGED <<peers, polling, sends>>

\* parseFrames, one frame.  (Faulty variant: a continuation replaces what
\* came before it.)
JoinedLast(frag, n) == <<n>>
Joined(frag, n)     == Append(frag, n)

Hand(c, k, m) == /\ conn' = [conn EXCEPT ![c] = [k EXCEPT !.frag = <<>>]]
                 /\ heard' = [heard EXCEPT ![c] = Append(@, m)]
                 /\ UNCHANGED <<window, live, dropped, opened, gone>>

Hold(c, k, frag) == /\ conn' = [conn EXCEPT ![c] = [k EXCEPT !.frag = frag]]
                    /\ UNCHANGED <<window, live, dropped, calls>>

Answer(c, k, frame) == Queue(c, k, <<frame>>) /\ UNCHANGED <<live, dropped, calls>>

Parse ==
  LET c == parsing
      f == Head(conn[c].inbuf)
      k == [conn[c] EXCEPT !.inbuf = Tail(@)]
  IN /\ parsing # NoConn
     /\ UNCHANGED <<peers, net, polling, todo, sends>>
     /\ IF conn[c].inbuf = <<>>
        THEN parsing' = NoConn /\ UNCHANGED <<window, conns, calls>>
        ELSE /\ parsing' = IF f.op \in {"close", "bad"} THEN NoConn ELSE c
             /\ CASE f.op = "close" -> Answer(c, [k EXCEPT !.closing = TRUE], "close")
                  [] f.op = "bad"   -> Drop({c}) /\ UNCHANGED window
                  [] f.op = "ping"  -> Answer(c, k, "pong")
                  [] f.op = "text"  -> Hand(c, k, <<f.n>>)
                  [] f.op = "cont"  -> Hand(c, k, Joined(k.frag, f.n))
                  [] f.op = "part"  -> Hold(c, k, <<f.n>>)
                  [] f.op = "more"  -> Hold(c, k, Joined(k.frag, f.n))

\* The snapshot is served: closing connections with nothing left are reaped.
Reap == /\ polling /\ todo = {} /\ parsing = NoConn
        /\ polling' = FALSE
        /\ Drop({c \in live : conn[c].closing /\ conn[c].out = <<>>})
        /\ UNCHANGED <<peers, net, window, todo, parsing, sends>>

Loop == Poll \/ Parse \/ Reap \/ \E e \in todo : Visit(e)

Next == \/ \E c \in Conns : \/ Dial(c) \/ Read(c) \/ Send(c)
                            \/ \E op \in {"hello", "get"} \cup Offers(c) : Put(c, op)
                            \/ \E how \in {"fin", "reset"} : BreakOff(c, how)
        \/ Broadcast \/ Loop

\* The host's one thread goes on as long as it has something to do; peers read.
Fairness == WF_vars(Loop) /\ \A c \in Conns : WF_vars(Read(c))

Spec == Init /\ [][Next]_vars /\ Fairness

-----------------------------------------------------------------------------
(* Properties.                                                             *)

\* The server is the transport the host relies on: opened once, closed once,
\* messages whole, in order and only in between (ws_server.hpp:24).
Life(c) == IF c \in gone THEN "gone" ELSE IF c \in opened THEN "open" ELSE "new"
Numbers == UNION {2 .. MaxFrames[c] : c \in Conns}
Bus == INSTANCE Transport WITH life <- [c \in Conns |-> Life(c)],
         Said <- UNION {[1 .. k - 1 -> Numbers] : k \in Numbers}
ImplementsTransport == Bus!Spec

\* A peer that sent Close and waited for the host to hang up was heard out,
\* whatever was read together and however slow it was to read.
PoliteHeard == \A c \in dropped \ rude : talk[c].bye => heard[c] = said[c]

\* A socket that broke off is dropped: the room learns of it.
DeadNoticed == \A c \in Conns : peer[c] \in {"fin", "reset"} ~> c \in dropped

\* A peer that reads and has said Close, or asked for a page, gets all the
\* host had for it (ws_server.cpp:189, 206).
ByeDrained == \A c \in Conns : talk[c].bye ~> \/ c \in dropped
                                              \/ conn[c].closing /\ conn[c].out = <<>>

\* And is let go: "Reap connections whose close handshake has fully drained"
\* (ws_server.cpp:206).
ByeEnds == \A c \in Conns : talk[c].bye ~> c \in dropped

=============================================================================
