------------------------------- MODULE Filter -------------------------------
(***************************************************************************)
(* The live filter: FilterEngine (host/src/engines/filter/                 *)
(* filter_engine.cpp) and its pages (client/filter/filter.js).  A page     *)
(* streams numbered camera frames, the host keeps only the newest of each  *)
(* feed, filters it on a tick and sends it back, and the page decodes the  *)
(* replies asynchronously and paints them.  The operator edits the         *)
(* pipeline meanwhile, sockets break and redial, and the engine may be     *)
(* started anew under its pages.                                           *)
(*                                                                         *)
(* A frame is its page, its number and whether it decodes; a configuration *)
(* is a pipeline and a quality.                                            *)
(***************************************************************************)
EXTENDS Naturals, Sequences, SequencesExt

CONSTANTS Pages, Conns, NoConn,
          Pipelines, Default,  \* what the presets and the editor produce
          Qualities, Quality,  \* of the encoder, and its initial value
          MaxSeq,              \* MaxSeq[p]: bound on the frames of page p
          MaxChanges           \* bound on the edits, resets, presets asked for
                               \* and engines started

ASSUME FilterAssumption ==
  /\ NoConn \notin Conns /\ Default \in Pipelines /\ Quality \in Qualities
  /\ MaxSeq \in [Pages -> Nat] /\ MaxChanges \in Nat

VARIABLES
  page,     \* the state of filter.js
  up,       \* up[c]: on its way to the host, of connection c
  down,     \* down[c]: on its way to the page
  broken,   \* connections whose socket broke, unnoticed by the host
  gone,     \* connections the host has dropped
  members,  \* of the room
  feeds,    \* feeds_: a function on connections
  config,   \* pipeline_ and quality_
  engines,  \* engines started so far
  changes

host == <<members, feeds, config, engines>>
vars == <<page, up, down, broken, gone, host, changes>>

NewPage == [sock |-> NoConn, seq |-> 0, config |-> [pipeline |-> Default, quality |-> Quality],
            shown |-> 0, decoding |-> {},
            canvas |-> [page |-> NoConn, seq |-> 0, blank |-> TRUE]]

\* Feed; unread is no field of it: the frames that were dropped uncounted.
Nothing == [seq |-> 0]
NewFeed == [pending |-> Nothing, in |-> 0, out |-> 0, dropped |-> 0, unread |-> 0]

Init == /\ page = [p \in Pages |-> NewPage]
        /\ up = [c \in Conns |-> <<>>] /\ down = [c \in Conns |-> <<>>]
        /\ broken = {} /\ gone = {}
        /\ members = {} /\ feeds = [c \in {} |-> NewFeed]
        /\ config = [pipeline |-> Default, quality |-> Quality]
        /\ engines = 1 /\ changes = 0

Used == {c \in Conns : c \in gone \cup broken \/ \E p \in Pages : page[p].sock = c}

ConfigMsg(k) == [type |-> "filterConfig", config |-> k]
Reply(f)     == [type |-> "reply", frame |-> f]

-----------------------------------------------------------------------------
(* The page.                                                               *)

Dial(p) == /\ page[p].sock = NoConn
           /\ Conns # Used
           /\ LET c == CHOOSE c \in Conns \ Used : TRUE   \* nextId_
              IN /\ page' = [page EXCEPT ![p].sock = c]
                 /\ up' = [up EXCEPT ![c] = <<[type |-> "join"]>>]
           /\ UNCHANGED <<down, broken, gone, host, changes>>

\* A captured frame is encoded and sent.  One whose socket closes meanwhile
\* only uses up a number, as one that is lost with its socket does.
SendFrame(p, good) ==
  LET c == page[p].sock
      n == page[p].seq + 1
  IN /\ c # NoConn /\ n <= MaxSeq[p]
     /\ page' = [page EXCEPT ![p].seq = n]
     /\ up' = [up EXCEPT ![c] = Append(@, [type |-> "frame", page |-> p, seq |-> n, good |-> good])]
     /\ UNCHANGED <<down, broken, gone, host, changes>>

AskPreset(p, pipeline) ==
  /\ page[p].sock # NoConn /\ changes < MaxChanges /\ changes' = changes + 1
  /\ up' = [up EXCEPT ![page[p].sock] = Append(@, [type |-> "requestPreset", preset |-> pipeline])]
  /\ UNCHANGED <<page, down, broken, gone, host>>

Break(p) == /\ page[p].sock # NoConn
            /\ broken' = broken \cup {page[p].sock}
            /\ down' = [down EXCEPT ![page[p].sock] = <<>>]
            /\ page' = [page EXCEPT ![p].sock = NoConn]
            /\ UNCHANGED <<up, gone, host, changes>>

\* onText, onBinary: a configuration sizes the canvas, which clears it; a reply no
\* newer than one accepted before is stale.
Hear(p) ==
  LET c == page[p].sock
      m == Head(down[c])
  IN /\ c # NoConn /\ down[c] # <<>>
     /\ down' = [down EXCEPT ![c] = Tail(@)]
     /\ page' = IF m.type = "filterConfig"
                THEN [page EXCEPT ![p].config = m.config, ![p].canvas.blank = TRUE]
                ELSE IF m.frame.seq <= page[p].shown THEN page
                ELSE [page EXCEPT ![p].shown = m.frame.seq, ![p].decoding = @ \cup {m.frame}]
     /\ UNCHANGED <<up, broken, gone, host, changes>>

\* A decoded reply is painted unless a newer one was, in the meantime.
\* (Faulty variant: decoded replies are painted as they come.)
PaintableAny(p, f) == TRUE
Paintable(p, f)    == f.seq > page[p].canvas.seq

Decoded(p, f) ==
  /\ f \in page[p].decoding
  /\ page' = [page EXCEPT ![p].decoding = @ \ {f},
                          ![p].canvas = IF Paintable(p, f)
                                        THEN [page |-> f.page, seq |-> f.seq, blank |-> FALSE]
                                        ELSE @]
  /\ UNCHANGED <<up, down, broken, gone, host, changes>>

-----------------------------------------------------------------------------
(* The host.                                                               *)

Live == Used \ (gone \cup broken)

\* Frames to the connections in cs; what a broken one is sent is never heard.
\* Broadcast goes to every connection, joined or not.
Told(cs, m) == [c \in Conns |-> IF c \in cs \cap Live THEN Append(down[c], m) ELSE down[c]]

\* pushConfig.
Pushed(k) == Told(Conns, ConfigMsg(k))

With(c, f) == [d \in DOMAIN feeds \cup {c} |-> IF d = c THEN f ELSE feeds[d]]
FeedOf(c)  == IF c \in DOMAIN feeds THEN feeds[c] ELSE NewFeed
Without(c) == [d \in DOMAIN feeds \ {c} |-> feeds[d]]

\* (Faulty variant: a joiner waits for the next change.)
GreetedNot(c) == down
Greeted(c)    == Told({c}, ConfigMsg(config))

OnJoin(c) == /\ members' = members \cup {c}
             /\ feeds' = With(c, FeedOf(c))
             /\ down' = Greeted(c)
             /\ UNCHANGED <<config, engines>>

OnMessage(m) == /\ config' = [config EXCEPT !.pipeline = m.preset]
                /\ down' = Pushed(config')
                /\ UNCHANGED <<members, feeds, engines>>

\* Drop to latest, for any connection that sends: a feed needs no join.
\* (Faulty variants: the older frame is kept; the dropped one is not counted.)
LatestOldest(f, m) == IF f.pending = Nothing THEN m ELSE f.pending
Latest(f, m)       == m
DroppedUncounted(f) == f.dropped
Dropped(f)          == IF f.pending = Nothing THEN f.dropped ELSE f.dropped + 1

OnBinary(c, m) == LET f == FeedOf(c)
                  IN /\ feeds' = With(c, [f EXCEPT !.pending = Latest(f, m), !.in = @ + 1,
                                                   !.dropped = Dropped(f)])
                     /\ UNCHANGED <<members, config, engines, down>>

Serve(c) == /\ up[c] # <<>> /\ c \notin gone
            /\ up' = [up EXCEPT ![c] = Tail(@)]
            /\ LET m == Head(up[c])
               IN CASE m.type = "join"          -> OnJoin(c)
                    [] m.type = "requestPreset" -> OnMessage(m)
                    [] m.type = "frame"         -> OnBinary(c, m)
            /\ UNCHANGED <<page, broken, gone, changes>>

Remaining(c) == members \ {c}

\* The host drops a broken connection; onLeave is for members only.
Notice(c) == /\ c \in broken
             /\ broken' = broken \ {c} /\ gone' = gone \cup {c}
             /\ up' = [up EXCEPT ![c] = <<>>]
             /\ members' = Remaining(c)
             /\ feeds' = IF c \in members THEN Without(c) ELSE feeds
             /\ UNCHANGED <<page, down, config, engines, changes>>

\* onTick: one frame of each feed that has one; what does not decode is let go
\* without a word.
Waiting == {c \in DOMAIN feeds : feeds[c].pending # Nothing}

Processed(f) == IF f.pending.good
                THEN [f EXCEPT !.pending = Nothing, !.out = @ + 1]
                ELSE [f EXCEPT !.pending = Nothing, !.unread = @ + 1]

\* (Faulty variant: replies go to every feed.)
AnsweredAll(c) == FoldLeft(LAMBDA s, d : Append(s, Reply(feeds[d].pending)), down[c],
                           SetToSeq({d \in Waiting : feeds[d].pending.good}))
Answered(c)    == IF c \in Waiting \cap Live /\ feeds[c].pending.good
                  THEN Append(down[c], Reply(feeds[c].pending)) ELSE down[c]

Tick == /\ Waiting # {}
        /\ feeds' = [c \in DOMAIN feeds |-> IF c \in Waiting THEN Processed(feeds[c]) ELSE feeds[c]]
        /\ down' = [c \in Conns |-> IF c \in Live THEN Answered(c) ELSE down[c]]
        /\ UNCHANGED <<page, up, broken, gone, members, config, engines, changes>>

\* drawAdmin: the operator edits the pipeline or the quality, or presses a
\* preset again.
Edit(k) == /\ changes < MaxChanges /\ changes' = changes + 1
           /\ config' = k
           /\ down' = Pushed(k)
           /\ UNCHANGED <<page, up, broken, gone, members, feeds, engines>>

\* reset: the pipeline, not the quality.
Reset == Edit([config EXCEPT !.pipeline = Default])

\* Host stops the engine and starts another: its pages hear an announcement,
\* which they ignore, and go on streaming.
Relaunch == /\ changes < MaxChanges /\ changes' = changes + 1
            /\ engines' = engines + 1
            /\ members' = {} /\ feeds' = [c \in {} |-> NewFeed]
            /\ config' = [pipeline |-> Default, quality |-> Quality]
            /\ UNCHANGED <<page, up, down, broken, gone>>

Next == \/ \E p \in Pages :
             \/ Dial(p) \/ Break(p) \/ Hear(p)
             \/ \E good \in BOOLEAN : SendFrame(p, good)
             \/ \E k \in Pipelines : AskPreset(p, k)
             \/ \E f \in page[p].decoding : Decoded(p, f)
        \/ \E c \in Conns : Serve(c) \/ Notice(c)
        \/ Tick \/ Reset \/ Relaunch
        \/ \E k \in Pipelines, q \in Qualities : Edit([pipeline |-> k, quality |-> q])

\* The loop polls and ticks forever, pages hear what they are sent, and what a
\* page decodes it finishes decoding.
Fairness == /\ WF_vars(Tick)
            /\ \A c \in Conns : WF_vars(Serve(c))
            /\ \A p \in Pages : /\ WF_vars(Hear(p))
                                /\ WF_vars(\E f \in page[p].decoding : Decoded(p, f))

Spec == Init /\ [][Next]_vars /\ Fairness

-----------------------------------------------------------------------------
(* Properties.                                                             *)

\* A page gets back its own frames and nobody else's, over whichever of its
\* sockets: private to its feed, never broadcast (filter_engine.cpp:267).
RepliesPrivate ==
  \A p \in Pages :
    /\ \A f \in page[p].decoding : f.page = p
    /\ page[p].sock # NoConn =>
         \A i \in 1 .. Len(down[page[p].sock]) :
           LET m == down[page[p].sock][i] IN m.type = "reply" => m.frame.page = p

\* The picture never goes back in time, however the decoders race
\* (filter.js:97), nor after a configuration has cleared it.
PaintsForward ==
  [][\A p \in Pages : LET old == page[p].canvas
                           new == page'[p].canvas
                       IN new # old => IF new.blank THEN new = [old EXCEPT !.blank = TRUE]
                                       ELSE new.seq > old.seq]_vars

\* The console's figures add up: a frame that came in went out, was dropped
\* for a newer one, waits, or could not be read (filter_engine.hpp Feed).
FramesAccounted ==
  \A c \in DOMAIN feeds :
    LET f == feeds[c]
    IN f.in = f.out + f.dropped + f.unread + (IF f.pending = Nothing THEN 0 ELSE 1)

\* A page that joined and has heard all it was sent captures and labels its
\* stream by the host's configuration (filter_engine.cpp:178).
ConfigCurrent ==
  \A p \in Pages : LET c == page[p].sock
                   IN c \in members /\ down[c] = <<>> => page[p].config = config

\* Dropping frames never drops the last: once the operator has let go, a
\* page's newest readable frame is painted in the end, unless its socket breaks
\* (filter_engine.cpp:211).
Sent(p, n) == LET c == page[p].sock
              IN c # NoConn /\ \E i \in 1 .. Len(up[c]) :
                   up[c][i].type = "frame" /\ up[c][i].seq = n /\ up[c][i].good
NewestPainted ==
  \A p \in Pages : \A n \in 1 .. MaxSeq[p] :
    Sent(p, n) /\ changes = MaxChanges
      ~> \/ page[p].canvas.seq >= n /\ ~page[p].canvas.blank
         \/ page[p].seq > n \/ page[p].sock = NoConn

=============================================================================
