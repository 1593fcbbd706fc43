---------------------------- MODULE FilterProofs ----------------------------
(***************************************************************************)
(* Replies are private, the console's figures add up, a page's labels are   *)
(* the host's, and the picture never goes back: for any number of pages,    *)
(* sockets, frames and edits, however the sockets break and the engine is   *)
(* started anew.                                                           *)
(***************************************************************************)
EXTENDS Filter, TLAPS

Frames   == [type : {"frame"}, page : Pages, seq : Nat \ {0}, good : BOOLEAN]
Configs  == [pipeline : Pipelines, quality : Qualities]
Upward   == {[type |-> "join"]} \cup [type : {"requestPreset"}, preset : Pipelines] \cup Frames
Downward == [type : {"filterConfig"}, config : Configs] \cup [type : {"reply"}, frame : Frames]

Canvas == [page : Pages \cup {NoConn}, seq : Nat, blank : BOOLEAN]
Page == [sock : Conns \cup {NoConn}, seq : Nat, config : Configs, shown : Nat,
         decoding : SUBSET Frames, canvas : Canvas]
Feed == [pending : Frames \cup {Nothing}, in : Nat, out : Nat, dropped : Nat, unread : Nat]

TypeOK == /\ page \in [Pages -> Page]
          /\ up \in [Conns -> Seq(Upward)] /\ down \in [Conns -> Seq(Downward)]
          /\ broken \subseteq Conns /\ gone \subseteq Conns /\ members \subseteq Conns
          /\ DOMAIN feeds \subseteq Conns /\ \A c \in DOMAIN feeds : feeds[c] \in Feed
          /\ config \in Configs

\* A page's socket is open, and its own.
Apart == \A p \in Pages : page[p].sock # NoConn =>
           /\ page[p].sock \notin gone \cup broken
           /\ \A q \in Pages : page[q].sock = page[p].sock => q = p

\* Nothing is known of a connection that was never dialled.
Fresh == \A c \in Conns \ Used : /\ up[c] = <<>> /\ down[c] = <<>>
                                 /\ c \notin members /\ c \notin DOMAIN feeds

\* What is under way on a page's socket is that page's.
AllOf(s, p)     == \A i \in 1 .. Len(s) : s[i].type = "frame" => s[i].page = p
RepliesOf(s, p) == \A i \in 1 .. Len(s) : s[i].type = "reply" => s[i].frame.page = p
OwnsMail == \A p \in Pages :
  /\ \A f \in page[p].decoding : f.page = p
  /\ page[p].sock # NoConn =>
       LET c == page[p].sock
       IN /\ AllOf(up[c], p) /\ RepliesOf(down[c], p)
          /\ c \in DOMAIN feeds => feeds[c].pending = Nothing \/ feeds[c].pending.page = p

\* Having heard s, a page that knew k knows t.
Teaches(s, k, t) ==
  \/ k = t /\ \A i \in 1 .. Len(s) : s[i].type = "reply"
  \/ \E i \in 1 .. Len(s) : /\ s[i] = ConfigMsg(t)
                            /\ \A j \in i + 1 .. Len(s) : s[j].type = "reply"
Labelled == \A p \in Pages : LET c == page[p].sock
                             IN c \in members => Teaches(down[c], page[p].config, config)

FInv == TypeOK /\ Apart /\ Fresh /\ OwnsMail /\ Labelled /\ FramesAccounted

-----------------------------------------------------------------------------
(* Lemmas about mail.                                                      *)

LEMMA Heads ==
  ASSUME NEW S, NEW s \in Seq(S), s # <<>>
  PROVE  /\ Head(s) \in S /\ Head(s) = s[1]
         /\ Tail(s) \in Seq(S) /\ Len(Tail(s)) = Len(s) - 1
         /\ \A i \in 1 .. Len(s) - 1 : Tail(s)[i] = s[i + 1]
OBVIOUS

\* A reply teaches nothing new, a configuration everything.
LEMMA TeachReply ==
  ASSUME NEW s \in Seq(Downward), NEW k, NEW t, NEW f \in Frames, Teaches(s, k, t)
  PROVE  Teaches(Append(s, Reply(f)), k, t)
<1> DEFINE r == Append(s, Reply(f))
<1>1. /\ Len(r) = Len(s) + 1 /\ Len(s) \in Nat /\ r[Len(s) + 1] = Reply(f)
      /\ \A i \in 1 .. Len(s) : r[i] = s[i]
  OBVIOUS
<1>2. Reply(f).type = "reply"
  BY DEF Reply
<1> HIDE DEF r
<1> QED BY <1>1, <1>2 DEF Teaches

LEMMA TeachConfig ==
  ASSUME NEW s \in Seq(Downward), NEW k, NEW t
  PROVE  Teaches(Append(s, ConfigMsg(t)), k, t)
<1> DEFINE r == Append(s, ConfigMsg(t))
<1>1. Len(r) = Len(s) + 1 /\ Len(s) \in Nat /\ r[Len(s) + 1] = ConfigMsg(t)
  OBVIOUS
<1> HIDE DEF r
<1> QED BY <1>1 DEF Teaches

LEMMA TeachTail ==
  ASSUME NEW s \in Seq(Downward), s # <<>>, NEW k, NEW t, Teaches(s, k, t)
  PROVE  Teaches(Tail(s), IF Head(s).type = "filterConfig" THEN Head(s).config ELSE k, t)
<1>1. /\ Len(Tail(s)) = Len(s) - 1 /\ Len(s) \in Nat \ {0} /\ Head(s) = s[1]
      /\ \A i \in 1 .. Len(s) - 1 : Tail(s)[i] = s[i + 1]
  BY Heads
<1>2. CASE k = t /\ \A i \in 1 .. Len(s) : s[i].type = "reply"
  BY <1>1, <1>2 DEF Teaches
<1>3. ASSUME NEW i \in 1 .. Len(s), s[i] = ConfigMsg(t),
             \A j \in i + 1 .. Len(s) : s[j].type = "reply"
      PROVE  Teaches(Tail(s), IF Head(s).type = "filterConfig" THEN Head(s).config ELSE k, t)
  <2>1. CASE i = 1
    <3>1. Head(s).type = "filterConfig" /\ Head(s).config = t
      BY <1>1, <1>3, <2>1 DEF ConfigMsg
    <3>2. \A j \in 1 .. Len(Tail(s)) : Tail(s)[j].type = "reply"
      BY <1>1, <1>3, <2>1
    <3> QED BY <3>1, <3>2 DEF Teaches
  <2>2. CASE i > 1
    <3>1. i - 1 \in 1 .. Len(Tail(s)) /\ Tail(s)[i - 1] = ConfigMsg(t)
      BY <1>1, <1>3, <2>2
    <3>2. \A j \in (i - 1) + 1 .. Len(Tail(s)) : Tail(s)[j].type = "reply"
      BY <1>1, <1>3, <2>2
    <3> QED BY <3>1, <3>2 DEF Teaches
  <2> QED BY <2>1, <2>2
<1> QED BY <1>2, <1>3 DEF Teaches

\* Ownership of mail, message by message.
LEMMA OwnAppend ==
  ASSUME NEW S, NEW s \in Seq(S), NEW m \in S, NEW p
  PROVE  /\ AllOf(s, p) /\ (m.type = "frame" => m.page = p) => AllOf(Append(s, m), p)
         /\ RepliesOf(s, p) /\ (m.type = "reply" => m.frame.page = p)
              => RepliesOf(Append(s, m), p)
BY DEF AllOf, RepliesOf

LEMMA OwnTail ==
  ASSUME NEW S, NEW s \in Seq(S), s # <<>>, NEW p
  PROVE  /\ AllOf(s, p) => AllOf(Tail(s), p)
         /\ RepliesOf(s, p) => RepliesOf(Tail(s), p)
BY Heads DEF AllOf, RepliesOf

\* What a change of one page's field leaves alone.
LEMMA PageTypes ==
  ASSUME NEW r \in Page
  PROVE  /\ \A c \in Conns \cup {NoConn} :
              LET t == [r EXCEPT !.sock = c]
              IN t \in Page /\ t.sock = c /\ t.config = r.config /\ t.decoding = r.decoding
         /\ \A n \in Nat :
              LET t == [r EXCEPT !.seq = n]
              IN t \in Page /\ t.sock = r.sock /\ t.config = r.config /\ t.decoding = r.decoding
BY DEF Page

-----------------------------------------------------------------------------
(* What the host sends.                                                    *)

\* A page's socket is live.
LEMMA SockLive ==
  ASSUME TypeOK, Apart, NEW p \in Pages, page[p].sock # NoConn
  PROVE  page[p].sock \in Live /\ page[p].sock \in Conns
BY DEF TypeOK, Apart, Live, Used, Page

LEMMA ToldDown ==
  ASSUME TypeOK, NEW cs, NEW m \in Downward
  PROVE  /\ Told(cs, m) \in [Conns -> Seq(Downward)]
         /\ \A c \in Conns : Told(cs, m)[c] = IF c \in cs \cap Live THEN Append(down[c], m)
                                              ELSE down[c]
BY DEF TypeOK, Told

LEMMA MessageTypes ==
  /\ \A k \in Configs : ConfigMsg(k) \in Downward
  /\ \A f \in Frames : Reply(f) \in Downward
BY DEF ConfigMsg, Reply, Downward

\* What a tick leaves on a connection.
LEMMA AnsweredDown ==
  ASSUME TypeOK, NEW c \in Conns
  PROVE  /\ Answered(c) \in Seq(Downward)
         /\ \/ Answered(c) = down[c]
            \/ /\ c \in DOMAIN feeds /\ feeds[c].pending \in Frames
               /\ Answered(c) = Append(down[c], Reply(feeds[c].pending))
<1>1. CASE c \in Waiting \cap Live /\ feeds[c].pending.good
  <2>1. c \in DOMAIN feeds /\ feeds[c].pending \in Frames
    BY <1>1 DEF Waiting, TypeOK, Feed
  <2> QED BY <1>1, <2>1, MessageTypes DEF Answered, TypeOK
<1>2. CASE ~(c \in Waiting \cap Live /\ feeds[c].pending.good)
  BY <1>2 DEF Answered, TypeOK
<1> QED BY <1>1, <1>2


-----------------------------------------------------------------------------
(* Each action.                                                            *)

LEMMA InitFInv == Init => FInv
<1> SUFFICES ASSUME Init PROVE FInv
  OBVIOUS
<1> USE DEF Init, NewPage
<1>1. TypeOK
  BY FilterAssumption DEF TypeOK, Page, Canvas, Configs
<1>2. Apart /\ Fresh
  BY DEF Apart, Fresh
<1>3. OwnsMail /\ Labelled /\ FramesAccounted
  BY DEF OwnsMail, Labelled, FramesAccounted
<1> QED BY <1>1, <1>2, <1>3 DEF FInv

LEMMA DialStep ==
  ASSUME FInv, NEW p \in Pages, Dial(p)
  PROVE  FInv'
<1> DEFINE c == CHOOSE c \in Conns \ Used : TRUE
<1>0. /\ TypeOK /\ Apart /\ Fresh /\ OwnsMail /\ Labelled /\ FramesAccounted
      /\ page[p].sock = NoConn /\ UNCHANGED <<down, broken, gone, host, changes>>
      /\ page' = [page EXCEPT ![p].sock = c] /\ up' = [up EXCEPT ![c] = <<[type |-> "join"]>>]
  BY DEF FInv, Dial
<1>1. c \in Conns \ Used
  <2>1. Conns \ Used # {}
    BY DEF Dial, Used
  <2> QED BY <2>1
<1>2. /\ c \in Conns /\ c # NoConn /\ c \notin gone \cup broken
      /\ \A q \in Pages : page[q].sock # c
  BY <1>1, FilterAssumption DEF Used
<1>3. /\ page'[p] = [page[p] EXCEPT !.sock = c] /\ page'[p].sock = c
      /\ page'[p].decoding = page[p].decoding /\ page'[p].config = page[p].config
      /\ \A q \in Pages \ {p} : page'[q] = page[q]
  BY <1>0 DEF TypeOK, Page
<1> HIDE DEF c
<1>4. <<[type |-> "join"]>> \in Seq(Upward)
  BY DEF Upward
<1>5. TypeOK'
  <2>1. [page[p] EXCEPT !.sock = c] \in Page
    BY <1>0, <1>2, PageTypes DEF TypeOK
  <2>2. page' \in [Pages -> Page]
    BY <1>0, <2>1 DEF TypeOK
  <2> QED BY <1>0, <1>4, <2>2 DEF TypeOK, host
<1>6. Apart'
  BY <1>0, <1>2, <1>3 DEF Apart
<1>7. Fresh'
  <2>1. Used' = Used \cup {c}
    BY <1>0, <1>2, <1>3, FilterAssumption DEF Used
  <2> QED BY <1>0, <2>1 DEF Fresh, host, TypeOK
<1>8. OwnsMail'
  <2>1. AllOf(<<[type |-> "join"]>>, p)
    BY DEF AllOf
  <2>2. down[c] = <<>> /\ c \notin DOMAIN feeds
    BY <1>0, <1>1 DEF Fresh
  <2>3. RepliesOf(down[c], p)
    BY <2>2 DEF RepliesOf
  <2>4. up'[c] = <<[type |-> "join"]>> /\ \A d \in Conns \ {c} : up'[d] = up[d]
    BY <1>0, <1>2 DEF TypeOK
  <2>5. \A q \in Pages \ {p} : page[q].sock \in Conns \cup {NoConn}
    BY <1>0 DEF TypeOK, Page
  <2> QED BY <1>0, <1>2, <1>3, <2>1, <2>2, <2>3, <2>4, <2>5 DEF OwnsMail, host
<1>9. Labelled'
  <2>1. c \notin members
    BY <1>0, <1>1 DEF Fresh
  <2> QED BY <1>0, <1>3, <2>1 DEF Labelled, host
<1>10. FramesAccounted'
  BY <1>0 DEF FramesAccounted, host
<1> QED BY <1>5, <1>6, <1>7, <1>8, <1>9, <1>10 DEF FInv

\* A page sends on its own socket, and what it sends names it.
LEMMA SendStep ==
  ASSUME FInv, NEW p \in Pages,
         \/ \E good \in BOOLEAN : SendFrame(p, good)
         \/ \E k \in Pipelines : AskPreset(p, k)
  PROVE  FInv'
<1> DEFINE c == page[p].sock
<1>0. /\ TypeOK /\ Apart /\ Fresh /\ OwnsMail /\ Labelled /\ FramesAccounted
      /\ c # NoConn /\ UNCHANGED <<down, broken, gone, host>>
  BY DEF FInv, SendFrame, AskPreset
<1>1. PICK m \in Upward : /\ m.type = "frame" => m.page = p
                          /\ up' = [up EXCEPT ![c] = Append(@, m)]
                          /\ \/ page' = page
                             \/ page' = [page EXCEPT ![p].seq = page[p].seq + 1]
  <2>1. ASSUME NEW good \in BOOLEAN, SendFrame(p, good)
        PROVE  [type |-> "frame", page |-> p, seq |-> page[p].seq + 1, good |-> good] \in Upward
    BY <1>0 DEF TypeOK, Page, Upward, Frames
  <2>2. ASSUME NEW k \in Pipelines, AskPreset(p, k)
        PROVE  [type |-> "requestPreset", preset |-> k] \in Upward
    BY DEF Upward
  <2> QED BY <2>1, <2>2 DEF SendFrame, AskPreset
<1>2. c \in Conns
  BY <1>0 DEF TypeOK, Page
<1>3. /\ page' \in [Pages -> Page]
      /\ \A q \in Pages : /\ page'[q].sock = page[q].sock /\ page'[q].config = page[q].config
                          /\ page'[q].decoding = page[q].decoding
  <2>1. page[p] \in Page /\ page[p].seq + 1 \in Nat
    BY <1>0 DEF TypeOK, Page
  <2>2. CASE page' = page
    BY <1>0, <2>2 DEF TypeOK
  <2>3. CASE page' = [page EXCEPT ![p].seq = page[p].seq + 1]
    <3> DEFINE r == [page[p] EXCEPT !.seq = page[p].seq + 1]
    <3>1. /\ r \in Page /\ r.sock = page[p].sock /\ r.config = page[p].config
          /\ r.decoding = page[p].decoding
      BY <2>1, PageTypes
    <3>2. page' = [page EXCEPT ![p] = r]
      BY <2>3
    <3> HIDE DEF r
    <3> QED BY <1>0, <3>1, <3>2 DEF TypeOK
  <2> QED BY <1>1, <2>2, <2>3
<1>4. up'[c] = Append(up[c], m) /\ \A d \in Conns \ {c} : up'[d] = up[d]
  BY <1>0, <1>1, <1>2 DEF TypeOK
<1> HIDE DEF c
<1>5. TypeOK'
  <2>1. up' \in [Conns -> Seq(Upward)]
    BY <1>0, <1>1, <1>2 DEF TypeOK
  <2> QED BY <1>0, <1>3, <2>1 DEF TypeOK, host
<1>6. Used' = Used
  BY <1>0, <1>3 DEF Used
<1>7. c \in Used
  BY <1>2 DEF c, Used
<1>8. Apart' /\ Fresh'
  BY <1>0, <1>3, <1>4, <1>6, <1>7 DEF Apart, Fresh, host
<1>9. OwnsMail'
  <2>1. up[c] \in Seq(Upward)
    BY <1>0, <1>2 DEF TypeOK
  <2>2. AllOf(up[c], p)
    BY <1>0 DEF OwnsMail, c
  <2>3. AllOf(up'[c], p)
    BY <1>1, <1>4, <2>1, <2>2, OwnAppend
  <2>4. \A q \in Pages \ {p} : page[q].sock # NoConn => page[q].sock \in Conns \ {c}
    BY <1>0 DEF TypeOK, Page, Apart, c
  <2>5. page[p].sock = c
    BY DEF c
  <2>6. ASSUME NEW q \in Pages, page[q].sock # NoConn
        PROVE  AllOf(up'[page[q].sock], q)
    <3>1. CASE q = p
      BY <2>3, <2>5, <3>1
    <3>2. CASE q # p
      BY <1>0, <1>4, <2>4, <2>6, <3>2 DEF OwnsMail
    <3> QED BY <3>1, <3>2
  <2> QED BY <1>0, <1>3, <2>6 DEF OwnsMail, host
<1>10. Labelled' /\ FramesAccounted'
  BY <1>0, <1>3 DEF Labelled, FramesAccounted, host
<1> QED BY <1>5, <1>8, <1>9, <1>10 DEF FInv

LEMMA BreakStep ==
  ASSUME FInv, NEW p \in Pages, Break(p)
  PROVE  FInv'
<1> DEFINE c == page[p].sock
<1>0. /\ TypeOK /\ Apart /\ Fresh /\ OwnsMail /\ Labelled /\ FramesAccounted
      /\ c # NoConn /\ broken' = broken \cup {c} /\ down' = [down EXCEPT ![c] = <<>>]
      /\ page' = [page EXCEPT ![p].sock = NoConn] /\ UNCHANGED <<up, gone, host, changes>>
  BY DEF FInv, Break
<1>1. c \in Conns /\ \A q \in Pages \ {p} : page[q].sock # c
  BY <1>0 DEF TypeOK, Page, Apart
<1>2. /\ page'[p].sock = NoConn /\ page'[p].decoding = page[p].decoding
      /\ page'[p].config = page[p].config /\ \A q \in Pages \ {p} : page'[q] = page[q]
  BY <1>0 DEF TypeOK, Page
<1>3. down'[c] = <<>> /\ \A d \in Conns \ {c} : down'[d] = down[d]
  BY <1>0, <1>1 DEF TypeOK
<1>4. page[p].sock = c
  OBVIOUS
<1> HIDE DEF c
<1>5. TypeOK'
  <2>1. page' \in [Pages -> Page]
    BY <1>0 DEF TypeOK, Page
  <2>2. down' \in [Conns -> Seq(Downward)]
    <3>1. <<>> \in Seq(Downward) /\ down \in [Conns -> Seq(Downward)]
      BY <1>0 DEF TypeOK
    <3> HIDE DEF TypeOK
    <3> QED BY <1>0, <3>1
  <2> QED BY <1>0, <1>1, <2>1, <2>2 DEF TypeOK, host
<1>6. Used' = Used
  BY <1>0, <1>1, <1>2, <1>4, FilterAssumption DEF Used
<1>7. Apart' /\ Fresh'
  BY <1>0, <1>1, <1>2, <1>3, <1>6 DEF Apart, Fresh, host
<1>8. OwnsMail'
  <2>1. \A q \in Pages \ {p} : page[q].sock # NoConn => page[q].sock \in Conns \ {c}
    BY <1>0, <1>1 DEF TypeOK, Page
  <2> QED BY <1>0, <1>2, <1>3, <2>1 DEF OwnsMail, host
<1>9. Labelled'
  <2>1. members \subseteq Conns
    BY <1>0 DEF TypeOK
  <2> QED BY <1>0, <1>1, <1>2, <1>3, <2>1, FilterAssumption DEF Labelled, host
<1>10. FramesAccounted'
  BY <1>0 DEF FramesAccounted, host
<1> QED BY <1>5, <1>7, <1>8, <1>9, <1>10 DEF FInv

\* A configuration is kept, and clears the canvas.
Configured(r, k) == [r EXCEPT !.config = k, !.canvas = [@ EXCEPT !.blank = TRUE]]

LEMMA ConfiguredPage ==
  ASSUME NEW r \in Page, NEW k \in Configs
  PROVE  LET t == Configured(r, k)
         IN /\ t \in Page /\ t.sock = r.sock /\ t.config = k /\ t.decoding = r.decoding
            /\ t.canvas = [r.canvas EXCEPT !.blank = TRUE]
<1> DEFINE b == [r.canvas EXCEPT !.blank = TRUE]
<1>1. b \in Canvas
  BY DEF Page, Canvas
<1>2. Configured(r, k) = [[r EXCEPT !.config = k] EXCEPT !.canvas = b]
  BY DEF Configured, Page
<1> HIDE DEF b
<1>3. LET t == [[r EXCEPT !.config = k] EXCEPT !.canvas = b]
      IN t \in Page /\ t.sock = r.sock /\ t.config = k /\ t.decoding = r.decoding /\ t.canvas = b
  BY <1>1 DEF Page
<1> QED BY <1>2, <1>3 DEF b

LEMMA HearsConfig ==
  ASSUME page \in [Pages -> Page], NEW p \in Pages, NEW k
  PROVE  [page EXCEPT ![p].config = k, ![p].canvas.blank = TRUE]
           = [page EXCEPT ![p] = Configured(page[p], k)]
BY DEF Configured

LEMMA HearStep ==
  ASSUME FInv, NEW p \in Pages, Hear(p)
  PROVE  FInv'
<1> DEFINE c == page[p].sock
           m == Head(down[c])
           r == IF m.type = "filterConfig" THEN Configured(page[p], m.config)
                ELSE IF m.frame.seq <= page[p].shown THEN page[p]
                ELSE [page[p] EXCEPT !.shown = m.frame.seq, !.decoding = @ \cup {m.frame}]
<1>0. /\ TypeOK /\ Apart /\ Fresh /\ OwnsMail /\ Labelled /\ FramesAccounted
      /\ c # NoConn /\ down[c] # <<>> /\ down' = [down EXCEPT ![c] = Tail(@)]
      /\ UNCHANGED <<up, broken, gone, host, changes>>
  BY DEF FInv, Hear
<1>1. page' = [page EXCEPT ![p] = r]
  BY <1>0, HearsConfig DEF TypeOK, Hear
<1>2. c \in Conns /\ page[p] \in Page /\ down[c] \in Seq(Downward)
  BY <1>0 DEF TypeOK, Page
<1>3. m \in Downward /\ m = down[c][1] /\ 1 \in 1 .. Len(down[c])
  BY <1>0, <1>2, Heads
<1>4. /\ r \in Page /\ r.sock = c
      /\ r.config = IF m.type = "filterConfig" THEN m.config ELSE page[p].config
      /\ r.decoding \subseteq page[p].decoding \cup (IF m.type = "reply" THEN {m.frame} ELSE {})
  <2>1. CASE m \in [type : {"filterConfig"}, config : Configs]
    <3>1. m.type = "filterConfig" /\ m.config \in Configs
      BY <2>1
    <3> QED BY <1>2, <3>1, ConfiguredPage
  <2>2. CASE m \in [type : {"reply"}, frame : Frames]
    <3>1. m.type = "reply" /\ m.frame \in Frames /\ m.frame.seq \in Nat
      BY <2>2 DEF Frames
    <3> QED BY <1>2, <3>1 DEF Page
  <2> QED BY <1>3, <2>1, <2>2 DEF Downward
<1>5. m.type = "reply" /\ RepliesOf(down[c], p) => m.frame.page = p
  BY <1>3 DEF RepliesOf
<1>6. /\ page' \in [Pages -> Page] /\ page'[p] = r
      /\ \A q \in Pages \ {p} : page'[q] = page[q]
  BY <1>0, <1>1, <1>4 DEF TypeOK
<1>7. down'[c] = Tail(down[c]) /\ \A d \in Conns \ {c} : down'[d] = down[d]
  BY <1>0, <1>2 DEF TypeOK
<1>8. \A q \in Pages \ {p} : page[q].sock \in (Conns \cup {NoConn}) \ {c}
  BY <1>0 DEF TypeOK, Page, Apart
<1>9. page[p].sock = c /\ Teaches(down[c], page[p].config, config)
        => Teaches(Tail(down[c]), r.config, config)
  BY <1>0, <1>2, <1>4, TeachTail
<1>10. c = page[p].sock
  OBVIOUS
<1>11. Tail(down[c]) \in Seq(Downward)
  BY <1>0, <1>2, Heads
<1> HIDE DEF c, m, r
<1>12. TypeOK'
  <2>1. down' \in [Conns -> Seq(Downward)]
    BY <1>0, <1>11 DEF TypeOK
  <2> QED BY <1>0, <1>6, <2>1 DEF TypeOK, host
<1>13. Used' = Used
  BY <1>0, <1>4, <1>6, <1>10 DEF Used
<1>14. c \in Used
  BY <1>2, <1>10 DEF Used
<1>15. Apart'
  BY <1>0, <1>4, <1>6, <1>10 DEF Apart
<1>16. Fresh'
  BY <1>0, <1>7, <1>13, <1>14 DEF Fresh, host
<1>17. OwnsMail'
  <2>1. RepliesOf(down[c], p) /\ \A f \in page[p].decoding : f.page = p
    BY <1>0, <1>10 DEF OwnsMail
  <2>2. RepliesOf(down'[c], p)
    BY <1>0, <1>2, <1>7, <2>1, OwnTail
  <2>3. \A f \in r.decoding : f.page = p
    BY <1>4, <1>5, <2>1
  <2>4. ASSUME NEW q \in Pages, page[q].sock # NoConn
        PROVE  RepliesOf(down'[page[q].sock], q)
    <3>1. CASE q = p
      BY <1>10, <2>2, <3>1
    <3>2. CASE q # p
      <4>1. down'[page[q].sock] = down[page[q].sock]
        BY <1>7, <1>8, <2>4, <3>2
      <4> QED BY <1>0, <2>4, <4>1 DEF OwnsMail
    <3> QED BY <3>1, <3>2
  <2>5. \A q \in Pages : page'[q].sock = page[q].sock
    BY <1>4, <1>6, <1>10
  <2>6. \A q \in Pages : \A f \in page'[q].decoding : f.page = q
    BY <1>0, <1>6, <2>3 DEF OwnsMail
  <2> QED BY <1>0, <2>4, <2>5, <2>6 DEF OwnsMail, host
<1>18. Labelled'
  <2>1. ASSUME NEW q \in Pages, page'[q].sock \in members
        PROVE  Teaches(down'[page'[q].sock], page'[q].config, config)
    <3>1. CASE q = p
      BY <1>0, <1>4, <1>6, <1>7, <1>9, <1>10, <2>1, <3>1 DEF Labelled
    <3>2. CASE q # p
      <4>1. page'[q] = page[q] /\ page[q].sock \in Conns
        BY <1>0, <1>6, <2>1, <3>2 DEF TypeOK
      <4>2. down'[page[q].sock] = down[page[q].sock]
        BY <1>7, <1>8, <3>2, <4>1
      <4> QED BY <1>0, <2>1, <4>1, <4>2 DEF Labelled
    <3> QED BY <3>1, <3>2
  <2> QED BY <1>0, <2>1 DEF Labelled, host
<1>19. FramesAccounted'
  BY <1>0 DEF FramesAccounted, host
<1> QED BY <1>12, <1>15, <1>16, <1>17, <1>18, <1>19 DEF FInv

LEMMA DecodedStep ==
  ASSUME FInv, NEW p \in Pages, NEW f \in page[p].decoding, Decoded(p, f)
  PROVE  FInv'
<1> DEFINE r == [page[p] EXCEPT !.decoding = @ \ {f},
                                !.canvas = IF Paintable(p, f)
                                           THEN [page |-> f.page, seq |-> f.seq, blank |-> FALSE]
                                           ELSE @]
<1>0. /\ TypeOK /\ Apart /\ Fresh /\ OwnsMail /\ Labelled /\ FramesAccounted
      /\ UNCHANGED <<up, down, broken, gone, host, changes>>
  BY DEF FInv, Decoded
<1>1. page' = [page EXCEPT ![p] = r]
  BY <1>0 DEF TypeOK, Decoded
<1>2. page[p] \in Page /\ f \in Frames
  BY <1>0 DEF TypeOK, Page
<1>3. /\ r \in Page /\ r.sock = page[p].sock /\ r.config = page[p].config
      /\ r.decoding \subseteq page[p].decoding
  <2> DEFINE k == IF Paintable(p, f) THEN [page |-> f.page, seq |-> f.seq, blank |-> FALSE]
                  ELSE page[p].canvas
             fs == page[p].decoding \ {f}
  <2>1. k \in Canvas /\ fs \in SUBSET Frames
    BY <1>2 DEF Frames, Page, Canvas
  <2>2. r = [[page[p] EXCEPT !.decoding = fs] EXCEPT !.canvas = k] /\ fs \subseteq page[p].decoding
    BY <1>2 DEF Page
  <2> HIDE DEF k, fs, r
  <2> QED BY <1>2, <2>1, <2>2 DEF Page
<1> HIDE DEF r
<1>4. /\ page' \in [Pages -> Page]
      /\ \A q \in Pages : /\ page'[q].sock = page[q].sock /\ page'[q].config = page[q].config
                          /\ page'[q].decoding \subseteq page[q].decoding
  BY <1>0, <1>1, <1>3 DEF TypeOK
<1>5. TypeOK' /\ Apart'
  BY <1>0, <1>4 DEF TypeOK, Apart, host
<1>6. Used' = Used
  BY <1>0, <1>4 DEF Used
<1>7. Fresh' /\ FramesAccounted'
  BY <1>0, <1>6 DEF Fresh, FramesAccounted, host
<1>8. OwnsMail' /\ Labelled'
  BY <1>0, <1>4 DEF OwnsMail, Labelled, host
<1> QED BY <1>5, <1>7, <1>8 DEF FInv

-----------------------------------------------------------------------------
(* The host's steps leave pages and sockets alone.                         *)

LEMMA HostFresh ==
  ASSUME TypeOK, Apart, Fresh, UNCHANGED <<page, broken, gone>>,
         \A c \in Conns \ Used : up'[c] = up[c] /\ down'[c] = down[c],
         members' \subseteq members \cup Used, DOMAIN feeds' \subseteq DOMAIN feeds \cup Used
  PROVE  Apart' /\ Fresh'
<1>1. Used' = Used
  BY DEF Used
<1> QED BY <1>1 DEF Apart, Fresh

\* Mail that is cut from the front, or answered from the page's own feed,
\* stays the page's.
LEMMA HostMail ==
  ASSUME TypeOK, OwnsMail, page' = page,
         \A p \in Pages : page[p].sock # NoConn =>
           LET c == page[p].sock
           IN /\ AllOf(up[c], p) => AllOf(up'[c], p)
              /\ RepliesOf(down[c], p) => RepliesOf(down'[c], p)
              /\ c \in DOMAIN feeds' =>
                   feeds'[c].pending = Nothing \/ feeds'[c].pending.page = p
  PROVE  OwnsMail'
BY DEF OwnsMail

\* A configuration sent to some is no reply to any.
LEMMA ToldOwn ==
  ASSUME TypeOK, NEW cs, NEW k \in Configs, NEW c \in Conns, NEW p,
         RepliesOf(down[c], p)
  PROVE  RepliesOf(Told(cs, ConfigMsg(k))[c], p)
<1>1. ConfigMsg(k) \in Downward /\ ConfigMsg(k).type # "reply"
  BY MessageTypes DEF ConfigMsg
<1>2. down[c] \in Seq(Downward)
  BY DEF TypeOK
<1>3. \/ Told(cs, ConfigMsg(k))[c] = down[c]
      \/ Told(cs, ConfigMsg(k))[c] = Append(down[c], ConfigMsg(k))
  BY DEF Told
<1> QED BY <1>1, <1>2, <1>3, OwnAppend

\* A configuration that is pushed to all teaches every page.
LEMMA PushLabels ==
  ASSUME TypeOK, Apart, config' \in Configs, down' = Pushed(config'),
         page' = page, members' = members
  PROVE  Labelled'
<1>1. ASSUME NEW p \in Pages, page[p].sock \in members
      PROVE  Teaches(down'[page[p].sock], page[p].config, config')
  <2>1. page[p].sock \in Conns /\ page[p].sock # NoConn
    BY <1>1, FilterAssumption DEF TypeOK
  <2>2. page[p].sock \in Conns \cap Live
    BY <2>1, SockLive
  <2>3. down'[page[p].sock] = Append(down[page[p].sock], ConfigMsg(config'))
    BY <2>1, <2>2, ToldDown, MessageTypes DEF Pushed
  <2>4. down[page[p].sock] \in Seq(Downward)
    BY <2>1 DEF TypeOK
  <2> QED BY <2>3, <2>4, TeachConfig
<1> QED BY <1>1 DEF Labelled

LEMMA EditStep ==
  ASSUME FInv, NEW k \in Configs, Edit(k)
  PROVE  FInv'
<1>0. /\ TypeOK /\ Apart /\ Fresh /\ OwnsMail /\ Labelled /\ FramesAccounted
      /\ config' = k /\ down' = Pushed(k)
      /\ UNCHANGED <<page, up, broken, gone, members, feeds, engines>>
  BY DEF FInv, Edit
<1>1. down' \in [Conns -> Seq(Downward)]
  BY <1>0, ToldDown, MessageTypes DEF Pushed
<1>2. TypeOK'
  BY <1>0, <1>1 DEF TypeOK
<1>3. \A c \in Conns \ Used : down'[c] = down[c]
  BY <1>0, ToldDown, MessageTypes DEF Pushed, Live
<1>4. Apart' /\ Fresh'
  BY <1>0, <1>3, HostFresh
<1>5. \A p \in Pages : page[p].sock # NoConn =>
        (RepliesOf(down[page[p].sock], p) => RepliesOf(down'[page[p].sock], p))
  BY <1>0, ToldOwn, SockLive DEF Pushed
<1>6. OwnsMail'
  BY <1>0, <1>5 DEF OwnsMail
<1>7. Labelled'
  BY <1>0, PushLabels
<1>8. FramesAccounted'
  BY <1>0 DEF FramesAccounted
<1> QED BY <1>2, <1>4, <1>6, <1>7, <1>8 DEF FInv

LEMMA RelaunchStep == ASSUME FInv, Relaunch PROVE FInv'
<1>0. /\ TypeOK /\ Apart /\ Fresh /\ OwnsMail
      /\ members' = {} /\ feeds' = [c \in {} |-> NewFeed]
      /\ config' = [pipeline |-> Default, quality |-> Quality]
      /\ UNCHANGED <<page, up, down, broken, gone>>
  BY DEF FInv, Relaunch
<1>1. config' \in Configs
  BY <1>0, FilterAssumption DEF Configs
<1>2. DOMAIN feeds' = {}
  BY <1>0
<1>3. TypeOK'
  BY <1>0, <1>1, <1>2 DEF TypeOK
<1>4. Apart' /\ Fresh'
  BY <1>0, <1>2, HostFresh
<1>5. OwnsMail'
  BY <1>0, <1>2 DEF OwnsMail
<1>6. Labelled' /\ FramesAccounted'
  BY <1>0, <1>2 DEF Labelled, FramesAccounted
<1> QED BY <1>3, <1>4, <1>5, <1>6 DEF FInv

\* A feed that is let go, or not, with its connection.
LEMMA NoticeStep ==
  ASSUME FInv, NEW c \in Conns, Notice(c)
  PROVE  FInv'
<1>0. /\ TypeOK /\ Apart /\ Fresh /\ OwnsMail /\ Labelled /\ FramesAccounted
      /\ c \in broken /\ broken' = broken \ {c} /\ gone' = gone \cup {c}
      /\ up' = [up EXCEPT ![c] = <<>>] /\ members' = members \ {c}
      /\ feeds' = IF c \in members THEN Without(c) ELSE feeds
      /\ UNCHANGED <<page, down, config, engines, changes>>
  BY DEF FInv, Notice, Remaining
<1>1. gone' \cup broken' = gone \cup broken
  BY <1>0
<1>2. /\ DOMAIN feeds' \subseteq DOMAIN feeds
      /\ \A d \in DOMAIN feeds' : feeds'[d] = feeds[d]
  BY <1>0 DEF Without
<1>3. up' \in [Conns -> Seq(Upward)] /\ \A d \in Conns \ {c} : up'[d] = up[d]
  <2>1. <<>> \in Seq(Upward) /\ up \in [Conns -> Seq(Upward)]
    BY <1>0 DEF TypeOK
  <2> QED BY <1>0, <2>1
<1>4. up'[c] = <<>>
  BY <1>0 DEF TypeOK
<1>5. TypeOK'
  BY <1>0, <1>1, <1>2, <1>3 DEF TypeOK
<1>6. Used' = Used
  BY <1>0, <1>1 DEF Used
<1>7. Apart'
  BY <1>0, <1>1 DEF Apart
<1>8. Fresh'
  BY <1>0, <1>2, <1>3, <1>4, <1>6 DEF Fresh
<1>9. OwnsMail'
  <2>1. \A p \in Pages : page[p].sock # NoConn => page[p].sock \in Conns \ {c}
    BY <1>0 DEF Apart, TypeOK, Page
  <2> QED BY <1>0, <1>2, <1>3, <2>1 DEF OwnsMail
<1>10. Labelled'
  BY <1>0 DEF Labelled
<1>11. FramesAccounted'
  BY <1>2, <1>0 DEF FramesAccounted
<1> QED BY <1>5, <1>7, <1>8, <1>9, <1>10, <1>11 DEF FInv

\* A frame that waits is settled, one way or the other.
LEMMA ProcessedFeed ==
  ASSUME NEW f \in Feed
  PROVE  /\ Processed(f) \in Feed /\ Processed(f).pending = Nothing
         /\ Processed(f).in = f.in /\ Processed(f).dropped = f.dropped
         /\ Processed(f).out \in Nat /\ Processed(f).unread \in Nat
         /\ Processed(f).out + Processed(f).unread = f.out + f.unread + 1
<1> DEFINE t(out, unread) == [pending |-> Nothing, in |-> f.in, out |-> out,
                              dropped |-> f.dropped, unread |-> unread]
<1>1. f.in \in Nat /\ f.out \in Nat /\ f.dropped \in Nat /\ f.unread \in Nat
  BY DEF Feed
<1>2. \A out, unread \in Nat : t(out, unread) \in Feed
  BY <1>1 DEF Feed
<1>3. CASE f.pending.good
  <2>1. Processed(f) = t(f.out + 1, f.unread)
    BY <1>3 DEF Processed, Feed
  <2> QED BY <1>1, <1>2, <2>1
<1>4. CASE ~f.pending.good
  <2>1. Processed(f) = t(f.out, f.unread + 1)
    BY <1>4 DEF Processed, Feed
  <2> QED BY <1>1, <1>2, <2>1
<1> QED BY <1>3, <1>4

LEMMA TickStep == ASSUME FInv, Tick PROVE FInv'
<1>0. /\ TypeOK /\ Apart /\ Fresh /\ OwnsMail /\ Labelled /\ FramesAccounted
      /\ feeds' = [c \in DOMAIN feeds |-> IF c \in Waiting THEN Processed(feeds[c]) ELSE feeds[c]]
      /\ down' = [c \in Conns |-> IF c \in Live THEN Answered(c) ELSE down[c]]
      /\ UNCHANGED <<page, up, broken, gone, members, config, engines, changes>>
  BY DEF FInv, Tick
<1>1. /\ down' \in [Conns -> Seq(Downward)]
      /\ \A c \in Conns \ Live : down'[c] = down[c]
      /\ \A c \in Conns :
           \/ down'[c] = down[c]
           \/ /\ c \in DOMAIN feeds /\ feeds[c].pending \in Frames
              /\ down'[c] = Append(down[c], Reply(feeds[c].pending))
  BY <1>0, AnsweredDown DEF TypeOK
<1>2. ASSUME NEW c \in DOMAIN feeds
      PROVE  /\ feeds'[c] \in Feed
             /\ feeds'[c].pending = Nothing \/ feeds'[c].pending = feeds[c].pending
             /\ feeds'[c].in = feeds'[c].out + feeds'[c].dropped + feeds'[c].unread
                               + (IF feeds'[c].pending = Nothing THEN 0 ELSE 1)
  <2>1. feeds[c] \in Feed
    BY <1>0 DEF TypeOK
  <2>2. feeds[c].in = feeds[c].out + feeds[c].dropped + feeds[c].unread
                      + (IF feeds[c].pending = Nothing THEN 0 ELSE 1)
    BY <1>0 DEF FramesAccounted
  <2>3. CASE c \in Waiting
    <3>1. feeds[c].pending # Nothing /\ feeds'[c] = Processed(feeds[c])
      BY <1>0, <2>3 DEF Waiting
    <3> DEFINE f == feeds[c]
               t == Processed(f)
    <3>2. /\ t \in Feed /\ t.pending = Nothing /\ t.in = f.in /\ t.dropped = f.dropped
          /\ t.out \in Nat /\ t.unread \in Nat /\ t.out + t.unread = f.out + f.unread + 1
      BY <2>1, ProcessedFeed
    <3>3. f.in = f.out + f.dropped + f.unread + 1
      BY <2>2, <3>1
    <3>4. f.in \in Nat /\ f.out \in Nat /\ f.dropped \in Nat /\ f.unread \in Nat
      BY <2>1 DEF Feed
    <3>5. t.in = t.out + t.dropped + t.unread + 0
      BY <3>2, <3>3, <3>4
    <3> QED BY <3>1, <3>2, <3>5
  <2>4. CASE c \notin Waiting
    <3>1. feeds'[c] = feeds[c]
      BY <1>0, <2>4
    <3> QED BY <2>1, <2>2, <3>1
  <2> QED BY <2>3, <2>4
<1>3. DOMAIN feeds' = DOMAIN feeds
  BY <1>0
<1>4. TypeOK'
  BY <1>0, <1>1, <1>2, <1>3 DEF TypeOK
<1>5. Apart' /\ Fresh'
  BY <1>0, <1>1, <1>3, HostFresh DEF Live
<1>6. OwnsMail'
  <2>1. ASSUME NEW p \in Pages, page[p].sock # NoConn
        PROVE  LET c == page[p].sock
               IN /\ RepliesOf(down'[c], p)
                  /\ c \in DOMAIN feeds' =>
                       feeds'[c].pending = Nothing \/ feeds'[c].pending.page = p
    <3> DEFINE c == page[p].sock
    <3>1. c \in Conns /\ RepliesOf(down[c], p)
      BY <1>0, <2>1, SockLive DEF OwnsMail
    <3>2. c \in DOMAIN feeds => feeds[c].pending = Nothing \/ feeds[c].pending.page = p
      BY <1>0, <2>1 DEF OwnsMail
    <3>3. ASSUME c \in DOMAIN feeds, feeds[c].pending \in Frames
          PROVE  RepliesOf(Append(down[c], Reply(feeds[c].pending)), p)
      <4>1. feeds[c].pending.page = p
        BY <3>2, <3>3 DEF Frames, Nothing
      <4>2. Reply(feeds[c].pending) \in Downward /\ Reply(feeds[c].pending).frame.page = p
        BY <3>3, <4>1, MessageTypes DEF Reply
      <4>3. down[c] \in Seq(Downward)
        BY <1>0, <3>1 DEF TypeOK
      <4> QED BY <3>1, <4>2, <4>3, OwnAppend
    <3>4. RepliesOf(down'[c], p)
      BY <1>1, <3>1, <3>3
    <3> QED BY <1>2, <1>3, <3>2, <3>4
  <2> QED BY <1>0, <2>1 DEF OwnsMail
<1>7. Labelled'
  <2>1. ASSUME NEW p \in Pages, page[p].sock \in members
        PROVE  Teaches(down'[page[p].sock], page[p].config, config)
    <3> DEFINE c == page[p].sock
    <3>1. c \in Conns /\ down[c] \in Seq(Downward)
      BY <1>0, <2>1 DEF TypeOK
    <3>2. Teaches(down[c], page[p].config, config)
      BY <1>0, <2>1 DEF Labelled
    <3> QED BY <1>1, <3>1, <3>2, TeachReply
  <2> QED BY <1>0, <2>1 DEF Labelled
<1>8. FramesAccounted'
  BY <1>2, <1>3 DEF FramesAccounted
<1> QED BY <1>4, <1>5, <1>6, <1>7, <1>8 DEF FInv

-----------------------------------------------------------------------------
(* What the host makes of a message, by its kind.                          *)

LEMMA FeedOfType ==
  ASSUME TypeOK, NEW c \in Conns
  PROVE  FeedOf(c) \in Feed
BY DEF FeedOf, TypeOK, NewFeed, Feed

\* A feed put in its place.
LEMMA WithType ==
  ASSUME TypeOK, NEW c \in Conns, NEW f \in Feed
  PROVE  /\ DOMAIN With(c, f) = DOMAIN feeds \cup {c} /\ With(c, f)[c] = f
         /\ \A d \in DOMAIN feeds \ {c} : With(c, f)[d] = feeds[d]
         /\ \A d \in DOMAIN With(c, f) : With(c, f)[d] \in Feed
BY DEF With, TypeOK

\* The figures of the feed that c has, or would have.
LEMMA FeedOfAccounted ==
  ASSUME TypeOK, FramesAccounted, NEW c \in Conns
  PROVE  FeedOf(c).in = FeedOf(c).out + FeedOf(c).dropped + FeedOf(c).unread
                        + (IF FeedOf(c).pending = Nothing THEN 0 ELSE 1)
<1>1. CASE c \in DOMAIN feeds
  BY <1>1 DEF FeedOf, FramesAccounted
<1>2. CASE c \notin DOMAIN feeds
  BY <1>2 DEF FeedOf, NewFeed
<1> QED BY <1>1, <1>2

\* What serving a message has in common.
LEMMA ServeMail ==
  ASSUME FInv, NEW c \in Conns, Serve(c)
  PROVE  /\ Head(up[c]) \in Upward /\ c \in Used
         /\ UNCHANGED <<page, broken, gone>>
         /\ up' \in [Conns -> Seq(Upward)]
         /\ \A d \in Conns \ Used : up'[d] = up[d]
         /\ \A d \in Conns : \A p \in Pages : AllOf(up[d], p) => AllOf(up'[d], p)
         /\ \A p \in Pages : AllOf(up[c], p) /\ Head(up[c]).type = "frame" => Head(up[c]).page = p
<1>0. /\ TypeOK /\ Fresh /\ up[c] # <<>> /\ up' = [up EXCEPT ![c] = Tail(@)]
      /\ UNCHANGED <<page, broken, gone>>
  BY DEF FInv, Serve
<1>1. up[c] \in Seq(Upward)
  BY <1>0 DEF TypeOK
<1>2. c \in Used
  BY <1>0 DEF Fresh
<1>3. /\ Head(up[c]) \in Upward /\ Head(up[c]) = up[c][1] /\ 1 \in 1 .. Len(up[c])
      /\ Tail(up[c]) \in Seq(Upward)
  BY <1>0, <1>1, Heads
<1>4. up' \in [Conns -> Seq(Upward)] /\ up'[c] = Tail(up[c]) /\ \A d \in Conns \ {c} : up'[d] = up[d]
  BY <1>0, <1>3 DEF TypeOK
<1>5. \A p \in Pages : AllOf(up[c], p) => AllOf(up'[c], p)
  BY <1>0, <1>1, <1>4, OwnTail
<1>6. \A p \in Pages : AllOf(up[c], p) /\ Head(up[c]).type = "frame" => Head(up[c]).page = p
  BY <1>3 DEF AllOf
<1> QED BY <1>0, <1>2, <1>3, <1>4, <1>5, <1>6

LEMMA JoinStep ==
  ASSUME FInv, NEW c \in Conns, Serve(c), OnJoin(c)
  PROVE  FInv'
<1>0. /\ TypeOK /\ Apart /\ Fresh /\ OwnsMail /\ Labelled /\ FramesAccounted
      /\ members' = members \cup {c} /\ feeds' = With(c, FeedOf(c))
      /\ down' = Told({c}, ConfigMsg(config)) /\ UNCHANGED <<config, engines>>
  BY DEF FInv, OnJoin, Greeted
<1>1. config \in Configs /\ ConfigMsg(config) \in Downward
  BY <1>0, MessageTypes DEF TypeOK
<1>2. /\ down' \in [Conns -> Seq(Downward)]
      /\ \A d \in Conns : down'[d] = IF d \in {c} \cap Live THEN Append(down[d], ConfigMsg(config))
                                     ELSE down[d]
  BY <1>0, <1>1, ToldDown
<1>3. /\ DOMAIN feeds' = DOMAIN feeds \cup {c} /\ feeds'[c] = FeedOf(c)
      /\ \A d \in DOMAIN feeds \ {c} : feeds'[d] = feeds[d]
      /\ \A d \in DOMAIN feeds' : feeds'[d] \in Feed
  BY <1>0, FeedOfType, WithType
<1>4. TypeOK'
  BY <1>0, <1>2, <1>3, ServeMail DEF TypeOK
<1>5. Apart' /\ Fresh'
  BY <1>0, <1>2, <1>3, HostFresh, ServeMail DEF Live
<1>6. OwnsMail'
  <2>1. ASSUME NEW p \in Pages, page[p].sock # NoConn
        PROVE  LET d == page[p].sock
               IN /\ AllOf(up'[d], p) /\ RepliesOf(down'[d], p)
                  /\ d \in DOMAIN feeds' =>
                       feeds'[d].pending = Nothing \/ feeds'[d].pending.page = p
    <3> DEFINE d == page[p].sock
    <3>1. d \in Conns /\ AllOf(up[d], p) /\ RepliesOf(down[d], p)
      BY <1>0, <2>1, SockLive DEF OwnsMail
    <3>2. d \in DOMAIN feeds => feeds[d].pending = Nothing \/ feeds[d].pending.page = p
      BY <1>0, <2>1 DEF OwnsMail
    <3>3. RepliesOf(down'[d], p)
      BY <1>0, <1>1, <3>1, ToldOwn
    <3>4. c \notin DOMAIN feeds => FeedOf(c).pending = Nothing
      BY DEF FeedOf, NewFeed
    <3>5. c \in DOMAIN feeds => FeedOf(c) = feeds[c]
      BY DEF FeedOf
    <3>6. d \in DOMAIN feeds' => feeds'[d].pending = Nothing \/ feeds'[d].pending.page = p
      BY <1>3, <3>2, <3>4, <3>5
    <3> QED BY <3>1, <3>3, <3>6, ServeMail
  <2> QED BY <1>0, <2>1, ServeMail DEF OwnsMail
<1>7. Labelled'
  <2>1. ASSUME NEW p \in Pages, page[p].sock \in members'
        PROVE  Teaches(down'[page[p].sock], page[p].config, config)
    <3>1. page[p].sock \in Conns /\ page[p].sock # NoConn
      BY <1>0, <2>1, FilterAssumption DEF TypeOK
    <3>2. CASE page[p].sock = c
      <4>1. down'[c] = Append(down[c], ConfigMsg(config)) /\ down[c] \in Seq(Downward)
        BY <1>0, <1>2, <3>1, <3>2, SockLive DEF TypeOK
      <4> QED BY <3>2, <4>1, TeachConfig
    <3>3. CASE page[p].sock # c
      <4>1. down'[page[p].sock] = down[page[p].sock] /\ page[p].sock \in members
        BY <1>0, <1>2, <2>1, <3>1, <3>3
      <4> QED BY <1>0, <4>1 DEF Labelled
    <3> QED BY <3>2, <3>3
  <2> QED BY <1>0, <2>1, ServeMail DEF Labelled
<1>8. FramesAccounted'
  BY <1>0, <1>3, FeedOfAccounted DEF FramesAccounted
<1> QED BY <1>4, <1>5, <1>6, <1>7, <1>8 DEF FInv

LEMMA PresetStep ==
  ASSUME FInv, NEW c \in Conns, Serve(c), OnMessage(Head(up[c])),
         Head(up[c]).type = "requestPreset"
  PROVE  FInv'
<1>0. /\ TypeOK /\ Apart /\ Fresh /\ OwnsMail /\ Labelled /\ FramesAccounted
      /\ config' = [config EXCEPT !.pipeline = Head(up[c]).preset] /\ down' = Pushed(config')
      /\ UNCHANGED <<members, feeds, engines>>
  BY DEF FInv, OnMessage
<1>1. config' \in Configs
  <2>1. Head(up[c]).preset \in Pipelines
    BY ServeMail DEF Upward, Frames
  <2> QED BY <1>0, <2>1 DEF TypeOK, Configs
<1>2. PICK k \in Configs : k = config'
  BY <1>1
<1>3. /\ down' \in [Conns -> Seq(Downward)]
      /\ \A d \in Conns \ Live : down'[d] = down[d]
  <2>1. down' = Told(Conns, ConfigMsg(k))
    BY <1>0, <1>2 DEF Pushed
  <2>2. ConfigMsg(k) \in Downward
    BY MessageTypes
  <2>3. /\ Told(Conns, ConfigMsg(k)) \in [Conns -> Seq(Downward)]
        /\ \A d \in Conns : Told(Conns, ConfigMsg(k))[d] =
             IF d \in Conns \cap Live THEN Append(down[d], ConfigMsg(k)) ELSE down[d]
    BY <1>0, <2>2, ToldDown
  <2> QED BY <2>1, <2>3
<1>4. TypeOK'
  BY <1>0, <1>1, <1>3, ServeMail DEF TypeOK
<1>5. Apart' /\ Fresh'
  BY <1>0, <1>3, HostFresh, ServeMail DEF Live
<1>6. OwnsMail'
  <2>1. \A p \in Pages : page[p].sock # NoConn =>
          /\ AllOf(up'[page[p].sock], p)
          /\ RepliesOf(down'[page[p].sock], p)
    <3> SUFFICES ASSUME NEW p \in Pages, page[p].sock # NoConn
                 PROVE  AllOf(up'[page[p].sock], p) /\ RepliesOf(down'[page[p].sock], p)
      OBVIOUS
    <3>1. /\ page[p].sock \in Conns
          /\ AllOf(up[page[p].sock], p) /\ RepliesOf(down[page[p].sock], p)
      BY <1>0, SockLive DEF OwnsMail
    <3>2. RepliesOf(Told(Conns, ConfigMsg(k))[page[p].sock], p)
      BY <1>0, <3>1, ToldOwn
    <3> QED BY <1>0, <1>2, <3>1, <3>2, ServeMail DEF Pushed
  <2> QED BY <1>0, <2>1, ServeMail DEF OwnsMail
<1>7. Labelled'
  BY <1>0, <1>1, PushLabels, ServeMail
<1>8. FramesAccounted'
  BY <1>0 DEF FramesAccounted
<1> QED BY <1>4, <1>5, <1>6, <1>7, <1>8 DEF FInv

LEMMA ReplacedFeed ==
  ASSUME NEW f \in Feed, NEW m \in Frames
  PROVE  LET t == [f EXCEPT !.pending = m, !.in = @ + 1, !.dropped = Dropped(f)]
         IN /\ t \in Feed /\ t.pending = m /\ t.in = f.in + 1 /\ t.out = f.out
            /\ t.dropped = Dropped(f) /\ t.unread = f.unread
<1> DEFINE n == Dropped(f)
<1>1. n \in Nat /\ f.in + 1 \in Nat
  BY DEF Feed, Dropped
<1> HIDE DEF n
<1>2. LET t == [f EXCEPT !.pending = m, !.in = f.in + 1, !.dropped = n]
      IN /\ t \in Feed /\ t.pending = m /\ t.in = f.in + 1 /\ t.out = f.out
         /\ t.dropped = n /\ t.unread = f.unread
  BY <1>1 DEF Feed
<1> QED BY <1>2 DEF n

\* The newest frame replaces the one that waited, which is counted as dropped.
LEMMA FrameStep ==
  ASSUME FInv, NEW c \in Conns, Serve(c), OnBinary(c, Head(up[c])),
         Head(up[c]).type = "frame"
  PROVE  FInv'
<1> DEFINE m == Head(up[c])
           f == FeedOf(c)
           t == [f EXCEPT !.pending = m, !.in = @ + 1, !.dropped = Dropped(f)]
<1>0. /\ TypeOK /\ Apart /\ Fresh /\ OwnsMail /\ Labelled /\ FramesAccounted
      /\ feeds' = With(c, t) /\ UNCHANGED <<members, config, engines, down>>
  BY DEF FInv, OnBinary, Latest
<1>1. m \in Frames /\ m # Nothing
  BY ServeMail DEF Upward, Frames, Nothing
<1>2. f \in Feed
  BY <1>0, FeedOfType
<1>3. /\ t \in Feed /\ t.pending = m /\ t.in = f.in + 1 /\ t.out = f.out
      /\ t.dropped = Dropped(f) /\ t.unread = f.unread
  BY <1>1, <1>2, ReplacedFeed
<1>4. t.in = t.out + t.dropped + t.unread + 1
  <2>1. f.in = f.out + f.dropped + f.unread + (IF f.pending = Nothing THEN 0 ELSE 1)
    BY <1>0, FeedOfAccounted
  <2>2. f.in \in Nat /\ f.out \in Nat /\ f.dropped \in Nat /\ f.unread \in Nat
    BY <1>2 DEF Feed
  <2>3. Dropped(f) = f.dropped + (IF f.pending = Nothing THEN 0 ELSE 1)
    BY <2>2 DEF Dropped
  <2> QED BY <1>3, <2>1, <2>2, <2>3
<1> HIDE DEF f, t
<1>5. /\ DOMAIN feeds' = DOMAIN feeds \cup {c} /\ feeds'[c] = t
      /\ \A d \in DOMAIN feeds \ {c} : feeds'[d] = feeds[d]
      /\ \A d \in DOMAIN feeds' : feeds'[d] \in Feed
  BY <1>0, <1>3, WithType
<1>6. TypeOK'
  BY <1>0, <1>5, ServeMail DEF TypeOK
<1>7. Apart' /\ Fresh'
  BY <1>0, <1>5, HostFresh, ServeMail
<1>8. OwnsMail'
  <2>1. ASSUME NEW p \in Pages, page[p].sock # NoConn
        PROVE  LET d == page[p].sock
               IN /\ AllOf(up'[d], p) /\ RepliesOf(down'[d], p)
                  /\ d \in DOMAIN feeds' =>
                       feeds'[d].pending = Nothing \/ feeds'[d].pending.page = p
    <3> DEFINE d == page[p].sock
    <3>1. d \in Conns /\ AllOf(up[d], p) /\ RepliesOf(down[d], p)
      BY <1>0, <2>1, SockLive DEF OwnsMail
    <3>2. d \in DOMAIN feeds => feeds[d].pending = Nothing \/ feeds[d].pending.page = p
      BY <1>0, <2>1 DEF OwnsMail
    <3>3. d = c => m.page = p
      BY <3>1, ServeMail
    <3>4. d \in DOMAIN feeds' => feeds'[d].pending = Nothing \/ feeds'[d].pending.page = p
      BY <1>3, <1>5, <3>2, <3>3
    <3> QED BY <1>0, <3>1, <3>4, ServeMail
  <2> QED BY <1>0, <2>1, ServeMail DEF OwnsMail
<1>9. Labelled'
  BY <1>0, ServeMail DEF Labelled
<1>10. FramesAccounted'
  BY <1>0, <1>1, <1>3, <1>4, <1>5 DEF FramesAccounted
<1> QED BY <1>6, <1>7, <1>8, <1>9, <1>10 DEF FInv

LEMMA ServeStep ==
  ASSUME FInv, NEW c \in Conns, Serve(c)
  PROVE  FInv'
<1> DEFINE m == Head(up[c])
<1>1. m.type \in {"join", "requestPreset", "frame"}
  BY ServeMail DEF Upward, Frames
<1>2. CASE m.type = "join"
  BY <1>2, JoinStep DEF Serve
<1>3. CASE m.type = "requestPreset"
  BY <1>3, PresetStep DEF Serve
<1>4. CASE m.type = "frame"
  BY <1>4, FrameStep DEF Serve
<1> QED BY <1>1, <1>2, <1>3, <1>4

-----------------------------------------------------------------------------
(* Theorems.                                                               *)

LEMMA FilterStep == ASSUME FInv, [Next]_vars PROVE FInv'
<1>1. CASE UNCHANGED vars
  BY <1>1 DEF vars, host, FInv, TypeOK, Apart, Fresh, Used, OwnsMail, Labelled, FramesAccounted
<1>2. ASSUME NEW k \in Configs, Edit(k) PROVE FInv'
  BY <1>2, EditStep
<1>3. CASE Reset
  <2>1. [config EXCEPT !.pipeline = Default] \in Configs
    BY FilterAssumption DEF FInv, TypeOK, Configs
  <2> QED BY <1>2, <1>3, <2>1 DEF Reset
<1>4. ASSUME NEW k \in Pipelines, NEW q \in Qualities, Edit([pipeline |-> k, quality |-> q])
      PROVE  FInv'
  <2>1. [pipeline |-> k, quality |-> q] \in Configs
    BY DEF Configs
  <2> QED BY <1>2, <1>4, <2>1
<1> QED BY <1>1, <1>3, <1>4, DialStep, SendStep, BreakStep, HearStep, DecodedStep,
           ServeStep, NoticeStep, TickStep, RelaunchStep DEF Next

\* The inductive invariant, in every reachable state.
THEOREM FilterInvariant == Spec => []FInv
<1>1. Init => FInv
  BY InitFInv
<1>2. FInv /\ [Next]_vars => FInv'
  BY FilterStep
<1> QED BY <1>1, <1>2, PTL DEF Spec

\* Nobody is ever sent, or decodes, a frame of another page: onTick answers the
\* feed a frame came in by (filter_engine.cpp:267), and no socket changes hands.
THEOREM FilterRepliesPrivate == Spec => []RepliesPrivate
<1>1. FInv => RepliesPrivate
  BY DEF FInv, OwnsMail, RepliesPrivate, RepliesOf
<1> QED BY <1>1, FilterInvariant, PTL

\* The figures of every feed add up at any time (filter_engine.hpp Feed).
THEOREM FilterFramesAccounted == Spec => []FramesAccounted
<1>1. FInv => FramesAccounted
  BY DEF FInv
<1> QED BY <1>1, FilterInvariant, PTL

\* A page that has heard everything labels its stream by the host's
\* configuration (pushConfig, filter_engine.cpp:178).
THEOREM FilterConfigCurrent == Spec => []ConfigCurrent
<1>1. ASSUME FInv, NEW p \in Pages, page[p].sock \in members, down[page[p].sock] = <<>>
      PROVE  page[p].config = config
  <2>1. Teaches(<<>>, page[p].config, config)
    BY <1>1 DEF FInv, Labelled
  <2> QED BY <2>1 DEF Teaches
<1>2. FInv => ConfigCurrent
  BY <1>1 DEF ConfigCurrent
<1> QED BY <1>2, FilterInvariant, PTL

\* Whatever order the decoders finish in, the canvas only goes forward
\* (filter.js:97).
THEOREM FilterPaintsForward == Spec => PaintsForward
<1> DEFINE Forward == \A p \in Pages : LET old == page[p].canvas
                                            new == page'[p].canvas
                                        IN new # old => IF new.blank
                                                        THEN new = [old EXCEPT !.blank = TRUE]
                                                        ELSE new.seq > old.seq
<1>1. ASSUME FInv, [Next]_vars PROVE [Forward]_vars
  <2>0. page \in [Pages -> Page]
    BY <1>1 DEF FInv, TypeOK
  <2>1. CASE UNCHANGED vars
    BY <2>1
  <2>2. CASE page' = page
    BY <2>2
  <2>3. ASSUME NEW p \in Pages, NEW r, page' = [page EXCEPT ![p] = r],
               r.canvas # page[p].canvas =>
                 IF r.canvas.blank THEN r.canvas = [page[p].canvas EXCEPT !.blank = TRUE]
                 ELSE r.canvas.seq > page[p].canvas.seq
        PROVE  Forward
    BY <2>0, <2>3
  <2>4. ASSUME NEW p \in Pages,
               Dial(p) \/ Break(p) \/ Hear(p) \/ \E good \in BOOLEAN : SendFrame(p, good)
        PROVE  Forward
    <3>1. page[p] \in Page
      BY <2>0
    <3>2. CASE Dial(p) \/ Break(p) \/ \E good \in BOOLEAN : SendFrame(p, good)
      <4>1. \/ \E c : page' = [page EXCEPT ![p] = [page[p] EXCEPT !.sock = c]]
            \/ \E n : page' = [page EXCEPT ![p] = [page[p] EXCEPT !.seq = n]]
        BY <3>2 DEF Dial, Break, SendFrame
      <4>2. \A x : /\ [page[p] EXCEPT !.sock = x].canvas = page[p].canvas
                   /\ [page[p] EXCEPT !.seq = x].canvas = page[p].canvas
        BY <3>1 DEF Page
      <4> QED BY <2>3, <4>1, <4>2
    <3>3. CASE Hear(p)
      <4>1. \/ page' = page
            \/ \E k \in Configs : page' = [page EXCEPT ![p] = Configured(page[p], k)]
            \/ \E n, fs : page' = [page EXCEPT ![p] =
                             [page[p] EXCEPT !.shown = n, !.decoding = fs]]
        <5> DEFINE m == Head(down[page[p].sock])
        <5>1. m \in Downward
          <6>1. down[page[p].sock] \in Seq(Downward) /\ down[page[p].sock] # <<>>
            BY <1>1, <3>3 DEF FInv, TypeOK, Page, Hear
          <6> QED BY <6>1, Heads
        <5>2. m.type = "filterConfig" => m.config \in Configs
          BY <5>1 DEF Downward
        <5>3. page' = IF m.type = "filterConfig"
                      THEN [page EXCEPT ![p].config = m.config, ![p].canvas.blank = TRUE]
                      ELSE IF m.frame.seq <= page[p].shown THEN page
                      ELSE [page EXCEPT ![p].shown = m.frame.seq, ![p].decoding = @ \cup {m.frame}]
          BY <3>3 DEF Hear
        <5> HIDE DEF m
        <5>4. CASE m.type = "filterConfig"
          <6>1. page' = [page EXCEPT ![p] = Configured(page[p], m.config)]
            BY <2>0, <5>3, <5>4, HearsConfig
          <6> QED BY <5>2, <5>4, <6>1
        <5>5. CASE m.type # "filterConfig"
          BY <2>0, <5>3, <5>5
        <5> QED BY <5>4, <5>5
      <4>2. \A x, y : [page[p] EXCEPT !.shown = x, !.decoding = y].canvas = page[p].canvas
        BY <3>1 DEF Page
      <4>3. ASSUME NEW k \in Configs, page' = [page EXCEPT ![p] = Configured(page[p], k)]
            PROVE  Forward
        <5>1. Configured(page[p], k).canvas = [page[p].canvas EXCEPT !.blank = TRUE]
          BY <3>1, ConfiguredPage
        <5>2. [page[p].canvas EXCEPT !.blank = TRUE].blank
          BY <3>1 DEF Page, Canvas
        <5> QED BY <2>3, <4>3, <5>1, <5>2
      <4>4. ASSUME NEW n, NEW fs, page' = [page EXCEPT ![p] =
                     [page[p] EXCEPT !.shown = n, !.decoding = fs]]
            PROVE  Forward
        BY <2>3, <4>2, <4>4
      <4> QED BY <2>2, <4>1, <4>3, <4>4
    <3> QED BY <2>4, <3>2, <3>3
  <2>5. ASSUME NEW p \in Pages, NEW f \in page[p].decoding, Decoded(p, f)
        PROVE  Forward
    <3>1. page[p] \in Page
      BY <2>0
    <3>2. page' = [page EXCEPT ![p] = [page[p] EXCEPT !.decoding = @ \ {f},
             !.canvas = IF Paintable(p, f)
                         THEN [page |-> f.page, seq |-> f.seq, blank |-> FALSE] ELSE @]]
      BY <2>0, <2>5 DEF Decoded
    <3> QED BY <2>3, <3>1, <3>2 DEF Paintable, Page
  <2> QED BY <1>1, <2>1, <2>2, <2>4, <2>5
          DEF Next, AskPreset, Serve, Notice, Tick, Edit, Reset, Relaunch
<1> QED BY <1>1, FilterInvariant, PTL DEF Spec, PaintsForward

=============================================================================
