----------------------------- MODULE ChatProofs -----------------------------
(***************************************************************************)
(* The generations and the requests behind them, and the frames they put on *)
(* the wire: for any number of pages, connections, prompts, presses and     *)
(* interventions, whatever the backend does.                               *)
(***************************************************************************)
EXTENDS Chat, Induction, FiniteSetTheorems, TLAPS

Gen     == [conn : Conns, msg : Nat \ {0}, acc : SUBSET Nat, req : Nat]
Request == [id : Nat, conn : Conns, msg : Nat \ {0}, phase : {"waiting", "streaming"}]
Asks    == {"join", "send", "reset", "stop"}

Types == /\ mode \in {"stub", "llama", "down"} /\ nextMsg \in Nat \ {0}
         /\ gens \subseteq Gen /\ reqs \subseteq Request
         /\ up \in [Conns -> Seq(Asks)] /\ down \in [Conns -> Seq(Frame)]
         /\ DOMAIN convs = Conns

\* A generation's id was given out, and names the request it waits for.
Numbered == /\ \A g \in gens : /\ g.msg < nextMsg
                               /\ g.req = IF mode = "llama" THEN g.msg ELSE 0
            /\ \A r \in reqs : r.id = r.msg

\* One of each for a connection, and the one for the other.
Single == /\ \A g, h \in gens : g.conn = h.conn \/ g.msg = h.msg => g = h
          /\ \A r, s \in reqs : r.conn = s.conn \/ r.msg = s.msg => r = s
Paired == /\ mode # "llama" => reqs = {}
          /\ mode = "llama" =>
               /\ \A g \in gens : \E r \in reqs : r.conn = g.conn /\ r.msg = g.msg
               /\ \A r \in reqs : \E g \in gens : r.conn = g.conn /\ r.msg = g.msg

GInv == Types /\ Numbered /\ Single /\ Paired

\* Nothing is on its way to a connection that is not open.
Quiet == \A c \in Conns \ open : down[c] = <<>>

\* f may be followed by a frame of reply m.
Before(f, m) == f.msg < m \/ f = Delta(m)
Run(s, i, j) == \A k \in i .. j : s[k].kind \in {"delta", "done"}
Ordered(s) == \A i, j \in 1 .. Len(s) : i < j /\ Run(s, i, j) => Before(s[i], s[j].msg)

\* Every frame in the run that ends s may be followed by one of m.
Open(s, m) == \A i \in 1 .. Len(s) : Run(s, i, Len(s)) => Before(s[i], m)
Wire == \A c \in Conns : /\ Ordered(down[c]) /\ Open(down[c], nextMsg)
                         /\ \A g \in gens : g.conn = c => Open(down[c], g.msg)

CInv == GInv /\ Quiet /\ Wire

-----------------------------------------------------------------------------
(* Lemmas about the wire.                                                  *)

LEMMA Frames ==
  /\ \A m \in Nat : Delta(m) \in Frame /\ Done(m) \in Frame
  /\ \A m \in Nat : Delta(m).msg = m /\ Done(m).msg = m
  /\ Error \in Frame /\ Announce \in Frame
  /\ Error.kind \notin {"delta", "done"} /\ Announce.kind \notin {"delta", "done"}
BY DEF Frame, Delta, Done, Error, Announce

\* A frame of the reply that the wire is open to.
LEMMA OrderedAppend ==
  ASSUME NEW s \in Seq(Frame), NEW f \in Frame, Ordered(s),
         f.kind \in {"delta", "done"} => Open(s, f.msg)
  PROVE  /\ Ordered(Append(s, f))
         /\ \A m \in Nat : Open(s, m) /\ Before(f, m) => Open(Append(s, f), m)
         /\ f.kind \notin {"delta", "done"} => \A m \in Nat : Open(Append(s, f), m)
<1> DEFINE t == Append(s, f)
<1>1. /\ Len(t) = Len(s) + 1 /\ Len(s) \in Nat /\ t[Len(s) + 1] = f
      /\ \A i \in 1 .. Len(s) : t[i] = s[i]
  OBVIOUS
<1> HIDE DEF t
<1>2. \A i, j \in 1 .. Len(s) : Run(t, i, j) => Run(s, i, j)
  BY <1>1 DEF Run
<1>3. \A i \in 1 .. Len(s) : Run(t, i, Len(t)) => Run(s, i, Len(s)) /\ f.kind \in {"delta", "done"}
  BY <1>1 DEF Run
<1>4. Run(t, Len(t), Len(t)) => f.kind \in {"delta", "done"}
  BY <1>1 DEF Run
<1>5. Ordered(t)
  <2> SUFFICES ASSUME NEW i \in 1 .. Len(t), NEW j \in 1 .. Len(t), i < j, Run(t, i, j)
               PROVE  Before(t[i], t[j].msg)
    BY DEF Ordered
  <2>1. i \in 1 .. Len(s) /\ t[i] = s[i]
    BY <1>1
  <2>2. CASE j \in 1 .. Len(s)
    BY <1>1, <1>2, <2>1, <2>2 DEF Ordered
  <2>3. CASE j = Len(t)
    <3>1. Run(s, i, Len(s)) /\ f.kind \in {"delta", "done"}
      BY <1>3, <2>1, <2>3
    <3> QED BY <1>1, <2>1, <2>3, <3>1 DEF Open
  <2> QED BY <1>1, <2>2, <2>3
<1>6. ASSUME NEW m \in Nat, Open(s, m), Before(f, m) PROVE Open(t, m)
  <2> SUFFICES ASSUME NEW i \in 1 .. Len(t), Run(t, i, Len(t))
               PROVE  Before(t[i], m)
    BY DEF Open
  <2>1. CASE i \in 1 .. Len(s)
    BY <1>1, <1>3, <1>6, <2>1 DEF Open
  <2>2. CASE i = Len(t)
    BY <1>1, <1>6, <2>2
  <2> QED BY <1>1, <2>1, <2>2
<1>7. ASSUME f.kind \notin {"delta", "done"}, NEW m \in Nat PROVE Open(t, m)
  BY <1>1, <1>3, <1>4, <1>7 DEF Open
<1> QED BY <1>5, <1>6, <1>7 DEF t

\* What is heard is forgotten.
LEMMA OrderedTail ==
  ASSUME NEW s \in Seq(Frame), s # <<>>
  PROVE  /\ Tail(s) \in Seq(Frame)
         /\ Ordered(s) => Ordered(Tail(s))
         /\ \A m \in Nat : Open(s, m) => Open(Tail(s), m)
<1> DEFINE t == Tail(s)
<1>1. /\ t \in Seq(Frame) /\ Len(t) = Len(s) - 1 /\ Len(s) \in Nat \ {0}
      /\ \A i \in 1 .. Len(t) : t[i] = s[i + 1]
  OBVIOUS
<1> HIDE DEF t
<1>2. \A i, j \in 1 .. Len(t) : Run(t, i, j) => Run(s, i + 1, j + 1)
  <2> SUFFICES ASSUME NEW i \in 1 .. Len(t), NEW j \in 1 .. Len(t), Run(t, i, j),
                      NEW k \in i + 1 .. j + 1
               PROVE  s[k].kind \in {"delta", "done"}
    BY DEF Run
  <2>1. k - 1 \in i .. j /\ k - 1 \in 1 .. Len(t) /\ t[k - 1] = s[(k - 1) + 1]
    BY <1>1
  <2> QED BY <2>1 DEF Run
<1>3. Ordered(s) => Ordered(t)
  BY <1>1, <1>2 DEF Ordered
<1>4. ASSUME NEW m \in Nat, Open(s, m) PROVE Open(t, m)
  BY <1>1, <1>2, <1>4 DEF Open
<1> QED BY <1>1, <1>3, <1>4 DEF t

LEMMA OpenNothing == Ordered(<<>>) /\ \A m : Open(<<>>, m)
BY DEF Ordered, Open

\* A wire open to a reply is open to a later one.
LEMMA OpenLater ==
  ASSUME NEW s \in Seq(Frame), NEW m \in Nat, NEW n \in Nat, m < n, Open(s, m)
  PROVE  Open(s, n)
<1>1. ASSUME NEW i \in 1 .. Len(s), Before(s[i], m) PROVE Before(s[i], n)
  <2>0. s[i] \in Frame
    OBVIOUS
  <2>1. s[i].msg \in Nat /\ Delta(m).msg = m
    BY <2>0, Frames DEF Frame
  <2> QED BY <1>1, <2>1 DEF Before
<1> QED BY <1>1 DEF Open

\* A wire told one frame, or none.
LEMMA ToldWire ==
  ASSUME Types, Wire, NEW c \in Conns, NEW f \in Frame,
         f.kind \in {"delta", "done"} => Open(down[c], f.msg),
         Tell(c, <<f>>)
  PROVE  /\ down' \in [Conns -> Seq(Frame)]
         /\ \A d \in Conns \ {c} : down'[d] = down[d]
         /\ Ordered(down'[c])
         /\ \A m \in Nat : Open(down[c], m) /\ Before(f, m) => Open(down'[c], m)
         /\ f.kind \notin {"delta", "done"} => \A m \in Nat : Open(down'[c], m)
<1>1. down[c] \in Seq(Frame) /\ down \in [Conns -> Seq(Frame)] /\ Ordered(down[c])
  BY DEF Types, Wire
<1>2. down[c] \o <<f>> = Append(down[c], f)
  BY <1>1
<1>3. down' = [down EXCEPT ![c] = Append(down[c], f)]
  BY <1>2 DEF Tell
<1>4. Append(down[c], f) \in Seq(Frame)
  BY <1>1
<1>5. /\ down' \in [Conns -> Seq(Frame)] /\ down'[c] = Append(down[c], f)
      /\ \A d \in Conns \ {c} : down'[d] = down[d]
  BY <1>1, <1>3, <1>4
<1> QED BY <1>1, <1>5, OrderedAppend

LEMMA ToldNothing ==
  ASSUME Types, NEW c \in Conns, Tell(c, <<>>)
  PROVE  down' = down
<1>1. down[c] \in Seq(Frame) /\ down \in [Conns -> Seq(Frame)]
  BY DEF Types
<1>2. down[c] \o <<>> = down[c]
  BY <1>1
<1> QED BY <1>1, <1>2 DEF Tell

-----------------------------------------------------------------------------
(* Generations and their requests.                                         *)

\* What removeGen with an abort takes away is all of the connection's.
LEMMA AbortAll ==
  ASSUME GInv, NEW c \in Conns, Abort(c)
  PROVE  gens' = {g \in gens : g.conn # c} /\ reqs' = {r \in reqs : r.conn # c}
<1>1. gens' = {g \in gens : g.conn # c}
  BY DEF Abort, GenOf
<1>2. ASSUME NEW r \in reqs
      PROVE  r.conn = c <=> \E g \in GenOf(c) : r \in RequestOf(g)
  <2>1. mode = "llama" /\ r.id = r.msg
    BY DEF GInv, Paired, Numbered
  <2>2. PICK h \in gens : r.conn = h.conn /\ r.msg = h.msg
    BY <2>1 DEF GInv, Paired
  <2>3. \A g \in gens : g.req = g.msg
    BY <2>1 DEF GInv, Numbered
  <2>4. ASSUME r.conn = c PROVE h \in GenOf(c) /\ r \in RequestOf(h)
    BY <2>1, <2>2, <2>3, <2>4 DEF GenOf, RequestOf
  <2>5. ASSUME NEW g \in GenOf(c), r \in RequestOf(g) PROVE r.conn = c
    <3>1. g \in gens /\ g.conn = c /\ r.msg = g.msg
      BY <2>1, <2>3, <2>5 DEF GenOf, RequestOf
    <3>2. g = h
      BY <2>2, <3>1 DEF GInv, Single
    <3> QED BY <2>2, <3>1, <3>2
  <2> QED BY <2>4, <2>5
<1>3. reqs' = {r \in reqs : r.conn # c}
  BY <1>2 DEF Abort
<1> QED BY <1>1, <1>3

\* So is what ends with a reply that ends, well or not.
LEMMA EndAll ==
  ASSUME GInv, NEW r \in reqs, gens' = gens \ GenOf(r.conn), reqs' = reqs \ {r}
  PROVE  gens' = {g \in gens : g.conn # r.conn} /\ reqs' = {q \in reqs : q.conn # r.conn}
BY DEF GenOf, GInv, Single

\* Without a connection's, the rest stand.
LEMMA RestStands ==
  ASSUME GInv, NEW c, gens' = {g \in gens : g.conn # c}, reqs' = {r \in reqs : r.conn # c},
         mode' = mode, nextMsg' \in Nat, nextMsg <= nextMsg'
  PROVE  Numbered' /\ Single' /\ Paired' /\ gens' \subseteq Gen /\ reqs' \subseteq Request
<1>1. gens \subseteq Gen /\ reqs \subseteq Request /\ nextMsg \in Nat
  BY DEF GInv, Types
<1>2. \A g \in gens : g.msg \in Nat /\ g.msg < nextMsg'
  BY <1>1 DEF GInv, Numbered, Gen
<1>3. Numbered'
  BY <1>2 DEF GInv, Numbered
<1>4. Single' /\ Paired'
  BY DEF GInv, Single, Paired
<1> QED BY <1>1, <1>3, <1>4

\* The generations once the connection's took a token.
WithToken(c, m) == {IF g.conn = c THEN [g EXCEPT !.acc = @ \cup {m}] ELSE g : g \in gens}

\* A token changes what a generation has, not whose it is.
LEMMA TokenStands ==
  ASSUME GInv, NEW c, NEW m \in Nat, UNCHANGED <<mode, nextMsg, reqs>>,
         gens' = WithToken(c, m)
  PROVE  /\ Numbered' /\ Single' /\ Paired' /\ gens' \subseteq Gen
         /\ \A h \in gens' : \E g \in gens : h.conn = g.conn /\ h.msg = g.msg
<1> DEFINE t(g) == IF g.conn = c THEN [g EXCEPT !.acc = @ \cup {m}] ELSE g
<1>1. \A g \in gens : /\ t(g) \in Gen /\ t(g).conn = g.conn /\ t(g).msg = g.msg
                      /\ t(g).req = g.req
  BY DEF GInv, Types, Gen
<1>2. gens' = {t(g) : g \in gens}
  BY DEF WithToken
<1> HIDE DEF t
<1>3. Numbered' /\ gens' \subseteq Gen
  BY <1>1, <1>2 DEF GInv, Numbered
<1>4. Single'
  <2>1. \A g, h \in gens : t(g).conn = t(h).conn \/ t(g).msg = t(h).msg => t(g) = t(h)
    BY <1>1 DEF GInv, Single
  <2> QED BY <1>2, <2>1 DEF GInv, Single
<1>5. Paired'
  <2>1. mode # "llama" => reqs' = {}
    BY DEF GInv, Paired
  <2>2. mode = "llama" => \A g \in gens : \E r \in reqs : r.conn = t(g).conn /\ r.msg = t(g).msg
    BY <1>1 DEF GInv, Paired
  <2>3. mode = "llama" => \A r \in reqs : \E g \in gens : r.conn = t(g).conn /\ r.msg = t(g).msg
    BY <1>1 DEF GInv, Paired
  <2>4. mode' = "llama" => \A h \in gens' : \E r \in reqs' : r.conn = h.conn /\ r.msg = h.msg
    BY <1>2, <2>2
  <2>5. mode' = "llama" => \A r \in reqs' : \E h \in gens' : r.conn = h.conn /\ r.msg = h.msg
    <3> SUFFICES ASSUME mode = "llama", NEW r \in reqs
                 PROVE  \E h \in gens' : r.conn = h.conn /\ r.msg = h.msg
      OBVIOUS
    <3>1. PICK g \in gens : r.conn = t(g).conn /\ r.msg = t(g).msg
      BY <2>3
    <3> QED BY <1>2, <3>1
  <2> QED BY <2>1, <2>4, <2>5 DEF Paired
<1>6. \A h \in gens' : \E g \in gens : h.conn = g.conn /\ h.msg = g.msg
  BY <1>1, <1>2
<1> QED BY <1>3, <1>4, <1>5, <1>6

\* The headers change neither.
LEMMA HeadersStand ==
  ASSUME GInv, NEW r \in reqs, UNCHANGED <<mode, nextMsg, gens>>,
         reqs' = (reqs \ {r}) \cup {[r EXCEPT !.phase = "streaming"]}
  PROVE  Numbered' /\ Single' /\ Paired' /\ reqs' \subseteq Request
<1> DEFINE t == [r EXCEPT !.phase = "streaming"]
<1>1. t \in Request /\ t.conn = r.conn /\ t.msg = r.msg /\ t.id = r.id
  BY DEF GInv, Types, Request
<1>2. reqs' = (reqs \ {r}) \cup {t}
  OBVIOUS
<1> HIDE DEF t
<1> QED BY <1>1, <1>2 DEF GInv, Types, Numbered, Single, Paired

\* A new generation of a connection that had none, with its request.
LEMMA NewStands ==
  ASSUME GInv, NEW c \in Conns, GenOf(c) = {}, mode' = mode, mode # "down",
         nextMsg' = nextMsg + 1,
         gens' = gens \cup {[conn |-> c, msg |-> nextMsg, acc |-> {},
                             req |-> IF mode = "llama" THEN nextMsg ELSE 0]},
         reqs' = IF mode = "stub" THEN reqs
                 ELSE reqs \cup {[id |-> IF mode = "llama" THEN nextMsg ELSE 0, conn |-> c,
                                  msg |-> nextMsg, phase |-> "waiting"]}
  PROVE  Numbered' /\ Single' /\ Paired' /\ gens' \subseteq Gen /\ reqs' \subseteq Request
<1>1. nextMsg \in Nat \ {0} /\ mode \in {"stub", "llama"}
  BY DEF GInv, Types
<1>2. \A g \in gens : g.conn # c /\ g.msg \in Nat /\ g.msg < nextMsg
  BY DEF GenOf, GInv, Types, Gen, Numbered
<1>3. \A r \in reqs : r.conn # c /\ r.msg # nextMsg
  BY <1>1, <1>2 DEF GInv, Paired
<1> DEFINE g == [conn |-> c, msg |-> nextMsg, acc |-> {},
                 req |-> IF mode = "llama" THEN nextMsg ELSE 0]
           r == [id |-> nextMsg, conn |-> c, msg |-> nextMsg, phase |-> "waiting"]
<1>4. g \in Gen /\ g.conn = c /\ g.msg = nextMsg /\ g.req = IF mode = "llama" THEN g.msg ELSE 0
  BY <1>1 DEF Gen
<1>5. r \in Request /\ r.id = r.msg /\ r.conn = c /\ r.msg = nextMsg
  BY <1>1 DEF Request
<1>6. gens' = gens \cup {g} /\ reqs' = IF mode = "stub" THEN reqs ELSE reqs \cup {r}
  BY <1>1
<1> HIDE DEF g, r
<1>7. gens' \subseteq Gen /\ reqs' \subseteq Request
  BY <1>4, <1>5, <1>6 DEF GInv, Types
<1>8. \A q \in reqs' : q.id = q.msg
  BY <1>5, <1>6 DEF GInv, Numbered
<1>9. \A h \in gens' : h.msg < nextMsg' /\ h.req = IF mode' = "llama" THEN h.msg ELSE 0
  BY <1>1, <1>2, <1>4, <1>6 DEF GInv, Numbered
<1>10. \A h, k \in gens' : h.conn = k.conn \/ h.msg = k.msg => h = k
  BY <1>1, <1>2, <1>4, <1>6 DEF GInv, Single
<1>11. \A h, k \in reqs' : h.conn = k.conn \/ h.msg = k.msg => h = k
  BY <1>3, <1>5, <1>6 DEF GInv, Single
<1>12. Paired'
  <2>1. CASE mode = "stub"
    BY <1>6, <2>1 DEF GInv, Paired
  <2>2. CASE mode = "llama"
    <3>1. \A h \in gens' : \E q \in reqs' : q.conn = h.conn /\ q.msg = h.msg
      BY <1>4, <1>5, <1>6, <2>2 DEF GInv, Paired
    <3>2. \A q \in reqs' : \E h \in gens' : q.conn = h.conn /\ q.msg = h.msg
      BY <1>4, <1>5, <1>6, <2>2 DEF GInv, Paired
    <3> QED BY <2>2, <3>1, <3>2 DEF Paired
  <2> QED BY <1>1, <2>1, <2>2
<1> QED BY <1>7, <1>8, <1>9, <1>10, <1>11, <1>12 DEF Numbered, Single

-----------------------------------------------------------------------------
(* The pages.                                                              *)

LEMMA InitCInv == ChatInit => CInv
<1> SUFFICES ASSUME ChatInit PROVE CInv
  OBVIOUS
<1> USE DEF ChatInit, Init
<1>1. Types
  BY DEF Types
<1>2. Numbered /\ Single /\ Paired /\ Quiet
  BY DEF Numbered, Single, Paired, Quiet
<1>3. Wire
  BY OpenNothing DEF Wire
<1> QED BY <1>1, <1>2, <1>3 DEF CInv, GInv

\* What is put on the way to the host is something it is asked.
LEMMA SendType ==
  ASSUME Types, NEW p, NEW m \in Asks, Send(p, m)
  PROVE  up' \in [Conns -> Seq(Asks)]
<1>1. CASE Sock(p) = NoConn
  BY <1>1 DEF Send, Types
<1>2. CASE Sock(p) # NoConn
  <2>1. up' = [up EXCEPT ![Sock(p)] = Append(@, m)]
    BY <1>2 DEF Send
  <2>2. up \in [Conns -> Seq(Asks)] /\ \A c \in Conns : Append(up[c], m) \in Seq(Asks)
    BY DEF Types
  <2> QED BY <2>1, <2>2
<1> QED BY <1>1, <1>2

\* A step that leaves the engine and the wires alone, while connections open.
LEMMA AsideStep ==
  ASSUME CInv, UNCHANGED <<mode, gens, reqs, nextMsg, down>>, DOMAIN convs' = Conns,
         open \subseteq open', up' \in [Conns -> Seq(Asks)]
  PROVE  CInv'
<1>1. GInv'
  BY DEF CInv, GInv, Types, Numbered, Single, Paired
<1>2. Quiet' /\ Wire'
  BY DEF CInv, Quiet, Wire
<1> QED BY <1>1, <1>2 DEF CInv

LEMMA PageStep ==
  ASSUME CInv, NEW p \in Pages,
         \/ \E c \in Conns : Dial(p, c)
         \/ Type(p) \/ PressStop(p) \/ PressNew(p) \/ DropSocket(p)
  PROVE  CInv'
<1>0. Types
  BY DEF CInv, GInv
<1>1. UNCHANGED engineVars /\ down' = down /\ open \subseteq open'
  BY DEF Dial, Connect, Type, PressStop, PressNew, DropSocket, vars
<1>2. up' \in [Conns -> Seq(Asks)]
  <2>1. ASSUME NEW c \in Conns, Dial(p, c) PROVE up' \in [Conns -> Seq(Asks)]
    <3>1. <<"join">> \in Seq(Asks) /\ up \in [Conns -> Seq(Asks)]
      BY <1>0 DEF Asks, Types
    <3> QED BY <2>1, <3>1 DEF Dial
  <2>2. CASE Type(p) \/ PressStop(p) \/ PressNew(p)
    <3>1. \E m \in Asks : Send(p, m)
      BY <2>2 DEF Type, PressStop, PressNew, Asks
    <3> QED BY <1>0, <3>1, SendType
  <2>3. CASE DropSocket(p)
    BY <1>0, <2>3 DEF DropSocket, Types
  <2> QED BY <2>1, <2>2, <2>3
<1>3. DOMAIN convs' = Conns
  BY <1>0, <1>1 DEF engineVars, Types
<1> QED BY <1>1, <1>2, <1>3, AsideStep DEF engineVars

LEMMA HearStep ==
  ASSUME CInv, NEW p \in Pages, Hear(p)
  PROVE  CInv'
<1> DEFINE c == Sock(p)
<1>0. /\ GInv /\ Quiet /\ Wire /\ Types /\ UNCHANGED <<vars, engineVars, up>>
      /\ down[c] # <<>> /\ down' = [down EXCEPT ![c] = Tail(@)]
  BY DEF CInv, GInv, Hear
<1> HIDE DEF c
<1>1. CASE c \notin Conns
  <2>1. down' = down
    BY <1>0, <1>1 DEF Types
  <2> QED BY <1>0, <2>1, AsideStep DEF Types, vars, engineVars
<1>2. CASE c \in Conns
  <2>1. down[c] \in Seq(Frame) /\ Tail(down[c]) \in Seq(Frame)
    BY <1>0, <1>2, OrderedTail DEF Types
  <2>2. /\ down' \in [Conns -> Seq(Frame)] /\ down'[c] = Tail(down[c])
        /\ \A d \in Conns \ {c} : down'[d] = down[d]
    BY <1>0, <1>2, <2>1 DEF Types
  <2>3. GInv'
    BY <1>0, <2>2 DEF GInv, Types, Numbered, Single, Paired, engineVars
  <2>4. Quiet'
    BY <1>0, <2>2 DEF Quiet, vars
  <2>5. \A g \in gens : g.msg \in Nat
    BY <1>0 DEF Types, Gen
  <2>6. \A m \in Nat : Open(down[c], m) => Open(down'[c], m)
    BY <1>0, <2>1, <2>2, OrderedTail
  <2>7. Ordered(down'[c])
    BY <1>0, <1>2, <2>1, <2>2, OrderedTail DEF Wire
  <2>8. ASSUME NEW d \in Conns
        PROVE  /\ Ordered(down'[d]) /\ Open(down'[d], nextMsg)
               /\ \A g \in gens : g.conn = d => Open(down'[d], g.msg)
    <3>1. CASE d = c
      BY <1>0, <2>5, <2>6, <2>7, <3>1 DEF Wire, Types
    <3>2. CASE d # c
      BY <1>0, <2>2, <3>2 DEF Wire
    <3> QED BY <3>1, <3>2
  <2>9. Wire'
    BY <1>0, <2>8 DEF Wire, engineVars
  <2> QED BY <2>3, <2>4, <2>9 DEF CInv
<1> QED BY <1>1, <1>2

-----------------------------------------------------------------------------
(* What becomes of a connection's reply.                                   *)

\* It is gone, and its page was told at most that.
LEMMA RemovedStep ==
  ASSUME CInv, NEW c \in Conns, UNCHANGED <<mode, nextMsg, open>>, DOMAIN convs' = Conns,
         up' \in [Conns -> Seq(Asks)],
         gens' = {g \in gens : g.conn # c}, reqs' = {r \in reqs : r.conn # c},
         \/ down' = down
         \/ c \in open /\ Tell(c, <<Error>>)
         \/ \E m \in Nat : /\ c \in open /\ m < nextMsg /\ Open(down[c], m)
                           /\ Tell(c, <<Done(m)>>)
  PROVE  CInv'
<1>0. GInv /\ Types /\ Quiet /\ Wire /\ nextMsg \in Nat
  BY DEF CInv, GInv, Types
<1>1. /\ down' \in [Conns -> Seq(Frame)] /\ \A d \in Conns \ {c} : down'[d] = down[d]
      /\ Ordered(down'[c]) /\ Open(down'[c], nextMsg) /\ (down'[c] = down[c] \/ c \in open)
  <2>1. CASE down' = down
    BY <1>0, <2>1 DEF Types, Wire
  <2>2. CASE c \in open /\ Tell(c, <<Error>>)
    BY <1>0, <2>2, Frames, ToldWire
  <2>3. ASSUME NEW m \in Nat, c \in open, m < nextMsg, Open(down[c], m), Tell(c, <<Done(m)>>)
        PROVE  /\ down' \in [Conns -> Seq(Frame)] /\ \A d \in Conns \ {c} : down'[d] = down[d]
               /\ Ordered(down'[c]) /\ Open(down'[c], nextMsg)
    <3>1. Open(down[c], nextMsg) /\ Before(Done(m), nextMsg)
      BY <1>0, <2>3, Frames DEF Wire, Before
    <3>2. Done(m) \in Frame /\ Done(m).msg = m
      BY Frames
    <3> QED BY <1>0, <2>3, <3>1, <3>2, ToldWire
  <2> QED BY <2>1, <2>2, <2>3
<1>2. GInv'
  <2>1. nextMsg' \in Nat /\ nextMsg <= nextMsg'
    BY <1>0
  <2>2. Numbered' /\ Single' /\ Paired' /\ gens' \subseteq Gen /\ reqs' \subseteq Request
    BY <1>0, <2>1, RestStands
  <2> QED BY <1>0, <1>1, <2>2 DEF GInv, Types
<1>3. Quiet'
  BY <1>0, <1>1 DEF Quiet
<1>4. Wire'
  BY <1>0, <1>1 DEF Wire
<1> QED BY <1>2, <1>3, <1>4 DEF CInv

\* A token of it.
LEMMA TokenStep ==
  ASSUME CInv, NEW g \in gens, OnDelta(g.conn, g.msg), UNCHANGED <<mode, nextMsg, open, reqs, convs, up>>
  PROVE  CInv'
<1> DEFINE c == g.conn
           m == g.msg
<1>0. GInv /\ Types /\ Quiet /\ Wire /\ nextMsg \in Nat /\ c \in Conns /\ m \in Nat /\ m < nextMsg
  BY DEF CInv, GInv, Types, Gen, Numbered
<1>1. Open(down[c], m) /\ Open(down[c], nextMsg)
  BY <1>0 DEF Wire
<1>2. /\ down' \in [Conns -> Seq(Frame)] /\ \A d \in Conns \ {c} : down'[d] = down[d]
      /\ Ordered(down'[c]) /\ Open(down'[c], nextMsg) /\ Open(down'[c], m)
      /\ (down'[c] = down[c] \/ c \in open)
  <2>1. CASE c \notin open
    <3>1. Tell(c, <<>>)
      BY <2>1 DEF OnDelta
    <3>2. down' = down
      BY <1>0, <3>1, ToldNothing
    <3> QED BY <1>0, <1>1, <3>2 DEF Types, Wire
  <2>2. CASE c \in open
    <3>1. Tell(c, <<Delta(m)>>)
      BY <2>2 DEF OnDelta
    <3>2. Delta(m) \in Frame /\ Delta(m).msg = m /\ Before(Delta(m), m) /\ Before(Delta(m), nextMsg)
      BY <1>0, Frames DEF Before
    <3> QED BY <1>0, <1>1, <2>2, <3>1, <3>2, ToldWire
  <2> QED BY <2>1, <2>2
<1>3. gens' = WithToken(c, m)
  BY DEF OnDelta, WithToken
<1> HIDE DEF c, m
<1>4. /\ Numbered' /\ Single' /\ Paired' /\ gens' \subseteq Gen
      /\ \A h \in gens' : \E k \in gens : h.conn = k.conn /\ h.msg = k.msg
  <2>1. UNCHANGED <<mode, nextMsg, reqs>>
    OBVIOUS
  <2> QED BY <1>0, <1>3, <2>1, TokenStands
<1>5. GInv'
  BY <1>0, <1>2, <1>4 DEF GInv, Types
<1>6. Quiet'
  BY <1>0, <1>2 DEF Quiet
<1>7. ASSUME NEW h \in gens', NEW d \in Conns, h.conn = d PROVE Open(down'[d], h.msg)
  <2>1. PICK k \in gens : h.conn = k.conn /\ h.msg = k.msg
    BY <1>4
  <2>2. CASE d = c
    <3>1. k.msg = m
      BY <1>0, <1>7, <2>1, <2>2 DEF GInv, Single, c, m
    <3> QED BY <1>2, <2>1, <2>2, <3>1
  <2>3. CASE d # c
    BY <1>0, <1>2, <1>7, <2>1, <2>3 DEF Wire
  <2> QED BY <2>2, <2>3
<1>8. Wire'
  BY <1>0, <1>2, <1>7 DEF Wire
<1> QED BY <1>5, <1>6, <1>8 DEF CInv

\* A new one.
LEMMA NewStep ==
  ASSUME CInv, NEW c \in Conns, GenOf(c) = {}, mode # "down", mode' = mode, open' = open,
         DOMAIN convs' = Conns, up' \in [Conns -> Seq(Asks)], down' = down,
         nextMsg' = nextMsg + 1,
         gens' = gens \cup {[conn |-> c, msg |-> nextMsg, acc |-> {},
                             req |-> IF mode = "llama" THEN nextMsg ELSE 0]},
         reqs' = IF mode = "stub" THEN reqs
                 ELSE reqs \cup {[id |-> IF mode = "llama" THEN nextMsg ELSE 0, conn |-> c,
                                  msg |-> nextMsg, phase |-> "waiting"]}
  PROVE  CInv'
<1>0. GInv /\ Types /\ Quiet /\ Wire /\ nextMsg \in Nat \ {0}
  BY DEF CInv, GInv, Types
<1>1. /\ Numbered' /\ Single' /\ Paired' /\ gens' \subseteq Gen /\ reqs' \subseteq Request
  BY <1>0, NewStands
<1>2. GInv'
  BY <1>0, <1>1 DEF GInv, Types
<1>3. \A h \in gens' : h \in gens \/ h.msg = nextMsg
  OBVIOUS
<1>4. \A d \in Conns : down[d] \in Seq(Frame) /\ Open(down[d], nextMsg)
  BY <1>0 DEF Types, Wire
<1>5. \A d \in Conns : Open(down[d], nextMsg + 1)
  BY <1>0, <1>4, OpenLater
<1>6. Wire' /\ Quiet'
  BY <1>0, <1>3, <1>4, <1>5 DEF Wire, Quiet
<1> QED BY <1>2, <1>6 DEF CInv

-----------------------------------------------------------------------------
(* The handlers.                                                           *)

LEMMA ServeUp ==
  ASSUME CInv, NEW c \in Conns, Serve(c)
  PROVE  /\ Head(up[c]) \in Asks /\ up' \in [Conns -> Seq(Asks)] /\ mode' = mode
         /\ open' = open /\ c \in open
<1>1. up[c] \in Seq(Asks) /\ up[c] # <<>> /\ up' = [up EXCEPT ![c] = Tail(@)]
  BY DEF CInv, GInv, Types, Serve
<1>2. Head(up[c]) \in Asks /\ Tail(up[c]) \in Seq(Asks)
  BY <1>1
<1>3. up' \in [Conns -> Seq(Asks)]
  BY <1>1, <1>2 DEF CInv, GInv, Types
<1>4. CASE Head(up[c]) = "join"
  <2>1. HandleJoin(c, Unnamed)
    BY <1>4 DEF Serve
  <2>2. open' = open /\ c \in open
    BY <2>1 DEF HandleJoin, Reconfirm, Take, Spectate
  <2> QED BY <1>2, <1>3, <2>2 DEF Serve
<1>5. CASE Head(up[c]) \in {"send", "reset", "stop"}
  <2>1. Relay(c)
    BY <1>5 DEF Serve
  <2> QED BY <1>2, <1>3, <2>1 DEF Serve, Relay
<1> QED BY <1>2, <1>4, <1>5 DEF Asks

LEMMA SendStep ==
  ASSUME CInv, NEW c \in Conns, Serve(c), ChatSend(c)
  PROVE  CInv'
<1>0. /\ GInv /\ Types /\ Quiet /\ Wire /\ mode \in {"stub", "llama", "down"} /\ nextMsg \in Nat
      /\ c \in open /\ open' = open /\ mode' = mode /\ up' \in [Conns -> Seq(Asks)]
  BY ServeUp DEF CInv, GInv, Types
<1>1. ASSUME Tell(c, <<Error>>), UNCHANGED <<gens, reqs>>, nextMsg' \in Nat \ {0}, nextMsg <= nextMsg',
             DOMAIN convs' = Conns
      PROVE  CInv'
  <2>1. /\ down' \in [Conns -> Seq(Frame)] /\ \A d \in Conns \ {c} : down'[d] = down[d]
        /\ Ordered(down'[c]) /\ \A m \in Nat : Open(down'[c], m)
    BY <1>0, <1>1, Frames, ToldWire
  <2>2. \A g \in gens : g.msg \in Nat /\ g.msg < nextMsg'
    BY <1>0, <1>1 DEF GInv, Types, Gen, Numbered
  <2>3. GInv'
    BY <1>0, <1>1, <2>1, <2>2 DEF GInv, Types, Numbered, Single, Paired
  <2>4. Quiet'
    BY <1>0, <2>1 DEF Quiet
  <2>5. \A d \in Conns : down[d] \in Seq(Frame) /\ Open(down[d], nextMsg)
    BY <1>0 DEF Types, Wire
  <2>6. \A d \in Conns : Open(down[d], nextMsg')
    <3>1. CASE nextMsg = nextMsg'
      BY <2>5, <3>1
    <3>2. CASE nextMsg < nextMsg'
      BY <1>0, <1>1, <2>5, <3>2, OpenLater
    <3> QED BY <1>0, <1>1, <3>1, <3>2
  <2>7. Wire'
    BY <1>0, <1>1, <2>1, <2>2, <2>6 DEF Wire
  <2> QED BY <2>3, <2>4, <2>7 DEF CInv
<1>2. CASE MayRefuse(c) /\ Tell(c, <<Error>>) /\ UNCHANGED <<convs, gens, reqs, nextMsg>>
  BY <1>0, <1>1, <1>2 DEF Types
<1>3. CASE ~Refuses(c) /\ StartGen(c)
  <2>1. GenOf(c) = {} /\ mode # "down" /\ nextMsg' = nextMsg + 1 /\ DOMAIN convs' = Conns
    BY <1>0, <1>3 DEF Refuses, StartGen, Types
  <2>2. CASE Tell(c, <<Error>>) /\ UNCHANGED <<gens, reqs>>
    BY <1>0, <1>1, <2>1, <2>2
  <2>3. CASE ~(Tell(c, <<Error>>) /\ UNCHANGED <<gens, reqs>>)
    BY <1>0, <1>3, <2>1, <2>3, NewStep DEF StartGen
  <2> QED BY <2>2, <2>3
<1> QED BY <1>2, <1>3 DEF ChatSend

LEMMA StopStep ==
  ASSUME CInv, NEW c \in Conns, Serve(c), ChatReset(c) \/ ChatStop(c)
  PROVE  CInv'
<1>0. /\ GInv /\ Types /\ Quiet /\ Wire
      /\ c \in open /\ open' = open /\ mode' = mode /\ up' \in [Conns -> Seq(Asks)]
  BY ServeUp DEF CInv, GInv
<1>1. DOMAIN convs' = Conns /\ nextMsg' = nextMsg
  BY <1>0 DEF ChatReset, ChatStop, Types
<1>2. CASE ChatReset(c)
  <2>1. Abort(c) /\ down' = down
    BY <1>2 DEF ChatReset
  <2> QED BY <1>0, <1>1, <2>1, AbortAll, RemovedStep
<1>3. CASE ChatStop(c) /\ GenOf(c) = {}
  <2>1. UNCHANGED <<convs, gens, reqs, nextMsg, down>>
    BY <1>3 DEF ChatStop
  <2> QED BY <1>0, <1>1, <2>1, AsideStep
<1>4. ASSUME NEW g \in GenOf(c), Tell(c, <<Done(g.msg)>>), Abort(c)
      PROVE  CInv'
  <2>1. g \in gens /\ g.conn = c /\ g.msg \in Nat /\ g.msg < nextMsg
    BY <1>0 DEF GenOf, GInv, Types, Gen, Numbered
  <2>2. Open(down[c], g.msg)
    BY <1>0, <2>1 DEF Wire
  <2>3. gens' = {h \in gens : h.conn # c} /\ reqs' = {r \in reqs : r.conn # c}
    BY <1>0, <1>4, AbortAll
  <2> QED BY <1>0, <1>1, <1>4, <2>1, <2>2, <2>3, RemovedStep
<1> QED BY <1>2, <1>3, <1>4 DEF ChatStop

LEMMA ServeStep ==
  ASSUME CInv, NEW c \in Conns, Serve(c)
  PROVE  CInv'
<1>1. CASE Head(up[c]) = "join"
  <2>1. UNCHANGED <<convs, gens, reqs, nextMsg, down>>
    BY <1>1 DEF Serve
  <2>2. DOMAIN convs = Conns
    BY DEF CInv, GInv, Types
  <2> QED BY <2>1, <2>2, ServeUp, AsideStep
<1>2. CASE Head(up[c]) = "send"
  BY <1>2, SendStep DEF Serve
<1>3. CASE Head(up[c]) \in {"reset", "stop"}
  BY <1>3, StopStep DEF Serve
<1> QED BY <1>1, <1>2, <1>3, ServeUp DEF Asks

LEMMA NoticeStep ==
  ASSUME CInv, NEW c \in Conns, Notice(c)
  PROVE  CInv'
<1>0. /\ GInv /\ Types /\ Quiet /\ Wire /\ open' = open \ {c} /\ UNCHANGED <<mode, nextMsg>>
      /\ up' = [up EXCEPT ![c] = <<>>] /\ down' = [down EXCEPT ![c] = <<>>]
      /\ IF c \in members THEN Forget(c) ELSE UNCHANGED <<convs, gens, reqs>>
  BY DEF CInv, GInv, Notice, OnClose
<1>1. up' \in [Conns -> Seq(Asks)]
  <2>1. <<>> \in Seq(Asks) /\ up \in [Conns -> Seq(Asks)]
    BY <1>0 DEF Types
  <2> QED BY <1>0, <2>1
<1>2. /\ down' \in [Conns -> Seq(Frame)] /\ down'[c] = <<>>
      /\ \A d \in Conns \ {c} : down'[d] = down[d]
  <2>1. <<>> \in Seq(Frame) /\ down \in [Conns -> Seq(Frame)]
    BY <1>0 DEF Types
  <2> QED BY <1>0, <2>1
<1>3. DOMAIN convs' = Conns
  BY <1>0 DEF Types, Forget
<1>4. Numbered' /\ Single' /\ Paired' /\ gens' \subseteq gens /\ reqs' \subseteq reqs
  <2>1. CASE c \in members
    <3>1. gens' = {g \in gens : g.conn # c} /\ reqs' = {r \in reqs : r.conn # c}
      BY <1>0, <2>1, AbortAll DEF Forget
    <3>2. nextMsg' \in Nat /\ nextMsg <= nextMsg'
      BY <1>0 DEF Types
    <3> QED BY <1>0, <3>1, <3>2, RestStands
  <2>2. CASE c \notin members
    BY <1>0, <2>2 DEF GInv, Numbered, Single, Paired
  <2> QED BY <2>1, <2>2
<1>5. GInv'
  BY <1>0, <1>1, <1>2, <1>3, <1>4 DEF GInv, Types
<1>6. Quiet'
  BY <1>0, <1>2 DEF Quiet
<1>7. Wire'
  BY <1>0, <1>2, <1>4, OpenNothing DEF Wire
<1> QED BY <1>5, <1>6, <1>7 DEF CInv

\* A reply that ends: done, cut or failed.
LEMMA EndStep ==
  ASSUME CInv, NEW g \in gens, OnDone(g.conn, g.msg) \/ OnError(g.conn),
         reqs' = {r \in reqs : r.conn # g.conn},
         UNCHANGED <<vars, mode, nextMsg, up>>
  PROVE  CInv'
<1> DEFINE c == g.conn
<1>0. /\ GInv /\ Types /\ Wire /\ c \in Conns /\ g.msg \in Nat /\ g.msg < nextMsg
      /\ Open(down[c], g.msg)
  BY DEF CInv, GInv, Types, Gen, Numbered, Wire
<1>1. gens' = {h \in gens : h.conn # c} /\ DOMAIN convs' = Conns
  BY <1>0 DEF OnDone, OnError, GenOf, Types
<1>2. \/ down' = down
      \/ c \in open /\ (Tell(c, <<Done(g.msg)>>) \/ Tell(c, <<Error>>))
  <2>1. CASE c \in open
    BY <2>1 DEF OnDone, OnError
  <2>2. CASE c \notin open
    <3>1. Tell(c, <<>>)
      BY <2>2 DEF OnDone, OnError
    <3> QED BY <1>0, <3>1, ToldNothing
  <2> QED BY <2>1, <2>2
<1>3. UNCHANGED <<mode, nextMsg, open>> /\ up' \in [Conns -> Seq(Asks)]
  BY <1>0 DEF vars, Types
<1> HIDE DEF c
<1>4. reqs' = {r \in reqs : r.conn # c}
  BY DEF c
<1> QED BY <1>0, <1>1, <1>2, <1>3, <1>4, RemovedStep

LEMMA PumpStep ==
  ASSUME CInv, NEW r \in reqs,
         PumpHeaders(r) \/ PumpDelta(r) \/ PumpDone(r) \/ PumpCut(r) \/ PumpFails(r)
  PROVE  CInv'
<1>0. GInv /\ Types /\ UNCHANGED <<vars, mode, nextMsg, up>>
  BY DEF CInv, GInv, PumpHeaders, PumpDelta, PumpDone, PumpCut, PumpFails, ticking
<1>1. PICK g \in gens : g.conn = r.conn /\ g.msg = r.msg
  BY <1>0 DEF GInv, Paired
<1>2. CASE PumpHeaders(r)
  <2>1. /\ UNCHANGED <<convs, gens, down>>
        /\ reqs' = (reqs \ {r}) \cup {[r EXCEPT !.phase = "streaming"]}
    BY <1>2 DEF PumpHeaders
  <2>2. Numbered' /\ Single' /\ Paired' /\ reqs' \subseteq Request
    BY <1>0, <2>1, HeadersStand
  <2>3. GInv'
    BY <1>0, <2>1, <2>2 DEF GInv, Types
  <2> QED BY <1>0, <2>1, <2>3 DEF CInv, Quiet, Wire, vars
<1>3. CASE PumpDelta(r)
  <2>1. OnDelta(g.conn, g.msg) /\ UNCHANGED <<mode, nextMsg, open, reqs, convs, up>>
    BY <1>0, <1>1, <1>3 DEF PumpDelta, vars
  <2> QED BY <2>1, TokenStep
<1>4. CASE PumpDone(r) \/ PumpCut(r) \/ PumpFails(r)
  <2>1. OnDone(g.conn, g.msg) \/ OnError(g.conn)
    BY <1>1, <1>4 DEF PumpDone, PumpCut, PumpFails
  <2>2. reqs' = reqs \ {r}
    BY <1>4 DEF PumpDone, PumpCut, PumpFails
  <2>3. reqs' = {q \in reqs : q.conn # g.conn}
    BY <1>0, <1>1, <2>2 DEF GInv, Single
  <2> QED BY <1>0, <2>1, <2>3, EndStep
<1> QED BY <1>2, <1>3, <1>4

LEMMA StubStep ==
  ASSUME CInv, NEW g \in gens, StubTick(g)
  PROVE  CInv'
<1>0. GInv /\ Types /\ UNCHANGED <<vars, mode, nextMsg, up, reqs>>
  BY DEF CInv, GInv, StubTick, ticking
<1>1. reqs = {}
  <2>1. g.msg # 0 /\ g.req = 0
    BY <1>0 DEF Types, Gen, StubTick
  <2> QED BY <1>0, <2>1 DEF GInv, Numbered, Paired
<1>2. CASE OnDelta(g.conn, g.msg) /\ UNCHANGED convs
  <2>1. UNCHANGED <<mode, nextMsg, open, reqs, convs, up>>
    BY <1>0, <1>2 DEF vars
  <2> QED BY <1>2, <2>1, TokenStep
<1>3. CASE OnDone(g.conn, g.msg)
  <2>1. reqs' = {r \in reqs : r.conn # g.conn}
    BY <1>0, <1>1
  <2> QED BY <1>0, <1>3, <2>1, EndStep
<1> QED BY <1>2, <1>3 DEF StubTick

-----------------------------------------------------------------------------
(* The operator.                                                           *)

\* With every generation and request gone, what matters is the wire.
LEMMA NoneLeft ==
  ASSUME Types, gens' = {}, reqs' = {}, mode' = mode, nextMsg' \in Nat \ {0},
         up' = up, DOMAIN convs' = Conns, down' \in [Conns -> Seq(Frame)],
         \A c \in Conns : /\ Ordered(down'[c]) /\ Open(down'[c], nextMsg')
                          /\ c \notin open' => down'[c] = <<>>
  PROVE  CInv'
BY DEF CInv, GInv, Types, Numbered, Single, Paired, Quiet, Wire

LEMMA StopAllStep == ASSUME CInv, StopAll PROVE CInv'
<1>0. /\ GInv /\ Types /\ Quiet /\ Wire /\ gens' = {} /\ reqs' = {}
      /\ UNCHANGED <<open, mode, nextMsg, up>> /\ DOMAIN convs' = Conns
      /\ nextMsg \in Nat \ {0}
  BY DEF CInv, GInv, Types, StopAll, vars
<1>1. ASSUME NEW c \in Conns
      PROVE  /\ down'[c] \in Seq(Frame) /\ Ordered(down'[c]) /\ Open(down'[c], nextMsg)
             /\ c \notin open => down'[c] = <<>>
  <2>1. /\ down[c] \in Seq(Frame) /\ Ordered(down[c]) /\ Open(down[c], nextMsg)
        /\ c \notin open => down[c] = <<>>
    BY <1>0 DEF Types, Wire, Quiet
  <2>2. CASE GenOf(c) = {} \/ c \notin open
    BY <2>1, <2>2 DEF StopAll
  <2>3. CASE GenOf(c) # {} /\ c \in open
    <3> DEFINE g == CHOOSE g \in GenOf(c) : TRUE
    <3>1. g \in gens /\ g.conn = c
      BY <2>3 DEF GenOf
    <3>2. down'[c] = Append(down[c], Done(g.msg))
      BY <2>3 DEF StopAll
    <3> HIDE DEF g
    <3>3. g.msg \in Nat /\ g.msg < nextMsg /\ Open(down[c], g.msg)
      BY <1>0, <3>1 DEF GInv, Types, Gen, Numbered, Wire
    <3>4. Done(g.msg) \in Frame /\ Done(g.msg).msg = g.msg /\ Before(Done(g.msg), nextMsg)
      BY <3>3, Frames DEF Before
    <3> QED BY <1>0, <2>1, <2>3, <3>2, <3>3, <3>4, OrderedAppend
  <2> QED BY <2>2, <2>3
<1>2. down' \in [Conns -> Seq(Frame)]
  <2>1. down' = [c \in Conns |-> down'[c]]
    BY DEF StopAll
  <2> QED BY <1>1, <2>1
<1> QED BY <1>0, <1>1, <1>2, NoneLeft

LEMMA AdminResetStep == ASSUME CInv, AdminReset PROVE CInv'
<1>0. /\ Types /\ gens' = {} /\ reqs' = {} /\ UNCHANGED <<open, mode, nextMsg, up, down>>
      /\ DOMAIN convs' = Conns
  BY DEF CInv, GInv, AdminReset, vars
<1> QED BY <1>0, NoneLeft DEF CInv, Types, Quiet, Wire

LEMMA RelaunchStep == ASSUME CInv, Relaunch PROVE CInv'
<1>0. /\ Types /\ Quiet /\ Wire /\ gens' = {} /\ reqs' = {} /\ nextMsg' = 1
      /\ UNCHANGED <<open, mode, up>> /\ DOMAIN convs' = Conns
      /\ down' = [c \in Conns |-> IF c \in open THEN Append(down[c], Announce) ELSE down[c]]
  BY DEF CInv, GInv, Relaunch
<1>1. ASSUME NEW c \in Conns
      PROVE  /\ down'[c] \in Seq(Frame) /\ Ordered(down'[c]) /\ Open(down'[c], 1)
             /\ c \notin open => down'[c] = <<>>
  <2>1. down[c] \in Seq(Frame) /\ Ordered(down[c])
    BY <1>0 DEF Types, Wire
  <2>2. CASE c \in open
    <3>1. down'[c] = Append(down[c], Announce)
      BY <1>0, <2>2
    <3> QED BY <2>1, <2>2, <3>1, Frames, OrderedAppend
  <2>3. CASE c \notin open
    <3>1. down'[c] = <<>>
      BY <1>0, <2>3 DEF Quiet
    <3> QED BY <3>1, OpenNothing
  <2> QED BY <2>2, <2>3
<1>2. down' \in [Conns -> Seq(Frame)]
  BY <1>0, <1>1
<1> QED BY <1>0, <1>1, <1>2, NoneLeft

LEMMA SlideStep == ASSUME CInv, NEW n, Slide(n) PROVE CInv'
<1>1. Types /\ UNCHANGED <<mode, gens, reqs, nextMsg, down, convs, up, open>>
  BY DEF CInv, GInv, Slide, vars
<1> QED BY <1>1, AsideStep DEF Types

-----------------------------------------------------------------------------
(* Theorems.                                                               *)

LEMMA ChatStep == ASSUME CInv, [ChatNext]_chatVars PROVE CInv'
<1>1. CASE UNCHANGED chatVars
  <2>1. Types /\ UNCHANGED <<mode, gens, reqs, nextMsg, down, convs, up, open>>
    BY <1>1 DEF CInv, GInv, chatVars, engineVars, vars
  <2> QED BY <2>1, AsideStep DEF Types
<1>2. CASE ChatNext
  BY <1>2, PageStep, HearStep, ServeStep, NoticeStep, PumpStep, StubStep, StopAllStep,
     AdminResetStep, RelaunchStep, SlideStep DEF ChatNext
<1> QED BY <1>1, <1>2

\* The inductive invariant, in every reachable state.
THEOREM ChatInvariant == ChatSpec => []CInv
<1>1. ChatInit => CInv
  BY InitCInv
<1>2. CInv /\ [ChatNext]_chatVars => CInv'
  BY ChatStep
<1> QED BY <1>1, <1>2, PTL DEF ChatSpec

\* No request runs for nobody, and no generation waits for none, however sends,
\* stops, resets, departures, failures and restarts of the engine interleave
\* (removeGen, chat_engine.cpp; LlamaClient::cancel).
THEOREM ChatRequestsMatch == ChatSpec => []RequestsMatch
<1>1. ASSUME CInv, mode = "llama"
      PROVE  {<<g.req, g.conn, g.msg>> : g \in gens} = {<<r.id, r.conn, r.msg>> : r \in reqs}
  <2>1. /\ \A g \in gens : g.req = g.msg
        /\ \A r \in reqs : r.id = r.msg
    BY <1>1 DEF CInv, GInv, Numbered
  <2>2. /\ \A g \in gens : \E r \in reqs : r.conn = g.conn /\ r.msg = g.msg
        /\ \A r \in reqs : \E g \in gens : r.conn = g.conn /\ r.msg = g.msg
    BY <1>1 DEF CInv, GInv, Paired
  <2>3. \A g \in gens : <<g.req, g.conn, g.msg>> \in {<<r.id, r.conn, r.msg>> : r \in reqs}
    BY <2>1, <2>2
  <2>4. \A r \in reqs : <<r.id, r.conn, r.msg>> \in {<<g.req, g.conn, g.msg>> : g \in gens}
    <3> SUFFICES ASSUME NEW r \in reqs
                 PROVE  \E g \in gens : <<r.id, r.conn, r.msg>> = <<g.req, g.conn, g.msg>>
      OBVIOUS
    <3> QED BY <2>1, <2>2
  <2> QED BY <2>3, <2>4
<1>2. CInv => RequestsMatch
  BY <1>1 DEF RequestsMatch
<1> QED BY <1>2, ChatInvariant, PTL

\* The frames of a reply reach the wire together and before the next reply's,
\* with nothing after its end (onDelta, onDone, chatStop).
THEOREM ChatRepliesInOrder == ChatSpec => []RepliesInOrder
<1>1. CInv => RepliesInOrder
  BY DEF CInv, Wire, Ordered, Run, Before, RepliesInOrder
<1> QED BY <1>1, ChatInvariant, PTL

\* A member that goes leaves nothing of its own behind (onLeave,
\* chat_engine.cpp:244).
THEOREM ChatDepartureForgets == ChatSpec => DepartureForgets
<1> DEFINE Forgotten == \A c \in members \cap (gone' \ gone) :
                          /\ convs'[c] = <<>>
                          /\ \A x \in gens' \cup reqs' : x.conn # c
<1>1. ASSUME CInv, ChatNext PROVE Forgotten
  <2>1. CASE gone' = gone
    BY <2>1
  <2>2. ASSUME NEW c \in Conns, Notice(c) PROVE Forgotten
    <3>1. gone' \subseteq gone \cup {c}
      BY <2>2 DEF Notice, OnClose
    <3>2. ASSUME c \in members PROVE convs'[c] = <<>> /\ \A x \in gens' \cup reqs' : x.conn # c
      <4>1. Abort(c) /\ convs' = [convs EXCEPT ![c] = <<>>]
        BY <2>2, <3>2 DEF Notice, Forget
      <4>2. gens' = {g \in gens : g.conn # c} /\ reqs' = {r \in reqs : r.conn # c}
        BY <1>1, <4>1, AbortAll DEF CInv
      <4>3. c \in DOMAIN convs
        BY <1>1 DEF CInv, GInv, Types
      <4> QED BY <4>1, <4>2, <4>3
    <3> QED BY <3>1, <3>2
  <2>3. ASSUME NEW c \in Conns, Serve(c) PROVE gone' = gone
    <3>1. CASE Head(up[c]) = "join"
      <4>1. HandleJoin(c, Unnamed)
        BY <2>3, <3>1 DEF Serve
      <4> QED BY <4>1 DEF HandleJoin, Reconfirm, Take, Spectate
    <3>2. CASE Head(up[c]) \in {"send", "reset", "stop"}
      <4>1. Relay(c)
        BY <2>3, <3>2 DEF Serve
      <4> QED BY <4>1 DEF Relay
    <3> QED BY <1>1, <2>3, <3>1, <3>2, ServeUp DEF Asks
  <2>4. ASSUME NEW p \in Pages, \/ \E c \in Conns : Dial(p, c)
                                \/ Type(p) \/ PressStop(p) \/ PressNew(p) \/ Hear(p) \/ DropSocket(p)
        PROVE  gone' = gone
    BY <2>4 DEF Dial, Connect, Type, PressStop, PressNew, Hear, DropSocket, vars
  <2>5. ASSUME NEW r \in reqs, \/ PumpHeaders(r) \/ PumpDelta(r) \/ PumpDone(r)
                               \/ PumpCut(r) \/ PumpFails(r)
        PROVE  gone' = gone
    BY <2>5 DEF PumpHeaders, PumpDelta, PumpDone, PumpCut, PumpFails, ticking, vars
  <2>6. ASSUME NEW g \in gens, StubTick(g) PROVE gone' = gone
    BY <2>6 DEF StubTick, ticking, vars
  <2>7. ASSUME StopAll \/ AdminReset \/ Relaunch \/ \E n \in ContextSizes : Slide(n)
        PROVE  gone' = gone
    BY <2>7 DEF StopAll, AdminReset, Relaunch, Slide, vars
  <2> QED BY <1>1, <2>1, <2>2, <2>3, <2>4, <2>5, <2>6, <2>7 DEF ChatNext
<1>2. CInv /\ [ChatNext]_chatVars => [Forgotten]_chatVars
  BY <1>1
<1> QED BY <1>2, ChatInvariant, PTL DEF ChatSpec, DepartureForgets

-----------------------------------------------------------------------------
(* What a page has in its bubble.                                          *)

PageOf == [sock : Conns \cup {NoConn}, generating : BOOLEAN, bubble : SUBSET Nat,
           lost : BOOLEAN, waived : BOOLEAN]

\* The replies in flight on a connection.
Msgs(c) == {g.msg : g \in GenOf(c)}

\* A page's socket is open and its own; nothing is known of one not dialled.
Socks == /\ \A p \in Pages : Sock(p) # NoConn =>
              Sock(p) \in open /\ \A q \in Pages : Sock(q) = Sock(p) => q = p
         /\ \A c \in Conns \ (open \cup gone) : up[c] = <<>> /\ Msgs(c) = {}

\* What may be on the way: no prompt, or one; nothing, some of a reply, or the
\* last of it.
NoSend(s)     == \A i \in 1 .. Len(s) : s[i] # "send"
OneSend(s)    == \E k \in 1 .. Len(s) : \A i \in 1 .. Len(s) : i # k => s[i] # "send"
Silent(s)     == \A i \in 1 .. Len(s) : s[i].kind = "engine"
OfReply(s, m) == \A i \in 1 .. Len(s) : s[i].kind = "engine" \/ s[i] = Delta(m)
Ending(s, m)  == \E e \in 1 .. Len(s) :
                   /\ s[e].kind \in {"done", "error"}
                   /\ \A i \in 1 .. Len(s) : /\ i < e => s[i].kind = "engine" \/ s[i] = Delta(m)
                                             /\ i > e => s[i].kind = "engine"

\* A page that lets go of nothing waits (w) for one reply at a time: it asked for
\* none, or it did; it is told it, or was told its end.  b is its bubble, u and d
\* what is on the way up and down, ms the replies in flight.
Idle(w, b, u, d, ms)     == ~w /\ b = {} /\ NoSend(u) /\ ms = {} /\ Silent(d)
Asked(w, b, u, d, ms)    == w /\ b = {} /\ OneSend(u) /\ ms = {} /\ Silent(d)
Being(w, b, u, d, ms, m) == w /\ b \subseteq {m} /\ NoSend(u) /\ ms \subseteq {m} /\ OfReply(d, m)
Ended(w, b, u, d, ms, m) == w /\ b \subseteq {m} /\ NoSend(u) /\ ms = {} /\ Ending(d, m)
Shaped(w, b, u, d, ms) ==
  \/ Idle(w, b, u, d, ms) \/ Asked(w, b, u, d, ms)
  \/ \E m \in Nat : Being(w, b, u, d, ms, m) \/ Ended(w, b, u, d, ms, m)

\* Without a socket it has at most one reply in its bubble, and then waits.
Bare(w, b) == /\ \E m \in Nat : b \subseteq {m}
              /\ ~w => b = {}

Shapes == \A p \in Pages : ~page[p].waived =>
  IF Sock(p) = NoConn
  THEN Bare(page[p].generating, page[p].bubble)
  ELSE Shaped(page[p].generating, page[p].bubble, up[Sock(p)], down[Sock(p)], Msgs(Sock(p)))

Own == \A g \in gens : g.acc \subseteq {g.msg}

BInv == page \in [Pages -> PageOf] /\ Socks /\ Shapes /\ Own

\* Lemmas about what is on the way.
LEMMA ShapeAppend ==
  ASSUME NEW s \in Seq(Frame), NEW m \in Nat
  PROVE  /\ OfReply(s, m) => OfReply(Append(s, Delta(m)), m)
         /\ \A f \in Frame : OfReply(s, m) /\ f.kind \in {"done", "error"} => Ending(Append(s, f), m)
         /\ \A f \in Frame : f.kind = "engine" =>
              /\ Silent(s) => Silent(Append(s, f))
              /\ OfReply(s, m) => OfReply(Append(s, f), m)
              /\ Ending(s, m) => Ending(Append(s, f), m)
         /\ Silent(s) => OfReply(s, m)
<1>0. /\ Len(s) \in Nat
      /\ \A f \in Frame : /\ Len(Append(s, f)) = Len(s) + 1 /\ Append(s, f)[Len(s) + 1] = f
                          /\ \A i \in 1 .. Len(s) : Append(s, f)[i] = s[i]
  OBVIOUS
<1>1. OfReply(s, m) => OfReply(Append(s, Delta(m)), m)
  <2>1. Delta(m) \in Frame
    BY Frames
  <2> QED BY <1>0, <2>1 DEF OfReply
<1>2. ASSUME NEW f \in Frame, OfReply(s, m), f.kind \in {"done", "error"}
      PROVE  Ending(Append(s, f), m)
  <2> DEFINE t == Append(s, f)
  <2>1. /\ Len(t) = Len(s) + 1 /\ t[Len(t)].kind \in {"done", "error"} /\ Len(t) \in 1 .. Len(t)
        /\ \A i \in 1 .. Len(t) : i < Len(t) => t[i].kind = "engine" \/ t[i] = Delta(m)
    BY <1>0, <1>2 DEF OfReply
  <2> HIDE DEF t
  <2>2. \A i \in 1 .. Len(t) : ~(i > Len(t))
    BY <1>0, <2>1
  <2>3. Ending(t, m)
    BY <2>1, <2>2 DEF Ending
  <2> QED BY <2>3 DEF t
<1>3. ASSUME NEW f \in Frame, f.kind = "engine"
      PROVE  /\ Silent(s) => Silent(Append(s, f))
             /\ OfReply(s, m) => OfReply(Append(s, f), m)
             /\ Ending(s, m) => Ending(Append(s, f), m)
  <2> DEFINE t == Append(s, f)
  <2>1. /\ Len(t) = Len(s) + 1 /\ t[Len(s) + 1].kind = "engine"
        /\ \A i \in 1 .. Len(s) : t[i] = s[i]
    BY <1>0, <1>3
  <2> HIDE DEF t
  <2>2. Silent(s) => Silent(t)
    BY <1>0, <2>1 DEF Silent
  <2>3. OfReply(s, m) => OfReply(t, m)
    BY <1>0, <2>1 DEF OfReply
  <2>4. Ending(s, m) => Ending(t, m)
    BY <1>0, <2>1 DEF Ending
  <2> QED BY <2>2, <2>3, <2>4 DEF t
<1> QED BY <1>1, <1>2, <1>3 DEF Silent, OfReply

\* What is heard of a shape leaves a shape.
LEMMA ShapeTail ==
  ASSUME NEW s \in Seq(Frame), s # <<>>, NEW m \in Nat
  PROVE  /\ Silent(s) => Head(s).kind = "engine" /\ Silent(Tail(s))
         /\ OfReply(s, m) => /\ Head(s).kind = "engine" \/ Head(s) = Delta(m)
                             /\ OfReply(Tail(s), m)
         /\ Ending(s, m) => \/ Head(s).kind = "engine" /\ Ending(Tail(s), m)
                            \/ Head(s) = Delta(m) /\ Ending(Tail(s), m)
                            \/ Head(s).kind \in {"done", "error"} /\ Silent(Tail(s))
<1> DEFINE t == Tail(s)
<1>1. /\ Len(t) = Len(s) - 1 /\ Len(s) \in Nat \ {0} /\ Head(s) = s[1]
      /\ \A i \in 1 .. Len(t) : t[i] = s[i + 1]
  OBVIOUS
<1> HIDE DEF t
<1>2. Silent(s) => Head(s).kind = "engine" /\ Silent(t)
  BY <1>1 DEF Silent
<1>3. OfReply(s, m) => (Head(s).kind = "engine" \/ Head(s) = Delta(m)) /\ OfReply(t, m)
  BY <1>1 DEF OfReply
<1>4. ASSUME NEW e \in 1 .. Len(s), s[e].kind \in {"done", "error"},
             \A i \in 1 .. Len(s) : /\ i < e => s[i].kind = "engine" \/ s[i] = Delta(m)
                                    /\ i > e => s[i].kind = "engine"
      PROVE  \/ Head(s).kind = "engine" /\ Ending(t, m)
             \/ Head(s) = Delta(m) /\ Ending(t, m)
             \/ Head(s).kind \in {"done", "error"} /\ Silent(t)
  <2>1. CASE e = 1
    BY <1>1, <1>4, <2>1 DEF Silent
  <2>2. CASE e > 1
    <3>1. e - 1 \in 1 .. Len(t) /\ t[e - 1] = s[e]
      BY <1>1, <2>2
    <3>2. \A i \in 1 .. Len(t) : /\ i < e - 1 => t[i].kind = "engine" \/ t[i] = Delta(m)
                                 /\ i > e - 1 => t[i].kind = "engine"
      <4> SUFFICES ASSUME NEW i \in 1 .. Len(t)
                   PROVE  /\ i < e - 1 => t[i].kind = "engine" \/ t[i] = Delta(m)
                          /\ i > e - 1 => t[i].kind = "engine"
        OBVIOUS
      <4>1. /\ i + 1 \in 1 .. Len(s) /\ t[i] = s[i + 1]
            /\ (i < e - 1 => i + 1 < e) /\ (i > e - 1 => i + 1 > e)
        BY <1>1
      <4> QED BY <1>4, <4>1
    <3>3. Ending(t, m)
      BY <1>4, <3>1, <3>2 DEF Ending
    <3>4. Head(s).kind = "engine" \/ Head(s) = Delta(m)
      BY <1>1, <1>4, <2>2
    <3> QED BY <3>3, <3>4
  <2> QED BY <2>1, <2>2
<1>5. Ending(s, m) => \/ Head(s).kind = "engine" /\ Ending(t, m)
                      \/ Head(s) = Delta(m) /\ Ending(t, m)
                      \/ Head(s).kind \in {"done", "error"} /\ Silent(t)
  BY <1>4 DEF Ending
<1> QED BY <1>2, <1>3, <1>5 DEF t

LEMMA SendAppend ==
  ASSUME NEW s \in Seq(Asks), NEW a \in Asks
  PROVE  /\ NoSend(s) /\ a # "send" => NoSend(Append(s, a))
         /\ NoSend(s) => OneSend(Append(s, a))
         /\ OneSend(s) /\ a # "send" => OneSend(Append(s, a))
<1> DEFINE t == Append(s, a)
<1>1. /\ Len(s) \in Nat /\ Len(t) = Len(s) + 1 /\ t[Len(s) + 1] = a
      /\ \A i \in 1 .. Len(s) : t[i] = s[i]
  OBVIOUS
<1> HIDE DEF t
<1>2. \A i \in 1 .. Len(t) : i = Len(t) \/ i \in 1 .. Len(s)
  BY <1>1
<1>3. NoSend(s) /\ a # "send" => NoSend(t)
  BY <1>1, <1>2 DEF NoSend
<1>4. NoSend(s) => OneSend(t)
  <2> SUFFICES ASSUME NoSend(s) PROVE OneSend(t)
    OBVIOUS
  <2>1. Len(t) \in 1 .. Len(t)
    BY <1>1
  <2>2. \A i \in 1 .. Len(t) : i # Len(t) => t[i] # "send"
    BY <1>1, <1>2 DEF NoSend
  <2> QED BY <2>1, <2>2 DEF OneSend
<1>5. ASSUME OneSend(s), a # "send" PROVE OneSend(t)
  <2>1. PICK k \in 1 .. Len(s) : \A i \in 1 .. Len(s) : i # k => s[i] # "send"
    BY <1>5 DEF OneSend
  <2>2. k \in 1 .. Len(t)
    BY <1>1, <2>1
  <2>3. \A i \in 1 .. Len(t) : i # k => t[i] # "send"
    BY <1>1, <1>2, <1>5, <2>1
  <2> QED BY <2>2, <2>3 DEF OneSend
<1> QED BY <1>3, <1>4, <1>5 DEF t

LEMMA SendTail ==
  ASSUME NEW s \in Seq(Asks), s # <<>>
  PROVE  /\ Tail(s) \in Seq(Asks)
         /\ NoSend(s) => NoSend(Tail(s)) /\ Head(s) # "send"
         /\ OneSend(s) /\ Head(s) = "send" => NoSend(Tail(s))
         /\ OneSend(s) => OneSend(Tail(s)) \/ NoSend(Tail(s))
<1> DEFINE t == Tail(s)
<1>1. /\ t \in Seq(Asks) /\ Len(s) \in Nat \ {0} /\ Len(t) = Len(s) - 1 /\ Head(s) = s[1]
      /\ \A i \in 1 .. Len(t) : t[i] = s[i + 1] /\ i + 1 \in 1 .. Len(s)
  OBVIOUS
<1> HIDE DEF t
<1>2. NoSend(s) => NoSend(t) /\ Head(s) # "send"
  BY <1>1 DEF NoSend
<1>3. ASSUME NEW k \in 1 .. Len(s), \A i \in 1 .. Len(s) : i # k => s[i] # "send"
      PROVE  /\ Head(s) = "send" => NoSend(t)
             /\ OneSend(t) \/ NoSend(t)
  <2>1. CASE k = 1
    BY <1>1, <1>3, <2>1 DEF NoSend
  <2>2. CASE k > 1
    <3>1. k - 1 \in 1 .. Len(t) /\ Head(s) # "send"
      BY <1>1, <1>3, <2>2
    <3>2. ASSUME NEW i \in 1 .. Len(t), i # k - 1 PROVE t[i] # "send"
      <4>1. i + 1 \in 1 .. Len(s) /\ i + 1 # k /\ t[i] = s[i + 1]
        BY <1>1, <3>2
      <4> QED BY <1>3, <4>1
    <3> QED BY <3>1, <3>2 DEF OneSend
  <2> QED BY <2>1, <2>2
<1>4. OneSend(s) => /\ Head(s) = "send" => NoSend(t)
                    /\ OneSend(t) \/ NoSend(t)
  BY <1>3 DEF OneSend
<1> QED BY <1>1, <1>2, <1>4 DEF t

\* What the engine does to a shape: some replies go, and an announce may follow;
LEMMA ShapeFewer ==
  ASSUME NEW w, NEW b, NEW u, NEW d \in Seq(Frame), NEW ms, NEW fewer,
         Shaped(w, b, u, d, ms), fewer \subseteq ms
  PROVE  /\ Shaped(w, b, u, d, fewer)
         /\ \A f \in Frame : f.kind = "engine" => Shaped(w, b, u, Append(d, f), fewer)
<1>1. CASE Idle(w, b, u, d, ms)
  BY <1>1, ShapeAppend DEF Idle, Shaped
<1>2. CASE Asked(w, b, u, d, ms)
  BY <1>2, ShapeAppend DEF Asked, Shaped
<1>3. ASSUME NEW m \in Nat, Being(w, b, u, d, ms, m)
      PROVE  /\ Shaped(w, b, u, d, fewer)
             /\ \A f \in Frame : f.kind = "engine" => Shaped(w, b, u, Append(d, f), fewer)
  BY <1>3, ShapeAppend DEF Being, Shaped
<1>4. ASSUME NEW m \in Nat, Ended(w, b, u, d, ms, m)
      PROVE  /\ Shaped(w, b, u, d, fewer)
             /\ \A f \in Frame : f.kind = "engine" => Shaped(w, b, u, Append(d, f), fewer)
  BY <1>4, ShapeAppend DEF Ended, Shaped
<1> QED BY <1>1, <1>2, <1>3, <1>4 DEF Shaped

\* a token of the reply in flight, or its end, is told;
LEMMA ShapeTold ==
  ASSUME NEW w, NEW b, NEW u, NEW d \in Seq(Frame), NEW ms, NEW m \in ms, m \in Nat,
         Shaped(w, b, u, d, ms)
  PROVE  /\ Shaped(w, b, u, Append(d, Delta(m)), ms)
         /\ \A f \in Frame : f.kind \in {"done", "error"} => Shaped(w, b, u, Append(d, f), {})
<1>1. Being(w, b, u, d, ms, m)
  BY DEF Shaped, Idle, Asked, Being, Ended
<1>2. Being(w, b, u, Append(d, Delta(m)), ms, m)
  BY <1>1, ShapeAppend DEF Being
<1>3. \A f \in Frame : f.kind \in {"done", "error"} => Ended(w, b, u, Append(d, f), {}, m)
  BY <1>1, ShapeAppend DEF Being, Ended
<1> QED BY <1>2, <1>3 DEF Shaped

\* a prompt is taken, and refused or not; anything else is.
LEMMA ShapeServed ==
  ASSUME NEW w, NEW b, NEW u \in Seq(Asks), u # <<>>, NEW d \in Seq(Frame), NEW ms,
         Shaped(w, b, u, d, ms)
  PROVE  /\ Head(u) # "send" => Shaped(w, b, Tail(u), d, ms)
         /\ Head(u) = "send" =>
              /\ ms = {}
              /\ Shaped(w, b, Tail(u), Append(d, Error), {})
              /\ \A m \in Nat : Shaped(w, b, Tail(u), d, {m})
<1>1. CASE Idle(w, b, u, d, ms)
  BY <1>1, SendTail DEF Idle, Shaped
<1>2. CASE Asked(w, b, u, d, ms)
  <2>1. OfReply(d, 0) /\ Error \in Frame /\ Error.kind = "error"
    BY <1>2 DEF Asked, Silent, OfReply, Error, Frame
  <2>2. ASSUME Head(u) # "send" PROVE Shaped(w, b, Tail(u), d, ms)
    <3>1. CASE OneSend(Tail(u))
      BY <1>2, <3>1 DEF Asked, Shaped
    <3>2. CASE NoSend(Tail(u))
      <4>1. Being(w, b, Tail(u), d, ms, 0)
        BY <1>2, <2>1, <3>2 DEF Asked, Being
      <4> QED BY <4>1 DEF Shaped
    <3> QED BY <1>2, <3>1, <3>2, SendTail DEF Asked
  <2>3. ASSUME Head(u) = "send"
        PROVE  /\ Shaped(w, b, Tail(u), Append(d, Error), {})
               /\ \A m \in Nat : Shaped(w, b, Tail(u), d, {m})
    <3>1. NoSend(Tail(u))
      BY <1>2, <2>3, SendTail DEF Asked
    <3>2. Ending(Append(d, Error), 0)
      BY <2>1, ShapeAppend
    <3>3. Ended(w, b, Tail(u), Append(d, Error), {}, 0)
      BY <1>2, <3>1, <3>2 DEF Asked, Ended
    <3>4. ASSUME NEW m \in Nat PROVE Being(w, b, Tail(u), d, {m}, m)
      BY <1>2, <3>1 DEF Asked, Being, Silent, OfReply
    <3> QED BY <3>3, <3>4 DEF Shaped
  <2> QED BY <1>2, <2>2, <2>3 DEF Asked
<1>3. ASSUME NEW m \in Nat, Being(w, b, u, d, ms, m)
      PROVE  Head(u) # "send" /\ Shaped(w, b, Tail(u), d, ms)
  <2>1. Being(w, b, Tail(u), d, ms, m) /\ Head(u) # "send"
    BY <1>3, SendTail DEF Being
  <2> QED BY <2>1 DEF Shaped
<1>4. ASSUME NEW m \in Nat, Ended(w, b, u, d, ms, m)
      PROVE  Head(u) # "send" /\ Shaped(w, b, Tail(u), d, ms)
  <2>1. Ended(w, b, Tail(u), d, ms, m) /\ Head(u) # "send"
    BY <1>4, SendTail DEF Ended
  <2> QED BY <2>1 DEF Shaped
<1> QED BY <1>1, <1>2, <1>3, <1>4 DEF Shaped

\* What the page does to it: asks,
LEMMA ShapeAsks ==
  ASSUME NEW w, NEW b, NEW u \in Seq(Asks), NEW d, NEW ms, Shaped(w, b, u, d, ms)
  PROVE  /\ ~w => Shaped(TRUE, {}, Append(u, "send"), d, ms)
         /\ \A a \in Asks : a # "send" => Shaped(w, b, Append(u, a), d, ms)
         /\ Bare(w, b)
<1>0. "send" \in Asks
  BY DEF Asks
<1>1. CASE Idle(w, b, u, d, ms)
  <2>1. Asked(TRUE, {}, Append(u, "send"), d, ms)
    BY <1>0, <1>1, SendAppend DEF Idle, Asked
  <2>2. \A a \in Asks : a # "send" => Idle(w, b, Append(u, a), d, ms)
    BY <1>1, SendAppend DEF Idle
  <2>3. b \subseteq {0} /\ b = {}
    BY <1>1 DEF Idle
  <2> QED BY <2>1, <2>2, <2>3 DEF Shaped, Bare
<1>2. CASE Asked(w, b, u, d, ms)
  <2>1. \A a \in Asks : a # "send" => Asked(w, b, Append(u, a), d, ms)
    BY <1>2, SendAppend DEF Asked
  <2>2. w /\ b \subseteq {0}
    BY <1>2 DEF Asked
  <2> QED BY <2>1, <2>2 DEF Shaped, Bare
<1>3. ASSUME NEW m \in Nat, Being(w, b, u, d, ms, m)
      PROVE  /\ w /\ Bare(w, b)
             /\ \A a \in Asks : a # "send" => Shaped(w, b, Append(u, a), d, ms)
  <2>1. \A a \in Asks : a # "send" => Being(w, b, Append(u, a), d, ms, m)
    BY <1>3, SendAppend DEF Being
  <2> QED BY <1>3, <2>1 DEF Being, Bare, Shaped
<1>4. ASSUME NEW m \in Nat, Ended(w, b, u, d, ms, m)
      PROVE  /\ w /\ Bare(w, b)
             /\ \A a \in Asks : a # "send" => Shaped(w, b, Append(u, a), d, ms)
  <2>1. \A a \in Asks : a # "send" => Ended(w, b, Append(u, a), d, ms, m)
    BY <1>4, SendAppend DEF Ended
  <2> QED BY <1>4, <2>1 DEF Ended, Bare, Shaped
<1> QED BY <1>1, <1>2, <1>3, <1>4 DEF Shaped

\* and hears.
LEMMA ShapeHeard ==
  ASSUME NEW w \in BOOLEAN, NEW b \in SUBSET Nat, NEW u, NEW d \in Seq(Frame), d # <<>>, NEW ms,
         Shaped(w, b, u, d, ms)
  PROVE  /\ Head(d).kind = "engine" => Shaped(w, b, u, Tail(d), ms)
         /\ Head(d).kind = "delta" => Shaped(w, b \cup {Head(d).msg}, u, Tail(d), ms)
         /\ Head(d).kind \in {"done", "error"} => Shaped(FALSE, {}, u, Tail(d), ms)
<1> DEFINE Goal == /\ Head(d).kind = "engine" => Shaped(w, b, u, Tail(d), ms)
                   /\ Head(d).kind = "delta" => Shaped(w, b \cup {Head(d).msg}, u, Tail(d), ms)
                   /\ Head(d).kind \in {"done", "error"} => Shaped(FALSE, {}, u, Tail(d), ms)
<1>0. \A m \in Nat : Delta(m).kind = "delta" /\ Delta(m).msg = m
  BY DEF Delta
<1>1. CASE Idle(w, b, u, d, ms)
  <2>1. Head(d).kind = "engine" /\ Idle(w, b, u, Tail(d), ms)
    BY <1>1, ShapeTail DEF Idle
  <2> QED BY <2>1 DEF Shaped
<1>2. CASE Asked(w, b, u, d, ms)
  <2>1. Head(d).kind = "engine" /\ Asked(w, b, u, Tail(d), ms)
    BY <1>2, ShapeTail DEF Asked
  <2> QED BY <2>1 DEF Shaped
<1>3. ASSUME NEW m \in Nat, Being(w, b, u, d, ms, m) PROVE Goal
  <2>1. (Head(d).kind = "engine" \/ Head(d) = Delta(m)) /\ OfReply(Tail(d), m)
    BY <1>3, ShapeTail DEF Being
  <2>2. Being(w, b, u, Tail(d), ms, m) /\ Being(w, b \cup {m}, u, Tail(d), ms, m)
    BY <1>3, <2>1 DEF Being
  <2> QED BY <1>0, <2>1, <2>2 DEF Shaped
<1>4. ASSUME NEW m \in Nat, Ended(w, b, u, d, ms, m) PROVE Goal
  <2>0. w /\ b \subseteq {m} /\ NoSend(u) /\ ms = {} /\ Ending(d, m)
    BY <1>4 DEF Ended
  <2>1. CASE (Head(d).kind = "engine" \/ Head(d) = Delta(m)) /\ Ending(Tail(d), m)
    <3>1. Ended(w, b, u, Tail(d), ms, m) /\ Ended(w, b \cup {m}, u, Tail(d), ms, m)
      BY <2>0, <2>1 DEF Ended
    <3> QED BY <1>0, <2>1, <3>1 DEF Shaped
  <2>2. CASE Head(d).kind \in {"done", "error"} /\ Silent(Tail(d))
    <3>1. Idle(FALSE, {}, u, Tail(d), ms)
      BY <2>0, <2>2 DEF Idle
    <3> QED BY <2>2, <3>1 DEF Shaped
  <2> QED BY <2>0, <2>1, <2>2, ShapeTail
<1> QED BY <1>1, <1>2, <1>3, <1>4 DEF Shaped

-----------------------------------------------------------------------------
(* The engine's steps and the bubbles.                                     *)

Seen(p) == <<page[p].sock, page[p].generating, page[p].bubble, page[p].waived>>

\* A step that no page notices, and that keeps the shapes.
LEMMA UnseenStep ==
  ASSUME CInv, BInv, page' \in [Pages -> PageOf], \A p \in Pages : Seen(p)' = Seen(p),
         open' = open, gone' = gone, Own',
         \A c \in Conns \ (open \cup gone) : up'[c] = up[c] /\ Msgs(c)' \subseteq Msgs(c),
         \A c \in Conns, w \in BOOLEAN, b \in SUBSET Nat :
           Shaped(w, b, up[c], down[c], Msgs(c)) => Shaped(w, b, up'[c], down'[c], Msgs(c)')
  PROVE  BInv'
<1>1. \A p \in Pages : /\ Sock(p) \in Conns \cup {NoConn} /\ page[p].generating \in BOOLEAN
                       /\ page[p].bubble \in SUBSET Nat
  BY DEF BInv, PageOf, Sock
<1>2. \A p \in Pages : /\ page'[p].sock = Sock(p) /\ page'[p].generating = page[p].generating
                       /\ page'[p].bubble = page[p].bubble /\ page'[p].waived = page[p].waived
  BY DEF Seen, Sock
<1>3. Socks'
  BY <1>2 DEF BInv, Socks, Sock
<1>4. Shapes'
  <2> SUFFICES ASSUME NEW p \in Pages, ~page'[p].waived
               PROVE  (IF Sock(p) = NoConn THEN Bare(page[p].generating, page[p].bubble)
                       ELSE Shaped(page[p].generating, page[p].bubble, up[Sock(p)],
                                   down[Sock(p)], Msgs(Sock(p))))'
    BY DEF Shapes
  <2>0. /\ Sock(p)' = Sock(p) /\ ~page[p].waived
        /\ page'[p].generating = page[p].generating /\ page'[p].bubble = page[p].bubble
    BY <1>2 DEF Sock
  <2>1. CASE Sock(p) = NoConn
    <3>1. Bare(page[p].generating, page[p].bubble)
      BY <2>0, <2>1 DEF BInv, Shapes
    <3> QED BY <2>0, <2>1, <3>1
  <2>2. CASE Sock(p) # NoConn
    <3>1. Sock(p) \in Conns
      BY <1>1, <2>2
    <3>2. Shaped(page[p].generating, page[p].bubble, up[Sock(p)], down[Sock(p)], Msgs(Sock(p)))
      BY <2>0, <2>2 DEF BInv, Shapes
    <3>3. \A c \in Conns : Sock(p) = c =>
            Shaped(page[p].generating, page[p].bubble, up'[c], down'[c], Msgs(c)')
      BY <1>1, <3>2
    <3>4. \A c \in Conns : Sock(p) = c => Msgs(Sock(p))' = Msgs(c)'
      BY <2>0 DEF Msgs, GenOf
    <3> QED BY <2>0, <2>2, <3>1, <3>3, <3>4
  <2> QED BY <2>1, <2>2
<1> QED BY <1>3, <1>4 DEF BInv

\* One that concerns a connection.
LEMMA ConnStep ==
  ASSUME CInv, BInv, NEW c \in open \cup gone, page' = page, open' = open, gone' = gone, Own',
         \A d \in Conns \ {c} : /\ up'[d] = up[d] /\ down'[d] = down[d]
                                /\ Msgs(d)' \subseteq Msgs(d),
         \A w \in BOOLEAN, b \in SUBSET Nat :
           Shaped(w, b, up[c], down[c], Msgs(c)) => Shaped(w, b, up'[c], down'[c], Msgs(c)')
  PROVE  BInv'
<1>1. ASSUME NEW d \in Conns, NEW w \in BOOLEAN, NEW b \in SUBSET Nat,
             Shaped(w, b, up[d], down[d], Msgs(d))
      PROVE  Shaped(w, b, up'[d], down'[d], Msgs(d)')
  <2>1. CASE d = c
    BY <1>1, <2>1
  <2>2. CASE d # c
    <3>1. down[d] \in Seq(Frame)
      BY DEF CInv, GInv, Types
    <3> QED BY <1>1, <2>2, <3>1, ShapeFewer
  <2> QED BY <2>1, <2>2
<1>2. page' \in [Pages -> PageOf] /\ \A p \in Pages : Seen(p)' = Seen(p)
  BY DEF BInv, Seen
<1>3. \A d \in Conns \ (open \cup gone) : up'[d] = up[d] /\ Msgs(d)' \subseteq Msgs(d)
  OBVIOUS
<1> QED BY <1>1, <1>2, <1>3, UnseenStep

\* What is told of a connection.
LEMMA TellOne ==
  ASSUME Types, NEW c \in Conns, NEW f \in Frame, Tell(c, <<f>>)
  PROVE  down'[c] = Append(down[c], f) /\ \A d \in Conns \ {c} : down'[d] = down[d]
<1>1. down[c] \in Seq(Frame) /\ down \in [Conns -> Seq(Frame)]
  BY DEF Types
<1>2. down[c] \o <<f>> = Append(down[c], f)
  BY <1>1
<1> QED BY <1>1, <1>2 DEF Tell

\* A connection with a reply in flight is one that was dialled.
LEMMA GenDialled ==
  ASSUME CInv, BInv, NEW g \in gens
  PROVE  g.conn \in Conns /\ g.conn \in open \cup gone /\ g.msg \in Nat /\ g.msg \in Msgs(g.conn)
<1>1. g.conn \in Conns /\ g.msg \in Nat
  BY DEF CInv, GInv, Types, Gen
<1>2. g.msg \in Msgs(g.conn)
  BY DEF Msgs, GenOf
<1> QED BY <1>1, <1>2 DEF BInv, Socks

\* Without a connection's generations.
LEMMA WithoutConn ==
  ASSUME BInv, NEW c, gens' = {g \in gens : g.conn # c}
  PROVE  Own' /\ Msgs(c)' = {} /\ \A d \in Conns : Msgs(d)' \subseteq Msgs(d)
BY DEF BInv, Own, Msgs, GenOf

LEMMA ServeBubble ==
  ASSUME CInv, BInv, NEW c \in Conns, Serve(c)
  PROVE  BInv'
<1> DEFINE u == up[c]
           d == down[c]
           ms == Msgs(c)
<1>0. /\ GInv /\ Types /\ c \in open /\ open' = open /\ gone' = gone /\ page' = page
      /\ u \in Seq(Asks) /\ u # <<>> /\ d \in Seq(Frame) /\ up'[c] = Tail(u)
      /\ \A e \in Conns \ {c} : up'[e] = up[e]
      /\ nextMsg \in Nat
  <2>1. GInv /\ Types /\ c \in open /\ open' = open /\ Head(up[c]) \in Asks
    BY ServeUp DEF CInv, GInv
  <2>2. gone' = gone
    BY <2>1 DEF Serve, Relay, HandleJoin, Reconfirm, Take, Spectate, Asks
  <2>3. page' = page /\ u # <<>> /\ up' = [up EXCEPT ![c] = Tail(@)]
    BY DEF Serve
  <2> QED BY <2>1, <2>2, <2>3 DEF Types
<1>2. ASSUME NEW w \in BOOLEAN, NEW b \in SUBSET Nat, Shaped(w, b, u, d, ms)
      PROVE  /\ Head(u) # "send" => Shaped(w, b, Tail(u), d, ms)
             /\ Head(u) = "send" => /\ ms = {}
                                    /\ Shaped(w, b, Tail(u), Append(d, Error), {})
                                    /\ \A m \in Nat : Shaped(w, b, Tail(u), d, {m})
  BY <1>0, <1>2, ShapeServed
<1>3. CASE Head(u) # "send" /\ gens' = gens /\ down' = down
  <2>1. Own' /\ \A e \in Conns : Msgs(e)' = Msgs(e)
    BY <1>3 DEF BInv, Own, Msgs, GenOf
  <2> QED BY <1>0, <1>2, <1>3, <2>1, ConnStep
<1>4. CASE Head(u) = "send" /\ gens' = gens /\ Tell(c, <<Error>>)
  <2>1. Own' /\ \A e \in Conns : Msgs(e)' = Msgs(e)
    BY <1>4 DEF BInv, Own, Msgs, GenOf
  <2>2. down'[c] = Append(d, Error) /\ \A e \in Conns \ {c} : down'[e] = down[e]
    BY <1>0, <1>4, Frames, TellOne
  <2> QED BY <1>0, <1>2, <1>4, <2>1, <2>2, ConnStep
<1>5. CASE /\ Head(u) = "send" /\ down' = down /\ GenOf(c) = {}
           /\ gens' = gens \cup {[conn |-> c, msg |-> nextMsg, acc |-> {},
                                  req |-> IF mode = "llama" THEN nextMsg ELSE 0]}
  <2> DEFINE g == [conn |-> c, msg |-> nextMsg, acc |-> {},
                   req |-> IF mode = "llama" THEN nextMsg ELSE 0]
  <2>1. g.conn = c /\ g.msg = nextMsg /\ g.acc = {} /\ gens' = gens \cup {g}
    BY <1>5
  <2> HIDE DEF g
  <2>2. Own' /\ Msgs(c)' = {nextMsg} /\ \A e \in Conns \ {c} : Msgs(e)' = Msgs(e)
    BY <1>5, <2>1 DEF BInv, Own, Msgs, GenOf
  <2> QED BY <1>0, <1>2, <1>5, <2>2, ConnStep
<1>6. CASE Head(u) = "send"
  <2>1. ChatSend(c)
    BY <1>6 DEF Serve
  <2>2. CASE MayRefuse(c) /\ Tell(c, <<Error>>) /\ UNCHANGED <<convs, gens, reqs, nextMsg>>
    BY <1>4, <1>6, <2>2
  <2>3. CASE ~Refuses(c) /\ StartGen(c)
    <3>1. GenOf(c) = {}
      BY <2>3 DEF Refuses
    <3> QED BY <1>4, <1>5, <1>6, <2>3, <3>1 DEF StartGen
  <2> QED BY <2>1, <2>2, <2>3 DEF ChatSend
<1>7. CASE Head(u) \in {"reset", "stop"} /\ Abort(c)
  <2>1. Own' /\ Msgs(c)' = {} /\ \A e \in Conns : Msgs(e)' \subseteq Msgs(e)
    BY <1>0, <1>7, AbortAll, WithoutConn
  <2>2. CASE down' = down
    <3>1. ASSUME NEW w \in BOOLEAN, NEW b \in SUBSET Nat, Shaped(w, b, u, d, ms)
          PROVE  Shaped(w, b, Tail(u), d, {})
      BY <1>0, <1>2, <1>7, <3>1, ShapeFewer
    <3> QED BY <1>0, <2>1, <2>2, <3>1, ConnStep
  <2>3. ASSUME NEW g \in GenOf(c), Tell(c, <<Done(g.msg)>>)
        PROVE  BInv'
    <3>1. g.msg \in Nat /\ g.msg \in ms
      BY <2>3, GenDialled DEF GenOf
    <3>2. Done(g.msg) \in Frame /\ Done(g.msg).kind = "done"
      BY <3>1, Frames DEF Done
    <3>3. down'[c] = Append(d, Done(g.msg)) /\ \A e \in Conns \ {c} : down'[e] = down[e]
      BY <1>0, <2>3, <3>2, TellOne
    <3>4. ASSUME NEW w \in BOOLEAN, NEW b \in SUBSET Nat, Shaped(w, b, u, d, ms)
          PROVE  Shaped(w, b, Tail(u), Append(d, Done(g.msg)), {})
      <4>1. Shaped(w, b, u, Append(d, Done(g.msg)), {})
        BY <1>0, <3>1, <3>2, <3>4, ShapeTold
      <4>2. Append(d, Done(g.msg)) \in Seq(Frame)
        BY <1>0, <3>2
      <4> QED BY <1>0, <1>7, <4>1, <4>2, ShapeServed
    <3> QED BY <1>0, <2>1, <3>3, <3>4, ConnStep
  <2>4. ChatReset(c) \/ ChatStop(c)
    BY <1>7 DEF Serve
  <2> QED BY <1>3, <1>7, <2>2, <2>3, <2>4 DEF ChatReset, ChatStop
<1>8. CASE Head(u) \in {"reset", "stop"} /\ ~Abort(c)
  <2>1. ChatReset(c) \/ ChatStop(c)
    BY <1>8 DEF Serve
  <2> QED BY <1>3, <1>8, <2>1 DEF ChatReset, ChatStop
<1>9. CASE Head(u) = "join"
  BY <1>3, <1>9 DEF Serve
<1> QED BY <1>6, <1>7, <1>8, <1>9, ServeUp DEF Asks

LEMMA NoticeBubble ==
  ASSUME CInv, BInv, NEW c \in Conns, Notice(c)
  PROVE  BInv'
<1>0. /\ Types /\ page' = page /\ open' = open \ {c} /\ gone' = gone \cup {c}
      /\ \A p \in Pages : Sock(p) # c
      /\ up' = [up EXCEPT ![c] = <<>>] /\ down' = [down EXCEPT ![c] = <<>>]
  BY DEF CInv, GInv, Notice, OnClose
<1>1. Own' /\ \A d \in Conns : Msgs(d)' \subseteq Msgs(d)
  <2>1. CASE c \in members
    <3>1. gens' = {g \in gens : g.conn # c}
      BY <2>1, AbortAll DEF CInv, Notice, Forget
    <3> QED BY <3>1, WithoutConn
  <2>2. CASE c \notin members
    <3>1. gens' = gens
      BY <2>2 DEF Notice
    <3> QED BY <3>1 DEF BInv, Own, Msgs, GenOf
  <2> QED BY <2>1, <2>2
<1>2. \A d \in Conns \ {c} : up'[d] = up[d] /\ down'[d] = down[d]
  BY <1>0
<1>3. Socks'
  BY <1>0, <1>1, <1>2 DEF BInv, Socks, Sock
<1>4. Shapes'
  <2> SUFFICES ASSUME NEW p \in Pages, ~page[p].waived, Sock(p) # NoConn
               PROVE  Shaped(page[p].generating, page[p].bubble, up'[Sock(p)],
                             down'[Sock(p)], Msgs(Sock(p))')
    BY <1>0 DEF BInv, Shapes, Sock
  <2>1. Shaped(page[p].generating, page[p].bubble, up[Sock(p)], down[Sock(p)], Msgs(Sock(p)))
    BY DEF BInv, Shapes
  <2>2. Sock(p) \in Conns \ {c}
    BY <1>0 DEF BInv, PageOf, Sock
  <2>3. Msgs(Sock(p))' \subseteq Msgs(Sock(p)) /\ down[Sock(p)] \in Seq(Frame)
    <3>1. \A d \in Conns : Sock(p) = d => Msgs(Sock(p))' = Msgs(d)'
      BY <1>0 DEF Msgs, GenOf, Sock
    <3> QED BY <1>0, <1>1, <2>2, <3>1 DEF Types
  <2> QED BY <1>2, <2>1, <2>2, <2>3, ShapeFewer
<1> QED BY <1>0, <1>1, <1>3, <1>4 DEF BInv

\* A token goes to the generation it belongs to, and to its page.
LEMMA TokenBubble ==
  ASSUME CInv, BInv, NEW g \in gens, OnDelta(g.conn, g.msg), UNCHANGED <<open, gone, up, page>>
  PROVE  BInv'
<1> DEFINE c == g.conn
           m == g.msg
<1>0. GInv /\ Types /\ c \in Conns /\ c \in open \cup gone /\ m \in Nat /\ m \in Msgs(c)
      /\ down[c] \in Seq(Frame)
  BY GenDialled DEF CInv, GInv, Types
<1> DEFINE t(h) == IF h.conn = c THEN [h EXCEPT !.acc = @ \cup {m}] ELSE h
<1>1. gens' = {t(h) : h \in gens}
  BY DEF OnDelta
<1>2. \A h \in gens : h.conn = c => h = g
  BY <1>0 DEF GInv, Single
<1>3. \A h \in gens : t(h).conn = h.conn /\ t(h).msg = h.msg /\ t(h).acc \subseteq {t(h).msg}
  BY <1>0, <1>2 DEF BInv, Own, Types, Gen
<1> HIDE DEF t
<1>4. Own' /\ \A d \in Conns : Msgs(d)' \subseteq Msgs(d)
  <2>1. Own'
    BY <1>1, <1>3 DEF Own
  <2>2. ASSUME NEW d \in Conns, NEW k \in gens', k.conn = d
        PROVE  \E h \in gens : h.conn = d /\ h.msg = k.msg
    BY <1>1, <1>3, <2>2
  <2>3. \A d \in Conns : Msgs(d)' \subseteq Msgs(d)
    BY <2>2 DEF Msgs, GenOf
  <2> QED BY <2>1, <2>3
<1>5. CASE c \notin open
  <2>1. down' = down
    BY <1>0, <1>5, ToldNothing DEF OnDelta
  <2> QED BY <1>0, <1>4, <2>1, ShapeFewer, ConnStep
<1>6. CASE c \in open
  <2>1. Delta(m) \in Frame /\ Tell(c, <<Delta(m)>>)
    BY <1>0, <1>6, Frames DEF OnDelta
  <2>2. down'[c] = Append(down[c], Delta(m)) /\ \A d \in Conns \ {c} : down'[d] = down[d]
    BY <1>0, <2>1, TellOne
  <2>3. ASSUME NEW w \in BOOLEAN, NEW b \in SUBSET Nat, Shaped(w, b, up[c], down[c], Msgs(c))
        PROVE  Shaped(w, b, up'[c], down'[c], Msgs(c)')
    <3>1. Shaped(w, b, up[c], Append(down[c], Delta(m)), Msgs(c))
      BY <1>0, <2>3, ShapeTold
    <3>2. Append(down[c], Delta(m)) \in Seq(Frame)
      BY <1>0, <2>1
    <3> QED BY <1>0, <1>4, <2>2, <3>1, <3>2, ShapeFewer
  <2> QED BY <1>0, <1>4, <2>2, <2>3, ConnStep
<1> QED BY <1>5, <1>6

LEMMA EndBubble ==
  ASSUME CInv, BInv, NEW g \in gens, OnDone(g.conn, g.msg) \/ OnError(g.conn),
         UNCHANGED <<open, gone, up, page>>
  PROVE  BInv'
<1> DEFINE c == g.conn
           m == g.msg
<1>0. GInv /\ Types /\ c \in Conns /\ c \in open \cup gone /\ m \in Nat /\ m \in Msgs(c)
      /\ down[c] \in Seq(Frame)
  BY GenDialled DEF CInv, GInv, Types
<1>1. gens' = {h \in gens : h.conn # c}
  BY DEF OnDone, OnError, GenOf
<1>2. Own' /\ Msgs(c)' = {} /\ \A d \in Conns : Msgs(d)' \subseteq Msgs(d)
  BY <1>1, WithoutConn
<1>3. CASE c \notin open
  <2>1. down' = down
    BY <1>0, <1>3, ToldNothing DEF OnDone, OnError
  <2> QED BY <1>0, <1>2, <2>1, ShapeFewer, ConnStep
<1>4. CASE c \in open
  <2>1. PICK f \in Frame : f.kind \in {"done", "error"} /\ Tell(c, <<f>>)
    BY <1>0, <1>4, Frames DEF OnDone, OnError, Done, Error
  <2>2. down'[c] = Append(down[c], f) /\ \A d \in Conns \ {c} : down'[d] = down[d]
    BY <1>0, <2>1, TellOne
  <2>3. ASSUME NEW w \in BOOLEAN, NEW b \in SUBSET Nat, Shaped(w, b, up[c], down[c], Msgs(c))
        PROVE  Shaped(w, b, up'[c], down'[c], Msgs(c)')
    BY <1>0, <1>2, <2>1, <2>2, <2>3, ShapeTold
  <2> QED BY <1>0, <1>2, <2>2, <2>3, ConnStep
<1> QED BY <1>3, <1>4

LEMMA PumpBubble ==
  ASSUME CInv, BInv, NEW r \in reqs,
         PumpHeaders(r) \/ PumpDelta(r) \/ PumpDone(r) \/ PumpCut(r) \/ PumpFails(r)
  PROVE  BInv'
<1>0. GInv /\ UNCHANGED <<open, gone, up, page>>
  BY DEF CInv, GInv, PumpHeaders, PumpDelta, PumpDone, PumpCut, PumpFails, ticking, vars
<1>1. PICK g \in gens : g.conn = r.conn /\ g.msg = r.msg
  BY <1>0 DEF GInv, Paired
<1>2. CASE PumpHeaders(r)
  <2>1. UNCHANGED <<gens, down>>
    BY <1>2 DEF PumpHeaders
  <2> QED BY <1>0, <2>1 DEF BInv, Socks, Shapes, Own, Msgs, GenOf, Sock
<1>3. CASE PumpDelta(r)
  BY <1>0, <1>1, <1>3, TokenBubble DEF PumpDelta
<1>4. CASE PumpDone(r) \/ PumpCut(r) \/ PumpFails(r)
  BY <1>0, <1>1, <1>4, EndBubble DEF PumpDone, PumpCut, PumpFails
<1> QED BY <1>2, <1>3, <1>4

LEMMA StubBubble ==
  ASSUME CInv, BInv, NEW g \in gens, StubTick(g)
  PROVE  BInv'
<1>1. UNCHANGED <<open, gone, up, page>>
  BY DEF StubTick, ticking, vars
<1> QED BY <1>1, TokenBubble, EndBubble DEF StubTick

\* A page that is told, or marked, that what it waits for is lost.
LEMMA WipedSeen ==
  ASSUME BInv, NEW conns, Wiped(conns)
  PROVE  page' \in [Pages -> PageOf] /\ \A p \in Pages : Seen(p)' = Seen(p)
<1> DEFINE q(p) == IF page[p].generating /\ Sock(p) \in conns THEN [page[p] EXCEPT !.lost = TRUE]
                   ELSE page[p]
<1>1. page' = [p \in Pages |-> q(p)]
  BY DEF Wiped
<1>2. \A p \in Pages : page[p] \in PageOf
  BY DEF BInv
<1>3. \A p \in Pages : /\ q(p) \in PageOf /\ q(p).sock = page[p].sock
                       /\ q(p).generating = page[p].generating /\ q(p).bubble = page[p].bubble
                       /\ q(p).waived = page[p].waived
  BY <1>2 DEF PageOf
<1> HIDE DEF q
<1> QED BY <1>1, <1>3 DEF Seen

LEMMA OperatorBubble ==
  ASSUME CInv, BInv, StopAll \/ AdminReset \/ Relaunch \/ \E n \in ContextSizes : Slide(n)
  PROVE  BInv'
<1>0. /\ Types /\ \A c \in Conns : down[c] \in Seq(Frame)
      /\ UNCHANGED <<open, gone, up>>
  BY DEF CInv, GInv, Types, StopAll, AdminReset, Relaunch, Slide, vars
<1>1. page' \in [Pages -> PageOf] /\ \A p \in Pages : Seen(p)' = Seen(p)
  <2>1. CASE page' = page
    BY <2>1 DEF BInv, Seen
  <2>2. ASSUME NEW conns, Wiped(conns)
        PROVE  page' \in [Pages -> PageOf] /\ \A p \in Pages : Seen(p)' = Seen(p)
    BY <2>2, WipedSeen
  <2> QED BY <2>1, <2>2 DEF StopAll, AdminReset, Relaunch, Slide
<1>2. CASE \E n \in ContextSizes : Slide(n)
  <2>1. UNCHANGED <<gens, down>>
    BY <1>2 DEF Slide
  <2>2. Own' /\ \A c \in Conns : Msgs(c)' = Msgs(c)
    BY <2>1 DEF BInv, Own, Msgs, GenOf
  <2> QED BY <1>0, <1>1, <2>1, <2>2, UnseenStep
<1>3. ASSUME gens' = {},
             \A c \in Conns, w \in BOOLEAN, b \in SUBSET Nat :
               Shaped(w, b, up[c], down[c], Msgs(c)) => Shaped(w, b, up[c], down'[c], {})
      PROVE  BInv'
  <2>1. Own' /\ \A c \in Conns : Msgs(c)' = {}
    BY <1>3 DEF Own, Msgs, GenOf
  <2> QED BY <1>0, <1>1, <1>3, <2>1, UnseenStep
<1>4. CASE AdminReset
  <2>1. gens' = {} /\ down' = down
    BY <1>4 DEF AdminReset
  <2> QED BY <1>0, <1>3, <2>1, ShapeFewer
<1>5. CASE Relaunch
  <2>1. /\ gens' = {} /\ Announce \in Frame /\ Announce.kind = "engine"
        /\ \A c \in Conns : down'[c] = IF c \in open THEN Append(down[c], Announce) ELSE down[c]
    BY <1>5, Frames DEF Relaunch, Announce
  <2>2. ASSUME NEW c \in Conns, NEW w \in BOOLEAN, NEW b \in SUBSET Nat,
               Shaped(w, b, up[c], down[c], Msgs(c))
        PROVE  Shaped(w, b, up[c], down'[c], {})
    <3>1. {} \subseteq Msgs(c) /\ down[c] \in Seq(Frame)
      BY <1>0
    <3>2. /\ Shaped(w, b, up[c], down[c], {})
          /\ \A f \in Frame : f.kind = "engine" => Shaped(w, b, up[c], Append(down[c], f), {})
      BY <2>2, <3>1, ShapeFewer
    <3>3. Shaped(w, b, up[c], Append(down[c], Announce), {})
      BY <2>1, <3>2
    <3> QED BY <2>1, <3>2, <3>3
  <2> QED BY <1>3, <2>1, <2>2
<1>6. CASE StopAll
  <2>1. ASSUME NEW c \in Conns, NEW w \in BOOLEAN, NEW b \in SUBSET Nat,
               Shaped(w, b, up[c], down[c], Msgs(c))
        PROVE  Shaped(w, b, up[c], down'[c], {})
    <3>1. CASE GenOf(c) = {} \/ c \notin open
      <4>1. down'[c] = down[c]
        BY <1>6, <3>1 DEF StopAll
      <4> QED BY <1>0, <2>1, <4>1, ShapeFewer
    <3>2. CASE GenOf(c) # {} /\ c \in open
      <4> DEFINE g == CHOOSE g \in GenOf(c) : TRUE
      <4>1. g \in gens /\ g.conn = c
        BY <3>2 DEF GenOf
      <4>2. down'[c] = Append(down[c], Done(g.msg))
        BY <1>6, <3>2 DEF StopAll
      <4> HIDE DEF g
      <4>3. g.msg \in Nat /\ g.msg \in Msgs(c) /\ Done(g.msg) \in Frame /\ Done(g.msg).kind = "done"
        BY <4>1, GenDialled, Frames DEF Done
      <4> QED BY <1>0, <2>1, <4>2, <4>3, ShapeTold
    <3> QED BY <3>1, <3>2
  <2> QED BY <1>3, <1>6, <2>1 DEF StopAll
<1> QED BY <1>2, <1>4, <1>5, <1>6

-----------------------------------------------------------------------------
(* The pages' steps and the bubbles.                                       *)

\* A step of one page, with the engine's replies untouched.
LEMMA OnePageStep ==
  ASSUME CInv, BInv, NEW p \in Pages, NEW q \in PageOf, page' = [page EXCEPT ![p] = q],
         gens' = gens, open \subseteq open', gone' = gone,
         q.sock # NoConn => /\ q.sock \in open'
                            /\ \A r \in Pages \ {p} : Sock(r) # q.sock,
         \A c \in Conns : c # q.sock => up'[c] = up[c] /\ down'[c] = down[c],
         ~q.waived => IF q.sock = NoConn THEN Bare(q.generating, q.bubble)
                      ELSE Shaped(q.generating, q.bubble, up'[q.sock], down'[q.sock], Msgs(q.sock))
  PROVE  BInv'
<1>1. page' \in [Pages -> PageOf] /\ page'[p] = q /\ \A r \in Pages \ {p} : page'[r] = page[r]
  BY DEF BInv
<1>2. Own' /\ \A c \in Conns : Msgs(c)' = Msgs(c)
  BY DEF BInv, Own, Msgs, GenOf
<1>3. \A r \in Pages : Sock(r) \in Conns \cup {NoConn}
  BY DEF BInv, PageOf, Sock
<1>4. q.sock \in Conns \cup {NoConn}
  BY DEF PageOf
<1>5. Socks'
  <2>1. ASSUME NEW r \in Pages, page'[r].sock # NoConn
        PROVE  page'[r].sock \in open' /\ \A s \in Pages : page'[s].sock = page'[r].sock => s = r
    BY <1>1, <2>1 DEF BInv, Socks, Sock
  <2>2. ASSUME NEW c \in Conns \ (open' \cup gone') PROVE up'[c] = <<>> /\ Msgs(c)' = {}
    <3>1. c # q.sock
      BY <1>4, <2>2, RoomAssumption
    <3> QED BY <1>2, <2>2, <3>1 DEF BInv, Socks
  <2> QED BY <2>1, <2>2 DEF Socks, Sock
<1>6. Shapes'
  <2> DEFINE Fits(r) == IF Sock(r) = NoConn THEN Bare(page[r].generating, page[r].bubble)
                        ELSE Shaped(page[r].generating, page[r].bubble, up[Sock(r)],
                                    down[Sock(r)], Msgs(Sock(r)))
  <2>1. ~page'[p].waived => Fits(p)'
    BY <1>1 DEF Sock, Msgs, GenOf
  <2>2. ASSUME NEW r \in Pages \ {p}, ~page'[r].waived PROVE Fits(r)'
    <3>1. Sock(r)' = Sock(r) /\ page'[r] = page[r] /\ Fits(r)
      BY <1>1, <2>2 DEF BInv, Shapes, Sock
    <3>2. Sock(r) # NoConn => up'[Sock(r)] = up[Sock(r)] /\ down'[Sock(r)] = down[Sock(r)]
      BY <1>3
    <3>3. Msgs(Sock(r))' = Msgs(Sock(r))
      BY <3>1 DEF Msgs, GenOf
    <3> QED BY <3>1, <3>2, <3>3
  <2> HIDE DEF Fits
  <2>3. \A r \in Pages : ~page'[r].waived => Fits(r)'
    BY <2>1, <2>2
  <2> QED BY <2>3 DEF Shapes, Fits
<1> QED BY <1>1, <1>2, <1>5, <1>6 DEF BInv

\* What a page sends goes up its socket.
LEMMA SentUp ==
  ASSUME Types, NEW p \in Pages, NEW a \in Asks, Send(p, a)
  PROVE  \A c \in Conns : up'[c] = IF c = Sock(p) THEN Append(up[c], a) ELSE up[c]
<1>1. up \in [Conns -> Seq(Asks)] /\ NoConn \notin Conns
  BY RoomAssumption DEF Types
<1>2. CASE Sock(p) = NoConn
  BY <1>1, <1>2 DEF Send
<1>3. CASE Sock(p) # NoConn
  BY <1>1, <1>3 DEF Send
<1> QED BY <1>2, <1>3

LEMMA DialBubble ==
  ASSUME CInv, BInv, NEW p \in Pages, NEW c \in Conns, Dial(p, c)
  PROVE  BInv'
<1> DEFINE q == [page[p] EXCEPT !.sock = c]
<1>0. /\ Types /\ Quiet /\ Sock(p) = NoConn /\ c \notin open \cup gone /\ open' = open \cup {c}
      /\ gone' = gone /\ gens' = gens /\ down' = down /\ page[p] \in PageOf
  BY DEF CInv, GInv, BInv, Dial, Connect, engineVars
<1>1. /\ q \in PageOf /\ q.sock = c /\ q.waived = page[p].waived
      /\ q.generating = page[p].generating /\ q.bubble = page[p].bubble
      /\ page' = [page EXCEPT ![p] = q]
  BY <1>0 DEF PageOf, Dial
<1> HIDE DEF q
<1>2. up'[c] = <<"join">> /\ \A d \in Conns \ {c} : up'[d] = up[d]
  BY <1>0 DEF Dial, Types
<1>3. down'[c] = <<>> /\ Msgs(c) = {}
  BY <1>0 DEF BInv, Socks, Quiet
<1>4. \A r \in Pages \ {p} : Sock(r) # c
  BY <1>0, RoomAssumption DEF BInv, Socks
<1>5. ASSUME ~q.waived PROVE Shaped(q.generating, q.bubble, <<"join">>, <<>>, {})
  <2>1. Bare(q.generating, q.bubble) /\ q.generating \in BOOLEAN
    BY <1>0, <1>1, <1>5 DEF BInv, Shapes, PageOf
  <2>2. NoSend(<<"join">>) /\ Silent(<<>>) /\ \A m : OfReply(<<>>, m)
    BY DEF NoSend, Silent, OfReply
  <2>3. CASE ~q.generating
    BY <2>1, <2>2, <2>3 DEF Bare, Idle, Shaped
  <2>4. CASE q.generating
    <3>1. PICK m \in Nat : q.bubble \subseteq {m}
      BY <2>1 DEF Bare
    <3>2. Being(q.generating, q.bubble, <<"join">>, <<>>, {}, m)
      BY <2>2, <2>4, <3>1 DEF Being
    <3> QED BY <3>2 DEF Shaped
  <2> QED BY <2>1, <2>3, <2>4
<1>6. c # NoConn
  BY RoomAssumption
<1> QED BY <1>0, <1>1, <1>2, <1>3, <1>4, <1>5, <1>6, OnePageStep

\* A page's shape, while it keeps its socket.
LEMMA PageShape ==
  ASSUME CInv, BInv, NEW p \in Pages
  PROVE  /\ page[p] \in PageOf /\ Sock(p) \in Conns \cup {NoConn} /\ NoConn \notin Conns
         /\ Sock(p) # NoConn => /\ Sock(p) \in open /\ \A r \in Pages \ {p} : Sock(r) # Sock(p)
                                /\ up[Sock(p)] \in Seq(Asks) /\ down[Sock(p)] \in Seq(Frame)
         /\ ~page[p].waived =>
              /\ Sock(p) # NoConn => Shaped(page[p].generating, page[p].bubble, up[Sock(p)],
                                            down[Sock(p)], Msgs(Sock(p)))
              /\ Bare(page[p].generating, page[p].bubble)
<1>1. page[p] \in PageOf /\ Sock(p) \in Conns \cup {NoConn} /\ NoConn \notin Conns
  BY RoomAssumption DEF BInv, PageOf, Sock
<1>2. Sock(p) # NoConn => /\ Sock(p) \in open /\ \A r \in Pages \ {p} : Sock(r) # Sock(p)
                          /\ up[Sock(p)] \in Seq(Asks) /\ down[Sock(p)] \in Seq(Frame)
  BY <1>1 DEF BInv, Socks, CInv, GInv, Types
<1>3. ASSUME ~page[p].waived, Sock(p) # NoConn
      PROVE  Shaped(page[p].generating, page[p].bubble, up[Sock(p)], down[Sock(p)], Msgs(Sock(p)))
  BY <1>3 DEF BInv, Shapes
<1>4. ASSUME ~page[p].waived PROVE Bare(page[p].generating, page[p].bubble)
  <2>1. CASE Sock(p) = NoConn
    BY <1>4, <2>1 DEF BInv, Shapes
  <2>2. CASE Sock(p) # NoConn
    BY <1>2, <1>3, <1>4, <2>2, ShapeAsks
  <2> QED BY <2>1, <2>2
<1> QED BY <1>1, <1>2, <1>3, <1>4

LEMMA AskBubble ==
  ASSUME CInv, BInv, NEW p \in Pages, Type(p) \/ PressStop(p) \/ PressNew(p)
  PROVE  BInv'
<1> DEFINE c == Sock(p)
<1>1. /\ Types /\ UNCHANGED <<open, gone, gens, down>>
      /\ open \subseteq open'
  BY DEF CInv, GInv, Type, PressStop, PressNew, vars, engineVars
<1>2. /\ page[p] \in PageOf /\ c \in Conns \cup {NoConn} /\ NoConn \notin Conns
      /\ c # NoConn => /\ c \in open' /\ \A r \in Pages \ {p} : Sock(r) # c
                       /\ up[c] \in Seq(Asks) /\ down[c] \in Seq(Frame)
  BY <1>1, PageShape
<1>3. {"send", "stop", "reset"} \subseteq Asks
  BY DEF Asks
<1>4. CASE Type(p)
  <2> DEFINE q == [page[p] EXCEPT !.generating = TRUE, !.bubble = {}, !.lost = c = NoConn]
  <2>1. /\ q \in PageOf /\ q.sock = c /\ q.waived = page[p].waived /\ q.generating = TRUE
        /\ q.bubble = {} /\ page' = [page EXCEPT ![p] = q] /\ ~page[p].generating
    BY <1>4, <1>2 DEF Type, PageOf, Sock
  <2> HIDE DEF q
  <2>2. \A d \in Conns : up'[d] = IF d = c THEN Append(up[d], "send") ELSE up[d]
    BY <1>1, <1>4, SentUp DEF Type, Asks
  <2>3. Bare(TRUE, {})
    <3>1. {} \subseteq {0} /\ 0 \in Nat
      OBVIOUS
    <3> QED BY <3>1 DEF Bare
  <2>4. ASSUME ~q.waived, c # NoConn
        PROVE  Shaped(TRUE, {}, up'[c], down'[c], Msgs(c))
    <3>1. Shaped(page[p].generating, page[p].bubble, up[c], down[c], Msgs(c))
      BY <2>1, <2>4, PageShape
    <3>2. Shaped(TRUE, {}, Append(up[c], "send"), down[c], Msgs(c))
      <4>1. up[c] \in Seq(Asks) /\ page[p].generating = FALSE
        BY <1>2, <2>1, <2>4 DEF PageOf
      <4>2. Shaped(FALSE, page[p].bubble, up[c], down[c], Msgs(c))
        BY <3>1, <4>1
      <4> HIDE DEF c
      <4> QED BY <4>1, <4>2, ShapeAsks
    <3> QED BY <1>1, <1>2, <2>2, <2>4, <3>2
  <2>5. \A d \in Conns : d # c => up'[d] = up[d] /\ down'[d] = down[d]
    BY <1>1, <2>2
  <2> HIDE DEF c
  <2> QED BY <1>1, <1>2, <2>1, <2>3, <2>4, <2>5, OnePageStep
<1>5. CASE PressStop(p)
  <2>1. page' = [page EXCEPT ![p] = page[p]] /\ c # NoConn /\ page[p].sock = c
    BY <1>5 DEF PressStop, BInv, Sock
  <2>2. \A d \in Conns : up'[d] = IF d = c THEN Append(up[d], "stop") ELSE up[d]
    BY <1>1, <1>5, SentUp DEF PressStop, Asks
  <2>3. ASSUME ~page[p].waived
        PROVE  Shaped(page[p].generating, page[p].bubble, up'[c], down'[c], Msgs(c))
    <3>1. Shaped(page[p].generating, page[p].bubble, up[c], down[c], Msgs(c))
      BY <2>1, <2>3, PageShape
    <3>2. Shaped(page[p].generating, page[p].bubble, Append(up[c], "stop"), down[c], Msgs(c))
      BY <1>2, <1>3, <2>1, <3>1, ShapeAsks
    <3> QED BY <1>1, <1>2, <2>1, <2>2, <3>2
  <2>4. \A d \in Conns : d # c => up'[d] = up[d] /\ down'[d] = down[d]
    BY <1>1, <2>2
  <2> HIDE DEF c
  <2> QED BY <1>1, <1>2, <2>1, <2>3, <2>4, OnePageStep
<1>6. CASE PressNew(p)
  <2> DEFINE q == [Released(page[p]) EXCEPT !.waived = page[p].waived \/ page[p].generating]
  <2>1. /\ q \in PageOf /\ q.sock = c /\ q.generating = FALSE /\ q.bubble = {}
        /\ q.waived = (page[p].waived \/ page[p].generating)
        /\ page' = [page EXCEPT ![p] = q]
    BY <1>6, <1>2 DEF PressNew, Released, PageOf, Sock
  <2> HIDE DEF q
  <2>2. \A d \in Conns : up'[d] = IF d = c THEN Append(up[d], "reset") ELSE up[d]
    BY <1>1, <1>6, SentUp DEF PressNew, Asks
  <2>3. Bare(FALSE, {})
    <3>1. {} \subseteq {0} /\ 0 \in Nat
      OBVIOUS
    <3> QED BY <3>1 DEF Bare
  <2>4. ASSUME ~q.waived, c # NoConn
        PROVE  Shaped(FALSE, {}, up'[c], down'[c], Msgs(c))
    <3>1. Shaped(FALSE, {}, up[c], down[c], Msgs(c))
      <4>1. page[p].generating = FALSE /\ ~page[p].waived
        BY <1>2, <2>1, <2>4 DEF PageOf
      <4>2. page[p].bubble = {}
        BY <4>1, PageShape DEF Bare
      <4> QED BY <2>4, <4>1, <4>2, PageShape
    <3>2. Shaped(FALSE, {}, Append(up[c], "reset"), down[c], Msgs(c))
      BY <1>2, <1>3, <2>4, <3>1, ShapeAsks
    <3> QED BY <1>1, <1>2, <2>2, <2>4, <3>2
  <2>5. \A d \in Conns : d # c => up'[d] = up[d] /\ down'[d] = down[d]
    BY <1>1, <2>2
  <2> HIDE DEF c
  <2> QED BY <1>1, <1>2, <2>1, <2>3, <2>4, <2>5, OnePageStep
<1> QED BY <1>4, <1>5, <1>6

LEMMA HearBubble ==
  ASSUME CInv, BInv, NEW p \in Pages, Hear(p)
  PROVE  BInv'
<1> DEFINE c == Sock(p)
<1>1. /\ UNCHANGED <<open, gone, gens, up>> /\ c # NoConn /\ down[c] # <<>>
      /\ down' = [down EXCEPT ![c] = Tail(@)] /\ Types
  BY DEF CInv, GInv, Hear, vars, engineVars
<1>2. /\ page[p] \in PageOf /\ c \in Conns /\ c \in open
      /\ down[c] \in Seq(Frame) /\ \A r \in Pages \ {p} : Sock(r) # c
  BY <1>1, PageShape
<1>3. /\ down'[c] = Tail(down[c]) /\ \A d \in Conns : d # c => up'[d] = up[d] /\ down'[d] = down[d]
      /\ up'[c] = up[c]
  BY <1>1, <1>2 DEF Types
<1>4. Head(down[c]) \in Frame
  BY <1>1, <1>2
<1>5. ASSUME ~page[p].waived
      PROVE  /\ Head(down[c]).kind = "engine" =>
                  Shaped(page[p].generating, page[p].bubble, up[c], Tail(down[c]), Msgs(c))
             /\ Head(down[c]).kind = "delta" =>
                  Shaped(page[p].generating, page[p].bubble \cup {Head(down[c]).msg}, up[c],
                         Tail(down[c]), Msgs(c))
             /\ Head(down[c]).kind \in {"done", "error"} =>
                  Shaped(FALSE, {}, up[c], Tail(down[c]), Msgs(c))
  <2>1. Shaped(page[p].generating, page[p].bubble, up[c], down[c], Msgs(c))
    BY <1>1, <1>5, PageShape
  <2>2. page[p].generating \in BOOLEAN /\ page[p].bubble \in SUBSET Nat
    BY <1>2 DEF PageOf
  <2> HIDE DEF c
  <2> QED BY <1>1, <1>2, <2>1, <2>2, ShapeHeard
<1>6. ASSUME NEW q \in PageOf, page' = [page EXCEPT ![p] = q], q.sock = c,
             ~q.waived => Shaped(q.generating, q.bubble, up[c], Tail(down[c]), Msgs(c))
      PROVE  BInv'
  <2> HIDE DEF c
  <2>1. /\ gens' = gens /\ open \subseteq open' /\ gone' = gone /\ q.sock \in open'
        /\ \A r \in Pages \ {p} : Sock(r) # q.sock
        /\ \A d \in Conns : d # q.sock => up'[d] = up[d] /\ down'[d] = down[d]
    BY <1>1, <1>2, <1>3, <1>6
  <2>2. ~q.waived => Shaped(q.generating, q.bubble, up'[q.sock], down'[q.sock], Msgs(q.sock))
    BY <1>3, <1>6
  <2>3. q.sock # NoConn
    BY <1>1, <1>6
  <2> QED BY <1>6, <2>1, <2>2, <2>3, OnePageStep
<1>7. CASE Head(down[c]).kind = "engine"
  <2>1. page' = [page EXCEPT ![p] = page[p]] /\ page[p].sock = c
    BY <1>7 DEF Hear, BInv, Sock
  <2> QED BY <1>2, <1>5, <1>6, <1>7, <2>1
<1>8. CASE Head(down[c]).kind = "delta"
  <2> DEFINE q == [page[p] EXCEPT !.bubble = @ \cup {Head(down[c]).msg}]
  <2>1. /\ q \in PageOf /\ q.sock = c /\ q.waived = page[p].waived
        /\ q.generating = page[p].generating /\ q.bubble = page[p].bubble \cup {Head(down[c]).msg}
    BY <1>2, <1>4 DEF PageOf, Frame, Sock
  <2>2. page' = [page EXCEPT ![p] = q]
    BY <1>8 DEF Hear
  <2> HIDE DEF q
  <2> QED BY <1>5, <1>6, <1>8, <2>1, <2>2
<1>9. CASE Head(down[c]).kind \in {"done", "error"}
  <2> DEFINE q == Released(page[p])
  <2>1. /\ q \in PageOf /\ q.sock = c /\ q.waived = page[p].waived
        /\ q.generating = FALSE /\ q.bubble = {}
    BY <1>2 DEF PageOf, Released, Sock
  <2>2. page' = [page EXCEPT ![p] = q]
    BY <1>9 DEF Hear
  <2> HIDE DEF q
  <2> QED BY <1>5, <1>6, <1>9, <2>1, <2>2
<1> QED BY <1>4, <1>7, <1>8, <1>9 DEF Frame

LEMMA DropBubble ==
  ASSUME CInv, BInv, NEW p \in Pages, DropSocket(p)
  PROVE  BInv'
<1> DEFINE q == [page[p] EXCEPT !.sock = NoConn, !.lost = @ \/ page[p].generating]
<1>1. /\ UNCHANGED <<open, gone, gens, up, down>> /\ page' = [page EXCEPT ![p] = q]
  BY DEF DropSocket, vars, engineVars
<1>2. /\ q \in PageOf /\ q.sock = NoConn /\ q.waived = page[p].waived
      /\ q.generating = page[p].generating /\ q.bubble = page[p].bubble
  BY PageShape DEF PageOf
<1> HIDE DEF q
<1>3. ~q.waived => Bare(q.generating, q.bubble)
  BY <1>2, PageShape
<1> QED BY <1>1, <1>2, <1>3, OnePageStep

-----------------------------------------------------------------------------
(* One reply in a bubble.                                                  *)

LEMMA InitBubble == ChatInit => BInv
<1> SUFFICES ASSUME ChatInit PROVE BInv
  OBVIOUS
<1> USE DEF ChatInit, Init
<1>1. page \in [Pages -> PageOf] /\ \A p \in Pages : page[p] = NewPage
  BY DEF PageOf, NewPage
<1>2. Socks
  BY <1>1 DEF Socks, Sock, NewPage, Msgs, GenOf
<1>3. Shapes
  <2>1. Bare(FALSE, {})
    <3>1. {} \subseteq {0} /\ 0 \in Nat
      OBVIOUS
    <3> QED BY <3>1 DEF Bare
  <2> QED BY <1>1, <2>1 DEF Shapes, Sock, NewPage
<1> QED BY <1>1, <1>2, <1>3 DEF BInv, Own

LEMMA BubbleStep == ASSUME CInv, BInv, [ChatNext]_chatVars PROVE BInv'
<1>1. CASE UNCHANGED chatVars
  BY <1>1 DEF BInv, Socks, Shapes, Own, Msgs, GenOf, Sock, chatVars, engineVars, vars
<1>2. CASE ChatNext
  BY <1>2, DialBubble, AskBubble, HearBubble, DropBubble, ServeBubble, NoticeBubble, PumpBubble,
     StubBubble, OperatorBubble DEF ChatNext
<1> QED BY <1>1, <1>2

\* A generation only has its own tokens, and a page that never let go of a reply
\* has one reply in its bubble, though it looks at no id (chat.js:41): whatever
\* prompts, stops, drops, failures and interventions come in between.
THEOREM ChatOwnTokens == ChatSpec => []OwnTokensOnly
<1>1. ChatInit => CInv /\ BInv
  BY InitCInv, InitBubble
<1>2. CInv /\ BInv /\ [ChatNext]_chatVars => (CInv /\ BInv)'
  BY ChatStep, BubbleStep
<1>3. ASSUME CInv, BInv PROVE OwnTokensOnly
  <2>1. \A g, h \in gens : g.conn = h.conn => g = h
    BY <1>3 DEF CInv, GInv, Single
  <2>2. \A g \in gens : g.acc \subseteq {g.msg}
    BY <1>3 DEF BInv, Own
  <2>3. ASSUME NEW p \in Pages, ~page[p].waived PROVE ~(Cardinality(page[p].bubble) > 1)
    <3>1. PICK m \in Nat : page[p].bubble \subseteq {m}
      BY <1>3, <2>3, PageShape DEF Bare
    <3>2. page[p].bubble = {} \/ page[p].bubble = {m}
      BY <3>1
    <3>3. Cardinality(page[p].bubble) \in {0, 1}
      BY <3>2, FS_EmptySet, FS_Singleton
    <3> QED BY <3>3
  <2> QED BY <2>1, <2>2, <2>3 DEF OwnTokensOnly
<1> QED BY <1>1, <1>2, <1>3, PTL DEF ChatSpec

-----------------------------------------------------------------------------
(* The cut to the context.                                                 *)

\* A turn is made of finitely many replies.
FTurn == {t \in Turn : IsFiniteSet(t.of)}

LEMMA TurnCosts == \A t \in FTurn : EstimateTokens(t) \in Nat
BY FS_CardinalityType DEF FTurn, EstimateTokens

\* t[n] is what the first n turns of d cost.
Costs(t, d) == /\ t \in [0 .. Len(d) -> Nat]
               /\ t[0] = 0
               /\ \A n \in 1 .. Len(d) : t[n] = t[n - 1] + EstimateTokens(d[n])

LEMMA CostIs ==
  ASSUME NEW d \in Seq(FTurn)
  PROVE  \E t : Costs(t, d) /\ EstimatedTokens(d) = t[Len(d)]
<1> DEFINE N == Len(d)
           step == [n \in 1 .. N |-> [v \in Nat |-> v + EstimateTokens(d[n])]]
           Sums(a) == [n \in 0 .. N |-> IF n = 0 THEN 0 ELSE a[n - 1] + EstimateTokens(d[n])]
           c == CHOOSE a : a = Sums(a)
<1>1. N \in Nat /\ \A n \in 1 .. N : EstimateTokens(d[n]) \in Nat
  BY TurnCosts
<1>2. step \in [1 .. N -> [Nat -> Nat]] /\ 0 \in Nat
  BY <1>1
<1>3. \A n \in 1 .. N, v \in Nat : step[n][v] = v + EstimateTokens(d[n])
  OBVIOUS
<1> HIDE DEF step
<1>4. PICK a \in [0 .. N -> Nat] : Follows(a, 0, step, N)
  BY <1>1, <1>2, Iterated
<1>5. ASSUME NEW n \in 0 .. N
      PROVE  a[n] = IF n = 0 THEN 0 ELSE a[n - 1] + EstimateTokens(d[n])
  <2>1. CASE n = 0
    BY <2>1, <1>4 DEF Follows
  <2>2. CASE n # 0
    <3>1. n \in 1 .. N /\ n - 1 \in 0 .. N
      BY <2>2, <1>1
    <3>2. a[n - 1] \in Nat
      BY <3>1
    <3> QED BY <2>2, <3>1, <3>2, <1>4, <1>3 DEF Follows
  <2> QED BY <2>1, <2>2
<1>6. a = Sums(a)
  BY <1>5
<1>7. c = Sums(c)
  BY <1>6
<1>8. EstimatedTokens(d) = c[N]
  BY DEF EstimatedTokens
<1> HIDE DEF c
<1>9. c[0] = 0 /\ \A n \in 1 .. N : c[n] = c[n - 1] + EstimateTokens(d[n])
  <2>1. \A n \in 0 .. N : c[n] = IF n = 0 THEN 0 ELSE c[n - 1] + EstimateTokens(d[n])
    BY <1>7
  <2>2. 0 \in 0 .. N /\ \A n \in 1 .. N : n \in 0 .. N /\ n # 0
    BY <1>1
  <2> HIDE DEF N, Sums
  <2> QED BY <2>1, <2>2
<1>10. \A n \in 0 .. N : c[n] \in Nat
  <2> DEFINE K == {n \in Nat : n <= N => c[n] \in Nat}
  <2>1. 0 \in K
    BY <1>9
  <2>2. ASSUME NEW n \in Nat, n \in K PROVE n + 1 \in K
    <3>0. SUFFICES ASSUME n + 1 <= N PROVE c[n + 1] \in Nat
      OBVIOUS
    <3>1. n + 1 \in 1 .. N /\ (n + 1) - 1 = n /\ c[n] \in Nat
      BY <1>1, <2>2, <3>0
    <3> QED BY <1>1, <1>9, <3>1
  <2> HIDE DEF K
  <2>3. Nat \subseteq K
    BY <2>1, <2>2, SetInduction
  <2>4. ASSUME NEW n \in 0 .. N PROVE c[n] \in Nat
    <3>1. n \in Nat /\ n <= N /\ n \in K
      BY <1>1, <2>3
    <3> QED BY <3>1 DEF K
  <2> QED BY <2>4
<1>11. c \in [0 .. N -> Nat]
  <2>1. c = [n \in 0 .. N |-> c[n]]
    BY <1>7
  <2> QED BY <2>1, <1>10
<1> QED BY <1>8, <1>9, <1>11 DEF Costs

\* To drop the oldest turn makes a dialogue no dearer.
LEMMA TailCosts ==
  ASSUME NEW d \in Seq(FTurn), d # <<>>
  PROVE  /\ EstimatedTokens(d) \in Nat /\ EstimatedTokens(Tail(d)) \in Nat
         /\ EstimatedTokens(Tail(d)) <= EstimatedTokens(d)
<1> DEFINE e == Tail(d)
           M == Len(e)
<1>1. /\ e \in Seq(FTurn) /\ M \in Nat /\ Len(d) = M + 1
      /\ \A n \in 1 .. M : e[n] = d[n + 1]
  OBVIOUS
<1>2. PICK t : Costs(t, d) /\ EstimatedTokens(d) = t[M + 1]
  BY <1>1, CostIs
<1>3. PICK s : Costs(s, e) /\ EstimatedTokens(e) = s[M]
  BY <1>1, CostIs
<1>4. \A n \in 1 .. M + 1 : EstimateTokens(d[n]) \in Nat
  BY <1>1, TurnCosts
<1> HIDE DEF e
<1>5. /\ t \in [0 .. M + 1 -> Nat] /\ s \in [0 .. M -> Nat] /\ s[0] = 0
      /\ \A n \in 1 .. M + 1 : t[n] = t[n - 1] + EstimateTokens(d[n])
      /\ \A n \in 1 .. M : s[n] = s[n - 1] + EstimateTokens(d[n + 1])
  BY <1>1, <1>2, <1>3 DEF Costs
<1> HIDE DEF M
<1> DEFINE K == {n \in Nat : n <= M => s[n] <= t[n + 1]}
<1>6. 0 \in K
  BY <1>1, <1>5
<1>7. ASSUME NEW n \in Nat, n \in K PROVE n + 1 \in K
  <2>0. SUFFICES ASSUME n + 1 <= M PROVE s[n + 1] <= t[(n + 1) + 1]
    OBVIOUS
  <2>1. /\ n + 1 \in 1 .. M /\ (n + 1) - 1 = n /\ n \in 0 .. M /\ n + 1 \in 0 .. M + 1
        /\ (n + 1) + 1 \in 1 .. M + 1 /\ ((n + 1) + 1) - 1 = n + 1
    BY <1>1, <2>0
  <2>2. s[n + 1] = s[n] + EstimateTokens(d[(n + 1) + 1])
    BY <1>5, <2>1
  <2>3. t[(n + 1) + 1] = t[n + 1] + EstimateTokens(d[(n + 1) + 1])
    BY <1>5, <2>1
  <2>4. s[n] \in Nat /\ t[n + 1] \in Nat /\ EstimateTokens(d[(n + 1) + 1]) \in Nat /\ s[n] <= t[n + 1]
    BY <1>4, <1>5, <1>7, <2>1
  <2> QED BY <2>2, <2>3, <2>4
<1> HIDE DEF K
<1>8. M \in K
  BY <1>1, <1>6, <1>7, SetInduction
<1>9. s[M] <= t[M + 1]
  BY <1>1, <1>8 DEF K
<1>10. t[M + 1] \in Nat /\ s[M] \in Nat
  BY <1>1, <1>5
<1> QED BY <1>2, <1>3, <1>9, <1>10 DEF e

LEMMA SameTurns ==
  ASSUME NEW d \in Seq(FTurn), NEW e \in Seq(FTurn), Len(d) = Len(e),
         \A i \in 1 .. Len(e) : d[i] = e[i]
  PROVE  d = e
OBVIOUS

LEMMA WithoutIs ==
  ASSUME NEW d \in Seq(FTurn), NEW k \in 0 .. Len(d)
  PROVE  /\ Without(d, k) \in Seq(FTurn) /\ Len(Without(d, k)) = Len(d) - k
         /\ \A i \in 1 .. Len(d) - k : Without(d, k)[i] = d[k + i]
         /\ k < Len(d) => /\ Without(d, k) # <<>>
                          /\ Tail(Without(d, k)) = Without(d, k + 1)
         /\ k = 0 => Without(d, k) = d
<1>1. /\ Without(d, k) \in Seq(FTurn) /\ Len(Without(d, k)) = Len(d) - k
      /\ \A i \in 1 .. Len(d) - k : Without(d, k)[i] = d[k + i]
  BY DEF Without
<1>2. k = 0 => Without(d, k) = d
  BY DEF Without
<1>3. ASSUME k < Len(d)
      PROVE  Without(d, k) # <<>> /\ Tail(Without(d, k)) = Without(d, k + 1)
  <2> DEFINE w == Without(d, k)
             v == Without(d, k + 1)
  <2>1. w # <<>> /\ w \in Seq(FTurn) /\ Len(w) = Len(d) - k
    BY <1>1, <1>3
  <2>2. v \in Seq(FTurn) /\ Len(v) = Len(d) - (k + 1) /\ \A i \in 1 .. Len(v) : v[i] = d[(k + 1) + i]
    BY <1>3 DEF Without
  <2>3. \A i \in 1 .. Len(d) - k : w[i] = d[k + i]
    BY <1>1
  <2> HIDE DEF w, v
  <2>4. /\ Tail(w) \in Seq(FTurn) /\ Len(Tail(w)) = Len(w) - 1
        /\ \A i \in 1 .. Len(w) - 1 : Tail(w)[i] = w[i + 1]
    BY <2>1
  <2>5. Len(Tail(w)) = Len(v)
    BY <2>1, <2>2, <2>4
  <2>6. ASSUME NEW i \in 1 .. Len(v) PROVE Tail(w)[i] = v[i]
    <3>1. /\ i \in 1 .. Len(w) - 1 /\ i + 1 \in 1 .. Len(d) - k /\ k + (i + 1) = (k + 1) + i
      BY <2>1, <2>2
    <3> QED BY <3>1, <2>2, <2>3, <2>4
  <2>7. Tail(w) = v
    BY <2>2, <2>4, <2>5, <2>6, SameTurns
  <2> QED BY <2>1, <2>7 DEF w, v
<1> QED BY <1>1, <1>2, <1>3

\* Nor does dropping more.
LEMMA WithoutCosts ==
  ASSUME NEW d \in Seq(FTurn), d # <<>>, NEW j \in 0 .. Len(d), NEW k \in j .. Len(d)
  PROVE  /\ EstimatedTokens(Without(d, k)) \in Nat /\ EstimatedTokens(Without(d, j)) \in Nat
         /\ EstimatedTokens(Without(d, k)) <= EstimatedTokens(Without(d, j))
<1> DEFINE E(i) == EstimatedTokens(Without(d, i))
           N == Len(d)
           K == {n \in Nat : j + n <= N => E(j + n) <= E(j)}
<1>0. N \in Nat
  OBVIOUS
<1>1. ASSUME NEW i \in 0 .. N PROVE E(i) \in Nat
  <2>1. Without(d, i) \in Seq(FTurn) /\ Len(Without(d, i)) \in Nat
    BY WithoutIs
  <2>2. PICK t : Costs(t, Without(d, i)) /\ E(i) = t[Len(Without(d, i))]
    BY <2>1, CostIs
  <2>3. Len(Without(d, i)) \in 0 .. Len(Without(d, i))
    BY <2>1
  <2> QED BY <2>2, <2>3 DEF Costs
<1>2. ASSUME NEW i \in 0 .. N, i < N PROVE E(i + 1) <= E(i)
  <2>1. Without(d, i) \in Seq(FTurn) /\ Without(d, i) # <<>> /\ Tail(Without(d, i)) = Without(d, i + 1)
    BY <1>2, WithoutIs
  <2> QED BY <2>1, TailCosts
<1> HIDE DEF E, N
<1>3. 0 \in K
  <2>1. j + 0 = j /\ E(j) \in Nat
    BY <1>1 DEF N
  <2> QED BY <2>1
<1>4. ASSUME NEW n \in Nat, n \in K PROVE n + 1 \in K
  <2>0. SUFFICES ASSUME j + (n + 1) <= N PROVE E(j + (n + 1)) <= E(j)
    OBVIOUS
  <2>1. j + n \in 0 .. N /\ j + n < N /\ (j + n) + 1 = j + (n + 1) /\ j + (n + 1) \in 0 .. N /\ j \in 0 .. N
    BY <1>0, <2>0 DEF N
  <2>2. E((j + n) + 1) <= E(j + n)
    BY <1>2, <2>1
  <2>3. E(j + n) <= E(j)
    BY <1>0, <1>4, <2>1
  <2>4. E(j + n) \in Nat /\ E(j) \in Nat /\ E((j + n) + 1) \in Nat
    BY <1>1, <2>1
  <2>5. E((j + n) + 1) <= E(j)
    BY <2>2, <2>3, <2>4
  <2> QED BY <2>1, <2>5
<1> HIDE DEF K
<1>5. Nat \subseteq K
  BY <1>3, <1>4, SetInduction
<1>6. k - j \in Nat /\ j + (k - j) = k /\ k <= N /\ k \in 0 .. N /\ j \in 0 .. N
  BY <1>0 DEF N
<1>7. k - j \in K
  BY <1>5, <1>6
<1>8. E(k) <= E(j)
  BY <1>6, <1>7 DEF K
<1> QED BY <1>1, <1>6, <1>8 DEF E

LEMMA MinIs ==
  ASSUME NEW Q \in SUBSET Nat, Q # {}
  PROVE  Min(Q) \in Q /\ \A m \in Q : Min(Q) <= m
BY LeastNumber DEF Min

\* What is left of a dialogue that opens on a prompt and ends in one: the longest
\* that fits and opens on a prompt, or the last of them.
LEMMA CapLeaves ==
  ASSUME NEW d \in Seq(FTurn), d # <<>>, d[1].role = "user", d[Len(d)].role = "user",
         NEW budget \in Nat
  PROVE  \E k \in 0 .. Len(d) - 1 :
           /\ CapToTokens(d, budget) = Without(d, k)
           /\ d[k + 1].role = "user"
           /\ EstimatedTokens(Without(d, k)) <= budget \/ k = Len(d) - 1
           /\ \A j \in 0 .. k - 1 : ~ /\ EstimatedTokens(Without(d, j)) <= budget
                                      /\ d[j + 1].role = "user"
<1> DEFINE N == Len(d)
           E(k) == EstimatedTokens(Without(d, k))
           A == {k \in 0 .. N - 1 : k = N - 1 \/ E(k) <= budget}
           t == Trim(d, budget)
           B == {k \in t .. N - 1 : k = N - 1 \/ d[k + 1].role = "user"}
           m == Min(B)
<1>1. N \in Nat \ {0}
  OBVIOUS
<1>2. t = Min(A)
  BY DEF Trim, Older
<1>3. \A i \in 0 .. N - 1, k \in 0 .. N - 1 : i <= k => E(i) \in Nat /\ E(k) \in Nat /\ E(k) <= E(i)
  <2> SUFFICES ASSUME NEW i \in 0 .. N - 1, NEW k \in 0 .. N - 1, i <= k
               PROVE  E(i) \in Nat /\ E(k) \in Nat /\ E(k) <= E(i)
    OBVIOUS
  <2>1. i \in 0 .. Len(d) /\ k \in i .. Len(d)
    BY <1>1
  <2> QED BY <2>1, WithoutCosts
<1>4. CapToTokens(d, budget) = IF t = 0 THEN d ELSE Without(d, m)
  BY DEF CapToTokens, Older
<1>5. Without(d, 0) = d
  BY <1>1, WithoutIs
<1>6. d[1].role = "user" /\ d[N].role = "user"
  OBVIOUS
<1> HIDE DEF N, E, t, m
<1>7. t \in A /\ \A k \in A : t <= k
  <2>1. N - 1 \in A /\ A \in SUBSET Nat
    BY <1>1
  <2> HIDE DEF A
  <2> QED BY <1>2, <2>1, MinIs
<1>8. t \in 0 .. N - 1 /\ (t = N - 1 \/ E(t) <= budget) /\ \A j \in 0 .. t - 1 : ~(E(j) <= budget)
  <2>1. t \in 0 .. N - 1 /\ (t = N - 1 \/ E(t) <= budget)
    BY <1>7
  <2>2. ASSUME NEW j \in 0 .. t - 1, E(j) <= budget PROVE FALSE
    <3>1. j \in A
      BY <1>1, <2>1, <2>2
    <3> QED BY <1>7, <2>1, <3>1
  <2> QED BY <2>1, <2>2
<1>9. CASE t = 0
  <2>1. 0 \in 0 .. N - 1 /\ 0 + 1 = 1 /\ \A j \in 0 .. 0 - 1 : FALSE
    BY <1>1
  <2>2. CapToTokens(d, budget) = Without(d, 0)
    BY <1>4, <1>5, <1>9
  <2> QED BY <1>6, <1>8, <1>9, <2>1, <2>2 DEF N, E
<1>10. CASE t # 0
  <2>1. m \in B /\ \A k \in B : m <= k
    <3>1. N - 1 \in B /\ B \in SUBSET Nat
      BY <1>1, <1>8
    <3> HIDE DEF B
    <3> QED BY <3>1, MinIs DEF m
  <2>2. m \in t .. N - 1 /\ m \in 0 .. N - 1 /\ (m = N - 1 \/ d[m + 1].role = "user")
    BY <1>8, <2>1
  <2>3. d[m + 1].role = "user"
    <3>1. m = N - 1 => m + 1 = N
      BY <1>1
    <3> QED BY <1>6, <2>2, <3>1
  <2>4. E(m) <= budget \/ m = N - 1
    <3>1. CASE t = N - 1
      BY <1>1, <2>2, <3>1
    <3>2. CASE E(t) <= budget
      <4>1. E(t) \in Nat /\ E(m) \in Nat /\ E(m) <= E(t)
        BY <1>3, <1>8, <2>2
      <4> QED BY <3>2, <4>1
    <3> QED BY <1>8, <3>1, <3>2
  <2>5. ASSUME NEW j \in 0 .. m - 1, E(j) <= budget, d[j + 1].role = "user" PROVE FALSE
    <3>1. CASE j < t
      <4>1. j \in 0 .. t - 1
        BY <1>8, <3>1
      <4> QED BY <1>8, <2>5, <4>1
    <3>2. CASE ~ (j < t)
      <4>1. j \in B
        BY <1>1, <1>8, <2>2, <2>5, <3>2
      <4> QED BY <2>1, <2>2, <4>1
    <3> QED BY <3>1, <3>2
  <2>6. CapToTokens(d, budget) = Without(d, m)
    BY <1>4, <1>10
  <2> QED BY <2>2, <2>3, <2>4, <2>5, <2>6 DEF N, E
<1> QED BY <1>9, <1>10

-----------------------------------------------------------------------------
(* What a dialogue is made of.                                             *)

\* A dialogue opens on a prompt, and one with a reply in flight is not empty.
Dialogue == {d \in Seq(FTurn) : d # <<>> => d[1].role = "user"}

VInv == /\ contextMax \in Nat
        /\ convs \in [Conns -> Dialogue]
        /\ \A g \in gens : convs[g.conn] # <<>>

LEMMA DialogueGrows ==
  ASSUME NEW d \in Dialogue, NEW t \in FTurn, d # <<>> \/ t.role = "user"
  PROVE  /\ Append(d, t) \in Dialogue \ {<<>>} /\ d \o <<t>> \in Dialogue \ {<<>>}
         /\ Append(d, t)[Len(Append(d, t))] = t
<1>1. d \in Seq(FTurn) /\ (d # <<>> => d[1].role = "user")
  BY DEF Dialogue
<1>2. Append(d, t) \in Seq(FTurn) /\ Append(d, t) # <<>> /\ Append(d, t)[Len(Append(d, t))] = t
  <2>1. Len(Append(d, t)) = Len(d) + 1 /\ Len(d) \in Nat
    BY <1>1
  <2>2. Append(d, t)[Len(d) + 1] = t
    BY <1>1
  <2>3. Append(d, t) \in Seq(FTurn)
    BY <1>1
  <2>4. Append(d, t) # <<>>
    BY <2>1, <2>3
  <2> QED BY <2>1, <2>2, <2>3, <2>4
<1>3. d \o <<t>> = Append(d, t)
  BY <1>1
<1>4. Append(d, t)[1].role = "user"
  <2>1. CASE d = <<>>
    BY <2>1
  <2>2. CASE d # <<>>
    <3>1. Len(d) \in Nat \ {0}
      BY <1>1, <2>2
    <3>2. Append(d, t)[1] = d[1]
      BY <1>1, <3>1
    <3> QED BY <1>1, <2>2, <3>2
  <2> QED BY <2>1, <2>2
<1> QED BY <1>2, <1>3, <1>4 DEF Dialogue

LEMMA ReplyIsTurn ==
  ASSUME CInv, BInv, NEW g \in gens
  PROVE  Reply(g.acc) \in FTurn
<1>1. g.msg \in Nat /\ g.acc \subseteq {g.msg}
  BY DEF CInv, GInv, Types, Gen, BInv, Own
<1>2. IsFiniteSet({g.msg}) /\ IsFiniteSet({})
  BY FS_Singleton, FS_EmptySet
<1>3. g.acc = {} \/ g.acc = {g.msg}
  BY <1>1
<1>4. IsFiniteSet(g.acc) /\ g.acc \in SUBSET Nat
  BY <1>1, <1>2, <1>3
<1> QED BY <1>4 DEF FTurn, Turn, Reply

LEMMA PromptIsTurn == Prompt \in FTurn /\ Prompt.role = "user"
BY FS_EmptySet DEF FTurn, Turn, Prompt

\* What a reply leaves of its dialogue, whole or stopped.
LEMMA Answered ==
  ASSUME CInv, BInv, VInv, NEW g \in gens
  PROVE  /\ AddAssistant(convs[g.conn], g.acc) \in Dialogue \ {<<>>}
         /\ convs[g.conn] \o Stopped(g) \in Dialogue \ {<<>>}
<1>1. g.conn \in Conns
  BY DEF CInv, GInv, Types, Gen
<1>2. convs[g.conn] \in Dialogue /\ convs[g.conn] # <<>>
  BY <1>1 DEF VInv
<1>3. Reply(g.acc) \in FTurn
  BY ReplyIsTurn
<1>4. convs[g.conn] \o <<>> = convs[g.conn]
  BY <1>2 DEF Dialogue
<1> QED BY <1>2, <1>3, <1>4, DialogueGrows DEF AddAssistant, Stopped

\* A dialogue stays, is forgotten with its reply, or grows.
Fares(c) == \/ convs'[c] = convs[c] /\ \A h \in gens' : h.conn = c => \E g \in gens : g.conn = c
            \/ convs'[c] = <<>> /\ \A h \in gens' : h.conn # c
            \/ convs'[c] \in Dialogue \ {<<>>}

LEMMA FaresWell ==
  ASSUME CInv, CInv', VInv, contextMax' \in Nat, NEW D, convs' = [c \in Conns |-> D[c]],
         \A c \in Conns : Fares(c)
  PROVE  VInv'
<1>1. <<>> \in Dialogue
  BY DEF Dialogue
<1>2. \A c \in Conns : convs'[c] \in Dialogue
  BY <1>1 DEF Fares, VInv
<1>3. convs' \in [Conns -> Dialogue]
  BY <1>2
<1>4. ASSUME NEW h \in gens' PROVE convs'[h.conn] # <<>>
  <2>1. h.conn \in Conns
    BY DEF CInv, GInv, Types, Gen
  <2> QED BY <2>1 DEF Fares, VInv
<1> QED BY <1>3, <1>4 DEF VInv

LEMMA SameDialogues ==
  ASSUME VInv, convs' = convs, contextMax' \in Nat,
         \A h \in gens' : \E g \in gens : g.conn = h.conn
  PROVE  VInv'
BY DEF VInv

\* The dialogue of one connection, without its reply.
LEMMA OneDialogue ==
  ASSUME CInv, CInv', VInv, contextMax' = contextMax, NEW c \in Conns, NEW d,
         convs' = [convs EXCEPT ![c] = d],
         \A h \in gens' : h.conn = c \/ h \in gens,
         \/ d \in Dialogue \ {<<>>}
         \/ d = <<>> /\ \A h \in gens' : h.conn # c
  PROVE  VInv'
<1>1. convs \in [Conns -> Dialogue] /\ contextMax' \in Nat
  BY DEF VInv
<1>2. /\ convs'[c] = d /\ \A b \in Conns \ {c} : convs'[b] = convs[b]
      /\ convs' = [b \in Conns |-> convs'[b]]
  BY <1>1
<1>3. \A b \in Conns : Fares(b)
  BY <1>2 DEF Fares
<1> QED BY <1>1, <1>2, <1>3, FaresWell

\* What a prompt leaves of the dialogue it joins.
LEMMA Asking ==
  ASSUME VInv, NEW c \in Conns
  PROVE  /\ CapToTokens(AddUser(convs[c]), contextMax) \in Dialogue \ {<<>>}
         /\ LET all == AddUser(convs[c])
                fits(k) == /\ EstimatedTokens(Without(all, k)) <= contextMax
                           /\ all[k + 1].role = "user"
            IN \E k \in 0 .. Len(all) - 1 :
                 /\ CapToTokens(all, contextMax) = Without(all, k)
                 /\ fits(k) \/ k = Len(all) - 1
                 /\ \A j \in 0 .. k - 1 : ~fits(j)
<1> DEFINE all == AddUser(convs[c])
<1>1. convs[c] \in Dialogue /\ contextMax \in Nat
  BY DEF VInv
<1>2. all \in Dialogue \ {<<>>} /\ all[Len(all)].role = "user"
  BY <1>1, PromptIsTurn, DialogueGrows DEF AddUser
<1>3. all \in Seq(FTurn) /\ all # <<>> /\ all[1].role = "user" /\ Len(all) \in Nat
  BY <1>2 DEF Dialogue
<1> HIDE DEF all
<1>4. PICK k \in 0 .. Len(all) - 1 :
           /\ CapToTokens(all, contextMax) = Without(all, k)
           /\ all[k + 1].role = "user"
           /\ EstimatedTokens(Without(all, k)) <= contextMax \/ k = Len(all) - 1
           /\ \A j \in 0 .. k - 1 : ~ /\ EstimatedTokens(Without(all, j)) <= contextMax
                                      /\ all[j + 1].role = "user"
  BY <1>1, <1>2, <1>3, CapLeaves
<1>5. CapToTokens(all, contextMax) \in Dialogue \ {<<>>}
  <2> DEFINE w == Without(all, k)
  <2>1. k \in 0 .. Len(all) /\ k < Len(all) /\ 1 \in 1 .. Len(all) - k
    BY <1>3, <1>4
  <2>2. w \in Seq(FTurn) /\ w # <<>> /\ w[1] = all[k + 1]
    BY <1>3, <2>1, WithoutIs
  <2> QED BY <1>4, <2>2 DEF Dialogue
<1> QED BY <1>4, <1>5 DEF all

-----------------------------------------------------------------------------
(* The steps.                                                              *)

\* What a step that gives out an id must have asked for.
Fits == \A g \in gens' : nextMsg' > nextMsg /\ g.msg = nextMsg =>
          LET all     == AddUser(convs[g.conn])
              fits(k) == /\ EstimatedTokens(Without(all, k)) <= contextMax
                         /\ all[k + 1].role = "user"
          IN \E k \in 0 .. Len(all) - 1 :
               /\ convs'[g.conn] = Without(all, k)
               /\ fits(k) \/ k = Len(all) - 1
               /\ \A j \in 0 .. k - 1 : ~fits(j)

LEMMA NoneAsked ==
  ASSUME CInv, nextMsg' = nextMsg \/ nextMsg' = 1
  PROVE  Fits
<1>1. nextMsg \in Nat \ {0}
  BY DEF CInv, GInv, Types
<1>2. ~(nextMsg' > nextMsg)
  BY <1>1
<1> QED BY <1>2 DEF Fits

LEMMA SendDialogue ==
  ASSUME CInv, CInv', BInv, VInv, NEW c \in Conns, ChatSend(c), contextMax' = contextMax
  PROVE  VInv' /\ Fits
<1>0. contextMax' \in Nat /\ convs \in [Conns -> Dialogue]
  BY DEF VInv
<1>1. CASE UNCHANGED <<convs, gens, reqs, nextMsg>>
  BY <1>0, <1>1, NoneAsked, SameDialogues
<1>2. CASE StartGen(c)
  <2> DEFINE cut == CapToTokens(AddUser(convs[c]), contextMax)
  <2>1. nextMsg' = nextMsg + 1 /\ convs' = [convs EXCEPT ![c] = cut]
    BY <1>2 DEF StartGen
  <2>2. cut \in Dialogue \ {<<>>}
    BY Asking
  <2> HIDE DEF cut
  <2>3. \A h \in gens' : h \in gens \/ h.conn = c
    BY <1>2 DEF StartGen
  <2>4. VInv'
    BY <2>1, <2>2, <2>3, OneDialogue
  <2>5. ASSUME NEW g \in gens', g.msg = nextMsg PROVE g.conn = c
    <3>1. CASE g \in gens
      <4>1. g.msg < nextMsg /\ g.msg \in Nat /\ nextMsg \in Nat
        BY <3>1 DEF CInv, GInv, Types, Gen, Numbered
      <4> QED BY <2>5, <4>1
    <3> QED BY <2>3, <3>1
  <2>6. convs'[c] = cut
    BY <1>0, <2>1
  <2>7. Fits
    <3> SUFFICES ASSUME NEW g \in gens', g.msg = nextMsg
                 PROVE  LET all     == AddUser(convs[g.conn])
                            fits(k) == /\ EstimatedTokens(Without(all, k)) <= contextMax
                                       /\ all[k + 1].role = "user"
                        IN \E k \in 0 .. Len(all) - 1 :
                             /\ convs'[g.conn] = Without(all, k)
                             /\ fits(k) \/ k = Len(all) - 1
                             /\ \A j \in 0 .. k - 1 : ~fits(j)
      BY DEF Fits
    <3>1. g.conn = c
      BY <2>5
    <3> QED BY <2>6, <3>1, Asking DEF cut
  <2> QED BY <2>4, <2>7
<1> QED BY <1>1, <1>2 DEF ChatSend

LEMMA ServeDialogue ==
  ASSUME CInv, CInv', BInv, VInv, NEW c \in Conns, Serve(c)
  PROVE  VInv' /\ Fits
<1>0. contextMax' = contextMax /\ contextMax' \in Nat /\ convs \in [Conns -> Dialogue]
  BY DEF VInv, Serve
<1>1. CASE Head(up[c]) = "join"
  <2>1. UNCHANGED <<convs, gens, reqs, nextMsg>>
    BY <1>1 DEF Serve
  <2> QED BY <1>0, <2>1, NoneAsked, SameDialogues
<1>2. CASE Head(up[c]) = "send"
  BY <1>0, <1>2, SendDialogue DEF Serve
<1>3. CASE Head(up[c]) = "reset"
  <2>1. gens' = gens \ GenOf(c) /\ convs' = [convs EXCEPT ![c] = <<>>] /\ nextMsg' = nextMsg
    BY <1>3 DEF Serve, ChatReset, Abort
  <2>2. \A h \in gens' : h \in gens /\ h.conn # c
    BY <2>1 DEF GenOf
  <2> QED BY <1>0, <2>1, <2>2, NoneAsked, OneDialogue
<1>4. CASE Head(up[c]) = "stop"
  <2>0. ChatStop(c)
    BY <1>4 DEF Serve
  <2>1. CASE UNCHANGED <<convs, gens, reqs, nextMsg, down>>
    BY <1>0, <2>1, NoneAsked, SameDialogues
  <2>2. CASE ~ UNCHANGED <<convs, gens, reqs, nextMsg, down>>
    <3>1. PICK g \in GenOf(c) : /\ convs' = [convs EXCEPT ![c] = @ \o Stopped(g)]
                                /\ gens' = gens \ GenOf(c) /\ nextMsg' = nextMsg
      BY <2>0, <2>2 DEF ChatStop, Abort
    <3>2. g \in gens /\ g.conn = c
      BY DEF GenOf
    <3>3. convs[c] \o Stopped(g) \in Dialogue \ {<<>>}
      BY <3>2, Answered
    <3> QED BY <1>0, <3>1, <3>3, NoneAsked, OneDialogue
  <2> QED BY <2>1, <2>2
<1> QED BY <1>1, <1>2, <1>3, <1>4, ServeUp DEF Asks

LEMMA NoticeDialogue ==
  ASSUME CInv, CInv', BInv, VInv, NEW c \in Conns, Notice(c)
  PROVE  VInv' /\ Fits
<1>0. contextMax' = contextMax /\ contextMax' \in Nat /\ nextMsg' = nextMsg
  BY DEF VInv, Notice
<1>1. CASE c \in members
  <2>1. gens' = gens \ GenOf(c) /\ convs' = [convs EXCEPT ![c] = <<>>]
    BY <1>1 DEF Notice, Forget, Abort
  <2>2. \A h \in gens' : h \in gens /\ h.conn # c
    BY <2>1 DEF GenOf
  <2> QED BY <1>0, <2>1, <2>2, NoneAsked, OneDialogue
<1>2. CASE c \notin members
  BY <1>0, <1>2, NoneAsked, SameDialogues DEF Notice
<1> QED BY <1>1, <1>2

\* A token, an end or a failure of a reply.
LEMMA EndDialogue ==
  ASSUME CInv, CInv', BInv, VInv, NEW g \in gens, UNCHANGED <<contextMax, nextMsg>>,
         \/ \E m \in Nat : OnDelta(g.conn, m) /\ UNCHANGED convs
         \/ \E m : OnDone(g.conn, m)
         \/ OnError(g.conn)
  PROVE  VInv' /\ Fits
<1> DEFINE c == g.conn
<1>0. contextMax' \in Nat /\ c \in Conns /\ nextMsg' = nextMsg
  BY DEF VInv, CInv, GInv, Types, Gen
<1>1. ASSUME NEW m \in Nat, OnDelta(c, m), UNCHANGED convs PROVE VInv'
  <2>1. gens' = {IF h.conn = c THEN [h EXCEPT !.acc = @ \cup {m}] ELSE h : h \in gens}
    BY <1>1 DEF OnDelta
  <2>2. \A h \in gens : [h EXCEPT !.acc = @ \cup {m}].conn = h.conn
    BY DEF CInv, GInv, Types, Gen
  <2>3. \A h \in gens' : \E k \in gens : k.conn = h.conn
    BY <2>1, <2>2
  <2> QED BY <1>0, <1>1, <2>3, SameDialogues
<1>2. ASSUME NEW m, OnDone(c, m) PROVE VInv'
  <2> DEFINE k == CHOOSE k \in GenOf(c) : TRUE
  <2>1. g \in GenOf(c)
    BY DEF GenOf
  <2>2. k \in gens /\ k.conn = c
    BY <2>1 DEF GenOf
  <2>3. /\ convs' = [convs EXCEPT ![c] = AddAssistant(@, k.acc)]
        /\ gens' = gens \ GenOf(c)
    BY <1>2, <2>1 DEF OnDone
  <2> HIDE DEF k
  <2>4. AddAssistant(convs[c], k.acc) \in Dialogue \ {<<>>}
    BY <2>2, Answered
  <2> HIDE DEF c
  <2> QED BY <1>0, <2>3, <2>4, OneDialogue
<1>3. ASSUME OnError(c) PROVE VInv'
  BY <1>0, <1>3, SameDialogues DEF OnError
<1> QED BY <1>0, <1>1, <1>2, <1>3, NoneAsked

LEMMA PumpDialogue ==
  ASSUME CInv, CInv', BInv, VInv, NEW r \in reqs,
         PumpHeaders(r) \/ PumpDelta(r) \/ PumpDone(r) \/ PumpCut(r) \/ PumpFails(r)
  PROVE  VInv' /\ Fits
<1>0. UNCHANGED <<contextMax, nextMsg>> /\ contextMax' \in Nat
  BY DEF VInv, PumpHeaders, PumpDelta, PumpDone, PumpCut, PumpFails, ticking
<1>1. PICK g \in gens : g.conn = r.conn /\ g.msg = r.msg
  BY DEF CInv, GInv, Paired
<1>2. CASE PumpHeaders(r)
  <2>1. UNCHANGED <<convs, gens>>
    BY <1>2 DEF PumpHeaders
  <2> QED BY <1>0, <2>1, NoneAsked, SameDialogues
<1>3. CASE PumpDelta(r)
  <2>1. OnDelta(g.conn, r.msg) /\ UNCHANGED convs /\ r.msg \in Nat
    BY <1>1, <1>3 DEF PumpDelta, CInv, GInv, Types, Request
  <2> QED BY <1>0, <2>1, EndDialogue
<1>4. CASE PumpDone(r) \/ PumpCut(r) \/ PumpFails(r)
  <2>1. OnDone(g.conn, r.msg) \/ OnError(g.conn)
    BY <1>1, <1>4 DEF PumpDone, PumpCut, PumpFails
  <2> QED BY <1>0, <2>1, EndDialogue
<1> QED BY <1>2, <1>3, <1>4

LEMMA StubDialogue ==
  ASSUME CInv, CInv', BInv, VInv, NEW g \in gens, StubTick(g)
  PROVE  VInv' /\ Fits
<1>1. UNCHANGED <<contextMax, nextMsg>>
  BY DEF StubTick, ticking
<1>2. \/ OnDelta(g.conn, g.msg) /\ UNCHANGED convs
      \/ OnDone(g.conn, g.msg)
  BY DEF StubTick
<1>3. g.msg \in Nat
  BY DEF CInv, GInv, Types, Gen
<1> QED BY <1>1, <1>2, <1>3, EndDialogue

LEMMA OperatorDialogue ==
  ASSUME CInv, CInv', BInv, VInv,
         StopAll \/ AdminReset \/ Relaunch \/ \E n \in ContextSizes : Slide(n)
  PROVE  VInv' /\ Fits
<1>0. contextMax \in Nat /\ convs \in [Conns -> Dialogue] /\ Context \in Nat /\ ContextSizes \subseteq Nat
  BY ChatAssumption DEF VInv
<1>1. CASE StopAll
  <2>1. contextMax' = contextMax /\ nextMsg' = nextMsg /\ gens' = {}
    BY <1>1 DEF StopAll
  <2>2. ASSUME NEW c \in Conns PROVE Fares(c)
    <3>1. CASE GenOf(c) = {}
      <4>1. convs'[c] = convs[c]
        BY <1>1, <3>1 DEF StopAll
      <4> QED BY <2>1, <4>1 DEF Fares
    <3>2. CASE GenOf(c) # {}
      <4> DEFINE g == CHOOSE g \in GenOf(c) : TRUE
      <4>1. g \in gens /\ g.conn = c
        BY <3>2 DEF GenOf
      <4>2. convs'[c] = convs[c] \o Stopped(g)
        BY <1>1, <3>2 DEF StopAll
      <4> HIDE DEF g
      <4>3. convs'[c] \in Dialogue \ {<<>>}
        BY <4>1, <4>2, Answered
      <4> QED BY <4>3 DEF Fares
    <3> QED BY <3>1, <3>2
  <2>3. convs' = [c \in Conns |-> convs'[c]]
    BY <1>1 DEF StopAll
  <2> QED BY <1>0, <2>1, <2>2, <2>3, FaresWell, NoneAsked
<1>2. CASE AdminReset \/ Relaunch
  <2>1. /\ contextMax' \in Nat /\ (nextMsg' = nextMsg \/ nextMsg' = 1) /\ gens' = {}
        /\ convs' = [c \in Conns |-> <<>>]
    BY <1>0, <1>2 DEF AdminReset, Relaunch
  <2>2. <<>> \in Dialogue
    BY DEF Dialogue
  <2> QED BY <2>1, <2>2, NoneAsked DEF VInv
<1>3. ASSUME NEW n \in ContextSizes, Slide(n) PROVE VInv' /\ Fits
  <2>1. contextMax' \in Nat /\ UNCHANGED <<nextMsg, gens, convs>>
    BY <1>0, <1>3 DEF Slide
  <2> QED BY <2>1, NoneAsked, SameDialogues
<1> QED BY <1>1, <1>2, <1>3

LEMMA PageDialogue ==
  ASSUME CInv, VInv, NEW p \in Pages,
         \/ \E c \in Conns : Dial(p, c)
         \/ Type(p) \/ PressStop(p) \/ PressNew(p) \/ Hear(p) \/ DropSocket(p)
  PROVE  VInv' /\ Fits
<1>1. UNCHANGED engineVars
  BY DEF Dial, Type, PressStop, PressNew, Hear, DropSocket
<1>2. UNCHANGED <<contextMax, convs, gens, nextMsg>> /\ contextMax' \in Nat
  BY <1>1 DEF engineVars, VInv
<1> QED BY <1>2, NoneAsked, SameDialogues

LEMMA DialogueStep == ASSUME CInv, BInv, VInv, [ChatNext]_chatVars PROVE VInv' /\ Fits
<1>0. CInv'
  BY ChatStep
<1>1. CASE UNCHANGED chatVars
  <2>1. UNCHANGED <<contextMax, convs, gens, nextMsg>> /\ contextMax' \in Nat
    BY <1>1 DEF chatVars, engineVars, VInv
  <2> QED BY <2>1, NoneAsked, SameDialogues
<1>2. CASE ChatNext
  BY <1>0, <1>2, PageDialogue, ServeDialogue, NoticeDialogue, PumpDialogue, StubDialogue,
     OperatorDialogue DEF ChatNext
<1> QED BY <1>1, <1>2

LEMMA InitDialogues == ChatInit => VInv
<1> SUFFICES ASSUME ChatInit PROVE VInv
  OBVIOUS
<1>1. <<>> \in Dialogue
  BY DEF Dialogue
<1> QED BY <1>1, ChatAssumption DEF ChatInit, VInv

\* What goes to the model is the longest recent part of the dialogue that fits
\* the context and opens on a prompt, or the newest prompt alone: whatever was
\* stopped, cut, reset or slid before it (capToTokens, conversation.cpp:84;
\* chatSend).
THEOREM ChatPromptFits == ChatSpec => PromptFits
<1>1. ChatInit => CInv /\ BInv /\ VInv
  BY InitCInv, InitBubble, InitDialogues
<1>2. CInv /\ BInv /\ VInv /\ [ChatNext]_chatVars => (CInv /\ BInv /\ VInv)'
  BY ChatStep, BubbleStep, DialogueStep
<1>3. CInv /\ BInv /\ VInv /\ [ChatNext]_chatVars => [Fits]_chatVars
  BY DialogueStep
<1>4. [][Fits]_chatVars => PromptFits
  BY PTL DEF PromptFits, Fits
<1> QED BY <1>1, <1>2, <1>3, <1>4, PTL DEF ChatSpec

=============================================================================
