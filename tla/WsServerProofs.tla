--------------------------- MODULE WsServerProofs ---------------------------
(***************************************************************************)
(* The server implements the transport the host relies on, and hears polite *)
(* peers out: for any number of connections, frames, sends and breaks, any  *)
(* kernel window, and whatever was read together.                          *)
(***************************************************************************)
EXTENDS WsServer, SequenceTheorems, TLAPS

Ops   == {"hello", "get", "ping", "close", "bad", "text", "part", "more", "cont"}
Frame == [op : Ops, n : Nat \ {0}]
Talk  == {t \in [n : Nat, part : Seq(Nat), bye : BOOLEAN] :
            /\ \A i \in 1 .. Len(t.part) : t.part[i] \in 2 .. t.n
            /\ t.part = <<>> \/ Len(t.part) < t.n}
Event == [id : Conns, err : BOOLEAN, out : BOOLEAN, in : BOOLEAN, half : BOOLEAN]

\* An entry of conns_; what is queued in it does not matter here.
Entry(k) ==
  /\ k = [hand |-> k.hand, inbuf |-> k.inbuf, out |-> k.out, frag |-> k.frag, closing |-> k.closing]
  /\ k.hand \in BOOLEAN /\ k.closing \in BOOLEAN /\ k.inbuf \in Seq(Frame) /\ k.frag \in Seq(Nat)

Types == /\ talk \in [Conns -> Talk] /\ net \in [Conns -> Seq(Frame)] /\ DOMAIN peer = Conns
         /\ said \in [Conns -> Seq(Seq(Nat))] /\ heard \in [Conns -> Seq(Seq(Nat))]
         /\ DOMAIN conn = Conns /\ \A c \in Conns : Entry(conn[c])
         /\ rude \subseteq Conns /\ live \subseteq Conns /\ dropped \subseteq Conns
         /\ opened \subseteq Conns /\ gone \subseteq Conns
         /\ polling \in BOOLEAN /\ todo \subseteq Event /\ parsing \in Conns \cup {NoConn}

\* A connection is opened by its handshake, closed when it is dropped, and unknown
\* until it is accepted.
Lives == /\ \A c \in live : c \notin dropped \cup gone /\ (conn[c].hand <=> c \in opened)
         /\ \A c \in Conns \ (live \cup dropped) : c \notin opened \cup gone /\ conn[c] = NewConn

\* poll serves those it has, each once, and parses one at a time.
Serves == /\ ~polling => todo = {} /\ parsing = NoConn
          /\ \A e \in todo : /\ e.id \in live \ {parsing} /\ (e.err => e.id \in rude)
                             /\ \A d \in todo : d.id = e.id => d = e
          /\ parsing # NoConn => parsing \in live /\ conn[parsing].hand

\* p are the fragments that are open ahead of the i-th of the frames s, when f are
\* those that were open ahead of them all: g goes from these to those.
OpenAt(s, f, i, p) ==
  \E g : g[1] = f /\ g[i] = p /\ \A k \in 1 .. i - 1 : g[k + 1] = After(g[k], s[k])

\* The frames s are the last of the t.n that the peer sent.
Tape(s, f, t) ==
  /\ Len(s) <= t.n
  /\ \A i \in 1 .. Len(s) :
       /\ s[i].n = t.n - Len(s) + i
       /\ s[i].op \in {"hello", "get"} <=> s[i].n = 1
       /\ s[i].op \in {"get", "close"} => i = Len(s) /\ t.bye
  /\ OpenAt(s, f, Len(s) + 1, t.part)

\* What was heard (h) is what was said (w) by the frames ahead of s, and the
\* rest of it is what s says.  A message ends with the number of its last frame.
Last(m) == m[Len(m)]
Begun(w, h, past) ==
  /\ Len(h) <= Len(w) /\ \A j \in 1 .. Len(h) : h[j] = w[j]
  /\ \A j \in 1 .. Len(w) : j <= Len(h) <=> Last(w[j]) <= past
Sorted(w, n) ==
  \A j \in 1 .. Len(w) : /\ Last(w[j]) \in 1 .. n
                         /\ \A k \in 1 .. Len(w) : j < k => Last(w[j]) < Last(w[k])
\* The i-th of s ends m: the fragments open ahead of it, and it.
Ends(s, f, i, m) == \E q \in Seq(Nat) : m = Append(q, s[i].n) /\ OpenAt(s, f, i, q)
Spoken(s, f, w) ==
  \A i \in 1 .. Len(s) :
    /\ s[i].op = "text" => \E j \in 1 .. Len(w) : w[j] = <<s[i].n>>
    /\ s[i].op = "cont" => \E j \in 1 .. Len(w) : Ends(s, f, i, w[j])
Meant(s, w, past) ==
  \A j \in 1 .. Len(w) : Last(w[j]) > past => s[Last(w[j]) - past].op \in {"text", "cont"}

Words(s, f, n, w, h) == /\ Begun(w, h, n - Len(s)) /\ Sorted(w, n)
                        /\ Spoken(s, f, w) /\ Meant(s, w, n - Len(s))

\* The entry k of a peer in the midst of s: once it was greeted its request is
\* parsed, and once it is closing there is nothing left to parse.
Hands(k, s, t)  == IF k.hand THEN Len(s) < t.n ELSE Len(s) = t.n \/ (t.bye /\ s = <<>>)
Closes(k, s, t) == k.closing => t.bye /\ s = <<>>

Followed(k, s, t, w, h) == /\ Tape(s, k.frag, t) /\ Words(s, k.frag, t.n, w, h)
                           /\ Hands(k, s, t) /\ Closes(k, s, t)

\* The frames of c that were not parsed yet, while it is not dropped.
Pending(c) == conn[c].inbuf \o net[c]
Tracked(c) == Followed(conn[c], Pending(c), talk[c], said[c], heard[c])
Track      == \A c \in Conns \ dropped : Tracked(c)

\* Who is dropped in mid-speech broke off, or broke the protocol.
BadIn(s)  == \E i \in 1 .. Len(s) : s[i].op = "bad"
Blamed(c) == peer[c] \in {"fin", "reset"} \/ BadIn(Pending(c)) => c \in rude
Manners   == /\ \A c \in Conns \ dropped : Blamed(c)
             /\ \A c \in dropped \ rude : talk[c].bye /\ heard[c] = said[c]

WInv == Types /\ Lives /\ Serves /\ Track /\ Manners

-----------------------------------------------------------------------------
(* Lemmas about what is on tape.                                           *)

LEMMA Appended ==
  ASSUME NEW S, NEW s \in Seq(S), NEW x \in S
  PROVE  /\ Append(s, x) \in Seq(S) /\ Len(Append(s, x)) = Len(s) + 1 /\ Len(s) \in Nat
         /\ Append(s, x)[Len(s) + 1] = x
         /\ \A i \in 1 .. Len(s) : Append(s, x)[i] = s[i] /\ s[i] \in S
OBVIOUS

LEMMA Single ==
  ASSUME NEW n \in Nat
  PROVE  Append(<<>>, n) = <<n>> /\ <<n>> \in Seq(Nat)
<1>1. /\ <<>> \in Seq(Nat) /\ Len(<<>>) = 0 /\ <<n>> \in Seq(Nat)
      /\ Len(<<n>>) = 1 /\ <<n>>[1] = n
  OBVIOUS
<1>2. Append(<<>>, n) \in Seq(Nat) /\ Len(Append(<<>>, n)) = 1 /\ Append(<<>>, n)[1] = n
  BY <1>1, Appended
<1>3. \A i \in 1 .. 1 : Append(<<>>, n)[i] = <<n>>[i]
  BY <1>1, <1>2
<1> QED BY <1>1, <1>2, <1>3, SeqEqual

LEMMA Shifted ==
  ASSUME NEW S, NEW s \in Seq(S), s # <<>>
  PROVE  /\ Tail(s) \in Seq(S) /\ Len(s) \in Nat \ {0} /\ Len(Tail(s)) = Len(s) - 1
         /\ Head(s) = s[1] /\ Head(s) \in S /\ 1 \in 1 .. Len(s)
         /\ \A i \in 1 .. Len(s) - 1 : Tail(s)[i] = s[i + 1] /\ i + 1 \in 1 .. Len(s)
OBVIOUS

\* One frame more leaves what was open ahead of it, and does to it what it does.
LEMMA OpenAppend ==
  ASSUME NEW s \in Seq(Frame), NEW x \in Frame, NEW f, NEW p
  PROVE  /\ \A i \in 1 .. Len(s) + 1 : OpenAt(s, f, i, p) => OpenAt(Append(s, x), f, i, p)
         /\ OpenAt(s, f, Len(s) + 1, p) => OpenAt(Append(s, x), f, Len(s) + 2, After(p, x))
<1> DEFINE t == Append(s, x)
<1>1. /\ Len(t) = Len(s) + 1 /\ Len(s) \in Nat /\ t[Len(s) + 1] = x
      /\ \A i \in 1 .. Len(s) : t[i] = s[i]
  BY Appended
<1> HIDE DEF t
<1>2. ASSUME NEW i \in 1 .. Len(s) + 1, OpenAt(s, f, i, p) PROVE OpenAt(t, f, i, p)
  <2>1. PICK g : g[1] = f /\ g[i] = p /\ \A k \in 1 .. i - 1 : g[k + 1] = After(g[k], s[k])
    BY <1>2 DEF OpenAt
  <2>2. \A k \in 1 .. i - 1 : t[k] = s[k]
    BY <1>1
  <2> QED BY <2>1, <2>2 DEF OpenAt
<1>3. ASSUME OpenAt(s, f, Len(s) + 1, p) PROVE OpenAt(t, f, Len(s) + 2, After(p, x))
  <2> DEFINE l == Len(s)
  <2>1. PICK g : /\ g[1] = f /\ g[l + 1] = p
                 /\ \A k \in 1 .. (l + 1) - 1 : g[k + 1] = After(g[k], s[k])
    BY <1>3 DEF OpenAt
  <2>2. l \in Nat /\ t[l + 1] = x /\ \A k \in 1 .. l : t[k] = s[k]
    BY <1>1
  <2> HIDE DEF l
  <2> DEFINE h == [k \in 1 .. l + 2 |-> IF k = l + 2 THEN After(p, x) ELSE g[k]]
  <2>3. h[l + 2] = After(p, x) /\ \A k \in 1 .. l + 1 : h[k] = g[k]
    BY <2>2
  <2> HIDE DEF h
  <2>4. h[1] = f
    BY <2>1, <2>2, <2>3
  <2>5. ASSUME NEW k \in 1 .. (l + 2) - 1 PROVE h[k + 1] = After(h[k], t[k])
    <3>1. CASE k \in 1 .. l
      <4>1. k + 1 \in 1 .. l + 1 /\ k \in 1 .. l + 1 /\ k \in 1 .. (l + 1) - 1
        BY <2>2, <3>1
      <4> QED BY <2>1, <2>2, <2>3, <3>1, <4>1
    <3>2. CASE k = l + 1
      <4>1. k + 1 = l + 2 /\ k \in 1 .. l + 1
        BY <2>2, <3>2
      <4> QED BY <2>1, <2>2, <2>3, <3>2, <4>1
    <3> QED BY <2>2, <3>1, <3>2
  <2>6. OpenAt(t, f, l + 2, After(p, x))
    BY <2>3, <2>4, <2>5 DEF OpenAt
  <2> QED BY <2>6 DEF l
<1> QED BY <1>2, <1>3 DEF t

LEMMA EndsAppend ==
  ASSUME NEW s \in Seq(Frame), NEW x \in Frame, NEW f, NEW m, NEW i \in 1 .. Len(s), Ends(s, f, i, m)
  PROVE  Ends(Append(s, x), f, i, m)
<1>1. PICK q \in Seq(Nat) : m = Append(q, s[i].n) /\ OpenAt(s, f, i, q)
  BY DEF Ends
<1>2. Append(s, x)[i] = s[i] /\ i \in 1 .. Len(s) + 1
  BY Appended
<1>3. OpenAt(Append(s, x), f, i, q)
  BY <1>1, <1>2, OpenAppend
<1> QED BY <1>1, <1>2, <1>3 DEF Ends

LEMMA OpenTail ==
  ASSUME NEW s \in Seq(Frame), s # <<>>, NEW f, NEW p, NEW i \in 2 .. Len(s) + 1, OpenAt(s, f, i, p)
  PROVE  OpenAt(Tail(s), After(f, Head(s)), i - 1, p)
<1> DEFINE t == Tail(s)
<1>1. /\ Len(s) \in Nat \ {0} /\ Head(s) = s[1]
      /\ \A k \in 1 .. Len(s) - 1 : t[k] = s[k + 1]
  BY Shifted
<1> HIDE DEF t
<1>2. PICK g : g[1] = f /\ g[i] = p /\ \A k \in 1 .. i - 1 : g[k + 1] = After(g[k], s[k])
  BY DEF OpenAt
<1> DEFINE h == [k \in 1 .. i - 1 |-> g[k + 1]]
<1>3. \A k \in 1 .. i - 1 : h[k] = g[k + 1]
  OBVIOUS
<1> HIDE DEF h
<1>4. h[1] = After(f, Head(s)) /\ h[i - 1] = p
  <2>1. 1 \in 1 .. i - 1 /\ i - 1 \in 1 .. i - 1 /\ (i - 1) + 1 = i
    BY <1>1
  <2> QED BY <1>1, <1>2, <1>3, <2>1
<1>5. ASSUME NEW k \in 1 .. (i - 1) - 1 PROVE h[k + 1] = After(h[k], t[k])
  <2>1. k \in 1 .. i - 1 /\ k + 1 \in 1 .. i - 1 /\ k \in 1 .. Len(s) - 1
    BY <1>1
  <2> QED BY <1>1, <1>2, <1>3, <2>1
<1> QED BY <1>4, <1>5 DEF OpenAt, t

\* Ahead of the first frame is open what was.
LEMMA OpenHead ==
  ASSUME NEW s, NEW f, NEW p, OpenAt(s, f, 1, p)
  PROVE  f = p
BY DEF OpenAt

\* The fragments that are open stay below the frames sent.
LEMMA AfterTalk ==
  ASSUME NEW t \in Talk, NEW x \in Frame, x.n = t.n + 1, NEW bye \in BOOLEAN,
         x.op \in {"part", "more"} => t.n # 0
  PROVE  [n |-> t.n + 1, bye |-> bye, part |-> After(t.part, x)] \in Talk
<1> DEFINE q == After(t.part, x)
<1>1. t.n \in Nat /\ t.part \in Seq(Nat) /\ x.n \in Nat /\ Len(t.part) \in Nat
      /\ (\A i \in 1 .. Len(t.part) : t.part[i] \in 2 .. t.n)
      /\ (t.part = <<>> \/ Len(t.part) < t.n)
  BY DEF Talk, Frame
<1>2. /\ q \in Seq(Nat) /\ \A i \in 1 .. Len(q) : q[i] \in 2 .. t.n + 1
      /\ q = <<>> \/ Len(q) < t.n + 1
  <2>1. CASE x.op = "part"
    <3>1. q = <<x.n>>
      BY <2>1 DEF After
    <3>2. Len(<<x.n>>) = 1 /\ <<x.n>>[1] = x.n /\ <<x.n>> \in Seq(Nat)
      BY <1>1
    <3> HIDE DEF q
    <3> QED BY <1>1, <2>1, <3>1, <3>2
  <2>2. CASE x.op = "more"
    <3>1. q = Append(t.part, x.n)
      BY <2>2 DEF After
    <3>2. /\ q \in Seq(Nat) /\ Len(q) = Len(t.part) + 1 /\ q[Len(t.part) + 1] = x.n
          /\ \A i \in 1 .. Len(t.part) : q[i] = t.part[i]
      BY <1>1, <3>1, Appended
    <3>3. t.part = <<>> => Len(t.part) = 0
      OBVIOUS
    <3> HIDE DEF q
    <3>4. Len(q) < t.n + 1
      BY <1>1, <2>2, <3>2, <3>3
    <3>5. ASSUME NEW i \in 1 .. Len(q) PROVE q[i] \in 2 .. t.n + 1
      <4>1. i \in 1 .. Len(t.part) \/ i = Len(t.part) + 1
        BY <1>1, <3>2
      <4>2. CASE i \in 1 .. Len(t.part)
        <5>1. q[i] = t.part[i]
          BY <3>2, <4>2
        <5>2. q[i] \in 2 .. t.n
          BY <1>1, <4>2, <5>1
        <5> QED BY <1>1, <5>2
      <4> QED BY <1>1, <2>2, <3>2, <4>1, <4>2
    <3> QED BY <3>2, <3>4, <3>5
  <2>3. CASE x.op \notin {"part", "more"}
    <3>1. q = <<>> \/ q = t.part
      BY <2>3 DEF After
    <3>2. <<>> \in Seq(Nat) /\ \A i \in 1 .. Len(<<>>) : FALSE
      BY EmptySeq
    <3> HIDE DEF q
    <3>3. CASE q = t.part
      BY <1>1, <3>3
    <3> QED BY <3>1, <3>2, <3>3
  <2> QED BY <2>1, <2>2, <2>3
<1> HIDE DEF q
<1>3. [n |-> t.n + 1, bye |-> bye, part |-> q] \in Talk
  BY <1>1, <1>2 DEF Talk
<1> QED BY <1>3 DEF q

LEMMA PutTape ==
  ASSUME NEW s \in Seq(Frame), NEW f, NEW t \in Talk, Tape(s, f, t), ~t.bye,
         NEW x \in Frame, x.n = t.n + 1, x.op \in {"hello", "get"} <=> t.n = 0,
         NEW u \in Talk, u.n = t.n + 1, u.bye <=> x.op \in {"close", "get"},
         u.part = After(t.part, x)
  PROVE  Tape(Append(s, x), f, u)
<1> DEFINE r == Append(s, x)
<1>1. /\ r \in Seq(Frame) /\ Len(r) = Len(s) + 1 /\ Len(s) \in Nat /\ r[Len(s) + 1] = x
      /\ \A i \in 1 .. Len(s) : r[i] = s[i] /\ s[i] \in Frame
  BY Appended
<1>2. t.n \in Nat
  BY DEF Talk
<1>3. OpenAt(r, f, Len(r) + 1, u.part)
  <2>1. OpenAt(s, f, Len(s) + 1, t.part)
    BY DEF Tape
  <2>2. OpenAt(r, f, Len(s) + 2, After(t.part, x))
    BY <2>1, OpenAppend
  <2>3. Len(r) + 1 = Len(s) + 2
    BY <1>1
  <2> QED BY <2>2, <2>3
<1> HIDE DEF r
<1>4. Len(r) <= u.n
  BY <1>1, <1>2 DEF Tape
<1>5. ASSUME NEW i \in 1 .. Len(r)
      PROVE  /\ r[i].n = u.n - Len(r) + i
             /\ r[i].op \in {"hello", "get"} <=> r[i].n = 1
             /\ r[i].op \in {"get", "close"} => i = Len(r) /\ u.bye
  <2>1. CASE i \in 1 .. Len(s)
    <3>1. /\ s[i].n = t.n - Len(s) + i
          /\ s[i].op \in {"hello", "get"} <=> s[i].n = 1
          /\ s[i].op \notin {"get", "close"} /\ r[i] = s[i]
      BY <1>1, <2>1 DEF Tape
    <3>2. t.n - Len(s) + i = u.n - Len(r) + i
      BY <1>1, <1>2
    <3> QED BY <3>1, <3>2
  <2>2. CASE i = Len(s) + 1
    BY <1>1, <1>2, <2>2
  <2> QED BY <1>1, <2>1, <2>2
<1> QED BY <1>3, <1>4, <1>5 DEF Tape, r

LEMMA TakeTape ==
  ASSUME NEW s \in Seq(Frame), s # <<>>, NEW f, NEW t \in Talk, Tape(s, f, t)
  PROVE  Tape(Tail(s), After(f, Head(s)), t)
<1> DEFINE r == Tail(s)
           g == After(f, Head(s))
<1>1. /\ r \in Seq(Frame) /\ Len(s) \in Nat \ {0} /\ Len(r) = Len(s) - 1
      /\ \A i \in 1 .. Len(s) - 1 : r[i] = s[i + 1] /\ i + 1 \in 1 .. Len(s)
  BY Shifted
<1>2. t.n \in Nat
  BY DEF Talk
<1>3. OpenAt(r, g, Len(r) + 1, t.part)
  <2>1. Len(s) + 1 \in 2 .. Len(s) + 1 /\ (Len(s) + 1) - 1 = Len(r) + 1
    BY <1>1
  <2>2. OpenAt(s, f, Len(s) + 1, t.part)
    BY DEF Tape
  <2>3. OpenAt(r, g, (Len(s) + 1) - 1, t.part)
    BY <2>1, <2>2, OpenTail
  <2> QED BY <2>1, <2>3
<1> HIDE DEF r, g
<1>4. ASSUME NEW i \in 1 .. Len(r)
      PROVE  /\ r[i].n = t.n - Len(r) + i
             /\ r[i].op \in {"hello", "get"} <=> r[i].n = 1
             /\ r[i].op \in {"get", "close"} => i = Len(r) /\ t.bye
  <2>1. i + 1 \in 1 .. Len(s) /\ r[i] = s[i + 1]
    BY <1>1
  <2>2. /\ s[i + 1].n = t.n - Len(s) + (i + 1)
        /\ s[i + 1].op \in {"hello", "get"} <=> s[i + 1].n = 1
        /\ s[i + 1].op \in {"get", "close"} => i + 1 = Len(s) /\ t.bye
    BY <2>1 DEF Tape
  <2>3. t.n - Len(s) + (i + 1) = t.n - Len(r) + i /\ (i + 1 = Len(s) => i = Len(r))
    <3> DEFINE a == Len(s)
               b == t.n
    <3>1. a \in Nat /\ b \in Nat /\ i \in Nat /\ Len(r) = a - 1
      BY <1>1, <1>2
    <3> HIDE DEF a, b
    <3>2. b - a + (i + 1) = b - (a - 1) + i /\ (i + 1 = a => i = a - 1)
      BY <3>1
    <3> QED BY <3>1, <3>2 DEF a, b
  <2> QED BY <2>1, <2>2, <2>3
<1>5. Len(r) <= t.n
  BY <1>1, <1>2 DEF Tape
<1> QED BY <1>3, <1>4, <1>5 DEF Tape, r, g


-----------------------------------------------------------------------------
(* Lemmas about what was said, and heard.                                  *)

\* A frame that says nothing yet.
LEMMA PutQuiet ==
  ASSUME NEW s \in Seq(Frame), NEW f, NEW n \in Nat, NEW w, NEW h, Words(s, f, n, w, h),
         Len(s) <= n, w \in Seq(Seq(Nat)), h \in Seq(Seq(Nat)),
         NEW x \in Frame, x.op \notin {"text", "cont"}
  PROVE  Words(Append(s, x), f, n + 1, w, h)
<1> DEFINE r == Append(s, x)
<1>1. /\ Len(r) = Len(s) + 1 /\ Len(s) \in Nat /\ r[Len(s) + 1] = x
      /\ \A i \in 1 .. Len(s) : r[i] = s[i]
  BY Appended
<1>2. \A z : \A i \in 1 .. Len(s) : Ends(s, f, i, z) => Ends(r, f, i, z)
  BY EndsAppend
<1> HIDE DEF r
<1>3. (n + 1) - Len(r) = n - Len(s)
  BY <1>1
<1>4. Begun(w, h, (n + 1) - Len(r))
  BY <1>3 DEF Words
<1>5. Sorted(w, n + 1)
  <2>1. \A j \in 1 .. Len(w) : Last(w[j]) \in 1 .. n + 1
    BY DEF Words, Sorted
  <2> QED BY <2>1 DEF Words, Sorted
<1>6. Spoken(r, f, w)
  <2> SUFFICES ASSUME NEW i \in 1 .. Len(s) + 1
               PROVE  /\ r[i].op = "text" => \E j \in 1 .. Len(w) : w[j] = <<r[i].n>>
                      /\ r[i].op = "cont" => \E j \in 1 .. Len(w) : Ends(r, f, i, w[j])
    BY <1>1 DEF Spoken
  <2>1. CASE i = Len(s) + 1
    BY <1>1, <2>1
  <2>2. CASE i \in 1 .. Len(s)
    BY <1>1, <1>2, <2>2 DEF Words, Spoken
  <2> QED BY <1>1, <2>1, <2>2
<1>7. Meant(r, w, (n + 1) - Len(r))
  <2> SUFFICES ASSUME NEW j \in 1 .. Len(w), Last(w[j]) > n - Len(s)
               PROVE  r[Last(w[j]) - (n - Len(s))].op \in {"text", "cont"}
    BY <1>3 DEF Meant
  <2>1. Last(w[j]) \in 1 .. n
    BY DEF Words, Sorted
  <2>2. Last(w[j]) - (n - Len(s)) \in 1 .. Len(s)
    BY <1>1, <2>1
  <2>3. s[Last(w[j]) - (n - Len(s))].op \in {"text", "cont"}
    BY DEF Words, Meant
  <2> QED BY <1>1, <2>2, <2>3
<1> QED BY <1>4, <1>5, <1>6, <1>7 DEF Words, r

\* A frame x after s ends the message m.
Says(s, f, x, m) == \/ x.op = "text" /\ m = <<x.n>>
                    \/ x.op = "cont" /\ Ends(Append(s, x), f, Len(s) + 1, m)

LEMMA PutSaid ==
  ASSUME NEW s \in Seq(Frame), NEW f, NEW n \in Nat, NEW w, NEW h, Words(s, f, n, w, h),
         Len(s) <= n, w \in Seq(Seq(Nat)), h \in Seq(Seq(Nat)),
         NEW x \in Frame, x.n = n + 1, NEW m \in Seq(Nat),
         Last(m) = n + 1, Says(s, f, x, m)
  PROVE  Words(Append(s, x), f, n + 1, Append(w, m), h)
<1> DEFINE r == Append(s, x)
           v == Append(w, m)
<1>1. /\ Len(r) = Len(s) + 1 /\ Len(s) \in Nat /\ r[Len(s) + 1] = x
      /\ \A i \in 1 .. Len(s) : r[i] = s[i]
  BY Appended
<1>2. \A z : \A i \in 1 .. Len(s) : Ends(s, f, i, z) => Ends(r, f, i, z)
  BY EndsAppend
<1>3. /\ Len(v) = Len(w) + 1 /\ Len(w) \in Nat /\ v[Len(w) + 1] = m
      /\ \A j \in 1 .. Len(w) : v[j] = w[j]
  BY Appended
<1>4. Last(m) = n + 1 /\ Len(h) \in Nat
  OBVIOUS
<1> HIDE DEF r, v
<1>5. (n + 1) - Len(r) = n - Len(s)
  BY <1>1
<1>6. \A j \in 1 .. Len(w) : Last(w[j]) \in 1 .. n
  BY DEF Words, Sorted
<1>7. Begun(v, h, (n + 1) - Len(r))
  <2>1. Len(h) <= Len(w) /\ \A j \in 1 .. Len(h) : h[j] = w[j]
    BY DEF Words, Begun
  <2>2. \A j \in 1 .. Len(w) : j <= Len(h) <=> Last(w[j]) <= n - Len(s)
    BY DEF Words, Begun
  <2>3. ASSUME NEW j \in 1 .. Len(h) PROVE h[j] = v[j]
    <3>1. j \in 1 .. Len(w)
      BY <1>3, <1>4, <2>1
    <3> QED BY <1>3, <2>1, <3>1
  <2>4. ASSUME NEW j \in 1 .. Len(v) PROVE j <= Len(h) <=> Last(v[j]) <= n - Len(s)
    <3>1. CASE j \in 1 .. Len(w)
      BY <1>3, <2>2, <3>1
    <3>2. CASE j = Len(w) + 1
      BY <1>1, <1>3, <1>4, <2>1, <3>2
    <3> QED BY <1>3, <3>1, <3>2
  <2>5. Len(h) <= Len(v)
    BY <1>3, <1>4, <2>1
  <2> QED BY <1>5, <2>3, <2>4, <2>5 DEF Begun
<1>8. Sorted(v, n + 1)
  <2>1. \A j \in 1 .. Len(w) : \A k \in 1 .. Len(w) : j < k => Last(w[j]) < Last(w[k])
    BY DEF Words, Sorted
  <2> SUFFICES ASSUME NEW j \in 1 .. Len(v)
               PROVE  /\ Last(v[j]) \in 1 .. n + 1
                      /\ \A k \in 1 .. Len(v) : j < k => Last(v[j]) < Last(v[k])
    BY DEF Sorted
  <2>2. CASE j = Len(w) + 1
    BY <1>3, <1>4, <2>2
  <2>3. CASE j \in 1 .. Len(w)
    <3>1. ASSUME NEW k \in 1 .. Len(v) PROVE k \in 1 .. Len(w) \/ Last(v[k]) = n + 1
      <4>1. k \in 1 .. Len(w) \/ k = Len(w) + 1
        BY <1>3
      <4> QED BY <1>3, <1>4, <4>1
    <3>2. v[j] = w[j] /\ Last(w[j]) \in 1 .. n
      BY <1>3, <1>6, <2>3
    <3>3. Last(v[j]) \in 1 .. n + 1
      BY <3>2
    <3>4. ASSUME NEW k \in 1 .. Len(v), j < k PROVE Last(v[j]) < Last(v[k])
      <4>1. CASE k \in 1 .. Len(w)
        BY <1>3, <2>1, <2>3, <3>2, <3>4, <4>1
      <4>2. CASE Last(v[k]) = n + 1
        BY <3>2, <4>2
      <4> QED BY <3>1, <4>1, <4>2
    <3> QED BY <3>3, <3>4
  <2> QED BY <1>3, <2>2, <2>3
<1>9. Spoken(r, f, v)
  <2> SUFFICES ASSUME NEW i \in 1 .. Len(s) + 1
               PROVE  /\ r[i].op = "text" => \E j \in 1 .. Len(v) : v[j] = <<r[i].n>>
                      /\ r[i].op = "cont" => \E j \in 1 .. Len(v) : Ends(r, f, i, v[j])
    BY <1>1 DEF Spoken
  <2>1. CASE i = Len(s) + 1
    <3>1. Len(w) + 1 \in 1 .. Len(v)
      BY <1>3
    <3>2. \/ r[i].op = "text" /\ m = <<r[i].n>>
          \/ r[i].op = "cont" /\ Ends(r, f, i, m)
      BY <1>1, <2>1 DEF Says, r
    <3> QED BY <1>3, <3>1, <3>2
  <2>2. CASE i \in 1 .. Len(s)
    <3>1. /\ s[i].op = "text" => \E j \in 1 .. Len(w) : w[j] = <<s[i].n>>
          /\ s[i].op = "cont" => \E j \in 1 .. Len(w) : Ends(s, f, i, w[j])
      BY <2>2 DEF Words, Spoken
    <3>2. \A j \in 1 .. Len(w) : j \in 1 .. Len(v)
      BY <1>3
    <3>3. ASSUME r[i].op = "text" PROVE \E j \in 1 .. Len(v) : v[j] = <<r[i].n>>
      BY <1>1, <1>3, <2>2, <3>1, <3>2, <3>3
    <3>4. ASSUME r[i].op = "cont"
          PROVE  \E j \in 1 .. Len(v) : Ends(r, f, i, v[j])
      <4>1. PICK j \in 1 .. Len(w) : Ends(s, f, i, w[j])
        BY <1>1, <2>2, <3>1, <3>4
      <4>2. Ends(r, f, i, w[j])
        BY <1>2, <2>2, <4>1
      <4> QED BY <1>3, <3>2, <4>1, <4>2
    <3> QED BY <3>3, <3>4
  <2> QED BY <1>1, <2>1, <2>2
<1>10. Meant(r, v, (n + 1) - Len(r))
  <2> SUFFICES ASSUME NEW j \in 1 .. Len(v), Last(v[j]) > n - Len(s)
               PROVE  r[Last(v[j]) - (n - Len(s))].op \in {"text", "cont"}
    BY <1>5 DEF Meant
  <2>1. CASE j = Len(w) + 1
    <3>1. Last(v[j]) - (n - Len(s)) = Len(s) + 1
      BY <1>1, <1>3, <1>4, <2>1
    <3> QED BY <1>1, <3>1 DEF Says
  <2>2. CASE j \in 1 .. Len(w)
    <3>1. v[j] = w[j] /\ Last(w[j]) \in 1 .. n
      BY <1>3, <1>6, <2>2
    <3>2. Last(w[j]) - (n - Len(s)) \in 1 .. Len(s)
      BY <1>1, <3>1
    <3>3. s[Last(w[j]) - (n - Len(s))].op \in {"text", "cont"}
      BY <2>2, <3>1 DEF Words, Meant
    <3> QED BY <1>1, <3>1, <3>2, <3>3
  <2>3. j = Len(w) + 1 \/ j \in 1 .. Len(w)
    BY <1>3
  <2> QED BY <2>1, <2>2, <2>3
<1> QED BY <1>7, <1>8, <1>9, <1>10 DEF Words, r, v

\* The messages that are still to come are in the frames after the first.
LEMMA TakeRest ==
  ASSUME NEW s \in Seq(Frame), s # <<>>, NEW f, NEW n \in Nat, NEW w, NEW h, Words(s, f, n, w, h),
         Len(s) <= n
  PROVE  /\ Spoken(Tail(s), After(f, Head(s)), w)
         /\ Meant(Tail(s), w, (n - Len(s)) + 1)
         /\ n - Len(Tail(s)) = (n - Len(s)) + 1
<1> DEFINE r == Tail(s)
           g == After(f, Head(s))
<1>1. /\ Len(s) \in Nat \ {0} /\ Len(r) = Len(s) - 1
      /\ \A i \in 1 .. Len(s) - 1 : r[i] = s[i + 1] /\ i + 1 \in 1 .. Len(s)
  BY Shifted
<1>2. ASSUME NEW i \in 1 .. Len(s) - 1, NEW p, OpenAt(s, f, i + 1, p) PROVE OpenAt(r, g, i, p)
  <2>1. i + 1 \in 2 .. Len(s) + 1 /\ (i + 1) - 1 = i
    BY <1>1
  <2>2. OpenAt(r, g, (i + 1) - 1, p)
    BY <1>2, <2>1, OpenTail
  <2> QED BY <2>1, <2>2
<1> HIDE DEF r, g
<1>3. n - Len(r) = (n - Len(s)) + 1
  BY <1>1
<1>4. Spoken(r, g, w)
  <2> SUFFICES ASSUME NEW i \in 1 .. Len(s) - 1
               PROVE  /\ r[i].op = "text" => \E j \in 1 .. Len(w) : w[j] = <<r[i].n>>
                      /\ r[i].op = "cont" => \E j \in 1 .. Len(w) : Ends(r, g, i, w[j])
    BY <1>1 DEF Spoken
  <2>1. r[i] = s[i + 1] /\ i + 1 \in 1 .. Len(s)
    BY <1>1
  <2>2. /\ s[i + 1].op = "text" => \E j \in 1 .. Len(w) : w[j] = <<s[i + 1].n>>
        /\ s[i + 1].op = "cont" => \E j \in 1 .. Len(w) : Ends(s, f, i + 1, w[j])
    BY <2>1 DEF Words, Spoken
  <2>3. \A m : Ends(s, f, i + 1, m) => Ends(r, g, i, m)
    BY <1>2, <2>1 DEF Ends
  <2> QED BY <2>1, <2>2, <2>3
<1>5. Meant(r, w, (n - Len(s)) + 1)
  <2> SUFFICES ASSUME NEW j \in 1 .. Len(w), Last(w[j]) > (n - Len(s)) + 1
               PROVE  r[Last(w[j]) - ((n - Len(s)) + 1)].op \in {"text", "cont"}
    BY DEF Meant
  <2> DEFINE l == Last(w[j])
             a == n - Len(s)
  <2>1. l \in 1 .. n /\ a \in Nat /\ n = a + Len(s)
    BY <1>1 DEF Words, Sorted
  <2>2. l > a => s[l - a].op \in {"text", "cont"}
    BY DEF Words, Meant
  <2>3. l > a + 1
    OBVIOUS
  <2> HIDE DEF l, a
  <2>4. l - (a + 1) \in 1 .. Len(s) - 1 /\ (l - (a + 1)) + 1 = l - a /\ l > a
    BY <1>1, <2>1, <2>3
  <2> QED BY <1>1, <2>2, <2>4 DEF l, a
<1> QED BY <1>3, <1>4, <1>5 DEF r, g

\* A first frame that ends no message: nothing is heard.
LEMMA TakeQuiet ==
  ASSUME NEW s \in Seq(Frame), s # <<>>, NEW f, NEW n \in Nat, NEW w, NEW h, Words(s, f, n, w, h),
         Len(s) <= n, Head(s).op \notin {"text", "cont"}
  PROVE  Words(Tail(s), After(f, Head(s)), n, w, h)
<1> DEFINE a == n - Len(s)
<1>1. Len(s) \in Nat \ {0} /\ Head(s) = s[1] /\ a \in Int
  BY Shifted
<1>2. ASSUME NEW j \in 1 .. Len(w) PROVE Last(w[j]) <= a <=> Last(w[j]) <= a + 1
  <2>1. Last(w[j]) \in 1 .. n
    BY DEF Words, Sorted
  <2>2. Last(w[j]) > a => s[Last(w[j]) - a].op \in {"text", "cont"}
    BY DEF Words, Meant
  <2>3. ASSUME Last(w[j]) = a + 1 PROVE FALSE
    <3>1. (a + 1) - a = 1 /\ a + 1 > a
      BY <1>1
    <3> QED BY <1>1, <2>2, <2>3, <3>1
  <2> HIDE DEF a
  <2> QED BY <1>1, <2>1, <2>3
<1> HIDE DEF a
<1>3. Begun(w, h, a + 1)
  BY <1>2 DEF Words, Begun, a
<1>4. n - Len(Tail(s)) = a + 1 /\ Spoken(Tail(s), After(f, Head(s)), w) /\ Meant(Tail(s), w, a + 1)
  BY TakeRest DEF a
<1> QED BY <1>3, <1>4 DEF Words

\* A first frame that ends the message w[j]: it is the next to be heard.
LEMMA TakeSaid ==
  ASSUME NEW s \in Seq(Frame), s # <<>>, NEW f, NEW n \in Nat, NEW w \in Seq(Seq(Nat)),
         NEW h \in Seq(Seq(Nat)), Words(s, f, n, w, h), Len(s) <= n,
         NEW j \in 1 .. Len(w), Last(w[j]) = (n - Len(s)) + 1
  PROVE  /\ j = Len(h) + 1
         /\ Words(Tail(s), After(f, Head(s)), n, w, Append(h, w[j]))
<1> DEFINE a == n - Len(s)
           k == Append(h, w[j])
<1>1. Len(s) \in Nat \ {0} /\ a \in Nat /\ Len(w) \in Nat /\ Len(h) \in Nat
  BY Shifted
<1>2. /\ \A i \in 1 .. Len(w) : Last(w[i]) \in 1 .. n
      /\ \A i \in 1 .. Len(w) : \A l \in 1 .. Len(w) : i < l => Last(w[i]) < Last(w[l])
  BY DEF Words, Sorted
<1>3. /\ Len(h) <= Len(w) /\ \A i \in 1 .. Len(h) : h[i] = w[i]
      /\ \A i \in 1 .. Len(w) : i <= Len(h) <=> Last(w[i]) <= a
  BY DEF Words, Begun
<1>4. Last(w[j]) = a + 1
  OBVIOUS
<1>5. w[j] \in Seq(Nat)
  OBVIOUS
<1>6. Len(k) = Len(h) + 1 /\ k[Len(h) + 1] = w[j] /\ \A i \in 1 .. Len(h) : k[i] = h[i]
  BY <1>5, Appended
<1> HIDE DEF a, k
<1>7. j = Len(h) + 1
  <2>1. ~(j <= Len(h))
    BY <1>1, <1>3, <1>4
  <2>2. ASSUME Len(h) + 1 < j PROVE FALSE
    <3>1. Len(h) + 1 \in 1 .. Len(w) /\ ~(Len(h) + 1 <= Len(h))
      BY <1>1, <2>2
    <3>2. Last(w[Len(h) + 1]) < a + 1 /\ Last(w[Len(h) + 1]) \in 1 .. n
      BY <1>2, <1>4, <2>2, <3>1
    <3>3. Last(w[Len(h) + 1]) <= a
      BY <1>1, <3>2
    <3> QED BY <1>3, <3>1, <3>3
  <2> QED BY <1>1, <2>1, <2>2
<1>8. Begun(w, k, a + 1)
  <2>1. Len(k) <= Len(w)
    BY <1>1, <1>6, <1>7
  <2>2. ASSUME NEW i \in 1 .. Len(k) PROVE k[i] = w[i]
    <3>1. i \in 1 .. Len(h) \/ i = Len(h) + 1
      BY <1>1, <1>6
    <3> QED BY <1>3, <1>6, <1>7, <3>1
  <2>3. ASSUME NEW i \in 1 .. Len(w) PROVE i <= Len(h) + 1 <=> Last(w[i]) <= a + 1
    <3>1. CASE i <= Len(h)
      BY <1>1, <1>2, <1>3, <3>1
    <3>2. CASE i = j
      BY <1>1, <1>4, <1>7, <3>2
    <3>3. CASE i > j
      <4>1. Last(w[i]) > a + 1 /\ Last(w[i]) \in 1 .. n
        BY <1>2, <1>4, <3>3
      <4> QED BY <1>1, <1>7, <3>3, <4>1
    <3> QED BY <1>1, <1>7, <3>1, <3>2, <3>3
  <2> QED BY <1>6, <2>1, <2>2, <2>3 DEF Begun
<1>9. n - Len(Tail(s)) = a + 1 /\ Spoken(Tail(s), After(f, Head(s)), w) /\ Meant(Tail(s), w, a + 1)
  BY TakeRest DEF a
<1> QED BY <1>7, <1>8, <1>9 DEF Words, k

LEMMA TakeText ==
  ASSUME NEW s \in Seq(Frame), s # <<>>, NEW f, NEW n \in Nat, NEW w \in Seq(Seq(Nat)),
         NEW h \in Seq(Seq(Nat)), Words(s, f, n, w, h), Len(s) <= n,
         Head(s).op = "text", Head(s).n = (n - Len(s)) + 1
  PROVE  /\ Len(h) + 1 \in 1 .. Len(w) /\ w[Len(h) + 1] = <<Head(s).n>>
         /\ Words(Tail(s), After(f, Head(s)), n, w, Append(h, <<Head(s).n>>))
<1>1. Head(s) = s[1] /\ 1 \in 1 .. Len(s)
  BY Shifted
<1>2. PICK j \in 1 .. Len(w) : w[j] = <<s[1].n>>
  BY <1>1 DEF Words, Spoken
<1>3. Last(w[j]) = (n - Len(s)) + 1
  BY <1>1, <1>2 DEF Last
<1>4. j = Len(h) + 1 /\ Words(Tail(s), After(f, Head(s)), n, w, Append(h, w[j]))
  BY <1>3, TakeSaid
<1> QED BY <1>1, <1>2, <1>4

LEMMA TakeCont ==
  ASSUME NEW s \in Seq(Frame), s # <<>>, NEW f, NEW n \in Nat, NEW w \in Seq(Seq(Nat)),
         NEW h \in Seq(Seq(Nat)), Words(s, f, n, w, h), Len(s) <= n,
         Head(s).op = "cont", Head(s).n = (n - Len(s)) + 1
  PROVE  /\ Len(h) + 1 \in 1 .. Len(w) /\ w[Len(h) + 1] = Append(f, Head(s).n)
         /\ Words(Tail(s), After(f, Head(s)), n, w, Append(h, Append(f, Head(s).n)))
<1>1. Head(s) = s[1] /\ 1 \in 1 .. Len(s)
  BY Shifted
<1>2. PICK j \in 1 .. Len(w) : Ends(s, f, 1, w[j])
  BY <1>1 DEF Words, Spoken
<1>3. PICK q \in Seq(Nat) : w[j] = Append(q, s[1].n) /\ OpenAt(s, f, 1, q)
  BY <1>2 DEF Ends
<1>4. f = q
  BY <1>3, OpenHead
<1>5. Last(w[j]) = s[1].n
  <2>1. s[1].n \in Nat
    BY <1>1 DEF Frame
  <2> QED BY <1>3, <2>1, Appended DEF Last
<1>6. Last(w[j]) = (n - Len(s)) + 1
  BY <1>1, <1>5
<1>7. j = Len(h) + 1 /\ Words(Tail(s), After(f, Head(s)), n, w, Append(h, w[j]))
  BY <1>6, TakeSaid
<1> QED BY <1>1, <1>3, <1>4, <1>7

-----------------------------------------------------------------------------
(* Lemmas about one peer: what a frame sent, and one parsed, does to what  *)
(* is followed.                                                            *)

LEMMA FollowedPut ==
  ASSUME NEW k, NEW s \in Seq(Frame), NEW t \in Talk,
         NEW w \in Seq(Seq(Nat)), NEW h \in Seq(Seq(Nat)),
         Followed(k, s, t, w, h), ~t.bye, NEW x \in Frame, NEW u \in Talk, NEW v,
         x.n = t.n + 1, x.op \in {"hello", "get"} <=> t.n = 0,
         u.n = t.n + 1, u.bye <=> x.op \in {"close", "get"}, u.part = After(t.part, x),
         v = IF x.op = "text" THEN Append(w, <<x.n>>)
             ELSE IF x.op = "cont" THEN Append(w, Append(t.part, x.n)) ELSE w
  PROVE  Followed(k, Append(s, x), u, v, h)
<1>1. t.n \in Nat /\ t.part \in Seq(Nat) /\ x.n \in Nat
  BY DEF Talk
<1>2. Tape(s, k.frag, t) /\ Words(s, k.frag, t.n, w, h) /\ Len(s) <= t.n
  BY DEF Followed, Tape
<1>3. Tape(Append(s, x), k.frag, u)
  BY <1>2, PutTape
<1>4. Words(Append(s, x), k.frag, u.n, v, h)
  <2>1. CASE x.op \notin {"text", "cont"}
    BY <1>1, <1>2, <2>1, PutQuiet
  <2>2. CASE x.op = "text"
    <3> DEFINE m == <<x.n>>
    <3>1. m \in Seq(Nat) /\ Last(m) = t.n + 1 /\ Says(s, k.frag, x, m)
      BY <1>1, <2>2 DEF Last, Says
    <3> HIDE DEF m
    <3>2. Words(Append(s, x), k.frag, t.n + 1, Append(w, m), h)
      BY <1>1, <1>2, <3>1, PutSaid
    <3> QED BY <2>2, <3>2 DEF m
  <2>3. CASE x.op = "cont"
    <3> DEFINE m == Append(t.part, x.n)
    <3>1. m \in Seq(Nat) /\ Last(m) = t.n + 1
      BY <1>1, Appended DEF Last
    <3>2. Says(s, k.frag, x, m)
      <4>1. OpenAt(s, k.frag, Len(s) + 1, t.part)
        BY <1>2 DEF Tape
      <4>2. Append(s, x)[Len(s) + 1] = x /\ Len(s) + 1 \in 1 .. Len(s) + 1
        BY Appended
      <4>3. OpenAt(Append(s, x), k.frag, Len(s) + 1, t.part)
        BY <4>1, <4>2, OpenAppend
      <4> QED BY <1>1, <2>3, <4>2, <4>3 DEF Says, Ends
    <3> HIDE DEF m
    <3>3. Words(Append(s, x), k.frag, t.n + 1, Append(w, m), h)
      BY <1>1, <1>2, <3>1, <3>2, PutSaid
    <3> QED BY <2>3, <3>3 DEF m
  <2> QED BY <2>1, <2>2, <2>3
<1>5. Hands(k, Append(s, x), u) /\ Closes(k, Append(s, x), u)
  <2>1. Len(Append(s, x)) = Len(s) + 1 /\ Len(s) \in Nat
    BY Appended
  <2> QED BY <1>1, <2>1 DEF Followed, Hands, Closes
<1> QED BY <1>3, <1>4, <1>5 DEF Followed

\* The first frame of a tape: the request, before the handshake; a frame after it.
LEMMA FirstFrame ==
  ASSUME NEW k, NEW s \in Seq(Frame), NEW t \in Talk, NEW w, NEW h,
         Followed(k, s, t, w, h), s # <<>>
  PROVE  /\ Head(s).n = (t.n - Len(s)) + 1 /\ Len(s) <= t.n /\ t.n \in Nat
         /\ IF k.hand THEN Head(s).op \in Ops \ {"hello", "get"} ELSE Head(s).op \in {"hello", "get"}
         /\ Head(s).op \in {"get", "close"} => Tail(s) = <<>> /\ t.bye
         /\ ~k.closing
<1>1. /\ Head(s) = s[1] /\ Head(s) \in Frame /\ 1 \in 1 .. Len(s) /\ Len(s) \in Nat \ {0}
      /\ Len(Tail(s)) = Len(s) - 1 /\ Tail(s) \in Seq(Frame)
  BY Shifted
<1>2. t.n \in Nat /\ Len(s) <= t.n
  BY DEF Talk, Followed, Tape
<1>3. /\ s[1].n = t.n - Len(s) + 1
      /\ s[1].op \in {"hello", "get"} <=> s[1].n = 1
      /\ s[1].op \in {"get", "close"} => 1 = Len(s) /\ t.bye
  BY <1>1 DEF Followed, Tape
<1>4. s[1].op \in Ops
  BY <1>1 DEF Frame
<1>5. IF k.hand THEN s[1].op \notin {"hello", "get"} ELSE s[1].op \in {"hello", "get"}
  BY <1>1, <1>2, <1>3 DEF Followed, Hands
<1>6. Len(s) = 1 => Tail(s) = <<>>
  <2>1. Tail(s) # <<>> => Len(Tail(s)) \in Nat \ {0}
    BY <1>1, EmptySeq
  <2> QED BY <1>1, <2>1
<1>7. ~k.closing
  BY DEF Followed, Closes
<1> QED BY <1>1, <1>2, <1>3, <1>4, <1>5, <1>6, <1>7

\* g is h with the next of w, or h.
Goes(w, h, g) == g # h => Len(h) < Len(w) /\ g = Append(h, w[Len(h) + 1])

LEMMA FollowedTake ==
  ASSUME NEW k, NEW s \in Seq(Frame), NEW t \in Talk,
         NEW w \in Seq(Seq(Nat)), NEW h \in Seq(Seq(Nat)),
         Followed(k, s, t, w, h), s # <<>>, NEW l, NEW g,
         l.frag = After(k.frag, Head(s)), l.hand <=> k.hand \/ Head(s).op = "hello",
         l.closing <=> Head(s).op \in {"get", "close"},
         g = IF Head(s).op = "text" THEN Append(h, <<Head(s).n>>)
             ELSE IF Head(s).op = "cont" THEN Append(h, Append(k.frag, Head(s).n)) ELSE h
  PROVE  Followed(l, Tail(s), t, w, g) /\ Goes(w, h, g)
<1>1. /\ Tail(s) \in Seq(Frame) /\ Len(Tail(s)) = Len(s) - 1 /\ Len(s) \in Nat \ {0}
  BY Shifted
<1>2. /\ Head(s).n = (t.n - Len(s)) + 1 /\ Len(s) <= t.n /\ t.n \in Nat
      /\ IF k.hand THEN Head(s).op \in Ops \ {"hello", "get"} ELSE Head(s).op \in {"hello", "get"}
      /\ Head(s).op \in {"get", "close"} => Tail(s) = <<>> /\ t.bye
  BY FirstFrame
<1>3. Tape(s, k.frag, t) /\ Words(s, k.frag, t.n, w, h)
  BY DEF Followed
<1>4. Tape(Tail(s), l.frag, t)
  BY <1>3, TakeTape
<1>5. /\ Words(Tail(s), l.frag, t.n, w, g)
      /\ g # h => Len(h) + 1 \in 1 .. Len(w) /\ g = Append(h, w[Len(h) + 1])
  <2>1. CASE Head(s).op = "text"
    <3>1. /\ Len(h) + 1 \in 1 .. Len(w) /\ w[Len(h) + 1] = <<Head(s).n>>
          /\ Words(Tail(s), After(k.frag, Head(s)), t.n, w, Append(h, <<Head(s).n>>))
      BY <1>2, <1>3, <2>1, TakeText
    <3>2. g = Append(h, <<Head(s).n>>)
      BY <2>1
    <3> QED BY <3>1, <3>2
  <2>2. CASE Head(s).op = "cont"
    <3>1. /\ Len(h) + 1 \in 1 .. Len(w) /\ w[Len(h) + 1] = Append(k.frag, Head(s).n)
          /\ Words(Tail(s), After(k.frag, Head(s)), t.n, w, Append(h, Append(k.frag, Head(s).n)))
      BY <1>2, <1>3, <2>2, TakeCont
    <3>2. g = Append(h, Append(k.frag, Head(s).n))
      BY <2>2
    <3> QED BY <3>1, <3>2
  <2>3. CASE Head(s).op \notin {"text", "cont"}
    BY <1>2, <1>3, <2>3, TakeQuiet
  <2> QED BY <2>1, <2>2, <2>3
<1>6. Goes(w, h, g)
  <2>1. Len(w) \in Nat /\ Len(h) \in Nat
    OBVIOUS
  <2> QED BY <1>5, <2>1 DEF Goes
<1>7. Hands(l, Tail(s), t)
  BY <1>1, <1>2 DEF Hands
<1>8. Closes(l, Tail(s), t)
  BY <1>2 DEF Closes
<1> QED BY <1>4, <1>5, <1>6, <1>7, <1>8 DEF Followed

\* Nothing is left: all that was said was heard.
LEMMA AllHeard ==
  ASSUME NEW k, NEW t \in Talk, NEW w \in Seq(Seq(Nat)), NEW h \in Seq(Seq(Nat)),
         Followed(k, <<>>, t, w, h)
  PROVE  h = w
<1>1. t.n \in Nat /\ Len(w) \in Nat /\ Len(h) \in Nat /\ t.n - Len(<<>>) = t.n
  BY DEF Talk
<1>2. Begun(w, h, t.n) /\ Sorted(w, t.n)
  BY <1>1 DEF Followed, Words
<1>3. ASSUME Len(h) < Len(w) PROVE FALSE
  <2>1. Len(w) \in 1 .. Len(w)
    BY <1>1, <1>3
  <2>2. Last(w[Len(w)]) \in 1 .. t.n
    BY <1>2, <2>1 DEF Sorted
  <2>3. Len(w) <= Len(h)
    BY <1>1, <1>2, <2>1, <2>2 DEF Begun
  <2> QED BY <1>1, <1>3, <2>3
<1>4. Len(h) = Len(w) /\ \A j \in 1 .. Len(h) : h[j] = w[j]
  BY <1>1, <1>2, <1>3 DEF Begun
<1> QED BY <1>4, SeqEqual

\* A peer that has sent nothing.
LEMMA FollowedNew ==
  ASSUME NEW k, k.frag = <<>>, ~k.hand, ~k.closing
  PROVE  Followed(k, <<>>, Fresh, <<>>, <<>>)
<1>1. Len(<<>>) = 0 /\ Fresh.n = 0 /\ Fresh.part = <<>>
  BY DEF Fresh
<1>2. \A i \in 1 .. 0 : FALSE
  OBVIOUS
<1>3. Tape(<<>>, k.frag, Fresh)
  <2>1. OpenAt(<<>>, <<>>, 1, <<>>)
    <3> DEFINE g == [i \in {1} |-> <<>>]
    <3>1. g[1] = <<>> /\ \A i \in 1 .. 1 - 1 : FALSE
      OBVIOUS
    <3> HIDE DEF g
    <3> QED BY <3>1 DEF OpenAt
  <2> QED BY <1>1, <1>2, <2>1 DEF Tape
<1>4. Words(<<>>, k.frag, Fresh.n, <<>>, <<>>)
  BY <1>1, <1>2 DEF Words, Begun, Sorted, Spoken, Meant
<1>5. Hands(k, <<>>, Fresh) /\ Closes(k, <<>>, Fresh)
  BY <1>1 DEF Hands, Closes
<1> QED BY <1>3, <1>4, <1>5 DEF Followed

-----------------------------------------------------------------------------
(* Lemmas about the frames on their way.                                   *)

LEMMA Joint ==
  ASSUME NEW a \in Seq(Frame), NEW b \in Seq(Frame)
  PROVE  /\ a \o b \in Seq(Frame) /\ a \o <<>> = a /\ <<>> \o a = a /\ <<>> \in Seq(Frame)
         /\ \A x \in Frame : a \o Append(b, x) = Append(a \o b, x) /\ Append(b, x) \in Seq(Frame)
<1>1. a \o b \in Seq(Frame) /\ a \o <<>> = a /\ <<>> \o a = a /\ <<>> \in Seq(Frame)
  BY ConcatProperties, ConcatEmptySeq, EmptySeq
<1>2. ASSUME NEW x \in Frame
      PROVE  a \o Append(b, x) = Append(a \o b, x) /\ Append(b, x) \in Seq(Frame)
  <2>1. Append(b, x) = b \o <<x>> /\ Append(a \o b, x) = (a \o b) \o <<x>>
    BY <1>1, AppendIsConcat
  <2>2. <<x>> \in Seq(Frame)
    OBVIOUS
  <2>3. (a \o b) \o <<x>> = a \o (b \o <<x>>)
    BY <2>2, ConcatAssociative
  <2> QED BY <2>1, <2>3, AppendProperties
<1> QED BY <1>1, <1>2

LEMMA JointHead ==
  ASSUME NEW a \in Seq(Frame), NEW b \in Seq(Frame), a # <<>>
  PROVE  a \o b # <<>> /\ Head(a \o b) = Head(a) /\ Tail(a \o b) = Tail(a) \o b
<1> DEFINE s == a \o b
           r == Tail(a) \o b
<1>1. /\ s \in Seq(Frame) /\ Len(s) = Len(a) + Len(b)
      /\ \A i \in 1 .. Len(a) + Len(b) : s[i] = IF i <= Len(a) THEN a[i] ELSE b[i - Len(a)]
  BY ConcatProperties
<1>2. /\ Tail(a) \in Seq(Frame) /\ Len(a) \in Nat \ {0} /\ Len(Tail(a)) = Len(a) - 1
      /\ Head(a) = a[1] /\ \A i \in 1 .. Len(a) - 1 : Tail(a)[i] = a[i + 1]
  BY Shifted
<1>3. /\ r \in Seq(Frame) /\ Len(r) = (Len(a) - 1) + Len(b)
      /\ \A i \in 1 .. (Len(a) - 1) + Len(b) :
            r[i] = IF i <= Len(a) - 1 THEN Tail(a)[i] ELSE b[i - (Len(a) - 1)]
  BY <1>2, ConcatProperties
<1>4. Len(b) \in Nat
  OBVIOUS
<1> HIDE DEF s, r
<1>5. s # <<>>
  BY <1>1, <1>2, <1>4
<1>6. /\ Tail(s) \in Seq(Frame) /\ Len(Tail(s)) = Len(s) - 1
      /\ Head(s) = s[1] /\ \A i \in 1 .. Len(s) - 1 : Tail(s)[i] = s[i + 1]
  BY <1>1, <1>5, Shifted
<1>7. Head(s) = Head(a)
  BY <1>1, <1>2, <1>4, <1>6
<1>8. ASSUME NEW i \in 1 .. Len(r) PROVE r[i] = Tail(s)[i]
  <2>1. /\ i \in 1 .. Len(s) - 1 /\ i + 1 \in 1 .. Len(a) + Len(b)
        /\ i \in 1 .. (Len(a) - 1) + Len(b) /\ i \in Nat
    BY <1>1, <1>2, <1>3, <1>4
  <2>2. Tail(s)[i] = IF i + 1 <= Len(a) THEN a[i + 1] ELSE b[(i + 1) - Len(a)]
    BY <1>1, <1>6, <2>1
  <2>3. CASE i <= Len(a) - 1
    <3>1. i + 1 <= Len(a) /\ i \in 1 .. Len(a) - 1
      BY <1>2, <2>1, <2>3
    <3> QED BY <1>2, <1>3, <2>1, <2>2, <2>3, <3>1
  <2>4. CASE i > Len(a) - 1
    <3>1. i - (Len(a) - 1) = (i + 1) - Len(a) /\ ~(i + 1 <= Len(a)) /\ ~(i <= Len(a) - 1)
      BY <1>2, <2>1, <2>4
    <3> QED BY <1>3, <2>1, <2>2, <3>1
  <2> QED BY <1>2, <2>1, <2>3, <2>4
<1>9. Len(r) = Len(Tail(s))
  BY <1>1, <1>2, <1>3, <1>4, <1>6
<1>10. r = Tail(s)
  BY <1>3, <1>6, <1>8, <1>9, SeqEqual
<1> QED BY <1>5, <1>7, <1>10 DEF s, r

LEMMA BadTail ==
  ASSUME NEW s \in Seq(Frame), s # <<>>
  PROVE  /\ BadIn(Tail(s)) => BadIn(s)
         /\ Head(s).op = "bad" => BadIn(s)
BY Shifted DEF BadIn

LEMMA BadAppend ==
  ASSUME NEW s \in Seq(Frame), NEW x \in Frame, BadIn(Append(s, x))
  PROVE  BadIn(s) \/ x.op = "bad"
<1>1. PICK i \in 1 .. Len(Append(s, x)) : Append(s, x)[i].op = "bad"
  BY DEF BadIn
<1>2. i \in 1 .. Len(s) \/ i = Len(s) + 1
  BY <1>1, Appended
<1> QED BY <1>1, <1>2, Appended DEF BadIn

-----------------------------------------------------------------------------
(* Lemmas about conns_.                                                    *)

\* flush touches the queue alone.
LEMMA Queued ==
  ASSUME DOMAIN conn = Conns, NEW c \in Conns, NEW k, Entry(k), NEW fs, Queue(c, k, fs)
  PROVE  /\ DOMAIN conn' = Conns /\ Entry(conn'[c])
         /\ conn'[c].hand = k.hand /\ conn'[c].inbuf = k.inbuf
         /\ conn'[c].frag = k.frag /\ conn'[c].closing = k.closing
         /\ \A d \in Conns \ {c} : conn'[d] = conn[d]
<1> DEFINE out == k.out \o fs
           rest == SubSeq(out, Taken(c, out) + 1, Len(out))
<1>1. conn' = [conn EXCEPT ![c] = [k EXCEPT !.out = rest]]
  BY DEF Queue
<1> HIDE DEF rest
<1>2. conn'[c] = [k EXCEPT !.out = rest] /\ DOMAIN conn' = Conns
      /\ \A d \in Conns \ {c} : conn'[d] = conn[d]
  BY <1>1
<1>3. [k EXCEPT !.out = rest] = [hand |-> k.hand, inbuf |-> k.inbuf, out |-> rest,
                                 frag |-> k.frag, closing |-> k.closing]
  BY DEF Entry
<1> QED BY <1>2, <1>3 DEF Entry

\* Only what is queued, and who is served next, changes.
LEMMA Outward ==
  ASSUME WInv, DOMAIN conn' = Conns,
         \A d \in Conns : /\ Entry(conn'[d]) /\ (d \notin live => conn'[d] = conn[d])
                          /\ conn'[d].hand = conn[d].hand /\ conn'[d].inbuf = conn[d].inbuf
                          /\ conn'[d].frag = conn[d].frag /\ conn'[d].closing = conn[d].closing,
         UNCHANGED <<peers, net, live, dropped, calls, polling, parsing>>,
         todo' \subseteq Event, ~polling => todo' = {},
         \A e \in todo' : /\ e.id \in live \ {parsing} /\ (e.err => e.id \in rude)
                          /\ \A d \in todo' : d.id = e.id => d = e
  PROVE  WInv'
<1> USE DEF peers, calls
<1>1. Types'
  BY DEF WInv, Types
<1>2. Lives'
  BY DEF WInv, Types, Lives
<1>3. Serves'
  BY DEF WInv, Types, Serves
<1>4. ASSUME NEW d \in Conns \ dropped PROVE Tracked(d)' /\ Blamed(d)'
  <2>1. Pending(d)' = Pending(d)
    BY DEF Pending
  <2>2. Tracked(d) /\ Blamed(d)
    BY DEF WInv, Track, Manners
  <2>3. Tracked(d)'
    BY <2>1, <2>2 DEF Tracked, Followed, Hands, Closes
  <2>4. Blamed(d)'
    BY <2>1, <2>2 DEF Blamed
  <2> QED BY <2>3, <2>4
<1> QED BY <1>1, <1>2, <1>3, <1>4 DEF WInv, Track, Manners

\* A connection moves on: it reads, shakes hands, parses a frame.
LEMMA Moved ==
  ASSUME WInv, NEW c \in live, DOMAIN conn' = Conns, Entry(conn'[c]),
         conn[c].hand => conn'[c].hand,
         net' \in [Conns -> Seq(Frame)], heard' \in [Conns -> Seq(Seq(Nat))],
         \A d \in Conns \ {c} : conn'[d] = conn[d] /\ net'[d] = net[d] /\ heard'[d] = heard[d],
         opened' = IF conn'[c].hand THEN opened \cup {c} ELSE opened,
         Tracked(c)', BadIn(Pending(c)') => BadIn(Pending(c)),
         UNCHANGED <<peers, live, dropped, gone>>, polling, polling',
         parsing' \in {c, NoConn}, parsing' # NoConn => conn'[c].hand,
         todo' \subseteq todo, \A e \in todo' : e.id # c
  PROVE  WInv'
<1> USE DEF peers
<1>1. c \in Conns /\ NoConn \notin Conns
  BY WsAssumption DEF WInv, Types
<1>2. Types'
  BY <1>1 DEF WInv, Types
<1>3. Lives'
  BY <1>1 DEF WInv, Types, Lives
<1>4. Serves'
  <2>1. \A e \in todo' : e.id \in live \ {parsing'} /\ e \in Event
    BY <1>1 DEF WInv, Types, Serves, Event
  <2> QED BY <1>1, <2>1 DEF WInv, Serves
<1>5. ASSUME NEW d \in Conns \ dropped PROVE Tracked(d)' /\ Blamed(d)'
  <2>1. Tracked(d) /\ Blamed(d)
    BY DEF WInv, Track, Manners
  <2>2. CASE d = c
    BY <2>1, <2>2 DEF Blamed
  <2>3. CASE d # c
    <3>1. Pending(d)' = Pending(d)
      BY <2>3 DEF Pending
    <3> QED BY <2>1, <2>3, <3>1 DEF Tracked, Blamed
  <2> QED BY <2>2, <2>3
<1>6. \A d \in dropped \ rude : d \in Conns /\ d # c
  BY DEF WInv, Types, Lives
<1> QED BY <1>2, <1>3, <1>4, <1>5, <1>6 DEF WInv, Track, Manners

\* Connections are dropped: no one else is concerned, and those who were heard out
\* may say so.
LEMMA Dropped ==
  ASSUME WInv, NEW cs \in SUBSET live, Drop(cs),
         net' \in [Conns -> Seq(Frame)], \A d \in Conns \ cs : net'[d] = net[d],
         \A c \in cs \ rude : talk[c].bye /\ heard[c] = said[c],
         UNCHANGED peers, polling' \in BOOLEAN, parsing' = NoConn,
         todo' \subseteq todo, \A e \in todo' : e.id \notin cs, ~polling' => todo' = {}
  PROVE  WInv'
<1> USE DEF peers
<1>1. cs \subseteq Conns /\ NoConn \notin Conns
  BY WsAssumption DEF WInv, Types
<1>2. /\ DOMAIN conn' = Conns /\ \A d \in cs : conn'[d] = NewConn
      /\ \A d \in Conns \ cs : conn'[d] = conn[d]
  BY <1>1 DEF Drop
<1>3. Entry(NewConn)
  <2>1. <<>> \in Seq(Frame) /\ <<>> \in Seq(Nat)
    BY EmptySeq
  <2> QED BY <2>1 DEF Entry, NewConn
<1>4. /\ live' = live \ cs /\ dropped' = dropped \cup cs /\ gone' = gone \cup Closed(cs)
      /\ UNCHANGED <<opened, heard>>
  BY DEF Drop
<1>5. Closed(cs) \subseteq cs
  BY DEF Closed
<1>6. Types'
  BY <1>1, <1>2, <1>3, <1>4, <1>5 DEF WInv, Types
<1>7. Lives'
  BY <1>1, <1>2, <1>4, <1>5 DEF WInv, Types, Lives
<1>8. Serves'
  <2>1. \A e \in todo' : e.id \in live' \ {parsing'}
    BY <1>1, <1>4 DEF WInv, Types, Serves, Event
  <2> QED BY <2>1 DEF WInv, Serves
<1>9. ASSUME NEW d \in Conns \ dropped' PROVE Tracked(d)' /\ Blamed(d)'
  <2>1. Tracked(d) /\ Blamed(d) /\ d \in Conns \ cs
    BY <1>4 DEF WInv, Track, Manners
  <2>2. Pending(d)' = Pending(d)
    BY <1>2, <2>1 DEF Pending
  <2> QED BY <1>2, <1>4, <2>1, <2>2 DEF Tracked, Blamed
<1>10. \A d \in dropped' \ rude' : talk'[d].bye /\ heard'[d] = said'[d]
  BY <1>4 DEF WInv, Manners
<1> QED BY <1>6, <1>7, <1>8, <1>9, <1>10 DEF WInv, Track, Manners

-----------------------------------------------------------------------------
(* The steps: each keeps the invariant and is one of the transport, or     *)
(* none.                                                                   *)

StepOf == WInv' /\ [Bus!Next]_(Bus!vars)

\* What the transport does not see.
LEMMA Unseen ==
  ASSUME UNCHANGED <<opened, gone, said, heard>>
  PROVE  UNCHANGED Bus!vars
BY DEF Bus!vars, Life

LEMMA InitStep ==
  ASSUME Init
  PROVE  WInv /\ Bus!Init
<1> USE DEF Init
<1>1. Entry(NewConn) /\ <<>> \in Seq(Frame) /\ <<>> \in Seq(Seq(Nat)) /\ Fresh \in Talk
  <2>1. <<>> \in Seq(Frame) /\ <<>> \in Seq(Nat) /\ <<>> \in Seq(Seq(Nat))
    BY EmptySeq
  <2> QED BY <2>1 DEF Entry, NewConn, Fresh, Talk
<1>2. Types
  BY <1>1 DEF Types
<1>3. Lives /\ Serves
  BY DEF Lives, Serves
<1>4. ASSUME NEW c \in Conns PROVE Tracked(c) /\ Blamed(c)
  <2>1. Pending(c) = <<>>
    BY Joint, <1>1 DEF Pending, NewConn
  <2>2. Tracked(c)
    BY <2>1, FollowedNew DEF Tracked, NewConn
  <2>3. ~BadIn(<<>>)
    BY DEF BadIn
  <2> QED BY <2>1, <2>2, <2>3 DEF Blamed
<1>5. Bus!Init
  BY DEF Bus!Init, Life
<1> QED BY <1>2, <1>3, <1>4, <1>5 DEF WInv, Track, Manners

LEMMA DialStep ==
  ASSUME WInv, NEW c \in Conns, Dial(c)
  PROVE  StepOf
<1> USE DEF Dial, conns, loop, calls
<1>1. Types' /\ Lives' /\ Serves'
  BY DEF WInv, Types, Lives, Serves
<1>2. ASSUME NEW d \in Conns \ dropped PROVE Tracked(d)' /\ Blamed(d)'
  BY DEF WInv, Types, Track, Manners, Tracked, Blamed, Pending
<1>3. WInv'
  BY <1>1, <1>2 DEF WInv, Track, Manners
<1> QED BY <1>3, Unseen DEF StepOf

LEMMA ReadStep ==
  ASSUME WInv, NEW c \in Conns, Read(c)
  PROVE  StepOf
<1> USE DEF Read, conns, loop, calls
<1>1. WInv'
  BY Outward DEF WInv, Types, Serves
<1> QED BY <1>1, Unseen DEF StepOf, peers

LEMMA BreakOffStep ==
  ASSUME WInv, NEW c \in Conns, NEW how \in {"fin", "reset"}, BreakOff(c, how)
  PROVE  StepOf
<1> USE DEF BreakOff, conns, loop, calls
<1>1. Types' /\ Lives'
  BY DEF WInv, Types, Lives
<1>2. Serves'
  BY DEF WInv, Types, Serves
<1>3. ASSUME NEW d \in Conns \ dropped PROVE Tracked(d)' /\ Blamed(d)'
  BY DEF WInv, Types, Track, Manners, Tracked, Blamed, Pending
<1>4. WInv'
  BY <1>1, <1>2, <1>3 DEF WInv, Track, Manners
<1> QED BY <1>4, Unseen DEF StepOf

LEMMA PollStep ==
  ASSUME WInv, Poll
  PROVE  StepOf
<1> USE DEF Poll, peers, conns, loop, calls
<1>1. Ready \subseteq Event
  <2>1. ASSUME NEW c \in Conns PROVE Events(c) \in Event
    <3> DEFINE err == peer[c] = "reset"
               out == conn[c].out # <<>> /\ Len(window[c]) < Window
               in  == net[c] # <<>> \/ peer[c] = "fin"
    <3>1. err \in BOOLEAN /\ out \in BOOLEAN /\ in \in BOOLEAN
      OBVIOUS
    <3>2. Events(c) = [id |-> c, err |-> err, out |-> out, in |-> in, half |-> FALSE]
      BY DEF Events
    <3> HIDE DEF err, out, in
    <3> QED BY <3>1, <3>2 DEF Event
  <2> QED BY <2>1 DEF WInv, Types, Ready
<1>2. /\ Waiting \subseteq Conns \ (live \cup dropped)
      /\ parsing = NoConn /\ NoConn \notin Conns
  BY WsAssumption DEF WInv, Serves, Waiting
<1>3. Types'
  BY <1>1, <1>2 DEF WInv, Types
<1>4. Lives'
  BY <1>2 DEF WInv, Types, Lives, NewConn
<1>5. Serves'
  <2>1. ASSUME NEW e \in Ready
        PROVE  /\ e.id \in live' \ {parsing'} /\ (e.err => e.id \in rude)
               /\ \A d \in Ready : d.id = e.id => d = e
    <3>1. PICK c \in live : e = Events(c)
      BY DEF Ready
    <3>2. e.id = c /\ e.err = (peer[c] = "reset")
      BY <3>1 DEF Events
    <3>3. \A d \in Ready : d = Events(d.id)
      BY DEF Ready, Events
    <3>4. c \in Conns \ dropped
      BY DEF WInv, Types, Lives
    <3>5. e.err => c \in rude
      BY <3>2, <3>4 DEF WInv, Manners, Blamed
    <3> QED BY <1>2, <3>1, <3>2, <3>3, <3>4, <3>5
  <2> QED BY <1>2, <2>1 DEF Serves
<1>6. ASSUME NEW d \in Conns \ dropped PROVE Tracked(d)' /\ Blamed(d)'
  BY DEF WInv, Track, Manners, Tracked, Blamed, Pending
<1>7. WInv'
  BY <1>3, <1>4, <1>5, <1>6 DEF WInv, Track, Manners
<1> QED BY <1>7, Unseen DEF StepOf

\* What a peer may say is a message of the transport.
LEMMA AfterSaid ==
  ASSUME NEW c \in Conns, NEW t \in Talk, t.n # 0, t.n + 1 <= MaxFrames[c]
  PROVE  Append(t.part, t.n + 1) \in UNION {[1 .. k - 1 -> Numbers] : k \in Numbers}
<1> DEFINE m == Append(t.part, t.n + 1)
<1>1. /\ t.n \in Nat /\ t.part \in Seq(Nat) /\ Len(t.part) \in Nat /\ MaxFrames[c] \in Nat
      /\ \A i \in 1 .. Len(t.part) : t.part[i] \in 2 .. t.n
      /\ t.part = <<>> \/ Len(t.part) < t.n
  BY WsAssumption DEF Talk
<1>2. /\ m \in Seq(Nat) /\ Len(m) = Len(t.part) + 1 /\ m[Len(t.part) + 1] = t.n + 1
      /\ \A i \in 1 .. Len(t.part) : m[i] = t.part[i]
  BY <1>1, Appended
<1> HIDE DEF m
<1>3. 2 .. t.n + 1 \subseteq Numbers
  BY <1>1 DEF Numbers
<1>4. Len(t.part) + 2 \in 2 .. t.n + 1
  <2>1. t.part = <<>> => Len(t.part) = 0
    OBVIOUS
  <2> QED BY <1>1, <2>1
<1>5. ASSUME NEW i \in 1 .. Len(m) PROVE m[i] \in 2 .. t.n + 1
  <2>1. i \in 1 .. Len(t.part) \/ i = Len(t.part) + 1
    BY <1>1, <1>2
  <2>2. CASE i \in 1 .. Len(t.part)
    <3>1. m[i] = t.part[i]
      BY <1>2, <2>2
    <3>2. m[i] \in 2 .. t.n
      BY <1>1, <2>2, <3>1
    <3> QED BY <1>1, <3>2
  <2> QED BY <1>1, <1>2, <2>1, <2>2
<1>6. m \in [1 .. (Len(t.part) + 2) - 1 -> Numbers]
  <2>1. DOMAIN m = 1 .. (Len(t.part) + 2) - 1 /\ m = [i \in DOMAIN m |-> m[i]]
    BY <1>1, <1>2
  <2> QED BY <1>2, <1>3, <1>5, <2>1
<1> QED BY <1>3, <1>4, <1>6 DEF m

\* A peer speaks: what it sends is on tape, what it says in its messages.
LEMMA PutStep ==
  ASSUME WInv, NEW c \in Conns, NEW op, Put(c, op)
  PROVE  StepOf
<1> USE DEF conns, loop, calls
<1> DEFINE t == talk[c]
           x == [op |-> op, n |-> t.n + 1]
           u == [n |-> t.n + 1, bye |-> op \in {"close", "get"},
                 part |-> After(t.part, x)]
           w == said[c]
           v == IF op = "text" THEN Append(w, <<x.n>>)
                ELSE IF op = "cont" THEN Append(w, Append(t.part, x.n)) ELSE w
<1>1. /\ peer[c] = "up" /\ ~t.bye /\ t.n + 1 <= MaxFrames[c] /\ op \in Offers(c)
      /\ net' = [net EXCEPT ![c] = Append(@, x)] /\ talk' = [talk EXCEPT ![c] = u]
      /\ rude' = (IF op = "bad" THEN rude \cup {c} ELSE rude)
      /\ UNCHANGED <<peer, window, conns, loop, calls, sends>>
  BY DEF Put
<1>2. Types /\ t \in Talk /\ t.n \in Nat /\ t.part \in Seq(Nat) /\ w \in Seq(Seq(Nat))
      /\ heard[c] \in Seq(Seq(Nat)) /\ net[c] \in Seq(Frame) /\ conn[c].inbuf \in Seq(Frame)
  BY DEF WInv, Types, Talk, Entry
<1>3. /\ op \in Ops /\ (op \in {"hello", "get"} <=> t.n = 0)
      /\ (op \in {"text", "part"} => t.part = <<>>) /\ (op \in {"text", "part", "more", "cont"} => t.n # 0)
  BY <1>1 DEF Offers, Ops
<1>4. x \in Frame /\ x.n = t.n + 1 /\ x.op = op
  BY <1>2, <1>3 DEF Frame
<1>5. /\ u \in Talk /\ u.n = t.n + 1 /\ (u.bye <=> op \in {"close", "get"})
      /\ u.part = After(t.part, x)
  <2> DEFINE bye == op \in {"close", "get"}
  <2>1. u = [n |-> t.n + 1, bye |-> bye, part |-> After(t.part, x)] /\ bye \in BOOLEAN
    OBVIOUS
  <2> HIDE DEF t, x, bye, u
  <2>2. u \in Talk
    BY <1>2, <1>3, <1>4, <2>1, AfterTalk
  <2> QED BY <2>1, <2>2 DEF bye
<1>6. said' = [said EXCEPT ![c] = v]
  <2>1. said' = IF op \in {"text", "cont"}
                THEN [said EXCEPT ![c] = Append(@, Append(t.part, x.n))] ELSE said
    BY DEF Put
  <2>2. ASSUME op = "text" PROVE Append(t.part, x.n) = <<x.n>>
    <3>1. t.part = <<>> /\ x.n \in Nat
      BY <1>2, <1>3, <1>4, <2>2
    <3> HIDE DEF t, x
    <3> QED BY <3>1, Single
  <2> QED BY <1>2, <2>1, <2>2 DEF Types
<1>7. v \in Seq(Seq(Nat))
  <2>1. <<x.n>> \in Seq(Nat) /\ Append(t.part, x.n) \in Seq(Nat)
    BY <1>2, <1>4, Appended
  <2> QED BY <1>2, <2>1, AppendProperties
<1> HIDE DEF x, u, v
<1>8. Types'
  <2>1. Append(net[c], x) \in Seq(Frame)
    BY <1>2, <1>4, Joint
  <2> QED BY <1>1, <1>2, <1>5, <1>6, <1>7, <2>1 DEF Types
<1>9. Lives' /\ Serves'
  BY <1>1 DEF WInv, Lives, Serves
<1>10. ASSUME NEW d \in Conns \ dropped PROVE Tracked(d)' /\ Blamed(d)'
  <2>1. Tracked(d) /\ Blamed(d)
    BY DEF WInv, Track, Manners
  <2>2. CASE d # c
    <3>1. Pending(d)' = Pending(d) /\ talk'[d] = talk[d] /\ said'[d] = said[d]
      BY <1>1, <1>2, <1>6, <2>2 DEF Pending, Types
    <3> QED BY <1>1, <2>1, <3>1 DEF Tracked, Blamed
  <2>3. CASE d = c
    <3>1. Pending(c)' = Append(Pending(c), x) /\ Pending(c) \in Seq(Frame)
      <4>1. net'[c] = Append(net[c], x) /\ conn'[c].inbuf = conn[c].inbuf
        BY <1>1, <1>2 DEF Types
      <4>2. /\ conn[c].inbuf \o Append(net[c], x) = Append(conn[c].inbuf \o net[c], x)
            /\ conn[c].inbuf \o net[c] \in Seq(Frame)
        <5> DEFINE a == conn[c].inbuf
                   b == net[c]
        <5>1. a \in Seq(Frame) /\ b \in Seq(Frame)
          BY <1>2
        <5> HIDE DEF a, b
        <5>2. /\ a \o b \in Seq(Frame)
              /\ \A y \in Frame : a \o Append(b, y) = Append(a \o b, y)
          BY <5>1, Joint
        <5> QED BY <1>4, <5>2 DEF a, b
      <4> QED BY <4>1, <4>2 DEF Pending
    <3>2. Followed(conn[c], Pending(c), t, w, heard[c])
      BY <2>1, <2>3 DEF Tracked
    <3>3. v = IF x.op = "text" THEN Append(w, <<x.n>>)
              ELSE IF x.op = "cont" THEN Append(w, Append(t.part, x.n)) ELSE w
      BY <1>4 DEF v
    <3> HIDE DEF t, w
    <3>4. Followed(conn[c], Append(Pending(c), x), u, v, heard[c])
      BY <1>1, <1>2, <1>3, <1>4, <1>5, <3>1, <3>2, <3>3, FollowedPut
    <3>5. talk'[c] = u /\ said'[c] = v /\ conn'[c] = conn[c] /\ heard'[c] = heard[c]
      BY <1>1, <1>2, <1>6 DEF Types
    <3>6. Tracked(c)'
      BY <3>1, <3>4, <3>5 DEF Tracked
    <3>7. Blamed(c)'
      BY <1>1, <1>4, <2>1, <2>3, <3>1, BadAppend DEF Blamed
    <3> QED BY <2>3, <3>6, <3>7
  <2> QED BY <2>2, <2>3
<1>11. ASSUME NEW d \in dropped \ rude' PROVE talk'[d].bye /\ heard'[d] = said'[d]
  <2>1. talk[d].bye /\ heard[d] = said[d] /\ d \in Conns
    BY <1>1 DEF WInv, Types, Manners
  <2>2. d # c
    BY <1>1, <2>1
  <2> QED BY <1>1, <1>2, <1>6, <2>1, <2>2 DEF Types
<1>12. WInv'
  BY <1>1, <1>8, <1>9, <1>10, <1>11 DEF WInv, Track, Manners
<1>13. Bus!Next \/ UNCHANGED Bus!vars
  <2>1. CASE op \notin {"text", "cont"}
    BY <1>1, <1>2, <1>6, <2>1, Unseen DEF v, Types
  <2>2. CASE op \in {"text", "cont"}
    <3> DEFINE m == Append(t.part, t.n + 1)
    <3>1. m \in UNION {[1 .. k - 1 -> Numbers] : k \in Numbers}
      BY <1>1, <1>2, <1>3, <2>2, AfterSaid
    <3>2. v = Append(w, m)
      <4>1. ASSUME op = "text" PROVE m = <<t.n + 1>>
        <5>1. t.part = <<>> /\ t.n + 1 \in Nat
          BY <1>2, <1>3, <4>1
        <5> HIDE DEF t
        <5> QED BY <5>1, Single
      <4> QED BY <1>4, <2>2, <4>1 DEF v
    <3> HIDE DEF m
    <3>3. said' = [said EXCEPT ![c] = Append(@, m)]
      BY <1>6, <3>2
    <3>4. said' # said
      <4>1. said'[c] = Append(w, m) /\ Len(Append(w, m)) = Len(w) + 1 /\ Len(w) \in Nat
        BY <1>2, <1>6, <1>7, <3>2 DEF Types
      <4> QED BY <4>1
    <3>5. Bus!Say(c)
      BY <1>1, <3>1, <3>3, <3>4 DEF Bus!Say, Life
    <3> QED BY <3>5 DEF Bus!Next
  <2> QED BY <2>1, <2>2
<1> QED BY <1>12, <1>13 DEF StepOf

LEMMA SendStep ==
  ASSUME WInv, NEW c \in Conns, Send(c)
  PROVE  StepOf
<1> USE DEF Send, peers, loop, calls
<1>1. /\ DOMAIN conn' = Conns /\ Entry(conn'[c])
      /\ conn'[c].hand = conn[c].hand /\ conn'[c].inbuf = conn[c].inbuf
      /\ conn'[c].frag = conn[c].frag /\ conn'[c].closing = conn[c].closing
      /\ \A d \in Conns \ {c} : conn'[d] = conn[d]
  BY Queued DEF WInv, Types
<1>2. WInv'
  BY <1>1, Outward DEF WInv, Types, Serves
<1> QED BY <1>2, Unseen DEF StepOf

LEMMA BroadcastStep ==
  ASSUME WInv, Broadcast
  PROVE  StepOf
<1> USE DEF peers, loop, calls
<1>1. UNCHANGED <<peers, net, live, dropped, loop, calls>>
  BY DEF Broadcast
<1>2. /\ DOMAIN conn' = Conns
      /\ \A d \in Conns : \/ conn'[d] = conn[d]
                          \/ d \in live /\ \E out : conn'[d] = [conn[d] EXCEPT !.out = out]
  BY DEF Broadcast
<1>3. ASSUME NEW d \in Conns
      PROVE  /\ Entry(conn'[d]) /\ (d \notin live => conn'[d] = conn[d])
             /\ conn'[d].hand = conn[d].hand /\ conn'[d].inbuf = conn[d].inbuf
             /\ conn'[d].frag = conn[d].frag /\ conn'[d].closing = conn[d].closing
  <2>1. Entry(conn[d])
    BY DEF WInv, Types
  <2>2. CASE conn'[d] = conn[d]
    BY <2>1, <2>2
  <2>3. ASSUME NEW out, d \in live, conn'[d] = [conn[d] EXCEPT !.out = out]
        PROVE  /\ Entry(conn'[d]) /\ d \in live
               /\ conn'[d].hand = conn[d].hand /\ conn'[d].inbuf = conn[d].inbuf
               /\ conn'[d].frag = conn[d].frag /\ conn'[d].closing = conn[d].closing
    <3>1. conn'[d] = [hand |-> conn[d].hand, inbuf |-> conn[d].inbuf, out |-> out,
                      frag |-> conn[d].frag, closing |-> conn[d].closing]
      BY <2>1, <2>3 DEF Entry
    <3> QED BY <2>1, <2>3, <3>1 DEF Entry
  <2> QED BY <1>2, <2>2, <2>3
<1>4. WInv'
  BY <1>1, <1>2, <1>3, Outward DEF WInv, Types, Serves
<1> QED BY <1>1, <1>4, Unseen DEF StepOf

\* Whoever is dropped with nothing against it was heard out.
LEMMA HeardOut ==
  ASSUME WInv, NEW c \in live, conn[c].closing
  PROVE  talk[c].bye /\ heard[c] = said[c]
<1>1. Tracked(c) /\ Types
  BY DEF WInv, Types, Lives, Track
<1>2. talk[c].bye /\ Pending(c) = <<>>
  BY <1>1 DEF Tracked, Followed, Closes
<1>3. talk[c] \in Talk /\ said[c] \in Seq(Seq(Nat)) /\ heard[c] \in Seq(Seq(Nat))
  BY <1>1 DEF Types
<1>4. Followed(conn[c], <<>>, talk[c], said[c], heard[c])
  BY <1>1, <1>2 DEF Tracked
<1> QED BY <1>2, <1>3, <1>4, AllHeard

\* onClose is called for those that were opened, and for them once.
LEMMA DropCloses ==
  ASSUME WInv, NEW cs \in SUBSET live, Drop(cs), UNCHANGED peers
  PROVE  Bus!Next \/ UNCHANGED Bus!vars
<1>1. Closed(cs) \subseteq Conns /\ \A c \in Closed(cs) : c \in opened /\ c \notin gone
  BY DEF WInv, Types, Lives, Closed
<1>2. Bus!Close(Closed(cs))
  BY <1>1 DEF Drop, Bus!Close, Life, peers
<1> QED BY <1>1, <1>2 DEF Bus!Next

LEMMA ReapStep ==
  ASSUME WInv, Reap
  PROVE  StepOf
<1> DEFINE cs == {c \in live : conn[c].closing /\ conn[c].out = <<>>}
<1>1. /\ Drop(cs) /\ cs \in SUBSET live /\ UNCHANGED <<peers, net, todo, parsing>>
      /\ todo = {} /\ parsing = NoConn /\ polling' = FALSE
  BY DEF Reap
<1>2. \A c \in cs : talk[c].bye /\ heard[c] = said[c]
  BY HeardOut
<1> HIDE DEF cs
<1>3. WInv'
  BY <1>1, <1>2, Dropped DEF WInv, Types
<1> QED BY <1>1, <1>3, DropCloses DEF StepOf

\* The first of the frames that wait is taken.
LEMMA Took ==
  ASSUME WInv, NEW c \in live, NEW s, s = Pending(c), s # <<>>, Pending(c)' = Tail(s),
         conn'[c].frag = After(conn[c].frag, Head(s)),
         conn'[c].hand <=> conn[c].hand \/ Head(s).op = "hello",
         conn'[c].closing <=> Head(s).op \in {"get", "close"},
         NEW g, heard' = [heard EXCEPT ![c] = g],
         g = IF Head(s).op = "text" THEN Append(heard[c], <<Head(s).n>>)
             ELSE IF Head(s).op = "cont" THEN Append(heard[c], Append(conn[c].frag, Head(s).n))
             ELSE heard[c],
         UNCHANGED peers
  PROVE  /\ Tracked(c)' /\ (BadIn(Pending(c)') => BadIn(Pending(c)))
         /\ heard' \in [Conns -> Seq(Seq(Nat))]
         /\ Goes(said[c], heard[c], g)
<1> DEFINE w == said[c]
           h == heard[c]
           t == talk[c]
<1>1. c \in Conns /\ Types /\ Tracked(c)
  BY DEF WInv, Types, Lives, Track
<1>2. w \in Seq(Seq(Nat)) /\ h \in Seq(Seq(Nat)) /\ t \in Talk
  BY <1>1 DEF Types
<1>3. s \in Seq(Frame)
  <2>1. conn[c].inbuf \in Seq(Frame) /\ net[c] \in Seq(Frame)
    BY <1>1 DEF Types, Entry
  <2> QED BY <2>1, ConcatProperties DEF Pending
<1>4. Followed(conn[c], s, t, w, h)
  BY <1>1 DEF Tracked
<1>5. heard'[c] = g /\ t' = t /\ w' = w
  BY <1>1 DEF Types, peers
<1> HIDE DEF t, w, h
<1>6. g = IF Head(s).op = "text" THEN Append(h, <<Head(s).n>>)
          ELSE IF Head(s).op = "cont" THEN Append(h, Append(conn[c].frag, Head(s).n)) ELSE h
  BY DEF h
<1>7. Followed(conn'[c], Tail(s), t, w, g) /\ Goes(w, h, g)
  <2> DEFINE l == conn'[c]
             k == conn[c]
  <2>1. /\ l.frag = After(k.frag, Head(s)) /\ (l.hand <=> k.hand \/ Head(s).op = "hello")
        /\ (l.closing <=> Head(s).op \in {"get", "close"})
        /\ Followed(k, s, t, w, h)
        /\ g = IF Head(s).op = "text" THEN Append(h, <<Head(s).n>>)
               ELSE IF Head(s).op = "cont" THEN Append(h, Append(k.frag, Head(s).n)) ELSE h
    BY <1>4, <1>6
  <2> HIDE DEF l, k
  <2>2. Followed(l, Tail(s), t, w, g) /\ Goes(w, h, g)
    BY <1>2, <1>3, <2>1, FollowedTake
  <2> QED BY <2>2 DEF l
<1>8. Tracked(c)'
  BY <1>5, <1>7 DEF Tracked, t, w
<1>9. BadIn(Pending(c)') => BadIn(Pending(c))
  BY <1>3, BadTail
<1>10. g \in Seq(Seq(Nat))
  <2>1. Len(h) \in Nat /\ Len(w) \in Nat
    BY <1>2
  <2>2. CASE g # h
    <3>1. Len(h) + 1 \in 1 .. Len(w) /\ g = Append(h, w[Len(h) + 1])
      BY <1>7, <2>1, <2>2 DEF Goes
    <3>2. w[Len(h) + 1] \in Seq(Nat)
      BY <1>2, <3>1, ElementOfSeq
    <3>3. Append(h, w[Len(h) + 1]) \in Seq(Seq(Nat))
      BY <1>2, <3>2, Appended
    <3> QED BY <3>1, <3>3
  <2> QED BY <1>2, <2>2
<1>11. heard' \in [Conns -> Seq(Seq(Nat))]
  BY <1>1, <1>10 DEF Types
<1> QED BY <1>7, <1>8, <1>9, <1>11 DEF h, w

\* parseFrames moves c on, and what it hands over is next of what c said.
LEMMA ParseStep ==
  ASSUME WInv, Parse
  PROVE  StepOf
<1> USE DEF loop, calls
<1> SUFFICES ASSUME NEW c, c = parsing PROVE StepOf
  OBVIOUS
<1>1. /\ c # NoConn /\ c \in live /\ c \in Conns \ dropped /\ conn[c].hand /\ polling
      /\ \A e \in todo : e.id \in Conns /\ e.id # c
      /\ UNCHANGED <<peers, net, polling, todo, sends>>
  BY DEF Parse, WInv, Types, Lives, Serves, Event
<1>2. /\ Types /\ Entry(conn[c]) /\ conn[c].inbuf \in Seq(Frame) /\ net[c] \in Seq(Frame)
      /\ conn[c].frag \in Seq(Nat) /\ heard \in [Conns -> Seq(Seq(Nat))]
      /\ c \in opened /\ DOMAIN conn = Conns /\ talk[c] \in Talk
  BY <1>1 DEF WInv, Types, Lives, Entry
<1>3. /\ Tracked(c) /\ Followed(conn[c], Pending(c), talk[c], said[c], heard[c]) /\ Blamed(c)
  BY <1>1 DEF WInv, Track, Tracked, Manners
<1>4. /\ \A d \in Conns \ {c} : net'[d] = net[d]
      /\ net' \in [Conns -> Seq(Frame)] /\ polling' /\ UNCHANGED peers /\ todo' \subseteq todo
      /\ \A e \in todo' : e.id # c
  BY <1>1, <1>2 DEF Types
<1>5. CASE conn[c].inbuf = <<>>
  <2>1. parsing' = NoConn /\ UNCHANGED <<window, conns, calls>>
    BY <1>5 DEF Parse
  <2>2. Pending(c)' = Pending(c)
    BY <1>1, <2>1 DEF Pending, conns
  <2>3. Tracked(c)'
    BY <1>1, <1>3, <2>1, <2>2 DEF Tracked, conns, peers
  <2>4. WInv'
    BY <1>1, <1>2, <1>4, <2>1, <2>2, <2>3, Moved DEF conns
  <2> QED BY <1>1, <2>1, <2>4, Unseen DEF StepOf, peers
<1>6. CASE conn[c].inbuf # <<>>
  <2> DEFINE a == conn[c].inbuf
             f == Head(a)
             k == [conn[c] EXCEPT !.inbuf = Tail(a)]
  <2>1. /\ parsing' = (IF f.op \in {"close", "bad"} THEN NoConn ELSE c)
        /\ f.op = "close" => Answer(c, [k EXCEPT !.closing = TRUE], "close")
        /\ f.op = "bad" => Drop({c})
        /\ f.op = "ping" => Answer(c, k, "pong")
        /\ f.op = "text" => Hand(c, k, <<f.n>>)
        /\ f.op = "cont" => Hand(c, k, Append(k.frag, f.n))
        /\ f.op = "part" => Hold(c, k, <<f.n>>)
        /\ f.op = "more" => Hold(c, k, Append(k.frag, f.n))
    BY <1>6 DEF Parse, Joined
  <2>2. a \in Seq(Frame) /\ a # <<>> /\ Pending(c) = a \o net[c]
    BY <1>2, <1>6 DEF Pending
  <2> HIDE DEF a
  <2>3. Tail(a) \in Seq(Frame) /\ f \in Frame
    BY <2>2, Shifted
  <2>4. Pending(c) \in Seq(Frame)
    BY <1>2, <2>2, Joint
  <2>5. Pending(c) # <<>> /\ Head(Pending(c)) = f /\ Tail(Pending(c)) = Tail(a) \o net[c]
    BY <1>2, <2>2, JointHead
  <2>6. /\ Entry(k) /\ k.hand = conn[c].hand /\ k.inbuf = Tail(a) /\ k.frag = conn[c].frag
        /\ k.closing = conn[c].closing
    <3> DEFINE b == Tail(a)
    <3>1. b \in Seq(Frame) /\ k = [conn[c] EXCEPT !.inbuf = b]
      BY <2>3
    <3> HIDE DEF b, k
    <3>2. k = [hand |-> conn[c].hand, inbuf |-> b, out |-> conn[c].out,
               frag |-> conn[c].frag, closing |-> conn[c].closing]
      BY <1>2, <3>1 DEF Entry
    <3> QED BY <1>2, <3>1, <3>2 DEF Entry, b
  <2> HIDE DEF f, k
  <2>7. f.op \in {"ping", "close", "bad", "text", "part", "more", "cont"} /\ ~conn[c].closing
    BY <1>1, <1>2, <1>3, <2>4, <2>5, FirstFrame DEF Ops
  <2>8. f.n \in Nat
    BY <2>3 DEF Frame
  <2>9. CASE f.op = "bad"
    <3>1. c \in rude
      BY <1>3, <2>4, <2>5, <2>9, BadTail DEF Blamed
    <3>2. {c} \in SUBSET live /\ Drop({c}) /\ parsing' = NoConn
      BY <1>1, <2>1, <2>9
    <3>3. WInv'
      BY <1>1, <1>4, <3>1, <3>2, Dropped
    <3> QED BY <1>1, <3>2, <3>3, DropCloses DEF StepOf
  <2>10. CASE f.op # "bad"
    <3> DEFINE g == IF f.op = "text" THEN Append(heard[c], <<f.n>>)
                    ELSE IF f.op = "cont" THEN Append(heard[c], Append(conn[c].frag, f.n))
                    ELSE heard[c]
               p == After(conn[c].frag, f)
    <3>1. \E l : /\ Entry(l) /\ l.hand /\ l.inbuf = Tail(a) /\ l.frag = p
                 /\ (l.closing <=> f.op = "close")
                 /\ (\E fs : Queue(c, l, fs)) \/ conn' = [conn EXCEPT ![c] = l]
                 /\ heard' = [heard EXCEPT ![c] = g] /\ UNCHANGED <<live, dropped, opened, gone>>
      <4>1. CASE f.op \in {"ping", "close"}
        <5> DEFINE l == IF f.op = "close" THEN [k EXCEPT !.closing = TRUE] ELSE k
        <5>1. /\ Entry(l) /\ l.hand = k.hand /\ l.inbuf = k.inbuf /\ l.frag = k.frag
              /\ l.closing <=> f.op = "close"
          <6>1. CASE f.op = "close"
            <7>1. l = [hand |-> k.hand, inbuf |-> k.inbuf, out |-> k.out,
                       frag |-> k.frag, closing |-> TRUE]
              BY <2>6, <6>1 DEF Entry
            <7> QED BY <2>6, <6>1, <7>1 DEF Entry
          <6>2. CASE f.op = "ping"
            BY <2>6, <2>7, <6>2
          <6> QED BY <4>1, <6>1, <6>2
        <5>2. (\E fs : Queue(c, l, fs)) /\ UNCHANGED <<live, dropped, calls>>
          BY <2>1, <4>1 DEF Answer
        <5>3. p = conn[c].frag /\ g = heard[c]
          BY <4>1 DEF After
        <5>4. heard' = [heard EXCEPT ![c] = g]
          BY <1>2, <5>2, <5>3
        <5> HIDE DEF l, p, g
        <5> QED BY <1>1, <2>6, <5>1, <5>2, <5>3, <5>4
      <4>2. CASE f.op \in {"text", "cont", "part", "more"}
        <5> DEFINE l == [k EXCEPT !.frag = p]
        <5>1. /\ p = IF f.op = "part" THEN <<f.n>>
                     ELSE IF f.op = "more" THEN Append(k.frag, f.n) ELSE <<>>
              /\ p \in Seq(Nat)
          <6>1. Append(k.frag, f.n) \in Seq(Nat) /\ <<f.n>> \in Seq(Nat) /\ <<>> \in Seq(Nat)
            BY <1>2, <2>6, <2>8, Appended, EmptySeq
          <6> QED BY <2>6, <4>2, <6>1 DEF After
        <5>2. /\ conn' = [conn EXCEPT ![c] = l] /\ heard' = [heard EXCEPT ![c] = g]
              /\ UNCHANGED <<live, dropped, opened, gone>>
          <6>1. CASE f.op = "text"
            BY <2>1, <5>1, <6>1 DEF Hand
          <6>2. CASE f.op = "cont"
            BY <2>1, <2>6, <5>1, <6>2 DEF Hand
          <6>3. CASE f.op \in {"part", "more"}
            <7>1. Hold(c, k, p) /\ g = heard[c]
              BY <2>1, <5>1, <6>3
            <7> HIDE DEF p, g
            <7> QED BY <1>2, <7>1 DEF Hold
          <6> QED BY <4>2, <6>1, <6>2, <6>3
        <5> HIDE DEF p, g
        <5>3. /\ Entry(l) /\ l.hand = k.hand /\ l.inbuf = k.inbuf /\ l.frag = p
              /\ l.closing = k.closing
          <6>1. k = [hand |-> k.hand, inbuf |-> k.inbuf, out |-> k.out,
                     frag |-> k.frag, closing |-> k.closing]
            BY <2>6 DEF Entry
          <6>2. l = [hand |-> k.hand, inbuf |-> k.inbuf, out |-> k.out,
                     frag |-> p, closing |-> k.closing]
            BY <6>1
          <6> QED BY <2>6, <5>1, <6>2 DEF Entry
        <5> HIDE DEF l
        <5> QED BY <1>1, <2>6, <2>7, <4>2, <5>2, <5>3
      <4> QED BY <2>7, <2>10, <4>1, <4>2
    <3> HIDE DEF g, p
    <3>2. /\ DOMAIN conn' = Conns /\ Entry(conn'[c]) /\ \A d \in Conns \ {c} : conn'[d] = conn[d]
          /\ conn'[c].hand /\ conn'[c].inbuf = Tail(a) /\ conn'[c].frag = p
          /\ (conn'[c].closing <=> f.op = "close")
      <4>1. PICK l : /\ Entry(l) /\ l.hand /\ l.inbuf = Tail(a) /\ l.frag = p
                     /\ (l.closing <=> f.op = "close")
                     /\ (\E fs : Queue(c, l, fs)) \/ conn' = [conn EXCEPT ![c] = l]
        BY <3>1
      <4>2. CASE \E fs : Queue(c, l, fs)
        BY <1>1, <1>2, <4>1, <4>2, Queued
      <4>3. CASE conn' = [conn EXCEPT ![c] = l]
        BY <1>1, <1>2, <4>1, <4>3
      <4> QED BY <4>1, <4>2, <4>3
    <3>3. Pending(c)' = Tail(Pending(c))
      BY <1>1, <2>5, <3>2 DEF Pending
    <3>4. /\ conn'[c].closing <=> f.op \in {"get", "close"}
          /\ conn'[c].hand <=> conn[c].hand \/ f.op = "hello"
      BY <1>1, <2>7, <3>2
    <3>5. /\ g = IF f.op = "text" THEN Append(heard[c], <<f.n>>)
                 ELSE IF f.op = "cont" THEN Append(heard[c], Append(conn[c].frag, f.n))
                 ELSE heard[c]
          /\ p = After(conn[c].frag, f)
      BY DEF g, p
    <3>6. /\ Tracked(c)' /\ (BadIn(Pending(c)') => BadIn(Pending(c)))
          /\ heard' \in [Conns -> Seq(Seq(Nat))]
          /\ Goes(said[c], heard[c], g)
      <4> DEFINE s == Pending(c)
      <4>1. /\ s = Pending(c) /\ s # <<>> /\ Pending(c)' = Tail(s) /\ Head(s) = f
            /\ conn'[c].frag = After(conn[c].frag, Head(s))
            /\ conn'[c].hand <=> conn[c].hand \/ Head(s).op = "hello"
            /\ conn'[c].closing <=> Head(s).op \in {"get", "close"}
            /\ heard' = [heard EXCEPT ![c] = g] /\ c \in live /\ UNCHANGED peers
        BY <1>1, <2>5, <3>1, <3>2, <3>3, <3>4, <3>5
      <4>2. g = IF Head(s).op = "text" THEN Append(heard[c], <<Head(s).n>>)
                ELSE IF Head(s).op = "cont" THEN Append(heard[c], Append(conn[c].frag, Head(s).n))
                ELSE heard[c]
        BY <3>5, <4>1
      <4> HIDE DEF s
      <4> QED BY <4>1, <4>2, Took
    <3>7. /\ opened' = IF conn'[c].hand THEN opened \cup {c} ELSE opened
          /\ \A d \in Conns \ {c} : heard'[d] = heard[d]
          /\ parsing' \in {c, NoConn}
      BY <1>1, <1>2, <2>1, <3>1, <3>2
    <3>8. WInv'
      BY <1>1, <1>4, <3>1, <3>2, <3>6, <3>7, Moved
    <3>9. Bus!Next \/ UNCHANGED Bus!vars
      <4>1. CASE g = heard[c]
        BY <1>1, <1>2, <3>1, <4>1, Unseen DEF peers
      <4>2. CASE g # heard[c]
        <5>1. Life(c) = "open" /\ \A d \in Conns : Life(d)' = Life(d)
          BY <1>1, <1>2, <3>1 DEF WInv, Lives, Life
        <5>2. Bus!Hear(c)
          BY <1>1, <3>1, <3>6, <4>2, <5>1 DEF Bus!Hear, Goes, peers
        <5> QED BY <1>1, <5>2 DEF Bus!Next
      <4> QED BY <4>1, <4>2
    <3> QED BY <3>8, <3>9 DEF StepOf
  <2> QED BY <2>9, <2>10
<1> QED BY <1>5, <1>6

\* The request that opens a connection is taken; nothing is heard by it.
LEMMA TookRequest ==
  ASSUME WInv, NEW c \in live, NEW s, s = Pending(c), s # <<>>, Pending(c)' = Tail(s),
         NEW f, f = Head(s), f.op \notin {"text", "cont"},
         conn'[c].frag = After(conn[c].frag, f),
         conn'[c].hand <=> conn[c].hand \/ f.op = "hello",
         conn'[c].closing <=> f.op \in {"get", "close"},
         UNCHANGED <<peers, heard>>
  PROVE  /\ Tracked(c)' /\ (BadIn(Pending(c)') => BadIn(Pending(c)))
         /\ heard' \in [Conns -> Seq(Seq(Nat))]
<1> DEFINE w == said[c]
           h == heard[c]
           t == talk[c]
           l == conn'[c]
           k == conn[c]
<1>1. /\ Types /\ Tracked(c) /\ w \in Seq(Seq(Nat)) /\ h \in Seq(Seq(Nat)) /\ t \in Talk
      /\ conn[c].inbuf \in Seq(Frame) /\ net[c] \in Seq(Frame)
  BY DEF WInv, Types, Lives, Track, Entry
<1>2. s \in Seq(Frame)
  BY <1>1, ConcatProperties DEF Pending
<1>3. Followed(k, s, t, w, h)
  BY <1>1 DEF Tracked
<1>4. heard'[c] = h /\ t' = t /\ w' = w /\ heard' \in [Conns -> Seq(Seq(Nat))]
  BY <1>1 DEF Types, peers
<1>5. /\ l.frag = After(k.frag, Head(s)) /\ (l.hand <=> k.hand \/ Head(s).op = "hello")
      /\ (l.closing <=> Head(s).op \in {"get", "close"})
  OBVIOUS
<1> HIDE DEF l, k, t, w, h
<1>6. h = IF Head(s).op = "text" THEN Append(h, <<Head(s).n>>)
          ELSE IF Head(s).op = "cont" THEN Append(h, Append(k.frag, Head(s).n)) ELSE h
  OBVIOUS
<1>7. Followed(l, Tail(s), t, w, h)
  BY <1>1, <1>2, <1>3, <1>5, <1>6, FollowedTake
<1>8. Tracked(c)'
  BY <1>4, <1>7 DEF Tracked, l, t, w, h
<1> QED BY <1>2, <1>4, <1>8, BadTail

\* What is left of a record when a field of it is set.
LEMMA EntrySet ==
  ASSUME NEW k, NEW h, NEW i, NEW o, NEW p, NEW z, NEW x,
         k = [hand |-> h, inbuf |-> i, out |-> o, frag |-> p, closing |-> z]
  PROVE  /\ [k EXCEPT !.hand = x] = [hand |-> x, inbuf |-> i, out |-> o, frag |-> p, closing |-> z]
         /\ [k EXCEPT !.closing = x] = [hand |-> h, inbuf |-> i, out |-> o, frag |-> p, closing |-> x]
OBVIOUS

LEMMA EventSet ==
  ASSUME NEW e, NEW c, NEW r, NEW o, NEW i, NEW z, NEW x, NEW y,
         e = [id |-> c, err |-> r, out |-> o, in |-> i, half |-> z]
  PROVE  [e EXCEPT !.out = x, !.half = y] = [id |-> c, err |-> r, out |-> x, in |-> i, half |-> y]
<1> DEFINE l == [e EXCEPT !.out = x]
<1>1. l = [id |-> c, err |-> r, out |-> x, in |-> i, half |-> z]
  OBVIOUS
<1>2. [e EXCEPT !.out = x, !.half = y] = [l EXCEPT !.half = y]
  OBVIOUS
<1> HIDE DEF l
<1>3. [l EXCEPT !.half = y] = [id |-> c, err |-> r, out |-> x, in |-> i, half |-> y]
  BY <1>1
<1> QED BY <1>2, <1>3

\* onOpen is called for a connection that was not opened yet, with its request parsed
\* and all that was read with it kept.
LEMMA HandshakeStep ==
  ASSUME WInv, NEW c \in live, ~conn[c].hand, net[c] # <<>>, polling, parsing = NoConn,
         net' = [net EXCEPT ![c] = <<>>], UNCHANGED <<peers, live, dropped, gone, heard, polling>>,
         todo' \subseteq todo, \A e \in todo' : e.id # c,
         Handshake(c, conn[c].inbuf \o net[c])
  PROVE  StepOf
<1> DEFINE s == conn[c].inbuf \o net[c]
           f == Head(s)
           k == [conn[c] EXCEPT !.inbuf = Tail(s)]
<1>1. /\ Types /\ Entry(conn[c]) /\ conn[c].inbuf \in Seq(Frame) /\ net[c] \in Seq(Frame)
      /\ conn[c].frag \in Seq(Nat) /\ heard \in [Conns -> Seq(Seq(Nat))]
      /\ c \in Conns \ dropped /\ c \notin opened \cup gone /\ DOMAIN conn = Conns /\ talk[c] \in Talk
  BY DEF WInv, Types, Lives, Entry
<1>2. Followed(conn[c], s, talk[c], said[c], heard[c])
  BY <1>1 DEF WInv, Track, Tracked, Pending
<1>3. s \in Seq(Frame) /\ s # <<>>
  BY <1>1, ConcatProperties, ConcatEqualIffEmpty
<1>4. IF f.op = "hello"
      THEN /\ Queue(c, [k EXCEPT !.hand = TRUE], <<"101">>)
           /\ opened' = opened \cup {c} /\ parsing' = c
      ELSE /\ Queue(c, [k EXCEPT !.closing = TRUE], <<"http">>)
           /\ UNCHANGED <<opened, parsing>>
  BY DEF Handshake, AfterRequest
<1>5. s = Pending(c)
  BY DEF Pending
<1> HIDE DEF s
<1>6. f.op \in {"hello", "get"} /\ ~conn[c].closing
  BY <1>1, <1>2, <1>3, FirstFrame
<1>7. Tail(s) \in Seq(Frame)
  BY <1>3, Shifted
<1> HIDE DEF f
<1>8. k = [hand |-> FALSE, inbuf |-> Tail(s), out |-> conn[c].out,
           frag |-> conn[c].frag, closing |-> FALSE]
  <2> DEFINE b == Tail(s)
  <2>1. k = [conn[c] EXCEPT !.inbuf = b]
    OBVIOUS
  <2>2. conn[c].hand = FALSE /\ conn[c].closing = FALSE
    BY <1>1, <1>6 DEF Entry
  <2> HIDE DEF b, k
  <2>3. k = [hand |-> conn[c].hand, inbuf |-> b, out |-> conn[c].out,
             frag |-> conn[c].frag, closing |-> conn[c].closing]
    BY <1>1, <2>1 DEF Entry
  <2> QED BY <2>2, <2>3 DEF b
<1> HIDE DEF k
<1> DEFINE l == [hand |-> f.op = "hello", inbuf |-> Tail(s), out |-> conn[c].out,
                 frag |-> conn[c].frag, closing |-> f.op = "get"]
<1>9. Entry(l)
  BY <1>1, <1>7 DEF Entry
<1>10. \E fs : Queue(c, l, fs)
  <2> DEFINE b   == Tail(s)
             o   == conn[c].out
             p   == conn[c].frag
             yes == TRUE
             no  == FALSE
  <2>1. /\ k = [hand |-> no, inbuf |-> b, out |-> o, frag |-> p, closing |-> no]
        /\ l = [hand |-> f.op = "hello", inbuf |-> b, out |-> o, frag |-> p,
                closing |-> f.op = "get"]
    BY <1>8
  <2> HIDE DEF b, o, p, l
  <2>2. CASE f.op = "hello"
    <3>1. (f.op = "hello") = TRUE /\ (f.op = "get") = FALSE
      BY <2>2
    <3>2. l = [hand |-> yes, inbuf |-> b, out |-> o, frag |-> p, closing |-> no]
      BY <2>1, <3>1
    <3>3. \E fs : Queue(c, [k EXCEPT !.hand = yes], fs)
      BY <1>4, <2>2
    <3> HIDE DEF yes, no
    <3>4. [k EXCEPT !.hand = yes] = l
      BY <2>1, <3>2, EntrySet
    <3> QED BY <3>3, <3>4
  <2>3. CASE f.op = "get"
    <3>1. (f.op = "hello") = FALSE /\ (f.op = "get") = TRUE
      BY <2>3
    <3>2. l = [hand |-> no, inbuf |-> b, out |-> o, frag |-> p, closing |-> yes]
      BY <2>1, <3>1
    <3>3. \E fs : Queue(c, [k EXCEPT !.closing = yes], fs)
      BY <1>4, <2>3
    <3> HIDE DEF yes, no
    <3>4. [k EXCEPT !.closing = yes] = l
      BY <2>1, <3>2, EntrySet
    <3> QED BY <3>3, <3>4
  <2> QED BY <1>6, <2>2, <2>3
<1>11. /\ l.hand = (f.op = "hello") /\ l.inbuf = Tail(s) /\ l.frag = conn[c].frag
       /\ l.closing = (f.op = "get")
  OBVIOUS
<1> HIDE DEF l
<1>12. /\ DOMAIN conn' = Conns /\ Entry(conn'[c]) /\ \A d \in Conns \ {c} : conn'[d] = conn[d]
       /\ conn'[c].hand = (f.op = "hello") /\ conn'[c].inbuf = Tail(s)
       /\ conn'[c].frag = conn[c].frag /\ conn'[c].closing = (f.op = "get")
  BY <1>1, <1>9, <1>10, <1>11, Queued
<1>13. /\ net' \in [Conns -> Seq(Frame)] /\ net'[c] = <<>> /\ \A d \in Conns \ {c} : net'[d] = net[d]
  BY <1>1, EmptySeq DEF Types
<1>14. Pending(c)' = Tail(s)
  BY <1>7, <1>12, <1>13, Joint DEF Pending
<1>15. /\ Tracked(c)' /\ (BadIn(Pending(c)') => BadIn(Pending(c)))
       /\ heard' \in [Conns -> Seq(Seq(Nat))]
  <2>1. /\ conn'[c].frag = After(conn[c].frag, f)
        /\ conn'[c].hand <=> conn[c].hand \/ f.op = "hello"
        /\ conn'[c].closing <=> f.op \in {"get", "close"}
        /\ f.op \notin {"text", "cont"} /\ f = Head(s)
    BY <1>6, <1>12 DEF After, f
  <2>2. /\ s = Pending(c) /\ s # <<>> /\ Pending(c)' = Tail(s)
        /\ UNCHANGED <<peers, heard>> /\ c \in live /\ WInv
    BY <1>3, <1>5, <1>14
  <2> QED BY <2>1, <2>2, TookRequest
<1>16. /\ opened' = IF conn'[c].hand THEN opened \cup {c} ELSE opened
       /\ parsing' \in {c, NoConn} /\ (parsing' # NoConn => conn'[c].hand) /\ polling'
       /\ conn[c].hand => conn'[c].hand
  BY <1>4, <1>12
<1>17. WInv'
  BY <1>12, <1>13, <1>15, <1>16, Moved
<1>18. Bus!Next \/ UNCHANGED Bus!vars
  <2>1. CASE f.op = "hello"
    <3>1. Bus!Open(c)
      BY <1>1, <1>4, <2>1 DEF Bus!Open, Life, peers
    <3> QED BY <1>1, <3>1 DEF Bus!Next
  <2>2. CASE f.op = "get"
    BY <1>4, <2>2, Unseen DEF peers
  <2> QED BY <1>6, <2>1, <2>2
<1> QED BY <1>17, <1>18 DEF StepOf

LEMMA ReceiveStep ==
  ASSUME WInv, NEW c \in live, polling, parsing = NoConn, UNCHANGED <<peers, polling>>,
         todo' \subseteq todo, \A e \in todo' : e.id # c, Receive(c)
  PROVE  StepOf
<1>1. /\ Types /\ Entry(conn[c]) /\ conn[c].inbuf \in Seq(Frame) /\ net[c] \in Seq(Frame)
      /\ c \in Conns \ dropped /\ DOMAIN conn = Conns /\ c \notin gone
      /\ conn[c].hand <=> c \in opened
  BY DEF WInv, Types, Lives, Entry
<1>2. Tracked(c) /\ Blamed(c)
  BY <1>1 DEF WInv, Track, Manners
<1>3. /\ net' = [net EXCEPT ![c] = <<>>] /\ net' \in [Conns -> Seq(Frame)]
      /\ net'[c] = <<>> /\ \A d \in Conns \ {c} : net'[d] = net[d]
  BY <1>1, EmptySeq DEF Receive, Types
<1>4. CASE AtEnd(c)
  <2>1. Drop({c}) /\ UNCHANGED parsing /\ {c} \in SUBSET live
    BY <1>4 DEF Receive
  <2>2. c \in rude
    BY <1>2, <1>4 DEF AtEnd, Blamed
  <2>3. WInv'
    BY <1>3, <2>1, <2>2, Dropped
  <2> QED BY <2>1, <2>3, DropCloses DEF StepOf
<1>5. CASE ~AtEnd(c) /\ conn[c].hand
  <2>1. /\ conn' = [conn EXCEPT ![c].inbuf = @ \o net[c]] /\ parsing' = c
        /\ UNCHANGED <<live, dropped, gone, heard, opened>>
    BY <1>5 DEF Receive
  <2> DEFINE b == conn[c].inbuf \o net[c]
  <2>2. b \in Seq(Frame) /\ b = Pending(c)
    BY <1>1, Joint DEF Pending
  <2>3. /\ conn'[c] = [conn[c] EXCEPT !.inbuf = b] /\ DOMAIN conn' = Conns
        /\ \A d \in Conns \ {c} : conn'[d] = conn[d]
    BY <1>1, <2>1
  <2> HIDE DEF b
  <2>4. conn'[c] = [hand |-> conn[c].hand, inbuf |-> b, out |-> conn[c].out,
                    frag |-> conn[c].frag, closing |-> conn[c].closing]
    BY <1>1, <2>3 DEF Entry
  <2>5. Entry(conn'[c]) /\ conn'[c].hand
    BY <1>1, <1>5, <2>2, <2>4 DEF Entry
  <2>6. Pending(c)' = Pending(c)
    <3>1. conn'[c].inbuf = b
      BY <2>4
    <3>2. Pending(c)' = b \o <<>>
      BY <1>3, <3>1 DEF Pending
    <3> QED BY <2>2, <3>2, ConcatEmptySeq
  <2>7. Tracked(c)'
    BY <1>1, <1>2, <2>1, <2>4, <2>6 DEF Tracked, Followed, Hands, Closes, peers
  <2>8. WInv'
    <3>1. heard' \in [Conns -> Seq(Seq(Nat))] /\ \A d \in Conns \ {c} : heard'[d] = heard[d]
      BY <1>1, <2>1 DEF Types
    <3>2. /\ opened' = IF conn'[c].hand THEN opened \cup {c} ELSE opened
          /\ parsing' \in {c, NoConn} /\ (parsing' # NoConn => conn'[c].hand) /\ polling'
          /\ conn[c].hand => conn'[c].hand
      BY <1>1, <1>5, <2>1, <2>5
    <3>3. /\ UNCHANGED <<peers, live, dropped, gone>>
          /\ BadIn(Pending(c)') => BadIn(Pending(c))
      BY <2>1, <2>6
    <3> QED BY <1>3, <2>3, <2>5, <2>7, <3>1, <3>2, <3>3, Moved
  <2> QED BY <2>1, <2>8, Unseen DEF StepOf, peers
<1>6. CASE ~AtEnd(c) /\ ~conn[c].hand /\ net[c] = <<>>
  <2>1. UNCHANGED <<live, dropped, conn, gone, heard, opened, parsing>>
    BY <1>6 DEF Receive
  <2>2. net' = net
    BY <1>1, <1>3, <1>6 DEF Types
  <2>3. Pending(c)' = Pending(c) /\ Tracked(c)'
    BY <1>2, <2>1, <2>2 DEF Pending, Tracked, peers
  <2>4. WInv'
    BY <1>1, <1>3, <1>6, <2>1, <2>3, Moved DEF Types
  <2> QED BY <2>1, <2>4, Unseen DEF StepOf, peers
<1>7. CASE ~AtEnd(c) /\ ~conn[c].hand /\ net[c] # <<>>
  BY <1>3, <1>7, HandshakeStep DEF Receive
<1> QED BY <1>4, <1>5, <1>6, <1>7

LEMMA VisitStep ==
  ASSUME WInv, NEW e \in todo, Visit(e)
  PROVE  StepOf
<1> DEFINE c == e.id
           half == [e EXCEPT !.out = FALSE, !.half = TRUE]
<1>1. /\ polling /\ parsing = NoConn /\ UNCHANGED <<peers, polling, sends>>
      /\ todo' = (todo \ {e}) \cup (IF ~e.err /\ e.out /\ e.in THEN {half} ELSE {})
  BY DEF Visit
<1>2. /\ c \in live /\ c \in Conns /\ NoConn \notin Conns /\ (e.err => c \in rude) /\ Types
      /\ \A d \in todo \ {e} : d.id # c
  BY WsAssumption DEF WInv, Types, Serves
<1>3. CASE e.err
  <2>1. Drop({c}) /\ UNCHANGED <<net, parsing>> /\ {c} \in SUBSET live
    BY <1>2, <1>3 DEF Visit
  <2>2. todo' = todo \ {e}
    BY <1>1, <1>3
  <2>3. WInv'
    BY <1>1, <1>2, <1>3, <2>1, <2>2, Dropped DEF Types
  <2> QED BY <1>1, <2>1, <2>3, DropCloses DEF StepOf
<1>4. CASE ~e.err /\ e.out
  <2>1. Queue(c, conn[c], <<>>) /\ UNCHANGED <<net, live, dropped, calls, parsing>>
    BY <1>4 DEF Visit
  <2>2. /\ DOMAIN conn' = Conns /\ Entry(conn'[c]) /\ \A d \in Conns \ {c} : conn'[d] = conn[d]
        /\ conn'[c].hand = conn[c].hand /\ conn'[c].inbuf = conn[c].inbuf
        /\ conn'[c].frag = conn[c].frag /\ conn'[c].closing = conn[c].closing
    BY <1>2, <2>1, Queued DEF Types
  <2>3. /\ todo' \subseteq Event
        /\ \A d \in todo' : /\ d.id \in live \ {parsing} /\ (d.err => d.id \in rude)
                            /\ \A x \in todo' : x.id = d.id => x = d
    <3>1. half \in Event /\ half.id = c /\ half.err = e.err
      <4>1. /\ e = [id |-> e.id, err |-> e.err, out |-> e.out, in |-> e.in, half |-> e.half]
            /\ e.id \in Conns /\ e.err \in BOOLEAN /\ e.in \in BOOLEAN
        BY <1>2 DEF Types, Event
      <4> DEFINE yes == TRUE
                 no  == FALSE
      <4>2. half = [e EXCEPT !.out = no, !.half = yes]
        OBVIOUS
      <4> HIDE DEF yes, no, half
      <4>3. half = [id |-> e.id, err |-> e.err, out |-> no, in |-> e.in, half |-> yes]
        BY <4>1, <4>2, EventSet
      <4> QED BY <4>1, <4>3 DEF Event, yes, no
    <3> HIDE DEF half
    <3>2. todo' \subseteq (todo \ {e}) \cup {half}
      BY <1>1
    <3>3. \A d \in todo \ {e} : /\ d.id \in live \ {parsing} /\ (d.err => d.id \in rude)
                                /\ \A x \in todo : x.id = d.id => x = d
      BY DEF WInv, Serves
    <3> HIDE DEF c
    <3> QED BY <1>1, <1>2, <1>4, <3>1, <3>2, <3>3 DEF Types
  <2>4. WInv'
    BY <1>1, <1>2, <2>1, <2>2, <2>3, Outward DEF Types
  <2> QED BY <1>1, <2>1, <2>4, Unseen DEF StepOf, peers, calls
<1>5. CASE ~e.err /\ ~e.out
  <2>1. Receive(c)
    BY <1>5 DEF Visit
  <2>2. todo' = todo \ {e}
    BY <1>1, <1>5
  <2> QED BY <1>1, <1>2, <2>1, <2>2, ReceiveStep
<1> QED BY <1>3, <1>4, <1>5

-----------------------------------------------------------------------------
(* Theorems.                                                               *)

LEMMA NextStep ==
  ASSUME WInv, [Next]_vars
  PROVE  StepOf
<1>1. CASE UNCHANGED vars
  <2>1. WInv'
    BY <1>1, Outward DEF WInv, Types, Serves, vars, peers, conns, loop, calls
  <2> QED BY <1>1, <2>1, Unseen DEF StepOf, vars, peers, calls
<1>2. ASSUME NEW c \in Conns, Dial(c) PROVE StepOf
  BY <1>2, DialStep
<1>3. ASSUME NEW c \in Conns, Read(c) PROVE StepOf
  BY <1>3, ReadStep
<1>4. ASSUME NEW c \in Conns, Send(c) PROVE StepOf
  BY <1>4, SendStep
<1>5. ASSUME NEW c \in Conns, NEW op, Put(c, op) PROVE StepOf
  BY <1>5, PutStep
<1>6. ASSUME NEW c \in Conns, NEW how \in {"fin", "reset"}, BreakOff(c, how) PROVE StepOf
  BY <1>6, BreakOffStep
<1>7. CASE Broadcast
  BY <1>7, BroadcastStep
<1>8. CASE Poll
  BY <1>8, PollStep
<1>9. CASE Parse
  BY <1>9, ParseStep
<1>10. CASE Reap
  BY <1>10, ReapStep
<1>11. ASSUME NEW e \in todo, Visit(e) PROVE StepOf
  BY <1>11, VisitStep
<1> QED BY <1>1, <1>2, <1>3, <1>4, <1>5, <1>6, <1>7, <1>8, <1>9, <1>10, <1>11 DEF Next, Loop

\* The invariant that follows every frame from the peer to the host: the frames that
\* are still to be parsed are the last that the peer sent, and what was heard is what
\* was said ahead of them.
THEOREM WsInvariant == Spec => []WInv
<1>1. Init => WInv
  BY InitStep
<1>2. WInv /\ [Next]_vars => WInv'
  BY NextStep DEF StepOf
<1> QED BY <1>1, <1>2, PTL DEF Spec

\* A peer that sent Close and waited for the host to hang up was heard out, whatever
\* poll found ready together, however slow the peer and small the kernel's window.
THEOREM WsPoliteHeard == Spec => []PoliteHeard
<1>1. WInv => PoliteHeard
  BY DEF WInv, Manners, PoliteHeard
<1> QED BY <1>1, WsInvariant, PTL

\* The server is the transport that the host relies on: a connection opens once and
\* closes once, and between the two the host hears what the peer said, message by
\* message, whole, in order and with no gap.
THEOREM WsImplementsTransport == Spec => ImplementsTransport
<1>1. Init => Bus!Init
  BY InitStep
<1>2. WInv /\ [Next]_vars => [Bus!Next]_(Bus!vars)
  BY NextStep DEF StepOf
<1> QED BY <1>1, <1>2, WsInvariant, PTL DEF Spec, ImplementsTransport, Bus!Spec

=============================================================================
