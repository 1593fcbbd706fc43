--------------------------------- MODULE Sse ---------------------------------
(***************************************************************************)
(* engine/src/chat/sse.cpp: the incremental HTTP and SSE parser of the      *)
(* chat backend's response, fed whatever each read of the socket returns.  *)
(*                                                                         *)
(* A byte is a record.  Sizes, the head, the five characters `data:` and a *)
(* text are one byte each: the parser only looks at them in whole lines.   *)
(* An event is its sequence of texts, the lines a '\n' joins in the code.  *)
(***************************************************************************)
EXTENDS Integers, Sequences, SequencesExt, FiniteSetsExt

CONSTANTS Texts,      \* what a data line may say, other than [DONE]
          MaxEvents,  \* bound on events of a response
          MaxLines,   \* bound on the lines of an event
          MaxChunk,   \* bound on the bytes of a chunk
          Reads       \* sizes of a read that leaves something unread

ASSUME SseAssumption == /\ MaxEvents \in Nat /\ MaxLines \in Nat /\ MaxChunk \in Nat \ {0}
                        /\ Reads \subseteq Nat \ {0} /\ 0 \notin Texts

VARIABLES
  sent,    \* the response as the server means it
  wire,    \* its bytes
  at,      \* bytes read so far
  parser,  \* the fields of SseParser
  items,   \* everything feed and end have returned
  closed   \* end was called

sseVars == <<sent, wire, at, parser, items, closed>>

Byte(is)     == [is |-> is, n |-> 0]
Size(n)      == [is |-> "size", n |-> n]
Text(t)      == [is |-> "text", n |-> t]
CR           == Byte("CR")
LF           == Byte("LF")
Stop         == Text(0)   \* [DONE]

Item(kind, event) == [kind |-> kind, event |-> event]

-----------------------------------------------------------------------------
(* What llama-server sends.                                                *)

Events == BoundedSeq({Text(t) : t \in Texts}, MaxLines) \ {<<>>}

\* stop: it ends by [DONE].  size: the bytes of its chunks, 0 when it is not
\* chunked.  eol: the end of its lines.  bad: a chunk whose size is no number.
Responses == [status : {200, 500}, events : BoundedSeq(Events, MaxEvents),
              stop : BOOLEAN, size : 0 .. MaxChunk, eol : {<<LF>>, <<CR, LF>>},
              bad : BOOLEAN]

\* What it says, [DONE] included, and how it writes that.
All(r)           == r.events \o (IF r.stop THEN <<<<Stop>>>> ELSE <<>>)
Line(t, eol)     == <<Byte("data:"), t>> \o eol
Lines(ev, eol)   == [i \in DOMAIN ev |-> Line(ev[i], eol)]
Written(ev, eol) == FlattenSeq(Lines(ev, eol)) \o eol
Parcels(r)       == [i \in DOMAIN All(r) |-> Written(All(r)[i], r.eol)]
BodyOf(r)        == FlattenSeq(Parcels(r))

\* Chunks of size bytes, the last one of what is left.
Parts(body, size) == [i \in 1 .. (Len(body) + size - 1) \div size |->
                        SubSeq(body, (i - 1) * size + 1, Min({i * size, Len(body)}))]
Chunk(part)   == <<Size(Len(part)), CR, LF>> \o part \o <<CR, LF>>
Chunks(parts) == [i \in DOMAIN parts |-> Chunk(parts[i])]
Ending(r) == IF r.bad THEN <<Byte("junk"), CR, LF>> ELSE <<Size(0), CR, LF, CR, LF>>

WireOf(r) ==
  <<[is |-> IF r.size > 0 THEN "chunked" ELSE "plain", n |-> r.status], CR, LF, CR, LF>>
    \o (IF r.size = 0 THEN BodyOf(r) ELSE FlattenSeq(Chunks(Parts(BodyOf(r), r.size))) \o Ending(r))

SseInit == /\ sent \in {r \in Responses : (r.bad => r.size > 0)
                                          /\ (r.status # 200 => r.events = <<>>)}
           /\ wire = WireOf(sent)
           /\ at = 0
           /\ parser = [phase |-> "headers", buf |-> <<>>, sse |-> <<>>, event |-> <<>>,
                        chunked |-> FALSE, ended |-> FALSE, done |-> FALSE]
           /\ items = <<>>
           /\ closed = FALSE

-----------------------------------------------------------------------------
(* The parser.  Each step takes and returns [p, out, on]: the fields, the  *)
(* new items, and whether parseSse's loop goes on.  The loops are unrolled *)
(* once for every end of a line, as each round takes one or changes        *)
(* nothing.                                                                *)

From(s, i) == SubSeq(s, i, Len(s))
Crlfs(s)   == {i \in 1 .. Len(s) - 1 : s[i] = CR /\ s[i + 1] = LF}
Lfs(s)     == {i \in DOMAIN s : s[i] = LF}
Emit(x, item) == [x EXCEPT !.out = Append(@, item)]

ParseHeaders(x) ==
  LET ends == {i \in Crlfs(x.p.buf) : i + 2 \in Crlfs(x.p.buf)}
      head == x.p.buf[1]
      body == [x.p EXCEPT !.phase = "body", !.buf = From(@, Min(ends) + 4),
                          !.chunked = head.is = "chunked", !.done = head.n # 200]
      seen == Emit([x EXCEPT !.p = body], Item("headers", <<>>))
  IN IF x.p.phase # "headers" \/ ends = {} THEN x
     ELSE IF head.n = 200 THEN seen ELSE Emit(seen, Item("error", <<>>))

\* A chunk, if one has arrived in full.
ChunkStep(x) ==
  LET buf  == x.p.buf
      crlf == Min(Crlfs(buf))
      size == buf[1].n
  IN IF x.p.done \/ Crlfs(buf) = {} THEN x
     ELSE IF buf[1].is # "size"
          THEN Emit([x EXCEPT !.p.done = TRUE], Item("error", <<>>))
     ELSE IF size = 0 THEN [x EXCEPT !.p.buf = <<>>, !.p.ended = TRUE]
     ELSE IF Len(buf) < crlf + 3 + size THEN x
     ELSE [x EXCEPT !.p.sse = @ \o SubSeq(buf, crlf + 2, crlf + 1 + size),
                    !.p.buf = From(buf, crlf + size + 4)]

Dechunk(x) ==
  LET lines == Cardinality(Crlfs(x.p.buf))
      round[n \in 0 .. lines] == IF n = 0 THEN x ELSE ChunkStep(round[n - 1])
  IN round[lines]

Undecoded(x) == [x EXCEPT !.p.sse = @ \o x.p.buf, !.p.buf = <<>>]
DecodeBody(x) == IF x.p.chunked THEN Dechunk(x) ELSE Undecoded(x)

\* (Faulty variant: the event is not cleared.)
FlushEventKeeping(x) ==
  IF x.p.event = <<>> THEN x
  ELSE IF x.p.event = <<Stop>>
       THEN Emit([x EXCEPT !.p.done = TRUE], Item("done", <<>>))
  ELSE Emit(x, Item("data", x.p.event))
FlushEvent(x) ==
  IF x.p.event = <<>> THEN x
  ELSE IF x.p.event = <<Stop>>
       THEN Emit([x EXCEPT !.p.done = TRUE, !.p.event = <<>>], Item("done", <<>>))
  ELSE Emit([x EXCEPT !.p.event = <<>>], Item("data", x.p.event))

\* A complete line of sse: one of an event is kept, a blank one ends it.
LineStep(x) ==
  LET lfs  == Lfs(x.p.sse)
      full == SubSeq(x.p.sse, 1, Min(lfs) - 1)
      line == IF full # <<>> /\ Last(full) = CR THEN Front(full) ELSE full
      rest == [x EXCEPT !.p.sse = From(@, Min(lfs) + 1)]
      over == FlushEvent(rest)
  IN IF ~x.on \/ lfs = {} THEN x
     ELSE IF line = <<>> THEN [over EXCEPT !.on = ~over.p.done]
     ELSE IF line[1] = Byte("data:") THEN [rest EXCEPT !.p.event = @ \o Tail(line)]
     ELSE rest

ParseSse(x) ==
  LET lines == Cardinality(Lfs(x.p.sse))
      round[n \in 0 .. lines] == IF n = 0 THEN x ELSE LineStep(round[n - 1])
  IN round[lines]

\* (Faulty variant: with nothing left to flush there is nothing to end.)
FinishPending(x) == IF x.p.event = <<>> THEN x
                    ELSE Emit([FlushEvent(x) EXCEPT !.p.done = TRUE], Item("done", <<>>))
Finish(x) ==
  LET flushed == IF x.p.done THEN x ELSE FlushEvent(x)
  IN IF flushed.p.done THEN flushed
     ELSE Emit([flushed EXCEPT !.p.done = TRUE], Item("done", <<>>))

\* feed after the headers.
Body(x) == LET parsed == ParseSse(DecodeBody(x))
           IN IF parsed.p.ended THEN Finish(parsed) ELSE parsed

Nothing(p) == [p |-> p, out |-> <<>>, on |-> TRUE]

FeedOf(p, bytes) ==
  LET x == ParseHeaders(Nothing([p EXCEPT !.buf = @ \o bytes]))
  IN IF p.done THEN Nothing(p)
     ELSE IF x.p.phase = "body" /\ ~x.p.done THEN Body(x) ELSE x

EndOf(p) ==
  LET x == Nothing(p)
  IN IF p.done \/ p.phase # "body" THEN x
     ELSE Finish(ParseSse(IF p.chunked THEN x ELSE Undecoded(x)))

-----------------------------------------------------------------------------
Takes(x) == parser' = x.p /\ items' = items \o x.out

\* A read returns the next n bytes.
Feed(n) == /\ ~closed /\ n \in Reads \cup {Len(wire) - at}
           /\ Takes(FeedOf(parser, SubSeq(wire, at + 1, at + n)))
           /\ at' = at + n
           /\ UNCHANGED <<sent, wire, closed>>

\* The server closes, whether or not it had sent everything.
End == /\ ~closed /\ closed' = TRUE
       /\ Takes(EndOf(parser))
       /\ UNCHANGED <<sent, wire, at>>

SseNext == End \/ \E n \in 1 .. Len(wire) - at : Feed(n)

SseSpec == SseInit /\ [][SseNext]_sseVars

-----------------------------------------------------------------------------
(* Properties.                                                             *)

Datum(item) == IF item.kind = "data" THEN <<item.event>> ELSE <<>>
DataOf(s) == FlattenSeq([i \in DOMAIN s |-> Datum(s[i])])

\* All of a response, in whatever reads it came: its events, in order, and one
\* end (sse.hpp:38); and a cut past the headers is an end too, so that the
\* request does not wait on.
Faithful ==
  /\ at = Len(wire) /\ (closed \/ sent.stop \/ sent.size > 0) /\ ~sent.bad =>
       items = <<Item("headers", <<>>)>>
                 \o [i \in DOMAIN sent.events |-> Item("data", sent.events[i])]
                 \o <<Item(IF sent.status = 200 THEN "done" ELSE "error", <<>>)>>
  /\ closed /\ parser.phase = "body" =>
       \E i \in DOMAIN items : items[i].kind \in {"done", "error"}

\* At every read, and after a cut or a corrupt chunk, what was returned is what
\* was sent as far as it goes; only a cut may shorten the last event.
NothingInvented ==
  LET data == DataOf(items)
  IN /\ Len(data) <= Len(sent.events)
     /\ \A i \in DOMAIN data : \/ data[i] = sent.events[i]
                               \/ /\ closed /\ i = Len(data)
                                  /\ IsPrefix(data[i], sent.events[i])

=============================================================================
