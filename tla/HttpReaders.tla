---------------------------- MODULE HttpReaders ----------------------------
(***************************************************************************)
(* The readers of http_types.rs: HttpRequestReaderEx::read_from at the     *)
(* server's end of a connection, HttpResponse::read_from at the client's.  *)
(* Either finds messages in a stream that arrives in segments of any       *)
(* length, across calls, with what it keeps in the header_buffer and in    *)
(* the state of its HttpConn.                                              *)
(*                                                                         *)
(* The stream is made of units: a piece of a head without a line end, the  *)
(* last piece of a head, a line end, a digit of a chunk's length, a piece  *)
(* of a body.  A behaviour is the reading of one stream, chosen in Init    *)
(* together with an account of what was sent in it.  The readers see the   *)
(* stream alone; what they return is compared with the account.            *)
(*                                                                         *)
(* Operators marked "Variant" are mistakes, as in HttpServer.              *)
(***************************************************************************)
EXTENDS Integers, Sequences, SequencesExt, FiniteSetsExt, FiniteSets

CONSTANTS
  RequestStreams,   (* what servers may get to read: [units, sent]         *)
  ResponseStreams,  (* what clients may get to read                        *)
  HeaderCap,   (* what header_buffer holds, 8096 bytes in the code         *)
  MaxBody,     (* max_body: the longest request, its head included         *)
  MaxDigits    (* the most digits of a chunk's length, 16 in the code      *)

VARIABLES
  side,          (* which reader: "server" reads requests                  *)
  clean,         (* whether segments end only where read_chunks can cope   *)
  stream,        (* the units                                              *)
  sent,          (* the account of the messages in the stream              *)
  pos,           (* how many units of the stream have been read            *)
  header_buffer,
  state,         (* HttpRequestReadState, HttpResponseReadState            *)
  got,           (* the messages returned                                  *)
  outcome        (* of the call: it runs, it returned, or it was the last  *)

vars == <<side, clean, stream, sent, pos, header_buffer, state, got, outcome>>

-----------------------------------------------------------------------------
(* Streams. *)

NoLength == -1

\* A unit says which message it is of, and n: the place of a piece in its
\* head or body, the Content-Length of a head, the value of a digit.
Unit(m, kind, n) == [m |-> m, kind |-> kind, n |-> n]

AnyUnit == [m : Nat, kind : {"text", "blank", "crlf", "digit", "data"}, n : Nat \cup {NoLength}]

\* parse_hex_uint: the numbers the digits stand for.  No digits are 0.
HexValues(digits) ==
  {n \in 0..(16^Len(digits) - 1) :
     \A i \in DOMAIN digits : digits[i].n = (n \div 16^(Len(digits) - i)) % 16}

\* It takes no others than these; an empty line is one of them.
IsHex(digits) == Len(digits) <= MaxDigits /\ \A i \in DOMAIN digits : digits[i].kind = "digit"

\* In the account of a message: "at" and "end" are how many units there are
\* in the stream before it and up to its end.  So it is with a chunk, which
\* also knows how much of the body goes before it.
AnyChunk == [at : Nat, digits : Nat, size : Nat, from : Nat]

AnyMessage ==
  [at : Nat, head : Nat, length : Nat \cup {NoLength}, body : Nat, chunks : Seq(AnyChunk), end : Nat]

BodyAt(msg) == msg.at + msg.head

DataAt(chunk) == chunk.at + chunk.digits + 1

ChunkEnd(chunk) == DataAt(chunk) + chunk.size + 1

\* The line with the length of a chunk, without its end.
Line(units, chunk) == SubSeq(units, chunk.at + 1, chunk.at + chunk.digits)

\* A chunk: its length in digits, a line end, the data, a line end.  A length
\* without digits is that of the last chunk; so is one that is none, or that
\* is too long, behind which nothing will be read.
IsChunk(units, m, chunk) ==
  /\ \A i \in 1..chunk.digits : units[chunk.at + i].kind \in {"digit", "text"}
  /\ IF IsHex(Line(units, chunk)) THEN HexValues(Line(units, chunk)) = {chunk.size}
                                  ELSE chunk.size = 0
  /\ units[DataAt(chunk)].kind = "crlf"
  /\ \A i \in 1..chunk.size : units[DataAt(chunk) + i] = Unit(m, "data", chunk.from + i)
  /\ units[ChunkEnd(chunk)].kind = "crlf"

\* The chunks of a message follow each other; the last one is empty.
AreChunks(units, m, msg) ==
  LET chunks == msg.chunks
      last   == chunks[Len(chunks)]
  IN /\ msg.length = NoLength
     /\ chunks[1].at = BodyAt(msg) /\ chunks[1].from = 0
     /\ last.from = msg.body /\ ChunkEnd(last) = msg.end
     /\ \A c \in DOMAIN chunks :
          /\ IsChunk(units, m, chunks[c])
          /\ chunks[c].size = 0 <=> c = Len(chunks)
          /\ ChunkEnd(chunks[c]) <= msg.end
          /\ c < Len(chunks) => /\ chunks[c + 1].at = ChunkEnd(chunks[c])
                                /\ chunks[c + 1].from = chunks[c].from + chunks[c].size

\* A message without a length and without chunks has no body.
IsPlain(units, m, msg) ==
  /\ msg.length = msg.body \/ (msg.length = NoLength /\ msg.body = 0)
  /\ \A i \in 1..msg.body : units[BodyAt(msg) + i] = Unit(m, "data", i)
  /\ msg.end = BodyAt(msg) + msg.body

\* The last piece of a head has the Content-Length, or none.
IsMessage(units, m, msg) ==
  /\ msg.head > 0
  /\ \A i \in 1..(msg.head - 1) : units[msg.at + i] = Unit(m, "text", i)
  /\ units[BodyAt(msg)] = Unit(m, "blank", msg.length)
  /\ IF msg.chunks = <<>> THEN IsPlain(units, m, msg) ELSE AreChunks(units, m, msg)

\* Where message m begins, or would begin behind the last one.
StartOf(s, m) == IF m <= Len(s.sent) THEN s.sent[m].at ELSE Len(s.units)

\* The messages make up the stream, each behind the one before.
IsStream(s) ==
  /\ s.units \in Seq(AnyUnit) /\ s.sent \in Seq(AnyMessage)
  /\ StartOf(s, 1) = 0
  /\ \A m \in DOMAIN s.sent :
       /\ IsMessage(s.units, m, s.sent[m])
       /\ s.sent[m].end = StartOf(s, m + 1) /\ s.sent[m].end <= Len(s.units)
       /\ \A n \in DOMAIN s.sent : m < n => s.sent[m].end <= s.sent[n].at

ASSUME ReaderAssumption ==
  /\ {HeaderCap, MaxBody, MaxDigits} \subseteq Nat \ {0}
  /\ \A s \in RequestStreams \cup ResponseStreams : IsStream(s)
  /\ \A s \in RequestStreams : \A m \in DOMAIN s.sent : s.sent[m].length # NoLength

-----------------------------------------------------------------------------
(* Segments. *)

\* A segment may end behind p units: nothing arrives behind a response
\* without a length before that response is returned, and no segment ends
\* between a head and the end of the length of the first chunk, or between a
\* length of all MaxDigits digits and its line end.
CleanCut(p) ==
  \A m \in DOMAIN sent :
    LET msg == sent[m] IN
    /\ msg.length = NoLength /\ msg.chunks = <<>> /\ Len(got) < m => p <= msg.end
    /\ msg.chunks # <<>> => p \notin BodyAt(msg)..(BodyAt(msg) + msg.chunks[1].digits)
    /\ \A c \in DOMAIN msg.chunks :
         msg.chunks[c].digits = MaxDigits => p # DataAt(msg.chunks[c]) - 1

\* The lengths of what the next read into the given space can return.
Readable(space) ==
  {k \in 1..space : pos + k <= Len(stream) /\ (clean => CleanCut(pos + k))}

Incoming(k) == SubSeq(stream, pos + 1, pos + k)

AtEnd == pos = Len(stream)

\* Variant: what is in the buffer is forgotten.
RoomWhole == HeaderCap

Room == HeaderCap - Len(header_buffer)

-----------------------------------------------------------------------------
(* Calls. *)

\* The empty state, and those that hold a body and the message it is for.
\* "data" of "cap" units of the body are there; when it comes in chunks,
\* they are of the last chunk, and "before" is what the others brought.
Empty == [is |-> "Empty", m |-> 0, cap |-> 0, data |-> <<>>, before |-> <<>>]

ReadBody(m, cap, data) ==
  [is |-> "ReadBody", m |-> m, cap |-> cap, data |-> data, before |-> <<>>]

ReadChunkedBody(m, cap, before) ==
  [is |-> "ReadChunkedBody", m |-> m, cap |-> cap, data |-> <<>>, before |-> before]

Message(m, body) == [m |-> m, body |-> body]

Init ==
  /\ side \in {"server", "client"}
  /\ clean \in IF side = "server" THEN {TRUE} ELSE BOOLEAN
  /\ \E s \in IF side = "server" THEN RequestStreams ELSE ResponseStreams :
       stream = s.units /\ sent = s.sent
  /\ pos = 0
  /\ header_buffer = <<>>
  /\ state = Empty
  /\ got = <<>>
  /\ outcome = "some"

In(reader, name) == side = reader /\ state.is = name

\* The last call returned, and read_from is called again.
Call ==
  /\ outcome \in {"none", "some"}
  /\ outcome' = "runs"
  /\ UNCHANGED <<side, clean, stream, sent, pos, header_buffer, state, got>>

Return(message) ==
  /\ got' = Append(got, message)
  /\ outcome' = "some"

End(how) ==
  /\ outcome' = how
  /\ UNCHANGED <<side, clean, stream, sent, pos, header_buffer, state, got>>

FirstOf(places) == IF places = {} THEN 0 ELSE Min(places)

\* The place of the end of the head, or 0: a blank line, be it that of the
\* chunks of another message.
Blank(buf) ==
  FirstOf({i \in DOMAIN buf :
             \/ buf[i].kind = "blank"
             \/ i > 1 /\ buf[i].kind = "crlf" /\ buf[i - 1].kind = "crlf"})

-----------------------------------------------------------------------------
(* HttpRequestReaderEx::read_from *)

\* get_request_size, of a buffer that has a head.
RequestSize(buf) == Blank(buf) + buf[Blank(buf)].n

\* What HttpRequestReaderEx::new makes of the bytes of one request.
Request(buf) == Message(buf[Blank(buf)].m, SubSeq(buf, Blank(buf) + 1, Len(buf)))

\* Variant: a request of exactly max_body is refused.
TooLongAtLimit(buf) == RequestSize(buf) >= MaxBody

TooLong(buf) == RequestSize(buf) > MaxBody

Reading(reader, name) == outcome = "runs" /\ In(reader, name)

\* Variant: what follows the request is dropped with it.
AfterRequestNone(buf) == <<>>

AfterRequest(buf) == SubSeq(buf, RequestSize(buf) + 1, Len(buf))

TakeRequest ==
  LET buf == header_buffer IN
  /\ Reading("server", "Empty")
  /\ Blank(buf) > 0
  /\ ~TooLong(buf)
  /\ RequestSize(buf) <= Len(buf)
  /\ Return(Request(SubSeq(buf, 1, RequestSize(buf))))
  /\ header_buffer' = AfterRequest(buf)
  /\ UNCHANGED <<side, clean, stream, sent, pos, state>>

TooLarge ==
  /\ Reading("server", "Empty")
  /\ IF Blank(header_buffer) > 0
       THEN TooLong(header_buffer)
       ELSE Room = 0
  /\ End("error")

\* The request is longer than what is there: a buffer of its length.
StartBody ==
  LET buf == header_buffer IN
  /\ Reading("server", "Empty")
  /\ Blank(buf) > 0
  /\ ~TooLong(buf)
  /\ RequestSize(buf) > Len(buf)
  /\ state' = ReadBody(buf[Blank(buf)].m, RequestSize(buf), buf)
  /\ header_buffer' = <<>>
  /\ UNCHANGED <<side, clean, stream, sent, pos, got, outcome>>

ReadHead(k) ==
  /\ Reading("server", "Empty")
  /\ Blank(header_buffer) = 0
  /\ k \in Readable(Room)
  /\ header_buffer' = header_buffer \o Incoming(k)
  /\ pos' = pos + k
  /\ UNCHANGED <<side, clean, stream, sent, state, got, outcome>>

ReadRequestBody(k) ==
  LET data == state.data \o Incoming(k) IN
  /\ Reading("server", "ReadBody")
  /\ k \in Readable(state.cap - Len(state.data))
  /\ pos' = pos + k
  /\ IF Len(data) = state.cap
       THEN state' = Empty /\ Return(Request(data))
       ELSE state' = [state EXCEPT !.data = data] /\ UNCHANGED <<got, outcome>>
  /\ UNCHANGED <<side, clean, stream, sent, header_buffer>>

\* Variant: reads before it looks into the buffer.
NeedsBytesFirst == In("server", "ReadBody") \/ (In("server", "Empty") /\ Room > 0)

\* It reads; what it needs may not have come, and may never come.
NeedsBytes == In("server", "ReadBody") \/ (In("server", "Empty") /\ Blank(header_buffer) = 0 /\ Room > 0)

RequestBlocks == outcome = "runs" /\ NeedsBytes /\ End("none")

RequestEOF == outcome = "runs" /\ NeedsBytes /\ AtEnd /\ End("EOF")

-----------------------------------------------------------------------------
(* HttpResponse::read_from: every call in the empty state begins with a     *)
(* read, of k units or, if it would block and something is buffered, of    *)
(* none; then it looks for a head.                                         *)

Fills(k) ==
  /\ Reading("client", "Empty")
  /\ k \in Readable(Room) \/ (k = 0 /\ header_buffer # <<>>)
  /\ pos' = pos + k

Filled(k) == header_buffer \o Incoming(k)

MessageOf(buf) == buf[Blank(buf)].m

Remaining(buf) == SubSeq(buf, Blank(buf) + 1, Len(buf))

LineEnd(buf) == FirstOf({i \in DOMAIN buf : buf[i].kind \in {"crlf", "blank"}})

\* Without a length the body may come in chunks; but if read_chunks finds no
\* line end it says NotChunked, or leaves all that remains, and either is
\* taken for an empty body.
IsChunked(buf) == buf[Blank(buf)].n = NoLength /\ LineEnd(Remaining(buf)) > 0

\* The length of a body that is not chunked.
Length(buf) == IF buf[Blank(buf)].n = NoLength THEN 0 ELSE buf[Blank(buf)].n

\* from_head accepts the head.
HasHead(buf) == Blank(buf) > 0 /\ \A i \in 1..(Blank(buf) - 1) : buf[i].kind = "text"

\* What is found is no head, but chunks of an earlier response.
FillGarbage(k) ==
  LET buf == Filled(k) IN
  /\ Fills(k)
  /\ Blank(buf) > 0 /\ ~HasHead(buf)
  /\ header_buffer' = buf
  /\ outcome' = "error"
  /\ UNCHANGED <<side, clean, stream, sent, state, got>>

FillNoHead(k) ==
  LET buf == Filled(k) IN
  /\ Fills(k)
  /\ Blank(buf) = 0
  /\ header_buffer' = buf
  /\ outcome' = IF Len(buf) = HeaderCap THEN "error" ELSE "none"
  /\ UNCHANGED <<side, clean, stream, sent, state, got>>

\* The body takes all that is there and goes on in a buffer of its own.
FillBody(k) ==
  LET buf == Filled(k) IN
  /\ Fills(k)
  /\ HasHead(buf) /\ ~IsChunked(buf)
  /\ Length(buf) >= Len(Remaining(buf))
  /\ header_buffer' = <<>>
  /\ state' = ReadBody(MessageOf(buf), Length(buf), Remaining(buf))
  /\ UNCHANGED <<side, clean, stream, sent, got, outcome>>

AfterBody(rest, length) == SubSeq(rest, length + 1, Len(rest))

FillMessage(k) ==
  LET buf == Filled(k) IN
  /\ Fills(k)
  /\ HasHead(buf) /\ ~IsChunked(buf)
  /\ Length(buf) < Len(Remaining(buf))
  /\ header_buffer' = AfterBody(Remaining(buf), Length(buf))
  /\ Return(Message(MessageOf(buf), SubSeq(Remaining(buf), 1, Length(buf))))
  /\ UNCHANGED <<side, clean, stream, sent, state>>

-----------------------------------------------------------------------------
(* read_chunks, an iteration of its loop at a time.  The outcome is        *)
(* "chunks" while it runs on what came with the head, behind which the     *)
(* call reads on, and "more" while it runs on what a later read brought,   *)
(* behind which the call returns.                                          *)

Digits(buf) == SubSeq(buf, 1, LineEnd(buf) - 1)

\* read_chunk_header: a chunk of the length in the first line begins.  Its
\* buffer has room for the line end after the data.
Header(buf, m, before, how) ==
  IF buf[LineEnd(buf)].kind = "crlf" /\ IsHex(Digits(buf))
    THEN /\ \E n \in HexValues(Digits(buf)) : state' = ReadChunkedBody(m, n + 1, before)
         /\ header_buffer' = SubSeq(buf, LineEnd(buf) + 1, Len(buf))
         /\ outcome' = how
    ELSE /\ outcome' = "panic"
         /\ header_buffer' = buf
         /\ UNCHANGED state

\* The first chunk.
FillChunks(k) ==
  LET buf == Filled(k) IN
  /\ Fills(k)
  /\ HasHead(buf) /\ IsChunked(buf)
  /\ Header(Remaining(buf), MessageOf(buf), <<>>, "chunks")
  /\ UNCHANGED <<side, clean, stream, sent, got>>

ReadMoreChunks(k) ==
  /\ Reading("client", "ReadChunkedBody")
  /\ k \in Readable(Room) \cup {0}
  /\ pos' = pos + k
  /\ header_buffer' = Filled(k)
  /\ outcome' = "more"
  /\ UNCHANGED <<side, clean, stream, sent, state, got>>

BodyRoom == state.cap - Len(state.data)

\* A chunk that had no data is left with no capacity: that is the last one.
InChunks == outcome \in {"chunks", "more"} /\ state.cap > 0

\* There is no line end in sight: the length of a chunk may still be coming.
ChunksWait ==
  /\ InChunks
  /\ IF header_buffer = <<>> THEN TRUE
       ELSE BodyRoom = 0 /\ LineEnd(header_buffer) = 0 /\ Len(header_buffer) < MaxDigits
  /\ End(IF outcome = "chunks" THEN "runs" ELSE "none")

ChunkLineTooLong ==
  /\ InChunks /\ BodyRoom = 0
  /\ LineEnd(header_buffer) = 0 /\ Len(header_buffer) >= MaxDigits
  /\ End("panic")

NextChunk ==
  /\ InChunks /\ BodyRoom = 0
  /\ LineEnd(header_buffer) > 0
  /\ Header(header_buffer, state.m, state.before \o state.data, outcome)
  /\ UNCHANGED <<side, clean, stream, sent, pos, got>>

\* The line end after the data is cut off.
ChunkData ==
  LET k    == IF BodyRoom < Len(header_buffer) THEN BodyRoom ELSE Len(header_buffer)
      data == state.data \o SubSeq(header_buffer, 1, k)
  IN /\ InChunks /\ BodyRoom > 0 /\ header_buffer # <<>>
     /\ header_buffer' = SubSeq(header_buffer, k + 1, Len(header_buffer))
     /\ IF Len(data) < state.cap
          THEN state' = [state EXCEPT !.data = data] /\ UNCHANGED outcome
          ELSE IF data[Len(data)].kind = "crlf"
            THEN /\ state' = [state EXCEPT !.cap = @ - 1, !.data = SubSeq(data, 1, Len(data) - 1)]
                 /\ UNCHANGED outcome
            ELSE outcome' = "panic" /\ UNCHANGED state
     /\ UNCHANGED <<side, clean, stream, sent, pos, got>>

ChunksDone ==
  /\ outcome \in {"chunks", "more"} /\ state.cap = 0
  /\ state' = Empty
  /\ Return(Message(state.m, state.before \o state.data))
  /\ UNCHANGED <<side, clean, stream, sent, pos, header_buffer>>

-----------------------------------------------------------------------------
(* The bodies of responses that are not chunked, and the end.              *)

\* fill_all_with reads until the body is there.
ReadResponseBody(k) ==
  /\ Reading("client", "ReadBody")
  /\ k \in Readable(BodyRoom)
  /\ pos' = pos + k
  /\ state' = [state EXCEPT !.data = @ \o Incoming(k)]
  /\ UNCHANGED <<side, clean, stream, sent, header_buffer, got, outcome>>

ResponseDone ==
  /\ Reading("client", "ReadBody")
  /\ BodyRoom = 0
  /\ state' = Empty
  /\ Return(Message(state.m, state.data))
  /\ UNCHANGED <<side, clean, stream, sent, pos, header_buffer>>

ResponseBlocks ==
  /\ \/ Reading("client", "Empty") /\ header_buffer = <<>>
     \/ Reading("client", "ReadBody") /\ BodyRoom > 0
  /\ End("none")

\* In the empty state the end of the stream goes before what is buffered.
ResponseEOF ==
  /\ \/ Reading("client", "Empty") \/ Reading("client", "ReadChunkedBody")
     \/ Reading("client", "ReadBody") /\ BodyRoom > 0
  /\ AtEnd
  /\ End("EOF")

-----------------------------------------------------------------------------
(* The specification. *)

Space == IF state.is = "ReadBody" THEN BodyRoom ELSE Room

ReadRequest ==
  \/ TakeRequest \/ TooLarge \/ StartBody \/ RequestBlocks \/ RequestEOF
  \/ \E k \in 1..Space : ReadHead(k) \/ ReadRequestBody(k)

ReadChunks == ChunksWait \/ ChunkLineTooLong \/ NextChunk \/ ChunkData \/ ChunksDone

ReadResponse ==
  \/ ReadChunks \/ ResponseDone \/ ResponseBlocks \/ ResponseEOF
  \/ \E k \in 0..Space :
       \/ FillGarbage(k) \/ FillNoHead(k) \/ FillBody(k) \/ FillMessage(k) \/ FillChunks(k)
       \/ ReadMoreChunks(k) \/ ReadResponseBody(k)

Next == Call \/ ReadRequest \/ ReadResponse

Spec == Init /\ [][Next]_vars

-----------------------------------------------------------------------------
(* Properties. *)

AnyState ==
  [is : {"Empty", "ReadBody", "ReadChunkedBody"}, m : Nat, cap : Nat,
   data : Seq(AnyUnit), before : Seq(AnyUnit)]

\* The types; a buffer never holds more than it has room for.
TypeOK ==
  /\ side \in {"server", "client"} /\ clean \in BOOLEAN
  /\ IsStream([units |-> stream, sent |-> sent])
  /\ pos \in 0..Len(stream)
  /\ header_buffer \in Seq(AnyUnit) /\ Len(header_buffer) <= HeaderCap
  /\ state \in AnyState
  /\ Len(state.data) <= state.cap
  /\ got \in Seq([m : Nat, body : Seq(AnyUnit)])
  /\ outcome \in {"runs", "chunks", "more", "none", "some", "error", "EOF", "panic"}

\* The first k units of the body of message m.
Body(m, k) == [i \in 1..k |-> Unit(m, "data", i)]

\* Whatever the segments, if they are clean, the messages returned are those
\* that were sent, each with its own body and nothing of its neighbours,
\* although heads and bodies go through two buffers and messages follow each
\* other closely (http_types.rs:216-245, 386-470).
MessagesWhole ==
  clean => \A i \in DOMAIN got : i \in DOMAIN sent /\ got[i] = Message(i, Body(i, sent[i].body))

\* A call that returns none has left no whole message behind, so that the
\* loops that end a tick or a read at the first none lose nothing by it
\* (http_server.rs:186, http_conn.rs:195); nor has the server at the end of
\* the stream: it looks into the buffer before it reads (http_types.rs:216).
NothingHeldBack ==
  (clean /\ outcome = "none") \/ (side = "server" /\ outcome = "EOF")
    => \A m \in DOMAIN sent : sent[m].end <= pos => m <= Len(got)

\* An error is returned only for a message that is too long: one whose head
\* does not fit the buffer, or a request longer than max_body
\* (http_types.rs:219, 242, 401).  The client panics only at a chunk whose
\* length has a byte that is no digit, or too many digits, wherever between
\* or within the chunks the segments end, if they are clean: not at numbers
\* with leading zeros, nor at an empty line, which is a length of 0
\* (http_types.rs:450, 505, 697-716).  If they are not, it panics at good
\* chunks too.
OnlyBadRefused ==
  clean /\ outcome \in {"error", "panic"} =>
    /\ Len(got) < Len(sent)
    /\ LET msg == sent[Len(got) + 1]
       IN \/ /\ outcome = "error"
             /\ msg.head > HeaderCap \/ (side = "server" /\ msg.head + msg.body > MaxBody)
          \/ outcome = "panic" /\ \E c \in DOMAIN msg.chunks : ~IsHex(Line(stream, msg.chunks[c]))
=============================================================================
