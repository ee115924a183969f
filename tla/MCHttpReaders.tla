--------------------------- MODULE MCHttpReaders ---------------------------
(***************************************************************************)
(* Small instances of HttpReaders for TLC: streams of up to three          *)
(* messages, of heads that fit header_buffer, just fit it or do not, and   *)
(* bodies of none to three units or in up to two chunks.  The last chunk   *)
(* has the length 0, or no digits, or in the last message something that   *)
(* is no length, or a digit too many.                                      *)
(***************************************************************************)
EXTENDS HttpReadersProofs

MCMaxMessages == 3

MCRequests ==
  [head : {1, 2}, length : 0..3] \cup {[head |-> HeaderCap + 1, length |-> 0]}

MCResponses ==
  [head : {2}, length : 0..2]
  \cup {[head |-> 2, sizes |-> <<>>, last |-> "empty"], [head |-> 2, sizes |-> <<1>>, last |-> "zero"],
        [head |-> 2, sizes |-> <<1, 2>>, last |-> "empty"]}
  \cup {[head |-> 2, length |-> NoLength],
        [head |-> HeaderCap, length |-> 0], [head |-> HeaderCap + 1, length |-> 1]}

MCBadResponses == [head : {2}, sizes : {<<>>, <<1>>}, last : {"ill", "long"}]

Units(m, kind, places) == SetToSortSeq({Unit(m, kind, i) : i \in places}, LAMBDA u, v : u.n < v.n)

\* Every other length has a leading zero.
Number(m, size, even) ==
  IF even THEN <<Unit(m, "digit", 0), Unit(m, "digit", size)>> ELSE <<Unit(m, "digit", size)>>

LastLine(m, last, even) ==
  CASE last = "zero"  -> Number(m, 0, even)
    [] last = "empty" -> <<>>
    [] last = "ill"   -> <<Unit(m, "text", 1)>>
    [] last = "long"  -> [i \in 1..(MaxDigits + 1) |-> Unit(m, "digit", 0)]

\* A stream with one more chunk.
WithLine(s, line, size) ==
  LET m     == Len(s.sent)
      msg   == s.sent[m]
      chunk == [at |-> msg.end, digits |-> Len(line), size |-> size, from |-> msg.body]
      crlf  == <<Unit(m, "crlf", 0)>>
  IN [units |-> s.units \o line \o crlf
                \o Units(m, "data", (msg.body + 1)..(msg.body + size)) \o crlf,
      sent  |-> [s.sent EXCEPT ![m].chunks = Append(@, chunk), ![m].end = ChunkEnd(chunk),
                               ![m].body = @ + size]]

EvenChunk(s) == Len(s.sent[Len(s.sent)].chunks) % 2 = 1

WithChunk(s, size) == WithLine(s, Number(Len(s.sent), size, EvenChunk(s)), size)

WithChunks(s, form) ==
  LET all == FoldLeft(WithChunk, s, form.sizes)
  IN WithLine(all, LastLine(Len(s.sent), form.last, EvenChunk(all)), 0)

WithMessage(s, form) ==
  LET m      == Len(s.sent) + 1
      at     == Len(s.units)
      length == IF "sizes" \in DOMAIN form THEN NoLength ELSE form.length
      body   == IF length = NoLength THEN 0 ELSE length
      plain  == [units |-> s.units \o Units(m, "text", 1..(form.head - 1))
                           \o <<Unit(m, "blank", length)>> \o Units(m, "data", 1..body),
                 sent  |-> Append(s.sent, [at |-> at, head |-> form.head, length |-> length,
                                           body |-> body, chunks |-> <<>>,
                                           end |-> at + form.head + body])]
  IN IF "sizes" \in DOMAIN form THEN WithChunks(plain, form) ELSE plain

Stream(s) == FoldLeft(WithMessage, [units |-> <<>>, sent |-> <<>>], s)

MCRequestStreams == {Stream(s) : s \in SeqOf(MCRequests, MCMaxMessages)}

MCResponseStreams ==
  {Stream(s) : s \in SeqOf(MCResponses, MCMaxMessages)}
  \cup {Stream(Append(s, bad)) : s \in SeqOf(MCResponses, MCMaxMessages - 1), bad \in MCBadResponses}
=============================================================================
