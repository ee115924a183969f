------------------------- MODULE HttpReadersProofs -------------------------
(***************************************************************************)
(* Proofs, for any streams, segments and limits, that the readers of       *)
(* HttpReaders return what was sent, hold nothing back and refuse only     *)
(* what is too long or is no length of a chunk.                            *)
(*                                                                         *)
(* None of this is inductive: it rests on where in the stream the contents *)
(* of header_buffer and of the state come from, which the readers do not   *)
(* know, and on every part of a message being taken from there once.       *)
(***************************************************************************)
EXTENDS HttpReaders, SequenceTheorems, WellFoundedInduction, NaturalsInduction, TLAPS

\* The number of the message that is read.
Turn == Len(got) + 1

\* What is buffered is the stream from there on.
Holds(buf, at) ==
  at + Len(buf) <= Len(stream) /\ \A i \in DOMAIN buf : buf[i] = stream[at + i]

\* What was read and is not in header_buffer any more.
Base == pos - Len(header_buffer)

\* What was returned was sent.
GotOK == Len(got) <= Len(sent) /\ MessagesWhole

BufferOK == Len(header_buffer) <= pos /\ Holds(header_buffer, Base)

\* Where message m begins, or would begin.
Start(m) == StartOf([units |-> stream, sent |-> sent], m)

\* In the empty state the buffer begins where a message begins, unless the
\* client panicked at its first chunk: the head was taken from it already.
EmptyOK == state.is = "Empty" /\ outcome # "panic" => Base = Start(Turn)

\* A request that outgrew header_buffer is read from its beginning.
RequestOK ==
  state.is = "ReadBody" /\ side = "server" =>
    /\ Turn \in DOMAIN sent /\ header_buffer = <<>>
    /\ LET msg == sent[Turn]
       IN /\ pos = msg.at + Len(state.data) /\ Holds(state.data, msg.at)
          /\ msg.head <= Len(state.data) /\ Len(state.data) < state.cap
          /\ state.cap = msg.head + msg.body

\* A response is read from the beginning of its body.
ResponseOK ==
  state.is = "ReadBody" /\ side = "client" =>
    /\ Turn \in DOMAIN sent /\ header_buffer = <<>> /\ state.m = Turn
    /\ LET msg == sent[Turn]
       IN /\ msg.chunks = <<>> /\ state.cap = msg.body
          /\ pos = BodyAt(msg) + Len(state.data) /\ Holds(state.data, BodyAt(msg))

\* The chunk that is read: a part of its data is there, or all of it and its
\* line end; all chunks before it are.
InChunk(chunk) ==
  /\ state.before = Body(Turn, chunk.from)
  /\ \A i \in DOMAIN state.data : state.data[i] = Unit(Turn, "data", chunk.from + i)
  /\ \/ /\ state.cap = chunk.size + 1 /\ Len(state.data) < state.cap
        /\ Base = DataAt(chunk) + Len(state.data)
     \/ /\ state.cap = chunk.size /\ Len(state.data) = state.cap
        /\ Base = ChunkEnd(chunk)

ChunkedOK ==
  state.is = "ReadChunkedBody" =>
    /\ Turn \in DOMAIN sent /\ state.m = Turn
    /\ \E c \in DOMAIN sent[Turn].chunks : InChunk(sent[Turn].chunks[c])

CleanInv ==
  /\ GotOK /\ CleanCut(pos) /\ BufferOK
  /\ EmptyOK /\ RequestOK /\ ResponseOK /\ ChunkedOK
  /\ NothingHeldBack /\ OnlyBadRefused

\* A server's stream is cut cleanly wherever it is cut, and read_chunks is
\* of clients.
SidesOK ==
  /\ side = "server" => clean /\ \A m \in DOMAIN sent : sent[m].length # NoLength
  /\ state.is = "ReadChunkedBody" => side = "client"
  /\ outcome \in {"chunks", "more"} => state.is = "ReadChunkedBody"

\* What the proofs carry from step to step: the buffers keep to their limits
\* and, while the stream is cut cleanly, what they hold is the next of the
\* stream behind what was returned (http_types.rs:213-276, 385-530).
ReaderInv == TypeOK /\ SidesOK /\ (clean => CleanInv)

-----------------------------------------------------------------------------
(* Places in buffers.                                                      *)

\* The first of some places is one of them, and none is before it.
LEMMA FirstPlace ==
  ASSUME NEW len \in Nat, NEW S \in SUBSET (1..len)
  PROVE  /\ FirstOf(S) \in 0..len
         /\ FirstOf(S) > 0 => FirstOf(S) \in S
         /\ \A i \in 1..len : FirstOf(S) = 0 \/ i < FirstOf(S) => i \notin S
<1>1. CASE S = {}
  BY <1>1 DEF FirstOf
<1>2. CASE S # {}
  <2>0. S \subseteq Nat /\ \A i \in S : i \in Nat /\ 1 <= i /\ i <= len
    OBVIOUS
  <2>1. PICK x \in S : \A y \in S : ~ (<<y, x>> \in OpToRel(<, Nat))
    BY <1>2, <2>0, NatLessThanWellFounded, WFMin, Zenon
  <2>2. \A y \in S : ~(y < x)
    BY <2>0, <2>1 DEF OpToRel
  <2>3. Min(S) \in S /\ \A y \in S : Min(S) <= y
    <3>1. \A y \in S : x <= y
      BY <2>0, <2>2
    <3>2. QED
      BY <2>1, <3>1 DEF Min
  <2>4. FirstOf(S) = Min(S)
    BY <1>2 DEF FirstOf
  <2>5. PICK m \in S : FirstOf(S) = m /\ \A y \in S : m <= y
    BY <2>3, <2>4
  <2>6. m \in 1..len /\ \A i \in 1..len : i < m => i \notin S
    BY <2>0, <2>5
  <2>7. QED
    BY <2>5, <2>6
<1>3. QED
  BY <1>1, <1>2

IsBlank(buf, i) ==
  \/ buf[i].kind = "blank"
  \/ i > 1 /\ buf[i].kind = "crlf" /\ buf[i - 1].kind = "crlf"

\* A buffer has the end of a head at its Blank, and nowhere before it.
LEMMA BlankPlace ==
  ASSUME NEW buf \in Seq(AnyUnit)
  PROVE  /\ Blank(buf) \in 0..Len(buf)
         /\ Blank(buf) > 0 => IsBlank(buf, Blank(buf))
         /\ \A i \in 1..Len(buf) : Blank(buf) = 0 \/ i < Blank(buf) => ~IsBlank(buf, i)
<1> DEFINE S == {i \in DOMAIN buf : IsBlank(buf, i)}
<1>1. Blank(buf) = FirstOf(S)
  BY DEF Blank, IsBlank
<1>2. S \in SUBSET (1..Len(buf)) /\ Len(buf) \in Nat
  OBVIOUS
<1>3. /\ FirstOf(S) \in 0..Len(buf)
      /\ FirstOf(S) > 0 => FirstOf(S) \in S
      /\ \A i \in 1..Len(buf) : FirstOf(S) = 0 \/ i < FirstOf(S) => i \notin S
  BY <1>2, FirstPlace
<1>4. \A i \in 1..Len(buf) : i \in S <=> IsBlank(buf, i)
  OBVIOUS
<1> HIDE DEF S
<1>5. QED
  BY <1>1, <1>2, <1>3, <1>4

\* So it is with the end of a line.
LEMMA LineEndPlace ==
  ASSUME NEW buf \in Seq(AnyUnit)
  PROVE  /\ LineEnd(buf) \in 0..Len(buf)
         /\ LineEnd(buf) > 0 => buf[LineEnd(buf)].kind \in {"crlf", "blank"}
         /\ \A i \in 1..Len(buf) :
              LineEnd(buf) = 0 \/ i < LineEnd(buf) => buf[i].kind \notin {"crlf", "blank"}
<1> DEFINE S == {i \in DOMAIN buf : buf[i].kind \in {"crlf", "blank"}}
<1>1. LineEnd(buf) = FirstOf(S)
  BY DEF LineEnd
<1>2. S \in SUBSET (1..Len(buf)) /\ Len(buf) \in Nat
  OBVIOUS
<1>3. /\ FirstOf(S) \in 0..Len(buf)
      /\ FirstOf(S) > 0 => FirstOf(S) \in S
      /\ \A i \in 1..Len(buf) : FirstOf(S) = 0 \/ i < FirstOf(S) => i \notin S
  BY <1>2, FirstPlace
<1>4. \A i \in 1..Len(buf) : i \in S <=> buf[i].kind \in {"crlf", "blank"}
  OBVIOUS
<1> HIDE DEF S
<1>5. QED
  BY <1>1, <1>2, <1>3, <1>4

\* A part of a sequence has its elements.
LEMMA PartOf ==
  ASSUME NEW S, NEW s \in Seq(S), NEW i \in 0..Len(s), NEW j \in i..Len(s)
  PROVE  /\ SubSeq(s, i + 1, j) \in Seq(S) /\ Len(SubSeq(s, i + 1, j)) = j - i
         /\ \A n \in 1..(j - i) : SubSeq(s, i + 1, j)[n] = s[i + n]
<1>1. i \in Nat /\ j \in Nat /\ i <= j /\ j <= Len(s) /\ Len(s) \in Nat
  OBVIOUS
<1>2. \A n \in (i + 1)..j : s[n] \in S
  BY <1>1
<1>3. /\ SubSeq(s, i + 1, j) \in Seq(S)
      /\ Len(SubSeq(s, i + 1, j)) = IF i + 1 <= j THEN j - (i + 1) + 1 ELSE 0
      /\ \A n \in 1..(j - (i + 1) + 1) : SubSeq(s, i + 1, j)[n] = s[i + 1 + n - 1]
  BY <1>1, <1>2, SubSeqProperties
<1>4. j - (i + 1) + 1 = j - i /\ \A n \in 1..(j - i) : i + 1 + n - 1 = i + n
  BY <1>1
<1>5. (IF i + 1 <= j THEN j - (i + 1) + 1 ELSE 0) = j - i
  BY <1>1
<1>6. QED
  BY <1>3, <1>4, <1>5

\* Two sequences, one behind the other.
LEMMA JoinedFacts ==
  ASSUME NEW S, NEW s \in Seq(S), NEW t \in Seq(S)
  PROVE  /\ s \o t \in Seq(S) /\ Len(s \o t) = Len(s) + Len(t)
         /\ \A i \in 1..(Len(s) + Len(t)) :
              (s \o t)[i] = IF i <= Len(s) THEN s[i] ELSE t[i - Len(s)]
OBVIOUS

LEMMA JoinedUnits ==
  ASSUME NEW s \in Seq(AnyUnit), NEW t \in Seq(AnyUnit)
  PROVE  /\ s \o t \in Seq(AnyUnit) /\ Len(s \o t) = Len(s) + Len(t)
         /\ \A i \in 1..(Len(s) + Len(t)) :
              (s \o t)[i] = IF i <= Len(s) THEN s[i] ELSE t[i - Len(s)]
BY JoinedFacts

\* What is left of a distance.
LEMMA Distances ==
  ASSUME NEW a \in Nat, NEW b \in Nat, NEW c \in Nat
  PROVE  /\ a + b \in Nat /\ a + b - a = b /\ a + b - b = a
         /\ a + b + c - (b + c) = a
OBVIOUS

LEMMA FarEnough ==
  ASSUME NEW a \in Nat, NEW b \in Nat, NEW c \in Nat, NEW d \in Nat, NEW e \in Nat
  PROVE  /\ b <= c /\ a + c + 1 + d + 1 <= e => a + b < e
         /\ b < c + 1 /\ a + c + 1 <= e => a + b < e
OBVIOUS

LEMMA Behind ==
  ASSUME NEW a \in Nat, NEW b \in Nat, NEW c \in Nat, b <= c
  PROVE  /\ (a + c) - (c - b) = a + b
         /\ c - b <= a + c
OBVIOUS

\* What arrives goes behind what is buffered of the stream.
LEMMA HoldsMore ==
  ASSUME TypeOK, NEW buf \in Seq(AnyUnit), NEW at \in Nat, Holds(buf, at),
         at + Len(buf) = pos, NEW k \in Nat, pos + k <= Len(stream)
  PROVE  /\ Incoming(k) \in Seq(AnyUnit) /\ Len(Incoming(k)) = k
         /\ buf \o Incoming(k) \in Seq(AnyUnit) /\ Len(buf \o Incoming(k)) = Len(buf) + k
         /\ Holds(buf \o Incoming(k), at)
<1>1. stream \in Seq(AnyUnit) /\ pos \in Nat /\ Len(stream) \in Nat
  BY DEF TypeOK, IsStream
<1>2. /\ Incoming(k) \in Seq(AnyUnit) /\ Len(Incoming(k)) = k
      /\ \A i \in 1..k : Incoming(k)[i] = stream[pos + i]
  <2>1. pos \in 0..Len(stream) /\ pos + k \in pos..Len(stream)
    BY <1>1
  <2>2. /\ SubSeq(stream, pos + 1, pos + k) \in Seq(AnyUnit)
        /\ Len(SubSeq(stream, pos + 1, pos + k)) = pos + k - pos
        /\ \A i \in 1..(pos + k - pos) : SubSeq(stream, pos + 1, pos + k)[i] = stream[pos + i]
    BY <1>1, <2>1, PartOf
  <2>3. pos + k - pos = k
    BY <1>1, Distances
  <2>4. QED
    BY <2>2, <2>3 DEF Incoming
<1>3. /\ buf \o Incoming(k) \in Seq(AnyUnit) /\ Len(buf \o Incoming(k)) = Len(buf) + k
      /\ \A i \in 1..(Len(buf) + k) :
           (buf \o Incoming(k))[i] = IF i <= Len(buf) THEN buf[i] ELSE Incoming(k)[i - Len(buf)]
  <2>1. PICK t \in Seq(AnyUnit) : t = Incoming(k) /\ Len(t) = k
    BY <1>2
  <2>2. QED
    BY <2>1, JoinedUnits
<1>4. ASSUME NEW i \in 1..(Len(buf) + k)
      PROVE  (buf \o Incoming(k))[i] = stream[at + i]
  <2>1. CASE i <= Len(buf)
    <3>1. (buf \o Incoming(k))[i] = buf[i] /\ i \in DOMAIN buf
      BY <1>3, <2>1
    <3>2. QED
      BY <3>1 DEF Holds
  <2>2. CASE i > Len(buf)
    <3>1. i - Len(buf) \in 1..k /\ pos + (i - Len(buf)) = at + i
      BY <1>1, <2>2
    <3>2. (buf \o Incoming(k))[i] = Incoming(k)[i - Len(buf)]
      BY <1>3, <2>2
    <3>3. Incoming(k)[i - Len(buf)] = stream[pos + (i - Len(buf))]
      BY <1>2, <3>1
    <3>4. QED
      BY <3>1, <3>2, <3>3
  <2>3. i <= Len(buf) \/ i > Len(buf)
    BY <1>3
  <2>4. QED
    BY <2>1, <2>2, <2>3
<1>5. at + (Len(buf) + k) <= Len(stream) /\ DOMAIN (buf \o Incoming(k)) = 1..(Len(buf) + k)
  BY <1>1, <1>3
<1>6. QED
  BY <1>2, <1>3, <1>4, <1>5 DEF Holds

\* A part of what is buffered is buffered of a later place in the stream.
LEMMA HoldsPart ==
  ASSUME NEW buf \in Seq(AnyUnit), NEW at \in Nat, Holds(buf, at), Len(stream) \in Nat,
         NEW i \in 0..Len(buf), NEW j \in i..Len(buf)
  PROVE  /\ SubSeq(buf, i + 1, j) \in Seq(AnyUnit) /\ Len(SubSeq(buf, i + 1, j)) = j - i
         /\ Holds(SubSeq(buf, i + 1, j), at + i)
<1>1. /\ SubSeq(buf, i + 1, j) \in Seq(AnyUnit) /\ Len(SubSeq(buf, i + 1, j)) = j - i
      /\ \A n \in 1..(j - i) : SubSeq(buf, i + 1, j)[n] = buf[i + n]
  BY PartOf
<1>2. \A n \in 1..(j - i) : buf[i + n] = stream[at + i + n]
  <2> TAKE n \in 1..(j - i)
  <2>1. i + n \in 1..Len(buf) /\ at + (i + n) = at + i + n
    OBVIOUS
  <2>2. QED
    BY <2>1 DEF Holds
<1>3. at + i + (j - i) <= Len(stream)
  BY DEF Holds
<1>4. DOMAIN SubSeq(buf, i + 1, j) = 1..(j - i)
  BY <1>1
<1>5. QED
  BY <1>1, <1>2, <1>3, <1>4 DEF Holds

-----------------------------------------------------------------------------
(* Messages in the stream.                                                 *)

LEMMA StreamFacts ==
  ASSUME TypeOK
  PROVE  /\ stream \in Seq(AnyUnit) /\ Len(stream) \in Nat
         /\ sent \in Seq(AnyMessage) /\ Len(sent) \in Nat
         /\ pos \in Nat /\ pos <= Len(stream)
         /\ Start(1) = 0
         /\ \A m \in DOMAIN sent :
              /\ sent[m] \in AnyMessage /\ IsMessage(stream, m, sent[m])
              /\ sent[m].end <= Len(stream)
              /\ Start(m) = sent[m].at /\ Start(m + 1) = sent[m].end
         /\ \A m, n \in DOMAIN sent : m < n => sent[m].end <= sent[n].at
         /\ Start(Len(sent) + 1) = Len(stream)
<1> DEFINE s == [units |-> stream, sent |-> sent]
<1>1. IsStream(s) /\ pos \in 0..Len(stream)
  BY DEF TypeOK
<1>2. s.units = stream /\ s.sent = sent
  OBVIOUS
<1> HIDE DEF s
<1>3. stream \in Seq(AnyUnit) /\ sent \in Seq(AnyMessage)
  BY <1>1, <1>2 DEF IsStream
<1>4. \A m : StartOf(s, m) = Start(m)
  BY DEF Start, s
<1>5. \A m : Start(m) = IF m <= Len(sent) THEN sent[m].at ELSE Len(stream)
  BY <1>2, <1>4 DEF StartOf
<1>6. Start(1) = 0
  BY <1>1, <1>4 DEF IsStream
<1>7. \A m \in DOMAIN sent :
        /\ IsMessage(stream, m, sent[m])
        /\ sent[m].end = Start(m + 1) /\ sent[m].end <= Len(stream)
        /\ \A n \in DOMAIN sent : m < n => sent[m].end <= sent[n].at
  BY <1>1, <1>2, <1>4, Zenon DEF IsStream
<1>8. \A m \in DOMAIN sent : sent[m] \in AnyMessage /\ Start(m) = sent[m].at
  BY <1>3, <1>5
<1>9. Len(stream) \in Nat /\ Len(sent) \in Nat
  BY <1>3
<1>10. ~(Len(sent) + 1 <= Len(sent))
  BY <1>9
<1>11. QED
  BY <1>1, <1>3, <1>5, <1>6, <1>7, <1>8, <1>9, <1>10

\* The fields of a message, and how they lie in the stream.
LEMMA MessageFacts ==
  ASSUME TypeOK, NEW m \in DOMAIN sent
  PROVE  /\ m \in Nat /\ m >= 1 /\ m <= Len(sent)
         /\ sent[m].at \in Nat /\ sent[m].head \in Nat /\ sent[m].head > 0
         /\ sent[m].body \in Nat /\ sent[m].end \in Nat
         /\ sent[m].length \in Nat \cup {NoLength} /\ sent[m].chunks \in Seq(AnyChunk)
         /\ BodyAt(sent[m]) = sent[m].at + sent[m].head
         /\ BodyAt(sent[m]) <= sent[m].end /\ sent[m].end <= Len(stream)
         /\ \A i \in 1..(sent[m].head - 1) : stream[sent[m].at + i] = Unit(m, "text", i)
         /\ stream[BodyAt(sent[m])] = Unit(m, "blank", sent[m].length)
<1>1. /\ sent[m] \in AnyMessage /\ IsMessage(stream, m, sent[m]) /\ sent[m].end <= Len(stream)
      /\ sent \in Seq(AnyMessage)
  BY StreamFacts
<1>2. /\ sent[m].at \in Nat /\ sent[m].head \in Nat /\ sent[m].body \in Nat /\ sent[m].end \in Nat
      /\ sent[m].length \in Nat \cup {NoLength} /\ sent[m].chunks \in Seq(AnyChunk)
  BY <1>1 DEF AnyMessage
<1>3. BodyAt(sent[m]) <= sent[m].end
  <2>1. CASE sent[m].chunks = <<>>
    BY <1>1, <1>2, <2>1 DEF IsMessage, IsPlain, BodyAt
  <2>2. CASE sent[m].chunks # <<>>
    <3>1. AreChunks(stream, m, sent[m]) /\ 1 \in DOMAIN sent[m].chunks
      BY <1>1, <1>2, <2>2 DEF IsMessage
    <3>2. PICK c \in AnyChunk : c = sent[m].chunks[1] /\ c.at = BodyAt(sent[m]) /\ ChunkEnd(c) <= sent[m].end
      BY <1>2, <3>1 DEF AreChunks
    <3>3. /\ c.at \in Nat /\ c.digits \in Nat /\ c.size \in Nat
          /\ ChunkEnd(c) = c.at + c.digits + 1 + c.size + 1
      BY DEF AnyChunk, ChunkEnd, DataAt
    <3>4. c.at <= ChunkEnd(c) /\ ChunkEnd(c) \in Nat
      BY <3>3
    <3>5. QED
      BY <1>2, <3>2, <3>3, <3>4
  <2>3. QED
    BY <2>1, <2>2
<1>4. m \in 1..Len(sent) /\ Len(sent) \in Nat
  BY <1>1
<1>5. QED
  BY <1>1, <1>2, <1>3, <1>4 DEF IsMessage, BodyAt

\* The body of a message that does not come in chunks.
LEMMA PlainFacts ==
  ASSUME TypeOK, NEW m \in DOMAIN sent, sent[m].chunks = <<>>
  PROVE  /\ sent[m].length = sent[m].body \/ (sent[m].length = NoLength /\ sent[m].body = 0)
         /\ \A i \in 1..sent[m].body : stream[BodyAt(sent[m]) + i] = Unit(m, "data", i)
         /\ sent[m].end = BodyAt(sent[m]) + sent[m].body
BY StreamFacts DEF IsMessage, IsPlain

\* A chunk of a message, and how it lies in the stream.
LEMMA ChunkFacts ==
  ASSUME TypeOK, NEW m \in DOMAIN sent, NEW c \in DOMAIN sent[m].chunks
  PROVE  LET chunk == sent[m].chunks[c] IN
         /\ chunk.at \in Nat /\ chunk.digits \in Nat
         /\ chunk.size \in Nat /\ chunk.from \in Nat
         /\ DataAt(chunk) = chunk.at + chunk.digits + 1 /\ DataAt(chunk) \in Nat
         /\ ChunkEnd(chunk) = DataAt(chunk) + chunk.size + 1
         /\ ChunkEnd(chunk) <= sent[m].end
         /\ IsChunk(stream, m, chunk)
         /\ chunk.size = 0 => /\ chunk.from = sent[m].body /\ ChunkEnd(chunk) = sent[m].end
         /\ chunk.size > 0 => /\ c + 1 \in DOMAIN sent[m].chunks
                              /\ sent[m].chunks[c + 1].at = ChunkEnd(chunk)
                              /\ sent[m].chunks[c + 1].from = chunk.from + chunk.size
<1> DEFINE chunks == sent[m].chunks
<1>1. IsMessage(stream, m, sent[m]) /\ chunks \in Seq(AnyChunk)
  BY StreamFacts, MessageFacts
<1>2. chunks # <<>> /\ c \in Nat /\ c >= 1 /\ c <= Len(chunks) /\ Len(chunks) \in Nat
  BY <1>1
<1>3. AreChunks(stream, m, sent[m])
  BY <1>1, <1>2 DEF IsMessage
<1>4. /\ IsChunk(stream, m, chunks[c])
      /\ chunks[c].size = 0 <=> c = Len(chunks)
      /\ ChunkEnd(chunks[c]) <= sent[m].end
      /\ c < Len(chunks) => /\ chunks[c + 1].at = ChunkEnd(chunks[c])
                            /\ chunks[c + 1].from = chunks[c].from + chunks[c].size
      /\ chunks[Len(chunks)].from = sent[m].body /\ ChunkEnd(chunks[Len(chunks)]) = sent[m].end
  BY <1>3 DEF AreChunks
<1>5. PICK k \in AnyChunk : k = chunks[c]
  BY <1>1
<1> HIDE DEF chunks
<1>6. /\ k.at \in Nat /\ k.digits \in Nat /\ k.size \in Nat /\ k.from \in Nat
      /\ DataAt(k) = k.at + k.digits + 1 /\ ChunkEnd(k) = DataAt(k) + k.size + 1
  BY <1>4, <1>5 DEF IsChunk, AnyChunk, DataAt, ChunkEnd
<1>7. k.size > 0 => c < Len(chunks) /\ c + 1 \in 1..Len(chunks)
  BY <1>2, <1>4, <1>5, <1>6
<1>8. DOMAIN chunks = 1..Len(chunks)
  BY <1>1 DEF chunks
<1>9. DataAt(k) \in Nat
  <2>1. k.digits \in Nat /\ k.at \in Nat
    BY <1>6
  <2>2. QED
    BY <1>6, <2>1
<1>10. QED
  BY <1>4, <1>5, <1>6, <1>7, <1>8, <1>9 DEF chunks

\* In a buffer that begins where a message begins, the end of the head of
\* that message is found if it is there, and nothing else is.
LEMMA HeadFound ==
  ASSUME TypeOK, NEW m \in DOMAIN sent, NEW buf \in Seq(AnyUnit), Holds(buf, sent[m].at)
  PROVE  /\ sent[m].head <= Len(buf) =>
              /\ Blank(buf) = sent[m].head
              /\ buf[Blank(buf)] = Unit(m, "blank", sent[m].length)
              /\ \A i \in 1..(Blank(buf) - 1) : buf[i].kind = "text"
         /\ sent[m].head > Len(buf) => Blank(buf) = 0
<1> DEFINE head == sent[m].head
<1>1. /\ head \in Nat /\ head > 0 /\ sent[m].at \in Nat /\ Len(buf) \in Nat
      /\ \A i \in 1..(head - 1) : stream[sent[m].at + i] = Unit(m, "text", i)
      /\ stream[sent[m].at + head] = Unit(m, "blank", sent[m].length)
  BY MessageFacts
<1>2. /\ Blank(buf) \in 0..Len(buf)
      /\ Blank(buf) > 0 => IsBlank(buf, Blank(buf))
      /\ \A i \in 1..Len(buf) : Blank(buf) = 0 \/ i < Blank(buf) => ~IsBlank(buf, i)
  BY BlankPlace
<1>3. \A i \in 1..Len(buf) : buf[i] = stream[sent[m].at + i]
  BY DEF Holds
<1> HIDE DEF head
<1>4. ASSUME NEW i \in 1..Len(buf), i < head
      PROVE  buf[i].kind = "text" /\ ~IsBlank(buf, i)
  <2>1. buf[i] = Unit(m, "text", i)
    BY <1>1, <1>3, <1>4
  <2>2. buf[i].kind = "text"
    BY <2>1 DEF Unit
  <2>3. QED
    BY <2>2 DEF IsBlank
<1>5. CASE head > Len(buf)
  <2>1. ~(Blank(buf) > 0)
    BY <1>1, <1>2, <1>4, <1>5
  <2>2. QED
    BY <1>1, <1>2, <1>5, <2>1 DEF head
<1>6. CASE head <= Len(buf)
  <2>1. head \in 1..Len(buf) /\ buf[head] = Unit(m, "blank", sent[m].length)
    BY <1>1, <1>3, <1>6
  <2>2. IsBlank(buf, head)
    BY <2>1 DEF IsBlank, Unit
  <2>3. Blank(buf) # 0 /\ ~(head < Blank(buf))
    BY <1>2, <2>1, <2>2
  <2>4. ~(Blank(buf) < head)
    BY <1>1, <1>2, <1>4, <2>3
  <2>5. Blank(buf) = head
    BY <1>1, <1>2, <2>3, <2>4
  <2>6. \A i \in 1..(head - 1) : buf[i].kind = "text"
    <3>1. \A i \in 1..(head - 1) : i \in 1..Len(buf) /\ i < head
      BY <1>1, <1>6
    <3>2. QED
      BY <1>4, <3>1
  <2>7. QED
    BY <1>1, <1>6, <2>1, <2>5, <2>6 DEF head
<1>7. QED
  BY <1>1, <1>5, <1>6

\* Behind the last message nothing arrives.
LEMMA NothingFound ==
  ASSUME TypeOK, Turn \notin DOMAIN sent, Len(got) \in Nat, Len(got) <= Len(sent),
         NEW buf \in Seq(AnyUnit), Holds(buf, Start(Turn))
  PROVE  Len(buf) = 0 /\ Blank(buf) = 0
<1>1. Len(sent) \in Nat /\ Len(stream) \in Nat /\ Start(Len(sent) + 1) = Len(stream) /\ DOMAIN sent = 1..Len(sent)
  BY StreamFacts
<1>2. Turn = Len(sent) + 1
  BY <1>1 DEF Turn
<1>3. Len(buf) = 0
  BY <1>1, <1>2 DEF Holds
<1>4. Blank(buf) \in 0..Len(buf)
  BY BlankPlace
<1>5. QED
  BY <1>3, <1>4

\* If the message that is read has not arrived to its end when p units have
\* been read, then none has that was not returned.
LEMMA Pending ==
  ASSUME TypeOK, Len(got) <= Len(sent), NEW p \in Nat,
         Turn \in DOMAIN sent => p < sent[Turn].end
  PROVE  \A m \in DOMAIN sent : sent[m].end <= p => m <= Len(got)
<1>1. /\ Len(sent) \in Nat /\ DOMAIN sent = 1..Len(sent)
      /\ \A m, n \in DOMAIN sent : m < n => sent[m].end <= sent[n].at
  BY StreamFacts
<1>2. Len(got) \in Nat
  BY DEF TypeOK
<1>3. ASSUME NEW m \in DOMAIN sent, sent[m].end <= p, m > Len(got)
      PROVE  FALSE
  <2>1. m \in Nat /\ sent[m].at \in Nat /\ sent[m].end \in Nat /\ sent[m].at <= sent[m].end
    BY MessageFacts
  <2>2. Turn \in DOMAIN sent /\ Turn <= m
    BY <1>1, <1>2, <1>3, <2>1 DEF Turn
  <2>3. sent[Turn].end \in Nat /\ Turn \in Nat
    BY <2>2, MessageFacts
  <2>4. CASE Turn = m
    BY <1>1, <1>3, <2>1, <2>2, <2>4
  <2>5. CASE Turn < m
    <3>1. sent[Turn].end <= sent[m].at
      BY <1>1, <2>2, <2>5
    <3>2. QED
      BY <1>1, <1>3, <2>1, <2>2, <2>3, <3>1
  <2>6. QED
    BY <2>1, <2>2, <2>3, <2>4, <2>5
<1>4. \A m \in DOMAIN sent : m \in Nat
  BY <1>1
<1>5. QED
  BY <1>2, <1>3, <1>4

\* A buffer that begins where the next message begins, p units of the stream
\* having been read.
LEMMA FrontFound ==
  ASSUME TypeOK, GotOK, NEW buf \in Seq(AnyUnit), NEW p \in Nat,
         p - Len(buf) = Start(Turn), Holds(buf, Start(Turn))
  PROVE  /\ Turn \in DOMAIN sent =>
              /\ Holds(buf, sent[Turn].at) /\ p = sent[Turn].at + Len(buf)
              /\ Blank(buf) = 0 => Len(buf) < sent[Turn].head
              /\ Blank(buf) > 0 => /\ Blank(buf) = sent[Turn].head /\ sent[Turn].head <= Len(buf)
                                   /\ buf[Blank(buf)] = Unit(Turn, "blank", sent[Turn].length)
                                   /\ \A i \in 1..(Blank(buf) - 1) : buf[i].kind = "text"
         /\ Turn \notin DOMAIN sent => Len(buf) = 0 /\ Blank(buf) = 0
<1>1. Len(got) \in Nat /\ Len(got) <= Len(sent)
  BY DEF TypeOK, GotOK
<1>2. CASE Turn \notin DOMAIN sent
  BY <1>1, <1>2, NothingFound
<1>3. CASE Turn \in DOMAIN sent
  <2>1. Start(Turn) = sent[Turn].at
    BY <1>3, StreamFacts
  <2>2. /\ sent[Turn].head <= Len(buf) =>
             /\ Blank(buf) = sent[Turn].head
             /\ buf[Blank(buf)] = Unit(Turn, "blank", sent[Turn].length)
             /\ \A i \in 1..(Blank(buf) - 1) : buf[i].kind = "text"
        /\ sent[Turn].head > Len(buf) => Blank(buf) = 0
    BY <1>3, <2>1, HeadFound
  <2>3. sent[Turn].head \in Nat /\ sent[Turn].head > 0 /\ sent[Turn].at \in Nat /\ Len(buf) \in Nat
    BY <1>3, MessageFacts
  <2>4. p = sent[Turn].at + Len(buf)
    BY <2>1, <2>3
  <2>5. Holds(buf, sent[Turn].at)
    BY <2>1
  <2>6. CASE sent[Turn].head <= Len(buf)
    BY <1>3, <2>2, <2>3, <2>4, <2>5, <2>6
  <2>7. CASE sent[Turn].head > Len(buf)
    BY <1>3, <2>2, <2>3, <2>4, <2>5, <2>7
  <2>8. QED
    BY <2>3, <2>6, <2>7
<1>4. QED
  BY <1>2, <1>3

LEMMA BodyType ==
  ASSUME NEW m \in Nat, NEW k \in Nat
  PROVE  Body(m, k) \in Seq(AnyUnit) /\ Len(Body(m, k)) = k
<1>1. \A i \in 1..k : i \in Nat
  OBVIOUS
<1>2. \A i \in 1..k : Unit(m, "data", i) \in AnyUnit
  BY <1>1 DEF Unit, AnyUnit
<1>3. Body(m, k) \in [1..k -> AnyUnit]
  BY <1>2 DEF Body
<1>4. QED
  BY <1>3

\* The body of a message, read from its place in the stream.
LEMMA BodyRead ==
  ASSUME TypeOK, NEW m \in DOMAIN sent, sent[m].chunks = <<>>, NEW data \in Seq(AnyUnit),
         Holds(data, BodyAt(sent[m])), Len(data) = sent[m].body
  PROVE  data = Body(m, sent[m].body)
<1>1. \A i \in 1..sent[m].body : stream[BodyAt(sent[m]) + i] = Unit(m, "data", i)
  BY PlainFacts
<1>2. \A i \in 1..sent[m].body : data[i] = Unit(m, "data", i)
  BY <1>1 DEF Holds
<1>3. data = [i \in 1..sent[m].body |-> data[i]]
  OBVIOUS
<1>4. QED
  BY <1>2, <1>3 DEF Body

\* A request, read from its place in the stream.
LEMMA RequestRead ==
  ASSUME TypeOK, NEW m \in DOMAIN sent, sent[m].chunks = <<>>, NEW req \in Seq(AnyUnit),
         Holds(req, sent[m].at), Len(req) = sent[m].head + sent[m].body
  PROVE  Request(req) = Message(m, Body(m, sent[m].body))
<1>1. /\ sent[m].head \in Nat /\ sent[m].body \in Nat /\ sent[m].at \in Nat
      /\ BodyAt(sent[m]) = sent[m].at + sent[m].head
  BY MessageFacts
<1>2. Blank(req) = sent[m].head /\ req[Blank(req)] = Unit(m, "blank", sent[m].length)
  BY <1>1, HeadFound
<1>3. PICK head \in 0..Len(req) : head = sent[m].head
  BY <1>1
<1>4. Len(stream) \in Nat /\ Len(req) \in head..Len(req)
  BY <1>1, <1>3, StreamFacts
<1>5. /\ SubSeq(req, head + 1, Len(req)) \in Seq(AnyUnit)
      /\ Len(SubSeq(req, head + 1, Len(req))) = Len(req) - head
      /\ Holds(SubSeq(req, head + 1, Len(req)), sent[m].at + head)
  BY <1>1, <1>4, HoldsPart
<1>6. Len(req) - head = sent[m].body /\ sent[m].at + head = BodyAt(sent[m])
  BY <1>1, <1>3
<1>7. SubSeq(req, head + 1, Len(req)) = Body(m, sent[m].body)
  BY <1>5, <1>6, BodyRead
<1>8. req[Blank(req)].m = m
  BY <1>2 DEF Unit
<1>9. QED
  BY <1>2, <1>3, <1>7, <1>8 DEF Request

-----------------------------------------------------------------------------
(* What the steps have in common.                                          *)

LEMMA TypeFrame ==
  ASSUME TypeOK, UNCHANGED <<side, clean, stream, sent>>,
         pos' \in Nat, pos' <= Len(stream),
         header_buffer' \in Seq(AnyUnit), Len(header_buffer') <= HeaderCap,
         state' \in AnyState, Len(state'.data) <= state'.cap,
         got' \in Seq([m : Nat, body : Seq(AnyUnit)]),
         outcome' \in {"runs", "chunks", "more", "none", "some", "error", "EOF", "panic"}
  PROVE  TypeOK'
<1>1. [units |-> stream, sent |-> sent]' = [units |-> stream, sent |-> sent]
  OBVIOUS
<1>2. IsStream([units |-> stream, sent |-> sent])
  BY DEF TypeOK
<1>3. IsStream([units |-> stream', sent |-> sent'])
  BY <1>2
<1>4. Len(stream') \in Nat /\ pos' \in 0..Len(stream')
  BY StreamFacts
<1>5. side' \in {"server", "client"} /\ clean' \in BOOLEAN
  BY DEF TypeOK
<1>6. QED
  BY <1>3, <1>4, <1>5 DEF TypeOK

LEMMA BodyState ==
  ASSUME NEW m \in Nat, NEW cap \in Nat, NEW data \in Seq(AnyUnit)
  PROVE  /\ ReadBody(m, cap, data) \in AnyState /\ ReadBody(m, cap, data).is = "ReadBody"
         /\ ReadBody(m, cap, data).m = m /\ ReadBody(m, cap, data).cap = cap
         /\ ReadBody(m, cap, data).data = data
BY DEF ReadBody, AnyState

LEMMA ChunkedState ==
  ASSUME NEW m \in Nat, NEW cap \in Nat, NEW before \in Seq(AnyUnit)
  PROVE  LET s == ReadChunkedBody(m, cap, before) IN
         /\ s \in AnyState /\ s.is = "ReadChunkedBody"
         /\ s.m = m /\ s.cap = cap /\ s.before = before /\ s.data = <<>>
BY DEF ReadChunkedBody, AnyState

LEMMA EmptyState == Empty \in AnyState /\ Empty.is = "Empty" /\ Empty.data = <<>> /\ Empty.cap = 0
BY DEF Empty, AnyState

LEMMA ReadFacts ==
  ASSUME TypeOK, NEW space \in Int, NEW k \in Readable(space)
  PROVE  /\ k \in Nat /\ 1 <= k /\ k <= space /\ pos + k <= Len(stream)
         /\ clean => CleanCut(pos + k)
BY DEF Readable

\* The messages that are there stay, whether or not there is one more.
LEMMA GotFrame ==
  ASSUME GotOK, UNCHANGED <<clean, sent, got>>
  PROVE  GotOK'
BY DEF GotOK, MessagesWhole

LEMMA GotMore ==
  ASSUME TypeOK, GotOK, clean, UNCHANGED <<clean, sent>>, Turn \in DOMAIN sent,
         Return(Message(Turn, Body(Turn, sent[Turn].body)))
  PROVE  /\ GotOK' /\ Len(got') = Len(got) + 1 /\ Turn' = Turn + 1
         /\ got' \in Seq([m : Nat, body : Seq(AnyUnit)])
<1>1. /\ Len(got) \in Nat /\ got \in Seq([m : Nat, body : Seq(AnyUnit)])
      /\ Turn \in Nat /\ Turn <= Len(sent)
  BY StreamFacts DEF TypeOK, Turn
<1>2. sent[Turn].body \in Nat
  BY MessageFacts
<1>3. Body(Turn, sent[Turn].body) \in Seq(AnyUnit)
  BY <1>1, <1>2, BodyType
<1>4. Message(Turn, Body(Turn, sent[Turn].body)) \in [m : Nat, body : Seq(AnyUnit)]
  BY <1>1, <1>3 DEF Message
<1>5. got' = Append(got, Message(Turn, Body(Turn, sent[Turn].body)))
  BY DEF Return
<1>6. /\ got' \in Seq([m : Nat, body : Seq(AnyUnit)]) /\ Len(got') = Len(got) + 1
      /\ \A i \in 1..Len(got) : got'[i] = got[i]
      /\ got'[Len(got) + 1] = Message(Turn, Body(Turn, sent[Turn].body))
  BY <1>1, <1>4, <1>5
<1>7. \A i \in 1..(Len(got) + 1) : i \in 1..Len(got) \/ i = Turn
  BY <1>1 DEF Turn
<1>8. \A i \in DOMAIN got : i \in DOMAIN sent /\ got[i] = Message(i, Body(i, sent[i].body))
  BY DEF GotOK, MessagesWhole
<1>9. \A i \in 1..(Len(got) + 1) :
        i \in DOMAIN sent /\ got'[i] = Message(i, Body(i, sent[i].body))
  <2> TAKE i \in 1..(Len(got) + 1)
  <2>1. CASE i \in 1..Len(got)
    <3>1. DOMAIN got = 1..Len(got)
      BY <1>1
    <3>2. i \in DOMAIN got
      BY <2>1, <3>1
    <3>3. got'[i] = got[i]
      BY <1>6, <2>1
    <3>4. QED
      BY <1>8, <3>2, <3>3
  <2>2. CASE i = Turn
    BY <1>6, <2>2 DEF Turn
  <2>3. QED
    BY <1>7, <2>1, <2>2
<1>10. MessagesWhole'
  BY <1>6, <1>9 DEF MessagesWhole
<1>11. Len(got') <= Len(sent') /\ Turn' = Turn + 1
  BY <1>1, <1>6 DEF Turn
<1>12. QED
  BY <1>6, <1>10, <1>11 DEF GotOK

\* A place where a segment may end stays one.
LEMMA CutFrame ==
  ASSUME TypeOK, NEW p, CleanCut(p), UNCHANGED sent, pos' = p,
         got' \in Seq([m : Nat, body : Seq(AnyUnit)]), Len(got') >= Len(got)
  PROVE  CleanCut(pos)'
<1>1. Len(got) \in Nat /\ Len(got') \in Nat /\ \A m \in DOMAIN sent : m \in Nat
  BY StreamFacts DEF TypeOK
<1>2. \A m \in DOMAIN sent : Len(got') < m => Len(got) < m
  BY <1>1
<1>3. QED
  BY <1>2 DEF CleanCut

\* Most of the invariant does not look at the outcome.
LEMMA OutcomeFrame ==
  ASSUME ReaderInv,
         UNCHANGED <<side, clean, stream, sent, pos, header_buffer, state, got>>,
         outcome' \in {"runs", "chunks", "more", "none", "some", "error", "EOF", "panic"},
         outcome' \in {"chunks", "more"} => state.is = "ReadChunkedBody",
         outcome = "panic" => outcome' = "panic",
         clean => NothingHeldBack' /\ OnlyBadRefused'
  PROVE  ReaderInv'
<1>1. TypeOK /\ SidesOK /\ (clean => CleanInv)
  BY DEF ReaderInv
<1>2. TypeOK'
  <2>1. Len(stream) \in Nat /\ pos \in Nat /\ pos <= Len(stream)
    BY <1>1, StreamFacts
  <2>2. /\ header_buffer \in Seq(AnyUnit) /\ Len(header_buffer) <= HeaderCap
        /\ state \in AnyState /\ Len(state.data) <= state.cap
        /\ got \in Seq([m : Nat, body : Seq(AnyUnit)])
    BY <1>1 DEF TypeOK
  <2>3. QED
    BY <1>1, <2>1, <2>2, TypeFrame
<1>3. SidesOK'
  BY <1>1 DEF SidesOK
<1>4. ASSUME clean
      PROVE  CleanInv'
  <2>1. CleanInv
    BY <1>1, <1>4
  <2>2. GotOK'
    BY <2>1, GotFrame DEF CleanInv
  <2>3. CleanCut(pos)'
    BY <2>1 DEF CleanInv, CleanCut
  <2>4. BufferOK'
    BY <2>1 DEF CleanInv, BufferOK, Holds, Base
  <2>5. EmptyOK'
    BY <2>1 DEF CleanInv, EmptyOK, Base, Start, StartOf, Turn
  <2>6. RequestOK'
    BY <2>1 DEF CleanInv, RequestOK, Turn, Holds
  <2>7. ResponseOK'
    BY <2>1 DEF CleanInv, ResponseOK, Turn, Holds
  <2>8. ChunkedOK'
    BY <2>1 DEF CleanInv, ChunkedOK, InChunk, Turn, Base
  <2>9. QED
    BY <1>4, <2>2, <2>3, <2>4, <2>5, <2>6, <2>7, <2>8 DEF CleanInv
<1>5. clean' = clean
  OBVIOUS
<1>6. QED
  BY <1>2, <1>3, <1>4, <1>5 DEF ReaderInv

LEMMA CallKept == ReaderInv /\ Call => ReaderInv'
<1> SUFFICES ASSUME ReaderInv, Call
             PROVE  ReaderInv'
  OBVIOUS
<1>1. outcome' = "runs"
  BY DEF Call
<1>2. NothingHeldBack' /\ OnlyBadRefused'
  BY <1>1 DEF NothingHeldBack, OnlyBadRefused
<1>3. QED
  BY <1>1, <1>2, OutcomeFrame DEF Call

-----------------------------------------------------------------------------
(* The steps of a server.                                                  *)

\* What a server finds in its buffer.
LEMMA ServerBuffer ==
  ASSUME ReaderInv, In("server", "Empty"), outcome # "panic"
  PROVE  /\ clean /\ CleanInv /\ TypeOK
         /\ header_buffer \in Seq(AnyUnit)
         /\ Turn \in DOMAIN sent =>
              /\ Holds(header_buffer, sent[Turn].at) /\ pos = sent[Turn].at + Len(header_buffer)
              /\ Blank(header_buffer) = 0 => Len(header_buffer) < sent[Turn].head
              /\ Blank(header_buffer) > 0 =>
                   /\ sent[Turn].head <= Len(header_buffer)
                   /\ RequestSize(header_buffer) = sent[Turn].head + sent[Turn].body
                   /\ header_buffer[Blank(header_buffer)].m = Turn
              /\ sent[Turn].chunks = <<>>
              /\ sent[Turn].end = sent[Turn].at + (sent[Turn].head + sent[Turn].body)
         /\ Turn \notin DOMAIN sent => Len(header_buffer) = 0 /\ Blank(header_buffer) = 0
<1>1. /\ clean /\ CleanInv /\ TypeOK /\ SidesOK
      /\ \A m \in DOMAIN sent : sent[m].length # NoLength
  BY DEF ReaderInv, SidesOK, In
<1>2. header_buffer \in Seq(AnyUnit) /\ pos \in Nat
  BY <1>1, StreamFacts DEF TypeOK
<1>3. GotOK /\ Holds(header_buffer, Start(Turn)) /\ pos - Len(header_buffer) = Start(Turn)
  BY <1>1 DEF CleanInv, BufferOK, EmptyOK, In, Base
<1>4. ASSUME Turn \in DOMAIN sent
      PROVE  /\ sent[Turn].chunks = <<>> /\ sent[Turn].length = sent[Turn].body
             /\ sent[Turn].end = sent[Turn].at + (sent[Turn].head + sent[Turn].body)
  <2>1. sent[Turn].length # NoLength
    BY <1>1, <1>4
  <2>2. sent[Turn].chunks = <<>>
    BY <1>1, <1>4, <2>1, StreamFacts DEF IsMessage, AreChunks
  <2>3. /\ sent[Turn].length = sent[Turn].body
        /\ sent[Turn].end = BodyAt(sent[Turn]) + sent[Turn].body
    BY <1>1, <1>4, <2>1, <2>2, PlainFacts
  <2>4. QED
    BY <1>1, <1>4, <2>2, <2>3, MessageFacts
<1>5. ASSUME Turn \in DOMAIN sent, Blank(header_buffer) > 0
      PROVE  /\ sent[Turn].head <= Len(header_buffer)
             /\ RequestSize(header_buffer) = sent[Turn].head + sent[Turn].body
             /\ header_buffer[Blank(header_buffer)].m = Turn
  <2>1. /\ Blank(header_buffer) = sent[Turn].head /\ sent[Turn].head <= Len(header_buffer)
        /\ header_buffer[Blank(header_buffer)] = Unit(Turn, "blank", sent[Turn].length)
    BY <1>1, <1>2, <1>3, <1>5, FrontFound
  <2>2. QED
    BY <1>4, <1>5, <2>1 DEF RequestSize, Unit
<1>6. Turn \in DOMAIN sent =>
        /\ Holds(header_buffer, sent[Turn].at) /\ pos = sent[Turn].at + Len(header_buffer)
        /\ Blank(header_buffer) = 0 => Len(header_buffer) < sent[Turn].head
  BY <1>1, <1>2, <1>3, FrontFound
<1>7. Turn \notin DOMAIN sent => Len(header_buffer) = 0 /\ Blank(header_buffer) = 0
  BY <1>1, <1>2, <1>3, FrontFound
<1>8. QED
  BY <1>1, <1>2, <1>4, <1>5, <1>6, <1>7

\* A call of a server's reader that needs bytes has left nothing behind.
LEMMA ServerWaits ==
  ASSUME ReaderInv, side = "server", outcome = "runs", NeedsBytes
  PROVE  \A m \in DOMAIN sent : sent[m].end <= pos => m <= Len(got)
<1>1. TypeOK /\ clean /\ CleanInv
  BY DEF ReaderInv, SidesOK
<1>2. Len(got) <= Len(sent) /\ pos \in Nat
  BY <1>1, StreamFacts DEF CleanInv, GotOK
<1>3. ASSUME Turn \in DOMAIN sent
      PROVE  pos < sent[Turn].end
  <2>0. sent[Turn].at \in Nat /\ sent[Turn].head \in Nat /\ sent[Turn].body \in Nat
    BY <1>1, <1>3, MessageFacts
  <2>1. CASE In("server", "ReadBody")
    <3>1. /\ pos = sent[Turn].at + Len(state.data) /\ Len(state.data) < state.cap
          /\ state.cap = sent[Turn].head + sent[Turn].body
      BY <1>1, <2>1 DEF CleanInv, RequestOK, In
    <3>2. sent[Turn].chunks = <<>>
      BY <1>1, <1>3, StreamFacts DEF IsMessage, AreChunks, ReaderInv, SidesOK
    <3>3. sent[Turn].end = sent[Turn].at + sent[Turn].head + sent[Turn].body
      BY <1>1, <1>3, <3>2, PlainFacts, MessageFacts
    <3>4. Len(state.data) \in Nat
      BY <1>1 DEF TypeOK, AnyState
    <3>5. QED
      BY <2>0, <3>1, <3>3, <3>4
  <2>2. CASE In("server", "Empty") /\ Blank(header_buffer) = 0
    <3>1. /\ pos = sent[Turn].at + Len(header_buffer) /\ Len(header_buffer) < sent[Turn].head
          /\ sent[Turn].end = sent[Turn].at + (sent[Turn].head + sent[Turn].body)
          /\ Len(header_buffer) \in Nat
      BY <1>3, <2>2, ServerBuffer
    <3>2. QED
      BY <2>0, <3>1
  <2>3. QED
    BY <2>1, <2>2 DEF NeedsBytes
<1>4. QED
  BY <1>1, <1>2, <1>3, Pending

LEMMA ServerStopsKept == ReaderInv /\ (TooLarge \/ RequestBlocks \/ RequestEOF) => ReaderInv'
<1> SUFFICES ASSUME ReaderInv, TooLarge \/ RequestBlocks \/ RequestEOF
             PROVE  ReaderInv'
  OBVIOUS
<1>1. CASE TooLarge
  <2>1. /\ In("server", "Empty") /\ outcome = "runs" /\ outcome' = "error"
        /\ UNCHANGED <<side, clean, stream, sent, pos, header_buffer, state, got>>
    BY <1>1 DEF TooLarge, Reading, End
  <2>2. CleanInv /\ TypeOK /\ header_buffer \in Seq(AnyUnit) /\ side = "server"
    BY <2>1, ServerBuffer DEF In
  <2>3. HeaderCap \in Nat /\ HeaderCap > 0
    BY ReaderAssumption
  <2>4. Turn \in DOMAIN sent
    <3>1. SUFFICES ASSUME Turn \notin DOMAIN sent
                   PROVE  FALSE
      OBVIOUS
    <3>2. Len(header_buffer) = 0 /\ Blank(header_buffer) = 0
      BY <2>1, <3>1, ServerBuffer
    <3>3. Room = 0
      BY <1>1, <3>2 DEF TooLarge
    <3>4. QED
      BY <2>3, <3>2, <3>3 DEF Room
  <2>5. sent[Turn].head > HeaderCap \/ sent[Turn].head + sent[Turn].body > MaxBody
    <3>1. CASE Blank(header_buffer) > 0
      BY <1>1, <2>1, <2>4, <3>1, ServerBuffer DEF TooLarge, TooLong
    <3>2. CASE ~(Blank(header_buffer) > 0)
      <4>1. Blank(header_buffer) = 0
        BY <2>2, <3>2, BlankPlace
      <4>2. Len(header_buffer) < sent[Turn].head /\ Len(header_buffer) \in Nat
        BY <2>1, <2>4, <4>1, ServerBuffer
      <4>3. Room = 0
        BY <1>1, <3>2 DEF TooLarge
      <4>4. sent[Turn].head \in Nat
        BY <2>2, <2>4, MessageFacts
      <4>5. QED
        BY <2>3, <4>2, <4>3, <4>4 DEF Room
    <3>3. QED
      BY <3>1, <3>2
  <2>6. Len(got) \in Nat /\ Len(sent) \in Nat /\ DOMAIN sent = 1..Len(sent)
    BY <2>2, StreamFacts DEF TypeOK
  <2>7. Len(got) < Len(sent)
    BY <2>4, <2>6 DEF Turn
  <2>8. OnlyBadRefused'
    BY <2>1, <2>2, <2>5, <2>7 DEF OnlyBadRefused, Turn
  <2>9. NothingHeldBack'
    BY <2>1 DEF NothingHeldBack
  <2>10. QED
    BY <2>1, <2>8, <2>9, OutcomeFrame
<1>2. CASE RequestBlocks \/ RequestEOF
  <2>1. /\ outcome = "runs" /\ NeedsBytes /\ outcome' \in {"none", "EOF"}
        /\ UNCHANGED <<side, clean, stream, sent, pos, header_buffer, state, got>>
    BY <1>2 DEF RequestBlocks, RequestEOF, End
  <2>2. side = "server"
    BY <2>1 DEF NeedsBytes, In
  <2>3. \A m \in DOMAIN sent : sent[m].end <= pos => m <= Len(got)
    BY <2>1, <2>2, ServerWaits
  <2>4. NothingHeldBack'
    BY <2>1, <2>3 DEF NothingHeldBack
  <2>5. OnlyBadRefused'
    BY <2>1 DEF OnlyBadRefused
  <2>6. QED
    BY <2>1, <2>4, <2>5, OutcomeFrame
<1>3. QED
  BY <1>1, <1>2

\* The request is whole in the buffer; what follows it stays there.
LEMMA TakeRequestKept == ReaderInv /\ TakeRequest => ReaderInv'
<1> SUFFICES ASSUME ReaderInv, TakeRequest
             PROVE  ReaderInv'
  OBVIOUS
<1> DEFINE buf == header_buffer
           size == RequestSize(buf)
           msg == sent[Turn]
<1>1. /\ In("server", "Empty") /\ outcome = "runs" /\ Blank(buf) > 0 /\ size <= Len(buf)
      /\ Return(Request(SubSeq(buf, 1, size))) /\ header_buffer' = SubSeq(buf, size + 1, Len(buf))
      /\ UNCHANGED <<side, clean, stream, sent, pos, state>>
  BY DEF TakeRequest, Reading, AfterRequest
<1>2. clean /\ CleanInv /\ TypeOK /\ buf \in Seq(AnyUnit) /\ side = "server" /\ state.is = "Empty"
  BY <1>1, ServerBuffer DEF In
<1>3. Turn \in DOMAIN sent
  BY <1>1, ServerBuffer
<1>4. /\ Holds(buf, msg.at) /\ pos = msg.at + Len(buf) /\ size = msg.head + msg.body
      /\ msg.chunks = <<>> /\ msg.end = msg.at + size
  BY <1>1, <1>3, ServerBuffer
<1>5. /\ msg.at \in Nat /\ msg.head \in Nat /\ msg.body \in Nat /\ msg.end \in Nat /\ Len(buf) \in Nat
      /\ pos \in Nat /\ Len(stream) \in Nat /\ pos <= Len(stream) /\ Len(got) \in Nat
  BY <1>2, <1>3, MessageFacts, StreamFacts DEF TypeOK
<1> HIDE DEF size, msg, buf
<1>6. size \in 0..Len(buf) /\ size \in Nat /\ Len(buf) \in size..Len(buf) /\ 0 \in 0..Len(buf)
  <2>1. size <= Len(buf)
    BY <1>1
  <2>2. size \in Nat
    <3>1. size = msg.head + msg.body /\ msg.head \in Nat /\ msg.body \in Nat
      BY <1>4, <1>5
    <3>2. QED
      BY <3>1
  <2>3. QED
    BY <1>5, <2>1, <2>2
<1>7. /\ SubSeq(buf, 1, size) \in Seq(AnyUnit) /\ Len(SubSeq(buf, 1, size)) = size
      /\ Holds(SubSeq(buf, 1, size), msg.at)
  <2>1. /\ SubSeq(buf, 0 + 1, size) \in Seq(AnyUnit) /\ Len(SubSeq(buf, 0 + 1, size)) = size - 0
        /\ Holds(SubSeq(buf, 0 + 1, size), msg.at + 0)
    BY <1>2, <1>4, <1>5, <1>6, HoldsPart
  <2>2. 0 + 1 = 1 /\ size - 0 = size /\ msg.at + 0 = msg.at
    BY <1>5, <1>6
  <2>3. QED
    BY <2>1, <2>2
<1>8. Request(SubSeq(buf, 1, size)) = Message(Turn, Body(Turn, sent[Turn].body))
  BY <1>2, <1>3, <1>4, <1>7, RequestRead DEF msg
<1>9. /\ header_buffer' \in Seq(AnyUnit) /\ Len(header_buffer') = Len(buf) - size
      /\ Holds(header_buffer', msg.at + size)
  BY <1>1, <1>2, <1>4, <1>5, <1>6, HoldsPart
<1>10. GotOK /\ CleanCut(pos)
  BY <1>2 DEF CleanInv
<1>11. /\ GotOK' /\ Len(got') = Len(got) + 1 /\ Turn' = Turn + 1
       /\ got' \in Seq([m : Nat, body : Seq(AnyUnit)])
  BY <1>1, <1>2, <1>3, <1>8, <1>10, GotMore
<1>12. outcome' = "some"
  BY <1>1 DEF Return
<1>13. TypeOK'
  <2>1. Len(header_buffer') <= HeaderCap
    <3>1. Len(buf) <= HeaderCap /\ HeaderCap \in Nat
      BY <1>2, ReaderAssumption DEF TypeOK, buf
    <3>2. QED
      BY <1>5, <1>6, <1>9, <3>1
  <2>2. state' \in AnyState /\ Len(state'.data) <= state'.cap
    BY <1>1, <1>2 DEF TypeOK
  <2>3. QED
    BY <1>1, <1>2, <1>5, <1>9, <1>11, <1>12, <2>1, <2>2, TypeFrame
<1>14. SidesOK'
  BY <1>1, <1>12 DEF ReaderInv, SidesOK
<1>15. CleanCut(pos)'
  <2>1. Len(got') >= Len(got)
    BY <1>5, <1>11
  <2>2. QED
    BY <1>1, <1>2, <1>10, <1>11, <2>1, CutFrame
<1>16. Base' = msg.end /\ Len(header_buffer') <= pos
  <2>1. Base' = pos - Len(header_buffer')
    BY <1>1 DEF Base
  <2>2. msg.end = pos - (Len(buf) - size) /\ Len(buf) - size <= pos
    BY <1>4, <1>5, <1>6
  <2>3. QED
    BY <1>9, <2>1, <2>2
<1>17. BufferOK'
  BY <1>1, <1>4, <1>9, <1>16 DEF BufferOK, Holds
<1>18. EmptyOK'
  <2>1. Start(Turn + 1) = msg.end
    BY <1>2, <1>3, StreamFacts DEF msg
  <2>2. Start(Turn)' = Start(Turn + 1)
    BY <1>1, <1>11 DEF Start, StartOf
  <2>3. QED
    BY <1>16, <2>1, <2>2 DEF EmptyOK
<1>19. RequestOK' /\ ResponseOK' /\ ChunkedOK'
  BY <1>1, <1>2 DEF RequestOK, ResponseOK, ChunkedOK
<1>20. NothingHeldBack' /\ OnlyBadRefused'
  BY <1>12 DEF NothingHeldBack, OnlyBadRefused
<1>21. QED
  BY <1>11, <1>13, <1>14, <1>15, <1>17, <1>18, <1>19, <1>20 DEF ReaderInv, CleanInv

\* The request is longer than what is there, all of which moves to a buffer
\* of the request's length.
LEMMA StartBodyKept == ReaderInv /\ StartBody => ReaderInv'
<1> SUFFICES ASSUME ReaderInv, StartBody
             PROVE  ReaderInv'
  OBVIOUS
<1> DEFINE buf == header_buffer
           size == RequestSize(buf)
           msg == sent[Turn]
<1>1. /\ In("server", "Empty") /\ Blank(buf) > 0 /\ size > Len(buf)
      /\ state' = ReadBody(buf[Blank(buf)].m, size, buf) /\ header_buffer' = <<>>
      /\ outcome = "runs"
      /\ UNCHANGED <<side, clean, stream, sent, pos, got, outcome>>
  BY DEF StartBody, Reading
<1>2. clean /\ CleanInv /\ TypeOK /\ buf \in Seq(AnyUnit) /\ side = "server"
  BY <1>1, ServerBuffer DEF In
<1>3. Turn \in DOMAIN sent
  BY <1>1, ServerBuffer
<1>4. /\ Holds(buf, msg.at) /\ pos = msg.at + Len(buf) /\ size = msg.head + msg.body
      /\ msg.head <= Len(buf) /\ buf[Blank(buf)].m = Turn
  BY <1>1, <1>3, ServerBuffer
<1>5. /\ msg.at \in Nat /\ msg.head \in Nat /\ msg.body \in Nat /\ Len(buf) \in Nat
      /\ pos \in Nat /\ pos <= Len(stream) /\ Turn \in Nat
  BY <1>2, <1>3, MessageFacts, StreamFacts
<1> HIDE DEF size, msg, buf
<1>6. size \in Nat
  BY <1>4, <1>5
<1>7. /\ state'.is = "ReadBody" /\ state'.data = buf /\ state'.cap = size
      /\ state' \in AnyState
  BY <1>1, <1>2, <1>4, <1>5, <1>6, BodyState
<1>8. TypeOK'
  <2>1. header_buffer' \in Seq(AnyUnit) /\ Len(header_buffer') <= HeaderCap
    BY <1>1, ReaderAssumption
  <2>2. Len(state'.data) <= state'.cap
    BY <1>1, <1>5, <1>6, <1>7
  <2>3. got' \in Seq([m : Nat, body : Seq(AnyUnit)]) /\ outcome' = "runs"
    BY <1>1, <1>2 DEF TypeOK
  <2>4. QED
    BY <1>1, <1>2, <1>5, <1>7, <2>1, <2>2, <2>3, TypeFrame
<1>9. SidesOK'
  BY <1>1, <1>7 DEF ReaderInv, SidesOK
<1>10. GotOK' /\ CleanCut(pos)'
  <2>1. GotOK /\ CleanCut(pos)
    BY <1>2 DEF CleanInv
  <2>2. QED
    BY <1>1, <2>1, GotFrame DEF CleanCut
<1>11. BufferOK'
  BY <1>1, <1>2, <1>5 DEF BufferOK, Holds, Base
<1>12. EmptyOK' /\ ResponseOK' /\ ChunkedOK'
  BY <1>1, <1>2, <1>7 DEF EmptyOK, ResponseOK, ChunkedOK
<1>13. RequestOK'
  <2>1. Turn' = Turn /\ sent'[Turn'] = msg
    BY <1>1 DEF Turn, msg
  <2>2. Holds(state.data, sent[Turn].at)'
    BY <1>1, <1>4, <1>7, <2>1 DEF Holds
  <2>3. /\ pos' = msg.at + Len(state'.data) /\ msg.head <= Len(state'.data)
        /\ Len(state'.data) < state'.cap /\ state'.cap = msg.head + msg.body
    BY <1>1, <1>4, <1>5, <1>6, <1>7
  <2>4. Turn' \in DOMAIN sent'
    BY <1>1, <1>3, <2>1
  <2>5. QED
    BY <1>1, <2>1, <2>2, <2>3, <2>4 DEF RequestOK
<1>14. NothingHeldBack' /\ OnlyBadRefused'
  BY <1>1 DEF NothingHeldBack, OnlyBadRefused
<1>15. QED
  BY <1>8, <1>9, <1>10, <1>11, <1>12, <1>13, <1>14 DEF ReaderInv, CleanInv

LEMMA ReadHeadKept == ASSUME NEW k, ReaderInv, ReadHead(k) PROVE ReaderInv'
<1>1. /\ In("server", "Empty") /\ k \in Readable(Room) /\ outcome = "runs"
      /\ header_buffer' = header_buffer \o Incoming(k) /\ pos' = pos + k
      /\ UNCHANGED <<side, clean, stream, sent, state, got, outcome>>
  BY DEF ReadHead, Reading
<1>2. clean /\ CleanInv /\ TypeOK /\ header_buffer \in Seq(AnyUnit) /\ side = "server" /\ state.is = "Empty"
  BY <1>1, ServerBuffer DEF In
<1>3. BufferOK /\ EmptyOK /\ GotOK
  BY <1>2 DEF CleanInv
<1>4. Len(header_buffer) \in Nat /\ HeaderCap \in Nat /\ pos \in Nat /\ Len(stream) \in Nat
  BY <1>2, StreamFacts, ReaderAssumption
<1>5. /\ k \in Nat /\ k <= Room /\ pos + k <= Len(stream) /\ CleanCut(pos + k)
  BY <1>1, <1>2, <1>4, ReadFacts DEF Room
<1>6. Base \in Nat /\ Base + Len(header_buffer) = pos /\ Holds(header_buffer, Base)
  BY <1>3, <1>4 DEF Base, BufferOK
<1>7. /\ header_buffer' \in Seq(AnyUnit) /\ Len(header_buffer') = Len(header_buffer) + k
      /\ Holds(header_buffer', Base)
  BY <1>1, <1>2, <1>5, <1>6, HoldsMore
<1>8. pos' - Len(header_buffer') = Base /\ Len(header_buffer') <= pos'
  <2>1. pos' = pos + k
    BY <1>1
  <2>2. Len(header_buffer') = Len(header_buffer) + k
    BY <1>7
  <2>3. QED
    BY <1>4, <1>5, <1>6, <2>1, <2>2
<1>9. TypeOK'
  <2>1. Len(header_buffer') <= HeaderCap
    BY <1>4, <1>5, <1>7 DEF Room
  <2>2. pos' \in Nat /\ pos' <= Len(stream)
    BY <1>1, <1>4, <1>5
  <2>3. /\ state' \in AnyState /\ Len(state'.data) <= state'.cap /\ outcome' = "runs"
        /\ got' \in Seq([m : Nat, body : Seq(AnyUnit)])
    BY <1>1, <1>2 DEF TypeOK
  <2>4. QED
    BY <1>1, <1>2, <1>7, <2>1, <2>2, <2>3, TypeFrame
<1>10. SidesOK'
  BY <1>1 DEF ReaderInv, SidesOK
<1>11. GotOK' /\ CleanCut(pos)'
  BY <1>1, <1>3, <1>5, GotFrame DEF CleanCut
<1>12. Base' = Base
  BY <1>8 DEF Base
<1>13. BufferOK'
  BY <1>1, <1>7, <1>8, <1>12 DEF BufferOK, Holds
<1>14. EmptyOK'
  BY <1>1, <1>3, <1>12 DEF EmptyOK, Start, StartOf, Turn
<1>15. RequestOK' /\ ResponseOK' /\ ChunkedOK'
  BY <1>1, <1>2 DEF RequestOK, ResponseOK, ChunkedOK
<1>16. NothingHeldBack' /\ OnlyBadRefused'
  BY <1>1 DEF NothingHeldBack, OnlyBadRefused
<1>17. QED
  BY <1>9, <1>10, <1>11, <1>13, <1>14, <1>15, <1>16 DEF ReaderInv, CleanInv

LEMMA ReadRequestBodyKept == ASSUME NEW k, ReaderInv, ReadRequestBody(k) PROVE ReaderInv'
<1> DEFINE data == state.data \o Incoming(k)
           msg == sent[Turn]
<1>1. /\ In("server", "ReadBody") /\ k \in Readable(state.cap - Len(state.data)) /\ outcome = "runs"
      /\ pos' = pos + k
      /\ UNCHANGED <<side, clean, stream, sent, header_buffer>>
      /\ IF Len(data) = state.cap
           THEN state' = Empty /\ Return(Request(data))
           ELSE state' = [state EXCEPT !.data = data] /\ UNCHANGED <<got, outcome>>
  BY DEF ReadRequestBody, Reading
<1>2. /\ TypeOK /\ SidesOK /\ clean /\ CleanInv /\ side = "server" /\ state.is = "ReadBody"
      /\ \A m \in DOMAIN sent : sent[m].length # NoLength
  BY <1>1 DEF ReaderInv, SidesOK, In
<1>3. /\ Turn \in DOMAIN sent /\ header_buffer = <<>> /\ GotOK
      /\ pos = msg.at + Len(state.data) /\ Holds(state.data, msg.at)
      /\ msg.head <= Len(state.data) /\ Len(state.data) < state.cap
      /\ state.cap = msg.head + msg.body
  BY <1>2 DEF CleanInv, RequestOK
<1>4. msg.chunks = <<>> /\ msg.end = msg.at + (msg.head + msg.body)
  <2>1. msg.chunks = <<>>
    BY <1>2, <1>3, StreamFacts DEF IsMessage, AreChunks
  <2>2. QED
    BY <1>2, <1>3, <2>1, PlainFacts, MessageFacts
<1>5. /\ msg.at \in Nat /\ msg.head \in Nat /\ msg.body \in Nat /\ Turn \in Nat
      /\ Len(stream) \in Nat /\ pos \in Nat
  BY <1>2, <1>3, MessageFacts, StreamFacts
<1>6. /\ state \in AnyState /\ state.data \in Seq(AnyUnit) /\ Len(state.data) \in Nat
      /\ state.cap \in Nat
  BY <1>2 DEF TypeOK, AnyState
<1>7. /\ k \in Nat /\ k <= state.cap - Len(state.data) /\ pos + k <= Len(stream) /\ CleanCut(pos + k)
  BY <1>1, <1>2, <1>6, ReadFacts
<1> HIDE DEF msg
<1>8. /\ data \in Seq(AnyUnit) /\ Len(data) = Len(state.data) + k /\ Holds(data, msg.at)
  <2>1. msg.at + Len(state.data) = pos
    BY <1>3
  <2>2. QED
    BY <1>2, <1>3, <1>5, <1>6, <1>7, <2>1, HoldsMore
<1> HIDE DEF data
<1>9. /\ pos' = msg.at + Len(data) /\ pos' \in Nat
      /\ Len(data) <= state.cap /\ msg.head <= Len(data) /\ Len(data) \in Nat
  <2>1. pos' = pos + k
    BY <1>1
  <2>2. Len(data) = Len(state.data) + k
    BY <1>8
  <2>3. pos = msg.at + Len(state.data) /\ msg.head <= Len(state.data)
    BY <1>3
  <2>4. k \in Nat /\ k <= state.cap - Len(state.data)
    BY <1>7
  <2>5. Len(state.data) \in Nat /\ state.cap \in Nat
    BY <1>6
  <2>6. msg.at \in Nat /\ msg.head \in Nat
    BY <1>5
  <2>7. Len(data) \in Nat /\ Len(data) <= state.cap /\ msg.head <= Len(data)
    BY <2>2, <2>3, <2>4, <2>5, <2>6
  <2>8. pos + k = msg.at + Len(data) /\ pos + k \in Nat
    BY <2>2, <2>3, <2>4, <2>5, <2>6
  <2>9. QED
    BY <2>1, <2>7, <2>8
<1>10. pos' <= Len(stream)
  BY <1>1, <1>7
<1>11. header_buffer' = <<>> /\ header_buffer' \in Seq(AnyUnit) /\ Len(header_buffer') <= HeaderCap
  BY <1>1, <1>3, ReaderAssumption
<1>12. BufferOK'
  BY <1>1, <1>5, <1>9, <1>10, <1>11 DEF BufferOK, Holds, Base
<1>13. CASE Len(data) = state.cap
  <2>1. state' = Empty /\ Return(Request(data)) /\ outcome' = "some"
    BY <1>1, <1>13 DEF Return
  <2>2. Request(data) = Message(Turn, Body(Turn, sent[Turn].body))
    BY <1>2, <1>3, <1>4, <1>8, <1>13, RequestRead DEF msg
  <2>3. /\ GotOK' /\ Len(got') = Len(got) + 1 /\ Turn' = Turn + 1
        /\ got' \in Seq([m : Nat, body : Seq(AnyUnit)])
    BY <1>1, <1>2, <1>3, <2>1, <2>2, GotMore
  <2>4. state' \in AnyState /\ Len(state'.data) <= state'.cap /\ state'.is = "Empty"
    BY <2>1, EmptyState
  <2>5. TypeOK'
    BY <1>1, <1>2, <1>9, <1>10, <1>11, <2>1, <2>3, <2>4, TypeFrame
  <2>6. SidesOK'
    BY <1>1, <1>2, <2>1, <2>4 DEF SidesOK
  <2>7. CleanCut(pos)'
    <3>1. Len(got) \in Nat
      BY <1>2 DEF TypeOK
    <3>2. Len(got') >= Len(got)
      BY <2>3, <3>1
    <3>3. QED
      BY <1>1, <1>2, <1>7, <2>3, <3>2, CutFrame
  <2>8. EmptyOK'
    <3>1. Start(Turn + 1) = msg.end
      BY <1>2, <1>3, StreamFacts DEF msg
    <3>2. Start(Turn)' = Start(Turn + 1)
      BY <1>1, <2>3 DEF Start, StartOf
    <3>3. Base' = pos'
      BY <1>9, <1>11 DEF Base
    <3>4. pos' = msg.end
      BY <1>3, <1>4, <1>9, <1>13
    <3>5. QED
      BY <3>1, <3>2, <3>3, <3>4 DEF EmptyOK
  <2>9. RequestOK' /\ ResponseOK' /\ ChunkedOK'
    BY <2>4 DEF RequestOK, ResponseOK, ChunkedOK
  <2>10. NothingHeldBack' /\ OnlyBadRefused'
    BY <2>1 DEF NothingHeldBack, OnlyBadRefused
  <2>11. QED
    BY <1>12, <2>3, <2>5, <2>6, <2>7, <2>8, <2>9, <2>10 DEF ReaderInv, CleanInv
<1>14. CASE Len(data) # state.cap
  <2>1. state' = [state EXCEPT !.data = data] /\ UNCHANGED <<got, outcome>>
    BY <1>1, <1>14
  <2>2. /\ state' \in AnyState /\ state'.is = "ReadBody" /\ state'.data = data
        /\ state'.cap = state.cap
    BY <1>2, <1>6, <1>8, <2>1 DEF AnyState
  <2>3. Len(data) < state.cap
    BY <1>6, <1>9, <1>14
  <2>4. TypeOK'
    <3>1. Len(state'.data) <= state'.cap
      BY <1>9, <2>2
    <3>2. got' \in Seq([m : Nat, body : Seq(AnyUnit)]) /\ outcome' = "runs"
      BY <1>1, <1>2, <2>1 DEF TypeOK
    <3>3. QED
      BY <1>1, <1>2, <1>9, <1>10, <1>11, <2>2, <3>1, <3>2, TypeFrame
  <2>5. SidesOK'
    BY <1>1, <1>2, <2>1, <2>2 DEF SidesOK
  <2>6. GotOK' /\ CleanCut(pos)'
    BY <1>1, <1>3, <1>7, <2>1, GotFrame DEF CleanCut
  <2>7. EmptyOK' /\ ResponseOK' /\ ChunkedOK'
    BY <1>1, <1>2, <2>2 DEF EmptyOK, ResponseOK, ChunkedOK
  <2>8. RequestOK'
    <3>1. Turn' = Turn /\ sent'[Turn'] = msg
      BY <1>1, <2>1 DEF Turn, msg
    <3>2. Holds(state.data, sent[Turn].at)'
      BY <1>1, <1>8, <2>2, <3>1 DEF Holds
    <3>3. /\ pos' = msg.at + Len(state'.data) /\ msg.head <= Len(state'.data)
          /\ Len(state'.data) < state'.cap /\ state'.cap = msg.head + msg.body
      <4>1. state.cap = msg.head + msg.body
        BY <1>3
      <4>2. QED
        BY <1>9, <2>2, <2>3, <4>1
    <3>4. Turn' \in DOMAIN sent'
      BY <1>1, <1>3, <3>1
    <3>5. QED
      BY <1>11, <3>1, <3>2, <3>3, <3>4 DEF RequestOK
  <2>9. NothingHeldBack' /\ OnlyBadRefused'
    BY <1>1, <2>1 DEF NothingHeldBack, OnlyBadRefused
  <2>10. QED
    BY <1>12, <2>4, <2>5, <2>6, <2>7, <2>8, <2>9 DEF ReaderInv, CleanInv
<1>15. QED
  BY <1>13, <1>14

-----------------------------------------------------------------------------
(* The steps of a client, whose stream may be cut anywhere: what they keep  *)
(* of the types does not depend on the cuts.                               *)

LEMMA IncomingType ==
  ASSUME TypeOK, NEW k \in Nat, pos + k <= Len(stream)
  PROVE  Incoming(k) \in Seq(AnyUnit) /\ Len(Incoming(k)) = k
<1>1. stream \in Seq(AnyUnit) /\ pos \in Nat /\ Len(stream) \in Nat
  BY StreamFacts
<1>2. pos \in 0..Len(stream) /\ pos + k \in pos..Len(stream) /\ pos + k - pos = k
  BY <1>1
<1>3. QED
  BY <1>1, <1>2, PartOf DEF Incoming

LEMMA GotType ==
  ASSUME TypeOK, NEW m \in Nat, NEW body \in Seq(AnyUnit), Return(Message(m, body))
  PROVE  got' \in Seq([m : Nat, body : Seq(AnyUnit)]) /\ outcome' = "some"
<1>1. Message(m, body) \in [m : Nat, body : Seq(AnyUnit)]
  BY DEF Message
<1>2. QED
  BY <1>1 DEF Return, TypeOK

\* What a read in the empty state, or of more chunks, puts into the buffer.
LEMMA FilledFacts ==
  ASSUME ReaderInv, NEW k, pos' = pos + k,
         k \in Readable(Room) \/ k = 0
  PROVE  /\ k \in Nat /\ pos + k \in Nat /\ pos + k <= Len(stream)
         /\ Filled(k) \in Seq(AnyUnit) /\ Len(Filled(k)) = Len(header_buffer) + k
         /\ Len(Filled(k)) <= HeaderCap
         /\ clean => /\ CleanCut(pos + k) /\ pos + k - Len(Filled(k)) = Base
                     /\ Base \in Nat /\ Holds(Filled(k), Base)
<1>1. TypeOK /\ (clean => CleanInv)
  BY DEF ReaderInv
<1>2. /\ header_buffer \in Seq(AnyUnit) /\ Len(header_buffer) \in Nat
      /\ Len(header_buffer) <= HeaderCap /\ HeaderCap \in Nat
  BY <1>1, ReaderAssumption DEF TypeOK
<1>3. pos \in Nat /\ Len(stream) \in Nat /\ pos <= Len(stream)
  BY <1>1, StreamFacts
<1>4. k \in Nat /\ k <= Room /\ pos + k <= Len(stream) /\ (clean => CleanCut(pos + k))
  <2>1. CASE k = 0
    <3>1. k \in Nat /\ k <= Room /\ pos + k = pos
      BY <1>2, <1>3, <2>1 DEF Room
    <3>2. QED
      BY <1>1, <1>3, <3>1 DEF CleanInv
  <2>2. CASE k \in Readable(Room)
    <3>1. Room \in Int
      BY <1>2 DEF Room
    <3>2. QED
      BY <1>1, <2>2, <3>1, ReadFacts
  <2>3. QED
    BY <2>1, <2>2
<1>5. Incoming(k) \in Seq(AnyUnit) /\ Len(Incoming(k)) = k
  BY <1>1, <1>4, IncomingType
<1>6. Filled(k) \in Seq(AnyUnit) /\ Len(Filled(k)) = Len(header_buffer) + k
  BY <1>2, <1>4, <1>5 DEF Filled
<1>7. Len(Filled(k)) <= HeaderCap
  BY <1>2, <1>4, <1>6 DEF Room
<1>8. ASSUME clean
      PROVE  pos + k - Len(Filled(k)) = Base /\ Base \in Nat /\ Holds(Filled(k), Base)
  <2>1. Base \in Nat /\ Base + Len(header_buffer) = pos /\ Holds(header_buffer, Base)
    BY <1>1, <1>2, <1>3, <1>8 DEF CleanInv, BufferOK, Base
  <2>2. Holds(Filled(k), Base)
    BY <1>1, <1>2, <1>4, <2>1, HoldsMore DEF Filled
  <2>3. pos + k - Len(Filled(k)) = Base
    <3>1. Len(header_buffer) \in Nat /\ k \in Nat
      BY <1>2, <1>4
    <3>2. Base + Len(header_buffer) + k - (Len(header_buffer) + k) = Base
      BY <2>1, <3>1, Distances
    <3>3. QED
      BY <1>6, <2>1, <3>2
  <2>4. QED
    BY <2>1, <2>2, <2>3
<1>9. pos + k \in Nat
  BY <1>3, <1>4
<1>10. QED
  BY <1>4, <1>6, <1>7, <1>8, <1>9

\* What a client finds behind the read that every call begins with.
LEMMA ClientFill ==
  ASSUME ReaderInv, NEW k, Fills(k)
  PROVE  /\ TypeOK /\ side = "client" /\ state.is = "Empty"
         /\ k \in Nat /\ pos' = pos + k /\ pos' \in Nat /\ pos' <= Len(stream)
         /\ Filled(k) \in Seq(AnyUnit) /\ Len(Filled(k)) <= HeaderCap
         /\ Blank(Filled(k)) \in 0..Len(Filled(k))
         /\ Blank(Filled(k)) > 0 =>
              /\ MessageOf(Filled(k)) \in Nat /\ Length(Filled(k)) \in Nat
              /\ Remaining(Filled(k)) \in Seq(AnyUnit)
              /\ Len(Remaining(Filled(k))) = Len(Filled(k)) - Blank(Filled(k))
         /\ clean => /\ CleanInv /\ GotOK /\ CleanCut(pos + k)
                     /\ pos + k - Len(Filled(k)) = Start(Turn)
                     /\ Holds(Filled(k), Start(Turn))
<1> DEFINE buf == Filled(k)
<1>1. /\ side = "client" /\ state.is = "Empty" /\ pos' = pos + k
      /\ k \in Readable(Room) \/ k = 0
      /\ outcome = "runs"
  BY DEF Fills, Reading, In
<1>2. TypeOK /\ (clean => CleanInv)
  BY DEF ReaderInv
<1>3. /\ k \in Nat /\ pos + k \in Nat /\ pos + k <= Len(stream)
      /\ buf \in Seq(AnyUnit) /\ Len(buf) <= HeaderCap
      /\ clean => /\ CleanCut(pos + k) /\ pos + k - Len(buf) = Base
                  /\ Base \in Nat /\ Holds(buf, Base)
  BY <1>1, FilledFacts
<1> HIDE DEF buf
<1>4. Blank(buf) \in 0..Len(buf) /\ Len(buf) \in Nat
  BY <1>3, BlankPlace
<1>5. ASSUME Blank(buf) > 0
      PROVE  /\ MessageOf(buf) \in Nat /\ Length(buf) \in Nat
             /\ Remaining(buf) \in Seq(AnyUnit) /\ Len(Remaining(buf)) = Len(buf) - Blank(buf)
  <2>1. Blank(buf) \in 1..Len(buf) /\ Len(buf) \in Blank(buf)..Len(buf)
    BY <1>4, <1>5
  <2>2. buf[Blank(buf)] \in AnyUnit
    BY <1>3, <2>1
  <2>3. buf[Blank(buf)].m \in Nat /\ buf[Blank(buf)].n \in Nat \cup {NoLength}
    BY <2>2 DEF AnyUnit
  <2>4. Remaining(buf) \in Seq(AnyUnit) /\ Len(Remaining(buf)) = Len(buf) - Blank(buf)
    BY <1>3, <1>4, <2>1, PartOf DEF Remaining
  <2>5. QED
    BY <2>3, <2>4 DEF MessageOf, Length
<1>6. clean => Base = Start(Turn) /\ GotOK
  BY <1>1, <1>2 DEF CleanInv, EmptyOK
<1>7. QED
  BY <1>1, <1>2, <1>3, <1>4, <1>5, <1>6 DEF buf

\* If the stream is cut cleanly, that is the message whose turn it is: with
\* all of its head there is the length of its first chunk, if it has chunks,
\* and nothing at all behind it if it has neither a length nor chunks.
LEMMA ClientHead ==
  ASSUME ReaderInv, NEW k, Fills(k), clean
  PROVE  LET buf == Filled(k)
             msg == sent[Turn]
         IN /\ Blank(buf) > 0 =>
                 /\ Turn \in DOMAIN sent /\ HasHead(buf) /\ MessageOf(buf) = Turn
                 /\ buf[Blank(buf)].n = msg.length
                 /\ Holds(Remaining(buf), BodyAt(msg))
                 /\ pos + k = BodyAt(msg) + Len(Remaining(buf))
                 /\ msg.chunks # <<>> => Len(Remaining(buf)) > msg.chunks[1].digits
                 /\ msg.length = NoLength /\ msg.chunks = <<>> => Len(Remaining(buf)) = 0
            /\ Blank(buf) = 0 /\ Turn \in DOMAIN sent =>
                 /\ Len(buf) < msg.head /\ pos + k < msg.end
            /\ Turn \notin DOMAIN sent => Len(buf) = 0
<1> DEFINE buf == Filled(k)
           msg == sent[Turn]
<1>1. /\ TypeOK /\ k \in Nat /\ buf \in Seq(AnyUnit) /\ Blank(buf) \in 0..Len(buf)
      /\ Len(Remaining(buf)) = Len(buf) - Blank(buf) \/ Blank(buf) = 0
      /\ Len(buf) \in Nat
  BY ClientFill
<1>2. /\ GotOK /\ CleanCut(pos + k) /\ pos + k - Len(buf) = Start(Turn)
      /\ Holds(buf, Start(Turn))
  BY ClientFill
<1>3. pos + k \in Nat /\ pos \in Nat /\ Len(stream) \in Nat /\ Len(got) \in Nat
  BY <1>1, StreamFacts DEF TypeOK
<1>4. /\ Turn \in DOMAIN sent =>
           /\ Holds(buf, msg.at) /\ pos + k = msg.at + Len(buf)
           /\ Blank(buf) = 0 => Len(buf) < msg.head
           /\ Blank(buf) > 0 => /\ Blank(buf) = msg.head /\ msg.head <= Len(buf)
                                /\ buf[Blank(buf)] = Unit(Turn, "blank", msg.length)
                                /\ \A i \in 1..(Blank(buf) - 1) : buf[i].kind = "text"
      /\ Turn \notin DOMAIN sent => Len(buf) = 0 /\ Blank(buf) = 0
  BY <1>1, <1>2, <1>3, FrontFound
<1>5. Turn \in DOMAIN sent =>
        /\ msg.at \in Nat /\ msg.head \in Nat /\ msg.end \in Nat
        /\ BodyAt(msg) = msg.at + msg.head /\ BodyAt(msg) <= msg.end
        /\ msg.chunks \in Seq(AnyChunk)
  BY <1>1, MessageFacts
<1>6. Turn \in Nat /\ Len(got) < Turn
  BY <1>3 DEF Turn
<1> HIDE DEF buf, msg
<1>7. ASSUME Blank(buf) > 0
      PROVE  /\ Turn \in DOMAIN sent /\ HasHead(buf) /\ MessageOf(buf) = Turn
             /\ buf[Blank(buf)].n = msg.length
             /\ Holds(Remaining(buf), BodyAt(msg))
             /\ pos + k = BodyAt(msg) + Len(Remaining(buf))
             /\ msg.chunks # <<>> => Len(Remaining(buf)) > msg.chunks[1].digits
             /\ msg.length = NoLength /\ msg.chunks = <<>> => Len(Remaining(buf)) = 0
  <2>1. Turn \in DOMAIN sent
    BY <1>4, <1>7
  <2>2. /\ Holds(buf, msg.at) /\ pos + k = msg.at + Len(buf)
        /\ Blank(buf) = msg.head /\ buf[Blank(buf)] = Unit(Turn, "blank", msg.length)
        /\ \A i \in 1..(Blank(buf) - 1) : buf[i].kind = "text"
    BY <1>4, <1>7, <2>1
  <2>3. HasHead(buf) /\ MessageOf(buf) = Turn /\ buf[Blank(buf)].n = msg.length
    BY <1>7, <2>2 DEF HasHead, MessageOf, Unit
  <2>4. Holds(Remaining(buf), BodyAt(msg))
    <3>1. Len(buf) \in Blank(buf)..Len(buf)
      BY <1>1
    <3>2. Holds(SubSeq(buf, Blank(buf) + 1, Len(buf)), msg.at + Blank(buf))
      BY <1>1, <1>3, <1>5, <2>1, <2>2, <3>1, HoldsPart
    <3>3. msg.at + Blank(buf) = BodyAt(msg)
      BY <1>5, <2>1, <2>2
    <3>4. QED
      BY <3>2, <3>3 DEF Remaining
  <2>5. Len(Remaining(buf)) = Len(buf) - msg.head /\ msg.at \in Nat /\ msg.head \in Nat
    BY <1>1, <1>5, <1>7, <2>1, <2>2
  <2>6. pos + k = msg.at + Len(buf) /\ BodyAt(msg) = msg.at + msg.head /\ msg.head <= Len(buf)
    BY <1>4, <1>5, <1>7, <2>1, <2>2
  <2>7. pos + k = BodyAt(msg) + Len(Remaining(buf)) /\ Len(Remaining(buf)) \in Nat
    BY <1>1, <2>5, <2>6
  <2>8. /\ msg.length = NoLength /\ msg.chunks = <<>> /\ Len(got) < Turn => pos + k <= msg.end
        /\ msg.chunks # <<>> => pos + k \notin BodyAt(msg)..(BodyAt(msg) + msg.chunks[1].digits)
    BY <1>2, <2>1 DEF CleanCut, msg
  <2>9. BodyAt(msg) \in Nat /\ msg.end \in Nat
    BY <1>5, <2>1
  <2>10. ASSUME msg.chunks # <<>>
         PROVE  Len(Remaining(buf)) > msg.chunks[1].digits
    <3>1. 1 \in DOMAIN msg.chunks
      BY <1>5, <2>1, <2>10
    <3>2. msg.chunks[1].digits \in Nat
      BY <1>1, <2>1, <3>1, ChunkFacts DEF msg
    <3>3. pos + k \notin BodyAt(msg)..(BodyAt(msg) + msg.chunks[1].digits)
      BY <2>8, <2>10
    <3>4. QED
      BY <2>7, <2>9, <3>2, <3>3
  <2>11. ASSUME msg.length = NoLength, msg.chunks = <<>>
         PROVE  Len(Remaining(buf)) = 0
    <3>1. pos + k <= msg.end
      BY <1>6, <2>8, <2>11
    <3>2. msg.body = 0 /\ msg.end = BodyAt(msg) + msg.body
      BY <1>1, <2>1, <2>11, PlainFacts, MessageFacts DEF msg, NoLength
    <3>3. QED
      BY <2>7, <2>9, <3>1, <3>2
  <2>12. QED
    BY <2>1, <2>3, <2>4, <2>7, <2>10, <2>11
<1>8. ASSUME Blank(buf) = 0, Turn \in DOMAIN sent
      PROVE  Len(buf) < msg.head /\ pos + k < msg.end
  <2>1. Len(buf) < msg.head /\ pos + k = msg.at + Len(buf)
    BY <1>4, <1>8
  <2>2. msg.at \in Nat /\ msg.head \in Nat /\ msg.end \in Nat /\ msg.at + msg.head <= msg.end
    BY <1>5, <1>8
  <2>3. pos + k < msg.end
    BY <1>1, <2>1, <2>2
  <2>4. QED
    BY <2>1, <2>3
<1>9. QED
  BY <1>4, <1>7, <1>8 DEF buf, msg

LEMMA FillGarbageKept == ASSUME NEW k, ReaderInv, FillGarbage(k) PROVE ReaderInv'
<1>1. /\ Fills(k) /\ Blank(Filled(k)) > 0 /\ ~HasHead(Filled(k))
      /\ header_buffer' = Filled(k) /\ outcome' = "error"
      /\ UNCHANGED <<side, clean, stream, sent, state, got>>
  BY DEF FillGarbage
<1>2. ~clean
  BY <1>1, ClientHead
<1>3. /\ TypeOK /\ side = "client" /\ state.is = "Empty" /\ pos' \in Nat /\ pos' <= Len(stream)
      /\ Filled(k) \in Seq(AnyUnit) /\ Len(Filled(k)) <= HeaderCap
  BY <1>1, ClientFill
<1>4. /\ state' \in AnyState /\ Len(state'.data) <= state'.cap
      /\ got' \in Seq([m : Nat, body : Seq(AnyUnit)])
  BY <1>1, <1>3 DEF TypeOK
<1>5. TypeOK'
  BY <1>1, <1>3, <1>4, TypeFrame
<1>6. SidesOK'
  BY <1>1, <1>3 DEF SidesOK
<1>7. QED
  BY <1>1, <1>2, <1>5, <1>6 DEF ReaderInv

\* There is no head yet, and if there is no room for more of it, the head of
\* the message is too long.
LEMMA FillNoHeadKept == ASSUME NEW k, ReaderInv, FillNoHead(k) PROVE ReaderInv'
<1> DEFINE buf == Filled(k)
<1>1. /\ Fills(k) /\ Blank(buf) = 0 /\ header_buffer' = buf
      /\ outcome' = IF Len(buf) = HeaderCap THEN "error" ELSE "none"
      /\ UNCHANGED <<side, clean, stream, sent, state, got>>
  BY DEF FillNoHead
<1>2. /\ TypeOK /\ side = "client" /\ state.is = "Empty"
      /\ pos' = pos + k /\ pos' \in Nat /\ pos' <= Len(stream)
      /\ buf \in Seq(AnyUnit) /\ Len(buf) <= HeaderCap
      /\ clean => /\ CleanInv /\ GotOK /\ CleanCut(pos + k)
                  /\ pos + k - Len(buf) = Start(Turn) /\ Holds(buf, Start(Turn))
  BY <1>1, ClientFill
<1> HIDE DEF buf
<1>3. TypeOK'
  <2>1. /\ state' \in AnyState /\ Len(state'.data) <= state'.cap
        /\ got' \in Seq([m : Nat, body : Seq(AnyUnit)]) /\ outcome' \in {"error", "none"}
    BY <1>1, <1>2 DEF TypeOK
  <2>2. QED
    BY <1>1, <1>2, <2>1, TypeFrame
<1>4. SidesOK'
  BY <1>1, <1>2 DEF SidesOK
<1>5. ASSUME clean
      PROVE  CleanInv'
  <2>1. GotOK' /\ CleanCut(pos)'
    <3>1. CleanCut(pos') /\ GotOK
      BY <1>2, <1>5
    <3>2. QED
      BY <1>1, <3>1, GotFrame DEF CleanCut
  <2>2. Start(Turn)' = Start(Turn)
    BY <1>1 DEF Start, StartOf, Turn
  <2>3. Base' = Start(Turn) /\ Len(header_buffer') <= pos'
    <3>1. Start(Turn) \in Nat
      <4>1. /\ \A m \in DOMAIN sent : Start(m) = sent[m].at /\ sent[m].at \in Nat
            /\ Start(Len(sent) + 1) = Len(stream) /\ Len(stream) \in Nat
            /\ Len(sent) \in Nat /\ DOMAIN sent = 1..Len(sent)
        BY <1>2, StreamFacts, MessageFacts
      <4>2. Len(got) \in Nat /\ Len(got) <= Len(sent)
        BY <1>2, <1>5 DEF TypeOK, GotOK
      <4>3. Turn \in DOMAIN sent \/ Turn = Len(sent) + 1
        BY <4>1, <4>2 DEF Turn
      <4>4. QED
        BY <4>1, <4>3
    <3>2. pos' - Len(buf) = Start(Turn)
      <4>1. pos' = pos + k /\ pos' \in Nat
        BY <1>2
      <4>2. pos + k - Len(buf) = Start(Turn)
        BY <1>2, <1>5
      <4>3. Len(buf) \in Nat /\ pos \in Nat /\ k \in Nat
        BY <1>1, <1>2, StreamFacts, ClientFill
      <4>4. QED
        BY <3>1, <4>1, <4>2, <4>3
    <3>3. Base' = pos' - Len(buf)
      BY <1>1 DEF Base
    <3>4. Len(buf) <= pos'
      BY <1>2, <3>1, <3>2
    <3>5. QED
      BY <1>1, <3>2, <3>3, <3>4
  <2>4. BufferOK'
    BY <1>1, <1>2, <1>5, <2>3 DEF BufferOK, Holds
  <2>5. EmptyOK'
    BY <2>2, <2>3 DEF EmptyOK
  <2>6. RequestOK' /\ ResponseOK' /\ ChunkedOK'
    BY <1>1, <1>2 DEF RequestOK, ResponseOK, ChunkedOK
  <2>7. Turn \in DOMAIN sent => Len(buf) < sent[Turn].head /\ pos' < sent[Turn].end
    BY <1>1, <1>2, <1>5, ClientHead DEF buf
  <2>8. NothingHeldBack'
    <3>1. Len(got) <= Len(sent)
      BY <1>2, <1>5 DEF GotOK
    <3>2. \A m \in DOMAIN sent : sent[m].end <= pos' => m <= Len(got)
      BY <1>2, <2>7, <3>1, Pending
    <3>3. QED
      BY <1>1, <3>2 DEF NothingHeldBack
  <2>9. OnlyBadRefused'
    <3>1. SUFFICES ASSUME outcome' \in {"error", "panic"}
                   PROVE  /\ Len(got) < Len(sent) /\ outcome' = "error"
                          /\ sent[Len(got) + 1].head > HeaderCap
      BY <1>1 DEF OnlyBadRefused
    <3>2. Len(buf) = HeaderCap /\ outcome' = "error"
      BY <1>1, <3>1
    <3>3. HeaderCap \in Nat /\ HeaderCap > 0
      BY ReaderAssumption
    <3>4. Turn \in DOMAIN sent
      BY <1>1, <1>5, <3>2, <3>3, ClientHead DEF buf
    <3>5. Len(got) \in Nat /\ Len(sent) \in Nat /\ DOMAIN sent = 1..Len(sent)
      BY <1>2, StreamFacts DEF TypeOK
    <3>6. Len(got) < Len(sent)
      BY <3>4, <3>5 DEF Turn
    <3>7. sent[Turn].head > HeaderCap
      BY <1>2, <2>7, <3>2, <3>3, <3>4, MessageFacts
    <3>8. QED
      BY <3>2, <3>6, <3>7 DEF Turn
  <2>10. QED
    BY <2>1, <2>4, <2>5, <2>6, <2>8, <2>9 DEF CleanInv
<1>6. QED
  BY <1>1, <1>3, <1>4, <1>5 DEF ReaderInv

\* A message that has no chunks, once its head was found.
LEMMA PlainFound ==
  ASSUME ReaderInv, NEW k, Fills(k), clean, Blank(Filled(k)) > 0, ~IsChunked(Filled(k))
  PROVE  sent[Turn].chunks = <<>> /\ Length(Filled(k)) = sent[Turn].body
<1> DEFINE buf == Filled(k)
           msg == sent[Turn]
<1>1. /\ Turn \in DOMAIN sent /\ buf[Blank(buf)].n = msg.length
      /\ Holds(Remaining(buf), BodyAt(msg))
      /\ msg.chunks # <<>> => Len(Remaining(buf)) > msg.chunks[1].digits
  BY ClientHead
<1>2. TypeOK /\ Remaining(buf) \in Seq(AnyUnit)
  BY ClientFill
<1>3. ~IsChunked(buf)
  OBVIOUS
<1>4. msg.chunks \in Seq(AnyChunk)
  BY <1>1, <1>2, MessageFacts
<1> HIDE DEF buf, msg
<1>5. SUFFICES msg.chunks = <<>> /\ Length(buf) = msg.body
  BY DEF buf, msg
<1>6. msg.chunks = <<>>
  <2>1. SUFFICES ASSUME msg.chunks # <<>>
                 PROVE  FALSE
    OBVIOUS
  <2>2. AreChunks(stream, Turn, msg) /\ 1 \in DOMAIN msg.chunks
    BY <1>1, <1>2, <1>4, <2>1, StreamFacts DEF IsMessage, msg
  <2>3. LineEnd(Remaining(buf)) = 0
    <3>1. ~(LineEnd(Remaining(buf)) > 0)
      BY <1>1, <1>3, <2>2 DEF IsChunked, AreChunks
    <3>2. LineEnd(Remaining(buf)) \in 0..Len(Remaining(buf)) /\ Len(Remaining(buf)) \in Nat
      BY <1>2, LineEndPlace
    <3>3. QED
      BY <3>1, <3>2
  <2>4. PICK chunk \in AnyChunk : /\ chunk = msg.chunks[1] /\ chunk.at = BodyAt(msg)
                                  /\ IsChunk(stream, Turn, chunk)
    <3>1. msg.chunks[1] \in AnyChunk
      BY <1>4, <2>2
    <3>2. IsChunk(stream, Turn, msg.chunks[1])
      BY <1>1, <1>2, <2>2, ChunkFacts DEF msg
    <3>3. QED
      BY <2>2, <3>1, <3>2 DEF AreChunks
  <2>5. chunk.at \in Nat /\ chunk.digits \in Nat
    BY <2>4 DEF AnyChunk
  <2>6. chunk.digits + 1 \in 1..Len(Remaining(buf)) /\ Len(Remaining(buf)) \in Nat
    BY <1>1, <1>2, <2>1, <2>4, <2>5
  <2>7. Remaining(buf)[chunk.digits + 1] = stream[DataAt(chunk)]
    <3>1. chunk.at + (chunk.digits + 1) = DataAt(chunk)
      BY <2>5 DEF DataAt
    <3>2. Remaining(buf)[chunk.digits + 1] = stream[chunk.at + (chunk.digits + 1)]
      BY <1>1, <2>4, <2>6 DEF Holds
    <3>3. QED
      BY <3>1, <3>2
  <2>8. stream[DataAt(chunk)].kind = "crlf"
    BY <2>4 DEF IsChunk
  <2>9. Remaining(buf)[chunk.digits + 1].kind \notin {"crlf", "blank"}
    BY <1>2, <2>3, <2>6, LineEndPlace
  <2>10. QED
    BY <2>7, <2>8, <2>9
<1>7. Length(buf) = msg.body
  <2>1. msg.length = msg.body \/ (msg.length = NoLength /\ msg.body = 0)
    BY <1>1, <1>2, <1>6, PlainFacts DEF msg
  <2>2. msg.body \in Nat
    BY <1>1, <1>2, MessageFacts DEF msg
  <2>3. msg.body # NoLength
    BY <2>2 DEF NoLength
  <2>4. QED
    BY <1>1, <2>1, <2>3 DEF Length
<1>8. QED
  BY <1>6, <1>7

\* All that is there is of the body, which goes on in a buffer of its own.
LEMMA FillBodyKept == ASSUME NEW k, ReaderInv, FillBody(k) PROVE ReaderInv'
<1> DEFINE buf == Filled(k)
           data == Remaining(buf)
           msg == sent[Turn]
<1>1. /\ Fills(k) /\ HasHead(buf) /\ ~IsChunked(buf) /\ Length(buf) >= Len(data)
      /\ header_buffer' = <<>> /\ state' = ReadBody(MessageOf(buf), Length(buf), data)
      /\ UNCHANGED <<side, clean, stream, sent, got, outcome>>
  BY DEF FillBody
<1>2. Blank(buf) > 0 /\ outcome = "runs"
  BY <1>1 DEF HasHead, Fills, Reading
<1>3. /\ TypeOK /\ side = "client" /\ pos' = pos + k /\ pos' \in Nat /\ pos' <= Len(stream)
      /\ MessageOf(buf) \in Nat /\ Length(buf) \in Nat /\ data \in Seq(AnyUnit)
      /\ clean => CleanInv /\ GotOK /\ CleanCut(pos + k)
  BY <1>1, <1>2, ClientFill
<1>4. clean => /\ Turn \in DOMAIN sent /\ MessageOf(buf) = Turn
               /\ Holds(data, BodyAt(msg)) /\ pos + k = BodyAt(msg) + Len(data)
               /\ msg.chunks = <<>> /\ Length(buf) = msg.body
  BY <1>1, <1>2, ClientHead, PlainFound
<1> HIDE DEF buf, data, msg
<1>5. /\ state' \in AnyState /\ state'.is = "ReadBody" /\ state'.m = MessageOf(buf)
      /\ state'.cap = Length(buf) /\ state'.data = data
  BY <1>1, <1>3, BodyState
<1>6. header_buffer' \in Seq(AnyUnit) /\ Len(header_buffer') = 0 /\ Len(header_buffer') <= HeaderCap
  BY <1>1, ReaderAssumption
<1>7. TypeOK'
  <2>1. Len(state'.data) <= state'.cap
    BY <1>1, <1>3, <1>5
  <2>2. got' \in Seq([m : Nat, body : Seq(AnyUnit)]) /\ outcome' = "runs"
    BY <1>1, <1>2, <1>3 DEF TypeOK
  <2>3. QED
    BY <1>1, <1>3, <1>5, <1>6, <2>1, <2>2, TypeFrame
<1>8. SidesOK'
  BY <1>1, <1>2, <1>3, <1>5 DEF SidesOK
<1>9. ASSUME clean
      PROVE  CleanInv'
  <2>1. GotOK' /\ CleanCut(pos)'
    <3>1. CleanCut(pos') /\ GotOK
      BY <1>3, <1>9
    <3>2. QED
      BY <1>1, <3>1, GotFrame DEF CleanCut
  <2>2. BufferOK'
    <3>1. Base' = pos' /\ 0 <= pos'
      BY <1>3, <1>6 DEF Base
    <3>2. pos' + 0 <= Len(stream)
      BY <1>3
    <3>3. QED
      BY <1>1, <1>6, <3>1, <3>2 DEF BufferOK, Holds
  <2>3. ResponseOK'
    <3>1. Turn' = Turn /\ sent'[Turn'] = msg
      BY <1>1 DEF Turn, msg
    <3>2. Holds(state.data, BodyAt(sent[Turn]))'
      BY <1>1, <1>4, <1>5, <1>9, <3>1 DEF Holds, BodyAt
    <3>3. pos' = BodyAt(msg) + Len(state'.data) /\ state'.cap = msg.body
      BY <1>3, <1>4, <1>5, <1>9
    <3>4. Turn' \in DOMAIN sent' /\ state'.m = Turn' /\ msg.chunks = <<>>
      BY <1>1, <1>4, <1>5, <1>9, <3>1
    <3>5. BodyAt(sent[Turn])' = BodyAt(msg)
      BY <3>1 DEF BodyAt
    <3>6. QED
      BY <1>1, <3>1, <3>2, <3>3, <3>4, <3>5 DEF ResponseOK
  <2>4. EmptyOK' /\ RequestOK' /\ ChunkedOK'
    BY <1>1, <1>3, <1>5 DEF EmptyOK, RequestOK, ChunkedOK
  <2>5. NothingHeldBack' /\ OnlyBadRefused'
    BY <1>1, <1>2, <1>3 DEF NothingHeldBack, OnlyBadRefused
  <2>6. QED
    BY <2>1, <2>2, <2>3, <2>4, <2>5 DEF CleanInv
<1>10. QED
  BY <1>1, <1>7, <1>8, <1>9 DEF ReaderInv

\* The body is whole in the buffer; what follows it stays there.
LEMMA FillMessageKept == ASSUME NEW k, ReaderInv, FillMessage(k) PROVE ReaderInv'
<1> DEFINE buf == Filled(k)
           rest == Remaining(buf)
           length == Length(buf)
           msg == sent[Turn]
<1>1. /\ Fills(k) /\ HasHead(buf) /\ ~IsChunked(buf) /\ length < Len(rest)
      /\ header_buffer' = SubSeq(rest, length + 1, Len(rest))
      /\ Return(Message(MessageOf(buf), SubSeq(rest, 1, length)))
      /\ UNCHANGED <<side, clean, stream, sent, state>>
  BY DEF FillMessage, AfterBody
<1>2. Blank(buf) > 0
  BY <1>1 DEF HasHead
<1>3. /\ TypeOK /\ side = "client" /\ state.is = "Empty"
      /\ pos' = pos + k /\ pos' \in Nat /\ pos' <= Len(stream)
      /\ MessageOf(buf) \in Nat /\ length \in Nat /\ rest \in Seq(AnyUnit)
      /\ Len(rest) = Len(buf) - Blank(buf) /\ Len(buf) <= HeaderCap
      /\ Blank(buf) \in 0..Len(buf) /\ buf \in Seq(AnyUnit)
      /\ clean => CleanInv /\ GotOK /\ CleanCut(pos + k)
  BY <1>1, <1>2, ClientFill
<1>4. clean => /\ Turn \in DOMAIN sent /\ MessageOf(buf) = Turn
               /\ Holds(rest, BodyAt(msg)) /\ pos + k = BodyAt(msg) + Len(rest)
               /\ msg.chunks = <<>> /\ length = msg.body
  BY <1>1, <1>2, ClientHead, PlainFound
<1> HIDE DEF buf, rest, length, msg
<1>5. /\ Len(rest) \in Nat /\ length \in 0..Len(rest) /\ Len(rest) \in length..Len(rest)
      /\ length \in Nat
  BY <1>1, <1>3
<1>6. SubSeq(rest, 1, length) \in Seq(AnyUnit) /\ Len(SubSeq(rest, 1, length)) = length
  <2>1. /\ SubSeq(rest, 0 + 1, length) \in Seq(AnyUnit)
        /\ Len(SubSeq(rest, 0 + 1, length)) = length - 0
    <3>1. 0 \in 0..Len(rest) /\ length \in 0..Len(rest)
      BY <1>5
    <3>2. rest \in Seq(AnyUnit)
      BY <1>3
    <3>3. QED
      BY <3>1, <3>2, PartOf
  <2>2. 0 + 1 = 1 /\ length - 0 = length
    BY <1>5
  <2>3. QED
    BY <2>1, <2>2
<1>7. header_buffer' \in Seq(AnyUnit) /\ Len(header_buffer') = Len(rest) - length
  BY <1>1, <1>3, <1>5, PartOf
<1>8. got' \in Seq([m : Nat, body : Seq(AnyUnit)]) /\ outcome' = "some"
  BY <1>1, <1>3, <1>6, GotType
<1>9. TypeOK'
  <2>1. Len(header_buffer') <= HeaderCap
    <3>1. HeaderCap \in Nat /\ Len(buf) \in Nat
      BY <1>3, ReaderAssumption
    <3>2. QED
      BY <1>3, <1>5, <1>7, <3>1
  <2>2. state' \in AnyState /\ Len(state'.data) <= state'.cap
    BY <1>1, <1>3 DEF TypeOK
  <2>3. QED
    BY <1>1, <1>3, <1>7, <1>8, <2>1, <2>2, TypeFrame
<1>10. SidesOK'
  BY <1>1, <1>3, <1>8 DEF SidesOK
<1>11. ASSUME clean
       PROVE  CleanInv'
  <2>1. /\ Turn \in DOMAIN sent /\ MessageOf(buf) = Turn
        /\ Holds(rest, BodyAt(msg)) /\ pos + k = BodyAt(msg) + Len(rest)
        /\ msg.chunks = <<>> /\ length = msg.body
    BY <1>4, <1>11
  <2>2. /\ BodyAt(msg) \in Nat /\ Len(stream) \in Nat /\ Len(got) \in Nat
        /\ msg.end = BodyAt(msg) + msg.body /\ Start(Turn + 1) = msg.end
    <3>1. Len(stream) \in Nat /\ Len(got) \in Nat /\ Start(Turn + 1) = msg.end
      BY <1>3, <2>1, StreamFacts DEF msg, TypeOK
    <3>2. msg.at \in Nat /\ msg.head \in Nat /\ BodyAt(msg) = msg.at + msg.head
      BY <1>3, <2>1, MessageFacts DEF msg
    <3>3. msg.end = BodyAt(msg) + msg.body
      BY <1>3, <2>1, PlainFacts DEF msg
    <3>4. QED
      BY <3>1, <3>2, <3>3
  <2>3. SubSeq(rest, 1, length) = Body(Turn, msg.body)
    <3>1. Holds(SubSeq(rest, 0 + 1, length), BodyAt(msg) + 0)
      <4>1. /\ rest \in Seq(AnyUnit) /\ BodyAt(msg) \in Nat /\ Holds(rest, BodyAt(msg))
            /\ Len(stream) \in Nat /\ 0 \in 0..Len(rest) /\ length \in 0..Len(rest)
        BY <1>3, <1>5, <2>1, <2>2
      <4>2. QED
        BY <4>1, HoldsPart
    <3>2. 0 + 1 = 1 /\ BodyAt(msg) + 0 = BodyAt(msg)
      BY <2>2
    <3>3. Holds(SubSeq(rest, 1, length), BodyAt(msg))
      BY <3>1, <3>2
    <3>4. QED
      BY <1>3, <1>6, <2>1, <3>3, BodyRead DEF msg
  <2>4. GotOK' /\ Len(got') = Len(got) + 1 /\ Turn' = Turn + 1
    BY <1>1, <1>3, <1>11, <2>1, <2>3, GotMore DEF msg
  <2>5. CleanCut(pos)'
    <3>1. Len(got') >= Len(got)
      BY <2>2, <2>4
    <3>2. CleanCut(pos + k)
      BY <1>3, <1>11
    <3>3. QED
      BY <1>1, <1>3, <1>8, <3>1, <3>2, CutFrame
  <2>6. Holds(SubSeq(rest, length + 1, Len(rest)), BodyAt(msg) + length)
    BY <1>3, <1>5, <2>1, <2>2, HoldsPart
  <2>7. BodyAt(msg) + length = msg.end
    BY <2>1, <2>2
  <2>8. Base' = msg.end /\ Len(header_buffer') <= pos'
    <3>1. pos' = BodyAt(msg) + Len(rest)
      BY <1>3, <2>1
    <3>2. Base' = pos' - Len(header_buffer')
      BY DEF Base
    <3>3. BodyAt(msg) \in Nat
      BY <2>2
    <3>4. BodyAt(msg) + Len(rest) - (Len(rest) - length) = BodyAt(msg) + length
      BY <1>5, <3>3
    <3>5. Len(rest) - length <= BodyAt(msg) + Len(rest)
      BY <1>5, <3>3
    <3>6. Len(header_buffer') = Len(rest) - length
      BY <1>7
    <3>7. Base' = BodyAt(msg) + Len(rest) - (Len(rest) - length)
      BY <1>5, <3>1, <3>2, <3>3, <3>6
    <3>8. Base' = msg.end
      BY <2>7, <3>4, <3>7
    <3>9. Len(header_buffer') <= pos'
      BY <3>1, <3>5, <3>6
    <3>10. QED
      BY <3>8, <3>9
  <2>9. BufferOK'
    BY <1>1, <2>6, <2>7, <2>8 DEF BufferOK, Holds
  <2>10. EmptyOK'
    <3>1. Start(Turn)' = Start(Turn + 1)
      BY <1>1, <2>4 DEF Start, StartOf
    <3>2. QED
      BY <2>2, <2>8, <3>1 DEF EmptyOK
  <2>11. RequestOK' /\ ResponseOK' /\ ChunkedOK'
    BY <1>1, <1>3 DEF RequestOK, ResponseOK, ChunkedOK
  <2>12. NothingHeldBack' /\ OnlyBadRefused'
    BY <1>1, <1>3, <1>8 DEF NothingHeldBack, OnlyBadRefused
  <2>13. QED
    BY <2>4, <2>5, <2>9, <2>10, <2>11, <2>12 DEF CleanInv
<1>12. QED
  BY <1>1, <1>9, <1>10, <1>11 DEF ReaderInv

-----------------------------------------------------------------------------
(* read_chunks.                                                            *)

\* What read_chunk_header leaves, whatever the line is.
LEMMA HeaderType ==
  ASSUME NEW buf \in Seq(AnyUnit), Len(buf) <= HeaderCap, LineEnd(buf) > 0,
         NEW m \in Nat, NEW before \in Seq(AnyUnit), NEW how \in {"chunks", "more"},
         Header(buf, m, before, how)
  PROVE  /\ header_buffer' \in Seq(AnyUnit) /\ Len(header_buffer') <= HeaderCap
         /\ outcome' \in {how, "panic"}
         /\ outcome' = how => /\ state' \in AnyState /\ state'.is = "ReadChunkedBody"
                              /\ Len(state'.data) <= state'.cap
         /\ outcome' = "panic" => state' = state
<1>1. /\ LineEnd(buf) \in 0..Len(buf) /\ Len(buf) \in LineEnd(buf)..Len(buf)
      /\ Len(buf) \in Nat /\ LineEnd(buf) \in Nat
  <2>1. LineEnd(buf) \in 0..Len(buf) /\ Len(buf) \in Nat
    BY LineEndPlace
  <2>2. QED
    BY <2>1
<1>2. /\ SubSeq(buf, LineEnd(buf) + 1, Len(buf)) \in Seq(AnyUnit)
      /\ Len(SubSeq(buf, LineEnd(buf) + 1, Len(buf))) = Len(buf) - LineEnd(buf)
  BY <1>1, PartOf
<1>3. Len(buf) - LineEnd(buf) <= HeaderCap
  BY <1>1, ReaderAssumption
<1>4. CASE buf[LineEnd(buf)].kind = "crlf" /\ IsHex(Digits(buf))
  <2>1. PICK n \in HexValues(Digits(buf)) : state' = ReadChunkedBody(m, n + 1, before)
    BY <1>4 DEF Header
  <2>2. n \in Nat
    BY DEF HexValues
  <2>3. /\ state' \in AnyState /\ state'.is = "ReadChunkedBody"
        /\ state'.data = <<>> /\ state'.cap = n + 1
    BY <2>1, <2>2, ChunkedState
  <2>4. Len(state'.data) <= state'.cap
    BY <2>2, <2>3
  <2>5. header_buffer' = SubSeq(buf, LineEnd(buf) + 1, Len(buf)) /\ outcome' = how
    BY <1>4 DEF Header
  <2>6. QED
    BY <1>2, <1>3, <2>3, <2>4, <2>5
<1>5. CASE ~(buf[LineEnd(buf)].kind = "crlf" /\ IsHex(Digits(buf)))
  BY <1>5 DEF Header
<1>6. QED
  BY <1>4, <1>5

\* At the beginning of a chunk its length is found if it is all there.
LEMMA HeaderFound ==
  ASSUME TypeOK, NEW m \in DOMAIN sent, NEW c \in DOMAIN sent[m].chunks,
         NEW buf \in Seq(AnyUnit), Holds(buf, sent[m].chunks[c].at)
  PROVE  LET chunk == sent[m].chunks[c] IN
         /\ Len(buf) <= chunk.digits => LineEnd(buf) = 0
         /\ Len(buf) > chunk.digits =>
              /\ LineEnd(buf) = chunk.digits + 1 /\ buf[LineEnd(buf)].kind = "crlf"
              /\ Digits(buf) = Line(stream, chunk)
              /\ IsHex(Digits(buf)) => HexValues(Digits(buf)) = {chunk.size}
<1> DEFINE chunk == sent[m].chunks[c]
<1>1. /\ chunk.at \in Nat /\ chunk.digits \in Nat
      /\ DataAt(chunk) = chunk.at + chunk.digits + 1 /\ IsChunk(stream, m, chunk)
  BY ChunkFacts
<1>2. chunk.digits \in Nat
  BY <1>1
<1>3. Holds(buf, chunk.at) /\ Len(buf) \in Nat
  OBVIOUS
<1> HIDE DEF chunk
<1>4. /\ \A i \in 1..chunk.digits : stream[chunk.at + i].kind \in {"digit", "text"}
      /\ IsHex(Line(stream, chunk)) => HexValues(Line(stream, chunk)) = {chunk.size}
      /\ stream[DataAt(chunk)].kind = "crlf"
  BY <1>1 DEF IsChunk
<1>5. /\ LineEnd(buf) \in 0..Len(buf)
      /\ LineEnd(buf) > 0 => buf[LineEnd(buf)].kind \in {"crlf", "blank"}
      /\ \A i \in 1..Len(buf) :
           LineEnd(buf) = 0 \/ i < LineEnd(buf) => buf[i].kind \notin {"crlf", "blank"}
  BY LineEndPlace
<1>6. \A i \in 1..Len(buf) : buf[i] = stream[chunk.at + i]
  BY <1>3 DEF Holds
<1>7. \A i \in 1..Len(buf) : i <= chunk.digits => buf[i].kind \in {"digit", "text"}
  <2> TAKE i \in 1..Len(buf)
  <2> HAVE i <= chunk.digits
  <2>1. i \in 1..chunk.digits
    BY <1>2
  <2>2. QED
    BY <1>4, <1>6, <2>1
<1>8. ASSUME Len(buf) <= chunk.digits
      PROVE  LineEnd(buf) = 0
  <2>1. ~(LineEnd(buf) > 0)
    <3>1. SUFFICES ASSUME LineEnd(buf) > 0
                   PROVE  FALSE
      OBVIOUS
    <3>2. LineEnd(buf) \in 1..Len(buf) /\ LineEnd(buf) <= chunk.digits
      BY <1>2, <1>3, <1>5, <1>8, <3>1
    <3>3. QED
      BY <1>5, <1>7, <3>1, <3>2
  <2>2. QED
    BY <1>3, <1>5, <2>1
<1>9. ASSUME Len(buf) > chunk.digits
      PROVE  /\ LineEnd(buf) = chunk.digits + 1 /\ buf[LineEnd(buf)].kind = "crlf"
             /\ Digits(buf) = Line(stream, chunk)
             /\ IsHex(Digits(buf)) => HexValues(Digits(buf)) = {chunk.size}
  <2>1. chunk.digits + 1 \in 1..Len(buf) /\ chunk.at + (chunk.digits + 1) = DataAt(chunk)
    BY <1>1, <1>2, <1>3, <1>9
  <2>2. buf[chunk.digits + 1].kind = "crlf"
    BY <1>4, <1>6, <2>1
  <2>3. LineEnd(buf) # 0 /\ ~(chunk.digits + 1 < LineEnd(buf))
    BY <1>5, <2>1, <2>2
  <2>4. ~(LineEnd(buf) <= chunk.digits)
    <3>1. SUFFICES ASSUME LineEnd(buf) <= chunk.digits
                   PROVE  FALSE
      OBVIOUS
    <3>2. LineEnd(buf) \in 1..Len(buf) /\ LineEnd(buf) > 0
      BY <1>3, <1>5, <2>3
    <3>3. QED
      BY <1>5, <1>7, <3>1, <3>2
  <2>5. LineEnd(buf) = chunk.digits + 1
    BY <1>2, <1>3, <1>5, <2>3, <2>4
  <2>6. LineEnd(buf) - 1 = chunk.digits
    BY <1>2, <2>5
  <2>7. Digits(buf) = SubSeq(buf, 1, chunk.digits)
    BY <2>6 DEF Digits
  <2>8. /\ Digits(buf) \in Seq(AnyUnit) /\ Len(Digits(buf)) = chunk.digits
        /\ \A i \in 1..chunk.digits : Digits(buf)[i] = buf[i]
    <3>1. 0 \in 0..Len(buf) /\ chunk.digits \in 0..Len(buf)
      BY <1>2, <1>3, <1>9
    <3>2. /\ SubSeq(buf, 0 + 1, chunk.digits) \in Seq(AnyUnit)
          /\ Len(SubSeq(buf, 0 + 1, chunk.digits)) = chunk.digits - 0
          /\ \A i \in 1..(chunk.digits - 0) : SubSeq(buf, 0 + 1, chunk.digits)[i] = buf[0 + i]
      BY <3>1, PartOf
    <3>3. 0 + 1 = 1 /\ chunk.digits - 0 = chunk.digits /\ \A i \in 1..chunk.digits : 0 + i = i
      BY <1>2
    <3>4. QED
      BY <2>7, <3>2, <3>3
  <2>9. \A i \in 1..chunk.digits : i \in 1..Len(buf) /\ i <= chunk.digits
    BY <1>2, <1>3, <1>9
  <2>10. Digits(buf) = Line(stream, chunk)
    <3>1. chunk.at + chunk.digits <= Len(stream) /\ stream \in Seq(AnyUnit) /\ Len(stream) \in Nat
      <4>1. chunk.at + Len(buf) <= Len(stream)
        BY <1>3 DEF Holds
      <4>2. stream \in Seq(AnyUnit) /\ Len(stream) \in Nat
        BY StreamFacts
      <4>3. QED
        BY <1>1, <1>2, <1>3, <1>9, <4>1, <4>2
    <3>2. /\ chunk.at \in 0..Len(stream) /\ chunk.at + chunk.digits \in chunk.at..Len(stream)
          /\ chunk.at + chunk.digits - chunk.at = chunk.digits
      BY <1>1, <1>2, <3>1
    <3>3. /\ SubSeq(stream, chunk.at + 1, chunk.at + chunk.digits) \in Seq(AnyUnit)
          /\ Len(SubSeq(stream, chunk.at + 1, chunk.at + chunk.digits)) = chunk.digits
          /\ \A i \in 1..chunk.digits :
               SubSeq(stream, chunk.at + 1, chunk.at + chunk.digits)[i] = stream[chunk.at + i]
      <4>1. PICK j \in chunk.at..Len(stream) : j = chunk.at + chunk.digits
        BY <3>2
      <4>2. /\ SubSeq(stream, chunk.at + 1, j) \in Seq(AnyUnit)
            /\ Len(SubSeq(stream, chunk.at + 1, j)) = j - chunk.at
            /\ \A i \in 1..(j - chunk.at) : SubSeq(stream, chunk.at + 1, j)[i] = stream[chunk.at + i]
        BY <3>1, <3>2, PartOf
      <4>3. j - chunk.at = chunk.digits
        <5>1. chunk.at \in Nat /\ chunk.digits \in Nat /\ j = chunk.at + chunk.digits
          BY <1>1, <1>2, <4>1
        <5>2. QED
          BY <5>1
      <4>4. QED
        BY <4>1, <4>2, <4>3
    <3>4. \A i \in 1..chunk.digits : Digits(buf)[i] = stream[chunk.at + i]
      BY <1>6, <2>8, <2>9
    <3>5. PICK part \in Seq(AnyUnit) :
            /\ part = SubSeq(stream, chunk.at + 1, chunk.at + chunk.digits)
            /\ Len(part) = chunk.digits
            /\ \A i \in 1..chunk.digits : part[i] = stream[chunk.at + i]
      BY <3>3
    <3>6. /\ Len(Digits(buf)) = Len(part)
          /\ \A i \in 1..Len(Digits(buf)) : Digits(buf)[i] = part[i]
      BY <2>8, <3>4, <3>5
    <3>7. Digits(buf) = part
      BY <2>8, <3>5, <3>6, SeqEqual
    <3>8. QED
      BY <3>5, <3>7 DEF Line
  <2>11. QED
    BY <1>4, <2>2, <2>5, <2>10
<1>10. QED
  BY <1>8, <1>9 DEF chunk

\* A line that is no length may make the client panic.
LEMMA BadLine ==
  ASSUME TypeOK, Turn \in DOMAIN sent, NEW c \in DOMAIN sent[Turn].chunks,
         ~IsHex(Line(stream, sent[Turn].chunks[c])),
         UNCHANGED <<side, clean, stream, sent, got>>, outcome' = "panic"
  PROVE  NothingHeldBack' /\ OnlyBadRefused'
<1>1. Len(got) \in Nat /\ Len(sent) \in Nat /\ DOMAIN sent = 1..Len(sent)
  BY StreamFacts DEF TypeOK
<1>2. Len(got) < Len(sent)
  BY <1>1 DEF Turn
<1>3. \E d \in DOMAIN sent[Len(got) + 1].chunks : ~IsHex(Line(stream, sent[Len(got) + 1].chunks[d]))
  BY DEF Turn
<1>4. \A chunk : IsHex(Line(stream, chunk))' <=> IsHex(Line(stream, chunk))
  BY DEF IsHex, Line
<1>5. NothingHeldBack'
  BY DEF NothingHeldBack
<1>6. OnlyBadRefused'
  BY <1>2, <1>3, <1>4 DEF OnlyBadRefused
<1>7. QED
  BY <1>5, <1>6

\* What read_chunk_header does with such a line.
LEMMA HeaderRefused ==
  ASSUME TypeOK, Turn \in DOMAIN sent, NEW c \in DOMAIN sent[Turn].chunks,
         NEW buf \in Seq(AnyUnit), Holds(buf, sent[Turn].chunks[c].at), LineEnd(buf) > 0,
         UNCHANGED <<side, clean, stream, sent, got>>,
         NEW before, NEW how, Header(buf, Turn, before, how), ~IsHex(Digits(buf))
  PROVE  /\ outcome' = "panic" /\ header_buffer' = buf /\ state' = state
         /\ NothingHeldBack' /\ OnlyBadRefused'
<1> DEFINE chunk == sent[Turn].chunks[c]
<1>1. outcome' = "panic" /\ header_buffer' = buf /\ state' = state
  BY DEF Header
<1>2. Len(buf) > chunk.digits
  <2>1. chunk.digits \in Nat /\ Len(buf) \in Nat
    BY ChunkFacts
  <2>2. ~(Len(buf) <= chunk.digits)
    BY HeaderFound
  <2>3. QED
    BY <2>1, <2>2
<1>3. Digits(buf) = Line(stream, chunk)
  BY <1>2, HeaderFound
<1>4. QED
  BY <1>1, <1>3, BadLine

\* A chunk begins; what came before it of the body is there.
LEMMA ChunkBegun ==
  ASSUME TypeOK, side = "client", GotOK, UNCHANGED <<side, clean, stream, sent, got>>,
         Turn \in DOMAIN sent, NEW c \in DOMAIN sent[Turn].chunks,
         NEW buf \in Seq(AnyUnit), Holds(buf, sent[Turn].chunks[c].at),
         LineEnd(buf) > 0, pos' = sent[Turn].chunks[c].at + Len(buf), CleanCut(pos'),
         NEW how \in {"chunks", "more"},
         Header(buf, Turn, Body(Turn, sent[Turn].chunks[c].from), how), IsHex(Digits(buf))
  PROVE  CleanInv'
<1> DEFINE chunk == sent[Turn].chunks[c]
           before == Body(Turn, chunk.from)
<1>1. /\ chunk.at \in Nat /\ chunk.digits \in Nat /\ chunk.size \in Nat
      /\ chunk.from \in Nat /\ DataAt(chunk) = chunk.at + chunk.digits + 1
  BY ChunkFacts
<1>2. chunk.digits \in Nat
  BY <1>1
<1>3. Turn \in Nat /\ Len(stream) \in Nat
  BY StreamFacts
<1>4. before \in Seq(AnyUnit)
  BY <1>1, <1>3, BodyType
<1>5. /\ Len(buf) <= chunk.digits => LineEnd(buf) = 0
      /\ Len(buf) > chunk.digits =>
           /\ LineEnd(buf) = chunk.digits + 1 /\ buf[LineEnd(buf)].kind = "crlf"
           /\ IsHex(Digits(buf)) /\ HexValues(Digits(buf)) = {chunk.size}
  BY HeaderFound
<1>6. Len(buf) \in Nat /\ Holds(buf, chunk.at) /\ pos' = chunk.at + Len(buf) /\ LineEnd(buf) > 0
  OBVIOUS
<1>7. Header(buf, Turn, before, how)
  OBVIOUS
<1> HIDE DEF chunk, before
<1>8. Len(buf) > chunk.digits
  <2>1. ~(Len(buf) <= chunk.digits)
    BY <1>5, <1>6
  <2>2. QED
    BY <1>2, <1>6, <2>1
<1>9. /\ state' = ReadChunkedBody(Turn, chunk.size + 1, before) /\ outcome' = how
      /\ header_buffer' = SubSeq(buf, (chunk.digits + 1) + 1, Len(buf))
  BY <1>5, <1>7, <1>8 DEF Header
<1>10. /\ state' \in AnyState /\ state'.is = "ReadChunkedBody" /\ state'.m = Turn
       /\ state'.cap = chunk.size + 1 /\ state'.before = before /\ state'.data = <<>>
  <2>1. chunk.size + 1 \in Nat
    BY <1>1
  <2>2. QED
    BY <1>3, <1>4, <1>9, <2>1, ChunkedState
<1>11. /\ Len(header_buffer') = Len(buf) - (chunk.digits + 1)
       /\ Holds(header_buffer', chunk.at + (chunk.digits + 1))
  <2>1. chunk.digits + 1 \in 0..Len(buf) /\ Len(buf) \in (chunk.digits + 1)..Len(buf)
    BY <1>2, <1>6, <1>8
  <2>2. QED
    BY <1>1, <1>3, <1>6, <1>9, <2>1, HoldsPart
<1>12. chunk.at + (chunk.digits + 1) = DataAt(chunk) /\ DataAt(chunk) \in Nat
  <2>1. DataAt(chunk) = chunk.at + chunk.digits + 1 /\ chunk.at \in Nat /\ chunk.digits \in Nat
    BY <1>1
  <2>2. QED
    BY <2>1
<1>13. Base' = DataAt(chunk) /\ Len(header_buffer') <= pos'
  <2>1. Base' = pos' - Len(header_buffer')
    BY DEF Base
  <2>2. chunk.at \in Nat /\ Len(buf) \in Nat /\ chunk.digits + 1 \in Nat /\ chunk.digits + 1 <= Len(buf)
    <3>1. chunk.at \in Nat /\ Len(buf) \in Nat /\ chunk.digits \in Nat
      BY <1>1, <1>2, <1>6
    <3>2. chunk.digits + 1 \in 0..Len(buf)
      BY <1>2, <1>6, <1>8
    <3>3. QED
      BY <3>1, <3>2
  <2>3. /\ (chunk.at + Len(buf)) - (Len(buf) - (chunk.digits + 1)) = chunk.at + (chunk.digits + 1)
        /\ Len(buf) - (chunk.digits + 1) <= chunk.at + Len(buf)
    BY <2>2, Behind
  <2>4. pos' = chunk.at + Len(buf)
    BY <1>6
  <2>5. Len(header_buffer') = Len(buf) - (chunk.digits + 1)
    BY <1>11
  <2>6. Len(header_buffer') <= pos'
    BY <2>3, <2>4, <2>5, Zenon
  <2>7. Base' = chunk.at + (chunk.digits + 1)
    BY <2>1, <2>3, <2>4, <2>5, Zenon
  <2>8. QED
    BY <1>12, <2>6, <2>7
<1>14. BufferOK'
  BY <1>11, <1>12, <1>13 DEF BufferOK, Holds
<1>15. ChunkedOK'
  <2>1. Turn' = Turn /\ sent'[Turn'].chunks[c] = chunk /\ DOMAIN sent'[Turn'].chunks = DOMAIN sent[Turn].chunks
    BY DEF Turn, chunk
  <2>2. state'.before = Body(Turn, chunk.from) /\ Len(state'.data) = 0
    BY <1>10 DEF before
  <2>3. state'.cap = chunk.size + 1 /\ 0 < chunk.size + 1
    BY <1>1, <1>10
  <2>4. Base' = DataAt(chunk) + 0
    BY <1>12, <1>13
  <2>5. InChunk(chunk)'
    <3>1. Turn' = Turn /\ chunk' = chunk /\ DOMAIN state'.data = {}
      BY <1>10, <2>1 DEF chunk
    <3>2. /\ DataAt(chunk)' = DataAt(chunk)
      BY <3>1 DEF DataAt
    <3>3. state'.before = Body(Turn', chunk'.from)
      BY <2>2, <3>1
    <3>4. /\ state'.cap = chunk'.size + 1 /\ Len(state'.data) < state'.cap
          /\ Base' = DataAt(chunk)' + Len(state'.data)
      BY <2>2, <2>3, <2>4, <3>1, <3>2
    <3>5. Body(Turn, chunk.from)' = Body(Turn, chunk.from)
      BY <3>1 DEF Body
    <3>6. QED
      BY <2>2, <3>1, <3>4, <3>5 DEF InChunk
  <2>6. Turn' \in DOMAIN sent' /\ state'.m = Turn'
    BY <1>10, <2>1
  <2>7. InChunk(sent[Turn].chunks[c])' /\ c \in DOMAIN sent'[Turn'].chunks
    BY <2>1, <2>5 DEF chunk
  <2>8. QED
    BY <2>6, <2>7 DEF ChunkedOK
<1>16. EmptyOK' /\ RequestOK' /\ ResponseOK'
  BY <1>10 DEF EmptyOK, RequestOK, ResponseOK
<1>17. GotOK' /\ CleanCut(pos)'
  <2>1. GotOK'
    BY GotFrame
  <2>2. CleanCut(pos)'
    BY DEF CleanCut
  <2>3. QED
    BY <2>1, <2>2
<1>18. NothingHeldBack' /\ OnlyBadRefused'
  BY <1>9 DEF NothingHeldBack, OnlyBadRefused
<1>19. QED
  BY <1>14, <1>15, <1>16, <1>17, <1>18 DEF CleanInv

LEMMA FillChunksKept == ASSUME NEW k, ReaderInv, FillChunks(k) PROVE ReaderInv'
<1> DEFINE buf == Filled(k)
           rest == Remaining(buf)
           msg == sent[Turn]
<1>1. /\ Fills(k) /\ HasHead(buf) /\ IsChunked(buf)
      /\ Header(rest, MessageOf(buf), <<>>, "chunks")
      /\ UNCHANGED <<side, clean, stream, sent, got>>
  BY DEF FillChunks
<1>2. Blank(buf) > 0 /\ LineEnd(rest) > 0 /\ buf[Blank(buf)].n = NoLength
  BY <1>1 DEF HasHead, IsChunked
<1>3. /\ TypeOK /\ side = "client" /\ state.is = "Empty"
      /\ pos' = pos + k /\ pos' \in Nat /\ pos' <= Len(stream)
      /\ MessageOf(buf) \in Nat /\ rest \in Seq(AnyUnit)
      /\ Len(rest) = Len(buf) - Blank(buf) /\ Len(buf) <= HeaderCap
      /\ Blank(buf) \in 0..Len(buf) /\ buf \in Seq(AnyUnit)
      /\ clean => CleanInv /\ GotOK /\ CleanCut(pos + k)
  BY <1>1, <1>2, ClientFill
<1>4. clean => /\ Turn \in DOMAIN sent /\ MessageOf(buf) = Turn
               /\ buf[Blank(buf)].n = msg.length
               /\ Holds(rest, BodyAt(msg)) /\ pos + k = BodyAt(msg) + Len(rest)
               /\ msg.length = NoLength /\ msg.chunks = <<>> => Len(rest) = 0
  BY <1>1, <1>2, ClientHead
<1> HIDE DEF buf, rest, msg
<1>5. Len(rest) <= HeaderCap
  <2>1. Len(buf) \in Nat /\ HeaderCap \in Nat
    BY <1>3, ReaderAssumption
  <2>2. QED
    BY <1>3, <2>1
<1>6. <<>> \in Seq(AnyUnit) /\ "chunks" \in {"chunks", "more"}
  OBVIOUS
<1>7. /\ header_buffer' \in Seq(AnyUnit) /\ Len(header_buffer') <= HeaderCap
      /\ outcome' \in {"chunks", "panic"}
      /\ outcome' = "chunks" => /\ state' \in AnyState /\ state'.is = "ReadChunkedBody"
                                /\ Len(state'.data) <= state'.cap
      /\ outcome' = "panic" => state' = state
  BY <1>1, <1>2, <1>3, <1>5, <1>6, HeaderType
<1>8. TypeOK'
  <2>1. state' \in AnyState /\ Len(state'.data) <= state'.cap
    BY <1>3, <1>7 DEF TypeOK
  <2>2. got' \in Seq([m : Nat, body : Seq(AnyUnit)])
    BY <1>1, <1>3 DEF TypeOK
  <2>3. QED
    BY <1>1, <1>3, <1>7, <2>1, <2>2, TypeFrame
<1>9. SidesOK'
  BY <1>1, <1>3, <1>7 DEF SidesOK
<1>10. ASSUME clean
       PROVE  CleanInv'
  <2>1. /\ Turn \in DOMAIN sent /\ MessageOf(buf) = Turn /\ buf[Blank(buf)].n = msg.length
        /\ Holds(rest, BodyAt(msg)) /\ pos + k = BodyAt(msg) + Len(rest)
        /\ GotOK /\ CleanCut(pos')
    BY <1>3, <1>4, <1>10
  <2>2. msg.chunks # <<>>
    <3>1. LineEnd(rest) \in 0..Len(rest) /\ Len(rest) \in Nat
      BY <1>3, LineEndPlace
    <3>2. Len(rest) # 0
      BY <1>2, <3>1
    <3>3. QED
      BY <1>2, <1>4, <1>10, <2>1, <3>2
  <2>3. AreChunks(stream, Turn, msg) /\ msg.chunks \in Seq(AnyChunk)
    BY <1>3, <2>1, <2>2, StreamFacts, MessageFacts DEF IsMessage, msg
  <2>4. 1 \in DOMAIN msg.chunks
    BY <2>2, <2>3
  <2>5. msg.chunks[1].at = BodyAt(msg) /\ msg.chunks[1].from = 0
    BY <2>3 DEF AreChunks
  <2>6. Body(Turn, 0) = <<>>
    <3>1. Turn \in Nat
      BY <1>3, <2>1, MessageFacts
    <3>2. Body(Turn, 0) \in Seq(AnyUnit) /\ Len(Body(Turn, 0)) = 0
      BY <3>1, BodyType
    <3>3. QED
      BY <3>2
  <2>7. Header(rest, Turn, Body(Turn, msg.chunks[1].from), "chunks")
    BY <1>1, <2>1, <2>5, <2>6
  <2>8. Holds(rest, msg.chunks[1].at) /\ pos' = msg.chunks[1].at + Len(rest)
    BY <1>3, <2>1, <2>5
  <2>9. CASE IsHex(Digits(rest))
    BY <1>1, <1>2, <1>3, <1>6, <2>1, <2>4, <2>7, <2>8, <2>9, ChunkBegun DEF msg
  <2>10. CASE ~IsHex(Digits(rest))
    <3>1. /\ outcome' = "panic" /\ header_buffer' = rest /\ state' = state
          /\ NothingHeldBack' /\ OnlyBadRefused'
      BY <1>1, <1>2, <1>3, <2>1, <2>4, <2>7, <2>8, <2>10, HeaderRefused DEF msg
    <3>2. GotOK' /\ CleanCut(pos)'
      BY <1>1, <2>1, GotFrame DEF CleanCut
    <3>3. BufferOK'
      <4>1. BodyAt(msg) \in Nat /\ Len(rest) \in Nat
        BY <1>3, <2>1, MessageFacts DEF msg
      <4>2. Base' = BodyAt(msg) /\ Len(rest) <= pos'
        BY <1>3, <2>1, <3>1, <4>1 DEF Base
      <4>3. QED
        BY <1>1, <2>1, <3>1, <4>2 DEF BufferOK, Holds
    <3>4. EmptyOK' /\ RequestOK' /\ ResponseOK' /\ ChunkedOK'
      BY <1>3, <3>1 DEF EmptyOK, RequestOK, ResponseOK, ChunkedOK
    <3>5. QED
      BY <3>1, <3>2, <3>3, <3>4 DEF CleanInv
  <2>11. QED
    BY <2>9, <2>10
<1>11. QED
  BY <1>1, <1>8, <1>9, <1>10 DEF ReaderInv

\* A later read brings more of the chunks.
LEMMA ReadMoreChunksKept == ASSUME NEW k, ReaderInv, ReadMoreChunks(k) PROVE ReaderInv'
<1>1. /\ state.is = "ReadChunkedBody" /\ k \in Readable(Room) \cup {0} /\ pos' = pos + k
      /\ header_buffer' = Filled(k) /\ outcome' = "more"
      /\ UNCHANGED <<side, clean, stream, sent, state, got>>
  BY DEF ReadMoreChunks, Reading, In
<1>2. TypeOK /\ SidesOK /\ (clean => CleanInv)
  BY DEF ReaderInv
<1>3. /\ k \in Nat /\ pos + k \in Nat /\ pos + k <= Len(stream)
      /\ Filled(k) \in Seq(AnyUnit) /\ Len(Filled(k)) = Len(header_buffer) + k
      /\ Len(Filled(k)) <= HeaderCap
      /\ clean => /\ CleanCut(pos + k) /\ pos + k - Len(Filled(k)) = Base
                  /\ Base \in Nat /\ Holds(Filled(k), Base)
  <2>1. k \in Readable(Room) \/ k = 0
    BY <1>1
  <2>2. QED
    BY <1>1, <2>1, FilledFacts
<1>4. TypeOK'
  <2>1. /\ state' \in AnyState /\ Len(state'.data) <= state'.cap
        /\ got' \in Seq([m : Nat, body : Seq(AnyUnit)])
    BY <1>1, <1>2 DEF TypeOK
  <2>2. QED
    BY <1>1, <1>2, <1>3, <2>1, TypeFrame
<1>5. SidesOK'
  BY <1>1, <1>2 DEF SidesOK
<1>6. ASSUME clean
      PROVE  CleanInv'
  <2>1. GotOK' /\ CleanCut(pos)'
    <3>1. CleanCut(pos') /\ GotOK
      BY <1>1, <1>2, <1>3, <1>6 DEF CleanInv
    <3>2. QED
      BY <1>1, <3>1, GotFrame DEF CleanCut
  <2>2. Base' = Base /\ Len(header_buffer') <= pos'
    <3>1. Base' = pos' - Len(header_buffer')
      BY DEF Base
    <3>2. pos' = pos + k /\ header_buffer' = Filled(k)
      BY <1>1
    <3>3. pos \in Nat /\ k \in Nat /\ Len(Filled(k)) \in Nat
      BY <1>2, <1>3, StreamFacts
    <3>4. pos + k - Len(Filled(k)) = Base /\ Base \in Nat
      BY <1>3, <1>6
    <3>5. Base' = Base
      BY <3>1, <3>2, <3>3, <3>4
    <3>6. Len(header_buffer') <= pos'
      BY <3>2, <3>3, <3>4
    <3>7. QED
      BY <3>5, <3>6
  <2>3. BufferOK'
    BY <1>1, <1>3, <1>6, <2>2 DEF BufferOK, Holds
  <2>4. ChunkedOK'
    <3>1. ChunkedOK
      BY <1>2, <1>6 DEF CleanInv
    <3>2. QED
      BY <1>1, <2>2, <3>1 DEF ChunkedOK, InChunk, Turn
  <2>5. EmptyOK' /\ RequestOK' /\ ResponseOK'
    BY <1>1 DEF EmptyOK, RequestOK, ResponseOK
  <2>6. NothingHeldBack' /\ OnlyBadRefused'
    BY <1>1, <1>2 DEF NothingHeldBack, OnlyBadRefused, SidesOK
  <2>7. QED
    BY <2>1, <2>3, <2>4, <2>5, <2>6 DEF CleanInv
<1>7. QED
  BY <1>1, <1>4, <1>5, <1>6 DEF ReaderInv

\* Where read_chunks is: within a chunk, or behind one that is not the last,
\* at the beginning of the next.
LEMMA ChunksFacts ==
  ASSUME ReaderInv, clean, state.is = "ReadChunkedBody"
  PROVE  /\ TypeOK /\ CleanInv /\ Turn \in DOMAIN sent /\ state.m = Turn /\ side = "client"
         /\ header_buffer \in Seq(AnyUnit) /\ state.data \in Seq(AnyUnit)
         /\ Len(header_buffer) \in Nat /\ Len(state.data) \in Nat /\ state.cap \in Nat
         /\ state.before \in Seq(AnyUnit)
         /\ pos \in Nat /\ pos = Base + Len(header_buffer) /\ Base \in Nat
         /\ \E c \in DOMAIN sent[Turn].chunks : InChunk(sent[Turn].chunks[c])
<1>1. TypeOK /\ SidesOK /\ CleanInv
  BY DEF ReaderInv
<1>2. side = "client" /\ state \in AnyState /\ header_buffer \in Seq(AnyUnit)
  BY <1>1 DEF SidesOK, TypeOK
<1>3. /\ Turn \in DOMAIN sent /\ state.m = Turn
      /\ \E c \in DOMAIN sent[Turn].chunks : InChunk(sent[Turn].chunks[c])
  BY <1>1 DEF CleanInv, ChunkedOK
<1>4. state.data \in Seq(AnyUnit) /\ state.cap \in Nat /\ state.before \in Seq(AnyUnit)
  BY <1>2 DEF AnyState
<1>5. Len(header_buffer) \in Nat /\ Len(state.data) \in Nat /\ pos \in Nat
  BY <1>1, <1>2, <1>4, StreamFacts
<1>6. Len(header_buffer) <= pos
  BY <1>1 DEF CleanInv, BufferOK
<1>7. pos = Base + Len(header_buffer) /\ Base \in Nat
  BY <1>5, <1>6 DEF Base
<1>8. QED
  BY <1>1, <1>2, <1>3, <1>4, <1>5, <1>7

\* A part of a body, and a part that goes behind it.
LEMMA BodyJoined ==
  ASSUME NEW m \in Nat, NEW from \in Nat, NEW before \in Seq(AnyUnit), before = Body(m, from),
         NEW data \in Seq(AnyUnit),
         \A i \in DOMAIN data : data[i] = Unit(m, "data", from + i)
  PROVE  before \o data = Body(m, from + Len(data))
<1>1. PICK size \in Nat : size = Len(data)
  OBVIOUS
<1>2. PICK all \in Nat : all = from + size
  OBVIOUS
<1>3. Len(before) = from
  BY BodyType
<1>4. Body(m, all) \in Seq(AnyUnit) /\ Len(Body(m, all)) = all
  BY BodyType
<1>5. /\ before \o data \in Seq(AnyUnit) /\ Len(before \o data) = Len(before) + Len(data)
      /\ \A i \in 1..(Len(before) + Len(data)) :
           (before \o data)[i] = IF i <= Len(before) THEN before[i] ELSE data[i - Len(before)]
  OBVIOUS
<1>6. Len(before) + Len(data) = all
  BY <1>1, <1>2, <1>3
<1>7. Len(before \o data) = all
  BY <1>5, <1>6
<1>8. ASSUME NEW i \in 1..all
      PROVE  (before \o data)[i] = Body(m, all)[i]
  <2>1. Body(m, all)[i] = Unit(m, "data", i)
    BY DEF Body
  <2>2. CASE i <= from
    <3>1. i \in 1..from
      BY <1>2, <2>2
    <3>2. before[i] = Unit(m, "data", i)
      BY <3>1 DEF Body
    <3>3. QED
      BY <1>3, <1>5, <1>6, <2>1, <2>2, <3>2
  <2>3. CASE ~(i <= from)
    <3>1. i - from \in 1..size /\ from + (i - from) = i
      BY <1>2, <2>3
    <3>2. data[i - from] = Unit(m, "data", i)
      BY <1>1, <3>1
    <3>3. QED
      BY <1>3, <1>5, <1>6, <2>1, <2>3, <3>2
  <2>4. QED
    BY <2>2, <2>3
<1>9. before \o data = Body(m, all)
  BY <1>4, <1>5, <1>7, <1>8, SeqEqual
<1>10. QED
  BY <1>1, <1>2, <1>9

\* Behind a chunk that is not the last, the next one begins.
LEMMA NextBegins ==
  ASSUME ReaderInv, clean, state.is = "ReadChunkedBody", state.cap > 0, BodyRoom = 0
  PROVE  \E c \in DOMAIN sent[Turn].chunks :
           /\ sent[Turn].chunks[c].at = Base
           /\ state.before \o state.data = Body(Turn, sent[Turn].chunks[c].from)
<1> DEFINE chunks == sent[Turn].chunks
<1>1. /\ TypeOK /\ Turn \in DOMAIN sent /\ state.data \in Seq(AnyUnit) /\ Len(state.data) \in Nat
      /\ state.cap \in Nat /\ state.before \in Seq(AnyUnit)
  BY ChunksFacts
<1>2. PICK c \in DOMAIN chunks : InChunk(chunks[c])
  BY ChunksFacts
<1>3. /\ chunks[c].size \in Nat /\ chunks[c].from \in Nat
      /\ chunks[c].size > 0 => /\ c + 1 \in DOMAIN chunks
                               /\ chunks[c + 1].at = ChunkEnd(chunks[c])
                               /\ chunks[c + 1].from = chunks[c].from + chunks[c].size
  BY <1>1, ChunkFacts
<1> HIDE DEF chunks
<1>4. Len(state.data) = state.cap
  BY <1>1 DEF BodyRoom
<1>5. state.cap = chunks[c].size /\ Base = ChunkEnd(chunks[c])
  <2>1. ~(Len(state.data) < state.cap)
    BY <1>1, <1>4
  <2>2. QED
    BY <1>2, <2>1 DEF InChunk
<1>6. /\ state.before = Body(Turn, chunks[c].from)
      /\ \A i \in DOMAIN state.data : state.data[i] = Unit(Turn, "data", chunks[c].from + i)
  BY <1>2 DEF InChunk
<1>7. /\ c + 1 \in DOMAIN chunks /\ chunks[c + 1].at = Base
      /\ chunks[c + 1].from = chunks[c].from + chunks[c].size
  BY <1>3, <1>5
<1>8. state.before \o state.data = Body(Turn, chunks[c].from + Len(state.data))
  <2>1. PICK from \in Nat : from = chunks[c].from
    BY <1>3
  <2>2. Turn \in Nat
    BY <1>1, MessageFacts
  <2>3. state.before \o state.data = Body(Turn, from + Len(state.data))
    <3>1. /\ state.before \in Seq(AnyUnit) /\ state.data \in Seq(AnyUnit)
          /\ state.before = Body(Turn, from)
          /\ \A i \in DOMAIN state.data : state.data[i] = Unit(Turn, "data", from + i)
      BY <1>1, <1>6, <2>1
    <3>2. QED
      BY <2>1, <2>2, <3>1, BodyJoined
  <2>4. QED
    BY <2>1, <2>3
<1>9. QED
  BY <1>4, <1>5, <1>7, <1>8 DEF chunks

LEMMA NextChunkKept == ReaderInv /\ NextChunk => ReaderInv'
<1> SUFFICES ASSUME ReaderInv, NextChunk
             PROVE  ReaderInv'
  OBVIOUS
<1> DEFINE before == state.before \o state.data
<1>1. /\ outcome \in {"chunks", "more"} /\ state.cap > 0 /\ BodyRoom = 0
      /\ LineEnd(header_buffer) > 0 /\ Header(header_buffer, state.m, before, outcome)
      /\ UNCHANGED <<side, clean, stream, sent, pos, got>>
  BY DEF NextChunk, InChunks
<1>2. TypeOK /\ SidesOK /\ state.is = "ReadChunkedBody" /\ side = "client"
  BY <1>1 DEF ReaderInv, SidesOK
<1>3. /\ header_buffer \in Seq(AnyUnit) /\ Len(header_buffer) <= HeaderCap
      /\ state.m \in Nat /\ before \in Seq(AnyUnit)
  BY <1>2 DEF TypeOK, AnyState
<1>4. pos \in Nat /\ pos <= Len(stream)
  BY <1>2, StreamFacts
<1> HIDE DEF before
<1>5. /\ header_buffer' \in Seq(AnyUnit) /\ Len(header_buffer') <= HeaderCap
      /\ outcome' \in {outcome, "panic"}
      /\ outcome' = outcome => /\ state' \in AnyState /\ state'.is = "ReadChunkedBody"
                               /\ Len(state'.data) <= state'.cap
      /\ outcome' = "panic" => state' = state
  BY <1>1, <1>3, HeaderType
<1>6. TypeOK'
  <2>1. state' \in AnyState /\ Len(state'.data) <= state'.cap
    BY <1>2, <1>5 DEF TypeOK
  <2>2. /\ got' \in Seq([m : Nat, body : Seq(AnyUnit)])
        /\ outcome' \in {"runs", "chunks", "more", "none", "some", "error", "EOF", "panic"}
    BY <1>1, <1>2, <1>5 DEF TypeOK
  <2>3. pos' \in Nat /\ pos' <= Len(stream)
    BY <1>1, <1>4
  <2>4. QED
    BY <1>1, <1>2, <1>5, <2>1, <2>2, <2>3, TypeFrame
<1>7. SidesOK'
  BY <1>1, <1>2, <1>5 DEF SidesOK
<1>8. ASSUME clean
      PROVE  CleanInv' \/ ReaderInv'
  <2>1. /\ CleanInv /\ Turn \in DOMAIN sent /\ state.m = Turn
        /\ pos \in Nat /\ pos = Base + Len(header_buffer) /\ Base \in Nat
    BY <1>2, <1>8, ChunksFacts
  <2>2. GotOK /\ CleanCut(pos) /\ Holds(header_buffer, Base)
    BY <2>1 DEF CleanInv, BufferOK
  <2>3. PICK c \in DOMAIN sent[Turn].chunks :
          sent[Turn].chunks[c].at = Base /\ before = Body(Turn, sent[Turn].chunks[c].from)
    BY <1>1, <1>2, <1>8, NextBegins DEF before
  <2>4. Header(header_buffer, Turn, Body(Turn, sent[Turn].chunks[c].from), outcome)
    BY <1>1, <2>1, <2>3
  <2>5. pos' = sent[Turn].chunks[c].at + Len(header_buffer) /\ CleanCut(pos')
    BY <1>1, <2>1, <2>2, <2>3
  <2>6. Holds(header_buffer, sent[Turn].chunks[c].at)
    BY <2>2, <2>3
  <2>7. CASE IsHex(Digits(header_buffer))
    BY <1>1, <1>2, <1>3, <2>1, <2>2, <2>4, <2>5, <2>6, <2>7, ChunkBegun
  <2>8. CASE ~IsHex(Digits(header_buffer))
    <3>1. /\ outcome' = "panic" /\ header_buffer' = header_buffer /\ state' = state
          /\ NothingHeldBack' /\ OnlyBadRefused'
      BY <1>1, <1>2, <1>3, <2>1, <2>3, <2>4, <2>6, <2>8, HeaderRefused
    <3>2. QED
      BY <1>1, <3>1, OutcomeFrame
  <2>9. QED
    BY <2>7, <2>8
<1>9. QED
  BY <1>1, <1>6, <1>7, <1>8 DEF ReaderInv

\* While read_chunks waits, the message has not arrived to its end.
LEMMA ChunksPending ==
  ASSUME ReaderInv, clean, state.is = "ReadChunkedBody", state.cap > 0,
         header_buffer = <<>> \/ (BodyRoom = 0 /\ LineEnd(header_buffer) = 0)
  PROVE  /\ pos < sent[Turn].end
         /\ header_buffer # <<>> =>
              \E c \in DOMAIN sent[Turn].chunks :
                /\ pos = sent[Turn].chunks[c].at + Len(header_buffer)
                /\ Len(header_buffer) <= sent[Turn].chunks[c].digits
<1> DEFINE chunks == sent[Turn].chunks
           end == sent[Turn].end
<1>1. /\ TypeOK /\ CleanInv /\ Turn \in DOMAIN sent /\ state.data \in Seq(AnyUnit)
      /\ Len(state.data) \in Nat /\ state.cap \in Nat /\ Len(header_buffer) \in Nat
      /\ header_buffer \in Seq(AnyUnit) /\ pos = Base + Len(header_buffer) /\ Base \in Nat
  BY ChunksFacts
<1>2. Holds(header_buffer, Base) /\ end \in Nat
  BY <1>1, MessageFacts DEF CleanInv, BufferOK
<1> HIDE DEF end
<1>3. CASE BodyRoom = 0
  <2>1. PICK c \in DOMAIN chunks : chunks[c].at = Base
    BY <1>3, NextBegins
  <2>2. /\ chunks[c].at \in Nat /\ chunks[c].digits \in Nat /\ chunks[c].size \in Nat
        /\ DataAt(chunks[c]) = chunks[c].at + chunks[c].digits + 1
        /\ ChunkEnd(chunks[c]) = DataAt(chunks[c]) + chunks[c].size + 1
        /\ ChunkEnd(chunks[c]) <= end
    BY <1>1, ChunkFacts DEF end
  <2>3. /\ Len(header_buffer) <= chunks[c].digits => LineEnd(header_buffer) = 0
        /\ Len(header_buffer) > chunks[c].digits => LineEnd(header_buffer) = chunks[c].digits + 1
    <3>1. Holds(header_buffer, chunks[c].at)
      BY <1>2, <2>1
    <3>2. QED
      BY <1>1, <3>1, HeaderFound
  <2>4. chunks[c].digits \in Nat
    BY <2>2
  <2>5. Len(header_buffer) <= chunks[c].digits
    <3>1. CASE header_buffer = <<>>
      BY <2>4, <3>1
    <3>2. CASE LineEnd(header_buffer) = 0
      BY <1>1, <2>3, <2>4, <3>2
    <3>3. QED
      BY <3>1, <3>2
  <2>6. pos = chunks[c].at + Len(header_buffer)
    BY <1>1, <2>1
  <2>7. pos < end
    <3>1. /\ chunks[c].at \in Nat /\ Len(header_buffer) \in Nat /\ chunks[c].size \in Nat
          /\ end \in Nat
      BY <1>1, <1>2, <2>2
    <3>2. chunks[c].at + chunks[c].digits + 1 + chunks[c].size + 1 <= end
      BY <2>2
    <3>3. chunks[c].at + Len(header_buffer) < end
      BY <2>4, <2>5, <3>1, <3>2, FarEnough, Zenon
    <3>4. QED
      BY <2>6, <3>3
  <2>8. QED
    BY <2>5, <2>6, <2>7 DEF end
<1>4. CASE BodyRoom # 0
  <2>1. header_buffer = <<>> /\ Len(state.data) # state.cap
    BY <1>1, <1>4 DEF BodyRoom
  <2>2. PICK c \in DOMAIN chunks : InChunk(chunks[c])
    BY ChunksFacts
  <2>3. state.cap = chunks[c].size + 1 /\ Base = DataAt(chunks[c]) + Len(state.data)
    BY <2>1, <2>2 DEF InChunk
  <2>4. /\ ChunkEnd(chunks[c]) = DataAt(chunks[c]) + chunks[c].size + 1
        /\ ChunkEnd(chunks[c]) <= end
        /\ chunks[c].size \in Nat /\ DataAt(chunks[c]) = chunks[c].at + chunks[c].digits + 1
        /\ chunks[c].at \in Nat /\ chunks[c].digits \in Nat
    BY <1>1, ChunkFacts DEF end
  <2>5. DataAt(chunks[c]) \in Nat
    BY <2>4
  <2>6. pos = Base /\ Len(state.data) < state.cap
    <3>1. Len(header_buffer) = 0
      BY <2>1
    <3>2. Len(state.data) <= state.cap
      BY <1>1 DEF TypeOK
    <3>3. QED
      BY <1>1, <2>1, <3>1, <3>2
  <2>7. pos < end
    <3>1. /\ Len(state.data) \in Nat /\ chunks[c].size \in Nat
          /\ DataAt(chunks[c]) + chunks[c].size + 1 <= end
      BY <1>1, <2>4
    <3>2. Len(state.data) < chunks[c].size + 1 /\ pos = DataAt(chunks[c]) + Len(state.data)
      BY <2>3, <2>6
    <3>3. end \in Nat /\ DataAt(chunks[c]) \in Nat
      BY <1>2, <2>5
    <3>4. DataAt(chunks[c]) + Len(state.data) < end
      BY <3>1, <3>2, <3>3, FarEnough, Zenon
    <3>5. QED
      BY <3>2, <3>4, Zenon
  <2>8. QED
    BY <2>1, <2>7 DEF end
<1>5. QED
  BY <1>3, <1>4 DEF end

LEMMA ChunksWaitKept == ReaderInv /\ ChunksWait => ReaderInv'
<1> SUFFICES ASSUME ReaderInv, ChunksWait
             PROVE  ReaderInv'
  OBVIOUS
<1>1. /\ outcome \in {"chunks", "more"} /\ state.cap > 0
      /\ header_buffer = <<>> \/ (BodyRoom = 0 /\ LineEnd(header_buffer) = 0)
      /\ outcome' \in {"runs", "none"}
      /\ UNCHANGED <<side, clean, stream, sent, pos, header_buffer, state, got>>
  BY DEF ChunksWait, InChunks, End
<1>2. TypeOK /\ state.is = "ReadChunkedBody" /\ side = "client" /\ (clean => CleanInv)
  BY <1>1 DEF ReaderInv, SidesOK
<1>3. ASSUME clean
      PROVE  NothingHeldBack' /\ OnlyBadRefused'
  <2>1. pos < sent[Turn].end
    BY <1>1, <1>2, <1>3, ChunksPending
  <2>2. Len(got) <= Len(sent) /\ pos \in Nat
    BY <1>2, <1>3, StreamFacts DEF CleanInv, GotOK
  <2>3. \A m \in DOMAIN sent : sent[m].end <= pos => m <= Len(got)
    BY <1>2, <2>1, <2>2, Pending
  <2>4. QED
    BY <1>1, <2>3 DEF NothingHeldBack, OnlyBadRefused
<1>4. QED
  BY <1>1, <1>2, <1>3, OutcomeFrame

\* The length of a line is that of its digits.
LEMMA LineLength ==
  ASSUME TypeOK, NEW m \in DOMAIN sent, NEW c \in DOMAIN sent[m].chunks
  PROVE  Len(Line(stream, sent[m].chunks[c])) = sent[m].chunks[c].digits
<1> DEFINE chunk == sent[m].chunks[c]
<1>1. /\ chunk.at \in Nat /\ chunk.digits \in Nat /\ chunk.size \in Nat
      /\ ChunkEnd(chunk) = DataAt(chunk) + chunk.size + 1
      /\ DataAt(chunk) = chunk.at + chunk.digits + 1 /\ ChunkEnd(chunk) <= sent[m].end
  BY ChunkFacts
<1>2. sent[m].end <= Len(stream) /\ stream \in Seq(AnyUnit) /\ Len(stream) \in Nat
  BY StreamFacts
<1>3. sent[m].end \in Nat
  BY MessageFacts
<1> HIDE DEF chunk
<1>4. PICK j \in chunk.at..Len(stream) : j = chunk.at + chunk.digits
  BY <1>1, <1>2, <1>3
<1>5. Len(SubSeq(stream, chunk.at + 1, j)) = j - chunk.at /\ j - chunk.at = chunk.digits
  <2>1. chunk.at \in 0..Len(stream)
    BY <1>1, <1>2, <1>4
  <2>2. QED
    BY <1>1, <1>2, <1>4, <2>1, PartOf
<1>6. QED
  BY <1>4, <1>5 DEF Line, chunk

\* A line that has no end yet and is as long as a length can be will be too
\* long: a length of just MaxDigits digits comes with its line end.
LEMMA ChunkLineTooLongKept == ReaderInv /\ ChunkLineTooLong => ReaderInv'
<1> SUFFICES ASSUME ReaderInv, ChunkLineTooLong
             PROVE  ReaderInv'
  OBVIOUS
<1>1. /\ outcome \in {"chunks", "more"} /\ state.cap > 0 /\ BodyRoom = 0
      /\ LineEnd(header_buffer) = 0 /\ Len(header_buffer) >= MaxDigits
      /\ outcome' = "panic"
      /\ UNCHANGED <<side, clean, stream, sent, pos, header_buffer, state, got>>
  BY DEF ChunkLineTooLong, InChunks, End
<1>2. TypeOK /\ state.is = "ReadChunkedBody" /\ (clean => CleanInv)
  BY <1>1 DEF ReaderInv, SidesOK
<1>3. ASSUME clean
      PROVE  NothingHeldBack' /\ OnlyBadRefused'
  <2>1. MaxDigits \in Nat /\ MaxDigits > 0
    BY ReaderAssumption
  <2>2. header_buffer # <<>> /\ Len(header_buffer) \in Nat /\ Turn \in DOMAIN sent
    BY <1>1, <1>2, <1>3, <2>1, ChunksFacts
  <2>3. PICK c \in DOMAIN sent[Turn].chunks :
          /\ pos = sent[Turn].chunks[c].at + Len(header_buffer)
          /\ Len(header_buffer) <= sent[Turn].chunks[c].digits
    BY <1>1, <1>2, <1>3, <2>2, ChunksPending
  <2>4. PICK chunk : chunk = sent[Turn].chunks[c]
    OBVIOUS
  <2>5. /\ chunk.at \in Nat /\ chunk.digits \in Nat
        /\ DataAt(chunk) = chunk.at + chunk.digits + 1
    BY <1>2, <2>2, <2>4, ChunkFacts
  <2>6. Len(header_buffer) <= chunk.digits
    BY <2>3, <2>4
  <2>7. chunk.digits # MaxDigits
    <3>1. SUFFICES ASSUME chunk.digits = MaxDigits
                   PROVE  FALSE
      OBVIOUS
    <3>2. Len(header_buffer) = MaxDigits
      BY <1>1, <2>1, <2>2, <2>6, <3>1
    <3>3. pos = DataAt(chunk) - 1
      <4>1. pos = chunk.at + MaxDigits /\ DataAt(chunk) = chunk.at + MaxDigits + 1
        BY <2>3, <2>4, <2>5, <3>1, <3>2
      <4>2. QED
        BY <2>1, <2>5, <4>1
    <3>4. pos # DataAt(chunk) - 1
      BY <1>2, <1>3, <2>2, <2>4, <3>1 DEF CleanInv, CleanCut
    <3>5. QED
      BY <3>3, <3>4
  <2>8. chunk.digits > MaxDigits
    BY <1>1, <2>1, <2>2, <2>5, <2>6, <2>7
  <2>9. ~IsHex(Line(stream, chunk))
    <3>1. Len(Line(stream, chunk)) = chunk.digits
      BY <1>2, <2>2, <2>4, LineLength
    <3>2. QED
      BY <2>1, <2>5, <2>8, <3>1 DEF IsHex
  <2>10. QED
    BY <1>1, <1>2, <2>2, <2>4, <2>9, BadLine
<1>4. QED
  BY <1>1, <1>3, OutcomeFrame

\* The last chunk is there: so is the message.
LEMMA ChunksDoneKept == ReaderInv /\ ChunksDone => ReaderInv'
<1> SUFFICES ASSUME ReaderInv, ChunksDone
             PROVE  ReaderInv'
  OBVIOUS
<1> DEFINE msg == sent[Turn]
<1>1. /\ outcome \in {"chunks", "more"} /\ state.cap = 0 /\ state' = Empty
      /\ Return(Message(state.m, state.before \o state.data))
      /\ UNCHANGED <<side, clean, stream, sent, pos, header_buffer>>
  BY DEF ChunksDone
<1>2. TypeOK /\ SidesOK /\ state.is = "ReadChunkedBody" /\ side = "client"
  BY <1>1 DEF ReaderInv, SidesOK
<1>3. /\ state.m \in Nat /\ state.before \in Seq(AnyUnit) /\ state.data \in Seq(AnyUnit)
      /\ header_buffer \in Seq(AnyUnit) /\ Len(header_buffer) <= HeaderCap
      /\ Len(state.data) <= state.cap
  BY <1>2 DEF TypeOK, AnyState
<1>4. state.data = <<>>
  <2>1. Len(state.data) \in Nat /\ Len(state.data) <= 0
    BY <1>1, <1>3
  <2>2. QED
    BY <1>3, <2>1
<1>5. state.before \o state.data = state.before
  BY <1>3, <1>4
<1>6. got' \in Seq([m : Nat, body : Seq(AnyUnit)]) /\ outcome' = "some"
  <2>1. Return(Message(state.m, state.before))
    BY <1>1, <1>5
  <2>2. QED
    BY <1>2, <1>3, <2>1, GotType
<1>7. state' \in AnyState /\ Len(state'.data) <= state'.cap /\ state'.is = "Empty"
  BY <1>1, EmptyState
<1>8. pos' \in Nat /\ pos' <= Len(stream) /\ pos \in Nat /\ Len(stream) \in Nat
  BY <1>1, <1>2, StreamFacts
<1>9. TypeOK'
  BY <1>1, <1>2, <1>3, <1>6, <1>7, <1>8, TypeFrame
<1>10. SidesOK'
  BY <1>1, <1>2, <1>6, <1>7 DEF SidesOK
<1>11. ASSUME clean
       PROVE  CleanInv'
  <2>1. CleanInv /\ Turn \in DOMAIN sent /\ state.m = Turn
    BY <1>2, <1>11, ChunksFacts
  <2>2. PICK c \in DOMAIN msg.chunks : InChunk(msg.chunks[c])
    BY <1>2, <1>11, ChunksFacts
  <2>3. /\ msg.chunks[c].size \in Nat
        /\ msg.chunks[c].size = 0 => /\ msg.chunks[c].from = msg.body
                                     /\ ChunkEnd(msg.chunks[c]) = msg.end
    BY <1>2, <2>1, ChunkFacts
  <2>4. msg.chunks[c].size = 0 /\ Base = ChunkEnd(msg.chunks[c])
    <3>1. state.cap # msg.chunks[c].size + 1
      BY <1>1, <2>3
    <3>2. QED
      BY <1>1, <2>2, <3>1 DEF InChunk
  <2>5. state.before = Body(Turn, msg.body) /\ Base = msg.end
    BY <2>2, <2>3, <2>4 DEF InChunk
  <2>6. Return(Message(Turn, Body(Turn, msg.body)))
    BY <1>1, <1>5, <2>1, <2>5
  <2>7. GotOK /\ CleanCut(pos) /\ BufferOK
    BY <2>1 DEF CleanInv
  <2>8. GotOK' /\ Len(got') = Len(got) + 1 /\ Turn' = Turn + 1
    BY <1>1, <1>2, <1>11, <2>1, <2>6, <2>7, GotMore
  <2>9. CleanCut(pos)'
    <3>1. Len(got) \in Nat
      BY <1>2 DEF TypeOK
    <3>2. Len(got') >= Len(got)
      BY <2>8, <3>1
    <3>3. QED
      BY <1>1, <1>2, <1>6, <2>7, <3>2, CutFrame
  <2>10. BufferOK'
    BY <1>1, <2>7 DEF BufferOK, Holds, Base
  <2>11. EmptyOK'
    <3>1. Start(Turn + 1) = msg.end
      BY <1>2, <2>1, StreamFacts
    <3>2. Start(Turn)' = Start(Turn + 1) /\ Base' = Base
      BY <1>1, <2>8 DEF Start, StartOf, Base
    <3>3. QED
      BY <2>5, <3>1, <3>2 DEF EmptyOK
  <2>12. RequestOK' /\ ResponseOK' /\ ChunkedOK'
    BY <1>7 DEF RequestOK, ResponseOK, ChunkedOK
  <2>13. NothingHeldBack' /\ OnlyBadRefused'
    BY <1>1, <1>2, <1>6 DEF NothingHeldBack, OnlyBadRefused
  <2>14. QED
    BY <2>8, <2>9, <2>10, <2>11, <2>12, <2>13 DEF CleanInv
<1>12. QED
  BY <1>1, <1>9, <1>10, <1>11 DEF ReaderInv

\* What is cut from the buffer goes behind the data of the chunk.
LEMMA ChunkDataRead ==
  ASSUME ReaderInv, clean, state.is = "ReadChunkedBody", BodyRoom > 0,
         NEW c \in DOMAIN sent[Turn].chunks, InChunk(sent[Turn].chunks[c]),
         NEW k \in 1..Len(header_buffer), k <= BodyRoom,
         NEW data \in Seq(AnyUnit), data = state.data \o SubSeq(header_buffer, 1, k)
  PROVE  LET chunk == sent[Turn].chunks[c] IN
         /\ state.cap = chunk.size + 1 /\ Base + k = DataAt(chunk) + Len(data)
         /\ \A i \in 1..Len(data) :
              /\ i <= chunk.size => data[i] = Unit(Turn, "data", chunk.from + i)
              /\ i = chunk.size + 1 => data[i].kind = "crlf"
<1> DEFINE chunk == sent[Turn].chunks[c]
           old == state.data
           part == SubSeq(header_buffer, 1, k)
<1>1. /\ TypeOK /\ CleanInv /\ Turn \in DOMAIN sent
      /\ header_buffer \in Seq(AnyUnit) /\ old \in Seq(AnyUnit)
      /\ Len(header_buffer) \in Nat /\ Len(old) \in Nat /\ state.cap \in Nat /\ Base \in Nat
  BY ChunksFacts
<1>2. Holds(header_buffer, Base) /\ Len(stream) \in Nat
  BY <1>1, StreamFacts DEF CleanInv, BufferOK
<1>3. /\ chunk.at \in Nat /\ chunk.digits \in Nat
      /\ chunk.size \in Nat /\ chunk.from \in Nat
      /\ DataAt(chunk) = chunk.at + chunk.digits + 1
      /\ ChunkEnd(chunk) = DataAt(chunk) + chunk.size + 1 /\ IsChunk(stream, Turn, chunk)
  BY <1>1, ChunkFacts
<1>4. DataAt(chunk) \in Nat
  BY <1>1, ChunkFacts
<1>5. /\ state.cap = chunk.size + 1 /\ Base = DataAt(chunk) + Len(old)
      /\ \A i \in DOMAIN old : old[i] = Unit(Turn, "data", chunk.from + i)
  <2>1. Len(old) # state.cap
    BY <1>1 DEF BodyRoom
  <2>2. QED
    BY <2>1 DEF InChunk
<1>6. k \in Nat /\ part \in Seq(AnyUnit) /\ Len(part) = k /\ \A i \in 1..k : part[i] = header_buffer[i]
  <2>1. 0 \in 0..Len(header_buffer) /\ k \in 0..Len(header_buffer)
    BY <1>1
  <2>2. /\ SubSeq(header_buffer, 0 + 1, k) \in Seq(AnyUnit)
        /\ Len(SubSeq(header_buffer, 0 + 1, k)) = k - 0
        /\ \A i \in 1..(k - 0) : SubSeq(header_buffer, 0 + 1, k)[i] = header_buffer[0 + i]
    BY <1>1, <2>1, PartOf
  <2>3. k \in Nat /\ 0 + 1 = 1 /\ k - 0 = k /\ \A i \in 1..k : 0 + i = i
    OBVIOUS
  <2>4. QED
    BY <2>2, <2>3
<1>7. \A i \in 1..k : part[i] = stream[Base + i]
  <2> TAKE i \in 1..k
  <2>1. i \in DOMAIN header_buffer
    BY <1>1
  <2>2. QED
    BY <1>2, <1>6, <2>1 DEF Holds
<1>8. data = old \o part
  OBVIOUS
<1> HIDE DEF chunk, old, part
<1>9. /\ Len(data) = Len(old) + k
      /\ \A i \in 1..(Len(old) + k) :
           data[i] = IF i <= Len(old) THEN old[i] ELSE part[i - Len(old)]
  <2>1. old \in Seq(AnyUnit) /\ part \in Seq(AnyUnit) /\ Len(part) = k
    BY <1>1, <1>6
  <2>2. /\ Len(old \o part) = Len(old) + Len(part)
        /\ \A i \in 1..(Len(old) + Len(part)) :
             (old \o part)[i] = IF i <= Len(old) THEN old[i] ELSE part[i - Len(old)]
    BY <2>1, JoinedFacts
  <2>3. QED
    BY <1>8, <2>1, <2>2, Zenon
<1>10. /\ \A i \in 1..chunk.size : stream[DataAt(chunk) + i] = Unit(Turn, "data", chunk.from + i)
       /\ stream[ChunkEnd(chunk)].kind = "crlf"
  BY <1>3 DEF IsChunk
<1>11. ASSUME NEW i \in 1..(Len(old) + k)
       PROVE  /\ i <= chunk.size => data[i] = Unit(Turn, "data", chunk.from + i)
              /\ i = chunk.size + 1 => data[i].kind = "crlf"
  <2>1. CASE i <= Len(old)
    <3>1. i \in DOMAIN old
      BY <1>1, <2>1
    <3>2. data[i] = Unit(Turn, "data", chunk.from + i)
      BY <1>5, <1>9, <2>1, <3>1
    <3>3. i # chunk.size + 1
      <4>1. Len(old) < chunk.size + 1
        <5>1. BodyRoom = state.cap - Len(old) /\ BodyRoom > 0
          BY DEF BodyRoom, old
        <5>2. QED
          BY <1>1, <1>3, <1>5, <5>1
      <4>2. QED
        BY <1>1, <1>3, <2>1, <4>1
    <3>4. QED
      BY <3>2, <3>3
  <2>2. CASE ~(i <= Len(old))
    <3>1. i - Len(old) \in 1..k /\ Len(old) + (i - Len(old)) = i
      BY <1>1, <1>6, <2>2
    <3>2. data[i] = stream[Base + (i - Len(old))]
      BY <1>7, <1>9, <2>2, <3>1
    <3>3. Base + (i - Len(old)) = DataAt(chunk) + i
      <4>1. Base = DataAt(chunk) + Len(old) /\ Len(old) \in Nat /\ i \in Nat
        BY <1>1, <1>5, <1>6
      <4>2. QED
        BY <1>4, <4>1
    <3>4. data[i] = stream[DataAt(chunk) + i]
      BY <3>2, <3>3
    <3>5. i <= chunk.size => i \in 1..chunk.size
      BY <1>3
    <3>6. i = chunk.size + 1 => DataAt(chunk) + i = ChunkEnd(chunk)
      BY <1>3, <1>4
    <3>7. QED
      BY <1>10, <3>4, <3>5, <3>6
  <2>3. QED
    BY <2>1, <2>2
<1>12. Base + k = DataAt(chunk) + Len(data)
  <2>1. Base = DataAt(chunk) + Len(old) /\ Len(data) = Len(old) + k
    BY <1>5, <1>9
  <2>2. Len(old) \in Nat /\ k \in Nat /\ Base \in Nat
    BY <1>1, <1>6
  <2>3. QED
    BY <1>4, <2>1, <2>2
<1>13. QED
  BY <1>5, <1>9, <1>11, <1>12 DEF chunk

LEMMA ChunkDataKept == ReaderInv /\ ChunkData => ReaderInv'
<1> SUFFICES ASSUME ReaderInv, ChunkData
             PROVE  ReaderInv'
  OBVIOUS
<1> DEFINE k    == IF BodyRoom < Len(header_buffer) THEN BodyRoom ELSE Len(header_buffer)
           part == SubSeq(header_buffer, 1, k)
           data == state.data \o part
           most == SubSeq(data, 1, Len(data) - 1)
<1>1. /\ outcome \in {"chunks", "more"} /\ state.cap > 0 /\ BodyRoom > 0 /\ header_buffer # <<>>
      /\ header_buffer' = SubSeq(header_buffer, k + 1, Len(header_buffer))
      /\ IF Len(data) < state.cap
           THEN state' = [state EXCEPT !.data = data] /\ UNCHANGED outcome
           ELSE IF data[Len(data)].kind = "crlf"
             THEN state' = [state EXCEPT !.cap = @ - 1, !.data = most] /\ UNCHANGED outcome
             ELSE outcome' = "panic" /\ UNCHANGED state
      /\ UNCHANGED <<side, clean, stream, sent, pos, got>>
  BY DEF ChunkData, InChunks
<1>2. TypeOK /\ SidesOK /\ state.is = "ReadChunkedBody" /\ side = "client"
  BY <1>1 DEF ReaderInv, SidesOK
<1>3. /\ header_buffer \in Seq(AnyUnit) /\ Len(header_buffer) <= HeaderCap
      /\ state \in AnyState /\ state.data \in Seq(AnyUnit) /\ state.cap \in Nat
      /\ Len(header_buffer) \in Nat /\ Len(state.data) \in Nat
  BY <1>2 DEF TypeOK, AnyState
<1>4. k \in 1..Len(header_buffer) /\ k \in Nat /\ k <= BodyRoom /\ k <= state.cap - Len(state.data)
  <2>1. Len(header_buffer) > 0
    BY <1>1, <1>3
  <2>2. BodyRoom \in Int /\ BodyRoom = state.cap - Len(state.data) /\ BodyRoom > 0
    BY <1>1, <1>3 DEF BodyRoom
  <2>3. QED
    BY <1>3, <2>1, <2>2
<1>5. part \in Seq(AnyUnit) /\ Len(part) = k
  <2>1. 0 \in 0..Len(header_buffer) /\ k \in 0..Len(header_buffer)
    BY <1>3, <1>4
  <2>2. /\ SubSeq(header_buffer, 0 + 1, k) \in Seq(AnyUnit)
        /\ Len(SubSeq(header_buffer, 0 + 1, k)) = k - 0
    BY <1>3, <2>1, PartOf
  <2>3. 0 + 1 = 1 /\ k - 0 = k
    BY <1>4
  <2>4. QED
    BY <2>2, <2>3
<1> HIDE DEF k, part
<1>6. data \in Seq(AnyUnit) /\ Len(data) = Len(state.data) + k
  BY <1>3, <1>5, JoinedFacts
<1>7. Len(data) \in Nat /\ Len(data) > 0 /\ Len(data) <= state.cap
  BY <1>3, <1>4, <1>6
<1>8. data = state.data \o SubSeq(header_buffer, 1, k)
  BY DEF part
<1> HIDE DEF data
<1>9. /\ most \in Seq(AnyUnit) /\ Len(most) = Len(data) - 1
      /\ \A i \in 1..(Len(data) - 1) : most[i] = data[i]
  <2>1. 0 \in 0..Len(data) /\ Len(data) - 1 \in 0..Len(data)
    BY <1>7
  <2>2. PICK j \in 0..Len(data) : j = Len(data) - 1
    BY <2>1
  <2>3. /\ SubSeq(data, 0 + 1, j) \in Seq(AnyUnit) /\ Len(SubSeq(data, 0 + 1, j)) = j - 0
        /\ \A i \in 1..(j - 0) : SubSeq(data, 0 + 1, j)[i] = data[0 + i]
    BY <1>6, <2>1, PartOf
  <2>4. 0 + 1 = 1 /\ j - 0 = j /\ \A i \in 1..j : 0 + i = i
    BY <1>7
  <2>5. QED
    BY <2>2, <2>3, <2>4
<1> HIDE DEF most
<1>10. /\ header_buffer' \in Seq(AnyUnit)
       /\ Len(header_buffer') = Len(header_buffer) - k
  <2>1. k \in 0..Len(header_buffer) /\ Len(header_buffer) \in k..Len(header_buffer)
    BY <1>3, <1>4
  <2>2. QED
    BY <1>1, <1>3, <2>1, PartOf
<1>11. pos \in Nat /\ pos <= Len(stream) /\ pos' \in Nat /\ pos' <= Len(stream) /\ Len(stream) \in Nat
  BY <1>1, <1>2, StreamFacts
<1>12. Len(data) < state.cap =>
         /\ state' \in AnyState /\ state'.is = state.is /\ state'.m = state.m
         /\ state'.cap = state.cap /\ state'.data = data /\ state'.before = state.before
         /\ outcome' = outcome
  BY <1>1, <1>3, <1>6 DEF AnyState
<1>13. ~(Len(data) < state.cap) /\ data[Len(data)].kind = "crlf" =>
         /\ state' \in AnyState /\ state'.is = state.is /\ state'.m = state.m
         /\ state'.cap = state.cap - 1 /\ state'.data = most /\ state'.before = state.before
         /\ outcome' = outcome
  <2>1. state.cap - 1 \in Nat
    BY <1>1, <1>3
  <2>2. QED
    BY <1>1, <1>3, <1>9, <2>1 DEF AnyState
<1>14. ~(Len(data) < state.cap) /\ data[Len(data)].kind # "crlf" =>
         outcome' = "panic" /\ state' = state
  BY <1>1
<1>15. /\ state' \in AnyState /\ Len(state'.data) <= state'.cap /\ state'.is = "ReadChunkedBody"
       /\ outcome' \in {"chunks", "more", "panic"}
  <2>1. CASE Len(data) < state.cap
    BY <1>1, <1>2, <1>7, <1>12, <2>1
  <2>2. CASE ~(Len(data) < state.cap) /\ data[Len(data)].kind = "crlf"
    <3>1. Len(most) <= state.cap - 1
      BY <1>3, <1>7, <1>9
    <3>2. QED
      BY <1>1, <1>2, <1>13, <2>2, <3>1
  <2>3. CASE ~(Len(data) < state.cap) /\ data[Len(data)].kind # "crlf"
    BY <1>2, <1>14, <2>3 DEF TypeOK
  <2>4. QED
    BY <2>1, <2>2, <2>3
<1>16. TypeOK'
  <2>1. Len(header_buffer') <= HeaderCap
    BY <1>3, <1>4, <1>10, ReaderAssumption
  <2>2. got' \in Seq([m : Nat, body : Seq(AnyUnit)])
    BY <1>1, <1>2 DEF TypeOK
  <2>3. QED
    BY <1>1, <1>2, <1>10, <1>11, <1>15, <2>1, <2>2, TypeFrame
<1>17. SidesOK'
  BY <1>1, <1>2, <1>15 DEF SidesOK
<1>18. ASSUME clean
       PROVE  CleanInv'
  <2>1. /\ CleanInv /\ Turn \in DOMAIN sent /\ state.m = Turn
        /\ pos = Base + Len(header_buffer) /\ Base \in Nat
    BY <1>2, <1>18, ChunksFacts
  <2>2. PICK c \in DOMAIN sent[Turn].chunks : InChunk(sent[Turn].chunks[c])
    BY <1>2, <1>18, ChunksFacts
  <2> DEFINE chunk == sent[Turn].chunks[c]
  <2>3. /\ state.cap = chunk.size + 1 /\ Base + k = DataAt(chunk) + Len(data)
        /\ \A i \in 1..Len(data) :
             /\ i <= chunk.size => data[i] = Unit(Turn, "data", chunk.from + i)
             /\ i = chunk.size + 1 => data[i].kind = "crlf"
    BY <1>1, <1>2, <1>4, <1>6, <1>8, <1>18, <2>2, ChunkDataRead
  <2>4. /\ chunk.size \in Nat /\ DataAt(chunk) \in Nat
        /\ ChunkEnd(chunk) = DataAt(chunk) + chunk.size + 1
    BY <1>2, <2>1, ChunkFacts
  <2>5. state.before = Body(Turn, chunk.from)
    BY <2>2 DEF InChunk
  <2>6. GotOK /\ CleanCut(pos) /\ Holds(header_buffer, Base)
    BY <2>1 DEF CleanInv, BufferOK
  <2>7. /\ Turn' = Turn /\ sent' = sent /\ chunk' = chunk /\ DataAt(chunk)' = DataAt(chunk)
        /\ ChunkEnd(chunk)' = ChunkEnd(chunk)
        /\ Body(Turn, chunk.from)' = Body(Turn, chunk.from)
    <3>1. Turn' = Turn /\ sent' = sent
      BY <1>1 DEF Turn
    <3>2. chunk' = chunk
      BY <3>1
    <3>3. DataAt(chunk)' = DataAt(chunk)
      BY <3>2 DEF DataAt
    <3>4. ChunkEnd(chunk)' = ChunkEnd(chunk)
      BY <3>2, <3>3 DEF ChunkEnd
    <3>5. QED
      BY <3>1, <3>2, <3>3, <3>4 DEF Body
  <2> HIDE DEF chunk
  <2>8. Base' = DataAt(chunk) + Len(data) /\ Base' = Base + k /\ Len(header_buffer') <= pos'
    <3>1. Base' = pos' - Len(header_buffer') /\ pos' = pos
      BY <1>1 DEF Base
    <3>2. /\ Base \in Nat /\ k \in Nat /\ Len(header_buffer) \in Nat /\ k <= Len(header_buffer)
      BY <1>3, <1>4, <2>1
    <3>3. pos = Base + Len(header_buffer) /\ pos \in Nat
      BY <1>11, <2>1
    <3>4. Len(header_buffer') = Len(header_buffer) - k
      BY <1>10
    <3>5. Base' = Base + k
      BY <3>1, <3>2, <3>3, <3>4
    <3>6. Len(header_buffer') <= pos'
      BY <3>1, <3>2, <3>3, <3>4
    <3>7. QED
      BY <2>3, <3>5, <3>6
  <2>9. BufferOK'
    <3>1. k \in 0..Len(header_buffer) /\ Len(header_buffer) \in k..Len(header_buffer)
      BY <1>3, <1>4
    <3>2. Holds(header_buffer', Base + k)
      BY <1>1, <1>3, <1>11, <2>1, <2>6, <3>1, HoldsPart
    <3>3. QED
      BY <1>1, <2>8, <3>2 DEF BufferOK, Holds
  <2>10. InChunk(chunk)' /\ state'.m = Turn /\ outcome' # "panic"
    <3>1. CASE Len(data) < state.cap
      <4>1. /\ state'.cap = chunk.size + 1 /\ state'.data = data /\ state'.m = Turn
            /\ state'.before = Body(Turn, chunk.from) /\ outcome' # "panic"
        BY <1>1, <1>12, <2>1, <2>3, <2>5, <3>1
      <4>2. \A i \in DOMAIN data : data[i] = Unit(Turn, "data", chunk.from + i)
        <5>1. \A i \in DOMAIN data : i \in 1..Len(data) /\ i <= chunk.size
          BY <1>6, <1>7, <2>3, <2>4, <3>1
        <5>2. QED
          BY <2>3, <5>1
      <4>3. Len(data) < state.cap
        BY <3>1
      <4>4. QED
        BY <2>3, <2>7, <2>8, <4>1, <4>2, <4>3 DEF InChunk
    <3>2. CASE ~(Len(data) < state.cap)
      <4>1. Len(data) = chunk.size + 1 /\ Len(data) \in 1..Len(data)
        <5>1. Len(data) = state.cap
          BY <1>3, <1>7, <3>2
        <5>2. QED
          BY <1>7, <2>3, <5>1
      <4>2. data[Len(data)].kind = "crlf"
        BY <2>3, <4>1
      <4>3. state.cap - 1 = chunk.size /\ Len(data) - 1 = chunk.size
        BY <2>3, <2>4, <4>1
      <4>4. /\ state'.cap = chunk.size /\ state'.data = most /\ state'.m = Turn
            /\ state'.before = Body(Turn, chunk.from) /\ outcome' # "panic"
        BY <1>1, <1>13, <2>1, <2>5, <3>2, <4>2, <4>3
      <4>5. \A i \in DOMAIN most : most[i] = Unit(Turn, "data", chunk.from + i)
        <5>1. DOMAIN most = 1..chunk.size
          BY <1>9, <4>3
        <5>2. \A i \in 1..chunk.size : most[i] = data[i]
          BY <1>9, <4>3
        <5>3. \A i \in 1..chunk.size : i \in 1..Len(data) /\ i <= chunk.size
          BY <2>4, <4>1
        <5>4. QED
          BY <2>3, <5>1, <5>2, <5>3
      <4>6. Len(most) = chunk.size
        BY <1>9, <4>3
      <4>7. Base' = ChunkEnd(chunk)
        BY <2>4, <2>8, <4>1
      <4>8. QED
        BY <2>7, <4>4, <4>5, <4>6, <4>7 DEF InChunk
    <3>3. QED
      BY <3>1, <3>2
  <2>11. ChunkedOK'
    <3>1. InChunk(sent[Turn].chunks[c])'
      BY <2>10 DEF chunk
    <3>2. Turn' \in DOMAIN sent' /\ state'.m = Turn' /\ c \in DOMAIN sent'[Turn'].chunks
      BY <2>1, <2>2, <2>7, <2>10
    <3>3. QED
      BY <3>1, <3>2 DEF ChunkedOK
  <2>12. EmptyOK' /\ RequestOK' /\ ResponseOK'
    BY <1>15 DEF EmptyOK, RequestOK, ResponseOK
  <2>13. GotOK' /\ CleanCut(pos)'
    BY <1>1, <2>6, GotFrame DEF CleanCut
  <2>14. NothingHeldBack' /\ OnlyBadRefused'
    BY <1>1, <1>2, <1>15, <2>10 DEF NothingHeldBack, OnlyBadRefused
  <2>15. QED
    BY <2>9, <2>11, <2>12, <2>13, <2>14 DEF CleanInv
<1>19. QED
  BY <1>1, <1>16, <1>17, <1>18 DEF ReaderInv

-----------------------------------------------------------------------------
(* The bodies of responses that are not chunked, and the end of the stream. *)

\* The message whose body is read, if the stream is cut cleanly.
LEMMA ResponseFacts ==
  ASSUME ReaderInv, clean, In("client", "ReadBody")
  PROVE  /\ CleanInv /\ Turn \in DOMAIN sent /\ header_buffer = <<>> /\ state.m = Turn
         /\ sent[Turn].chunks = <<>> /\ state.cap = sent[Turn].body
         /\ pos = BodyAt(sent[Turn]) + Len(state.data) /\ Holds(state.data, BodyAt(sent[Turn]))
         /\ BodyAt(sent[Turn]) \in Nat
         /\ sent[Turn].end = BodyAt(sent[Turn]) + sent[Turn].body
<1>1. TypeOK /\ CleanInv
  BY DEF ReaderInv
<1>2. /\ Turn \in DOMAIN sent /\ header_buffer = <<>> /\ state.m = Turn
      /\ sent[Turn].chunks = <<>> /\ state.cap = sent[Turn].body
      /\ pos = BodyAt(sent[Turn]) + Len(state.data) /\ Holds(state.data, BodyAt(sent[Turn]))
  BY <1>1 DEF CleanInv, ResponseOK, In
<1>3. /\ sent[Turn].at \in Nat /\ sent[Turn].head \in Nat
      /\ BodyAt(sent[Turn]) = sent[Turn].at + sent[Turn].head
  BY <1>1, <1>2, MessageFacts
<1>4. BodyAt(sent[Turn]) \in Nat
  BY <1>3
<1>5. sent[Turn].end = BodyAt(sent[Turn]) + sent[Turn].body
  BY <1>1, <1>2, PlainFacts
<1>6. QED
  BY <1>1, <1>2, <1>4, <1>5

LEMMA ReadResponseBodyKept == ASSUME NEW k, ReaderInv, ReadResponseBody(k) PROVE ReaderInv'
<1> DEFINE data == state.data \o Incoming(k)
<1>1. /\ In("client", "ReadBody") /\ outcome = "runs" /\ k \in Readable(BodyRoom)
      /\ pos' = pos + k /\ state' = [state EXCEPT !.data = data]
      /\ UNCHANGED <<side, clean, stream, sent, header_buffer, got, outcome>>
  BY DEF ReadResponseBody, Reading
<1>2. TypeOK /\ SidesOK /\ side = "client" /\ state.is = "ReadBody" /\ (clean => CleanInv)
  BY <1>1 DEF ReaderInv, In
<1>3. /\ state \in AnyState /\ state.data \in Seq(AnyUnit) /\ state.cap \in Nat
      /\ Len(state.data) \in Nat
      /\ header_buffer \in Seq(AnyUnit) /\ Len(header_buffer) <= HeaderCap
  BY <1>2 DEF TypeOK, AnyState
<1>4. /\ k \in Nat /\ k <= state.cap - Len(state.data) /\ pos + k <= Len(stream)
      /\ clean => CleanCut(pos + k)
  <2>1. BodyRoom \in Int /\ BodyRoom = state.cap - Len(state.data)
    BY <1>3 DEF BodyRoom
  <2>2. QED
    BY <1>1, <1>2, <2>1, ReadFacts
<1>5. Incoming(k) \in Seq(AnyUnit) /\ Len(Incoming(k)) = k
  BY <1>2, <1>4, IncomingType
<1>6. data \in Seq(AnyUnit) /\ Len(data) = Len(state.data) + k
  <2>1. PICK part \in Seq(AnyUnit) : part = Incoming(k) /\ Len(part) = k
    BY <1>5
  <2>2. PICK old \in Seq(AnyUnit) : old = state.data
    BY <1>3
  <2>3. QED
    BY <2>1, <2>2, JoinedUnits
<1>7. clean => Holds(data, BodyAt(sent[Turn]))
  <2>1. SUFFICES ASSUME clean
                 PROVE  Holds(data, BodyAt(sent[Turn]))
    OBVIOUS
  <2>2. /\ BodyAt(sent[Turn]) \in Nat /\ Holds(state.data, BodyAt(sent[Turn]))
        /\ BodyAt(sent[Turn]) + Len(state.data) = pos
    BY <1>1, <2>1, ResponseFacts
  <2>3. QED
    BY <1>2, <1>3, <1>4, <2>2, HoldsMore
<1> HIDE DEF data
<1>8. Len(data) \in Nat /\ Len(data) <= state.cap
  <2>1. Len(data) = Len(state.data) + k
    BY <1>6
  <2>2. QED
    BY <1>3, <1>4, <2>1
<1>9. /\ state' \in AnyState /\ state'.is = "ReadBody" /\ state'.m = state.m
      /\ state'.cap = state.cap /\ state'.data = data
  BY <1>1, <1>2, <1>3, <1>6 DEF AnyState
<1>10. pos' \in Nat /\ pos' <= Len(stream) /\ pos \in Nat
  BY <1>1, <1>2, <1>4, StreamFacts
<1>11. TypeOK'
  <2>1. Len(state'.data) <= state'.cap
    BY <1>8, <1>9
  <2>2. got' \in Seq([m : Nat, body : Seq(AnyUnit)]) /\ outcome' = "runs"
    BY <1>1, <1>2 DEF TypeOK
  <2>3. QED
    BY <1>1, <1>2, <1>3, <1>9, <1>10, <2>1, <2>2, TypeFrame
<1>12. SidesOK'
  BY <1>1, <1>2, <1>9 DEF SidesOK
<1>13. ASSUME clean
       PROVE  CleanInv'
  <2>1. /\ CleanInv /\ Turn \in DOMAIN sent /\ header_buffer = <<>> /\ state.m = Turn
        /\ sent[Turn].chunks = <<>> /\ state.cap = sent[Turn].body
        /\ pos = BodyAt(sent[Turn]) + Len(state.data) /\ BodyAt(sent[Turn]) \in Nat
    BY <1>1, <1>13, ResponseFacts
  <2>2. GotOK' /\ CleanCut(pos)'
    <3>1. CleanCut(pos') /\ GotOK
      BY <1>1, <1>4, <1>13, <2>1 DEF CleanInv
    <3>2. QED
      BY <1>1, <3>1, GotFrame DEF CleanCut
  <2>3. BufferOK'
    <3>1. header_buffer' = <<>> /\ Len(header_buffer') = 0
      BY <1>1, <2>1
    <3>2. Base' = pos' /\ 0 <= pos'
      <4>1. Base' = pos' - 0
        BY <3>1 DEF Base
      <4>2. pos' \in Nat
        BY <1>10
      <4>3. 0 <= pos'
        BY <4>2
      <4>4. \A n \in Nat : n - 0 = n
        OBVIOUS
      <4>5. pos' - 0 = pos'
        BY <4>2, <4>4
      <4>6. QED
        BY <4>1, <4>3, <4>5
    <3>3. pos' + 0 <= Len(stream)
      BY <1>10
    <3>4. QED
      BY <1>1, <3>1, <3>2, <3>3 DEF BufferOK, Holds
  <2>4. ResponseOK'
    <3>1. Turn' = Turn /\ sent' = sent
      BY <1>1 DEF Turn
    <3>2. sent'[Turn'] = sent[Turn] /\ BodyAt(sent[Turn])' = BodyAt(sent[Turn])
      BY <3>1 DEF BodyAt
    <3>3. Holds(state.data, BodyAt(sent[Turn]))'
      BY <1>1, <1>7, <1>9, <1>13, <3>2 DEF Holds
    <3>4. pos' = BodyAt(sent[Turn]) + Len(data)
      <4>1. pos' = pos + k
        BY <1>1
      <4>2. Len(data) = Len(state.data) + k
        BY <1>6
      <4>3. Len(state.data) \in Nat /\ k \in Nat /\ pos \in Nat /\ BodyAt(sent[Turn]) \in Nat
        BY <1>3, <1>4, <1>10, <2>1
      <4>4. pos = BodyAt(sent[Turn]) + Len(state.data)
        BY <2>1
      <4>5. QED
        BY <4>1, <4>2, <4>3, <4>4
    <3>5. Turn' \in DOMAIN sent' /\ header_buffer' = <<>> /\ state'.m = Turn'
      BY <1>1, <1>9, <2>1, <3>1
    <3>6. sent'[Turn'].chunks = <<>> /\ state'.cap = sent'[Turn'].body
      BY <1>9, <2>1, <3>2
    <3>7. pos' = BodyAt(sent[Turn])' + Len(state'.data)
      BY <1>9, <3>2, <3>4
    <3>8. QED
      BY <3>3, <3>5, <3>6, <3>7 DEF ResponseOK
  <2>5. EmptyOK' /\ RequestOK' /\ ChunkedOK'
    BY <1>1, <1>2, <1>9 DEF EmptyOK, RequestOK, ChunkedOK
  <2>6. NothingHeldBack' /\ OnlyBadRefused'
    BY <1>1, <1>2 DEF NothingHeldBack, OnlyBadRefused
  <2>7. QED
    BY <2>2, <2>3, <2>4, <2>5, <2>6 DEF CleanInv
<1>14. QED
  BY <1>1, <1>11, <1>12, <1>13 DEF ReaderInv

LEMMA ResponseDoneKept == ReaderInv /\ ResponseDone => ReaderInv'
<1> SUFFICES ASSUME ReaderInv, ResponseDone
             PROVE  ReaderInv'
  OBVIOUS
<1> DEFINE msg == sent[Turn]
<1>1. /\ In("client", "ReadBody") /\ BodyRoom = 0 /\ state' = Empty
      /\ Return(Message(state.m, state.data))
      /\ UNCHANGED <<side, clean, stream, sent, pos, header_buffer>>
  BY DEF ResponseDone, Reading
<1>2. TypeOK /\ SidesOK /\ side = "client" /\ state.is = "ReadBody"
  BY <1>1 DEF ReaderInv, In
<1>3. /\ state.m \in Nat /\ state.data \in Seq(AnyUnit) /\ state.cap \in Nat
      /\ Len(state.data) \in Nat
      /\ header_buffer \in Seq(AnyUnit) /\ Len(header_buffer) <= HeaderCap
  BY <1>2 DEF TypeOK, AnyState
<1>4. Len(state.data) = state.cap
  BY <1>1, <1>3 DEF BodyRoom
<1>5. got' \in Seq([m : Nat, body : Seq(AnyUnit)]) /\ outcome' = "some"
  BY <1>1, <1>2, <1>3, GotType
<1>6. state' \in AnyState /\ Len(state'.data) <= state'.cap /\ state'.is = "Empty"
  BY <1>1, EmptyState
<1>7. pos' \in Nat /\ pos' <= Len(stream) /\ pos \in Nat /\ Len(stream) \in Nat
  BY <1>1, <1>2, StreamFacts
<1>8. TypeOK'
  BY <1>1, <1>2, <1>3, <1>5, <1>6, <1>7, TypeFrame
<1>9. SidesOK'
  BY <1>1, <1>2, <1>5, <1>6 DEF SidesOK
<1>10. ASSUME clean
       PROVE  CleanInv'
  <2>1. /\ CleanInv /\ Turn \in DOMAIN sent /\ header_buffer = <<>> /\ state.m = Turn
        /\ msg.chunks = <<>> /\ state.cap = msg.body
        /\ pos = BodyAt(msg) + Len(state.data) /\ Holds(state.data, BodyAt(msg))
        /\ msg.end = BodyAt(msg) + msg.body
    BY <1>1, <1>10, ResponseFacts
  <2>2. state.data = Body(Turn, msg.body)
    BY <1>2, <1>3, <1>4, <2>1, BodyRead
  <2>3. Return(Message(Turn, Body(Turn, msg.body)))
    BY <1>1, <2>1, <2>2
  <2>4. GotOK /\ CleanCut(pos) /\ BufferOK
    BY <2>1 DEF CleanInv
  <2>5. GotOK' /\ Len(got') = Len(got) + 1 /\ Turn' = Turn + 1
    BY <1>1, <1>2, <1>10, <2>1, <2>3, <2>4, GotMore
  <2>6. CleanCut(pos)'
    <3>1. Len(got) \in Nat
      BY <1>2 DEF TypeOK
    <3>2. Len(got') >= Len(got)
      BY <2>5, <3>1
    <3>3. QED
      BY <1>1, <1>2, <1>5, <2>4, <3>2, CutFrame
  <2>7. BufferOK'
    BY <1>1, <2>4 DEF BufferOK, Holds, Base
  <2>8. EmptyOK'
    <3>1. Start(Turn + 1) = msg.end
      BY <1>2, <2>1, StreamFacts
    <3>2. Start(Turn)' = Start(Turn + 1) /\ Base' = Base
      BY <1>1, <2>5 DEF Start, StartOf, Base
    <3>3. pos = msg.end
      BY <1>4, <2>1
    <3>4. Base = pos
      <4>1. Len(header_buffer) = 0
        BY <2>1
      <4>2. QED
        BY <1>7, <4>1 DEF Base
    <3>5. QED
      BY <3>1, <3>2, <3>3, <3>4 DEF EmptyOK
  <2>9. RequestOK' /\ ResponseOK' /\ ChunkedOK'
    BY <1>6 DEF RequestOK, ResponseOK, ChunkedOK
  <2>10. NothingHeldBack' /\ OnlyBadRefused'
    BY <1>1, <1>2, <1>5 DEF NothingHeldBack, OnlyBadRefused
  <2>11. QED
    BY <2>5, <2>6, <2>7, <2>8, <2>9, <2>10 DEF CleanInv
<1>11. QED
  BY <1>1, <1>8, <1>9, <1>10 DEF ReaderInv

\* A call that finds nothing to read has left no message behind, or it is the
\* end of the stream.
LEMMA ResponseStopsKept == ReaderInv /\ (ResponseBlocks \/ ResponseEOF) => ReaderInv'
<1> SUFFICES ASSUME ReaderInv, ResponseBlocks \/ ResponseEOF
             PROVE  ReaderInv'
  OBVIOUS
<1>1. TypeOK /\ (clean => CleanInv)
  BY DEF ReaderInv
<1>2. CASE ResponseBlocks
  <2>1. /\ \/ In("client", "Empty") /\ header_buffer = <<>>
           \/ In("client", "ReadBody") /\ BodyRoom > 0
        /\ outcome = "runs" /\ outcome' = "none"
        /\ UNCHANGED <<side, clean, stream, sent, pos, header_buffer, state, got>>
    BY <1>2 DEF ResponseBlocks, Reading, End
  <2>2. ASSUME clean
        PROVE  NothingHeldBack' /\ OnlyBadRefused'
    <3>1. Len(got) <= Len(sent) /\ pos \in Nat
      BY <1>1, <2>2, StreamFacts DEF CleanInv, GotOK
    <3>2. ASSUME Turn \in DOMAIN sent
          PROVE  pos < sent[Turn].end
      <4>1. CASE In("client", "Empty") /\ header_buffer = <<>>
        <5>1. Base = Start(Turn) /\ Start(Turn) = sent[Turn].at
          BY <1>1, <2>1, <2>2, <3>2, <4>1, StreamFacts DEF CleanInv, EmptyOK, In
        <5>2. pos = sent[Turn].at
          <6>1. Len(header_buffer) = 0
            BY <4>1
          <6>2. QED
            BY <3>1, <5>1, <6>1 DEF Base
        <5>3. /\ sent[Turn].at \in Nat /\ sent[Turn].head \in Nat /\ sent[Turn].head > 0
              /\ sent[Turn].end \in Nat
              /\ BodyAt(sent[Turn]) = sent[Turn].at + sent[Turn].head
              /\ BodyAt(sent[Turn]) <= sent[Turn].end
          BY <1>1, <3>2, MessageFacts
        <5>4. QED
          BY <5>2, <5>3
      <4>2. CASE In("client", "ReadBody") /\ BodyRoom > 0
        <5>1. /\ state.cap = sent[Turn].body /\ pos = BodyAt(sent[Turn]) + Len(state.data)
              /\ BodyAt(sent[Turn]) \in Nat
              /\ sent[Turn].end = BodyAt(sent[Turn]) + sent[Turn].body
          BY <2>2, <4>2, ResponseFacts
        <5>2. Len(state.data) \in Nat /\ state.cap \in Nat
          BY <1>1 DEF TypeOK, AnyState
        <5>3. Len(state.data) < state.cap
          BY <4>2, <5>2 DEF BodyRoom
        <5>4. QED
          BY <5>1, <5>2, <5>3
      <4>3. QED
        BY <2>1, <4>1, <4>2
    <3>3. \A m \in DOMAIN sent : sent[m].end <= pos => m <= Len(got)
      BY <1>1, <3>1, <3>2, Pending
    <3>4. QED
      BY <2>1, <3>3 DEF NothingHeldBack, OnlyBadRefused
  <2>3. QED
    BY <2>1, <2>2, OutcomeFrame
<1>3. CASE ResponseEOF
  <2>1. /\ side = "client" /\ outcome = "runs" /\ outcome' = "EOF"
        /\ UNCHANGED <<side, clean, stream, sent, pos, header_buffer, state, got>>
    BY <1>3 DEF ResponseEOF, Reading, In, End
  <2>2. NothingHeldBack' /\ OnlyBadRefused'
    BY <2>1 DEF NothingHeldBack, OnlyBadRefused
  <2>3. QED
    BY <2>1, <2>2, OutcomeFrame
<1>4. QED
  BY <1>2, <1>3

-----------------------------------------------------------------------------
(* The theorems.                                                           *)

\* Nothing has been read of any of the streams there may be.
LEMMA InitOK == Init => ReaderInv
<1> SUFFICES ASSUME Init
             PROVE  ReaderInv
  OBVIOUS
<1>1. PICK s \in RequestStreams \cup ResponseStreams :
        /\ stream = s.units /\ sent = s.sent /\ IsStream(s)
        /\ side = "server" => \A m \in DOMAIN s.sent : s.sent[m].length # NoLength
  BY ReaderAssumption DEF Init
<1>2. /\ side \in {"server", "client"} /\ clean \in BOOLEAN /\ (side = "server" => clean)
      /\ pos = 0 /\ header_buffer = <<>> /\ state = Empty /\ got = <<>> /\ outcome = "some"
  BY DEF Init
<1>3. IsStream([units |-> stream, sent |-> sent])
  <2>1. /\ [units |-> stream, sent |-> sent].units = s.units
        /\ [units |-> stream, sent |-> sent].sent = s.sent
    BY <1>1
  <2>2. \A m : StartOf([units |-> stream, sent |-> sent], m) = StartOf(s, m)
    BY <2>1 DEF StartOf
  <2>3. QED
    BY <1>1, <2>1, <2>2 DEF IsStream
<1>4. HeaderCap \in Nat /\ stream \in Seq(AnyUnit) /\ Len(stream) \in Nat
  BY <1>3, ReaderAssumption DEF IsStream
<1>5. Len(header_buffer) = 0 /\ Len(got) = 0 /\ state.is = "Empty"
  BY <1>2, EmptyState
<1>6. TypeOK
  BY <1>2, <1>3, <1>4, EmptyState DEF TypeOK
<1>7. SidesOK
  BY <1>1, <1>2, <1>5 DEF SidesOK
<1>8. CleanInv
  <2>1. Turn = 1 /\ Start(1) = 0 /\ Len(sent) \in Nat
    BY <1>5, <1>6, StreamFacts DEF Turn
  <2>2. Base = 0
    <3>1. pos = 0 /\ Len(header_buffer) = 0
      BY <1>2, <1>5
    <3>2. QED
      BY <3>1 DEF Base
  <2>3. GotOK
    BY <1>2, <1>5, <2>1 DEF GotOK, MessagesWhole
  <2>4. BufferOK
    BY <1>2, <1>4, <1>5, <2>2 DEF BufferOK, Holds
  <2>5. EmptyOK /\ RequestOK /\ ResponseOK /\ ChunkedOK
    BY <1>5, <2>1, <2>2 DEF EmptyOK, RequestOK, ResponseOK, ChunkedOK
  <2>6. NothingHeldBack /\ OnlyBadRefused
    BY <1>2 DEF NothingHeldBack, OnlyBadRefused
  <2>7. CleanCut(pos)
    <3>1. SUFFICES ASSUME NEW m \in DOMAIN sent
                   PROVE  /\ 0 <= sent[m].end
                          /\ sent[m].chunks # <<>> =>
                               0 \notin BodyAt(sent[m])..(BodyAt(sent[m]) + sent[m].chunks[1].digits)
                          /\ \A c \in DOMAIN sent[m].chunks :
                               sent[m].chunks[c].digits = MaxDigits
                                 => 0 # DataAt(sent[m].chunks[c]) - 1
      BY <1>2 DEF CleanCut
    <3>2. /\ sent[m].at \in Nat /\ sent[m].head \in Nat /\ sent[m].head > 0 /\ sent[m].end \in Nat
          /\ BodyAt(sent[m]) = sent[m].at + sent[m].head
      BY <1>6, MessageFacts
    <3>3. BodyAt(sent[m]) \in Nat /\ BodyAt(sent[m]) > 0
      BY <3>2
    <3>4. \A c \in DOMAIN sent[m].chunks :
            sent[m].chunks[c].digits = MaxDigits => 0 # DataAt(sent[m].chunks[c]) - 1
      <4> TAKE c \in DOMAIN sent[m].chunks
      <4> HAVE sent[m].chunks[c].digits = MaxDigits
      <4>1. PICK chunk : chunk = sent[m].chunks[c]
        OBVIOUS
      <4>2. /\ chunk.at \in Nat /\ chunk.digits = MaxDigits
            /\ DataAt(chunk) = chunk.at + chunk.digits + 1
        BY <1>6, <4>1, ChunkFacts
      <4>3. chunk.digits \in Nat /\ chunk.digits > 0
        BY <4>2, ReaderAssumption
      <4>4. QED
        BY <4>1, <4>2, <4>3
    <3>5. QED
      BY <3>2, <3>3, <3>4
  <2>8. QED
    BY <2>3, <2>4, <2>5, <2>6, <2>7 DEF CleanInv
<1>9. QED
  BY <1>6, <1>7, <1>8 DEF ReaderInv

LEMMA NextKept == ReaderInv /\ [Next]_vars => ReaderInv'
<1> SUFFICES ASSUME ReaderInv, [Next]_vars
             PROVE  ReaderInv'
  OBVIOUS
<1>1. CASE Call
  BY <1>1, CallKept
<1>2. CASE ReadRequest
  <2>1. CASE TakeRequest
    BY <2>1, TakeRequestKept
  <2>2. CASE TooLarge \/ RequestBlocks \/ RequestEOF
    BY <2>2, ServerStopsKept
  <2>3. CASE StartBody
    BY <2>3, StartBodyKept
  <2>4. CASE \E k \in 1..Space : ReadHead(k) \/ ReadRequestBody(k)
    BY <2>4, ReadHeadKept, ReadRequestBodyKept
  <2>5. QED
    BY <1>2, <2>1, <2>2, <2>3, <2>4 DEF ReadRequest
<1>3. CASE ReadResponse
  <2>1. CASE ReadChunks
    BY <2>1, ChunksWaitKept, ChunkLineTooLongKept, NextChunkKept, ChunkDataKept, ChunksDoneKept
       DEF ReadChunks
  <2>2. CASE ResponseDone
    BY <2>2, ResponseDoneKept
  <2>3. CASE ResponseBlocks \/ ResponseEOF
    BY <2>3, ResponseStopsKept
  <2>4. ASSUME NEW k \in 0..Space,
               \/ FillGarbage(k) \/ FillNoHead(k) \/ FillBody(k) \/ FillMessage(k) \/ FillChunks(k)
               \/ ReadMoreChunks(k) \/ ReadResponseBody(k)
        PROVE  ReaderInv'
    BY <2>4, FillGarbageKept, FillNoHeadKept, FillBodyKept, FillMessageKept, FillChunksKept,
       ReadMoreChunksKept, ReadResponseBodyKept
  <2>5. QED
    BY <1>3, <2>1, <2>2, <2>3, <2>4 DEF ReadResponse
<1>4. CASE UNCHANGED vars
  <2>1. /\ UNCHANGED <<side, clean, stream, sent, pos, header_buffer, state, got>>
        /\ outcome' = outcome
    BY <1>4 DEF vars
  <2>2. /\ outcome \in {"runs", "chunks", "more", "none", "some", "error", "EOF", "panic"}
        /\ outcome \in {"chunks", "more"} => state.is = "ReadChunkedBody"
    BY DEF ReaderInv, TypeOK, SidesOK
  <2>3. clean => NothingHeldBack' /\ OnlyBadRefused'
    <3>1. clean => NothingHeldBack /\ OnlyBadRefused
      BY DEF ReaderInv, CleanInv
    <3>2. QED
      BY <2>1, <3>1 DEF NothingHeldBack, OnlyBadRefused
  <2>4. QED
    BY <2>1, <2>2, <2>3, OutcomeFrame
<1>5. QED
  BY <1>1, <1>2, <1>3, <1>4 DEF Next

\* Whatever is read, and however it is cut, the readers keep to the limit of
\* header_buffer and never read into a body more than it has room for; and
\* while it is cut cleanly what they keep is the next of the stream
\* (http_types.rs:216-250, 380-520).
THEOREM ReaderInvariance == Spec => []ReaderInv
<1>1. QED
  BY InitOK, NextKept, PTL DEF Spec

\* The types, for streams of any messages in any segments.
THEOREM ReaderTypes == Spec => []TypeOK
<1>1. ReaderInv => TypeOK
  BY DEF ReaderInv
<1>2. QED
  BY <1>1, ReaderInvariance, PTL

\* What the readers return is what was sent, each message with its own body
\* (http_types.rs:216-245, 386-470).
THEOREM ReadersReturnMessages == Spec => []MessagesWhole
<1>1. ReaderInv => MessagesWhole
  BY DEF ReaderInv, CleanInv, GotOK, MessagesWhole
<1>2. QED
  BY <1>1, ReaderInvariance, PTL

\* A call that returns none has left no whole message behind, nor has the
\* server at the end of the stream (http_server.rs:186, http_conn.rs:195).
THEOREM ReadersHoldNothingBack == Spec => []NothingHeldBack
<1>1. ReaderInv => NothingHeldBack
  BY DEF ReaderInv, SidesOK, CleanInv, NothingHeldBack
<1>2. QED
  BY <1>1, ReaderInvariance, PTL

\* An error is returned only for what is too long, and the client panics only
\* at a chunk whose length is none or is too long, as long as no segment ends
\* where read_chunks cannot cope (http_types.rs:219, 450, 505).
THEOREM ReadersRefuseBad == Spec => []OnlyBadRefused
<1>1. ReaderInv => OnlyBadRefused
  BY DEF ReaderInv, CleanInv, OnlyBadRefused
<1>2. QED
  BY <1>1, ReaderInvariance, PTL
=============================================================================
