----------------------- MODULE PipelinedClientProofs -----------------------
(***************************************************************************)
(* Proofs, for any pool, any ids and whatever the kernel and the server    *)
(* hold, that the nonblocking client keeps count: a response is given the  *)
(* id of its request, what is in flight is what is on its way, and no      *)
(* connection leaves the pool for good.                                    *)
(*                                                                         *)
(* InStep rests on ids being in flight once, which the caller sees to and  *)
(* write_request keeps, and on the kernel never holding more than Window.  *)
(***************************************************************************)
EXTENDS PipelinedClient, SequenceFacts, FiniteSetTheorems, TLAPS

\* Every connection is in the pool once, or is the one write_request holds.
PlaceOK ==
  /\ IsInjective(clients)
  /\ Range(clients) = Slot \ {held}
  /\ held # NoSlot <=> pc \in {"write", "reconnect", "rewrite"}
  /\ at # 0 <=> pc \in {"visit", "response", "replace"}

\* Everything a live connection has been asked and not been read from.
Way(conn) == conn.buffer \o conn.outbox \o conn.inbox \o conn.wbuf

ConnOK(conn) ==
  /\ IF conn.up THEN conn.inflight = Way(conn)
                ELSE IsPrefix(conn.buffer \o conn.outbox, conn.inflight)
  /\ IsInjective(conn.inflight)
  /\ Len(conn.inbox) <= Window

\* An id is in flight once, and the one about to be sent is not.
IdsOK ==
  /\ waiting = UNION {Range(conns[s].inflight) : s \in Slot}
  /\ \A s, t \in Slot : s # t => Range(conns[s].inflight) \cap Range(conns[t].inflight) = {}
  /\ held # NoSlot => req \notin waiting

PoolInv == TypeOK /\ PlaceOK /\ (\A s \in Slot : ConnOK(conns[s])) /\ IdsOK /\ OwnId

-----------------------------------------------------------------------------
(* Sequences of ids.                                                       *)

LEMMA IdAssociative ==
  \A s, t, u \in Seq(Id) : (s \o t) \o u = s \o (t \o u)
BY ConcatAssociative

\* A prefix of a sequence is what another sequence continues.
LEMMA PrefixIs ==
  ASSUME NEW S, NEW s \in Seq(S), NEW t \in Seq(S)
  PROVE  IsPrefix(s, t) <=> \E u \in Seq(S) : t = s \o u
<1>1. Len(s) \in Nat /\ Len(t) \in Nat /\ SubSeq(s, 1, Len(s)) = s
  BY SubSeqFull
<1>2. ASSUME IsPrefix(s, t)
      PROVE  \E u \in Seq(S) : t = s \o u
  <2>1. Len(s) \in 0..Len(t) /\ s = SubSeq(t, 1, Len(s))
    BY <1>1, <1>2 DEF IsPrefix
  <2>2. /\ SubSeq(t, Len(s) + 1, Len(t)) \in Seq(S)
        /\ SubSeq(t, 1, Len(s)) \o SubSeq(t, Len(s) + 1, Len(t)) = t
    BY <2>1, TwoParts
  <2>3. QED
    BY <2>1, <2>2
<1>3. ASSUME NEW u \in Seq(S), t = s \o u
      PROVE  IsPrefix(s, t)
  <2>1. Len(u) \in Nat /\ Len(t) = Len(s) + Len(u)
    BY <1>3, ConcatProperties
  <2>2. Len(s) \in 0..Len(t)
    BY <1>1, <2>1
  <2>3. SubSeq(t, 1, Len(s)) \in Seq(S) /\ Len(SubSeq(t, 1, Len(s))) = Len(s)
    BY <2>2, TwoParts
  <2>4. \A i \in 1..Len(s) : SubSeq(t, 1, Len(s))[i] = s[i]
    BY <1>1, <1>3, <2>1
  <2>5. SubSeq(t, 1, Len(s)) = s
    BY <2>3, <2>4, SeqEqual
  <2>6. QED
    BY <1>1, <2>2, <2>5 DEF IsPrefix
<1>4. QED
  BY <1>2, <1>3

LEMMA AppendFresh ==
  ASSUME NEW S, NEW s \in Seq(S), NEW e \in S, IsInjective(s), e \notin Range(s)
  PROVE  IsInjective(Append(s, e)) /\ Range(Append(s, e)) = Range(s) \cup {e}
<1>1. /\ Len(s) \in Nat /\ DOMAIN s = 1..Len(s) /\ DOMAIN Append(s, e) = 1..(Len(s) + 1)
      /\ \A i \in 1..Len(s) : Append(s, e)[i] = s[i]
      /\ Append(s, e)[Len(s) + 1] = e
  OBVIOUS
<1>2. \A i \in DOMAIN Append(s, e) : i \in DOMAIN s \/ i = Len(s) + 1
  BY <1>1
<1>3. /\ Len(s) + 1 \in DOMAIN Append(s, e)
      /\ \A i \in DOMAIN s : i \in DOMAIN Append(s, e)
  BY <1>1
<1>4. QED
  BY <1>1, <1>2, <1>3 DEF IsInjective, Range

LEMMA TailFresh ==
  ASSUME NEW S, NEW s \in Seq(S), s # <<>>, IsInjective(s)
  PROVE  /\ IsInjective(Tail(s)) /\ Range(s) = Range(Tail(s)) \cup {Head(s)}
         /\ Head(s) \notin Range(Tail(s))
<1>1. /\ Len(s) \in Nat /\ Len(s) > 0 /\ DOMAIN s = 1..Len(s) /\ DOMAIN Tail(s) = 1..(Len(s) - 1)
      /\ \A i \in 1..(Len(s) - 1) : Tail(s)[i] = s[i + 1]
      /\ Head(s) = s[1]
  OBVIOUS
<1>2. /\ \A i \in DOMAIN Tail(s) : i \in Nat /\ i + 1 \in DOMAIN s /\ i + 1 # 1
      /\ \A i, j \in DOMAIN Tail(s) : i + 1 = j + 1 => i = j
      /\ 1 \in DOMAIN s
  BY <1>1
<1>3. \A i \in DOMAIN s : i = 1 \/ (i - 1 \in DOMAIN Tail(s) /\ s[i] = Tail(s)[i - 1])
  BY <1>1
<1>4. \A i \in DOMAIN Tail(s) : Tail(s)[i] = s[i + 1]
  BY <1>1
<1>5. IsInjective(Tail(s))
  BY <1>2, <1>4 DEF IsInjective
<1>6. Head(s) \notin Range(Tail(s))
  BY <1>1, <1>2, <1>4 DEF IsInjective, Range
<1>7. Range(s) = Range(Tail(s)) \cup {Head(s)}
  <2>1. ASSUME NEW x \in Range(s)
        PROVE  x \in Range(Tail(s)) \cup {Head(s)}
    <3>1. PICK i \in DOMAIN s : x = s[i]
      BY DEF Range
    <3>2. QED
      BY <1>1, <1>3, <3>1 DEF Range
  <2>2. Range(Tail(s)) \subseteq Range(s)
    BY <1>2, <1>4 DEF Range
  <2>3. Head(s) \in Range(s)
    BY <1>1, <1>2 DEF Range
  <2>4. QED
    BY <2>1, <2>2, <2>3
<1>8. QED
  BY <1>5, <1>6, <1>7

-----------------------------------------------------------------------------
(* What happens to one connection.                                         *)

LEMMA WayTyped ==
  ASSUME NEW conn \in Conn
  PROVE  /\ conn.inflight \in Seq(Id) /\ conn.wbuf \in Seq(Id) /\ conn.inbox \in Seq(Id)
         /\ conn.outbox \in Seq(Id) /\ conn.buffer \in Seq(Id) /\ conn.up \in BOOLEAN
         /\ conn.buffer \o conn.outbox \in Seq(Id)
         /\ conn.buffer \o conn.outbox \o conn.inbox \in Seq(Id)
         /\ Way(conn) \in Seq(Id)
<1>1. /\ conn.inflight \in Seq(Id) /\ conn.wbuf \in Seq(Id) /\ conn.inbox \in Seq(Id)
      /\ conn.outbox \in Seq(Id) /\ conn.buffer \in Seq(Id) /\ conn.up \in BOOLEAN
  BY DEF Conn
<1>2. QED
  BY <1>1, ConcatProperties DEF Way

\* What has come and is to come is what is in flight, or its beginning.
LEMMA WayInFlight ==
  ASSUME NEW conn \in Conn, ConnOK(conn)
  PROVE  \E rest \in Seq(Id) : conn.inflight = conn.buffer \o conn.outbox \o rest
<1>1. CASE conn.up
  <2>1. /\ conn.buffer \o conn.outbox \in Seq(Id) /\ conn.inbox \in Seq(Id)
        /\ conn.wbuf \in Seq(Id)
    BY WayTyped
  <2>2. Way(conn) = conn.buffer \o conn.outbox \o (conn.inbox \o conn.wbuf)
    BY <2>1, IdAssociative DEF Way
  <2>3. conn.inbox \o conn.wbuf \in Seq(Id)
    BY <2>1, ConcatProperties
  <2>4. QED
    BY <1>1, <2>2, <2>3 DEF ConnOK
<1>2. CASE ~conn.up
  <2>1. IsPrefix(conn.buffer \o conn.outbox, conn.inflight)
    BY <1>2 DEF ConnOK
  <2>2. QED
    BY <2>1, WayTyped, PrefixIs
<1>3. QED
  BY <1>1, <1>2

LEMMA NewConnOK == NewConn \in Conn /\ ConnOK(NewConn) /\ Range(NewConn.inflight) = {}
<1>1. <<>> \in Seq(Id) /\ Len(<<>>) = 0 /\ DOMAIN <<>> = {} /\ <<>> \o <<>> = <<>>
  OBVIOUS
<1>2. NewConn \in Conn
  BY <1>1 DEF NewConn, Conn
<1>3. ConnOK(NewConn)
  BY <1>1, PoolAssumption DEF ConnOK, NewConn, Way, IsInjective
<1>4. QED
  BY <1>1, <1>2, <1>3 DEF Range, NewConn

\* The server answers the oldest of the requests it has.
LEMMA RespondConn ==
  ASSUME NEW conn \in Conn, ConnOK(conn), conn.up, conn.inbox # <<>>
  PROVE  LET new == [conn EXCEPT !.inbox = Tail(@), !.outbox = Append(@, Head(conn.inbox))]
         IN  new \in Conn /\ ConnOK(new) /\ new.inflight = conn.inflight
<1> DEFINE new == [conn EXCEPT !.inbox = Tail(@), !.outbox = Append(@, Head(conn.inbox))]
           b == conn.buffer
           o == conn.outbox
           i == conn.inbox
           w == conn.wbuf
<1>1. b \in Seq(Id) /\ o \in Seq(Id) /\ i \in Seq(Id) /\ w \in Seq(Id)
  BY WayTyped
<1>2. i # <<>> /\ Len(i) <= Window
  BY DEF ConnOK
<1>3. Head(i) \in Id /\ Tail(i) \in Seq(Id) /\ Len(Tail(i)) <= Len(i)
  BY <1>1, <1>2
<1>4. Append(o, Head(i)) \in Seq(Id)
  BY <1>1, <1>3
<1>5. /\ new.inflight = conn.inflight /\ new.wbuf = w /\ new.inbox = Tail(i)
      /\ new.outbox = Append(o, Head(i)) /\ new.buffer = b /\ new.up = conn.up
      /\ new \in Conn
  BY <1>3, <1>4 DEF Conn
<1> HIDE DEF new, b, o, i, w
<1>6. (b \o Append(o, Head(i))) \o Tail(i) = (b \o o) \o i
  <2> DEFINE h == Append(o, Head(i))
             t == Tail(i)
  <2>1. h \in Seq(Id) /\ t \in Seq(Id)
    BY <1>3, <1>4
  <2>2. h \o t = o \o i
    BY <1>1, <1>2, HeadMoves
  <2> HIDE DEF h, t
  <2>3. (b \o h) \o t = b \o (h \o t)
    BY <1>1, <2>1, IdAssociative
  <2>4. b \o (o \o i) = (b \o o) \o i
    BY <1>1, IdAssociative
  <2>5. QED
    BY <2>2, <2>3, <2>4 DEF h, t
<1>7. Way(new) = Way(conn)
  BY <1>5, <1>6 DEF Way, b, o, i, w
<1>8. Len(new.inbox) <= Window
  <2>1. Len(Tail(i)) \in Nat /\ Len(i) \in Nat /\ Window \in Nat
    BY <1>1, <1>3, PoolAssumption
  <2>2. QED
    BY <1>2, <1>3, <1>5, <2>1
<1>9. QED
  BY <1>5, <1>7, <1>8 DEF ConnOK, new

\* The server is gone: what it has not sent is lost, and after a reset what
\* it has.
LEMMA ClosedConn ==
  ASSUME NEW conn \in Conn, ConnOK(conn), NEW reset \in BOOLEAN
  PROVE  LET new == [conn EXCEPT !.up = FALSE, !.inbox = <<>>,
                                 !.outbox = IF reset THEN <<>> ELSE @]
         IN  new \in Conn /\ ConnOK(new) /\ new.inflight = conn.inflight
<1> DEFINE new == [conn EXCEPT !.up = FALSE, !.inbox = <<>>,
                               !.outbox = IF reset THEN <<>> ELSE @]
<1>1. <<>> \in Seq(Id) /\ Len(<<>>) = 0
  OBVIOUS
<1>2. /\ new.inflight = conn.inflight /\ new.inbox = <<>> /\ new.buffer = conn.buffer
      /\ new.outbox = (IF reset THEN <<>> ELSE conn.outbox) /\ new.up = FALSE
      /\ new \in Conn
  BY <1>1 DEF Conn
<1> HIDE DEF new
<1>3. PICK rest \in Seq(Id) : conn.inflight = conn.buffer \o conn.outbox \o rest
  BY WayInFlight
<1>4. \E u \in Seq(Id) : new.inflight = new.buffer \o new.outbox \o u
  <2>1. CASE reset
    <3>1. conn.inflight = conn.buffer \o (conn.outbox \o rest)
      <4>1. conn.buffer \in Seq(Id) /\ conn.outbox \in Seq(Id)
        BY WayTyped
      <4>2. QED
        BY <1>3, <4>1, IdAssociative
    <3>2. conn.outbox \o rest \in Seq(Id) /\ conn.buffer \o <<>> = conn.buffer
      BY WayTyped, ConcatProperties, ConcatEmptySeq
    <3>3. QED
      BY <1>2, <2>1, <3>1, <3>2
  <2>2. CASE ~reset
    BY <1>2, <1>3, <2>2
  <2>3. QED
    BY <2>1, <2>2
<1>5. IsPrefix(new.buffer \o new.outbox, new.inflight)
  BY <1>2, <1>4, WayTyped, PrefixIs
<1>6. Len(new.inbox) <= Window
  BY <1>1, <1>2, PoolAssumption
<1>7. QED
  BY <1>2, <1>5, <1>6 DEF ConnOK, new

\* How many requests the kernel takes.
LEMMA TakenRange ==
  ASSUME NEW conn \in Conn, ConnOK(conn), NEW rs \in Seq(Id)
  PROVE  /\ Taken(conn, rs) \in 0..Len(rs)
         /\ conn.up => Len(conn.inbox) + Taken(conn, rs) <= Window
         /\ ~conn.up => Taken(conn, rs) = Len(rs)
<1>1. Len(rs) \in Nat /\ Len(conn.inbox) \in Nat /\ Window \in Nat
  BY WayTyped, PoolAssumption
<1>2. Len(conn.inbox) <= Window
  BY DEF ConnOK
<1>3. Taken(conn, rs) \in 0..Len(rs)
  BY <1>1, <1>2 DEF Taken
<1>4. ASSUME conn.up
      PROVE  Taken(conn, rs) <= Window - Len(conn.inbox)
  <2>1. Taken(conn, rs) = IF Len(rs) <= Window - Len(conn.inbox)
                          THEN Len(rs) ELSE Window - Len(conn.inbox)
    BY <1>4, Zenon DEF Taken
  <2>2. PICK m \in Nat : m = Len(conn.inbox)
    BY <1>1
  <2>3. PICK l \in Nat : l = Len(rs)
    BY <1>1
  <2>4. Taken(conn, rs) = IF l <= Window - m THEN l ELSE Window - m
    BY <2>1, <2>2, <2>3
  <2>5. Taken(conn, rs) <= Window - m
    BY <1>1, <2>4
  <2>6. QED
    BY <2>2, <2>5
<1>5. ~conn.up => Taken(conn, rs) = Len(rs)
  BY DEF Taken
<1>6. QED
  BY <1>1, <1>3, <1>4, <1>5

\* The buffer and the kernel hold the requests in their order.
LEMMA PutConn ==
  ASSUME NEW conn \in Conn, ConnOK(conn), NEW rs \in Seq(Id)
  PROVE  LET new == Put(conn, rs) IN
         /\ new \in Conn /\ new.inflight = conn.inflight /\ new.up = conn.up
         /\ new.buffer = conn.buffer /\ new.outbox = conn.outbox
         /\ conn.up => new.inbox \o new.wbuf = conn.inbox \o rs
         /\ Len(new.inbox) <= Window
<1> DEFINE k     == Taken(conn, rs)
           first == SubSeq(rs, 1, k)
           rest  == SubSeq(rs, k + 1, Len(rs))
           new   == Put(conn, rs)
<1>1. k \in 0..Len(rs)
  BY TakenRange
<1>2. /\ first \in Seq(Id) /\ Len(first) = k /\ rest \in Seq(Id) /\ first \o rest = rs
  BY <1>1, TwoParts
<1>3. /\ conn.inbox \in Seq(Id) /\ conn.inbox \o first \in Seq(Id)
      /\ Len(conn.inbox \o first) = Len(conn.inbox) + k
  BY <1>2, WayTyped, ConcatProperties
<1>4. new = [conn EXCEPT !.inbox = IF conn.up THEN conn.inbox \o first ELSE conn.inbox,
                         !.wbuf = rest]
  BY DEF Put
<1> HIDE DEF k, first, rest, new
<1>5. /\ new \in Conn /\ new.inflight = conn.inflight /\ new.up = conn.up
      /\ new.buffer = conn.buffer /\ new.outbox = conn.outbox
      /\ new.inbox = (IF conn.up THEN conn.inbox \o first ELSE conn.inbox) /\ new.wbuf = rest
  BY <1>2, <1>3, <1>4 DEF Conn
<1>6. (conn.inbox \o first) \o rest = conn.inbox \o rs
  <2>1. conn.inbox \in Seq(Id) /\ first \in Seq(Id) /\ rest \in Seq(Id)
    BY <1>2, <1>3
  <2>2. (conn.inbox \o first) \o rest = conn.inbox \o (first \o rest)
    BY <2>1, IdAssociative
  <2>3. QED
    BY <1>2, <2>2
<1>7. Len(new.inbox) <= Window
  BY <1>3, <1>5, TakenRange DEF ConnOK, k
<1>8. QED
  BY <1>5, <1>6, <1>7 DEF new

\* What the kernel holds and what waits for it follow what has come back.
LEMMA WaySplit ==
  ASSUME NEW conn \in Conn
  PROVE  Way(conn) = (conn.buffer \o conn.outbox) \o (conn.inbox \o conn.wbuf)
<1>1. /\ conn.buffer \o conn.outbox \in Seq(Id) /\ conn.inbox \in Seq(Id)
      /\ conn.wbuf \in Seq(Id)
  BY WayTyped
<1>2. QED
  BY <1>1, IdAssociative DEF Way

LEMMA FlushConn ==
  ASSUME NEW conn \in Conn, ConnOK(conn)
  PROVE  Flushed(conn) \in Conn /\ ConnOK(Flushed(conn)) /\ Flushed(conn).inflight = conn.inflight
<1> DEFINE new == Flushed(conn)
<1>1. conn.wbuf \in Seq(Id)
  BY WayTyped
<1>2. /\ new \in Conn /\ new.inflight = conn.inflight /\ new.up = conn.up
      /\ new.buffer = conn.buffer /\ new.outbox = conn.outbox
      /\ conn.up => new.inbox \o new.wbuf = conn.inbox \o conn.wbuf
      /\ Len(new.inbox) <= Window
  BY <1>1, PutConn DEF Flushed
<1> HIDE DEF new
<1>3. conn.up => Way(new) = Way(conn)
  BY <1>2, WaySplit
<1>4. QED
  BY <1>2, <1>3 DEF ConnOK, new

\* A new request is the last in flight and the last on its way.
LEMMA WriteConn ==
  ASSUME NEW conn \in Conn, ConnOK(conn), req \in Id, req \notin Range(conn.inflight)
  PROVE  LET new == PushId(Put(conn, Append(conn.wbuf, req))) IN
         /\ new \in Conn /\ ConnOK(new)
         /\ Range(new.inflight) = Range(conn.inflight) \cup {req}
<1> DEFINE put == Put(conn, Append(conn.wbuf, req))
           new == PushId(put)
           b   == conn.buffer \o conn.outbox
           i   == conn.inbox
           w   == conn.wbuf
<1>1. b \in Seq(Id) /\ i \in Seq(Id) /\ w \in Seq(Id)
  BY WayTyped
<1>2. Append(w, req) \in Seq(Id) /\ Append(w, req) = w \o <<req>> /\ <<req>> \in Seq(Id)
  BY <1>1, AppendIsConcat
<1>3. /\ put \in Conn /\ put.inflight = conn.inflight /\ put.up = conn.up
      /\ put.buffer = conn.buffer /\ put.outbox = conn.outbox
      /\ conn.up => put.inbox \o put.wbuf = i \o Append(w, req)
      /\ Len(put.inbox) <= Window
  BY <1>2, PutConn
<1>4. conn.inflight \in Seq(Id) /\ Append(conn.inflight, req) \in Seq(Id)
  BY WayTyped
<1> HIDE DEF put
<1>5. /\ new \in Conn /\ new.inflight = Append(conn.inflight, req) /\ new.up = conn.up
      /\ new.buffer = conn.buffer /\ new.outbox = conn.outbox
      /\ new.inbox = put.inbox /\ new.wbuf = put.wbuf
  BY <1>3, <1>4 DEF Conn, PushId
<1> HIDE DEF new, b, i, w
<1>6. IsInjective(new.inflight) /\ Range(new.inflight) = Range(conn.inflight) \cup {req}
  BY <1>4, <1>5, AppendFresh DEF ConnOK
<1>7. Append(conn.inflight, req) = conn.inflight \o <<req>>
  BY <1>4, AppendIsConcat
<1>8. CASE conn.up
  <2>1. Way(new) = b \o (i \o Append(w, req))
    BY <1>3, <1>5, <1>8, WaySplit DEF b
  <2>2. conn.inflight = b \o (i \o w)
    BY <1>8, WaySplit DEF ConnOK, b, i, w
  <2>3. i \o w \in Seq(Id)
    BY <1>1, ConcatProperties
  <2>4. i \o (w \o <<req>>) = (i \o w) \o <<req>>
    BY <1>1, <1>2, IdAssociative
  <2>5. b \o ((i \o w) \o <<req>>) = (b \o (i \o w)) \o <<req>>
    BY <1>1, <1>2, <2>3, IdAssociative
  <2>6. Way(new) = new.inflight
    BY <1>2, <1>5, <1>7, <2>1, <2>2, <2>4, <2>5
  <2>7. QED
    BY <1>3, <1>5, <1>6, <1>8, <2>6 DEF ConnOK, new, put
<1>9. CASE ~conn.up
  <2>1. PICK rest \in Seq(Id) : conn.inflight = b \o rest
    BY WayInFlight DEF b
  <2>2. rest \o <<req>> \in Seq(Id)
    BY <1>2, <2>1, ConcatProperties
  <2>3. (b \o rest) \o <<req>> = b \o (rest \o <<req>>)
    BY <1>1, <1>2, <2>1, IdAssociative
  <2>4. new.inflight = b \o (rest \o <<req>>)
    BY <1>5, <1>7, <2>1, <2>3
  <2>5. IsPrefix(b, new.inflight)
    BY <1>1, <1>4, <1>5, <2>2, <2>4, PrefixIs
  <2>6. new.buffer \o new.outbox = b
    BY <1>5 DEF b
  <2>7. QED
    BY <1>3, <1>5, <1>6, <1>9, <2>5, <2>6 DEF ConnOK, new, put
<1>10. QED
  BY <1>8, <1>9, WayTyped

\* The first response that has arrived is that to the oldest request in
\* flight, and taking both leaves the others in step.
LEMMA ReadConn ==
  ASSUME NEW conn \in Conn, ConnOK(conn), NEW k \in 0..Len(conn.outbox),
         conn.buffer \o SubSeq(conn.outbox, 1, k) # <<>>
  PROVE  LET got == conn.buffer \o SubSeq(conn.outbox, 1, k)
             new == [conn EXCEPT !.buffer = Tail(got),
                                 !.outbox = SubSeq(@, k + 1, Len(@)),
                                 !.inflight = Tail(@)]
         IN  /\ conn.inflight # <<>> /\ Head(got) = Head(conn.inflight)
             /\ Head(got) \in Id
             /\ new \in Conn /\ ConnOK(new)
             /\ Range(conn.inflight) = Range(new.inflight) \cup {Head(got)}
             /\ Head(got) \notin Range(new.inflight)
<1> DEFINE b    == conn.buffer
           o1   == SubSeq(conn.outbox, 1, k)
           o2   == SubSeq(conn.outbox, k + 1, Len(conn.outbox))
           got  == b \o o1
           new  == [conn EXCEPT !.buffer = Tail(got), !.outbox = o2, !.inflight = Tail(@)]
           i    == conn.inflight
<1>1. /\ b \in Seq(Id) /\ conn.outbox \in Seq(Id) /\ i \in Seq(Id)
      /\ conn.inbox \in Seq(Id) /\ conn.wbuf \in Seq(Id) /\ IsInjective(i)
  BY WayTyped DEF ConnOK
<1>2. o1 \in Seq(Id) /\ o2 \in Seq(Id) /\ o1 \o o2 = conn.outbox
  BY <1>1, TwoParts
<1>3. got \in Seq(Id) /\ got # <<>>
  BY <1>1, <1>2, ConcatProperties
<1> HIDE DEF b, o1, o2
<1>4. b \o conn.outbox = got \o o2
  <2>1. b \in Seq(Id) /\ o1 \in Seq(Id) /\ o2 \in Seq(Id)
    BY <1>1, <1>2
  <2>2. (b \o o1) \o o2 = b \o (o1 \o o2)
    BY <2>1, IdAssociative
  <2>3. QED
    BY <1>2, <2>2
<1> HIDE DEF got
<1>5. /\ got \o o2 # <<>> /\ Head(got \o o2) = Head(got) /\ Tail(got \o o2) = Tail(got) \o o2
      /\ Tail(got) \in Seq(Id) /\ Head(got) \in Id
  BY <1>2, <1>3, FirstOfTwo
<1>6. got \o o2 \in Seq(Id) /\ Tail(got) \o o2 \in Seq(Id)
  BY <1>2, <1>3, <1>5, ConcatProperties
<1>7. ASSUME NEW rest \in Seq(Id), i = (b \o conn.outbox) \o rest
      PROVE  i # <<>> /\ Head(i) = Head(got) /\ Tail(i) = (Tail(got) \o o2) \o rest
  <2>1. i = (got \o o2) \o rest
    BY <1>4, <1>7
  <2>2. /\ (got \o o2) \o rest # <<>> /\ Head((got \o o2) \o rest) = Head(got \o o2)
        /\ Tail((got \o o2) \o rest) = Tail(got \o o2) \o rest
    BY <1>5, <1>6, <1>7, FirstOfTwo
  <2>3. QED
    BY <1>5, <2>1, <2>2
<1>8. PICK rest \in Seq(Id) : i = (b \o conn.outbox) \o rest
  BY WayInFlight DEF b
<1>9. i # <<>> /\ Head(i) = Head(got) /\ Tail(i) = (Tail(got) \o o2) \o rest
  BY <1>7, <1>8
<1>10. /\ IsInjective(Tail(i)) /\ Range(i) = Range(Tail(i)) \cup {Head(got)}
       /\ Head(got) \notin Range(Tail(i)) /\ Tail(i) \in Seq(Id)
  BY <1>1, <1>9, TailFresh
<1>11. /\ new \in Conn /\ new.inflight = Tail(i) /\ new.buffer = Tail(got) /\ new.outbox = o2
       /\ new.inbox = conn.inbox /\ new.wbuf = conn.wbuf /\ new.up = conn.up
  BY <1>2, <1>5, <1>10 DEF Conn
<1> HIDE DEF new
<1>12. CASE conn.up
  <2>1. conn.inbox \o conn.wbuf \in Seq(Id)
    BY <1>1, ConcatProperties
  <2>2. i = (b \o conn.outbox) \o (conn.inbox \o conn.wbuf)
    BY <1>12, WaySplit DEF ConnOK, b
  <2>3. Tail(i) = (Tail(got) \o o2) \o (conn.inbox \o conn.wbuf)
    BY <1>7, <2>1, <2>2
  <2>4. Way(new) = (Tail(got) \o o2) \o (conn.inbox \o conn.wbuf)
    BY <1>11, WaySplit
  <2>5. new.inflight = Way(new)
    BY <1>11, <2>3, <2>4
  <2>6. ConnOK(new)
    BY <1>10, <1>11, <1>12, <2>5 DEF ConnOK
  <2>7. QED
    BY <1>5, <1>9, <1>10, <1>11, <2>6 DEF new, got, o1, o2, b
<1>13. CASE ~conn.up
  <2>1. IsPrefix(new.buffer \o new.outbox, new.inflight)
    BY <1>6, <1>8, <1>9, <1>10, <1>11, PrefixIs
  <2>2. ConnOK(new)
    BY <1>10, <1>11, <1>13, <2>1 DEF ConnOK
  <2>3. QED
    BY <1>5, <1>9, <1>10, <1>11, <2>2 DEF new, got, o1, o2, b
<1>14. QED
  BY <1>12, <1>13, WayTyped

-----------------------------------------------------------------------------
(* The places of the pool.                                                 *)

\* A list of the pool that holds the slots in S once each.
Lists(order, S) == order \in Seq(Slot) /\ IsInjective(order) /\ Range(order) = S

LEMMA ListLength ==
  ASSUME NEW order, Lists(order, Slot)
  PROVE  Len(order) = Cardinality(Slot)
<1>1. Len(order) \in Nat /\ DOMAIN order = 1..Len(order) /\ order \in [1..Len(order) -> Slot]
  BY DEF Lists
<1>2. \A s \in Slot : \E i \in 1..Len(order) : order[i] = s
  BY <1>1 DEF Lists, Range
<1>3. order \in Bijection(1..Len(order), Slot)
  BY <1>1, <1>2 DEF Lists, IsInjective, Bijection, Injection, Surjection
<1>4. ExistsBijection(1..Len(order), Slot)
  BY <1>3 DEF ExistsBijection
<1>5. QED
  BY <1>1, <1>4, FS_CountingElements

\* Sorting keeps every connection.
LEMMA SortedLists ==
  ASSUME NEW order, Lists(order, Slot), NEW cs, NEW new \in Sorted(order, cs)
  PROVE  Lists(new, Slot)
<1>1. Len(order) \in Nat /\ DOMAIN order = 1..Len(order) /\ Len(order) = Cardinality(Slot)
  BY ListLength DEF Lists
<1>2. new \in [1..Len(order) -> Slot] /\ IsInjective(new)
  BY <1>1 DEF Sorted, Lists
<1>3. new \in Injection(1..Len(order), Slot)
  BY <1>2 DEF Injection
<1>4. IsFiniteSet(1..Len(order)) /\ Cardinality(1..Len(order)) = Len(order)
  BY <1>1, FS_Interval
<1>5. new \in Surjection(1..Len(order), Slot)
  BY <1>1, <1>3, <1>4, FS_Injection, PoolAssumption
<1>6. Range(new) = Slot
  BY <1>2, <1>5 DEF Range, Surjection
<1>7. new \in Seq(Slot)
  BY <1>1, <1>2
<1>8. QED
  BY <1>2, <1>6, <1>7 DEF Lists

LEMMA FrontLists ==
  ASSUME NEW order, Lists(order, Slot)
  PROVE  Last(order) \in Slot /\ Lists(Front(order), Slot \ {Last(order)})
<1>1. /\ order \in Seq(Slot) /\ Len(order) \in Nat /\ DOMAIN order = 1..Len(order)
      /\ IsInjective(order) /\ Range(order) = Slot
  BY DEF Lists
<1>2. Len(order) > 0
  <2>1. PICK s \in Slot : TRUE
    BY PoolAssumption
  <2>2. PICK i \in DOMAIN order : order[i] = s
    BY <1>1, <2>1 DEF Range
  <2>3. QED
    BY <1>1, <2>2
<1>3. Last(order) = order[Len(order)] /\ Len(order) \in DOMAIN order
  BY <1>1, <1>2 DEF Last
<1>4. /\ Front(order) \in Seq(Slot) /\ DOMAIN Front(order) = 1..(Len(order) - 1)
      /\ \A i \in 1..(Len(order) - 1) : Front(order)[i] = order[i]
  BY <1>1, <1>2 DEF Front
<1>5. \A i \in DOMAIN Front(order) : i \in DOMAIN order /\ i # Len(order)
  BY <1>1, <1>4
<1>6. \A i \in DOMAIN order : i # Len(order) => i \in DOMAIN Front(order)
  BY <1>1, <1>4
<1>7. IsInjective(Front(order))
  BY <1>1, <1>4, <1>5 DEF IsInjective
<1>8. Range(Front(order)) = Slot \ {Last(order)}
  <2>1. ASSUME NEW i \in DOMAIN Front(order)
        PROVE  Front(order)[i] \in Slot \ {Last(order)}
    BY <1>1, <1>3, <1>4, <1>5 DEF IsInjective
  <2>2. ASSUME NEW s \in Slot \ {Last(order)}
        PROVE  \E i \in DOMAIN Front(order) : Front(order)[i] = s
    <3>1. PICK i \in DOMAIN order : order[i] = s
      BY <1>1 DEF Range
    <3>2. i \in DOMAIN Front(order)
      BY <1>3, <1>6, <3>1
    <3>3. QED
      BY <1>4, <3>1, <3>2
  <2>3. QED
    BY <2>1, <2>2 DEF Range
<1>9. QED
  BY <1>1, <1>3, <1>4, <1>7, <1>8 DEF Lists

\* What write_request holds goes back to where it is missing.
LEMMA PutBackLists ==
  ASSUME TypeOK, PlaceOK, held # NoSlot
  PROVE  Lists(PutBack, Slot)
<1>1. held \in Slot /\ clients \in Seq(Slot) /\ held \notin Range(clients) /\ IsInjective(clients)
  BY DEF TypeOK, PlaceOK
<1>2. IsInjective(PutBack) /\ Range(PutBack) = Range(clients) \cup {held}
  BY <1>1, AppendFresh DEF PutBack
<1>3. PutBack \in Seq(Slot)
  BY <1>1 DEF PutBack
<1>4. Range(clients) = Slot \ {held}
  BY DEF PlaceOK
<1>5. QED
  BY <1>1, <1>2, <1>3, <1>4 DEF Lists

LEMMA SetToSeqLists == Lists(SetToSeq(Slot), Slot)
<1>1. Cardinality(Slot) \in Nat /\ ExistsBijection(1..Cardinality(Slot), Slot)
  BY FS_CardinalityType, PoolAssumption
<1>2. PICK f : f \in Bijection(1..Cardinality(Slot), Slot)
  BY <1>1 DEF ExistsBijection
<1>3. f \in [1..Cardinality(Slot) -> Slot] /\ IsInjective(f)
  BY <1>2 DEF Bijection, Injection
<1>4. SetToSeq(Slot) \in [1..Cardinality(Slot) -> Slot] /\ IsInjective(SetToSeq(Slot))
  BY <1>3 DEF SetToSeq
<1>5. SetToSeq(Slot) \in Injection(1..Cardinality(Slot), Slot)
  BY <1>4 DEF Injection
<1>6. /\ IsFiniteSet(1..Cardinality(Slot))
      /\ Cardinality(1..Cardinality(Slot)) = Cardinality(Slot)
  BY <1>1, FS_Interval
<1>7. SetToSeq(Slot) \in Surjection(1..Cardinality(Slot), Slot)
  BY <1>5, <1>6, FS_Injection, PoolAssumption
<1>8. Range(SetToSeq(Slot)) = Slot
  BY <1>4, <1>7 DEF Range, Surjection
<1>9. SetToSeq(Slot) \in Seq(Slot)
  BY <1>1, <1>4
<1>10. QED
  BY <1>4, <1>8, <1>9 DEF Lists

-----------------------------------------------------------------------------
(* Parts of a step.                                                        *)

\* One connection changes.
LEMMA ConnChanged ==
  ASSUME TypeOK, \A s \in Slot : ConnOK(conns[s]), NEW s \in Slot,
         NEW new, new \in Conn, ConnOK(new),
         conns'[s] = new, \A t \in Slot \ {s} : conns'[t] = conns[t],
         conns' = [t \in Slot |-> conns'[t]]
  PROVE  conns' \in [Slot -> Conn] /\ \A t \in Slot : ConnOK(conns'[t])
<1>1. \A t \in Slot : conns'[t] \in Conn /\ ConnOK(conns'[t])
  BY DEF TypeOK
<1>2. QED
  BY <1>1

\* Nothing is sent and no response is taken.
LEMMA IdsSame ==
  ASSUME IdsOK, \A s \in Slot : conns'[s].inflight = conns[s].inflight, waiting' = waiting,
         held' # NoSlot => held # NoSlot /\ req' = req
  PROVE  IdsOK'
<1>1. \A s \in Slot : Range(conns'[s].inflight) = Range(conns[s].inflight)
  OBVIOUS
<1>2. {Range(conns'[s].inflight) : s \in Slot} = {Range(conns[s].inflight) : s \in Slot}
  BY <1>1
<1>3. QED
  BY <1>1, <1>2 DEF IdsOK

\* The state of the caller and of the call, where conns is not looked at.
CallTypes ==
  /\ clients \in Seq(Slot)
  /\ pc \in {"idle", "write", "reconnect", "rewrite", "visit", "response", "replace"}
  /\ held \in Slot \cup {NoSlot}
  /\ req \in Id
  /\ at \in 0..Len(clients)
  /\ drains \in BOOLEAN

LEMMA CallTypesHold ==
  ASSUME TypeOK
  PROVE  CallTypes
BY DEF TypeOK, CallTypes

LEMMA ReturnPlace ==
  ASSUME TypeOK, Return, Lists(clients', Slot)
  PROVE  CallTypes' /\ PlaceOK' /\ held' = NoSlot
<1>1. /\ pc' = "idle" /\ held' = NoSlot /\ req' = Ping /\ at' = 0 /\ drains' = drains
  BY DEF Return
<1>2. Slot \ {NoSlot} = Slot
  BY PoolAssumption
<1>3. PlaceOK'
  BY <1>1, <1>2 DEF PlaceOK, Lists
<1>4. CallTypes'
  <2>1. clients' \in Seq(Slot) /\ Len(clients') \in Nat
    BY DEF Lists
  <2>2. QED
    BY <1>1, <2>1, PoolAssumption DEF CallTypes, TypeOK
<1>5. QED
  BY <1>1, <1>3, <1>4

\* Between two calls and during read_response the pool is whole.
LEMMA PoolLists ==
  ASSUME TypeOK, PlaceOK, pc \notin {"write", "reconnect", "rewrite"}
  PROVE  held = NoSlot /\ Lists(clients, Slot)
<1>1. held = NoSlot /\ Slot \ {NoSlot} = Slot
  BY PoolAssumption DEF PlaceOK
<1>2. QED
  BY <1>1 DEF PlaceOK, TypeOK, Lists

LEMMA ClientSlot ==
  ASSUME TypeOK, PlaceOK, pc \in {"visit", "response", "replace"}
  PROVE  Client \in Slot
<1>1. clients \in Seq(Slot) /\ Len(clients) \in Nat /\ at \in 1..Len(clients)
  BY DEF TypeOK, PlaceOK
<1>2. QED
  BY <1>1 DEF Client

\* read_response goes on with the same client or with another.
LEMMA ReadGoesOn ==
  ASSUME TypeOK, PlaceOK, pc \in {"visit", "response", "replace"},
         pc' \in {"visit", "response", "replace"}, at' \in 1..Len(clients),
         UNCHANGED <<clients, held, req, drains>>
  PROVE  CallTypes' /\ PlaceOK' /\ held' = NoSlot
<1>1. at' # 0 /\ at' \in 0..Len(clients) /\ at # 0
  BY DEF PlaceOK, TypeOK
<1>2. held = NoSlot
  BY PoolLists
<1>3. PlaceOK'
  BY <1>1, <1>2 DEF PlaceOK
<1>4. CallTypes'
  BY <1>1, CallTypesHold DEF CallTypes
<1>5. QED
  BY <1>2, <1>3, <1>4

LEMMA ReturnFromRead ==
  ASSUME TypeOK, PlaceOK, pc \in {"visit", "response", "replace"}, Return, clients' = clients
  PROVE  CallTypes' /\ PlaceOK' /\ held' = NoSlot
BY PoolLists, ReturnPlace

LEMMA NextClientPlace ==
  ASSUME TypeOK, PlaceOK, pc \in {"visit", "response"}, NextClient, clients' = clients
  PROVE  CallTypes' /\ PlaceOK' /\ held' = NoSlot /\ (drained' = drained \/ drained' = TRUE)
<1>1. at \in 1..Len(clients) /\ Len(clients) \in Nat
  BY DEF TypeOK, PlaceOK
<1>2. CASE at < Len(clients)
  <2>1. pc' = "visit" /\ at' = at + 1 /\ UNCHANGED <<held, req, drains, drained>>
    BY <1>2 DEF NextClient
  <2>2. at' \in 1..Len(clients)
    BY <1>1, <1>2, <2>1
  <2>3. QED
    BY <2>1, <2>2, ReadGoesOn
<1>3. CASE ~(at < Len(clients))
  BY <1>3, ReturnFromRead DEF NextClient
<1>4. QED
  BY <1>2, <1>3

\* The parts make a step.
LEMMA StepInv ==
  ASSUME CallTypes', PlaceOK', IdsOK', OwnId',
         conns' \in [Slot -> Conn], \A s \in Slot : ConnOK(conns'[s]),
         waiting' \subseteq Id, drained' \in BOOLEAN, result' \in [id : Id, of : Id]
  PROVE  PoolInv'
<1>1. TypeOK'
  BY DEF TypeOK, CallTypes
<1>2. QED
  BY <1>1 DEF PoolInv

-----------------------------------------------------------------------------
(* The server.                                                             *)

LEMMA ServerKeeps ==
  ASSUME PoolInv, Server
  PROVE  PoolInv'
<1>1. TypeOK /\ PlaceOK /\ (\A s \in Slot : ConnOK(conns[s])) /\ IdsOK /\ OwnId
  BY DEF PoolInv
<1>2. UNCHANGED <<clients, callVars, waiting, drained, result>>
  BY DEF Server, Respond, ServerCloses
<1>3. CallTypes' /\ PlaceOK' /\ OwnId'
  BY <1>1, <1>2, CallTypesHold DEF callVars, CallTypes, PlaceOK, OwnId
<1>4. ASSUME NEW s \in Slot, NEW new, new \in Conn, ConnOK(new),
             new.inflight = conns[s].inflight, conns' = [conns EXCEPT ![s] = new]
      PROVE  PoolInv'
  <2>1. /\ conns'[s] = new /\ \A t \in Slot \ {s} : conns'[t] = conns[t]
        /\ conns' = [t \in Slot |-> conns'[t]]
    BY <1>1, <1>4 DEF TypeOK
  <2>2. conns' \in [Slot -> Conn] /\ \A t \in Slot : ConnOK(conns'[t])
    BY <1>1, <1>4, <2>1, ConnChanged
  <2>3. IdsOK'
    BY <1>1, <1>2, <1>4, <2>1, IdsSame DEF callVars
  <2>4. QED
    BY <1>1, <1>2, <1>3, <2>2, <2>3, StepInv DEF TypeOK
<1>5. ASSUME NEW s \in Slot, Respond(s)
      PROVE  PoolInv'
  <2> DEFINE conn == conns[s]
             new  == [conn EXCEPT !.inbox = Tail(@), !.outbox = Append(@, Head(conn.inbox))]
  <2>1. conn \in Conn /\ ConnOK(conn) /\ conn.up /\ conn.inbox # <<>>
    BY <1>1, <1>5 DEF Respond, TypeOK
  <2>2. new \in Conn /\ ConnOK(new) /\ new.inflight = conn.inflight
    BY <2>1, RespondConn
  <2>3. conns' = [conns EXCEPT ![s] = new]
    BY <1>5 DEF Respond
  <2>4. QED
    BY <1>4, <2>2, <2>3
<1>6. ASSUME NEW s \in Slot, NEW reset \in BOOLEAN, ServerCloses(s, reset)
      PROVE  PoolInv'
  <2> DEFINE conn == conns[s]
             new  == [conn EXCEPT !.up = FALSE, !.inbox = <<>>,
                                  !.outbox = IF reset THEN <<>> ELSE @]
  <2>1. conn \in Conn /\ ConnOK(conn)
    BY <1>1 DEF TypeOK
  <2>2. new \in Conn /\ ConnOK(new) /\ new.inflight = conn.inflight
    BY <2>1, ClosedConn
  <2>3. conns' = [conns EXCEPT ![s] = new]
    BY <1>6 DEF ServerCloses
  <2>4. QED
    BY <1>4, <2>2, <2>3
<1>7. QED
  BY <1>5, <1>6 DEF Server

-----------------------------------------------------------------------------
(* write_request.                                                          *)

\* What one connection has in flight changes, and what is waited for with it.
LEMMA IdsChanged ==
  ASSUME IdsOK, NEW s \in Slot, NEW R, R = Range(conns'[s].inflight),
         \A t \in Slot \ {s} : conns'[t] = conns[t],
         waiting' = (waiting \ Range(conns[s].inflight)) \cup R,
         R \cap (waiting \ Range(conns[s].inflight)) = {},
         held' # NoSlot => req' \notin waiting'
  PROVE  IdsOK'
<1> DEFINE F(t) == Range(conns[t].inflight)
           G(t) == Range(conns'[t].inflight)
<1>1. /\ waiting = UNION {F(t) : t \in Slot}
      /\ \A t, u \in Slot : t # u => F(t) \cap F(u) = {}
  BY DEF IdsOK
<1>2. G(s) = R /\ \A t \in Slot \ {s} : G(t) = F(t)
  OBVIOUS
<1>3. waiting' = (waiting \ F(s)) \cup R /\ R \cap (waiting \ F(s)) = {}
  OBVIOUS
<1>4. waiting' = UNION {G(t) : t \in Slot} /\ \A t, u \in Slot : t # u => G(t) \cap G(u) = {}
  <2> HIDE DEF F, G
  <2>1. \A t \in Slot \ {s} : F(t) \subseteq waiting \ F(s)
    BY <1>1
  <2>2. \A x \in waiting \ F(s) : \E t \in Slot \ {s} : x \in F(t)
    BY <1>1
  <2>3. waiting' = UNION {G(t) : t \in Slot}
    BY <1>2, <1>3, <2>1, <2>2
  <2>4. \A t \in Slot \ {s} : G(t) \cap R = {}
    BY <1>2, <1>3, <2>1
  <2>5. \A t, u \in Slot : t # u => G(t) \cap G(u) = {}
    BY <1>1, <1>2, <2>4
  <2>6. QED
    BY <2>3, <2>5
<1>5. QED
  BY <1>4 DEF IdsOK

LEMMA InvParts ==
  ASSUME PoolInv
  PROVE  /\ TypeOK /\ PlaceOK /\ (\A s \in Slot : ConnOK(conns[s])) /\ IdsOK /\ OwnId
         /\ \A s \in Slot : conns[s] \in Conn /\ Range(conns[s].inflight) \subseteq waiting
<1>1. TypeOK /\ PlaceOK /\ (\A s \in Slot : ConnOK(conns[s])) /\ IdsOK /\ OwnId
  BY DEF PoolInv
<1>2. QED
  BY <1>1 DEF TypeOK, IdsOK

\* The last of the pool is taken out.
LEMMA StartWriteKeeps ==
  ASSUME PoolInv, NEW id \in Id, StartWrite(id)
  PROVE  PoolInv'
<1>1. /\ TypeOK /\ PlaceOK /\ (\A s \in Slot : ConnOK(conns[s])) /\ IdsOK
  BY InvParts
<1>2. /\ pc = "idle" /\ pc' = "write" /\ id \notin waiting /\ held' = Last(clients)
      /\ clients' = Front(clients) /\ req' = id /\ result' = None
      /\ UNCHANGED <<conns, at, drains, waiting, drained>>
  BY DEF StartWrite
<1>3. Lists(clients, Slot)
  BY <1>1, <1>2, PoolLists
<1>4. Last(clients) \in Slot /\ Lists(Front(clients), Slot \ {Last(clients)})
  BY <1>3, FrontLists
<1>5. at = 0
  BY <1>1, <1>2 DEF PlaceOK
<1>6. PlaceOK'
  BY <1>2, <1>4, <1>5, PoolAssumption DEF PlaceOK, Lists
<1>7. CallTypes'
  <2>1. clients' \in Seq(Slot) /\ Len(clients') \in Nat
    BY <1>2, <1>4 DEF Lists
  <2>2. QED
    BY <1>1, <1>2, <1>4, <1>5, <2>1 DEF CallTypes, TypeOK
<1>8. IdsOK'
  BY <1>1, <1>2 DEF IdsOK
<1>9. OwnId' /\ result' \in [id : Id, of : Id]
  BY <1>2, PoolAssumption DEF OwnId, None
<1>10. QED
  BY <1>1, <1>2, <1>6, <1>7, <1>8, <1>9, StepInv DEF TypeOK

\* The request goes to the kernel or the buffer, and the connection back.
LEMMA WriteRequestKeeps ==
  ASSUME PoolInv, WriteRequest
  PROVE  PoolInv'
<1>1. /\ TypeOK /\ PlaceOK /\ (\A s \in Slot : ConnOK(conns[s])) /\ IdsOK /\ OwnId
      /\ \A s \in Slot : conns[s] \in Conn /\ Range(conns[s].inflight) \subseteq waiting
  BY InvParts
<1> DEFINE conn == conns[held]
           new  == PushId(Put(conn, Append(conn.wbuf, req)))
<1>2. /\ Writing /\ conns' = [conns EXCEPT ![held] = new]
      /\ clients' \in Sorted(PutBack, conns') /\ waiting' = waiting \cup {req} /\ Return
      /\ UNCHANGED <<drained, result>>
  BY DEF WriteRequest
<1>3. held # NoSlot /\ held \in Slot /\ req \in Id /\ req \notin waiting
  BY <1>1, <1>2 DEF Writing, PlaceOK, TypeOK, IdsOK
<1>4. conn \in Conn /\ ConnOK(conn) /\ req \notin Range(conn.inflight)
  BY <1>1, <1>3
<1>5. /\ new \in Conn /\ ConnOK(new)
      /\ Range(new.inflight) = Range(conn.inflight) \cup {req}
  BY <1>3, <1>4, WriteConn
<1>6. /\ conns'[held] = new /\ (\A t \in Slot \ {held} : conns'[t] = conns[t])
      /\ conns' = [t \in Slot |-> conns'[t]]
  BY <1>1, <1>2, <1>3 DEF TypeOK
<1>7. Lists(clients', Slot)
  BY <1>1, <1>2, <1>3, PutBackLists, SortedLists
<1>8. CallTypes' /\ PlaceOK' /\ held' = NoSlot
  BY <1>1, <1>2, <1>7, ReturnPlace
<1> HIDE DEF new
<1>9. conns' \in [Slot -> Conn] /\ \A t \in Slot : ConnOK(conns'[t])
  BY <1>1, <1>3, <1>5, <1>6, ConnChanged
<1>10. IdsOK'
  <2> DEFINE R == Range(conns'[held].inflight)
             F == Range(conn.inflight)
  <2>1. R = F \cup {req} /\ F \subseteq waiting
    BY <1>1, <1>3, <1>5, <1>6
  <2>2. waiting' = (waiting \ F) \cup R /\ R \cap (waiting \ F) = {}
    BY <1>2, <1>3, <2>1
  <2>3. QED
    BY <1>1, <1>3, <1>6, <1>8, <2>2, IdsChanged
<1>11. QED
  BY <1>1, <1>2, <1>3, <1>8, <1>9, <1>10, StepInv DEF TypeOK, OwnId

\* The connection goes back as it is, sorted in or put at the end.
LEMMA WriteFailsKeeps ==
  ASSUME PoolInv, WriteFails \/ ReconnectFails
  PROVE  PoolInv'
<1>1. TypeOK /\ PlaceOK /\ (\A s \in Slot : ConnOK(conns[s])) /\ IdsOK /\ OwnId
  BY InvParts
<1>2. /\ pc \in {"write", "reconnect", "rewrite"} /\ Return
      /\ clients' = PutBack \/ clients' \in Sorted(PutBack, conns)
      /\ UNCHANGED <<conns, waiting, drained, result>>
  BY DEF WriteFails, ReconnectFails, Writing
<1>3. Lists(PutBack, Slot)
  BY <1>1, <1>2, PutBackLists DEF PlaceOK
<1>4. Lists(clients', Slot)
  BY <1>2, <1>3, SortedLists
<1>5. CallTypes' /\ PlaceOK' /\ held' = NoSlot
  BY <1>1, <1>2, <1>4, ReturnPlace
<1>6. IdsOK'
  BY <1>1, <1>2, <1>5, IdsSame
<1>7. QED
  BY <1>1, <1>2, <1>5, <1>6, StepInv DEF TypeOK, OwnId

\* The connection has ended, or seems to have.
LEMMA WriteEOFKeeps ==
  ASSUME PoolInv, WriteEOF
  PROVE  PoolInv'
<1>1. TypeOK /\ PlaceOK /\ (\A s \in Slot : ConnOK(conns[s])) /\ IdsOK /\ OwnId
  BY InvParts
<1>2. /\ pc \in {"write", "rewrite"} /\ pc' = "reconnect"
      /\ UNCHANGED <<conns, clients, held, req, at, drains, waiting, drained, result>>
  BY DEF WriteEOF, Writing, poolVars
<1>3. PlaceOK'
  BY <1>1, <1>2 DEF PlaceOK
<1>4. CallTypes'
  BY <1>1, <1>2, CallTypesHold DEF CallTypes
<1>5. IdsOK'
  BY <1>1, <1>2, IdsSame
<1>6. QED
  BY <1>1, <1>2, <1>3, <1>4, <1>5, StepInv DEF TypeOK, OwnId

\* A new connection has nothing in flight, and what the old one had is given up.
LEMMA ReplaceKeeps ==
  ASSUME PoolInv, NEW s \in Slot, Replace(s), held' # NoSlot => held # NoSlot /\ req' = req
  PROVE  conns' \in [Slot -> Conn] /\ (\A t \in Slot : ConnOK(conns'[t])) /\ IdsOK'
<1>1. /\ TypeOK /\ PlaceOK /\ (\A t \in Slot : ConnOK(conns[t])) /\ IdsOK
  BY InvParts
<1>2. /\ conns'[s] = NewConn /\ (\A t \in Slot \ {s} : conns'[t] = conns[t])
      /\ conns' = [t \in Slot |-> conns'[t]]
      /\ waiting' = waiting \ Range(conns[s].inflight)
  BY <1>1 DEF Replace, TypeOK
<1>3. conns' \in [Slot -> Conn] /\ \A t \in Slot : ConnOK(conns'[t])
  BY <1>1, <1>2, NewConnOK, ConnChanged
<1>4. held' # NoSlot => req' \notin waiting'
  BY <1>1, <1>2 DEF IdsOK
<1>5. Range(conns'[s].inflight) = {}
  BY <1>2, NewConnOK
<1>6. IdsOK'
  BY <1>1, <1>2, <1>4, <1>5, IdsChanged
<1>7. QED
  BY <1>3, <1>6

LEMMA ReconnectKeeps ==
  ASSUME PoolInv, Reconnect
  PROVE  PoolInv'
<1>1. TypeOK /\ PlaceOK /\ OwnId
  BY InvParts
<1>2. /\ pc = "reconnect" /\ pc' = "rewrite" /\ Replace(held)
      /\ UNCHANGED <<clients, held, req, at, drains, drained, result>>
  BY DEF Reconnect
<1>3. held \in Slot
  BY <1>1, <1>2 DEF PlaceOK, TypeOK
<1>4. conns' \in [Slot -> Conn] /\ (\A t \in Slot : ConnOK(conns'[t])) /\ IdsOK'
  BY <1>2, <1>3, ReplaceKeeps
<1>5. PlaceOK'
  BY <1>1, <1>2 DEF PlaceOK
<1>6. CallTypes'
  BY <1>1, <1>2, CallTypesHold DEF CallTypes
<1>7. waiting' \subseteq Id
  BY <1>1, <1>2 DEF TypeOK, Replace
<1>8. QED
  BY <1>1, <1>2, <1>4, <1>5, <1>6, <1>7, StepInv DEF TypeOK, OwnId

-----------------------------------------------------------------------------
(* read_response.                                                          *)

LEMMA StartReadKeeps ==
  ASSUME PoolInv, StartRead
  PROVE  PoolInv'
<1>1. TypeOK /\ PlaceOK /\ (\A s \in Slot : ConnOK(conns[s])) /\ IdsOK /\ OwnId
  BY InvParts
<1>2. /\ pc = "idle" /\ pc' = "visit" /\ at' = 1 /\ drained' = FALSE /\ result' = None
      /\ UNCHANGED <<conns, clients, held, req, drains, waiting>>
  BY DEF StartRead, poolVars
<1>3. held = NoSlot /\ Lists(clients, Slot)
  BY <1>1, <1>2, PoolLists
<1>4. 1 \in 0..Len(clients)
  <2>1. PICK s \in Slot : s \in Range(clients)
    BY <1>3, PoolAssumption DEF Lists
  <2>2. PICK i \in DOMAIN clients : clients[i] = s
    BY <2>1 DEF Range
  <2>3. QED
    BY <1>3, <2>2 DEF Lists
<1>5. PlaceOK'
  BY <1>1, <1>2, <1>3 DEF PlaceOK
<1>6. CallTypes'
  BY <1>1, <1>2, <1>4, CallTypesHold DEF CallTypes
<1>7. IdsOK'
  BY <1>1, <1>2, IdsSame
<1>8. OwnId' /\ result' \in [id : Id, of : Id]
  BY <1>2, PoolAssumption DEF OwnId, None
<1>9. QED
  BY <1>1, <1>2, <1>5, <1>6, <1>7, <1>8, StepInv DEF TypeOK

\* A client is flushed; it or the next is asked.
LEMMA VisitKeeps ==
  ASSUME PoolInv, Visit
  PROVE  PoolInv'
<1>1. /\ TypeOK /\ PlaceOK /\ (\A s \in Slot : ConnOK(conns[s])) /\ IdsOK /\ OwnId
      /\ \A s \in Slot : conns[s] \in Conn
  BY InvParts
<1> DEFINE conn == Flushed(conns[Client])
<1>2. /\ pc = "visit" /\ conns' = [conns EXCEPT ![Client] = conn]
      /\ UNCHANGED <<clients, waiting, result>>
      /\ \/ NextClient
         \/ pc' = "response" /\ UNCHANGED <<held, req, at, drains, drained>>
  BY DEF Visit
<1>3. Client \in Slot
  BY <1>1, <1>2, ClientSlot
<1>4. conn \in Conn /\ ConnOK(conn) /\ conn.inflight = conns[Client].inflight
  BY <1>1, <1>3, FlushConn
<1> HIDE DEF conn
<1>5. /\ conns'[Client] = conn /\ (\A t \in Slot \ {Client} : conns'[t] = conns[t])
      /\ conns' = [t \in Slot |-> conns'[t]]
  BY <1>1, <1>2, <1>3 DEF TypeOK
<1>6. conns' \in [Slot -> Conn] /\ \A t \in Slot : ConnOK(conns'[t])
  BY <1>1, <1>3, <1>4, <1>5, ConnChanged
<1>7. CallTypes' /\ PlaceOK' /\ held' = NoSlot /\ (drained' = drained \/ drained' = TRUE)
  <2>1. CASE NextClient
    BY <1>1, <1>2, <2>1, NextClientPlace
  <2>2. CASE pc' = "response" /\ UNCHANGED <<held, req, at, drains, drained>>
    <3>1. at \in 1..Len(clients)
      BY <1>1, <1>2 DEF TypeOK, PlaceOK
    <3>2. QED
      BY <1>1, <1>2, <2>2, <3>1, ReadGoesOn
  <2>3. QED
    BY <1>2, <2>1, <2>2
<1>8. IdsOK'
  <2>1. \A t \in Slot : conns'[t].inflight = conns[t].inflight
    BY <1>3, <1>4, <1>5
  <2>2. QED
    BY <1>1, <1>2, <1>7, <2>1, IdsSame
<1>9. QED
  BY <1>1, <1>2, <1>6, <1>7, <1>8, StepInv DEF TypeOK, OwnId

\* Nothing comes of the client, or its stream has ended.
LEMMA ReadBlocksKeeps ==
  ASSUME PoolInv, VisitFails \/ ReadBlocks \/ ReadEOF \/ ReplaceFails
  PROVE  PoolInv'
<1>1. TypeOK /\ PlaceOK /\ (\A s \in Slot : ConnOK(conns[s])) /\ IdsOK /\ OwnId
  BY InvParts
<1>2. /\ pc \in {"visit", "response", "replace"}
      /\ UNCHANGED <<conns, clients, waiting, result>>
  BY DEF VisitFails, ReadBlocks, ReadEOF, ReplaceFails, poolVars
<1>3. CallTypes' /\ PlaceOK' /\ held' = NoSlot /\ (drained' = drained \/ drained' = TRUE)
  <2>1. CASE VisitFails \/ ReadEOF
    <3>1. pc' = "replace" /\ UNCHANGED <<held, req, at, drains, drained>>
      BY <2>1 DEF VisitFails, ReadEOF
    <3>2. at \in 1..Len(clients)
      BY <1>1, <1>2 DEF TypeOK, PlaceOK
    <3>3. QED
      BY <1>1, <1>2, <3>1, <3>2, ReadGoesOn
  <2>2. CASE ReadBlocks
    BY <1>1, <1>2, <2>2, NextClientPlace DEF ReadBlocks
  <2>3. CASE ReplaceFails
    BY <1>1, <1>2, <2>3, ReturnFromRead DEF ReplaceFails
  <2>4. QED
    BY <2>1, <2>2, <2>3
<1>4. IdsOK'
  BY <1>1, <1>2, <1>3, IdsSame
<1>5. QED
  BY <1>1, <1>2, <1>3, <1>4, StepInv DEF TypeOK, OwnId

LEMMA ReplaceClientKeeps ==
  ASSUME PoolInv, ReplaceClient
  PROVE  PoolInv'
<1>1. TypeOK /\ PlaceOK /\ OwnId
  BY InvParts
<1>2. /\ pc = "replace" /\ Replace(Client) /\ Return
      /\ UNCHANGED <<clients, drained, result>>
  BY DEF ReplaceClient
<1>3. Client \in Slot
  BY <1>1, <1>2, ClientSlot
<1>4. CallTypes' /\ PlaceOK' /\ held' = NoSlot
  BY <1>1, <1>2, ReturnFromRead
<1>5. conns' \in [Slot -> Conn] /\ (\A t \in Slot : ConnOK(conns'[t])) /\ IdsOK'
  BY <1>2, <1>3, <1>4, ReplaceKeeps
<1>6. waiting' \subseteq Id
  BY <1>1, <1>2 DEF TypeOK, Replace
<1>7. QED
  BY <1>1, <1>2, <1>4, <1>5, <1>6, StepInv DEF TypeOK, OwnId

\* The oldest id in flight gets the first response.
LEMMA ReadResponseKeeps ==
  ASSUME PoolInv, pc = "response", NEW k \in 0..Len(conns[Client].outbox), ReadResponse(k)
  PROVE  PoolInv'
<1>1. /\ TypeOK /\ PlaceOK /\ (\A s \in Slot : ConnOK(conns[s])) /\ IdsOK /\ OwnId
      /\ \A s \in Slot : conns[s] \in Conn /\ Range(conns[s].inflight) \subseteq waiting
  BY InvParts
<1> DEFINE conn == conns[Client]
           got  == conn.buffer \o SubSeq(conn.outbox, 1, k)
           id   == Head(conn.inflight)
           new  == [conn EXCEPT !.buffer = Tail(got), !.outbox = SubSeq(@, k + 1, Len(@)),
                                !.inflight = Tail(@)]
<1>2. Client \in Slot /\ held = NoSlot
  BY <1>1, ClientSlot, PoolLists
<1>3. conn \in Conn /\ ConnOK(conn)
  BY <1>1, <1>2
<1>4. got # <<>> /\ waiting' = waiting \ {id} /\ UNCHANGED <<clients, drained>>
  BY DEF ReadResponse
<1>5. /\ conn.inflight # <<>> /\ Head(got) = id /\ id \in Id
      /\ new \in Conn /\ ConnOK(new)
      /\ Range(conn.inflight) = Range(new.inflight) \cup {id}
      /\ id \notin Range(new.inflight)
  BY <1>3, <1>4, ReadConn
<1>6. conns' = [conns EXCEPT ![Client] = new]
  BY <1>1, <1>2, <1>3 DEF ReadResponse, PopId, TypeOK, Conn
<1>7. \/ UNCHANGED <<callVars, result>>
      \/ Return /\ result' = [id |-> id, of |-> Head(got)]
  BY DEF ReadResponse
<1> HIDE DEF new, got
<1>8. /\ conns'[Client] = new /\ (\A t \in Slot \ {Client} : conns'[t] = conns[t])
      /\ conns' = [t \in Slot |-> conns'[t]]
  BY <1>1, <1>2, <1>6 DEF TypeOK
<1>9. conns' \in [Slot -> Conn] /\ \A t \in Slot : ConnOK(conns'[t])
  BY <1>1, <1>2, <1>5, <1>8, ConnChanged
<1>10. CallTypes' /\ PlaceOK' /\ held' = NoSlot
  <2>1. CASE UNCHANGED callVars
    <3>1. CallTypes' /\ PlaceOK'
      BY <1>1, <1>4, <2>1, CallTypesHold DEF callVars, CallTypes, PlaceOK
    <3>2. QED
      BY <1>2, <2>1, <3>1 DEF callVars
  <2>2. CASE Return
    BY <1>1, <1>4, <2>2, ReturnFromRead
  <2>3. QED
    BY <1>7, <2>1, <2>2
<1>11. IdsOK'
  <2> DEFINE R == Range(conns'[Client].inflight)
             F == Range(conn.inflight)
  <2>1. F = R \cup {id} /\ id \notin R /\ F \subseteq waiting
    BY <1>1, <1>2, <1>5, <1>8
  <2>2. waiting' = (waiting \ F) \cup R /\ R \cap (waiting \ F) = {}
    BY <1>4, <2>1
  <2>3. QED
    BY <1>1, <1>2, <1>8, <1>10, <2>2, IdsChanged
<1>12. OwnId' /\ result' \in [id : Id, of : Id]
  <2>1. CASE result' = result
    BY <1>1, <2>1 DEF OwnId, TypeOK
  <2>2. CASE result' = [id |-> id, of |-> Head(got)]
    BY <1>5, <2>2 DEF OwnId
  <2>3. QED
    BY <1>7, <2>1, <2>2
<1>13. QED
  BY <1>1, <1>4, <1>9, <1>10, <1>11, <1>12, StepInv DEF TypeOK

-----------------------------------------------------------------------------
(* The theorems.                                                           *)

LEMMA InitPool ==
  ASSUME Init
  PROVE  PoolInv
<1>1. /\ conns = [s \in Slot |-> NewConn] /\ clients = SetToSeq(Slot) /\ pc = "idle"
      /\ held = NoSlot /\ req = Ping /\ at = 0 /\ waiting = {} /\ drains \in BOOLEAN
      /\ drained = TRUE /\ result = None
  BY DEF Init
<1>2. Lists(clients, Slot)
  BY <1>1, SetToSeqLists
<1>3. NewConn \in Conn /\ ConnOK(NewConn) /\ Range(NewConn.inflight) = {}
  BY NewConnOK
<1>4. conns \in [Slot -> Conn] /\ \A s \in Slot : conns[s] = NewConn
  BY <1>1, <1>3
<1>5. TypeOK
  <2>1. 0 \in 0..Len(clients) /\ clients \in Seq(Slot)
    BY <1>2 DEF Lists
  <2>2. QED
    BY <1>1, <1>4, <2>1, PoolAssumption DEF TypeOK, None
<1>6. PlaceOK
  <2>1. Slot \ {NoSlot} = Slot
    BY PoolAssumption
  <2>2. QED
    BY <1>1, <1>2, <2>1 DEF PlaceOK, Lists
<1>7. IdsOK
  BY <1>1, <1>3, <1>4 DEF IdsOK
<1>8. OwnId
  BY <1>1 DEF OwnId, None
<1>9. QED
  BY <1>3, <1>4, <1>5, <1>6, <1>7, <1>8 DEF PoolInv

LEMMA NextPool ==
  ASSUME PoolInv, [Next]_vars
  PROVE  PoolInv'
<1>1. CASE Server
  BY <1>1, ServerKeeps
<1>2. CASE StartRead
  BY <1>2, StartReadKeeps
<1>3. CASE Read
  <2>1. CASE Visit
    BY <2>1, VisitKeeps
  <2>2. CASE VisitFails \/ ReadBlocks \/ ReadEOF \/ ReplaceFails
    BY <2>2, ReadBlocksKeeps
  <2>3. CASE ReplaceClient
    BY <2>3, ReplaceClientKeeps
  <2>4. CASE pc = "response" /\ \E k \in 0..Len(conns[Client].outbox) : ReadResponse(k)
    BY <2>4, ReadResponseKeeps
  <2>5. QED
    BY <1>3, <2>1, <2>2, <2>3, <2>4 DEF Read
<1>4. CASE Write
  BY <1>4, WriteRequestKeeps, WriteFailsKeeps, WriteEOFKeeps, ReconnectKeeps DEF Write
<1>5. ASSUME NEW id \in Id, StartWrite(id)
      PROVE  PoolInv'
  BY <1>5, StartWriteKeeps
<1>6. CASE UNCHANGED vars
  BY <1>6 DEF vars, poolVars, callVars, PoolInv, TypeOK, PlaceOK, IdsOK, OwnId
<1>7. QED
  BY <1>1, <1>2, <1>3, <1>4, <1>5, <1>6 DEF Next

\* The inductive invariant: places, connections and ids fit together,
\* whatever the server and the kernel do between the steps of a call.
THEOREM Invariance == Spec => []PoolInv
<1>1. Init => PoolInv
  BY InitPool
<1>2. PoolInv /\ [Next]_vars => PoolInv'
  BY NextPool
<1>3. QED
  BY <1>1, <1>2, PTL DEF Spec

\* A response is returned with the id of the request it answers, however many
\* requests, pings, failures and reconnections came before (http_conn.rs:187).
THEOREM ResponseForId == Spec => []OwnId
<1>1. PoolInv => OwnId
  BY DEF PoolInv
<1>2. QED
  BY <1>1, Invariance, PTL

\* inflight_id is what is on its way on a live connection, and starts with
\* what has arrived on one that has ended; an id waited for is on one of them.
THEOREM CountKept == Spec => []InStep
<1>1. ASSUME PoolInv
      PROVE  InStep
  <2>1. (\A s \in Slot : ConnOK(conns[s])) /\ IdsOK
    BY <1>1, InvParts
  <2>2. \A s \in Slot : LET conn == conns[s]
                            way  == conn.buffer \o conn.outbox \o conn.inbox \o conn.wbuf
                        IN IF conn.up THEN conn.inflight = way
                           ELSE IsPrefix(conn.buffer \o conn.outbox, conn.inflight)
    BY <2>1, Zenon DEF ConnOK, Way
  <2>3. \A id \in Id : (id \in waiting) <=> \E s \in Slot : id \in Range(conns[s].inflight)
    BY <2>1 DEF IdsOK
  <2>4. QED
    BY <2>1, <2>2, <2>3, Zenon DEF InStep, IdsOK
<1>2. QED
  BY <1>1, Invariance, PTL

\* Between two calls the pool has all its connections: none is lost when
\* write_request fails, and none is there twice (http_conn.rs:348, 360).
THEOREM PoolKept == Spec => []PoolWhole
<1>1. ASSUME PoolInv
      PROVE  PoolWhole
  <2>1. TypeOK /\ PlaceOK
    BY <1>1, InvParts
  <2>2. ASSUME pc = "idle"
        PROVE  Len(clients) = Cardinality(Slot) /\ IsInjective(clients)
    <3>1. Lists(clients, Slot)
      BY <2>1, <2>2, PoolLists
    <3>2. QED
      BY <3>1, ListLength DEF Lists
  <2>3. QED
    BY <2>2 DEF PoolWhole
<1>2. QED
  BY <1>1, Invariance, PTL
=============================================================================
