-------------------------- MODULE HttpServerProofs --------------------------
(***************************************************************************)
(* Proofs, for any clients, kinds of requests and number of requests, that *)
(* HttpServer keeps its types, that clients receive the responses to their *)
(* own requests in order, that no response is ever unsolicited, that       *)
(* closing a connection waits for its responses, and that the server       *)
(* implements Exchange.                                                    *)
(*                                                                         *)
(* The invariants are not inductive: that the next response of a client is *)
(* the right one rests on what waits in the write buffer, on which         *)
(* requests the application still owes, and on ids never being reused.     *)
(***************************************************************************)
EXTENDS HttpServer, SequenceTheorems, TLAPS

\* Nothing is left to visit or to remove outside tick_read.
PhaseOK == phase # "read" => todo = {} /\ remove_conn = {}

\* A socket is in the listen queue once, or in one connection, or in neither.
OneConnPerClient ==
  /\ \A i, j \in DOMAIN backlog : backlog[i] = backlog[j] => i = j
  /\ \A i, j \in DOMAIN conns : conns[i].client = conns[j].client => i = j
  /\ \A i \in DOMAIN backlog, id \in DOMAIN conns : backlog[i] # conns[id].client

\* A client that is not accepted yet has nothing read and nothing answered.
FreshOK ==
  /\ \A c \in Client : peer[c] = "new" => taken[c] = 0 /\ outbox[c] = <<>>
  /\ \A i \in DOMAIN backlog :
       /\ peer[backlog[i]] # "new"
       /\ taken[backlog[i]] = 0
       /\ outbox[backlog[i]] = <<>>

\* rs are the responses to the requests of c after the first n.
Continues(rs, c, n) == \A i \in 1..Len(rs) : rs[i] = [client |-> c, n |-> n + i]

\* The application owes the responses to the requests of connection id
\* numbered from first to last.
OwesAll(id, first, last) ==
  \A n \in first..last : \E o \in owed : o.conn = id /\ o.n = n

\* A connection counts what it has not answered.  While its client is there
\* every answer is in the client's hands or in the buffer, in order, and all
\* the others are owed.
ConnOK(id) ==
  LET conn == conns[id]
      c    == conns[id].client
  IN  /\ conn.inflight <= taken[c]
      /\ peer[c] # "new"
      /\ peer[c] = "open" =>
           /\ Len(outbox[c]) + Len(conn.wbuf) + conn.inflight = taken[c]
           /\ Continues(conn.wbuf, c, Len(outbox[c]))
           /\ OwesAll(id, taken[c] - conn.inflight + 1, taken[c])

\* What is owed was taken and is not answered, and belongs to an id that
\* will never be given to another connection.
OwedOK(o) ==
  /\ o.conn < conn_seq
  /\ o.conn \in DOMAIN conns =>
       LET c == conns[o.conn].client IN
       /\ o.client = c
       /\ o.n <= taken[c]
       /\ o.n > taken[c] - conns[o.conn].inflight

\* What relates the clients, the connections and the application.
Coherent ==
  /\ OneConnPerClient
  /\ FreshOK
  /\ \A id \in DOMAIN conns : ConnOK(id)
  /\ \A o \in owed : OwedOK(o)
  /\ ResponsesInOrder

IInv == TypeOK /\ PhaseOK /\ Coherent

-----------------------------------------------------------------------------
(* Buffers and sockets. *)

\* What a write leaves in the buffer is the rest of it.
LEMMA UnsentProperties ==
  ASSUME NEW rs \in Seq(Response), NEW k \in 0..Len(rs)
  PROVE  /\ Unsent(rs, k) \in Seq(Response)
         /\ Len(Unsent(rs, k)) = Len(rs) - k
         /\ \A i \in 1..(Len(rs) - k) : Unsent(rs, k)[i] = rs[k + i]
<1>1. Len(rs) \in Nat /\ k \in Nat /\ k + 1 \in 1..(Len(rs) + 1) /\ Len(rs) \in k..Len(rs)
  OBVIOUS
<1>2. /\ SubSeq(rs, k + 1, Len(rs)) \in Seq(Response)
      /\ Len(SubSeq(rs, k + 1, Len(rs))) = IF k + 1 <= Len(rs) THEN Len(rs) - (k + 1) + 1 ELSE 0
      /\ \A i \in 1..(Len(rs) - (k + 1) + 1) : SubSeq(rs, k + 1, Len(rs))[i] = rs[k + 1 + i - 1]
  BY <1>1, SubSeqProperties
<1>3. QED
  BY <1>1, <1>2 DEF Unsent

\* A write that continues what the client has got leaves it with responses
\* in order, and leaves a buffer that continues them.
LEMMA DeliverProperties ==
  ASSUME outbox \in [Client -> Seq(Response)], ResponsesInOrder,
         NEW c \in Client, NEW rs \in Seq(Response), NEW k \in 0..Len(rs),
         peer[c] = "open" => Continues(rs, c, Len(outbox[c])),
         Deliver(c, rs, k)
  PROVE  /\ outbox' \in [Client -> Seq(Response)]
         /\ ResponsesInOrder'
         /\ \A d \in Client \ {c} : outbox'[d] = outbox[d]
         /\ peer[c] # "open" => outbox' = outbox
         /\ peer[c] = "open" => /\ Len(outbox'[c]) = Len(outbox[c]) + k
                                /\ Continues(Unsent(rs, k), c, Len(outbox'[c]))
<1>1. CASE peer[c] # "open"
  <2>1. outbox' = outbox
    BY <1>1 DEF Deliver
  <2>2. QED
    BY <1>1, <2>1 DEF ResponsesInOrder
<1>2. CASE peer[c] = "open"
  <2> DEFINE sent == SubSeq(rs, 1, k)
  <2>1. Len(rs) \in Nat /\ k \in Nat /\ k <= Len(rs)
    OBVIOUS
  <2>2. /\ sent \in Seq(Response)
        /\ Len(sent) = k
        /\ \A i \in 1..k : sent[i] = rs[i]
    <3>1. 1 \in 1..(Len(rs) + 1) /\ k \in 0..Len(rs)
      BY <2>1
    <3>2. /\ SubSeq(rs, 1, k) \in Seq(Response)
          /\ Len(SubSeq(rs, 1, k)) = IF 1 <= k THEN k - 1 + 1 ELSE 0
          /\ \A i \in 1..(k - 1 + 1) : SubSeq(rs, 1, k)[i] = rs[1 + i - 1]
      BY <2>1, <3>1, SubSeqProperties
    <3>3. QED
      BY <2>1, <3>2
  <2>3. outbox' = [outbox EXCEPT ![c] = @ \o sent]
    BY <1>2 DEF Deliver
  <2> DEFINE got == outbox[c]
  <2>4. got \in Seq(Response) /\ Len(got) \in Nat
    OBVIOUS
  <2>5. /\ got \o sent \in Seq(Response)
        /\ Len(got \o sent) = Len(got) + k
        /\ \A i \in 1..(Len(got) + k) :
             (got \o sent)[i] = IF i <= Len(got) THEN got[i] ELSE sent[i - Len(got)]
    BY <2>1, <2>2, <2>4
  <2>6. outbox'[c] = got \o sent
    BY <2>3
  <2> HIDE DEF sent, got
  <2>7. \A i \in 1..Len(outbox'[c]) : outbox'[c][i] = [client |-> c, n |-> i]
    <3> SUFFICES ASSUME NEW i \in 1..(Len(got) + k)
                 PROVE  (got \o sent)[i] = [client |-> c, n |-> i]
      BY <2>5, <2>6
    <3>1. CASE i <= Len(got)
      BY <3>1, <2>1, <2>4, <2>5 DEF got, ResponsesInOrder
    <3>2. CASE i > Len(got)
      <4>1. i - Len(got) \in 1..k /\ i - Len(got) \in 1..Len(rs)
        BY <3>2, <2>1, <2>4
      <4>2. (got \o sent)[i] = rs[i - Len(got)]
        BY <3>2, <4>1, <2>2, <2>4, <2>5
      <4>3. rs[i - Len(got)] = [client |-> c, n |-> Len(got) + (i - Len(got))]
        BY <1>2, <4>1 DEF Continues, got
      <4>4. Len(got) + (i - Len(got)) = i
        BY <2>4
      <4>5. QED
        BY <4>2, <4>3, <4>4
    <3>3. i <= Len(got) \/ i > Len(got)
      BY <2>1, <2>4
    <3>4. QED
      BY <3>1, <3>2, <3>3
  <2>8. \A d \in Client \ {c} : outbox'[d] = outbox[d]
    BY <2>3
  <2>9. ResponsesInOrder'
    <3> SUFFICES ASSUME NEW d \in Client, NEW i \in 1..Len(outbox'[d])
                 PROVE  outbox'[d][i] = [client |-> d, n |-> i]
      BY DEF ResponsesInOrder
    <3>1. CASE d = c
      BY <3>1, <2>7
    <3>2. CASE d # c
      <4>1. outbox'[d] = outbox[d] /\ i \in 1..Len(outbox[d])
        BY <3>2, <2>8
      <4>2. QED
        BY <4>1 DEF ResponsesInOrder
    <3>3. QED
      BY <3>1, <3>2
  <2>10. Continues(Unsent(rs, k), c, Len(outbox'[c]))
    <3>1. /\ Len(Unsent(rs, k)) = Len(rs) - k
          /\ \A i \in 1..(Len(rs) - k) : Unsent(rs, k)[i] = rs[k + i]
      BY UnsentProperties
    <3>2. ASSUME NEW i \in 1..(Len(rs) - k)
          PROVE  rs[k + i] = [client |-> c, n |-> (Len(got) + k) + i]
      <4>1. k + i \in 1..Len(rs) /\ Len(got) + (k + i) = (Len(got) + k) + i
        BY <2>1, <2>4
      <4>2. QED
        BY <1>2, <4>1 DEF Continues, got
    <3>3. QED
      BY <3>1, <3>2, <2>5, <2>6 DEF Continues
  <2>11. outbox' \in [Client -> Seq(Response)]
    BY <2>3, <2>5 DEF got
  <2>12. QED
    BY <1>2, <2>5, <2>6, <2>8, <2>9, <2>10, <2>11 DEF got
<1>3. QED
  BY <1>1, <1>2

\* A write takes no more than there is.
LEMMA AcceptsBounds ==
  ASSUME NEW len \in Nat, NEW k \in Accepts(len)
  PROVE  k \in 0..len
BY DEF Accepts

-----------------------------------------------------------------------------
(* Every step in which a connection meets its socket has one form: of the  *)
(* responses rs due next, k leave and the rest is the new buffer, while    *)
(* the count of requests in flight follows what is taken and owed.         *)

Exchange(id, rs, k, conn) ==
  LET c == conns[id].client IN
  /\ Deliver(c, rs, k)
  /\ conn.client = c
  /\ conn.wbuf = Unsent(rs, k)
  /\ conns' = [conns EXCEPT ![id] = conn]
  /\ UNCHANGED <<peer, backlog, conn_seq>>
  /\ taken' \in [Client -> Nat]
  /\ \A d \in Client \ {c} : taken'[d] = taken[d]
  /\ conn.inflight <= taken'[c]
  /\ peer[c] = "open" =>
       /\ Continues(rs, c, Len(outbox[c]))
       /\ Len(outbox[c]) + Len(rs) + conn.inflight = taken'[c]
       /\ \A n \in (taken'[c] - conn.inflight + 1)..taken'[c] :
            \E o \in owed' : o.conn = id /\ o.n = n
  /\ \A o \in owed' : o.conn # id => o \in owed
  /\ \A o \in owed : o.conn # id => o \in owed'
  /\ \A o \in owed' : o.conn = id =>
       o.client = c /\ o.n <= taken'[c] /\ o.n > taken'[c] - conn.inflight

\* The connection meets its socket in this step.
MeetsSocket(id) ==
  \E rs \in Seq(Response) : \E k \in 0..Len(rs), conn \in Conn : Exchange(id, rs, k, conn)

LEMMA ExchangeKeeps ==
  ASSUME IInv, NEW id \in DOMAIN conns, NEW rs \in Seq(Response), NEW k \in 0..Len(rs),
         NEW conn \in Conn, Exchange(id, rs, k, conn)
  PROVE  /\ outbox' \in [Client -> Seq(Response)]
         /\ DOMAIN conns' = DOMAIN conns
         /\ \A j \in DOMAIN conns' : conns'[j] \in Conn
         /\ Coherent'
<1> SUFFICES ASSUME NEW c, c = conns[id].client
             PROVE  /\ outbox' \in [Client -> Seq(Response)]
                    /\ DOMAIN conns' = DOMAIN conns
                    /\ \A j \in DOMAIN conns' : conns'[j] \in Conn
                    /\ Coherent'
  OBVIOUS
<1>0. /\ Deliver(c, rs, k)
      /\ conn.client = c
      /\ conn.wbuf = Unsent(rs, k)
      /\ conns' = [conns EXCEPT ![id] = conn]
      /\ UNCHANGED <<peer, backlog, conn_seq>>
      /\ taken' \in [Client -> Nat]
      /\ \A d \in Client \ {c} : taken'[d] = taken[d]
      /\ conn.inflight <= taken'[c]
      /\ peer[c] = "open" =>
           /\ Continues(rs, c, Len(outbox[c]))
           /\ Len(outbox[c]) + Len(rs) + conn.inflight = taken'[c]
           /\ \A n \in (taken'[c] - conn.inflight + 1)..taken'[c] :
                \E o \in owed' : o.conn = id /\ o.n = n
      /\ \A o \in owed' : o.conn # id => o \in owed
      /\ \A o \in owed : o.conn # id => o \in owed'
      /\ \A o \in owed' : o.conn = id =>
           o.client = c /\ o.n <= taken'[c] /\ o.n > taken'[c] - conn.inflight
  BY DEF Exchange
<1> USE <1>0 DEF Coherent
<1>1. /\ c \in Client /\ conns[id] \in Conn
      /\ outbox \in [Client -> Seq(Response)]
      /\ taken \in [Client -> Nat]
      /\ \A j \in DOMAIN conns : conns[j] \in Conn /\ conns[j].client \in Client
  BY DEF IInv, TypeOK, Conn
<1>2. /\ DOMAIN conns' = DOMAIN conns
      /\ conns'[id] = conn
      /\ \A j \in DOMAIN conns \ {id} : conns'[j] = conns[j] /\ conns[j].client # c
      /\ \A j \in DOMAIN conns : conns'[j].client = conns[j].client
  BY DEF IInv, OneConnPerClient
<1>3. \A j \in DOMAIN conns' : conns'[j] \in Conn
  BY <1>1, <1>2
<1>4. /\ outbox' \in [Client -> Seq(Response)]
      /\ ResponsesInOrder'
      /\ \A d \in Client \ {c} : outbox'[d] = outbox[d]
      /\ peer[c] = "open" => /\ Len(outbox'[c]) = Len(outbox[c]) + k
                             /\ Continues(Unsent(rs, k), c, Len(outbox'[c]))
  <2>1. ResponsesInOrder
    BY DEF IInv
  <2>2. peer[c] = "open" => Continues(rs, c, Len(outbox[c]))
    OBVIOUS
  <2>3. QED
    BY <1>1, <2>1, <2>2, DeliverProperties
<1>5. Len(Unsent(rs, k)) = Len(rs) - k /\ Len(rs) \in Nat /\ k \in Nat
  BY UnsentProperties
<1>6. peer[c] # "new"
  <2>1. ConnOK(id)
    BY DEF IInv
  <2>2. QED
    BY <2>1 DEF ConnOK
<1>7. OneConnPerClient'
  <2>1. OneConnPerClient
    BY DEF IInv
  <2>2. backlog' = backlog
    OBVIOUS
  <2>3. QED
    BY <1>2, <2>1, <2>2 DEF OneConnPerClient
<1>8. FreshOK'
  <2>1. FreshOK /\ OneConnPerClient /\ peer' = peer /\ backlog' = backlog
    BY DEF IInv
  <2>2. ASSUME NEW i \in DOMAIN backlog
        PROVE  backlog[i] \in Client /\ backlog[i] # c
    BY <2>1 DEF IInv, TypeOK, OneConnPerClient
  <2>3. ASSUME NEW i \in DOMAIN backlog
        PROVE  taken'[backlog[i]] = 0 /\ outbox'[backlog[i]] = <<>>
    BY <1>4, <2>1, <2>2 DEF FreshOK
  <2>4. ASSUME NEW d \in Client, peer[d] = "new"
        PROVE  taken'[d] = 0 /\ outbox'[d] = <<>>
    BY <1>4, <1>6, <2>1, <2>4 DEF FreshOK
  <2>5. QED
    BY <2>1, <2>3, <2>4 DEF FreshOK
<1>9. ASSUME NEW j \in DOMAIN conns'
      PROVE  ConnOK(j)'
  <2>1. CASE j = id
    <3>1. /\ conns'[j] = conn /\ conn.inflight \in Nat /\ conn.wbuf = Unsent(rs, k)
          /\ peer[c] # "new" /\ peer' = peer
      BY <1>2, <1>6, <2>1 DEF Conn
    <3>2. CASE peer[c] # "open"
      BY <2>1, <3>1, <3>2 DEF ConnOK
    <3>3. CASE peer[c] = "open"
      <4>1. Len(outbox[c]) \in Nat /\ taken'[c] \in Nat
        BY <1>1
      <4>2. Len(outbox'[c]) + Len(conn.wbuf) + conn.inflight = taken'[c]
        BY <1>4, <1>5, <3>1, <3>3, <4>1
      <4>3. Continues(conn.wbuf, c, Len(outbox'[c]))
        BY <1>4, <3>1, <3>3
      <4>4. QED
        BY <2>1, <3>1, <3>3, <4>2, <4>3 DEF ConnOK, OwesAll, Continues
    <3>4. QED
      BY <3>2, <3>3
  <2>2. CASE j # id
    <3> DEFINE d == conns[j].client
    <3>1. d \in Client /\ d # c /\ conns'[j] = conns[j] /\ peer' = peer
      BY <1>1, <1>2, <2>2
    <3>2. taken'[d] = taken[d] /\ outbox'[d] = outbox[d]
      BY <1>4, <3>1
    <3>3. ConnOK(j)
      BY <1>2 DEF IInv
    <3>4. ASSUME NEW n, NEW o \in owed, o.conn = j
          PROVE  o \in owed'
      BY <2>2, <3>4
    <3>5. QED
      BY <3>1, <3>2, <3>3, <3>4 DEF ConnOK, OwesAll, Continues
  <2>3. QED
    BY <2>1, <2>2
<1>10. ASSUME NEW o \in owed'
       PROVE  OwedOK(o)'
  <2>1. CASE o.conn = id
    <3>1. id < conn_seq
      BY DEF IInv, TypeOK
    <3>2. QED
      BY <1>2, <2>1, <3>1 DEF OwedOK
  <2>2. CASE o.conn # id
    <3>1. OwedOK(o)
      BY <2>2 DEF IInv
    <3>2. CASE o.conn \notin DOMAIN conns
      BY <1>2, <3>1, <3>2 DEF OwedOK
    <3>3. CASE o.conn \in DOMAIN conns
      <4>1. /\ conns'[o.conn] = conns[o.conn]
            /\ taken'[conns[o.conn].client] = taken[conns[o.conn].client]
        BY <1>1, <1>2, <2>2, <3>3
      <4>2. QED
        BY <3>1, <3>3, <4>1 DEF OwedOK
    <3>4. QED
      BY <3>2, <3>3
  <2>3. QED
    BY <2>1, <2>2
<1>11. QED
  BY <1>2, <1>3, <1>4, <1>7, <1>8, <1>9, <1>10

\* So every step of this form keeps the clients, the connections and the
\* application coherent.
LEMMA MeetingKeeps ==
  ASSUME IInv, NEW id \in DOMAIN conns, MeetsSocket(id)
  PROVE  /\ outbox' \in [Client -> Seq(Response)]
         /\ taken' \in [Client -> Nat]
         /\ DOMAIN conns' = DOMAIN conns
         /\ \A j \in DOMAIN conns' : conns'[j] \in Conn
         /\ Coherent'
<1>1. PICK rs \in Seq(Response) : \E k \in 0..Len(rs), conn \in Conn : Exchange(id, rs, k, conn)
  BY DEF MeetsSocket
<1>2. PICK k \in 0..Len(rs), conn \in Conn : Exchange(id, rs, k, conn)
  BY <1>1
<1>3. taken' \in [Client -> Nat]
  BY <1>2 DEF Exchange
<1>4. QED
  BY <1>2, <1>3, ExchangeKeeps

\* Removing connections leaves the others as they were.
LEMMA RemoveKeeps ==
  ASSUME IInv, NEW ids \in SUBSET DOMAIN conns, RemoveConns(ids),
         UNCHANGED <<backlog, stream, taken, outbox, conn_seq, owed>>
  PROVE  /\ peer' \in [Client -> {"new", "open", "gone", "dropped"}]
         /\ DOMAIN conns' = DOMAIN conns \ ids
         /\ \A j \in DOMAIN conns' : conns'[j] \in Conn
         /\ Coherent'
<1> USE DEF Coherent
<1>1. /\ DOMAIN conns' = DOMAIN conns \ ids
      /\ \A j \in DOMAIN conns' : j \in DOMAIN conns /\ conns'[j] = conns[j]
  BY DEF RemoveConns, Restrict
<1>2. /\ peer \in [Client -> {"new", "open", "gone", "dropped"}]
      /\ \A j \in DOMAIN conns : conns[j] \in Conn /\ conns[j].client \in Client
      /\ \A i \in DOMAIN backlog : backlog[i] \in Client
  BY DEF IInv, TypeOK, Conn
<1>3. /\ peer' \in [Client -> {"new", "open", "gone", "dropped"}]
      /\ \A c \in Client : /\ peer'[c] = "new" <=> peer[c] = "new"
                           /\ peer'[c] = "open" => peer[c] = "open"
  BY <1>2 DEF RemoveConns, Dropping
<1>4. OneConnPerClient'
  <2>1. OneConnPerClient /\ backlog' = backlog
    BY DEF IInv
  <2>2. QED
    BY <1>1, <2>1 DEF OneConnPerClient
<1>5. FreshOK'
  BY <1>2, <1>3 DEF IInv, FreshOK
<1>6. ASSUME NEW j \in DOMAIN conns'
      PROVE  ConnOK(j)'
  <2>1. /\ ConnOK(j) /\ conns'[j] = conns[j] /\ conns[j].client \in Client
        /\ taken' = taken /\ outbox' = outbox /\ owed' = owed
    BY <1>1, <1>2 DEF IInv
  <2>2. QED
    BY <1>3, <2>1 DEF ConnOK, OwesAll, Continues
<1>7. ASSUME NEW o \in owed'
      PROVE  OwedOK(o)'
  <2>1. OwedOK(o) /\ conn_seq' = conn_seq /\ taken' = taken
    BY DEF IInv
  <2>2. QED
    BY <1>1, <2>1 DEF OwedOK
<1>8. ResponsesInOrder'
  BY DEF IInv, ResponsesInOrder
<1>9. QED
  BY <1>1, <1>2, <1>3, <1>4, <1>5, <1>6, <1>7, <1>8

\* A visit that takes no request only moves responses out of the buffer.
LEMMA FlushMeets ==
  ASSUME IInv, NEW id \in DOMAIN conns, NEW k, Flush(id, k),
         conns' = [conns EXCEPT ![id] = Flushed(@, k)],
         UNCHANGED <<peer, backlog, stream, taken, conn_seq, owed>>
  PROVE  MeetsSocket(id)
<1> SUFFICES ASSUME NEW rs, rs = conns[id].wbuf,
                    NEW conn, conn = Flushed(conns[id], k)
             PROVE  MeetsSocket(id)
  OBVIOUS
<1>1. /\ conns[id] \in Conn /\ conns[id].client \in Client /\ rs \in Seq(Response)
      /\ taken \in [Client -> Nat] /\ taken' = taken
  BY DEF IInv, TypeOK, Conn
<1>2. k \in 0..Len(rs) /\ Deliver(conns[id].client, rs, k)
  <2>1. Len(rs) \in Nat /\ k \in Accepts(Len(rs))
    BY <1>1 DEF Flush
  <2>2. QED
    BY <2>1, AcceptsBounds DEF Flush
<1>3. /\ conn \in Conn
      /\ conn.client = conns[id].client
      /\ conn.wbuf = Unsent(rs, k)
      /\ conn.inflight = conns[id].inflight
  <2>1. Unsent(rs, k) \in Seq(Response)
    BY <1>1, <1>2, UnsentProperties
  <2>2. QED
    BY <1>1, <2>1 DEF Conn, Flushed
<1>4. ConnOK(id) /\ \A o \in owed : OwedOK(o)
  BY DEF IInv, Coherent
<1>5. Exchange(id, rs, k, conn)
  BY <1>1, <1>2, <1>3, <1>4 DEF Exchange, ConnOK, OwesAll, OwedOK
<1>6. QED
  BY <1>1, <1>2, <1>3, <1>5 DEF MeetsSocket

\* A visit that takes a request also counts it and makes it owed.
LEMMA NewRequestMeets ==
  ASSUME IInv, NEW id \in DOMAIN conns, NEW k, NEW is_close \in BOOLEAN,
         NewRequest(id, k, is_close)
  PROVE  MeetsSocket(id) /\ \A o \in owed' : o \in Owed
<1>0. SUFFICES ASSUME NEW c, c = conns[id].client,
                      NEW rs, rs = conns[id].wbuf,
                      NEW conn, conn = IF is_close THEN TryClose(Took(conns[id], k))
                                                   ELSE Took(conns[id], k)
               PROVE  MeetsSocket(id) /\ \A o \in owed' : o \in Owed
  OBVIOUS
<1>1. /\ conns[id] \in Conn /\ c \in Client /\ rs \in Seq(Response)
      /\ conns[id].inflight \in Nat /\ id \in Nat
      /\ outbox \in [Client -> Seq(Response)]
      /\ taken \in [Client -> Nat]
      /\ \A o \in owed : o \in Owed
  BY <1>0 DEF IInv, TypeOK, Conn
<1>2. k \in 0..Len(rs) /\ Deliver(c, rs, k)
  <2>1. Len(rs) \in Nat /\ k \in Accepts(Len(rs))
    BY <1>0, <1>1 DEF NewRequest, TakeRequest, FlushAll, Flush
  <2>2. QED
    BY <1>0, <2>1, AcceptsBounds DEF NewRequest, TakeRequest, FlushAll, Flush
<1>3. /\ conn \in Conn
      /\ conn.client = c
      /\ conn.wbuf = Unsent(rs, k)
      /\ conn.inflight = conns[id].inflight + 1
  <2>1. Unsent(rs, k) \in Seq(Response)
    BY <1>1, <1>2, UnsentProperties
  <2> DEFINE flushed == Flushed(conns[id], k)
             took    == [flushed EXCEPT !.inflight = @ + 1]
  <2>2. /\ flushed \in Conn /\ flushed.client = c /\ flushed.wbuf = Unsent(rs, k)
        /\ flushed.inflight = conns[id].inflight
    BY <1>0, <1>1, <2>1 DEF Conn, Flushed
  <2> HIDE DEF flushed
  <2>3. /\ took \in Conn /\ took.client = c /\ took.wbuf = Unsent(rs, k)
        /\ took.inflight = conns[id].inflight + 1
    <3>1. flushed.inflight + 1 \in Nat
      BY <1>1, <2>2
    <3>2. QED
      BY <2>2, <3>1 DEF Conn
  <2>4. Took(conns[id], k) = took
    BY <1>0 DEF Took, flushed
  <2> HIDE DEF took
  <2>5. QED
    BY <1>0, <2>3, <2>4 DEF Conn, TryClose
<1>4. /\ taken' = [taken EXCEPT ![c] = @ + 1]
      /\ conns' = [conns EXCEPT ![id] = conn]
      /\ owed' = owed \cup {[conn |-> id, client |-> c, n |-> taken[c] + 1]}
      /\ UNCHANGED <<peer, backlog, conn_seq>>
      /\ c = conns[id].client
  BY <1>0 DEF NewRequest, TakeRequest, Ticket
<1>5. /\ taken' \in [Client -> Nat]
      /\ taken'[c] = taken[c] + 1
      /\ \A d \in Client \ {c} : taken'[d] = taken[d]
  BY <1>1, <1>4
<1>6. conns[id].inflight \in Nat /\ taken[c] \in Nat
  BY <1>1
<1>7. /\ conns[id].inflight <= taken[c]
      /\ peer[c] = "open" =>
           /\ Continues(rs, c, Len(outbox[c]))
           /\ Len(outbox[c]) + Len(rs) + conns[id].inflight = taken[c]
           /\ OwesAll(id, taken[c] - conns[id].inflight + 1, taken[c])
      /\ \A o \in owed : o.conn = id =>
           o.client = c /\ o.n <= taken[c] /\ o.n > taken[c] - conns[id].inflight
  <2>1. ConnOK(id) /\ \A o \in owed : OwedOK(o)
    BY DEF IInv, Coherent
  <2>2. QED
    BY <1>0, <2>1 DEF ConnOK, OwedOK
<1>8. peer[c] = "open" =>
        /\ Continues(rs, c, Len(outbox[c]))
        /\ Len(outbox[c]) + Len(rs) + conn.inflight = taken'[c]
        /\ \A n \in (taken'[c] - conn.inflight + 1)..taken'[c] :
             \E o \in owed' : o.conn = id /\ o.n = n
  <2> HAVE peer[c] = "open"
  <2>1. /\ Continues(rs, c, Len(outbox[c]))
        /\ Len(outbox[c]) + Len(rs) + conns[id].inflight = taken[c]
        /\ OwesAll(id, taken[c] - conns[id].inflight + 1, taken[c])
    BY <1>7
  <2>2. Len(outbox[c]) \in Nat /\ Len(rs) \in Nat /\ taken[c] \in Nat
    BY <1>1
  <2>3. ASSUME NEW n \in (taken'[c] - conn.inflight + 1)..taken'[c]
        PROVE  \E o \in owed' : o.conn = id /\ o.n = n
    <3>1. CASE n = taken[c] + 1
      <4>1. [conn |-> id, client |-> c, n |-> taken[c] + 1] \in owed'
        BY <1>4
      <4>2. QED
        BY <3>1, <4>1
    <3>2. CASE n # taken[c] + 1
      <4>1. n \in (taken[c] - conns[id].inflight + 1)..taken[c]
        BY <1>6, <1>3, <1>5, <2>2, <3>2
      <4>2. QED
        BY <1>4, <2>1, <4>1 DEF OwesAll
    <3>3. QED
      BY <3>1, <3>2
  <2>4. Len(outbox[c]) + Len(rs) + conn.inflight = taken'[c]
    <3>1. /\ conn.inflight = conns[id].inflight + 1
          /\ taken'[c] = taken[c] + 1
      BY <1>3, <1>5
    <3>2. Len(outbox[c]) + Len(rs) + conns[id].inflight = taken[c]
      BY <2>1
    <3>3. Len(outbox[c]) + Len(rs) + (conns[id].inflight + 1) = taken[c] + 1
      BY <1>6, <2>2, <3>2
    <3>4. QED
      BY <3>1, <3>3, Zenon
  <2>5. QED
    BY <2>1, <2>3, <2>4
<1>9. ASSUME NEW o \in owed', o.conn = id
      PROVE  o.client = c /\ o.n <= taken'[c] /\ o.n > taken'[c] - conn.inflight
  <2>1. taken[c] \in Nat
    BY <1>1
  <2>2. CASE o \in owed
    <3>1. o \in Owed /\ o.client = c /\ o.n <= taken[c] /\ o.n > taken[c] - conns[id].inflight
      BY <1>1, <1>7, <1>9, <2>2
    <3>2. QED
      BY <1>1, <1>3, <1>5, <2>1, <3>1 DEF Owed
  <2>3. CASE o \notin owed
    <3>1. o = [conn |-> id, client |-> c, n |-> taken[c] + 1]
      BY <1>4, <2>3
    <3>2. QED
      BY <1>1, <1>3, <1>5, <2>1, <3>1
  <2>4. QED
    BY <2>2, <2>3
<1>10. /\ \A o \in owed' : o.conn # id => o \in owed
       /\ \A o \in owed : o.conn # id => o \in owed'
       /\ conn.inflight <= taken'[c]
  BY <1>6, <1>3, <1>4, <1>5, <1>7
<1>11. Exchange(id, rs, k, conn)
  BY <1>2, <1>3, <1>4, <1>5, <1>8, <1>9, <1>10 DEF Exchange
<1>12. \A o \in owed' : o \in Owed
  BY <1>1, <1>4 DEF Owed
<1>13. QED
  BY <1>1, <1>2, <1>3, <1>11, <1>12 DEF MeetsSocket

\* The oldest request owed on a connection whose client is there is the one
\* whose response comes next.
LEMMA WriteToMeets ==
  ASSUME IInv, NEW o \in owed, NEW k, WriteTo(o, k), Expects(o.conn)
  PROVE  MeetsSocket(o.conn)
<1>0. SUFFICES ASSUME NEW id, id = o.conn,
                      NEW c, c = conns[id].client,
                      NEW wbuf, wbuf = conns[id].wbuf,
                      NEW rs, rs = Append(wbuf, Answer(o)),
                      NEW conn, conn = Answered(conns[id], rs, k)
               PROVE  MeetsSocket(id)
  OBVIOUS
<1>1. id \in DOMAIN conns /\ conns[id].inflight > 0
  BY <1>0 DEF Expects
<1>2. /\ conns[id] \in Conn /\ c \in Client /\ wbuf \in Seq(Response)
      /\ conns[id].inflight \in Nat
      /\ outbox \in [Client -> Seq(Response)]
      /\ taken \in [Client -> Nat]
      /\ \A other \in owed : other \in Owed
  BY <1>0, <1>1 DEF IInv, TypeOK, Conn
<1>3. /\ Oldest(o)
      /\ owed' = owed \ {o}
      /\ k \in Accepts(Len(rs))
      /\ Deliver(c, rs, k)
      /\ conns' = [conns EXCEPT ![id] = conn]
      /\ taken' = taken
      /\ UNCHANGED <<peer, backlog, conn_seq>>
  BY <1>0 DEF WriteTo
<1>4. /\ conns[id].inflight <= taken[c]
      /\ peer[c] = "open" =>
           /\ Continues(wbuf, c, Len(outbox[c]))
           /\ Len(outbox[c]) + Len(wbuf) + conns[id].inflight = taken[c]
           /\ OwesAll(id, taken[c] - conns[id].inflight + 1, taken[c])
      /\ \A other \in owed : other.conn = id =>
           /\ other.client = c
           /\ other.n <= taken[c]
           /\ other.n > taken[c] - conns[id].inflight
  <2>1. ConnOK(id) /\ \A other \in owed : OwedOK(other)
    BY <1>1 DEF IInv, Coherent
  <2>2. QED
    BY <1>0, <1>1, <2>1 DEF ConnOK, OwedOK
<1>5. /\ o.client = c /\ o.n \in Nat /\ taken[c] \in Nat
      /\ o.n <= taken[c] /\ o.n > taken[c] - conns[id].inflight
  BY <1>0, <1>2, <1>4 DEF Owed
<1>6. conns[id].inflight \in Nat /\ conns[id].inflight > 0
  BY <1>1, <1>2
<1>7. taken' \in [Client -> Nat]
  BY <1>2, <1>3
<1>8. /\ rs \in Seq(Response)
      /\ Len(rs) = Len(wbuf) + 1
      /\ \A i \in 1..Len(wbuf) : rs[i] = wbuf[i]
      /\ rs[Len(wbuf) + 1] = [client |-> c, n |-> o.n]
  <2>1. Answer(o) \in Response /\ Answer(o) = [client |-> c, n |-> o.n]
    BY <1>0, <1>2, <1>5 DEF Answer, Response, Owed
  <2>2. QED
    BY <1>0, <1>2, <2>1
<1>9. k \in 0..Len(rs)
  <2>1. Len(rs) \in Nat
    BY <1>8
  <2>2. QED
    BY <1>3, <2>1, AcceptsBounds
<1>10. /\ conn \in Conn
       /\ conn.client = c
       /\ conn.wbuf = Unsent(rs, k)
       /\ conn.inflight = conns[id].inflight - 1
  <2>1. Unsent(rs, k) \in Seq(Response)
    BY <1>8, <1>9, UnsentProperties
  <2>2. conns[id].inflight - 1 \in Nat
    BY <1>1, <1>2
  <2>3. QED
    BY <1>0, <1>2, <2>1, <2>2 DEF Conn, Answered
<1>11. ASSUME peer[c] = "open"
       PROVE  /\ Continues(rs, c, Len(outbox[c]))
              /\ Len(outbox[c]) + Len(rs) + conn.inflight = taken'[c]
              /\ \A n \in (taken'[c] - conn.inflight + 1)..taken'[c] :
                   \E other \in owed' : other.conn = id /\ other.n = n
  <2>1. /\ Continues(wbuf, c, Len(outbox[c]))
        /\ Len(outbox[c]) + Len(wbuf) + conns[id].inflight = taken[c]
        /\ OwesAll(id, taken[c] - conns[id].inflight + 1, taken[c])
    BY <1>4, <1>11
  <2>2. Len(outbox[c]) \in Nat /\ Len(wbuf) \in Nat
    BY <1>2
  <2>3. o.n = taken[c] - conns[id].inflight + 1
    <3>1. taken[c] - conns[id].inflight + 1 \in (taken[c] - conns[id].inflight + 1)..taken[c]
      BY <1>1, <1>2, <1>5
    <3>2. PICK first \in owed :
            first.conn = id /\ first.n = taken[c] - conns[id].inflight + 1
      BY <2>1, <3>1 DEF OwesAll
    <3>3. o.n <= first.n
      BY <1>0, <1>3, <3>2 DEF Oldest
    <3>4. QED
      BY <1>6, <1>5, <3>2, <3>3
  <2>4. Continues(rs, c, Len(outbox[c]))
    <3>1. o.n = Len(outbox[c]) + (Len(wbuf) + 1)
      <4>1. /\ Len(outbox[c]) + Len(wbuf) + conns[id].inflight = taken[c]
            /\ taken[c] \in Nat
        BY <1>5, <2>1
      <4>2. PICK got \in Nat, buffered \in Nat, inflight \in Nat, total \in Nat :
              /\ got = Len(outbox[c])
              /\ buffered = Len(wbuf)
              /\ inflight = conns[id].inflight
              /\ total = taken[c]
        BY <1>6, <2>2, <4>1
      <4>3. got + buffered + inflight = total
        BY <4>1, <4>2
      <4>4. total - inflight + 1 = got + (buffered + 1)
        BY <4>3
      <4>5. QED
        BY <2>3, <4>2, <4>4
    <3>2. ASSUME NEW i \in 1..(Len(wbuf) + 1)
          PROVE  rs[i] = [client |-> c, n |-> Len(outbox[c]) + i]
      <4>1. CASE i = Len(wbuf) + 1
        BY <1>8, <3>1, <4>1
      <4>2. CASE i # Len(wbuf) + 1
        <5>1. i \in 1..Len(wbuf)
          BY <2>2, <4>2
        <5>2. QED
          BY <1>8, <2>1, <5>1 DEF Continues
      <4>3. QED
        BY <4>1, <4>2
    <3>3. QED
      BY <1>8, <3>2 DEF Continues
  <2>5. Len(outbox[c]) + Len(rs) + conn.inflight = taken'[c]
    <3>1. /\ conn.inflight = conns[id].inflight - 1
          /\ Len(rs) = Len(wbuf) + 1
          /\ taken'[c] = taken[c]
      BY <1>3, <1>8, <1>10
    <3>2. /\ Len(outbox[c]) + Len(wbuf) + conns[id].inflight = taken[c]
          /\ taken[c] \in Nat
      BY <1>5, <2>1
    <3>3. PICK got \in Nat, buffered \in Nat, inflight \in Nat, total \in Nat :
            /\ got = Len(outbox[c])
            /\ buffered = Len(wbuf)
            /\ inflight = conns[id].inflight
            /\ total = taken[c]
      BY <1>6, <2>2, <3>2
    <3>4. got + buffered + inflight = total
      BY <3>2, <3>3
    <3>5. got + (buffered + 1) + (inflight - 1) = total
      BY <3>4
    <3>6. QED
      BY <3>1, <3>3, <3>5
  <2>6. ASSUME NEW n \in (taken'[c] - conn.inflight + 1)..taken'[c]
        PROVE  \E other \in owed' : other.conn = id /\ other.n = n
    <3>1. n \in (taken[c] - conns[id].inflight + 1)..taken[c] /\ n # o.n
      BY <1>2, <1>3, <1>5, <1>10, <2>3
    <3>2. PICK other \in owed : other.conn = id /\ other.n = n
      BY <2>1, <3>1 DEF OwesAll
    <3>3. QED
      BY <1>3, <3>1, <3>2
  <2>7. QED
    BY <2>4, <2>5, <2>6
<1>12. ASSUME NEW other \in owed', other.conn = id
       PROVE  other.client = c /\ other.n <= taken'[c] /\ other.n > taken'[c] - conn.inflight
  <2>1. /\ other \in owed /\ other # o /\ other \in Owed /\ o \in Owed
        /\ other.client = c /\ other.n <= taken[c]
    BY <1>2, <1>3, <1>4, <1>12
  <2>2. other.n # o.n
    BY <1>0, <1>5, <1>12, <2>1 DEF Owed
  <2>3. o.n <= other.n
    BY <1>0, <1>3, <1>12, <2>1 DEF Oldest
  <2>4. QED
    BY <1>2, <1>3, <1>5, <1>10, <2>1, <2>2, <2>3 DEF Owed
<1>13. /\ taken' \in [Client -> Nat]
       /\ \A d \in Client \ {c} : taken'[d] = taken[d]
       /\ \A other \in owed' : other.conn # id => other \in owed
       /\ \A other \in owed : other.conn # id => other \in owed'
       /\ conn.inflight <= taken'[c]
  BY <1>0, <1>3, <1>4, <1>5, <1>10, <1>6, <1>7
<1>14. Exchange(id, rs, k, conn)
  BY <1>0, <1>3, <1>10, <1>11, <1>12, <1>13 DEF Exchange
<1>15. QED
  BY <1>8, <1>9, <1>10, <1>14 DEF MeetsSocket

-----------------------------------------------------------------------------
(* One lemma for each of the other actions. *)

\* A new client joins the end of the listen queue.
LEMMA ConnectKeeps ==
  ASSUME IInv, NEW c \in Client, Connect(c)
  PROVE  IInv'
<1>1. /\ peer[c] = "new"
      /\ peer' = [peer EXCEPT ![c] = "open"]
      /\ backlog' = Append(backlog, c)
      /\ UNCHANGED <<stream, taken, outbox, conn_seq, conns, phase, todo, remove_conn, owed>>
  BY DEF Connect, connVars, tickVars
<1>2. TypeOK /\ PhaseOK /\ Coherent
  BY DEF IInv
<1>3. /\ backlog \in Seq(Client) /\ Len(backlog) \in Nat
      /\ peer \in [Client -> {"new", "open", "gone", "dropped"}]
      /\ \A i \in DOMAIN backlog : backlog[i] \in Client /\ backlog[i] # c
      /\ \A id \in DOMAIN conns : conns[id].client \in Client /\ conns[id].client # c
  <2>1. ASSUME NEW id \in DOMAIN conns
        PROVE  conns[id].client \in Client /\ conns[id].client # c
    <3>1. ConnOK(id) /\ conns[id] \in Conn
      BY <1>2 DEF TypeOK, Coherent
    <3>2. QED
      BY <1>1, <3>1 DEF ConnOK, Conn
  <2>2. ASSUME NEW i \in DOMAIN backlog
        PROVE  backlog[i] \in Client /\ backlog[i] # c
    BY <1>1, <1>2 DEF TypeOK, Coherent, FreshOK
  <2>3. QED
    BY <1>2, <2>1, <2>2 DEF TypeOK
<1>4. /\ backlog' \in Seq(Client)
      /\ DOMAIN backlog' = DOMAIN backlog \cup {Len(backlog) + 1}
      /\ Len(backlog) + 1 \notin DOMAIN backlog
      /\ backlog'[Len(backlog) + 1] = c
      /\ \A i \in DOMAIN backlog : backlog'[i] = backlog[i]
  BY <1>1, <1>3
<1>5. /\ peer' \in [Client -> {"new", "open", "gone", "dropped"}]
      /\ peer'[c] = "open"
      /\ \A d \in Client \ {c} : peer'[d] = peer[d]
  BY <1>1, <1>3
<1>6. TypeOK' /\ PhaseOK'
  BY <1>1, <1>2, <1>4, <1>5 DEF TypeOK, PhaseOK
<1>7. OneConnPerClient'
  BY <1>1, <1>2, <1>3, <1>4 DEF Coherent, OneConnPerClient
<1>8. FreshOK'
  BY <1>1, <1>2, <1>3, <1>4, <1>5 DEF Coherent, FreshOK
<1>9. ASSUME NEW id \in DOMAIN conns'
      PROVE  ConnOK(id)'
  <2>1. ConnOK(id) /\ peer'[conns[id].client] = peer[conns[id].client]
    BY <1>1, <1>2, <1>3, <1>5 DEF Coherent
  <2>2. QED
    BY <1>1, <2>1 DEF ConnOK, OwesAll, Continues
<1>10. ASSUME NEW o \in owed'
       PROVE  OwedOK(o)'
  BY <1>1, <1>2 DEF Coherent, OwedOK
<1>11. ResponsesInOrder'
  BY <1>1, <1>2 DEF Coherent, ResponsesInOrder
<1>12. QED
  BY <1>6, <1>7, <1>8, <1>9, <1>10, <1>11 DEF IInv, Coherent

\* A request travels to the server.
LEMMA SendKeeps ==
  ASSUME IInv, NEW c \in Client, NEW kind \in Kinds, Send(c, kind)
  PROVE  IInv'
<1>1. /\ stream' = [stream EXCEPT ![c] = Append(@, kind)]
      /\ UNCHANGED <<peer, backlog, taken, outbox, conn_seq, conns, phase, todo,
                     remove_conn, owed>>
  BY DEF Send, connVars, tickVars
<1>2. stream' \in [Client -> Seq(Kinds)]
  BY <1>1 DEF IInv, TypeOK
<1>3. TypeOK' /\ PhaseOK'
  BY <1>1, <1>2 DEF IInv, TypeOK, PhaseOK
<1>4. OneConnPerClient' /\ FreshOK' /\ ResponsesInOrder'
  BY <1>1 DEF IInv, Coherent, OneConnPerClient, FreshOK, ResponsesInOrder
<1>5. ASSUME NEW id \in DOMAIN conns'
      PROVE  ConnOK(id)'
  <2>1. ConnOK(id)
    BY <1>1 DEF IInv, Coherent
  <2>2. QED
    BY <1>1, <2>1 DEF ConnOK, OwesAll, Continues
<1>6. ASSUME NEW o \in owed'
      PROVE  OwedOK(o)'
  BY <1>1 DEF IInv, Coherent, OwedOK
<1>7. QED
  BY <1>3, <1>4, <1>5, <1>6 DEF IInv, Coherent

\* A client that hangs up is owed no order any more.
LEMMA HangUpKeeps ==
  ASSUME IInv, NEW c \in Client, HangUp(c)
  PROVE  IInv'
<1>1. /\ peer[c] = "open"
      /\ peer' = [peer EXCEPT ![c] = "gone"]
      /\ UNCHANGED <<backlog, stream, taken, outbox, conn_seq, conns, phase, todo,
                     remove_conn, owed>>
  BY DEF HangUp, connVars, tickVars
<1>2. TypeOK /\ PhaseOK /\ Coherent
  BY DEF IInv
<1>3. /\ peer' \in [Client -> {"new", "open", "gone", "dropped"}]
      /\ \A d \in Client : /\ peer'[d] = "new" <=> peer[d] = "new"
                           /\ peer'[d] = "open" => peer[d] = "open"
  BY <1>1, <1>2 DEF TypeOK
<1>4. TypeOK' /\ PhaseOK'
  BY <1>1, <1>2, <1>3 DEF TypeOK, PhaseOK
<1>5. OneConnPerClient' /\ ResponsesInOrder'
  BY <1>1, <1>2 DEF Coherent, OneConnPerClient, ResponsesInOrder
<1>6. FreshOK'
  <2>1. \A i \in DOMAIN backlog : backlog[i] \in Client
    BY <1>2 DEF TypeOK
  <2>2. QED
    BY <1>1, <1>2, <1>3, <2>1 DEF Coherent, FreshOK
<1>7. ASSUME NEW id \in DOMAIN conns'
      PROVE  ConnOK(id)'
  <2>1. ConnOK(id) /\ conns[id].client \in Client
    BY <1>1, <1>2 DEF Coherent, TypeOK, Conn
  <2>2. QED
    BY <1>1, <1>3, <2>1 DEF ConnOK, OwesAll, Continues
<1>8. ASSUME NEW o \in owed'
      PROVE  OwedOK(o)'
  BY <1>1, <1>2 DEF Coherent, OwedOK
<1>9. QED
  BY <1>4, <1>5, <1>6, <1>7, <1>8 DEF IInv, Coherent

\* Taking the first of the listen queue leaves the others where they were.
LEMMA TailProperties ==
  ASSUME backlog \in Seq(Client), backlog # <<>>
  PROVE  /\ Head(backlog) \in Client
         /\ Head(backlog) = backlog[1]
         /\ 1 \in DOMAIN backlog
         /\ Tail(backlog) \in Seq(Client)
         /\ \A i \in DOMAIN Tail(backlog) :
              /\ i + 1 \in DOMAIN backlog
              /\ i \in Nat /\ i > 0
              /\ Tail(backlog)[i] = backlog[i + 1]
<1>1. Len(backlog) \in Nat /\ Len(backlog) >= 1
  OBVIOUS
<1>2. QED
  BY <1>1

\* The socket at the head of the queue gets an id nobody ever had.
LEMMA AcceptConnKeeps ==
  ASSUME IInv, AcceptConn
  PROVE  IInv'
<1>0. SUFFICES ASSUME NEW c, c = Head(backlog), NEW id, id = conn_seq
               PROVE  IInv'
  OBVIOUS
<1>1. /\ phase = "accept"
      /\ backlog # <<>>
      /\ backlog' = Tail(backlog)
      /\ conns' = [j \in DOMAIN conns \cup {id} |-> IF j = id THEN NewConn(c) ELSE conns[j]]
      /\ conn_seq' = id + 1
      /\ UNCHANGED <<peer, stream, taken, outbox, phase, todo, remove_conn, owed>>
  BY <1>0 DEF AcceptConn, AddConn, NextId, tickVars
<1>2. TypeOK /\ PhaseOK /\ Coherent
  BY DEF IInv
<1>3. /\ c \in Client /\ c = backlog[1] /\ 1 \in DOMAIN backlog
      /\ backlog' \in Seq(Client)
      /\ \A i \in DOMAIN backlog' : /\ i + 1 \in DOMAIN backlog
                                    /\ i \in Nat /\ i > 0
                                    /\ backlog'[i] = backlog[i + 1]
  BY <1>0, <1>1, <1>2, TailProperties DEF TypeOK
<1>4. /\ id \in Nat /\ conn_seq = id
      /\ DOMAIN conns \subseteq 0..(id - 1) /\ id \notin DOMAIN conns
  BY <1>0, <1>2 DEF TypeOK
<1>5. /\ DOMAIN conns' = DOMAIN conns \cup {id}
      /\ conns'[id] = [client |-> c, inflight |-> 0, closed |-> FALSE, wbuf |-> <<>>]
      /\ \A j \in DOMAIN conns : conns'[j] = conns[j]
  BY <1>1, <1>4 DEF NewConn
<1>6. peer[c] # "new" /\ taken[c] = 0 /\ outbox[c] = <<>>
  BY <1>2, <1>3 DEF Coherent, FreshOK
<1>7. TypeOK'
  <2>1. conns'[id] \in Conn
    BY <1>3, <1>5 DEF Conn
  <2>2. DOMAIN conns' \subseteq 0..(conn_seq' - 1) /\ conn_seq' \in Nat
    BY <1>1, <1>4, <1>5
  <2>3. QED
    BY <1>1, <1>2, <1>3, <1>5, <2>1, <2>2 DEF TypeOK
<1>8. PhaseOK' /\ ResponsesInOrder'
  BY <1>1, <1>2 DEF PhaseOK, Coherent, ResponsesInOrder
<1>9. \A i \in DOMAIN backlog' : backlog'[i] # c
  <2> SUFFICES ASSUME NEW i \in DOMAIN backlog', backlog'[i] = c
               PROVE  FALSE
    OBVIOUS
  <2>1. backlog[i + 1] = backlog[1] /\ i + 1 \in DOMAIN backlog /\ i + 1 # 1
    BY <1>3
  <2>2. QED
    BY <1>2, <1>3, <2>1 DEF Coherent, OneConnPerClient
<1>10. OneConnPerClient'
  <2>1. \A i, j \in DOMAIN backlog' : backlog'[i] = backlog'[j] => i = j
    BY <1>2, <1>3 DEF Coherent, OneConnPerClient
  <2>2. \A j \in DOMAIN conns : conns[j].client # c
    BY <1>2, <1>3 DEF Coherent, OneConnPerClient
  <2>3. \A i, j \in DOMAIN conns' : conns'[i].client = conns'[j].client => i = j
    BY <1>2, <1>5, <2>2 DEF Coherent, OneConnPerClient
  <2>4. \A i \in DOMAIN backlog', j \in DOMAIN conns' : backlog'[i] # conns'[j].client
    BY <1>2, <1>3, <1>5, <1>9 DEF Coherent, OneConnPerClient
  <2>5. QED
    BY <2>1, <2>3, <2>4 DEF OneConnPerClient
<1>11. FreshOK'
  BY <1>1, <1>2, <1>3 DEF Coherent, FreshOK
<1>12. ASSUME NEW j \in DOMAIN conns'
       PROVE  ConnOK(j)'
  <2>1. CASE j = id
    BY <1>1, <1>5, <1>6, <2>1 DEF ConnOK, OwesAll, Continues
  <2>2. CASE j # id
    <3>1. ConnOK(j) /\ conns'[j] = conns[j]
      BY <1>2, <1>5, <2>2 DEF Coherent
    <3>2. QED
      BY <1>1, <3>1 DEF ConnOK, OwesAll, Continues
  <2>3. QED
    BY <2>1, <2>2
<1>13. ASSUME NEW o \in owed'
       PROVE  OwedOK(o)'
  <2>1. OwedOK(o) /\ o \in Owed
    BY <1>1, <1>2 DEF Coherent, TypeOK
  <2>2. o.conn # id /\ o.conn < conn_seq'
    BY <1>1, <1>4, <2>1 DEF OwedOK, Owed
  <2>3. QED
    BY <1>1, <1>5, <2>1, <2>2 DEF OwedOK
<1>14. QED
  BY <1>7, <1>8, <1>10, <1>11, <1>12, <1>13 DEF IInv, Coherent

\* A socket that cannot be set up is closed before it gets a connection.
LEMMA AcceptFailsKeeps ==
  ASSUME IInv, AcceptFails
  PROVE  IInv'
<1>1. /\ phase = "accept"
      /\ backlog # <<>>
      /\ backlog' = Tail(backlog)
      /\ peer' = Dropping({Head(backlog)})
      /\ phase' = "read"
      /\ todo' = DOMAIN conns
      /\ UNCHANGED <<stream, taken, outbox, conn_seq, conns, remove_conn, owed>>
  BY DEF AcceptFails, connVars
<1>2. TypeOK /\ PhaseOK /\ Coherent
  BY DEF IInv
<1>3. /\ backlog' \in Seq(Client)
      /\ \A i \in DOMAIN backlog' : /\ i + 1 \in DOMAIN backlog
                                    /\ i \in Nat /\ i > 0
                                    /\ backlog'[i] = backlog[i + 1]
  BY <1>1, <1>2, TailProperties DEF TypeOK
<1>4. /\ peer' \in [Client -> {"new", "open", "gone", "dropped"}]
      /\ \A c \in Client : /\ peer'[c] = "new" <=> peer[c] = "new"
                           /\ peer'[c] = "open" => peer[c] = "open"
  BY <1>1, <1>2 DEF Dropping, TypeOK
<1>5. TypeOK' /\ PhaseOK'
  BY <1>1, <1>2, <1>3, <1>4 DEF TypeOK, PhaseOK
<1>6. OneConnPerClient'
  BY <1>1, <1>2, <1>3 DEF Coherent, OneConnPerClient
<1>7. FreshOK'
  <2>1. \A i \in DOMAIN backlog : backlog[i] \in Client
    BY <1>2 DEF TypeOK
  <2>2. ASSUME NEW i \in DOMAIN backlog'
        PROVE  /\ peer'[backlog'[i]] # "new"
               /\ taken'[backlog'[i]] = 0
               /\ outbox'[backlog'[i]] = <<>>
    <3>1. i + 1 \in DOMAIN backlog /\ backlog'[i] = backlog[i + 1] /\ backlog[i + 1] \in Client
      BY <1>3, <2>1
    <3>2. /\ peer[backlog[i + 1]] # "new"
          /\ taken[backlog[i + 1]] = 0
          /\ outbox[backlog[i + 1]] = <<>>
      BY <1>2, <3>1 DEF Coherent, FreshOK
    <3>3. QED
      BY <1>1, <1>4, <3>1, <3>2
  <2>3. ASSUME NEW c \in Client, peer'[c] = "new"
        PROVE  taken'[c] = 0 /\ outbox'[c] = <<>>
    BY <1>1, <1>2, <1>4, <2>3 DEF Coherent, FreshOK
  <2>4. QED
    BY <2>2, <2>3 DEF FreshOK
<1>8. ASSUME NEW id \in DOMAIN conns'
      PROVE  ConnOK(id)'
  <2>1. ConnOK(id) /\ conns[id].client \in Client
    BY <1>1, <1>2 DEF Coherent, TypeOK, Conn
  <2>2. QED
    BY <1>1, <1>4, <2>1 DEF ConnOK, OwesAll, Continues
<1>9. ASSUME NEW o \in owed'
      PROVE  OwedOK(o)'
  BY <1>1, <1>2 DEF Coherent, OwedOK
<1>10. ResponsesInOrder'
  BY <1>1, <1>2 DEF Coherent, ResponsesInOrder
<1>11. QED
  BY <1>5, <1>6, <1>7, <1>8, <1>9, <1>10 DEF IInv, Coherent

\* The application asks to close a connection; only the flag changes.
LEMMA CloseConnKeeps ==
  ASSUME IInv, NEW id \in DOMAIN conns, CloseConn(id)
  PROVE  IInv'
<1>1. /\ conns' = [conns EXCEPT ![id] = TryClose(@)]
      /\ UNCHANGED <<peer, backlog, stream, taken, outbox, conn_seq, phase, todo,
                     remove_conn, owed>>
  BY DEF CloseConn, netVars, tickVars
<1>2. TypeOK /\ PhaseOK /\ Coherent
  BY DEF IInv
<1>3. /\ DOMAIN conns' = DOMAIN conns
      /\ \A j \in DOMAIN conns : /\ conns'[j] \in Conn
                                 /\ conns'[j].client = conns[j].client
                                 /\ conns'[j].inflight = conns[j].inflight
                                 /\ conns'[j].wbuf = conns[j].wbuf
  BY <1>1, <1>2 DEF TypeOK, Conn, TryClose
<1>4. TypeOK' /\ PhaseOK'
  BY <1>1, <1>2, <1>3 DEF TypeOK, PhaseOK
<1>5. OneConnPerClient' /\ FreshOK' /\ ResponsesInOrder'
  BY <1>1, <1>2, <1>3 DEF Coherent, OneConnPerClient, FreshOK, ResponsesInOrder
<1>6. ASSUME NEW j \in DOMAIN conns'
      PROVE  ConnOK(j)'
  <2>1. ConnOK(j)
    BY <1>2, <1>3 DEF Coherent
  <2>2. /\ conns'[j].client = conns[j].client
        /\ conns'[j].inflight = conns[j].inflight
        /\ conns'[j].wbuf = conns[j].wbuf
    BY <1>3
  <2>3. UNCHANGED <<peer, taken, outbox, owed>>
    BY <1>1
  <2>4. QED
    BY <2>1, <2>2, <2>3 DEF ConnOK, OwesAll, Continues
<1>7. ASSUME NEW o \in owed'
      PROVE  OwedOK(o)'
  BY <1>1, <1>2, <1>3 DEF Coherent, OwedOK
<1>8. QED
  BY <1>4, <1>5, <1>6, <1>7 DEF IInv, Coherent

\* A request nobody can be answered for is forgotten: its connection is gone
\* already, or its client is and the write failed.
LEMMA DropTicketKeeps ==
  ASSUME IInv, NEW o \in owed, owed' = owed \ {o},
         o.conn \in DOMAIN conns => peer[conns[o.conn].client] # "open",
         UNCHANGED <<peer, backlog, stream, taken, outbox, conn_seq, conns, phase, todo,
                     remove_conn>>
  PROVE  IInv'
<1>1. TypeOK' /\ PhaseOK'
  BY DEF IInv, TypeOK, PhaseOK
<1>2. OneConnPerClient' /\ FreshOK' /\ ResponsesInOrder'
  BY DEF IInv, Coherent, OneConnPerClient, FreshOK, ResponsesInOrder
<1>3. ASSUME NEW j \in DOMAIN conns'
      PROVE  ConnOK(j)'
  <2>1. ConnOK(j)
    BY DEF IInv, Coherent
  <2>2. CASE j = o.conn
    BY <2>1, <2>2 DEF ConnOK
  <2>3. CASE j # o.conn
    <3>1. \A other \in owed : other.conn = j => other \in owed'
      BY <2>3
    <3>2. QED
      BY <2>1, <3>1 DEF ConnOK, OwesAll, Continues
  <2>4. QED
    BY <2>2, <2>3
<1>4. ASSUME NEW other \in owed'
      PROVE  OwedOK(other)'
  BY DEF IInv, Coherent, OwedOK
<1>5. QED
  BY <1>1, <1>2, <1>3, <1>4 DEF IInv, Coherent

\* Progress of the tick alone touches no connection.
LEMMA QuietKeeps ==
  ASSUME IInv, TypeOK', PhaseOK',
         UNCHANGED <<peer, backlog, taken, outbox, conn_seq, conns, owed>>
  PROVE  IInv'
<1>1. OneConnPerClient' /\ FreshOK' /\ ResponsesInOrder'
  BY DEF IInv, Coherent, OneConnPerClient, FreshOK, ResponsesInOrder
<1>2. ASSUME NEW j \in DOMAIN conns'
      PROVE  ConnOK(j)'
  <2>1. ConnOK(j)
    BY DEF IInv, Coherent
  <2>2. QED
    BY <2>1 DEF ConnOK, OwesAll, Continues
<1>3. ASSUME NEW o \in owed'
      PROVE  OwedOK(o)'
  BY DEF IInv, Coherent, OwedOK
<1>4. QED
  BY <1>1, <1>2, <1>3 DEF IInv, Coherent

-----------------------------------------------------------------------------
(* The inductive invariant. *)

LEMMA Initially == Init => IInv
<1> SUFFICES ASSUME Init PROVE IInv
  OBVIOUS
<1> USE DEF Init, ServerInit
<1>1. TypeOK /\ PhaseOK
  BY DEF TypeOK, PhaseOK
<1>2. Coherent
  BY DEF Coherent, OneConnPerClient, FreshOK, ResponsesInOrder
<1>3. QED
  BY <1>1, <1>2 DEF IInv

\* The steps of one visit.
LEMMA ReadKeeps ==
  ASSUME IInv, NEW id \in DOMAIN conns, Read(id)
  PROVE  IInv'
<1>1. TypeOK /\ PhaseOK /\ Coherent
  BY DEF IInv
<1>2. ASSUME NEW k, NoRequest(id, k)
      PROVE  IInv'
  <2>1. /\ Flush(id, k)
        /\ conns' = [conns EXCEPT ![id] = Flushed(@, k)]
        /\ todo' = todo \ {id}
        /\ UNCHANGED <<peer, backlog, stream, taken, conn_seq, phase, remove_conn, owed>>
    BY <1>2 DEF NoRequest, FlushAll
  <2>2. /\ outbox' \in [Client -> Seq(Response)]
        /\ DOMAIN conns' = DOMAIN conns
        /\ \A j \in DOMAIN conns' : conns'[j] \in Conn
        /\ Coherent'
    BY <2>1, FlushMeets, MeetingKeeps
  <2>3. QED
    BY <1>1, <2>1, <2>2 DEF IInv, TypeOK, PhaseOK
<1>3. ASSUME NEW k, ReadFails(id, k) \/ FlushBlocks(id, k)
      PROVE  IInv'
  <2>1. /\ phase = "read"
        /\ Flush(id, k)
        /\ conns' = [conns EXCEPT ![id] = Flushed(@, k)]
        /\ todo' = todo \ {id}
        /\ remove_conn' = remove_conn \cup {id}
        /\ UNCHANGED <<peer, backlog, stream, taken, conn_seq, phase, owed>>
    BY <1>3 DEF ReadFails, FlushAll, FlushBlocks, Visiting
  <2>2. /\ outbox' \in [Client -> Seq(Response)]
        /\ DOMAIN conns' = DOMAIN conns
        /\ \A j \in DOMAIN conns' : conns'[j] \in Conn
        /\ Coherent'
    BY <2>1, FlushMeets, MeetingKeeps
  <2>3. QED
    BY <1>1, <2>1, <2>2 DEF IInv, TypeOK, PhaseOK
<1>4. ASSUME NEW k, NEW is_close \in BOOLEAN, NewRequest(id, k, is_close)
      PROVE  IInv'
  <2>1. /\ outbox' \in [Client -> Seq(Response)]
        /\ taken' \in [Client -> Nat]
        /\ \A o \in owed' : o \in Owed
        /\ DOMAIN conns' = DOMAIN conns
        /\ \A j \in DOMAIN conns' : conns'[j] \in Conn
        /\ Coherent'
    BY <1>4, NewRequestMeets, MeetingKeeps
  <2>2. /\ todo' = todo \ {id}
        /\ UNCHANGED <<peer, backlog, stream, conn_seq, phase, remove_conn>>
    BY <1>4 DEF NewRequest, TakeRequest, FlushAll
  <2>3. QED
    BY <1>1, <2>1, <2>2 DEF IInv, TypeOK, PhaseOK
<1>5. CASE FlushFails(id)
  <2>1. /\ phase = "read"
        /\ todo' = todo \ {id}
        /\ remove_conn' = remove_conn \cup {id}
        /\ UNCHANGED <<peer, backlog, stream, taken, outbox, conn_seq, conns, phase, owed>>
    BY <1>5 DEF FlushFails, Visiting, netVars, connVars
  <2>2. TypeOK' /\ PhaseOK'
    BY <1>1, <2>1 DEF TypeOK, PhaseOK
  <2>3. QED
    BY <2>1, <2>2, QuietKeeps
<1>6. QED
  BY <1>2, <1>3, <1>4, <1>5 DEF Read

\* What is owed on a connection is counted there.
LEMMA OwedIsCounted == IInv => SolicitedOnly
<1> SUFFICES ASSUME IInv, NEW o \in owed, o.conn \in DOMAIN conns
             PROVE  conns[o.conn].inflight > 0
  BY DEF SolicitedOnly
<1>1. /\ o.n <= taken[conns[o.conn].client]
      /\ o.n > taken[conns[o.conn].client] - conns[o.conn].inflight
  BY DEF IInv, Coherent, OwedOK
<1>2. /\ o.n \in Nat /\ conns[o.conn].inflight \in Nat
      /\ taken[conns[o.conn].client] \in Nat
  BY DEF IInv, TypeOK, Owed, Conn
<1>3. QED
  BY <1>1, <1>2

\* The answers of the application.
LEMMA ReplyKeeps ==
  ASSUME IInv, Reply
  PROVE  IInv'
<1>1. TypeOK /\ PhaseOK /\ Coherent
  BY DEF IInv
<1>2. ASSUME NEW o \in owed, NEW k, WriteTo(o, k)
      PROVE  IInv'
  <2>1. CASE Expects(o.conn)
    <3>1. /\ outbox' \in [Client -> Seq(Response)]
          /\ DOMAIN conns' = DOMAIN conns
          /\ \A j \in DOMAIN conns' : conns'[j] \in Conn
          /\ Coherent'
      <4>1. o.conn \in DOMAIN conns
        BY <2>1 DEF Expects
      <4>2. QED
        BY <1>2, <2>1, <4>1, WriteToMeets, MeetingKeeps
    <3>2. /\ owed' = owed \ {o}
          /\ UNCHANGED <<peer, backlog, stream, taken, conn_seq, phase, todo, remove_conn>>
      BY <1>2 DEF WriteTo, tickVars
    <3>3. QED
      BY <1>1, <3>1, <3>2 DEF IInv, TypeOK, PhaseOK
  <2>2. CASE ~Expects(o.conn)
    <3>1. /\ owed' = owed \ {o}
          /\ UNCHANGED <<peer, backlog, stream, taken, outbox, conn_seq, conns, phase,
                         todo, remove_conn>>
      BY <1>2, <2>2 DEF WriteTo, tickVars
    <3>2. o.conn \notin DOMAIN conns
      BY <2>2, OwedIsCounted DEF Expects, SolicitedOnly
    <3>3. QED
      BY <3>1, <3>2, DropTicketKeeps
  <2>3. QED
    BY <2>1, <2>2
<1>3. ASSUME NEW o \in owed, WriteFails(o)
      PROVE  IInv'
  <2>1. /\ owed' = owed \ {o}
        /\ peer[conns[o.conn].client] # "open"
        /\ UNCHANGED <<peer, backlog, stream, taken, outbox, conn_seq, conns, phase,
                       todo, remove_conn>>
    BY <1>3 DEF WriteFails, netVars, connVars, tickVars
  <2>2. QED
    BY <2>1, DropTicketKeeps
<1>4. QED
  BY <1>2, <1>3 DEF Reply

LEMMA Preserved == IInv /\ [Next]_vars => IInv'
<1> SUFFICES ASSUME IInv, [Next]_vars
             PROVE  IInv'
  OBVIOUS
<1>1. TypeOK /\ PhaseOK /\ Coherent
  BY DEF IInv
<1>2. CASE Peers
  BY <1>2, ConnectKeeps, SendKeeps, HangUpKeeps DEF Peers
<1>3. CASE Accept
  <2>1. CASE AcceptError \/ AcceptDone
    <3>1. /\ phase' = "read"
          /\ todo' = DOMAIN conns
          /\ UNCHANGED <<peer, backlog, stream, taken, outbox, conn_seq, conns, remove_conn,
                         owed>>
      BY <2>1 DEF AcceptError, AcceptDone, netVars, connVars
    <3>2. TypeOK' /\ PhaseOK'
      BY <1>1, <3>1 DEF TypeOK, PhaseOK
    <3>3. QED
      BY <3>1, <3>2, QuietKeeps
  <2>2. QED
    BY <1>3, <2>1, AcceptConnKeeps, AcceptFailsKeeps DEF Accept
<1>4. CASE \E id \in DOMAIN conns : Read(id)
  BY <1>4, ReadKeeps
<1>5. CASE EndRead("tick")
  <2>1. /\ todo = {}
        /\ RemoveConns(remove_conn)
        /\ remove_conn' = {} /\ phase' = "tick" /\ todo' = todo
        /\ UNCHANGED <<backlog, stream, taken, outbox, conn_seq, owed>>
    BY <1>5 DEF EndRead
  <2>2. remove_conn \in SUBSET DOMAIN conns
    BY <1>1 DEF TypeOK
  <2>3. /\ peer' \in [Client -> {"new", "open", "gone", "dropped"}]
        /\ DOMAIN conns' = DOMAIN conns \ remove_conn
        /\ \A j \in DOMAIN conns' : conns'[j] \in Conn
        /\ Coherent'
    BY <2>1, <2>2, RemoveKeeps
  <2>4. QED
    BY <1>1, <2>1, <2>3 DEF IInv, TypeOK, PhaseOK
<1>6. CASE EndTick
  <2>1. /\ phase = "tick" /\ phase' = "accept"
        /\ UNCHANGED <<peer, backlog, stream, taken, outbox, conn_seq, conns, todo,
                       remove_conn, owed>>
    BY <1>6 DEF EndTick, netVars, connVars
  <2>2. TypeOK' /\ PhaseOK'
    BY <1>1, <2>1 DEF TypeOK, PhaseOK
  <2>3. QED
    BY <2>1, <2>2, QuietKeeps
<1>7. CASE Reply
  BY <1>7, ReplyKeeps
<1>8. ASSUME NEW id \in DOMAIN conns, RemoveConn(id)
      PROVE  IInv'
  <2>1. /\ phase = "tick"
        /\ RemoveConns({id})
        /\ UNCHANGED <<backlog, stream, taken, outbox, conn_seq, phase, todo, remove_conn,
                       owed>>
    BY <1>8 DEF RemoveConn, tickVars
  <2>2. /\ peer' \in [Client -> {"new", "open", "gone", "dropped"}]
        /\ DOMAIN conns' = DOMAIN conns \ {id}
        /\ \A j \in DOMAIN conns' : conns'[j] \in Conn
        /\ Coherent'
    BY <2>1, RemoveKeeps
  <2>3. QED
    BY <1>1, <2>1, <2>2 DEF IInv, TypeOK, PhaseOK
<1>9. CASE Manage
  BY <1>8, <1>9, CloseConnKeeps DEF Manage
<1>10. CASE UNCHANGED vars
  <2>1. UNCHANGED <<peer, backlog, stream, taken, outbox, conn_seq, conns, phase, todo,
                    remove_conn, owed>>
    BY <1>10 DEF vars, netVars, connVars, tickVars
  <2>2. TypeOK' /\ PhaseOK'
    BY <1>1, <2>1 DEF TypeOK, PhaseOK
  <2>3. QED
    BY <2>1, <2>2, QuietKeeps
<1>11. QED
  BY <1>2, <1>3, <1>4, <1>5, <1>6, <1>7, <1>9, <1>10 DEF Next, Tick

\* The relation between clients, connections and application that the other
\* theorems rest on holds in every state.
THEOREM Invariance == Spec => []IInv
<1>1. QED
  BY Initially, Preserved, PTL DEF Spec

\* The variables always have their types: no count in flight goes below
\* zero and no id to visit or to remove is without a connection.
THEOREM TypesHold == Spec => []TypeOK
<1>1. IInv => TypeOK
  BY DEF IInv
<1>2. QED
  BY <1>1, Invariance, PTL

\* Every client receives the responses to its own requests, in order.
THEOREM InOrder == Spec => []ResponsesInOrder
<1>1. IInv => ResponsesInOrder
  BY DEF IInv, Coherent
<1>2. QED
  BY <1>1, Invariance, PTL

\* write_response never meets the case it calls "should not happen".
THEOREM Solicited == Spec => []SolicitedOnly
<1>1. QED
  BY OwedIsCounted, Invariance, PTL

-----------------------------------------------------------------------------
(* Closing gracefully, and the refinement of Exchange.                     *)

\* Only what was sent is taken.
TakenWasSent == \A c \in Client : taken[c] <= Len(stream[c])

\* A connection that waits for its removal has been visited, and if it was
\* asked to close and its client is there, it was idle or its flush blocked.
RemovalDue ==
  \A id \in remove_conn :
    /\ id \notin todo
    /\ conns[id].closed /\ peer[conns[id].client] = "open" =>
         conns[id].inflight = 0 \/ conns[id].wbuf # <<>>

ServerInv == IInv /\ TakenWasSent /\ RemovalDue

LEMMA TakenWasSentKept ==
  ASSUME IInv, TakenWasSent, [Next]_vars
  PROVE  TakenWasSent'
<1>1. /\ stream \in [Client -> Seq(Kinds)] /\ taken \in [Client -> Nat]
      /\ \A id \in DOMAIN conns : conns[id].client \in Client
  BY DEF IInv, TypeOK, Conn
<1>2. CASE UNCHANGED <<stream, taken>>
  BY <1>2 DEF TakenWasSent
<1>3. ASSUME NEW c \in Client, NEW kind \in Kinds, Send(c, kind)
      PROVE  TakenWasSent'
  <2>1. /\ taken' = taken
        /\ stream' = [stream EXCEPT ![c] = Append(@, kind)]
    BY <1>3 DEF Send
  <2>2. stream[c] \in Seq(Kinds)
    BY <1>1
  <2>3. Len(Append(stream[c], kind)) = Len(stream[c]) + 1 /\ Len(stream[c]) \in Nat
    BY <2>2
  <2>4. QED
    BY <1>1, <2>1, <2>3 DEF TakenWasSent
<1>4. ASSUME NEW id \in DOMAIN conns, NEW k, TakeRequest(id, k)
      PROVE  TakenWasSent'
  <2> DEFINE c == conns[id].client
  <2>1. /\ stream' = stream /\ c \in Client
        /\ taken' = [taken EXCEPT ![c] = @ + 1]
        /\ taken[c] < Len(stream[c])
    BY <1>1, <1>4 DEF TakeRequest, Unread
  <2> HIDE DEF c
  <2>2. Len(stream[c]) \in Nat
    BY <1>1, <2>1
  <2>3. QED
    BY <1>1, <2>1, <2>2 DEF TakenWasSent
<1>5. CASE Peers
  BY <1>2, <1>3, <1>5 DEF Peers, Connect, HangUp
<1>6. CASE Tick
  <2>1. CASE Accept
    BY <1>2, <2>1 DEF Accept, AcceptConn, AcceptFails, AcceptError, AcceptDone, netVars
  <2>2. ASSUME NEW id \in DOMAIN conns, Read(id)
        PROVE  TakenWasSent'
    BY <1>2, <1>4, <2>2 DEF Read, FlushFails, NoRequest, ReadFails, FlushBlocks, NewRequest,
                            netVars
  <2>3. QED
    BY <1>2, <1>6, <2>1, <2>2 DEF Tick, EndRead, EndTick, netVars
<1>7. CASE Reply \/ Manage \/ UNCHANGED vars
  BY <1>2, <1>7 DEF Reply, WriteFails, WriteTo, Manage, CloseConn, RemoveConn, vars, netVars
<1>8. QED
  BY <1>5, <1>6, <1>7 DEF Next

LEMMA RemovalDueKept ==
  ASSUME IInv, RemovalDue, [Next]_vars
  PROVE  RemovalDue'
<1>1. /\ TypeOK /\ PhaseOK
      /\ peer \in [Client -> {"new", "open", "gone", "dropped"}]
      /\ remove_conn \subseteq DOMAIN conns
      /\ \A id \in DOMAIN conns : conns[id] \in Conn /\ conns[id].client \in Client
  BY DEF IInv, TypeOK, Conn
\* Clients only leave.
<1>2. ASSUME UNCHANGED <<conns, todo, remove_conn>>,
             \A c \in Client : peer'[c] = "open" => peer[c] \in {"new", "open"},
             \A id \in DOMAIN conns : peer[conns[id].client] # "new"
      PROVE  RemovalDue'
  BY <1>1, <1>2 DEF RemovalDue
<1>3. CASE remove_conn' = {}
  BY <1>3 DEF RemovalDue
<1>4. CASE Peers
  <2>1. UNCHANGED <<conns, todo, remove_conn>>
    BY <1>4 DEF Peers, Connect, HangUp, Send, connVars, tickVars
  <2>2. \A c \in Client : peer'[c] = "open" => peer[c] \in {"new", "open"}
    BY <1>1, <1>4 DEF Peers, Connect, HangUp, Send
  <2>3. \A id \in DOMAIN conns : peer[conns[id].client] # "new"
    BY DEF IInv, Coherent, ConnOK
  <2>4. QED
    BY <1>2, <2>1, <2>2, <2>3
<1>5. ASSUME NEW id \in DOMAIN conns, Read(id)
      PROVE  RemovalDue'
  <2>1. conns[id] \in Conn /\ (id \in todo => id \notin remove_conn)
    BY <1>1 DEF RemovalDue
  \* A visit changes the visited connection and its place in the lists only.
  <2>2. ASSUME id \in todo, peer' = peer, todo' = todo \ {id},
               DOMAIN conns' = DOMAIN conns,
               \A j \in DOMAIN conns \ {id} : conns'[j] = conns[j],
               remove_conn' \subseteq remove_conn \cup {id},
               id \in remove_conn' /\ conns'[id].closed /\ peer[conns'[id].client] = "open" =>
                 conns'[id].inflight = 0 \/ conns'[id].wbuf # <<>>
        PROVE  RemovalDue'
    BY <1>1, <2>1, <2>2 DEF RemovalDue
  <2>3. CASE FlushFails(id)
    <3>1. /\ id \in todo /\ peer[conns[id].client] = "gone"
          /\ todo' = todo \ {id} /\ remove_conn' = remove_conn \cup {id}
          /\ peer' = peer /\ conns' = conns
      BY <2>3 DEF FlushFails, Visiting, netVars, connVars
    <3>2. QED
      BY <2>2, <3>1
  <2>4. ASSUME NEW k, NoRequest(id, k)
        PROVE  RemovalDue'
    <3>1. /\ id \in todo /\ peer' = peer /\ todo' = todo \ {id} /\ remove_conn' = remove_conn
          /\ conns' = [conns EXCEPT ![id] = Flushed(@, k)]
      BY <2>4 DEF NoRequest, Visiting
    <3>2. QED
      BY <2>1, <2>2, <3>1
  <2>5. ASSUME NEW k, NEW is_close, NewRequest(id, k, is_close)
        PROVE  RemovalDue'
    <3>1. /\ id \in todo /\ peer' = peer /\ todo' = todo \ {id} /\ remove_conn' = remove_conn
          /\ DOMAIN conns' = DOMAIN conns
          /\ \A j \in DOMAIN conns \ {id} : conns'[j] = conns[j]
      BY <2>5 DEF NewRequest, TakeRequest, Visiting
    <3>2. QED
      BY <2>1, <2>2, <3>1
  <2>6. ASSUME NEW k, ReadFails(id, k) \/ FlushBlocks(id, k)
        PROVE  RemovalDue'
    <3>1. /\ id \in todo /\ peer' = peer /\ todo' = todo \ {id}
          /\ remove_conn' = remove_conn \cup {id}
          /\ conns' = [conns EXCEPT ![id] = Flushed(@, k)]
          /\ k \in Accepts(Len(conns[id].wbuf))
      BY <2>6 DEF ReadFails, FlushAll, FlushBlocks, Visiting, Flush
    <3>2. conns[id].wbuf \in Seq(Response) /\ Len(conns[id].wbuf) \in Nat
      BY <2>1, <3>1 DEF Conn
    <3>3. k \in 0..Len(conns[id].wbuf)
      BY <3>1, <3>2, AcceptsBounds
    <3>4. /\ conns'[id].client = conns[id].client
          /\ conns'[id].closed = conns[id].closed
          /\ conns'[id].inflight = conns[id].inflight
          /\ conns'[id].wbuf = Unsent(conns[id].wbuf, k)
      BY <2>1, <3>1 DEF Flushed, Conn
    <3>5. CASE FlushBlocks(id, k)
      <4>1. Unsent(conns[id].wbuf, k) # <<>>
        <5>1. Len(Unsent(conns[id].wbuf, k)) = Len(conns[id].wbuf) - k
          BY <3>2, <3>3, UnsentProperties
        <5>2. k < Len(conns[id].wbuf)
          BY <3>5 DEF FlushBlocks
        <5>3. QED
          BY <3>2, <3>3, <5>1, <5>2
      <4>2. QED
        BY <2>2, <3>1, <3>4, <4>1
    <3>6. CASE ReadFails(id, k)
      <4>1. conns[id].closed => conns[id].inflight = 0
        BY <3>6 DEF ReadFails, MayRead, Drained
      <4>2. QED
        BY <2>2, <3>1, <3>4, <4>1
    <3>7. QED
      BY <2>6, <3>5, <3>6
  <2>7. QED
    BY <1>5, <2>3, <2>4, <2>5, <2>6 DEF Read
\* Outside tick_read nothing waits for its removal.
<1>6. CASE Accept \/ EndRead("tick") \/ EndTick \/ Reply \/ Manage
  <2>1. remove_conn' = {}
    BY <1>1, <1>6 DEF Accept, AcceptConn, AcceptFails, AcceptError, AcceptDone, EndRead, EndTick,
                      Reply, WriteTo, WriteFails, Manage, CloseConn, RemoveConn, tickVars, PhaseOK
  <2>2. QED
    BY <1>3, <2>1
<1>7. CASE UNCHANGED vars
  BY <1>7 DEF vars, netVars, connVars, tickVars, RemovalDue
<1>8. QED
  BY <1>4, <1>5, <1>6, <1>7 DEF Next, Tick

THEOREM ServerInvariance == Spec => []ServerInv
<1>1. Init => TakenWasSent /\ RemovalDue
  BY DEF Init, ServerInit, TakenWasSent, RemovalDue
<1>2. ServerInv /\ [Next]_vars => ServerInv'
  BY Preserved, TakenWasSentKept, RemovalDueKept DEF ServerInv
<1>3. QED
  BY <1>1, <1>2, Initially, PTL DEF Spec, ServerInv

\* A connection that was asked to close keeps its client until the client
\* has every response, unless the kernel refuses some of them.
THEOREM ClosingWaits == Spec => GracefulClose
<1>1. ServerInv /\ [Next]_vars =>
        [\A id \in remove_conn :
           conns[id].closed /\ id \notin DOMAIN conns' /\ peer[conns[id].client] = "open"
             => \/ Len(outbox[conns[id].client]) = taken[conns[id].client]
                \/ conns[id].wbuf # <<>>]_vars
  <2> SUFFICES ASSUME ServerInv, NEW id \in remove_conn, conns[id].closed,
                      peer[conns[id].client] = "open", conns[id].wbuf = <<>>
               PROVE  Len(outbox[conns[id].client]) = taken[conns[id].client]
    OBVIOUS
  <2>1. /\ conns[id].inflight = 0 /\ ConnOK(id)
        /\ conns[id].client \in Client
        /\ outbox \in [Client -> Seq(Response)]
    BY DEF ServerInv, RemovalDue, IInv, Coherent, TypeOK, Conn
  <2>2. /\ Len(outbox[conns[id].client]) \in Nat /\ Len(conns[id].wbuf) = 0
        /\ Len(outbox[conns[id].client]) + Len(conns[id].wbuf) + conns[id].inflight
              = taken[conns[id].client]
    BY <2>1 DEF ConnOK
  <2>3. QED
    BY <2>1, <2>2
<1>2. QED
  BY <1>1, ServerInvariance, PTL DEF Spec, GracefulClose

-----------------------------------------------------------------------------
(* What the clients see of a step, of this server or of another one that   *)
(* has its connections and clients.                                        *)

NetTypes ==
  /\ peer \in [Client -> {"new", "open", "gone", "dropped"}]
  /\ stream \in [Client -> Seq(Kinds)]
  /\ taken \in [Client -> Nat]
  /\ outbox \in [Client -> Seq(Response)]

\* The buffer of a connection goes on where its client's responses end, and
\* all requests that were taken are accounted for.
Accounted(id) ==
  LET conn == conns[id]
      c    == conns[id].client
  IN  /\ conn \in Conn
      /\ peer[c] # "new"
      /\ peer[c] = "open" => /\ Continues(conn.wbuf, c, Len(outbox[c]))
                             /\ Len(outbox[c]) + Len(conn.wbuf) + conn.inflight = taken[c]

LEMMA ServerAccounted ==
  ASSUME ServerInv
  PROVE  NetTypes /\ TakenWasSent /\ \A id \in DOMAIN conns : Accounted(id)
BY DEF ServerInv, IInv, TypeOK, Coherent, ConnOK, NetTypes, Accounted

\* Nothing, if it leaves their sockets, requests and responses alone.
LEMMA SeenAsNothing ==
  ASSUME UNCHANGED <<peer, stream, taken, outbox>>
  PROVE  UNCHANGED Exch!vars
BY DEF Exch!vars, State

\* The end of the conversations of those who were there and are no longer.
LEMMA SeenAsEnd ==
  ASSUME NEW S \in SUBSET Client,
         \A c \in S : peer[c] = "open" /\ peer'[c] \in {"gone", "dropped"},
         \A c \in Client \ S : peer'[c] = peer[c],
         UNCHANGED <<stream, taken, outbox>>
  PROVE  Exch!Next
<1>1. \A c \in S : State(c) = "open" /\ State(c)' = "over"
  BY DEF State
<1>2. \A c \in Client \ S : State(c)' = State(c)
  BY DEF State
<1>3. Exch!End(S)
  BY <1>1, <1>2 DEF Exch!End
<1>4. QED
  BY <1>3 DEF Exch!Next

\* Sockets the server closes.
LEMMA SeenDropping ==
  ASSUME peer \in [Client -> {"new", "open", "gone", "dropped"}],
         NEW clients, peer' = Dropping(clients),
         UNCHANGED <<stream, taken, outbox>>
  PROVE  Exch!Next
<1> DEFINE S == {c \in Client : c \in clients /\ peer[c] = "open"}
<1>1. \A c \in S : peer[c] = "open" /\ peer'[c] \in {"gone", "dropped"}
  BY DEF Dropping
<1>2. \A c \in Client \ S : peer'[c] = peer[c]
  BY DEF Dropping
<1> HIDE DEF S
<1>3. S \in SUBSET Client
  BY DEF S
<1>4. QED
  BY <1>1, <1>2, <1>3, SeenAsEnd

\* Responses that arrive are the next ones.
LEMMA SeenReplies ==
  ASSUME NetTypes, NEW c \in Client, NEW rs \in Seq(Response), NEW k \in 0..Len(rs),
         Deliver(c, rs, k), peer[c] = "open", Continues(rs, c, Len(outbox[c]))
  PROVE  /\ outbox' = [outbox EXCEPT ![c] = @ \o Exch!NextReplies(c, k)]
         /\ k = 0 => outbox' = outbox
<1>1. /\ Len(rs) \in Nat /\ k \in Nat /\ k <= Len(rs)
      /\ outbox[c] \in Seq(Response) /\ outbox \in [Client -> Seq(Response)]
  BY DEF NetTypes
<1>2. SubSeq(rs, 1, k) = Exch!NextReplies(c, k)
  <2>1. SubSeq(rs, 1, k) = [i \in 1..k |-> rs[i]]
    BY <1>1
  <2>2. \A i \in 1..k : rs[i] = [client |-> c, n |-> Len(outbox[c]) + i]
    BY <1>1 DEF Continues
  <2>3. QED
    BY <2>1, <2>2 DEF Exch!NextReplies
<1>3. ASSUME k = 0
      PROVE  outbox' = outbox
  <2>1. SubSeq(rs, 1, k) = <<>> /\ outbox[c] \o <<>> = outbox[c]
    BY <1>1, <1>3
  <2>2. QED
    BY <1>1, <2>1 DEF Deliver
<1>4. QED
  BY <1>2, <1>3 DEF Deliver

\* Responses that arrive, and possibly a request that is taken.
LEMMA SeenAsServing ==
  ASSUME NEW c \in Client, NEW rs \in Seq(Response), NEW k \in 0..Len(rs), NEW take \in 0..1,
         NetTypes, Deliver(c, rs, k), peer[c] # "new",
         peer[c] = "open" => /\ Continues(rs, c, Len(outbox[c]))
                             /\ Len(outbox[c]) + k <= taken[c],
         taken[c] + take <= Len(stream[c]),
         taken' = [taken EXCEPT ![c] = @ + take],
         UNCHANGED <<peer, stream>>
  PROVE  [Exch!Next]_(Exch!vars)
<1>1. /\ Len(rs) \in Nat /\ k \in Nat /\ k <= Len(rs)
      /\ outbox[c] \in Seq(Response) /\ Len(outbox[c]) \in Nat
      /\ taken[c] \in Nat /\ Len(stream[c]) \in Nat
      /\ peer[c] \in {"open", "gone", "dropped"}
      /\ peer \in [Client -> {"new", "open", "gone", "dropped"}]
      /\ outbox \in [Client -> Seq(Response)]
      /\ taken \in [Client -> Nat]
  BY DEF NetTypes
<1>2. \A d \in Client : State(d)' = State(d) /\ Len(stream[d])' = Len(stream[d])
  BY DEF State
<1>3. CASE peer[c] = "open"
  <2>1. /\ outbox' = [outbox EXCEPT ![c] = @ \o Exch!NextReplies(c, k)]
        /\ k = 0 => outbox' = outbox
    BY <1>3, SeenReplies
  <2>3. Exch!Serve(c, k, take)
    BY <1>2, <1>3, <2>1 DEF Exch!Serve, State
  <2>4. CASE k > 0
    <3>1. k \in 1..Exch!Due(c)
      BY <1>1, <1>3, <2>4 DEF Exch!Due
    <3>2. Exch!Reply(c)
      BY <2>3, <3>1 DEF Exch!Reply
    <3>3. QED
      BY <3>2 DEF Exch!Next
  <2>5. CASE k = 0 /\ take = 1
    BY <2>3, <2>5 DEF Exch!Next
  <2>6. CASE k = 0 /\ take = 0
    <3>1. taken' = taken
      BY <1>1, <2>6
    <3>2. QED
      BY <2>1, <2>6, <3>1, SeenAsNothing
  <2>7. QED
    BY <1>1, <2>4, <2>5, <2>6
<1>4. CASE peer[c] # "open"
  <2>1. outbox' = outbox
    BY <1>1, <1>4 DEF Deliver
  <2>2. CASE take = 0
    <3>1. taken' = taken
      BY <1>1, <2>2
    <3>2. QED
      BY <2>1, <3>1, SeenAsNothing
  <2>3. CASE take = 1
    <3>1. Exch!TakeLate(c)
      <4>1. State(c) = "over"
        BY <1>1, <1>4 DEF State
      <4>2. QED
        BY <1>1, <1>2, <2>1, <2>3, <4>1 DEF Exch!TakeLate
    <3>2. QED
      BY <3>1 DEF Exch!Next
  <2>4. QED
    BY <2>2, <2>3
<1>5. QED
  BY <1>3, <1>4
-----------------------------------------------------------------------------
(* What the clients see of each step of the specification.                 *)

\* A visit that takes no request.
LEMMA SeenFlush ==
  ASSUME NetTypes, TakenWasSent, NEW id \in DOMAIN conns, Accounted(id), NEW k,
         Flush(id, k),
         UNCHANGED <<peer, stream, taken>>
  PROVE  [Exch!Next]_(Exch!vars)
<1> DEFINE c == conns[id].client
           rs == conns[id].wbuf
<1>1. /\ c \in Client /\ rs \in Seq(Response) /\ conns[id].inflight \in Nat
      /\ taken \in [Client -> Nat] /\ outbox[c] \in Seq(Response)
      /\ k \in Accepts(Len(rs)) /\ Deliver(c, rs, k)
  BY DEF NetTypes, Accounted, Conn, Flush
<1>2. k \in 0..Len(rs) /\ Len(rs) \in Nat
  <2>1. Len(rs) \in Nat
    BY <1>1
  <2>2. QED
    BY <1>1, <2>1, AcceptsBounds
<1>3. /\ peer[c] # "new"
      /\ peer[c] = "open" => /\ Continues(rs, c, Len(outbox[c]))
                             /\ Len(outbox[c]) + Len(rs) + conns[id].inflight = taken[c]
  BY <1>1 DEF Accounted
<1> HIDE DEF c, rs
<1>4. Len(outbox[c]) \in Nat /\ taken[c] \in Nat /\ taken[c] + 0 = taken[c]
  BY <1>1
<1>5. peer[c] = "open" => Len(outbox[c]) + k <= taken[c]
  BY <1>1, <1>2, <1>3, <1>4
<1>6. PICK take \in 0..1 : take = 0
  OBVIOUS
<1>7. /\ taken' = [taken EXCEPT ![c] = @ + take]
      /\ taken[c] + take <= Len(stream[c])
  BY <1>1, <1>4, <1>6 DEF TakenWasSent
<1>8. QED
  BY <1>1, <1>2, <1>3, <1>4, <1>5, <1>6, <1>7, SeenAsServing

\* A visit that takes a request.
LEMMA SeenNewRequest ==
  ASSUME NetTypes, TakenWasSent, NEW id \in DOMAIN conns, Accounted(id), NEW k,
         TakeRequest(id, k)
  PROVE  [Exch!Next]_(Exch!vars)
<1> DEFINE c == conns[id].client
           rs == conns[id].wbuf
<1>1. /\ c \in Client /\ rs \in Seq(Response) /\ conns[id].inflight \in Nat
      /\ taken \in [Client -> Nat] /\ outbox[c] \in Seq(Response)
      /\ stream[c] \in Seq(Kinds)
      /\ k \in Accepts(Len(rs)) /\ Deliver(c, rs, k)
      /\ taken' = [taken EXCEPT ![c] = @ + 1] /\ taken[c] < Len(stream[c])
      /\ UNCHANGED <<peer, stream>>
  BY DEF NetTypes, Accounted, Conn, TakeRequest, FlushAll, Flush, Unread
<1>2. k \in 0..Len(rs) /\ Len(rs) \in Nat
  <2>1. Len(rs) \in Nat
    BY <1>1
  <2>2. QED
    BY <1>1, <2>1, AcceptsBounds
<1>3. /\ peer[c] # "new"
      /\ peer[c] = "open" => /\ Continues(rs, c, Len(outbox[c]))
                             /\ Len(outbox[c]) + Len(rs) + conns[id].inflight = taken[c]
  BY <1>1 DEF Accounted
<1> HIDE DEF c, rs
<1>4. Len(outbox[c]) \in Nat /\ taken[c] \in Nat /\ Len(stream[c]) \in Nat
  BY <1>1
<1>5. peer[c] = "open" => Len(outbox[c]) + k <= taken[c]
  BY <1>1, <1>2, <1>3, <1>4
<1>6. PICK take \in 0..1 : take = 1
  OBVIOUS
<1>7. /\ taken' = [taken EXCEPT ![c] = @ + take]
      /\ taken[c] + take <= Len(stream[c])
  BY <1>1, <1>4, <1>6
<1>8. QED
  BY <1>1, <1>2, <1>3, <1>5, <1>7, SeenAsServing

\* An answer of the application.
LEMMA SeenReply ==
  ASSUME ServerInv, Reply
  PROVE  [Exch!Next]_(Exch!vars)
<1>1. TypeOK /\ IInv /\ TakenWasSent /\ NetTypes
  BY ServerAccounted DEF ServerInv, IInv
<1>2. ASSUME NEW o \in owed, NEW k, WriteTo(o, k), Expects(o.conn)
      PROVE  [Exch!Next]_(Exch!vars)
  <2>1. o.conn \in DOMAIN conns
    BY <1>2 DEF Expects
  <2>2. /\ MeetsSocket(o.conn)
        /\ UNCHANGED <<peer, stream, taken>>
    BY <1>1, <1>2, WriteToMeets DEF WriteTo
  <2>3. PICK rs \in Seq(Response) :
          \E j \in 0..Len(rs), conn \in Conn : Exchange(o.conn, rs, j, conn)
    BY <2>2 DEF MeetsSocket
  <2>4. PICK j \in 0..Len(rs), conn \in Conn : Exchange(o.conn, rs, j, conn)
    BY <2>3
  <2>5. PICK c : c = conns[o.conn].client
    OBVIOUS
  <2>6. /\ ConnOK(o.conn) /\ c \in Client
        /\ outbox[c] \in Seq(Response) /\ taken \in [Client -> Nat]
        /\ stream[c] \in Seq(Kinds)
    BY <1>1, <2>1, <2>5 DEF IInv, Coherent, TypeOK, Conn
  <2>7. /\ Deliver(c, rs, j)
        /\ peer[c] = "open" => /\ Continues(rs, c, Len(outbox[c]))
                               /\ Len(outbox[c]) + Len(rs) + conn.inflight = taken[c]
    BY <2>2, <2>4, <2>5 DEF Exchange
  <2>8. peer[c] # "new"
    BY <2>5, <2>6 DEF ConnOK
  <2>9. /\ Len(outbox[c]) \in Nat /\ Len(rs) \in Nat /\ j \in Nat /\ j <= Len(rs)
        /\ conn.inflight \in Nat /\ taken[c] \in Nat /\ Len(stream[c]) \in Nat
    BY <2>6 DEF Conn
  <2>10. peer[c] = "open" => Len(outbox[c]) + j <= taken[c]
    BY <2>7, <2>9
  <2>11. PICK take \in 0..1 : take = 0
    OBVIOUS
  <2>12. /\ taken' = [taken EXCEPT ![c] = @ + take]
         /\ taken[c] + take <= Len(stream[c])
    BY <1>1, <2>2, <2>6, <2>9, <2>11 DEF TakenWasSent
  <2>13. QED
    BY <1>1, <2>2, <2>6, <2>7, <2>8, <2>10, <2>12, SeenAsServing
<1>3. ASSUME NEW o \in owed, NEW k, WriteTo(o, k), ~Expects(o.conn)
      PROVE  [Exch!Next]_(Exch!vars)
  BY <1>3, SeenAsNothing DEF WriteTo
<1>4. ASSUME NEW o \in owed, WriteFails(o)
      PROVE  [Exch!Next]_(Exch!vars)
  BY <1>4, SeenAsNothing DEF WriteFails, netVars
<1>5. QED
  BY <1>2, <1>3, <1>4 DEF Reply

\* The clients' own steps.
LEMMA SeenConnect ==
  ASSUME NetTypes, NEW c \in Client, Connect(c)
  PROVE  Exch!Next
<1>1. /\ peer[c] = "new" /\ peer' = [peer EXCEPT ![c] = "open"]
      /\ UNCHANGED <<stream, taken, outbox>>
      /\ peer \in [Client -> {"new", "open", "gone", "dropped"}]
  BY DEF Connect, NetTypes
<1>2. /\ State(c) = "new" /\ State(c)' = "open"
      /\ \A d \in Client \ {c} : State(d)' = State(d)
  BY <1>1 DEF State
<1>3. Exch!Open(c)
  BY <1>1, <1>2 DEF Exch!Open
<1>4. QED
  BY <1>3 DEF Exch!Next

LEMMA SeenHangUp ==
  ASSUME NetTypes, NEW c \in Client, HangUp(c)
  PROVE  Exch!Next
<1>1. /\ peer[c] = "open" /\ peer' = [peer EXCEPT ![c] = "gone"]
      /\ UNCHANGED <<stream, taken, outbox>>
      /\ peer \in [Client -> {"new", "open", "gone", "dropped"}]
  BY DEF HangUp, NetTypes
<1>2. /\ {c} \in SUBSET Client
      /\ \A d \in {c} : peer[d] = "open" /\ peer'[d] \in {"gone", "dropped"}
      /\ \A d \in Client \ {c} : peer'[d] = peer[d]
  BY <1>1
<1>3. QED
  BY <1>1, <1>2, SeenAsEnd

LEMMA SeenSend ==
  ASSUME NetTypes, NEW c \in Client, NEW kind \in Kinds, Send(c, kind)
  PROVE  Exch!Next
<1>1. /\ peer[c] = "open" /\ stream' = [stream EXCEPT ![c] = Append(@, kind)]
      /\ UNCHANGED <<peer, taken, outbox>>
      /\ stream \in [Client -> Seq(Kinds)]
  BY DEF Send, NetTypes
<1>2. /\ Len(stream'[c]) = Len(stream[c]) + 1
      /\ \A d \in Client \ {c} : Len(stream'[d]) = Len(stream[d])
  <2>1. stream[c] \in Seq(Kinds)
    BY <1>1
  <2>2. QED
    BY <1>1, <2>1
<1>3. Exch!Ask(c)
  BY <1>1, <1>2 DEF Exch!Ask, State
<1>4. QED
  BY <1>3 DEF Exch!Next

\* The steps of a tick.
LEMMA SeenTick ==
  ASSUME ServerInv, Tick
  PROVE  [Exch!Next]_(Exch!vars)
<1>1. /\ peer \in [Client -> {"new", "open", "gone", "dropped"}]
      /\ NetTypes /\ TakenWasSent /\ \A id \in DOMAIN conns : Accounted(id)
  BY ServerAccounted DEF NetTypes
<1>2. CASE AcceptConn \/ AcceptError \/ AcceptDone \/ EndTick
  BY <1>2, SeenAsNothing DEF AcceptConn, AcceptError, AcceptDone, EndTick, netVars
<1>3. CASE AcceptFails
  BY <1>1, <1>3, SeenDropping DEF AcceptFails
<1>4. CASE EndRead("tick")
  BY <1>1, <1>4, SeenDropping DEF EndRead, RemoveConns
<1>5. ASSUME NEW id \in DOMAIN conns, Read(id)
      PROVE  [Exch!Next]_(Exch!vars)
  <2>1. CASE FlushFails(id)
    BY <2>1, SeenAsNothing DEF FlushFails, netVars
  <2>2. ASSUME NEW k, NoRequest(id, k) \/ ReadFails(id, k) \/ FlushBlocks(id, k)
        PROVE  [Exch!Next]_(Exch!vars)
    BY <1>1, <2>2, SeenFlush DEF NoRequest, ReadFails, FlushAll, FlushBlocks
  <2>3. ASSUME NEW k, NEW is_close, NewRequest(id, k, is_close)
        PROVE  [Exch!Next]_(Exch!vars)
    BY <1>1, <2>3, SeenNewRequest DEF NewRequest
  <2>4. QED
    BY <1>5, <2>1, <2>2, <2>3 DEF Read
<1>6. QED
  BY <1>2, <1>3, <1>4, <1>5 DEF Tick, Accept

\* What the application does to the connections.
LEMMA SeenManage ==
  ASSUME ServerInv, Manage
  PROVE  [Exch!Next]_(Exch!vars)
<1>1. /\ peer \in [Client -> {"new", "open", "gone", "dropped"}]
      /\ NetTypes /\ TakenWasSent /\ \A id \in DOMAIN conns : Accounted(id)
  BY ServerAccounted DEF NetTypes
<1>2. ASSUME NEW id \in DOMAIN conns, CloseConn(id)
      PROVE  [Exch!Next]_(Exch!vars)
  BY <1>2, SeenAsNothing DEF CloseConn, netVars
<1>3. ASSUME NEW id \in DOMAIN conns, RemoveConn(id)
      PROVE  [Exch!Next]_(Exch!vars)
  BY <1>1, <1>3, SeenDropping DEF RemoveConn, RemoveConns
<1>4. QED
  BY <1>2, <1>3 DEF Manage

\* The server implements the exchange of requests and responses: with the
\* ids, counts and buffers hidden, every step is one of Exchange or cannot
\* be seen.
THEOREM Implementation == Spec => ImplementsExchange
<1>1. Init => Exch!Init
  BY DEF Init, ServerInit, Exch!Init, State
<1>2. ServerInv /\ [Next]_vars => [Exch!Next]_(Exch!vars)
  <2> SUFFICES ASSUME ServerInv, [Next]_vars
               PROVE  [Exch!Next]_(Exch!vars)
    OBVIOUS
  <2>1. CASE UNCHANGED vars
    BY <2>1, SeenAsNothing DEF vars, netVars
  <2>2. CASE Peers
    BY <2>2, ServerAccounted, SeenConnect, SeenHangUp, SeenSend DEF Peers
  <2>3. QED
    BY <2>1, <2>2, SeenTick, SeenReply, SeenManage DEF Next
<1>3. QED
  BY <1>1, <1>2, ServerInvariance, PTL DEF Spec, ImplementsExchange, Exch!Spec
=============================================================================
