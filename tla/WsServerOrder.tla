---------------------------- MODULE WsServerOrder ----------------------------
(***************************************************************************)
(* Proof, for any clients and number of requests, that the clients of the  *)
(* server for both protocols receive the responses to their own requests   *)
(* in order, the answers to handshakes among them, if no client asks for   *)
(* an upgrade before it has the answers to its earlier requests.           *)
(*                                                                         *)
(* As for the HttpServer, what a client has got, what waits in the write   *)
(* buffer and what is in flight are together what was taken.  But not      *)
(* every request in flight is owed by the application: a handshake waits   *)
(* for transform_conns, and a malformed one is never answered.  Either is  *)
(* the last request that is taken on its connection.                       *)
(***************************************************************************)
EXTENDS WsServerProofs

Owes(id, n) == \E o \in owed : o.conn = id /\ o.n = n

\* Nothing more is taken on the connection.
Ending(id) == conns[id].closed \/ \E i \in DOMAIN pending : pending[i].conn = id

\* While its client is there, every answer is in the client's hands or in
\* the buffer, in order, and the others are owed, but for the last.
AnswersOK(id) ==
  LET conn == conns[id]
      c    == conns[id].client
  IN  /\ conn.inflight <= taken[c]
      /\ peer[c] = "open" =>
           /\ Len(outbox[c]) + Len(conn.wbuf) + conn.inflight = taken[c]
           /\ Continues(conn.wbuf, c, Len(outbox[c]))
           /\ \A n \in (taken[c] - conn.inflight + 1)..taken[c] :
                Owes(id, n) \/ (n = taken[c] /\ Ending(id))

Owing ==
  /\ FreshOK
  /\ \A id \in DOMAIN conns : AnswersOK(id)
  /\ \A o \in owed : OwedOK(o)

\* A client that asked for an upgrade had the answers to all it had sent.
Patient ==
  \A c \in Client : \A n \in DOMAIN stream[c] :
    stream[c][n] = "upgrade" => Len(outbox[c]) >= n - 1

Ordered == Owing /\ Patient /\ ResponsesInOrder

OrderInv == WsInv /\ Leaving /\ TakenWasSent /\ (~Pipelines => Ordered)

-----------------------------------------------------------------------------
(* Parts of a step.                                                        *)

LEMMA OrderParts ==
  ASSUME WsInv
  PROVE  /\ outbox \in [Client -> Seq(Response)] /\ taken \in [Client -> Nat]
         /\ \A id \in DOMAIN conns :
              /\ conns[id] \in Conn /\ conns[id].client \in Client
              /\ conns[id].wbuf \in Seq(Response) /\ conns[id].inflight \in Nat
         /\ \A i \in DOMAIN backlog : backlog[i] \in Client
         /\ \A i, j \in DOMAIN conns : conns[i].client = conns[j].client => i = j
         /\ \A id \in DOMAIN conns : peer[conns[id].client] # "new"
         /\ \A i \in DOMAIN backlog, id \in DOMAIN conns : backlog[i] # conns[id].client
         /\ \A o \in owed : o \in Owed
<1>1. WsTypeOK /\ Homes
  BY WsParts
<1>2. \A c \in Conn : c.client \in Client /\ c.wbuf \in Seq(Response) /\ c.inflight \in Nat
  BY DEF Conn
<1>3. \A i \in DOMAIN backlog : backlog[i] \in Client
  BY <1>1 DEF WsTypeOK
<1>4. \A id \in DOMAIN conns : conns[id] \in Conn
  BY <1>1 DEF WsTypeOK
<1>5. outbox \in [Client -> Seq(Response)] /\ taken \in [Client -> Nat] /\ \A o \in owed : o \in Owed
  BY <1>1 DEF WsTypeOK
<1>6. QED
  BY <1>1, <1>2, <1>3, <1>4, <1>5 DEF Homes, OneConnPerClient

\* A step that takes and answers nothing on the connections that stay.
LEMMA OwingFrame ==
  ASSUME WsInv, Owing,
         DOMAIN conns' \subseteq DOMAIN conns,
         \A id \in DOMAIN conns' :
           /\ conns'[id].client = conns[id].client
           /\ conns'[id].inflight = conns[id].inflight
           /\ conns'[id].wbuf = conns[id].wbuf
           /\ taken'[conns[id].client] = taken[conns[id].client]
           /\ outbox'[conns[id].client] = outbox[conns[id].client]
           /\ Ending(id) => Ending(id)',
         \A o \in owed' : o \in owed,
         \A o \in owed \ owed' :
           o.conn \in DOMAIN conns' => \/ conns[o.conn].inflight = 0
                                       \/ peer[conns[o.conn].client] # "open",
         \A c \in Client : peer'[c] = "open" => peer[c] = "open",
         \A c \in Client : peer'[c] = "new" <=> peer[c] = "new",
         \A i \in DOMAIN backlog' : \E j \in DOMAIN backlog : backlog'[i] = backlog[j],
         \A c \in Client :
           (peer[c] = "new" \/ \E i \in DOMAIN backlog : backlog[i] = c)
             => taken'[c] = taken[c] /\ outbox'[c] = outbox[c],
         conn_seq' = conn_seq
  PROVE  Owing'
<1>1. FreshOK'
  <2>1. \A i \in DOMAIN backlog : backlog[i] \in Client
    BY OrderParts
  <2>2. FreshOK
    BY DEF Owing
  <2>3. ASSUME NEW c \in Client, peer'[c] = "new"
        PROVE  taken'[c] = 0 /\ outbox'[c] = <<>>
    BY <2>2, <2>3 DEF FreshOK
  <2>4. ASSUME NEW i \in DOMAIN backlog'
        PROVE  peer'[backlog'[i]] # "new" /\ taken'[backlog'[i]] = 0 /\ outbox'[backlog'[i]] = <<>>
    <3>1. PICK j \in DOMAIN backlog : backlog'[i] = backlog[j]
      OBVIOUS
    <3>2. /\ backlog[j] \in Client /\ peer[backlog[j]] # "new"
          /\ taken[backlog[j]] = 0 /\ outbox[backlog[j]] = <<>>
      BY <2>1, <2>2 DEF FreshOK
    <3>3. QED
      BY <3>1, <3>2
  <2>5. QED
    BY <2>3, <2>4 DEF FreshOK
<1>2. ASSUME NEW id \in DOMAIN conns'
      PROVE  AnswersOK(id)'
  <2> DEFINE c == conns[id].client
  <2>1. /\ id \in DOMAIN conns /\ c \in Client /\ conns[id].inflight \in Nat /\ taken[c] \in Nat
        /\ AnswersOK(id)
    BY OrderParts DEF Owing
  <2>2. /\ conns'[id].client = c /\ conns'[id].inflight = conns[id].inflight
        /\ conns'[id].wbuf = conns[id].wbuf /\ taken'[c] = taken[c] /\ outbox'[c] = outbox[c]
        /\ Ending(id) => Ending(id)'
    OBVIOUS
  <2>3. ASSUME peer'[c] = "open", NEW n \in (taken[c] - conns[id].inflight + 1)..taken[c]
        PROVE  Owes(id, n)' \/ (n = taken[c] /\ Ending(id)')
    <3>1. peer[c] = "open" /\ conns[id].inflight # 0
      BY <2>1, <2>3
    <3>2. Owes(id, n) => Owes(id, n)'
      BY <3>1 DEF Owes
    <3>3. QED
      BY <2>1, <2>2, <2>3, <3>1, <3>2 DEF AnswersOK
  <2>4. conns[id].inflight <= taken[c]
    BY <2>1 DEF AnswersOK
  <2>5. peer'[c] = "open" => /\ Len(outbox[c]) + Len(conns[id].wbuf) + conns[id].inflight = taken[c]
                             /\ Continues(conns[id].wbuf, c, Len(outbox[c]))
    BY <2>1 DEF AnswersOK
  <2> HIDE DEF c
  <2>6. QED
    BY <2>2, <2>3, <2>4, <2>5 DEF AnswersOK, Continues
<1>3. ASSUME NEW o \in owed'
      PROVE  OwedOK(o)'
  <2>1. OwedOK(o)
    BY DEF Owing
  <2>2. QED
    BY <2>1 DEF OwedOK
<1>4. QED
  BY <1>1, <1>2, <1>3 DEF Owing

\* A step in which a connection meets its socket: of the responses rs due
\* next, k leave and the rest is the new buffer.
Meeting(id, c, rs, k, conn) ==
  /\ Deliver(c, rs, k)
  /\ conn.client = c
  /\ conn.wbuf = Unsent(rs, k)
  /\ DOMAIN conns' = DOMAIN conns
  /\ conns'[id] = conn
  /\ \A j \in DOMAIN conns \ {id} : conns'[j] = conns[j]
  /\ UNCHANGED <<peer, backlog, conn_seq>>
  /\ taken' \in [Client -> Nat]
  /\ \A d \in Client \ {c} : taken'[d] = taken[d]
  /\ conn.inflight <= taken'[c]
  /\ peer[c] = "open" =>
       /\ Continues(rs, c, Len(outbox[c]))
       /\ Len(outbox[c]) + Len(rs) + conn.inflight = taken'[c]
       /\ \A n \in (taken'[c] - conn.inflight + 1)..taken'[c] :
            Owes(id, n)' \/ (n = taken'[c] /\ Ending(id)')
  /\ \A o \in owed' : o.conn # id => o \in owed
  /\ \A o \in owed : o.conn # id => o \in owed'
  /\ \A o \in owed' : o.conn = id =>
       o.client = c /\ o.n <= taken'[c] /\ o.n > taken'[c] - conn.inflight
  /\ \A i \in DOMAIN pending : i \in DOMAIN pending' /\ pending'[i] = pending[i]

LEMMA MeetOrder ==
  ASSUME WsInv, Owing, ResponsesInOrder,
         NEW id \in DOMAIN conns, NEW c, c = conns[id].client,
         NEW rs \in Seq(Response), NEW k \in 0..Len(rs), NEW conn \in Conn,
         Meeting(id, c, rs, k, conn)
  PROVE  /\ Owing' /\ ResponsesInOrder'
         /\ \A d \in Client : Len(outbox'[d]) >= Len(outbox[d])
<1>0. /\ Deliver(c, rs, k)
      /\ conn.client = c
      /\ conn.wbuf = Unsent(rs, k)
      /\ DOMAIN conns' = DOMAIN conns
      /\ conns'[id] = conn
      /\ \A j \in DOMAIN conns \ {id} : conns'[j] = conns[j]
      /\ UNCHANGED <<peer, backlog, conn_seq>>
      /\ taken' \in [Client -> Nat]
      /\ \A d \in Client \ {c} : taken'[d] = taken[d]
      /\ conn.inflight <= taken'[c]
      /\ peer[c] = "open" =>
           /\ Continues(rs, c, Len(outbox[c]))
           /\ Len(outbox[c]) + Len(rs) + conn.inflight = taken'[c]
           /\ \A n \in (taken'[c] - conn.inflight + 1)..taken'[c] :
                Owes(id, n)' \/ (n = taken'[c] /\ Ending(id)')
      /\ \A o \in owed' : o.conn # id => o \in owed
      /\ \A o \in owed : o.conn # id => o \in owed'
      /\ \A o \in owed' : o.conn = id =>
           o.client = c /\ o.n <= taken'[c] /\ o.n > taken'[c] - conn.inflight
      /\ \A i \in DOMAIN pending : i \in DOMAIN pending' /\ pending'[i] = pending[i]
  BY DEF Meeting
<1> USE <1>0
<1>1. /\ outbox \in [Client -> Seq(Response)] /\ taken \in [Client -> Nat] /\ c \in Client
      /\ \A j \in DOMAIN conns : conns[j].client \in Client
      /\ \A j \in DOMAIN conns \ {id} : conns[j].client # c
      /\ \A i \in DOMAIN backlog : backlog[i] \in Client /\ backlog[i] # c
      /\ peer[c] # "new"
  BY OrderParts
<1>2. FreshOK /\ (\A j \in DOMAIN conns : AnswersOK(j)) /\ \A o \in owed : OwedOK(o)
  BY DEF Owing
<1>3. /\ outbox' \in [Client -> Seq(Response)]
      /\ ResponsesInOrder'
      /\ \A d \in Client \ {c} : outbox'[d] = outbox[d]
      /\ peer[c] # "open" => outbox' = outbox
      /\ peer[c] = "open" => /\ Len(outbox'[c]) = Len(outbox[c]) + k
                             /\ Continues(Unsent(rs, k), c, Len(outbox'[c]))
  BY <1>1, DeliverProperties
<1>4. Len(Unsent(rs, k)) = Len(rs) - k /\ Len(rs) \in Nat /\ k \in Nat
  BY UnsentProperties
<1>5. FreshOK'
  BY <1>1, <1>2, <1>3 DEF FreshOK
<1>6. ASSUME NEW j \in DOMAIN conns', j # id
      PROVE  AnswersOK(j)'
  <2> DEFINE d == conns[j].client
  <2>1. d \in Client \ {c} /\ conns'[j] = conns[j] /\ peer' = peer
    BY <1>1, <1>6
  <2>2. taken'[d] = taken[d] /\ outbox'[d] = outbox[d] /\ AnswersOK(j)
    BY <1>2, <1>3, <1>6, <2>1
  <2>3. Ending(j) => Ending(j)'
    BY <2>1 DEF Ending
  <2>4. \A n : Owes(j, n) => Owes(j, n)'
    BY <1>6 DEF Owes
  <2>5. conns[j].inflight <= taken[d]
    BY <2>2 DEF AnswersOK
  <2>6. peer[d] = "open" =>
          /\ Len(outbox[d]) + Len(conns[j].wbuf) + conns[j].inflight = taken[d]
          /\ Continues(conns[j].wbuf, d, Len(outbox[d]))
          /\ \A n \in (taken[d] - conns[j].inflight + 1)..taken[d] :
               Owes(j, n)' \/ (n = taken[d] /\ Ending(j)')
    BY <2>2, <2>3, <2>4 DEF AnswersOK
  <2>7. conns'[j].client = d
    BY <2>1
  <2> HIDE DEF d
  <2>8. QED
    BY <2>1, <2>2, <2>5, <2>6, <2>7 DEF AnswersOK, Continues
<1>7. AnswersOK(id)'
  <2>1. CASE peer[c] # "open"
    BY <2>1 DEF AnswersOK
  <2>2. CASE peer[c] = "open"
    <3>1. Len(outbox[c]) \in Nat /\ taken'[c] \in Nat /\ conn.inflight \in Nat
      BY <1>1 DEF Conn
    <3>2. Len(outbox'[c]) + Len(conn.wbuf) + conn.inflight = taken'[c]
      <4>1. Len(outbox[c]) + Len(rs) + conn.inflight = taken'[c]
        BY <2>2
      <4>2. Len(outbox'[c]) = Len(outbox[c]) + k /\ Len(conn.wbuf) = Len(rs) - k
        BY <1>3, <1>4, <2>2
      <4>3. QED
        BY <1>4, <3>1, <4>1, <4>2
    <3>3. Continues(conn.wbuf, c, Len(outbox'[c]))
      BY <1>3, <2>2
    <3>4. QED
      BY <2>2, <3>2, <3>3 DEF AnswersOK, Continues
  <2>3. QED
    BY <2>1, <2>2
<1>8. ASSUME NEW o \in owed'
      PROVE  OwedOK(o)'
  <2>1. CASE o.conn = id
    <3>1. id < conn_seq
      BY WsParts DEF WsTypeOK
    <3>2. QED
      BY <2>1, <3>1 DEF OwedOK
  <2>2. CASE o.conn # id
    <3>1. OwedOK(o)
      BY <1>2, <2>2
    <3>2. o.conn \in DOMAIN conns =>
            /\ conns'[o.conn] = conns[o.conn]
            /\ taken'[conns[o.conn].client] = taken[conns[o.conn].client]
      BY <1>1, <2>2
    <3>3. QED
      BY <2>2, <3>1, <3>2 DEF OwedOK
  <2>3. QED
    BY <2>1, <2>2
<1>9. \A d \in Client : Len(outbox'[d]) >= Len(outbox[d])
  <2>1. \A d \in Client : Len(outbox[d]) \in Nat
    BY <1>1
  <2>2. Len(outbox'[c]) >= Len(outbox[c])
    <3>1. CASE peer[c] # "open"
      BY <1>1, <1>3, <2>1, <3>1
    <3>2. CASE peer[c] = "open"
      <4>1. Len(outbox'[c]) = Len(outbox[c]) + k
        BY <1>3, <3>2
      <4>2. QED
        BY <1>1, <1>4, <2>1, <4>1
    <3>3. QED
      BY <3>1, <3>2
  <2>3. \A d \in Client \ {c} : Len(outbox'[d]) >= Len(outbox[d])
    BY <1>3, <2>1
  <2>4. QED
    BY <2>2, <2>3
<1>10. QED
  BY <1>3, <1>5, <1>6, <1>7, <1>8, <1>9 DEF Owing

LEMMA PatientFrame ==
  ASSUME WsInv, Patient, stream' = stream,
         outbox' \in [Client -> Seq(Response)],
         \A c \in Client : Len(outbox'[c]) >= Len(outbox[c])
  PROVE  Patient'
<1> SUFFICES ASSUME NEW c \in Client, NEW n \in DOMAIN stream[c], stream[c][n] = "upgrade"
             PROVE  Len(outbox'[c]) >= n - 1
  BY DEF Patient
<1>1. stream[c] \in Seq(Kinds) /\ outbox[c] \in Seq(Response) /\ outbox'[c] \in Seq(Response)
  BY OrderParts, WsParts DEF WsTypeOK
<1>2. Len(outbox[c]) \in Nat /\ Len(outbox'[c]) \in Nat /\ n \in Nat
  BY <1>1
<1>3. Len(outbox[c]) >= n - 1
  BY DEF Patient
<1>4. Len(outbox'[c]) >= Len(outbox[c])
  OBVIOUS
<1>5. QED
  BY <1>2, <1>3, <1>4

\* Nothing is sent to a client or read from one with an HTTP connection.
LEMMA QuietOrder ==
  ASSUME WsInv, Ordered,
         UNCHANGED <<stream, outbox, conn_seq>>,
         DOMAIN conns' \subseteq DOMAIN conns,
         \A id \in DOMAIN conns' :
           /\ conns'[id].client = conns[id].client
           /\ conns'[id].inflight = conns[id].inflight
           /\ conns'[id].wbuf = conns[id].wbuf
           /\ taken'[conns[id].client] = taken[conns[id].client]
           /\ Ending(id) => Ending(id)',
         \A o \in owed' : o \in owed,
         \A o \in owed \ owed' :
           o.conn \in DOMAIN conns' => \/ conns[o.conn].inflight = 0
                                       \/ peer[conns[o.conn].client] # "open",
         \A c \in Client : peer'[c] = "open" => peer[c] = "open",
         \A c \in Client : peer'[c] = "new" <=> peer[c] = "new",
         \A i \in DOMAIN backlog' : \E j \in DOMAIN backlog : backlog'[i] = backlog[j],
         \A c \in Client :
           (peer[c] = "new" \/ \E i \in DOMAIN backlog : backlog[i] = c) => taken'[c] = taken[c]
  PROVE  Ordered'
<1>1. Owing /\ Patient /\ ResponsesInOrder
  BY DEF Ordered
<1>2. Owing'
  BY <1>1, OwingFrame
<1>3. Patient' /\ ResponsesInOrder'
  BY <1>1 DEF Patient, ResponsesInOrder
<1>4. QED
  BY <1>2, <1>3 DEF Ordered

\* Only the lists of the tick or the WebSocket connections change.
LEMMA StillOrder ==
  ASSUME WsInv, Ordered,
         UNCHANGED <<peer, backlog, stream, taken, outbox, conn_seq, conns, owed, pending>>
  PROVE  Ordered'
<1>1. \A id \in DOMAIN conns' : Ending(id) => Ending(id)'
  BY DEF Ending
<1>2. QED
  BY <1>1, QuietOrder

LEMMA DropsOrder ==
  ASSUME NEW S, peer' = Dropping(S)
  PROVE  \A c \in Client : /\ peer'[c] = "open" => peer[c] = "open"
                           /\ peer'[c] = "new" <=> peer[c] = "new"
BY DEF Dropping

\* Some connections are removed, and their handshakes with them.
LEMMA RemovalOrder ==
  ASSUME WsInv, Ordered, NEW S,
         conns' = Restrict(conns, DOMAIN conns \ S),
         \A c \in Client : peer'[c] = "open" => peer[c] = "open",
         \A c \in Client : peer'[c] = "new" <=> peer[c] = "new",
         \A id \in DOMAIN conns \ S :
           (\E i \in DOMAIN pending : pending[i].conn = id)
             => \E i \in DOMAIN pending' : pending'[i].conn = id,
         UNCHANGED <<stream, outbox, conn_seq, backlog, taken, owed>>
  PROVE  Ordered'
<1>1. /\ DOMAIN conns' = DOMAIN conns \ S
      /\ \A id \in DOMAIN conns' : conns'[id] = conns[id]
  BY DEF Restrict
<1>2. \A id \in DOMAIN conns' : Ending(id) => Ending(id)'
  BY <1>1 DEF Ending
<1>3. QED
  BY <1>1, <1>2, QuietOrder

-----------------------------------------------------------------------------
(* The clients.                                                            *)

LEMMA ConnectOrder ==
  ASSUME WsInv, Ordered, NEW c \in Client, Connect(c), UNCHANGED wsVars
  PROVE  Ordered'
<1>1. /\ peer[c] = "new" /\ peer' = [peer EXCEPT ![c] = "open"] /\ backlog' = Append(backlog, c)
      /\ UNCHANGED <<stream, taken, outbox, conn_seq, conns, owed, pending>>
  BY DEF Connect, connVars, wsVars
<1>2. /\ peer \in [Client -> {"new", "open", "gone", "dropped"}] /\ backlog \in Seq(Client)
  BY WsParts DEF WsTypeOK
<1>3. /\ FreshOK /\ (\A id \in DOMAIN conns : AnswersOK(id)) /\ (\A o \in owed : OwedOK(o))
      /\ Patient /\ ResponsesInOrder
  BY DEF Ordered, Owing
<1>4. \A i \in DOMAIN backlog' : backlog'[i] = c \/ \E j \in DOMAIN backlog : backlog'[i] = backlog[j]
  BY <1>1, <1>2
<1>5. taken[c] = 0 /\ outbox[c] = <<>> /\ peer'[c] = "open"
  BY <1>1, <1>2, <1>3 DEF FreshOK
<1>6. \A d \in Client \ {c} : peer'[d] = peer[d]
  BY <1>1, <1>2
<1>7. \A i \in DOMAIN backlog : backlog[i] \in Client
  BY OrderParts
<1>8. FreshOK'
  BY <1>1, <1>3, <1>4, <1>5, <1>6, <1>7 DEF FreshOK
<1>9. ASSUME NEW id \in DOMAIN conns'
      PROVE  AnswersOK(id)'
  <2>1. conns[id].client \in Client \ {c} /\ AnswersOK(id)
    BY <1>1, <1>3, OrderParts
  <2>2. peer'[conns[id].client] = peer[conns[id].client]
    BY <1>6, <2>1
  <2>3. QED
    BY <1>1, <2>1, <2>2 DEF AnswersOK, Continues, Owes, Ending
<1>10. \A o \in owed' : OwedOK(o)'
  BY <1>1, <1>3 DEF OwedOK
<1>11. Patient' /\ ResponsesInOrder'
  BY <1>1, <1>3 DEF Patient, ResponsesInOrder
<1>12. QED
  BY <1>8, <1>9, <1>10, <1>11 DEF Ordered, Owing

LEMMA HangUpOrder ==
  ASSUME WsInv, Ordered, NEW c \in Client, HangUp(c), UNCHANGED wsVars
  PROVE  Ordered'
<1>1. /\ peer[c] = "open" /\ peer' = [peer EXCEPT ![c] = "gone"]
      /\ UNCHANGED <<backlog, stream, taken, outbox, conn_seq, conns, owed, pending>>
  BY DEF HangUp, connVars, wsVars
<1>2. peer \in [Client -> {"new", "open", "gone", "dropped"}]
  BY WsParts DEF WsTypeOK
<1>3. \A d \in Client : /\ peer'[d] = "open" => peer[d] = "open"
                        /\ peer'[d] = "new" <=> peer[d] = "new"
  BY <1>1, <1>2
<1>4. \A id \in DOMAIN conns' : Ending(id) => Ending(id)'
  BY <1>1 DEF Ending
<1>5. QED
  BY <1>1, <1>3, <1>4, QuietOrder

\* A client that asks for an upgrade has the answers to what it has sent.
LEMMA SendOrder ==
  ASSUME ~Pipelines, WsInv, Ordered, NEW c \in Client, NEW kind \in Kinds, WsSend(c, kind)
  PROVE  Ordered'
<1>1. /\ stream' = [stream EXCEPT ![c] = Append(@, kind)]
      /\ kind = "upgrade" => Len(outbox[c]) = Len(stream[c])
      /\ UNCHANGED <<peer, backlog, taken, outbox, conn_seq, conns, owed, pending>>
  BY DEF WsSend, Send, connVars, wsVars
<1>2. stream \in [Client -> Seq(Kinds)] /\ stream[c] \in Seq(Kinds) /\ Len(stream[c]) \in Nat
  BY WsParts DEF WsTypeOK
<1>3. Owing /\ Patient /\ ResponsesInOrder
  BY DEF Ordered
<1>4. \A id \in DOMAIN conns' : Ending(id) => Ending(id)'
  BY <1>1 DEF Ending
<1>5. Owing'
  BY <1>1, <1>3, <1>4, OwingFrame
<1>6. Patient'
  <2> SUFFICES ASSUME NEW d \in Client, NEW n \in DOMAIN stream'[d], stream'[d][n] = "upgrade"
               PROVE  Len(outbox[d]) >= n - 1
    BY <1>1 DEF Patient
  <2>1. CASE n \in DOMAIN stream[d] /\ stream'[d][n] = stream[d][n]
    BY <1>3, <2>1 DEF Patient
  <2>2. CASE d = c /\ n = Len(stream[c]) + 1 /\ stream'[d][n] = kind
    BY <1>1, <1>2, <2>2
  <2>3. QED
    BY <1>1, <1>2, <2>1, <2>2
<1>7. ResponsesInOrder'
  BY <1>1, <1>3 DEF ResponsesInOrder
<1>8. QED
  BY <1>5, <1>6, <1>7 DEF Ordered

-----------------------------------------------------------------------------
(* tick_accept.                                                            *)

LEMMA AcceptConnOrder ==
  ASSUME WsInv, Ordered, AcceptConn, UNCHANGED wsVars
  PROVE  Ordered'
<1> DEFINE c  == Head(backlog)
           id == conn_seq
<1>1. /\ backlog # <<>> /\ backlog' = Tail(backlog)
      /\ conns' = [j \in DOMAIN conns \cup {id} |-> IF j = id THEN NewConn(c) ELSE conns[j]]
      /\ conn_seq' = id + 1
      /\ UNCHANGED <<peer, stream, taken, outbox, owed, pending>>
  BY DEF AcceptConn, AddConn, NextId, wsVars
<1>2. /\ FreshOK /\ (\A j \in DOMAIN conns : AnswersOK(j)) /\ (\A o \in owed : OwedOK(o))
      /\ Patient /\ ResponsesInOrder
  BY DEF Ordered, Owing
<1>3. backlog \in Seq(Client) /\ id \in Nat /\ DOMAIN conns \subseteq 0..(id - 1)
  BY WsParts DEF WsTypeOK
<1>4. /\ c \in Client /\ c = backlog[1] /\ 1 \in DOMAIN backlog
      /\ \A i \in DOMAIN backlog' : /\ i + 1 \in DOMAIN backlog
                                    /\ backlog'[i] = backlog[i + 1]
  BY <1>1, <1>3, TailProperties
<1>5. /\ id \notin DOMAIN conns /\ DOMAIN conns' = DOMAIN conns \cup {id}
      /\ \A j \in DOMAIN conns : conns'[j] = conns[j]
      /\ conns'[id].client = c /\ conns'[id].inflight = 0 /\ conns'[id].wbuf = <<>>
  BY <1>1, <1>3 DEF NewConn
<1>6. peer[c] # "new" /\ taken[c] = 0 /\ outbox[c] = <<>>
  BY <1>2, <1>4 DEF FreshOK
<1> HIDE DEF c
<1>7. FreshOK'
  BY <1>1, <1>2, <1>4 DEF FreshOK
<1>8. ASSUME NEW j \in DOMAIN conns'
      PROVE  AnswersOK(j)'
  <2>1. CASE j = id
    <3>1. Len(<<>>) = 0 /\ (0 - 0 + 1)..0 = {} /\ 1..0 = {}
      OBVIOUS
    <3>2. taken'[c] = 0 /\ outbox'[c] = <<>> /\ peer' = peer
      BY <1>1, <1>6
    <3>3. /\ conns'[j].client = c /\ conns'[j].inflight = 0 /\ conns'[j].wbuf = <<>>
          /\ Len(outbox'[c]) + Len(conns'[j].wbuf) + conns'[j].inflight = taken'[c]
      BY <1>5, <2>1, <3>1, <3>2
    <3>4. Continues(conns'[j].wbuf, c, Len(outbox'[c]))
      BY <3>1, <3>3 DEF Continues
    <3>5. \A n \in (taken'[c] - conns'[j].inflight + 1)..taken'[c] : FALSE
      BY <3>1, <3>2, <3>3
    <3>6. conns'[j].inflight <= taken'[c]
      BY <3>2, <3>3
    <3>7. QED
      BY <3>3, <3>4, <3>5, <3>6 DEF AnswersOK, Continues
  <2>2. CASE j # id
    <3>1. AnswersOK(j) /\ conns'[j] = conns[j]
      BY <1>2, <1>5, <2>2
    <3>2. QED
      BY <1>1, <3>1 DEF AnswersOK, Continues, Owes, Ending
  <2>3. QED
    BY <2>1, <2>2
<1>9. ASSUME NEW o \in owed'
      PROVE  OwedOK(o)'
  <2>1. OwedOK(o) /\ o \in Owed
    BY <1>1, <1>2, OrderParts
  <2>2. o.conn # id /\ o.conn < conn_seq'
    BY <1>1, <1>3, <2>1 DEF OwedOK, Owed
  <2>3. QED
    BY <1>1, <1>5, <2>1, <2>2 DEF OwedOK
<1>10. Patient' /\ ResponsesInOrder'
  BY <1>1, <1>2 DEF Patient, ResponsesInOrder
<1>11. QED
  BY <1>7, <1>8, <1>9, <1>10 DEF Ordered, Owing

LEMMA AcceptEndsOrder ==
  ASSUME WsInv, Ordered, AcceptFails \/ AcceptError \/ AcceptDone, UNCHANGED wsVars
  PROVE  Ordered'
<1>1. UNCHANGED <<stream, outbox, conn_seq, conns, taken, owed, pending>>
  BY DEF AcceptFails, AcceptError, AcceptDone, netVars, connVars, wsVars
<1>2. \A id \in DOMAIN conns' : Ending(id) => Ending(id)'
  BY <1>1 DEF Ending
<1>3. \A i \in DOMAIN backlog' : \E j \in DOMAIN backlog : backlog'[i] = backlog[j]
  <2>1. backlog \in Seq(Client)
    BY WsParts DEF WsTypeOK
  <2>2. CASE AcceptFails
    BY <2>1, <2>2, TailProperties DEF AcceptFails
  <2>3. CASE AcceptError \/ AcceptDone
    BY <2>3 DEF AcceptError, AcceptDone, netVars
  <2>4. QED
    BY <2>2, <2>3
<1>4. \A c \in Client : /\ peer'[c] = "open" => peer[c] = "open"
                        /\ peer'[c] = "new" <=> peer[c] = "new"
  BY DropsOrder DEF AcceptFails, AcceptError, AcceptDone, netVars
<1>5. QED
  BY <1>1, <1>2, <1>3, <1>4, QuietOrder

-----------------------------------------------------------------------------
(* tick_read of the HttpServer.                                            *)

\* A visit that takes no request.
LEMMA VisitOrder ==
  ASSUME WsInv, Ordered, NEW id \in DOMAIN conns, NEW k,
         NoRequest(id, k) \/ ReadFails(id, k) \/ FlushBlocks(id, k), UNCHANGED wsVars
  PROVE  Ordered'
<1> DEFINE old  == conns[id]
           c    == old.client
           rs   == old.wbuf
           conn == Flushed(old, k)
<1>1. /\ Flush(id, k) /\ conns' = [conns EXCEPT ![id] = conn]
      /\ UNCHANGED <<peer, backlog, stream, taken, conn_seq, owed, pending>>
  BY DEF NoRequest, ReadFails, FlushAll, FlushBlocks, wsVars
<1>2. /\ outbox \in [Client -> Seq(Response)] /\ taken \in [Client -> Nat]
      /\ old \in Conn /\ c \in Client /\ rs \in Seq(Response)
  BY OrderParts
<1>3. k \in Accepts(Len(rs)) /\ Deliver(c, rs, k)
  BY <1>1 DEF Flush
<1>4. k \in 0..Len(rs)
  BY <1>2, <1>3, AcceptsBounds
<1>5. conn \in Conn /\ conn.client = c /\ outbox' \in [Client -> Seq(Response)]
  BY <1>1, WsFlush
<1>6. conn.wbuf = Unsent(rs, k) /\ conn.inflight = old.inflight /\ conn.closed = old.closed
  BY <1>2 DEF Flushed, Conn
<1>7. Owing /\ Patient /\ ResponsesInOrder /\ AnswersOK(id) /\ \A o \in owed : OwedOK(o)
  BY DEF Ordered, Owing
<1> HIDE DEF conn
<1>8. /\ DOMAIN conns' = DOMAIN conns /\ conns'[id] = conn
      /\ \A j \in DOMAIN conns \ {id} : conns'[j] = conns[j]
  BY <1>1
<1>9. (Ending(id) => Ending(id)') /\ \A n : Owes(id, n) => Owes(id, n)'
  BY <1>1, <1>6, <1>8 DEF Ending, Owes
<1>10. conn.inflight <= taken'[c]
  BY <1>1, <1>6, <1>7 DEF AnswersOK
<1>11. peer[c] = "open" =>
         /\ Continues(rs, c, Len(outbox[c]))
         /\ Len(outbox[c]) + Len(rs) + conn.inflight = taken'[c]
         /\ \A n \in (taken'[c] - conn.inflight + 1)..taken'[c] :
              Owes(id, n)' \/ (n = taken'[c] /\ Ending(id)')
  <2>1. taken'[c] = taken[c]
    BY <1>1
  <2>2. QED
    BY <1>6, <1>7, <1>9, <2>1 DEF AnswersOK
<1>12. \A o \in owed' : o.conn = id =>
         o.client = c /\ o.n <= taken'[c] /\ o.n > taken'[c] - conn.inflight
  BY <1>1, <1>6, <1>7 DEF OwedOK
<1>13. Owing' /\ ResponsesInOrder' /\ \A d \in Client : Len(outbox'[d]) >= Len(outbox[d])
  <2>1. c = conns[id].client /\ Deliver(c, rs, k) /\ conn.client = c /\ conn.wbuf = Unsent(rs, k)
    BY <1>3, <1>5, <1>6
  <2>2. /\ taken' \in [Client -> Nat] /\ \A d \in Client \ {c} : taken'[d] = taken[d]
        /\ \A o \in owed' : o.conn # id => o \in owed
        /\ \A o \in owed : o.conn # id => o \in owed'
        /\ \A i \in DOMAIN pending : i \in DOMAIN pending' /\ pending'[i] = pending[i]
        /\ UNCHANGED <<peer, backlog, conn_seq>>
    BY <1>1, <1>2
  <2>3. rs \in Seq(Response) /\ k \in 0..Len(rs) /\ conn \in Conn /\ Owing /\ ResponsesInOrder
    BY <1>2, <1>4, <1>5, <1>7
  <2> HIDE DEF old, c, rs
  <2>4. QED
    <3>1. Meeting(id, c, rs, k, conn)
      BY <1>8, <1>10, <1>11, <1>12, <2>1, <2>2 DEF Meeting
    <3>2. QED
      BY <2>1, <2>3, <3>1, MeetOrder
<1>14. QED
  BY <1>1, <1>5, <1>7, <1>13, PatientFrame DEF Ordered

\* A visit that takes a request, which the application owes then; or it is a
\* handshake that is put aside, or one that is refused and closes.
LEMMA TakeOrder ==
  ASSUME WsInv, Ordered, NEW id \in DOMAIN conns, NEW k, NEW is_close \in BOOLEAN,
         \/ PassRequest(id, k, is_close)
         \/ TakeHandshake(id, k)
         \/ RefuseHandshake(id, k)
  PROVE  Ordered'
<1> DEFINE old == conns[id]
           c   == old.client
           rs  == old.wbuf
           t   == Ticket(id)
<1>1. /\ TakeRequest(id, k)
      /\ \/ conns' = [conns EXCEPT ![id] = TryClose(Took(@, k))]
         \/ conns' = [conns EXCEPT ![id] = Took(@, k)]
      /\ \/ owed' = owed \cup {t} /\ pending' = pending
         \/ owed' = owed /\ pending' = Append(pending, t)
         \/ /\ owed' = owed /\ pending' = pending
            /\ conns' = [conns EXCEPT ![id] = TryClose(Took(@, k))]
  BY DEF PassRequest, NewRequest, TakeHandshake, RefuseHandshake, wsVars
<1>2. /\ id \in todo /\ Flush(id, k)
      /\ taken' \in [Client -> Nat] /\ taken'[c] = taken[c] + 1
      /\ \A d \in Client \ {c} : taken'[d] = taken[d]
      /\ UNCHANGED <<peer, backlog, stream, conn_seq>>
  BY <1>1, WsTake
<1>3. /\ outbox \in [Client -> Seq(Response)] /\ taken \in [Client -> Nat]
      /\ old \in Conn /\ c \in Client /\ rs \in Seq(Response) /\ old.inflight \in Nat
      /\ \A o \in owed : o \in Owed
  BY OrderParts
<1>4. k \in Accepts(Len(rs)) /\ Deliver(c, rs, k)
  BY <1>2 DEF Flush
<1>5. k \in 0..Len(rs)
  BY <1>3, <1>4, AcceptsBounds
<1>6. /\ Took(old, k) \in Conn /\ Took(old, k).client = c
      /\ Took(old, k).inflight = old.inflight + 1
      /\ outbox' \in [Client -> Seq(Response)]
  BY <1>2, WsFlush
<1>7. Took(old, k).wbuf = Unsent(rs, k)
  BY <1>3 DEF Took, Flushed, Conn
<1>8. PICK conn \in Conn :
        /\ conn.client = c /\ conn.inflight = old.inflight + 1 /\ conn.wbuf = Unsent(rs, k)
        /\ conns' = [conns EXCEPT ![id] = conn]
        /\ conns' = [conns EXCEPT ![id] = TryClose(Took(@, k))] => conn.closed
  <2>1. /\ TryClose(Took(old, k)) \in Conn /\ TryClose(Took(old, k)).client = c
        /\ TryClose(Took(old, k)).inflight = old.inflight + 1
        /\ TryClose(Took(old, k)).wbuf = Unsent(rs, k)
        /\ TryClose(Took(old, k)).closed
    BY <1>6, <1>7 DEF TryClose, Conn
  <2>2. CASE conns' = [conns EXCEPT ![id] = TryClose(Took(@, k))]
    BY <2>1, <2>2
  <2>3. CASE conns' # [conns EXCEPT ![id] = TryClose(Took(@, k))]
    BY <1>1, <1>6, <1>7, <2>3
  <2>4. QED
    BY <2>2, <2>3
<1>9. /\ DOMAIN conns' = DOMAIN conns /\ conns'[id] = conn
      /\ \A j \in DOMAIN conns \ {id} : conns'[j] = conns[j]
  BY <1>8
<1>10. t.conn = id /\ t.client = c /\ t.n = taken[c] + 1
  BY DEF Ticket
<1>11. ~Ending(id)
  <2>1. ~old.closed
    BY <1>1 DEF TakeRequest, FlushAll, MayRead
  <2>2. \A i \in DOMAIN pending : pending[i].conn # id
    BY <1>2, WsParts DEF Handshakes, HandshakeOK
  <2>3. QED
    BY <2>1, <2>2 DEF Ending
<1>12. Owing /\ Patient /\ ResponsesInOrder /\ AnswersOK(id) /\ \A o \in owed : OwedOK(o)
  BY DEF Ordered, Owing
<1>13. pending \in Seq(Owed) /\ t \in Owed
  BY <1>1, WsParts, WsTake DEF WsTypeOK
<1> HIDE DEF t
<1> PICK m : m = taken[c] + 1
  OBVIOUS
<1>14. Owes(id, m)' \/ Ending(id)'
  <2>1. CASE owed' = owed \cup {t}
    BY <1>10, <2>1 DEF Owes
  <2>2. CASE pending' = Append(pending, t)
    <3>1. PICK i : i = Len(pending) + 1
      OBVIOUS
    <3>2. i \in DOMAIN pending' /\ pending'[i] = t
      BY <1>13, <2>2, <3>1
    <3>3. QED
      BY <1>10, <3>2 DEF Ending
  <2>3. CASE conns' = [conns EXCEPT ![id] = TryClose(Took(@, k))]
    BY <1>8, <1>9, <2>3 DEF Ending
  <2>4. QED
    BY <1>1, <2>1, <2>2, <2>3
<1>15. \A n : Owes(id, n) => Owes(id, n)'
  BY <1>1 DEF Owes
<1>16. conn.inflight <= taken'[c]
  <2>1. old.inflight <= taken[c] /\ taken[c] \in Nat
    BY <1>3, <1>12 DEF AnswersOK
  <2>2. QED
    BY <1>2, <1>3, <1>8, <2>1
<1>17. ASSUME peer[c] = "open"
       PROVE  /\ Continues(rs, c, Len(outbox[c]))
              /\ Len(outbox[c]) + Len(rs) + conn.inflight = taken'[c]
              /\ \A n \in (taken'[c] - conn.inflight + 1)..taken'[c] :
                   Owes(id, n)' \/ (n = taken'[c] /\ Ending(id)')
  <2>1. /\ Continues(rs, c, Len(outbox[c]))
        /\ Len(outbox[c]) + Len(rs) + old.inflight = taken[c]
        /\ \A n \in (taken[c] - old.inflight + 1)..taken[c] : Owes(id, n)
    BY <1>11, <1>12, <1>17 DEF AnswersOK
  <2>2. taken[c] \in Nat /\ Len(outbox[c]) \in Nat /\ Len(rs) \in Nat
    BY <1>3
  <2>3. Len(outbox[c]) + Len(rs) + conn.inflight = taken'[c]
    <3>1. /\ old.inflight \in Nat /\ conn.inflight = old.inflight + 1
          /\ taken'[c] = taken[c] + 1
          /\ Len(outbox[c]) + Len(rs) + old.inflight = taken[c]
      BY <1>2, <1>3, <1>8, <2>1
    <3>2. PICK got \in Nat, buffered \in Nat, inflight \in Nat, total \in Nat :
            /\ got = Len(outbox[c]) /\ buffered = Len(rs)
            /\ inflight = old.inflight /\ total = taken[c]
      BY <2>2, <3>1
    <3>3. got + buffered + inflight = total
      BY <3>1, <3>2
    <3>4. got + buffered + (inflight + 1) = total + 1
      BY <3>3
    <3>5. QED
      BY <3>1, <3>2, <3>4
  <2>4. ASSUME NEW n \in (taken'[c] - conn.inflight + 1)..taken'[c]
        PROVE  Owes(id, n)' \/ (n = taken'[c] /\ Ending(id)')
    <3>1. n = taken[c] + 1 \/ n \in (taken[c] - old.inflight + 1)..taken[c]
      <4>1. PICK inflight \in Nat, total \in Nat : inflight = old.inflight /\ total = taken[c]
        BY <1>3, <2>2
      <4>2. n \in (total + 1 - (inflight + 1) + 1)..(total + 1)
        BY <1>2, <1>8, <4>1
      <4>3. n = total + 1 \/ n \in (total - inflight + 1)..total
        BY <4>2
      <4>4. QED
        BY <4>1, <4>3
    <3>2. CASE n = taken[c] + 1
      <4>1. n = m /\ n = taken'[c]
        BY <1>2, <3>2
      <4>2. QED
        BY <1>14, <4>1
    <3>3. CASE n \in (taken[c] - old.inflight + 1)..taken[c]
      BY <1>15, <2>1, <3>3
    <3>4. QED
      BY <3>1, <3>2, <3>3
  <2>5. QED
    BY <2>1, <2>3, <2>4
<1>18. \A o \in owed' : o.conn = id =>
         o.client = c /\ o.n <= taken'[c] /\ o.n > taken'[c] - conn.inflight
  <2> SUFFICES ASSUME NEW o \in owed', o.conn = id
               PROVE  o.client = c /\ o.n <= taken'[c] /\ o.n > taken'[c] - conn.inflight
    OBVIOUS
  <2>1. taken[c] \in Nat
    BY <1>3
  <2>2. CASE o \in owed
    <3>1. o.client = c /\ o.n <= taken[c] /\ o.n > taken[c] - old.inflight /\ o.n \in Nat
      BY <1>3, <1>12, <2>2 DEF OwedOK, Owed
    <3>2. QED
      BY <1>2, <1>3, <1>8, <2>1, <3>1
  <2>3. CASE o = t
    BY <1>2, <1>3, <1>8, <1>10, <2>1, <2>3
  <2>4. QED
    BY <1>1, <2>2, <2>3
<1>19. /\ \A o \in owed' : o.conn # id => o \in owed
       /\ \A o \in owed : o.conn # id => o \in owed'
  BY <1>1, <1>10
<1>20. \A i \in DOMAIN pending : i \in DOMAIN pending' /\ pending'[i] = pending[i]
  BY <1>1, <1>13
<1>21. c = conns[id].client /\ rs \in Seq(Response) /\ Deliver(c, rs, k)
  BY <1>3, <1>4
<1> HIDE DEF old, c, rs
<1>22. Meeting(id, c, rs, k, conn)
  BY <1>2, <1>4, <1>8, <1>9, <1>16, <1>17, <1>18, <1>19, <1>20 DEF Meeting
<1>23. Owing' /\ ResponsesInOrder' /\ \A d \in Client : Len(outbox'[d]) >= Len(outbox[d])
  BY <1>5, <1>12, <1>21, <1>22, MeetOrder
<1>24. QED
  BY <1>2, <1>6, <1>12, <1>23, PatientFrame DEF Ordered

-----------------------------------------------------------------------------
(* on_tick.                                                                *)

LEMMA NextNumber ==
  ASSUME NEW n \in Nat, NEW total \in Nat, NEW inflight \in Nat,
         n <= total - inflight + 1, n > total - inflight
  PROVE  n = total - inflight + 1
OBVIOUS

\* A response is written for the oldest request that is owed: the one after
\* those whose responses are in the buffer or have left it.
LEMMA WriteMeets ==
  ASSUME WsInv, Ordered, NEW o \in owed, NEW k, WriteTo(o, k), Expects(o.conn),
         UNCHANGED wsVars
  PROVE  \E id \in DOMAIN conns, c \in Client, rs \in Seq(Response), conn \in Conn :
           /\ c = conns[id].client /\ k \in 0..Len(rs)
           /\ outbox' \in [Client -> Seq(Response)]
           /\ UNCHANGED <<stream, taken>>
           /\ Meeting(id, c, rs, k, conn)
<1>0. PICK id, old, c, wbuf, rs, conn :
        /\ id = o.conn /\ old = conns[id] /\ c = old.client /\ wbuf = old.wbuf
        /\ rs = Append(wbuf, Answer(o)) /\ conn = Answered(old, rs, k)
  OBVIOUS
<1>1. id \in DOMAIN conns /\ old.inflight > 0
  BY <1>0 DEF Expects
<1>2. /\ outbox \in [Client -> Seq(Response)] /\ taken \in [Client -> Nat]
      /\ old \in Conn /\ c \in Client /\ wbuf \in Seq(Response) /\ old.inflight \in Nat
      /\ \A other \in owed : other \in Owed
  BY <1>0, <1>1, OrderParts
<1>3. /\ Oldest(o)
      /\ owed' = owed \ {o}
      /\ k \in Accepts(Len(rs)) /\ Deliver(c, rs, k)
      /\ conns' = [conns EXCEPT ![id] = conn]
      /\ UNCHANGED <<peer, backlog, stream, taken, conn_seq, pending>>
  BY <1>0 DEF WriteTo, wsVars
<1>4. Owing /\ Patient /\ ResponsesInOrder /\ AnswersOK(id) /\ \A other \in owed : OwedOK(other)
  BY <1>1 DEF Ordered, Owing
<1>5. \A other \in owed : other.conn = id =>
        other.client = c /\ other.n <= taken[c] /\ other.n > taken[c] - old.inflight
  BY <1>0, <1>1, <1>4 DEF OwedOK
<1>6. /\ o.client = c /\ o.n \in Nat /\ taken[c] \in Nat
      /\ o.n <= taken[c] /\ o.n > taken[c] - old.inflight
  BY <1>0, <1>2, <1>5 DEF Owed
<1>7. /\ rs \in Seq(Response)
      /\ Len(rs) = Len(wbuf) + 1
      /\ \A i \in 1..Len(wbuf) : rs[i] = wbuf[i]
      /\ rs[Len(wbuf) + 1] = [client |-> c, n |-> o.n]
  <2>1. Answer(o) \in Response /\ Answer(o) = [client |-> c, n |-> o.n]
    BY <1>0, <1>2, <1>6 DEF Answer, Response, Owed
  <2>2. QED
    BY <1>0, <1>2, <2>1
<1>8. k \in 0..Len(rs) /\ outbox' \in [Client -> Seq(Response)] /\ Unsent(rs, k) \in Seq(Response)
  BY <1>2, <1>3, <1>7, DeliverTyped
<1>9. /\ conn \in Conn /\ conn.client = c /\ conn.wbuf = Unsent(rs, k)
      /\ conn.inflight = old.inflight - 1 /\ conn.closed = old.closed
  <2>1. old.inflight - 1 \in Nat
    BY <1>1, <1>2
  <2>2. QED
    BY <1>0, <1>2, <1>8, <2>1 DEF Conn, Answered
<1>10. /\ DOMAIN conns' = DOMAIN conns /\ conns'[id] = conn
       /\ \A j \in DOMAIN conns \ {id} : conns'[j] = conns[j]
  BY <1>1, <1>3
<1>11. Ending(id) => Ending(id)'
  BY <1>0, <1>3, <1>9, <1>10 DEF Ending
<1>12. ASSUME peer[c] = "open"
       PROVE  /\ Continues(rs, c, Len(outbox[c]))
              /\ Len(outbox[c]) + Len(rs) + conn.inflight = taken'[c]
              /\ \A n \in (taken'[c] - conn.inflight + 1)..taken'[c] :
                   Owes(id, n)' \/ (n = taken'[c] /\ Ending(id)')
  <2>1. /\ Continues(wbuf, c, Len(outbox[c]))
        /\ Len(outbox[c]) + Len(wbuf) + old.inflight = taken[c]
        /\ \A n \in (taken[c] - old.inflight + 1)..taken[c] :
             Owes(id, n) \/ (n = taken[c] /\ Ending(id))
    BY <1>0, <1>4, <1>12 DEF AnswersOK
  <2>2. PICK got \in Nat, buffered \in Nat, inflight \in Nat, total \in Nat :
          /\ got = Len(outbox[c]) /\ buffered = Len(wbuf)
          /\ inflight = old.inflight /\ total = taken[c]
    BY <1>2, <1>6
  <2>3. got + buffered + inflight = total /\ inflight > 0
    BY <1>1, <2>1, <2>2
  <2>4. o.n = total - inflight + 1
    <3>1. total - inflight + 1 \in (total - inflight + 1)..total
      BY <2>3
    <3>2. CASE total - inflight + 1 = total
      <4>1. o.n \in Nat /\ o.n <= total /\ o.n > total - inflight
        BY <1>6, <2>2
      <4>2. QED
        BY <3>2, <4>1
    <3>3. CASE Owes(id, total - inflight + 1)
      <4>1. PICK first \in owed : first.conn = id /\ first.n = total - inflight + 1
        BY <3>3 DEF Owes
      <4>2. o.n <= first.n
        BY <1>0, <1>3, <4>1 DEF Oldest
      <4>3. o.n \in Nat /\ o.n <= total - inflight + 1 /\ o.n > total - inflight
        BY <1>6, <2>2, <4>1, <4>2
      <4>4. QED
        BY <4>3, NextNumber, Zenon
    <3>4. QED
      BY <2>1, <2>2, <3>1, <3>2, <3>3
  <2>5. o.n = got + (buffered + 1)
    BY <2>3, <2>4
  <2>6. Continues(rs, c, Len(outbox[c]))
    <3>1. ASSUME NEW i \in 1..(buffered + 1)
          PROVE  rs[i] = [client |-> c, n |-> got + i]
      <4>1. CASE i = buffered + 1
        BY <1>7, <2>2, <2>5, <4>1
      <4>2. CASE i # buffered + 1
        <5>1. i \in 1..buffered
          BY <4>2
        <5>2. QED
          BY <1>7, <2>1, <2>2, <5>1 DEF Continues
      <4>3. QED
        BY <4>1, <4>2
    <3>2. QED
      BY <1>7, <2>2, <3>1 DEF Continues
  <2>7. Len(outbox[c]) + Len(rs) + conn.inflight = taken'[c]
    <3>1. got + (buffered + 1) + (inflight - 1) = total
      BY <2>3
    <3>2. QED
      BY <1>3, <1>7, <1>9, <2>2, <3>1
  <2>8. ASSUME NEW n \in (taken'[c] - conn.inflight + 1)..taken'[c]
        PROVE  Owes(id, n)' \/ (n = taken'[c] /\ Ending(id)')
    <3>1. n \in (total - inflight + 1)..total /\ n # o.n
      <4>1. n \in (total - (inflight - 1) + 1)..total
        BY <1>3, <1>9, <2>2
      <4>2. QED
        BY <2>4, <4>1
    <3>2. Owes(id, n) => Owes(id, n)'
      BY <1>3, <3>1 DEF Owes
    <3>3. QED
      BY <1>3, <1>11, <2>1, <2>2, <3>1, <3>2
  <2>9. QED
    BY <2>6, <2>7, <2>8
<1>13. ASSUME NEW other \in owed', other.conn = id
       PROVE  other.client = c /\ other.n <= taken'[c] /\ other.n > taken'[c] - conn.inflight
  <2>1. /\ other \in owed /\ other # o /\ other \in Owed /\ o \in Owed
        /\ other.client = c /\ other.n <= taken[c]
    BY <1>2, <1>3, <1>5, <1>13
  <2>2. other.n # o.n
    BY <1>0, <1>6, <1>13, <2>1 DEF Owed
  <2>3. o.n <= other.n
    BY <1>0, <1>3, <1>13, <2>1 DEF Oldest
  <2>4. PICK n \in Nat, first \in Nat, inflight \in Nat, total \in Nat :
          n = other.n /\ first = o.n /\ inflight = old.inflight /\ total = taken[c]
    BY <1>2, <1>6, <2>1 DEF Owed
  <2>5. n # first /\ first <= n /\ first > total - inflight
    BY <1>6, <2>2, <2>3, <2>4
  <2>6. n > total - (inflight - 1)
    BY <2>5
  <2>7. taken'[c] = total /\ conn.inflight = inflight - 1
    BY <1>3, <1>9, <2>4
  <2>8. QED
    BY <2>1, <2>4, <2>6, <2>7
<1>14. conn.inflight <= taken'[c]
  <2>1. old.inflight <= taken[c]
    BY <1>0, <1>4 DEF AnswersOK
  <2>2. QED
    BY <1>2, <1>3, <1>6, <1>9, <2>1
<1>15. /\ taken' \in [Client -> Nat] /\ \A d \in Client \ {c} : taken'[d] = taken[d]
       /\ \A other \in owed' : other.conn # id => other \in owed
       /\ \A other \in owed : other.conn # id => other \in owed'
       /\ \A i \in DOMAIN pending : i \in DOMAIN pending' /\ pending'[i] = pending[i]
       /\ UNCHANGED <<peer, backlog, conn_seq>>
  BY <1>0, <1>2, <1>3
<1>16. Meeting(id, c, rs, k, conn)
  BY <1>3, <1>9, <1>10, <1>12, <1>13, <1>14, <1>15 DEF Meeting
<1>17. QED
  BY <1>0, <1>1, <1>2, <1>3, <1>7, <1>8, <1>9, <1>16

LEMMA WriteOrder ==
  ASSUME WsInv, Ordered, NEW o \in owed, NEW k, WriteTo(o, k), Expects(o.conn),
         UNCHANGED wsVars
  PROVE  Ordered'
<1>1. PICK id \in DOMAIN conns, c \in Client, rs \in Seq(Response), conn \in Conn :
        /\ c = conns[id].client /\ k \in 0..Len(rs)
        /\ outbox' \in [Client -> Seq(Response)]
        /\ UNCHANGED <<stream, taken>>
        /\ Meeting(id, c, rs, k, conn)
  BY WriteMeets
<1>2. Owing /\ Patient /\ ResponsesInOrder
  BY DEF Ordered
<1>3. Owing' /\ ResponsesInOrder' /\ \A d \in Client : Len(outbox'[d]) >= Len(outbox[d])
  BY <1>1, <1>2, MeetOrder
<1>4. QED
  BY <1>1, <1>2, <1>3, PatientFrame DEF Ordered

\* A response that is not written, since its connection is gone or its
\* client is.
LEMMA ReplyOrder ==
  ASSUME WsInv, Ordered, WsReply
  PROVE  Ordered'
<1>1. PICK o \in owed : WriteFails(o) \/ \E k \in Writes(o.conn) : WriteTo(o, k)
  BY DEF WsReply, Reply
<1>2. UNCHANGED wsVars
  BY DEF WsReply
<1>3. CASE \E k \in Writes(o.conn) : WriteTo(o, k) /\ Expects(o.conn)
  BY <1>2, <1>3, WriteOrder
<1>4. CASE WriteFails(o) \/ ~Expects(o.conn)
  <2>1. /\ owed' = owed \ {o}
        /\ UNCHANGED <<peer, backlog, stream, taken, outbox, conn_seq, conns, pending>>
    BY <1>1, <1>2, <1>4 DEF WriteFails, WriteTo, netVars, connVars, wsVars
  <2>2. o.conn \in DOMAIN conns => \/ conns[o.conn].inflight = 0
                                   \/ peer[conns[o.conn].client] # "open"
    <3>1. CASE WriteFails(o)
      BY <3>1 DEF WriteFails
    <3>2. CASE ~Expects(o.conn)
      BY <3>2, OrderParts DEF Expects
    <3>3. QED
      BY <1>4, <3>1, <3>2
  <2>3. \A id \in DOMAIN conns' : Ending(id) => Ending(id)'
    BY <2>1 DEF Ending
  <2>4. QED
    BY <2>1, <2>2, <2>3, QuietOrder
<1>5. QED
  BY <1>1, <1>3, <1>4

LEMMA CloseOrder ==
  ASSUME WsInv, Ordered, NEW id \in DOMAIN conns, CloseConn(id), UNCHANGED wsVars
  PROVE  Ordered'
<1>1. /\ conns' = [conns EXCEPT ![id] = TryClose(@)]
      /\ UNCHANGED <<peer, backlog, stream, taken, outbox, conn_seq, owed, pending>>
  BY DEF CloseConn, netVars, wsVars
<1>2. conns[id] \in Conn
  BY OrderParts
<1>3. /\ TryClose(conns[id]).client = conns[id].client
      /\ TryClose(conns[id]).inflight = conns[id].inflight
      /\ TryClose(conns[id]).wbuf = conns[id].wbuf
      /\ TryClose(conns[id]).closed
  BY <1>2 DEF TryClose, Conn
<1>4. /\ DOMAIN conns' = DOMAIN conns
      /\ conns'[id] = TryClose(conns[id])
      /\ \A j \in DOMAIN conns \ {id} : conns'[j] = conns[j]
  BY <1>1
<1>5. \A j \in DOMAIN conns' : /\ conns'[j].client = conns[j].client
                               /\ conns'[j].inflight = conns[j].inflight
                               /\ conns'[j].wbuf = conns[j].wbuf
                               /\ Ending(j) => Ending(j)'
  BY <1>1, <1>3, <1>4 DEF Ending
<1>6. QED
  BY <1>1, <1>4, <1>5, QuietOrder

LEMMA RemoveOrder ==
  ASSUME WsInv, Ordered,
         EndRead("transform") \/ (\E id \in DOMAIN conns : RemoveConn(id)), UNCHANGED wsVars
  PROVE  Ordered'
<1>1. /\ \E ids : RemoveConns(ids)
      /\ UNCHANGED <<backlog, stream, taken, outbox, conn_seq, owed, pending>>
  BY DEF EndRead, RemoveConn, wsVars
<1>2. PICK ids : conns' = Restrict(conns, DOMAIN conns \ ids) /\ peer' = Dropping(ClientsOf(ids))
  BY <1>1 DEF RemoveConns
<1>3. \A c \in Client : /\ peer'[c] = "open" => peer[c] = "open"
                        /\ peer'[c] = "new" <=> peer[c] = "new"
  BY <1>2, DropsOrder
<1>4. QED
  BY <1>1, <1>2, <1>3, RemovalOrder

-----------------------------------------------------------------------------
(* transform_conns.                                                        *)

LEMMA OtherHandshakes ==
  ASSUME WsInv, pending # <<>>, NEW id, id # Handshake.conn,
         \E i \in DOMAIN pending : pending[i].conn = id
  PROVE  \E i \in DOMAIN Front(pending) : Front(pending)[i].conn = id
<1>1. pending \in Seq(Owed)
  BY WsParts DEF WsTypeOK
<1>2. /\ Len(pending) \in Nat /\ DOMAIN pending = 1..Len(pending)
      /\ Handshake = pending[Len(pending)]
      /\ DOMAIN Front(pending) = 1..(Len(pending) - 1)
      /\ \A i \in 1..(Len(pending) - 1) : Front(pending)[i] = pending[i]
  BY <1>1 DEF Front, Handshake, Last
<1>3. PICK i \in DOMAIN pending : pending[i].conn = id
  OBVIOUS
<1>4. i # Len(pending)
  BY <1>2, <1>3
<1>5. i \in 1..(Len(pending) - 1)
  BY <1>2, <1>4
<1>6. QED
  BY <1>2, <1>3, <1>5

LEMMA UpgradeFailsOrder ==
  ASSUME WsInv, Ordered, UpgradeFails
  PROVE  Ordered'
<1>1. PICK ids : ids = {Handshake.conn} \cap DOMAIN conns
  OBVIOUS
<1>2. /\ pending # <<>> /\ pending' = Front(pending)
      /\ conns' = Restrict(conns, DOMAIN conns \ ids) /\ peer' = Dropping(ClientsOf(ids))
      /\ UNCHANGED <<backlog, stream, taken, outbox, conn_seq, owed>>
  BY <1>1 DEF UpgradeFails, Transforming, RemoveConns
<1>3. \A c \in Client : /\ peer'[c] = "open" => peer[c] = "open"
                        /\ peer'[c] = "new" <=> peer[c] = "new"
  BY <1>2, DropsOrder
<1>4. \A id \in DOMAIN conns \ ids : id # Handshake.conn
  BY <1>1
<1>5. \A id \in DOMAIN conns \ ids :
        (\E i \in DOMAIN pending : pending[i].conn = id)
          => \E i \in DOMAIN pending' : pending'[i].conn = id
  BY <1>2, <1>4, OtherHandshakes
<1>6. QED
  BY <1>2, <1>3, <1>5, RemovalOrder

\* The client waited for its earlier answers, so the answer to the handshake
\* is the only one that is missing, and the buffer is empty.
LEMMA HandshakeIsNext ==
  ASSUME WsInv, Owing, Patient, NEW id \in DOMAIN conns, NEW c, c = conns[id].client,
         NEW p \in Owed, HandshakeOK(p), p.conn = id, peer[c] = "open",
         NEW out, out = Append(conns[id].wbuf, Answer(p))
  PROVE  Continues(out, c, Len(outbox[c])) /\ Len(outbox[c]) + Len(out) = taken[c]
<1> PICK wbuf : wbuf = conns[id].wbuf
  OBVIOUS
<1>1. /\ outbox[c] \in Seq(Response) /\ c \in Client /\ taken[c] \in Nat
      /\ wbuf \in Seq(Response) /\ conns[id].inflight \in Nat
  BY OrderParts
<1>2. /\ p.client = c /\ p.n = taken[c] /\ conns[id].inflight > 0
      /\ p.n \in DOMAIN stream[c] /\ stream[c][p.n] = "upgrade"
  BY DEF HandshakeOK, Expects
<1>3. Len(outbox[c]) + Len(wbuf) + conns[id].inflight = taken[c]
  BY DEF Owing, AnswersOK
<1>4. Len(outbox[c]) >= taken[c] - 1
  BY <1>1, <1>2 DEF Patient
<1>5. PICK got \in Nat, buffered \in Nat, inflight \in Nat, total \in Nat :
        /\ got = Len(outbox[c]) /\ buffered = Len(wbuf)
        /\ inflight = conns[id].inflight /\ total = taken[c]
  BY <1>1
<1>6. got + buffered + inflight = total /\ got >= total - 1 /\ inflight > 0
  BY <1>2, <1>3, <1>4, <1>5
<1>7. buffered = 0 /\ total = got + 1
  BY <1>6
<1>8. wbuf = <<>>
  <2>1. Len(wbuf) = 0 /\ wbuf \in Seq(Response)
    BY <1>1, <1>5, <1>7
  <2>2. QED
    BY <2>1
<1>9. Answer(p) = [client |-> c, n |-> got + 1]
  BY <1>2, <1>5, <1>7 DEF Answer
<1>10. out = <<Answer(p)>> /\ Len(out) = 1 /\ out[1] = Answer(p)
  BY <1>8
<1>11. \A i \in 1..Len(out) : i = 1
  BY <1>10
<1>12. Continues(out, c, Len(outbox[c]))
  BY <1>5, <1>9, <1>10, <1>11 DEF Continues
<1>13. QED
  BY <1>5, <1>7, <1>10, <1>12

LEMMA SwitchingFacts ==
  ASSUME WsInv, Ordered, NEW k, NEW is_close \in BOOLEAN, Upgrade(k, is_close)
  PROVE  \E p \in Owed, id \in DOMAIN conns, c \in Client, out \in Seq(Response) :
           /\ p = Handshake /\ HandshakeOK(p) /\ id = p.conn /\ c = conns[id].client
           /\ pending # <<>> /\ peer[c] # "new" /\ k \in 0..Len(out) /\ Deliver(c, out, k)
           /\ pending' = Front(pending) /\ conns' = Restrict(conns, DOMAIN conns \ {id})
           /\ peer' = peer \/ peer' = Dropping({c})
           /\ UNCHANGED <<backlog, stream, taken, conn_seq, owed>>
           /\ peer[c] = "open" =>
                Continues(out, c, Len(outbox[c])) /\ Len(outbox[c]) + Len(out) = taken[c]
<1>1. PICK p, id, c, out : /\ p = Handshake /\ id = p.conn /\ c = conns[id].client
                           /\ out = Append(conns[id].wbuf, Answer(p))
  OBVIOUS
<1>2. p \in Owed /\ HandshakeOK(p)
  BY <1>1, LastHandshake DEF Upgrade, Transforming
<1>3. /\ pending # <<>> /\ id \in DOMAIN conns /\ p.client = c
      /\ k \in Accepts(Len(out)) /\ Deliver(c, out, k)
      /\ pending' = Front(pending) /\ conns' = Restrict(conns, DOMAIN conns \ {id})
      /\ peer' = peer \/ peer' = Dropping({c})
      /\ UNCHANGED <<backlog, stream, taken, conn_seq, owed>>
  BY <1>1, <1>2 DEF Upgrade, Transforming, Switching, TakeConn, Expects, HandshakeOK
<1>4. /\ outbox \in [Client -> Seq(Response)]
      /\ c \in Client /\ conns[id].wbuf \in Seq(Response) /\ peer[c] # "new"
  BY <1>1, <1>3, OrderParts
<1>5. out \in Seq(Response)
  <2>1. Answer(p) \in Response
    BY <1>2, <1>3, <1>4 DEF Answer, Response, Owed
  <2>2. QED
    BY <1>1, <1>4, <2>1
<1>6. k \in 0..Len(out)
  BY <1>3, <1>4, <1>5, DeliverTyped
<1>7. Owing /\ Patient
  BY DEF Ordered
<1>8. peer[c] = "open" =>
        Continues(out, c, Len(outbox[c])) /\ Len(outbox[c]) + Len(out) = taken[c]
  <2>1. SUFFICES ASSUME peer[c] = "open"
                 PROVE  Continues(out, c, Len(outbox[c])) /\ Len(outbox[c]) + Len(out) = taken[c]
    OBVIOUS
  <2>2. /\ p \in Owed /\ HandshakeOK(p) /\ p.conn = id
        /\ id \in DOMAIN conns /\ c = conns[id].client
        /\ out = Append(conns[id].wbuf, Answer(p))
    BY <1>1, <1>2, <1>3
  <2>3. QED
    BY <1>7, <2>1, <2>2, HandshakeIsNext
<1>9. p \in Owed /\ id \in DOMAIN conns /\ c \in Client /\ out \in Seq(Response)
  BY <1>2, <1>3, <1>4, <1>5
<1>10. QED
  BY <1>1, <1>2, <1>3, <1>4, <1>6, <1>8, <1>9

LEMMA UpgradeOrder ==
  ASSUME WsInv, Ordered, NEW k, NEW is_close \in BOOLEAN, Upgrade(k, is_close)
  PROVE  Ordered'
<1>1. PICK p \in Owed, id \in DOMAIN conns, c \in Client, out \in Seq(Response) :
        /\ p = Handshake /\ HandshakeOK(p) /\ id = p.conn /\ c = conns[id].client
        /\ pending # <<>> /\ peer[c] # "new" /\ k \in 0..Len(out) /\ Deliver(c, out, k)
        /\ pending' = Front(pending) /\ conns' = Restrict(conns, DOMAIN conns \ {id})
        /\ peer' = peer \/ peer' = Dropping({c})
        /\ UNCHANGED <<backlog, stream, taken, conn_seq, owed>>
        /\ peer[c] = "open" =>
             Continues(out, c, Len(outbox[c])) /\ Len(outbox[c]) + Len(out) = taken[c]
  BY SwitchingFacts
<1>2. /\ pending # <<>> /\ k \in 0..Len(out) /\ Deliver(c, out, k)
      /\ pending' = Front(pending) /\ conns' = Restrict(conns, DOMAIN conns \ {id})
      /\ peer' = peer \/ peer' = Dropping({c})
      /\ UNCHANGED <<backlog, stream, taken, conn_seq, owed>>
      /\ peer[c] = "open" => Continues(out, c, Len(outbox[c]))
  BY <1>1
<1>3. /\ outbox \in [Client -> Seq(Response)]
      /\ c \in Client /\ conns[id].wbuf \in Seq(Response)
      /\ \A j \in DOMAIN conns \ {id} : conns[j].client \in Client \ {c}
      /\ \A i \in DOMAIN backlog : backlog[i] # c
      /\ peer[c] # "new"
  BY <1>1, <1>2, OrderParts
<1>4. Owing /\ Patient /\ ResponsesInOrder
  BY DEF Ordered
<1>5. /\ outbox' \in [Client -> Seq(Response)] /\ ResponsesInOrder'
      /\ \A d \in Client \ {c} : outbox'[d] = outbox[d]
      /\ peer[c] # "open" => outbox' = outbox
      /\ peer[c] = "open" => Len(outbox'[c]) = Len(outbox[c]) + k
  BY <1>2, <1>3, <1>4, DeliverProperties
<1>6. \A d \in Client : Len(outbox'[d]) >= Len(outbox[d])
  <2>1. \A d \in Client : Len(outbox[d]) \in Nat
    BY <1>3
  <2>2. Len(out) \in Nat /\ k \in Nat
    BY <1>2
  <2>3. ASSUME NEW d \in Client
        PROVE  Len(outbox'[d]) >= Len(outbox[d])
    <3>1. CASE outbox'[d] = outbox[d]
      BY <2>1, <3>1
    <3>2. CASE d = c /\ peer[c] = "open"
      BY <1>3, <1>5, <2>1, <2>2, <3>2
    <3>3. QED
      BY <1>5, <3>1, <3>2
  <2>4. QED
    BY <2>3
<1>7. /\ DOMAIN conns' = DOMAIN conns \ {id}
      /\ \A j \in DOMAIN conns' : conns'[j] = conns[j]
  BY <1>2 DEF Restrict
<1>8. \A j \in DOMAIN conns' : Ending(j) => Ending(j)'
  <2>1. \A j \in DOMAIN conns' : j # Handshake.conn /\ conns'[j] = conns[j]
    BY <1>1, <1>7
  <2>2. \A j \in DOMAIN conns' :
          (\E i \in DOMAIN pending : pending[i].conn = j)
            => \E i \in DOMAIN pending' : pending'[i].conn = j
    BY <1>2, <2>1, OtherHandshakes
  <2>3. QED
    BY <2>1, <2>2 DEF Ending
<1>9. \A d \in Client : /\ peer'[d] = "open" => peer[d] = "open"
                        /\ peer'[d] = "new" <=> peer[d] = "new"
  BY <1>2, DropsOrder
<1>10. \A j \in DOMAIN conns' : outbox'[conns[j].client] = outbox[conns[j].client]
  BY <1>3, <1>5, <1>7
<1>11. \A d \in Client :
         (peer[d] = "new" \/ \E i \in DOMAIN backlog : backlog[i] = d) => outbox'[d] = outbox[d]
  BY <1>3, <1>5
<1>12. Owing'
  BY <1>2, <1>4, <1>7, <1>8, <1>9, <1>10, <1>11, OwingFrame
<1>13. Patient'
  BY <1>2, <1>4, <1>5, <1>6, PatientFrame
<1>14. QED
  BY <1>5, <1>12, <1>13 DEF Ordered

-----------------------------------------------------------------------------
(* The WebSocket connections.                                              *)

LEMMA WsVisitOrder ==
  ASSUME WsInv, Ordered, NEW id \in DOMAIN ws, WsVisit(id)
  PROVE  Ordered'
<1> PICK c : c = ws[id].client
  OBVIOUS
<1>1. /\ taken' = taken \/ taken' = [taken EXCEPT ![c] = @ + 1]
      /\ UNCHANGED <<peer, backlog, stream, outbox, conn_seq, conns, owed, pending>>
  BY DEF WsVisit, WsIdle, WsReadFails, WsMessage, vars, netVars, connVars
<1>2. /\ \A j \in DOMAIN conns : conns[j].client # c
      /\ \A i \in DOMAIN backlog : backlog[i] # c
      /\ peer[c] # "new"
  BY WsParts DEF Homes, OneHome
<1>3. taken \in [Client -> Nat] /\ \A j \in DOMAIN conns : conns[j].client \in Client
  BY OrderParts
<1>4. \A d \in Client \ {c} : taken'[d] = taken[d]
  BY <1>1, <1>3
<1>5. \A j \in DOMAIN conns' : Ending(j) => Ending(j)'
  BY <1>1 DEF Ending
<1>6. /\ \A j \in DOMAIN conns' : taken'[conns[j].client] = taken[conns[j].client]
      /\ \A d \in Client :
           (peer[d] = "new" \/ \E i \in DOMAIN backlog : backlog[i] = d) => taken'[d] = taken[d]
  BY <1>1, <1>2, <1>3, <1>4
<1>7. QED
  BY <1>1, <1>5, <1>6, QuietOrder

LEMMA WsDropOrder ==
  ASSUME WsInv, Ordered,
         EndWsRead \/ \E id \in DOMAIN ws : WsDisconnect(id) \/ WsRemove(id)
  PROVE  Ordered'
<1>1. /\ \E S : peer' = Dropping(S)
      /\ UNCHANGED <<backlog, stream, taken, outbox, conn_seq, conns, owed, pending>>
  BY DEF EndWsRead, WsDisconnect, WsRemove, connVars
<1>2. \A c \in Client : /\ peer'[c] = "open" => peer[c] = "open"
                        /\ peer'[c] = "new" <=> peer[c] = "new"
  BY <1>1, DropsOrder
<1>3. \A id \in DOMAIN conns' : Ending(id) => Ending(id)'
  BY <1>1 DEF Ending
<1>4. QED
  BY <1>1, <1>2, <1>3, QuietOrder

-----------------------------------------------------------------------------
(* Requests and messages are taken only from what was sent.                *)

LEMMA OneMoreTaken ==
  ASSUME NetTypes, TakenWasSent, NEW c \in Client, Unread(c),
         taken' = [taken EXCEPT ![c] = @ + 1], stream' = stream
  PROVE  TakenWasSent'
<1>1. taken \in [Client -> Nat] /\ taken[c] \in Nat /\ Len(stream[c]) \in Nat
  BY DEF NetTypes
<1>2. taken'[c] <= Len(stream[c])
  BY <1>1 DEF Unread
<1>3. \A d \in Client \ {c} : taken'[d] = taken[d]
  BY <1>1
<1>4. QED
  BY <1>2, <1>3 DEF TakenWasSent

LEMMA OneMoreSent ==
  ASSUME NetTypes, TakenWasSent, NEW c \in Client, NEW kind \in Kinds,
         stream' = [stream EXCEPT ![c] = Append(@, kind)], taken' = taken
  PROVE  TakenWasSent'
<1>1. /\ stream \in [Client -> Seq(Kinds)] /\ stream[c] \in Seq(Kinds)
      /\ taken[c] \in Nat /\ Len(stream[c]) \in Nat
  BY DEF NetTypes
<1>2. Len(stream'[c]) = Len(stream[c]) + 1
  BY <1>1
<1>3. taken'[c] <= Len(stream'[c])
  BY <1>1, <1>2 DEF TakenWasSent
<1>4. \A d \in Client \ {c} : stream'[d] = stream[d]
  BY <1>1
<1>5. QED
  BY <1>3, <1>4 DEF TakenWasSent

LEMMA WsNetTypes ==
  ASSUME WsInv
  PROVE  NetTypes
BY WsParts DEF WsTypeOK, NetTypes

LEMMA NextTaken ==
  ASSUME WsInv, TakenWasSent, [WsNext]_<<allVars, alive, histVars>>
  PROVE  TakenWasSent'
<1>0. NetTypes
  BY WsNetTypes
<1>1. CASE UNCHANGED <<stream, taken>>
  BY <1>1 DEF TakenWasSent
<1>2. ASSUME WsPeers
      PROVE  TakenWasSent'
  BY <1>0, <1>1, <1>2, OneMoreSent DEF WsPeers, Connect, HangUp, WsSend, Send
<1>3. ASSUME NEW id \in DOMAIN conns, WsRead(id)
      PROVE  TakenWasSent'
  <2>1. CASE \E k : TakeRequest(id, k)
    <3>1. conns[id].client \in Client
      BY OrderParts
    <3>2. QED
      BY <1>0, <2>1, <3>1, OneMoreTaken DEF TakeRequest, FlushAll
  <2>2. CASE ~\E k : TakeRequest(id, k)
    BY <1>1, <1>3, <2>2 DEF WsRead, FlushFails, NoRequest, ReadFails, FlushBlocks, netVars,
       TakeHandshake, RefuseHandshake, PassRequest, NewRequest
  <2>3. QED
    BY <2>1, <2>2
<1>4. ASSUME NEW id \in DOMAIN ws, WsVisit(id)
      PROVE  TakenWasSent'
  <2>1. CASE \E is_close \in BOOLEAN : WsMessage(id, is_close)
    <3>1. ws[id].client \in Client
      BY WsParts
    <3>2. QED
      BY <1>0, <2>1, <3>1, OneMoreTaken DEF WsMessage
  <2>2. CASE WsIdle(id) \/ WsReadFails(id)
    BY <1>1, <2>2 DEF WsIdle, WsReadFails, vars, netVars
  <2>3. QED
    BY <1>4, <2>1, <2>2 DEF WsVisit
<1>5. ASSUME WsTick
      PROVE  TakenWasSent'
  <2>1. CASE (Accept \/ EndRead("transform") \/ EndTick) /\ UNCHANGED wsVars
    BY <1>1, <2>1 DEF Accept, AcceptConn, AcceptFails, AcceptError, AcceptDone, EndRead,
       EndTick, netVars
  <2>2. CASE Transform \/ EndWsRead
    BY <1>1, <2>2 DEF Transform, Upgrade, UpgradeFails, UpgradePanics, EndTransform, EndWsRead,
       netVars
  <2>3. QED
    BY <1>3, <1>4, <1>5, <2>1, <2>2 DEF WsTick
<1>6. CASE WsReply
  BY <1>1, <1>6 DEF WsReply, Reply, WriteTo, WriteFails, netVars
<1>7. CASE WsManage
  BY <1>1, <1>7 DEF WsManage, Manage, CloseConn, RemoveConn, WsDisconnect, WsRemove, netVars
<1>8. CASE WsShutdown \/ UNCHANGED <<allVars, alive, histVars>>
  BY <1>1, <1>8 DEF WsShutdown, allVars, vars, netVars
<1>9. QED
  BY <1>2, <1>5, <1>6, <1>7, <1>8 DEF WsNext, WsStep

-----------------------------------------------------------------------------
(* What the clients see of each step.                                      *)

\* The last responses arrive and the server hangs up.
LEMMA SeenAsDismissal ==
  ASSUME NetTypes, NEW c \in Client, NEW rs \in Seq(Response), NEW k \in 0..Len(rs),
         Deliver(c, rs, k), peer' = Dropping({c}),
         peer[c] = "open" => /\ Continues(rs, c, Len(outbox[c]))
                             /\ Len(outbox[c]) + k <= taken[c],
         UNCHANGED <<stream, taken>>
  PROVE  [Exch!Next]_(Exch!vars)
<1>1. /\ peer \in [Client -> {"new", "open", "gone", "dropped"}]
      /\ outbox \in [Client -> Seq(Response)] /\ Len(outbox[c]) \in Nat
      /\ taken[c] \in Nat /\ k \in Nat
  BY DEF NetTypes
<1>2. CASE peer[c] # "open"
  <2>1. outbox' = outbox
    BY <1>1, <1>2 DEF Deliver
  <2>2. QED
    BY <1>1, <2>1, SeenDropping
<1>3. CASE peer[c] = "open"
  <2>1. /\ outbox' = [outbox EXCEPT ![c] = @ \o Exch!NextReplies(c, k)]
        /\ k = 0 => outbox' = outbox
    BY <1>3, SeenReplies
  <2>2. CASE k = 0
    BY <1>1, <2>1, <2>2, SeenDropping
  <2>3. CASE k # 0
    <3>1. /\ State(c) = "open" /\ State(c)' = "over"
          /\ \A d \in Client \ {c} : State(d)' = State(d)
      BY <1>1, <1>3 DEF State, Dropping
    <3>2. Exch!Dismiss(c, k)
      BY <2>1, <3>1 DEF Exch!Dismiss
    <3>3. k \in 1..Exch!Due(c)
      BY <1>1, <1>3, <2>3 DEF Exch!Due
    <3>4. QED
      BY <3>2, <3>3 DEF Exch!Next
  <2>4. QED
    BY <2>2, <2>3
<1>4. QED
  BY <1>2, <1>3

LEMMA WsAccounted ==
  ASSUME WsInv, Ordered
  PROVE  NetTypes /\ \A id \in DOMAIN conns : Accounted(id)
<1>1. \A id \in DOMAIN conns : AnswersOK(id)
  BY DEF Ordered, Owing
<1>2. \A id \in DOMAIN conns : conns[id] \in Conn /\ peer[conns[id].client] # "new"
  BY OrderParts
<1>3. QED
  BY <1>1, <1>2, WsNetTypes DEF AnswersOK, Accounted

\* The clients' own steps, and a visit of an HTTP connection.
LEMMA SeenWsPeers ==
  ASSUME WsInv, WsPeers
  PROVE  Exch!Next
BY WsNetTypes, SeenConnect, SeenHangUp, SeenSend DEF WsPeers, WsSend

LEMMA SeenWsRead ==
  ASSUME WsInv, Ordered, TakenWasSent, NEW id \in DOMAIN conns, WsRead(id)
  PROVE  [Exch!Next]_(Exch!vars)
<1>1. NetTypes /\ Accounted(id)
  BY WsAccounted
<1>2. CASE FlushFails(id)
  BY <1>2, SeenAsNothing DEF FlushFails, netVars
<1>3. ASSUME NEW k, NoRequest(id, k) \/ ReadFails(id, k) \/ FlushBlocks(id, k)
      PROVE  [Exch!Next]_(Exch!vars)
  BY <1>1, <1>3, SeenFlush DEF NoRequest, ReadFails, FlushAll, FlushBlocks
<1>4. ASSUME NEW k, NEW is_close \in BOOLEAN,
             TakeHandshake(id, k) \/ RefuseHandshake(id, k) \/ PassRequest(id, k, is_close)
      PROVE  [Exch!Next]_(Exch!vars)
  <2>1. TakeRequest(id, k)
    BY <1>4 DEF TakeHandshake, RefuseHandshake, PassRequest, NewRequest
  <2>2. QED
    BY <1>1, <2>1, SeenNewRequest
<1>5. QED
  BY <1>2, <1>3, <1>4 DEF WsRead

\* The answer to a handshake, behind which the application may refuse the
\* connection.
LEMMA SeenUpgrade ==
  ASSUME WsInv, Ordered, TakenWasSent, NEW k, NEW is_close \in BOOLEAN, Upgrade(k, is_close)
  PROVE  [Exch!Next]_(Exch!vars)
<1>1. PICK p \in Owed, id \in DOMAIN conns, c \in Client, rs \in Seq(Response) :
        /\ p = Handshake /\ HandshakeOK(p) /\ id = p.conn /\ c = conns[id].client
        /\ pending # <<>> /\ peer[c] # "new" /\ k \in 0..Len(rs) /\ Deliver(c, rs, k)
        /\ pending' = Front(pending) /\ conns' = Restrict(conns, DOMAIN conns \ {id})
        /\ peer' = peer \/ peer' = Dropping({c})
        /\ UNCHANGED <<backlog, stream, taken, conn_seq, owed>>
        /\ peer[c] = "open" =>
             Continues(rs, c, Len(outbox[c])) /\ Len(outbox[c]) + Len(rs) = taken[c]
  BY SwitchingFacts
<1>2. /\ peer[c] # "new" /\ k \in 0..Len(rs) /\ Deliver(c, rs, k)
      /\ peer' = peer \/ peer' = Dropping({c})
      /\ UNCHANGED <<stream, taken>>
      /\ peer[c] = "open" =>
           Continues(rs, c, Len(outbox[c])) /\ Len(outbox[c]) + Len(rs) = taken[c]
  BY <1>1
<1>3. NetTypes /\ taken[c] \in Nat /\ Len(outbox[c]) \in Nat /\ Len(rs) \in Nat
      /\ taken \in [Client -> Nat]
  BY <1>2, WsNetTypes DEF NetTypes
<1>4. peer[c] = "open" => Len(outbox[c]) + k <= taken[c]
  BY <1>2, <1>3
<1>5. CASE peer' = Dropping({c})
  BY <1>2, <1>3, <1>4, <1>5, SeenAsDismissal
<1>6. CASE peer' = peer
  <2>1. PICK take \in 0..1 : take = 0
    OBVIOUS
  <2>2. taken' = [taken EXCEPT ![c] = @ + take] /\ taken[c] + take <= Len(stream[c])
    BY <1>2, <1>3, <2>1 DEF TakenWasSent
  <2>3. QED
    BY <1>2, <1>3, <1>4, <1>6, <2>2, SeenAsServing
<1>7. QED
  BY <1>2, <1>5, <1>6

LEMMA SeenTransform ==
  ASSUME WsInv, Ordered, TakenWasSent, Transform
  PROVE  [Exch!Next]_(Exch!vars)
<1>1. peer \in [Client -> {"new", "open", "gone", "dropped"}]
  BY WsNetTypes DEF NetTypes
<1>2. CASE UpgradeFails
  BY <1>1, <1>2, SeenDropping DEF UpgradeFails, RemoveConns
<1>3. CASE UpgradePanics \/ EndTransform
  BY <1>3, SeenAsNothing DEF UpgradePanics, EndTransform, netVars
<1>4. QED
  BY <1>2, <1>3, SeenUpgrade DEF Transform

\* A message is a request that needs no answer.
LEMMA SeenWsVisit ==
  ASSUME WsInv, NEW id \in DOMAIN ws, WsVisit(id)
  PROVE  [Exch!Next]_(Exch!vars)
<1>1. CASE WsIdle(id) \/ WsReadFails(id)
  BY <1>1, SeenAsNothing DEF WsIdle, WsReadFails, vars, netVars
<1>2. ASSUME NEW is_close \in BOOLEAN, WsMessage(id, is_close)
      PROVE  Exch!Next
  <2>1. PICK c : c = ws[id].client
    OBVIOUS
  <2>2. /\ c \in Client /\ peer[c] \in {"open", "gone", "dropped"}
        /\ taken[c] \in Nat /\ Len(stream[c]) \in Nat
        /\ outbox \in [Client -> Seq(Response)] /\ outbox[c] \in Seq(Response)
    <3>1. c \in Client /\ peer[c] # "new"
      BY <2>1, WsParts DEF Homes
    <3>2. QED
      BY <3>1, WsNetTypes DEF NetTypes
  <2>3. /\ taken[c] < Len(stream[c]) /\ taken' = [taken EXCEPT ![c] = @ + 1]
        /\ UNCHANGED <<peer, stream, outbox>>
    BY <1>2, <2>1 DEF WsMessage, Unread
  <2>4. \A d \in Client : State(d)' = State(d) /\ Len(stream[d])' = Len(stream[d])
    BY <2>3 DEF State
  <2>5. CASE peer[c] = "open"
    <3>1. outbox[c] \o Exch!NextReplies(c, 0) = outbox[c]
      <4>1. Exch!NextReplies(c, 0) = <<>>
        BY DEF Exch!NextReplies
      <4>2. QED
        BY <2>2, <4>1
    <3>2. outbox' = [outbox EXCEPT ![c] = @ \o Exch!NextReplies(c, 0)]
      BY <2>2, <2>3, <3>1
    <3>3. taken[c] + 1 <= Len(stream[c])
      BY <2>2, <2>3
    <3>4. Exch!Serve(c, 0, 1)
      BY <2>2, <2>3, <2>4, <2>5, <3>2, <3>3 DEF Exch!Serve, State
    <3>5. QED
      BY <2>2, <3>4 DEF Exch!Next
  <2>6. CASE peer[c] # "open"
    <3>1. Exch!TakeLate(c)
      <4>1. State(c) = "over"
        BY <2>2, <2>6 DEF State
      <4>2. QED
        BY <2>2, <2>3, <2>4, <4>1 DEF Exch!TakeLate
    <3>2. QED
      BY <2>2, <3>1 DEF Exch!Next
  <2>7. QED
    BY <2>5, <2>6
<1>3. QED
  BY <1>1, <1>2 DEF WsVisit

\* The steps of a tick.
LEMMA SeenWsTick ==
  ASSUME WsInv, Ordered, TakenWasSent, WsTick
  PROVE  [Exch!Next]_(Exch!vars)
<1>1. peer \in [Client -> {"new", "open", "gone", "dropped"}]
  BY WsNetTypes DEF NetTypes
<1>2. CASE AcceptConn \/ AcceptError \/ AcceptDone \/ EndTick
  BY <1>2, SeenAsNothing DEF AcceptConn, AcceptError, AcceptDone, EndTick, netVars
<1>3. CASE AcceptFails
  BY <1>1, <1>3, SeenDropping DEF AcceptFails
<1>4. CASE EndRead("transform")
  BY <1>1, <1>4, SeenDropping DEF EndRead, RemoveConns
<1>5. CASE EndWsRead
  BY <1>1, <1>5, SeenDropping DEF EndWsRead
<1>6. QED
  BY <1>2, <1>3, <1>4, <1>5, SeenWsRead, SeenTransform, SeenWsVisit DEF WsTick, Accept

\* What the application does.
LEMMA SeenWsReply ==
  ASSUME WsInv, Ordered, TakenWasSent, WsReply
  PROVE  [Exch!Next]_(Exch!vars)
<1>1. PICK o \in owed : WriteFails(o) \/ \E k \in Writes(o.conn) : WriteTo(o, k)
  BY DEF WsReply, Reply
<1>2. UNCHANGED wsVars
  BY DEF WsReply
<1>3. CASE WriteFails(o) \/ ~Expects(o.conn)
  BY <1>1, <1>3, SeenAsNothing DEF WriteFails, WriteTo, netVars
<1>4. ASSUME NEW k, WriteTo(o, k), Expects(o.conn)
      PROVE  [Exch!Next]_(Exch!vars)
  <2>1. PICK id \in DOMAIN conns, c \in Client, rs \in Seq(Response), conn \in Conn :
          /\ c = conns[id].client /\ k \in 0..Len(rs)
          /\ outbox' \in [Client -> Seq(Response)]
          /\ UNCHANGED <<stream, taken>>
          /\ Meeting(id, c, rs, k, conn)
    BY <1>2, <1>4, WriteMeets
  <2>2. conn.inflight \in Nat /\ Len(rs) \in Nat
    BY DEF Conn
  <2>3. /\ Deliver(c, rs, k) /\ peer' = peer
        /\ peer[c] = "open" => /\ Continues(rs, c, Len(outbox[c]))
                               /\ Len(outbox[c]) + Len(rs) + conn.inflight = taken'[c]
    BY <2>1 DEF Meeting
  <2>4. NetTypes /\ taken \in [Client -> Nat] /\ taken[c] \in Nat /\ Len(outbox[c]) \in Nat
    BY WsNetTypes DEF NetTypes
  <2>5. peer[c] # "new"
    BY <2>1, OrderParts
  <2>6. peer[c] = "open" => Len(outbox[c]) + k <= taken[c]
    BY <2>1, <2>2, <2>3, <2>4
  <2>7. PICK take \in 0..1 : take = 0
    OBVIOUS
  <2>8. taken' = [taken EXCEPT ![c] = @ + take] /\ taken[c] + take <= Len(stream[c])
    BY <2>1, <2>4, <2>7 DEF TakenWasSent
  <2>9. QED
    BY <2>1, <2>3, <2>4, <2>5, <2>6, <2>8, SeenAsServing
<1>5. QED
  BY <1>1, <1>3, <1>4

LEMMA SeenWsManage ==
  ASSUME WsInv, WsManage
  PROVE  [Exch!Next]_(Exch!vars)
<1>1. peer \in [Client -> {"new", "open", "gone", "dropped"}]
  BY WsNetTypes DEF NetTypes
<1>2. ASSUME NEW id \in DOMAIN conns, CloseConn(id)
      PROVE  [Exch!Next]_(Exch!vars)
  BY <1>2, SeenAsNothing DEF CloseConn, netVars
<1>3. ASSUME NEW id \in DOMAIN conns, RemoveConn(id)
      PROVE  [Exch!Next]_(Exch!vars)
  BY <1>1, <1>3, SeenDropping DEF RemoveConn, RemoveConns
<1>4. ASSUME NEW id \in DOMAIN ws, WsDisconnect(id) \/ WsRemove(id)
      PROVE  [Exch!Next]_(Exch!vars)
  BY <1>1, <1>4, SeenDropping DEF WsDisconnect, WsRemove
<1>5. QED
  BY <1>2, <1>3, <1>4 DEF WsManage, Manage

-----------------------------------------------------------------------------
(* The theorems.                                                           *)

LEMMA InitOrder ==
  ASSUME WsInit
  PROVE  Ordered
<1>1. /\ peer = [c \in Client |-> "new"] /\ backlog = <<>> /\ stream = [c \in Client |-> <<>>]
      /\ taken = [c \in Client |-> 0] /\ outbox = [c \in Client |-> <<>>]
      /\ conns = [id \in {} |-> {}] /\ owed = {}
  BY DEF WsInit, ServerInit
<1>2. DOMAIN conns = {} /\ DOMAIN backlog = {}
  BY <1>1
<1>3. Owing
  BY <1>1, <1>2 DEF Owing, FreshOK
<1>4. Patient
  BY <1>1 DEF Patient
<1>5. ResponsesInOrder
  <2>1. \A c \in Client : Len(outbox[c]) = 0
    BY <1>1
  <2>2. \A c \in Client : \A i \in 1..Len(outbox[c]) : FALSE
    BY <2>1
  <2>3. QED
    BY <2>2 DEF ResponsesInOrder
<1>6. QED
  BY <1>3, <1>4, <1>5 DEF Ordered

LEMMA NextOrder ==
  ASSUME ~Pipelines, WsInv, Ordered, [WsNext]_<<allVars, alive, histVars>>
  PROVE  Ordered'
<1>1. ASSUME WsPeers
      PROVE  Ordered'
  BY <1>1, ConnectOrder, HangUpOrder, SendOrder DEF WsPeers
<1>2. ASSUME WsTick
      PROVE  Ordered'
  <2>1. ASSUME (Accept \/ EndRead("transform")) /\ UNCHANGED wsVars
        PROVE  Ordered'
    BY <2>1, AcceptConnOrder, AcceptEndsOrder, RemoveOrder DEF Accept
  <2>2. ASSUME EndTick /\ UNCHANGED wsVars
        PROVE  Ordered'
    BY <2>2, StillOrder DEF EndTick, netVars, connVars, wsVars
  <2>3. ASSUME NEW id \in DOMAIN conns, WsRead(id)
        PROVE  Ordered'
    <3>1. CASE FlushFails(id) /\ UNCHANGED wsVars
      BY <3>1, StillOrder DEF FlushFails, netVars, connVars, wsVars
    <3>2. CASE \E k \in Writes(id) :
                 (NoRequest(id, k) \/ ReadFails(id, k) \/ FlushBlocks(id, k)) /\ UNCHANGED wsVars
      BY <3>2, VisitOrder
    <3>3. CASE \E k \in Writes(id) :
                 \/ TakeHandshake(id, k)
                 \/ RefuseHandshake(id, k)
                 \/ \E is_close \in BOOLEAN : PassRequest(id, k, is_close)
      BY <3>3, TakeOrder
    <3>4. QED
      BY <2>3, <3>1, <3>2, <3>3 DEF WsRead
  <2>4. ASSUME UpgradePanics \/ EndTransform
        PROVE  Ordered'
    BY <2>4, StillOrder DEF UpgradePanics, EndTransform, netVars, connVars, wsVars
  <2>5. ASSUME Transform
        PROVE  Ordered'
    BY <2>4, <2>5, UpgradeOrder, UpgradeFailsOrder DEF Transform
  <2>6. QED
    BY <1>2, <2>1, <2>2, <2>3, <2>5, WsVisitOrder, WsDropOrder DEF WsTick
<1>3. ASSUME WsManage
      PROVE  Ordered'
  BY <1>3, CloseOrder, RemoveOrder, WsDropOrder DEF WsManage, Manage
<1>4. ASSUME WsShutdown \/ UNCHANGED <<allVars, alive, histVars>>
      PROVE  Ordered'
  BY <1>4, StillOrder DEF WsShutdown, allVars, vars, netVars, connVars, wsVars
<1>5. QED
  BY <1>1, <1>2, <1>3, <1>4, ReplyOrder DEF WsNext, WsStep

\* The inductive invariant of the server for both protocols: where the
\* sockets are, and what is owed to the clients.
THEOREM OrderInvariance == WsSpec => []OrderInv
<1>1. WsInit => OrderInv
  <2>1. WsInit => TakenWasSent
    BY DEF WsInit, ServerInit, TakenWasSent
  <2>2. WsInit => Leaving
    BY DEF WsInit, Leaving
  <2>3. QED
    BY <2>1, <2>2, InitWs, InitOrder DEF OrderInv
<1>2. OrderInv /\ [WsNext]_<<allVars, alive, histVars>> => OrderInv'
  <2> SUFFICES ASSUME OrderInv, [WsNext]_<<allVars, alive, histVars>>
               PROVE  OrderInv'
    OBVIOUS
  <2>1. WsInv /\ Leaving /\ TakenWasSent /\ (~Pipelines => Ordered)
    BY DEF OrderInv
  <2>2. WsInv' /\ Leaving' /\ TakenWasSent'
    BY <2>1, NextWs, NextLeaving, NextTaken
  <2>3. ~Pipelines => Ordered'
    BY <2>1, NextOrder
  <2>4. QED
    BY <2>2, <2>3 DEF OrderInv
<1>3. QED
  BY <1>1, <1>2, PTL DEF WsSpec

\* A client that asks for an upgrade only when it has the answers to what it
\* sent before gets the responses to its own requests, in the order it sent
\* them, the answer to its handshake among them (http_server.rs:60,
\* ws_server.rs:137).
THEOREM AnswersInOrder ==
  ASSUME ~Pipelines
  PROVE  WsSpec => []ResponsesInOrder
<1>1. OrderInv => ResponsesInOrder
  BY DEF OrderInv, Ordered
<1>2. QED
  BY <1>1, OrderInvariance, PTL

\* The server for both protocols implements the same exchange: a handshake is
\* a request, answered in its turn, and a message is one that nobody answers,
\* if clients wait with a handshake for the answers to what they sent before
\* (ws_server.rs:113-151, 176-201).
THEOREM WsImplementation ==
  ASSUME ~Pipelines
  PROVE  WsSpec => ImplementsExchange
<1>1. WsInit => Exch!Init
  BY DEF WsInit, ServerInit, Exch!Init, State
<1>2. OrderInv /\ [WsNext]_<<allVars, alive, histVars>> => [Exch!Next]_(Exch!vars)
  <2> SUFFICES ASSUME OrderInv, [WsNext]_<<allVars, alive, histVars>>
               PROVE  [Exch!Next]_(Exch!vars)
    OBVIOUS
  <2>1. WsInv /\ Ordered /\ TakenWasSent
    BY DEF OrderInv
  <2>2. CASE WsShutdown \/ UNCHANGED <<allVars, alive, histVars>>
    BY <2>2, SeenAsNothing DEF WsShutdown, allVars, vars, netVars
  <2>3. CASE WsPeers \/ WsTick
    BY <2>1, <2>3, SeenWsPeers, SeenWsTick
  <2>4. CASE WsReply \/ WsManage
    BY <2>1, <2>4, SeenWsReply, SeenWsManage
  <2>5. QED
    BY <2>2, <2>3, <2>4 DEF WsNext, WsStep
<1>3. QED
  BY <1>1, <1>2, OrderInvariance, PTL DEF WsSpec, ImplementsExchange, Exch!Spec
=============================================================================
