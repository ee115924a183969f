--------------------------- MODULE WsServerProofs ---------------------------
(***************************************************************************)
(* Proofs, for any clients and number of requests, about the server for    *)
(* both protocols: a socket is in one map at most, the connection of a     *)
(* pending handshake is there with its request in flight, the application  *)
(* is told of every WebSocket connection, and one shutdown ends them all.  *)
(*                                                                         *)
(* The invariant says, for each part of a tick, what its lists hold: a     *)
(* handshake is the last request of a connection that the server will not  *)
(* visit again, so nothing can come between it and its answer.             *)
(***************************************************************************)
EXTENDS WsServer, HttpServerProofs

\* Lists of ids and handshakes exist only in the part of a tick that uses them.
WsPhaseOK ==
  /\ todo \cap remove_conn = {}
  /\ phase # "read" => todo = {} /\ remove_conn = {}
  /\ phase # "wsread" => ws_todo = {} /\ ws_remove = {}
  /\ phase \in {"accept", "wsread", "tick"} => pending = <<>>

\* A socket is in the listen queue once, or in one of the maps once.
Homes ==
  /\ OneConnPerClient
  /\ OneHome
  /\ \A id \in DOMAIN conns : peer[conns[id].client] # "new"
  /\ \A id \in DOMAIN ws : peer[ws[id].client] # "new"
  /\ \A i \in DOMAIN backlog :
       /\ peer[backlog[i]] # "new"
       /\ \A id \in DOMAIN ws : backlog[i] # ws[id].client

\* A handshake is the last request of its connection, which nobody visits or
\* removes before the handshake is answered.
HandshakeOK(p) ==
  /\ Expects(p.conn)
  /\ conns[p.conn].client = p.client
  /\ p.conn \notin todo \cup remove_conn
  /\ p.n = taken[p.client]
  /\ p.n \in DOMAIN stream[p.client]
  /\ stream[p.client][p.n] = "upgrade"

Handshakes ==
  /\ \A i \in DOMAIN pending : HandshakeOK(pending[i])
  /\ \A i, j \in DOMAIN pending : pending[i].conn = pending[j].conn => i = j

\* The invariant; what a shutdown does is apart, in Leaving.
WsInv ==
  WsTypeOK /\ WsPhaseOK /\ Homes /\ Handshakes /\ AppKnowsConns

\* In a pass that began after a shutdown no connection survives its visit.
Leaving ==
  /\ {handed, doomed} \subseteq BOOLEAN
  /\ doomed => ~alive
  /\ phase = "wsread" /\ doomed => DOMAIN ws \subseteq ws_todo \cup ws_remove

-----------------------------------------------------------------------------
(* Parts of a step.                                                        *)

LEMMA WsParts ==
  ASSUME WsInv
  PROVE  /\ WsTypeOK /\ WsPhaseOK /\ Homes /\ Handshakes
         /\ AppKnowsConns
         /\ \A id \in DOMAIN conns :
              conns[id] \in Conn /\ conns[id].client \in Client /\ conns[id].wbuf \in Seq(Response)
         /\ \A id \in DOMAIN ws : ws[id] \in WsConn /\ ws[id].client \in Client
         /\ \A i \in DOMAIN pending : pending[i] \in Owed /\ pending[i].client \in Client
<1>1. /\ WsTypeOK /\ WsPhaseOK /\ Homes /\ Handshakes
      /\ AppKnowsConns
  BY DEF WsInv
<1>2. \A i \in DOMAIN pending : pending[i] \in Owed
  BY <1>1 DEF WsTypeOK
<1>3. \A o \in Owed : o.client \in Client
  BY DEF Owed
<1>4. QED
  BY <1>1, <1>2, <1>3 DEF WsTypeOK, Conn, WsConn

\* A write takes no more than there is, and reaches one client at most.
LEMMA DeliverTyped ==
  ASSUME outbox \in [Client -> Seq(Response)], NEW c \in Client, NEW rs \in Seq(Response),
         NEW k \in Accepts(Len(rs)), Deliver(c, rs, k)
  PROVE  /\ k \in 0..Len(rs)
         /\ outbox' \in [Client -> Seq(Response)]
         /\ \A d \in Client \ {c} : outbox'[d] = outbox[d]
         /\ Unsent(rs, k) \in Seq(Response)
<1>1. k \in 0..Len(rs) /\ Len(rs) \in Nat
  BY AcceptsBounds
<1>2. SubSeq(rs, 1, k) \in Seq(Response)
  <2>1. \A i \in 1..k : rs[i] \in Response
    BY <1>1
  <2>2. QED
    BY <1>1, <2>1, SubSeqProperties
<1>3. outbox[c] \o SubSeq(rs, 1, k) \in Seq(Response)
  BY <1>2, ConcatProperties
<1>4. Unsent(rs, k) \in Seq(Response)
  BY <1>1, UnsentProperties
<1>5. QED
  BY <1>1, <1>3, <1>4 DEF Deliver

LEMMA DroppingTyped ==
  ASSUME WsTypeOK, NEW S, peer' = Dropping(S)
  PROVE  /\ peer' \in [Client -> {"new", "open", "gone", "dropped"}]
         /\ \A c \in Client : peer[c] # "new" => peer'[c] # "new"
         /\ \A c \in Client : peer'[c] = "open" => peer[c] = "open"
BY DEF WsTypeOK, Dropping

\* No socket moves.
LEMMA HomesFrame ==
  ASSUME WsTypeOK, Homes, backlog' = backlog,
         DOMAIN conns' \subseteq DOMAIN conns,
         \A id \in DOMAIN conns' : conns'[id].client = conns[id].client,
         DOMAIN ws' \subseteq DOMAIN ws,
         \A id \in DOMAIN ws' : ws'[id].client = ws[id].client,
         \A c \in Client : peer[c] # "new" => peer'[c] # "new"
  PROVE  Homes'
<1>1. /\ \A id \in DOMAIN conns : conns[id].client \in Client
      /\ \A id \in DOMAIN ws : ws[id].client \in Client
      /\ \A i \in DOMAIN backlog : backlog[i] \in Client
  BY DEF WsTypeOK, Conn, WsConn
<1>2. OneConnPerClient'
  BY DEF Homes, OneConnPerClient
<1>3. OneHome'
  BY DEF Homes, OneHome
<1>4. QED
  BY <1>1, <1>2, <1>3 DEF Homes

\* Nothing happens to the connections of the handshakes that are left.
LEMMA HandshakesFrame ==
  ASSUME Handshakes, DOMAIN pending' \subseteq DOMAIN pending,
         \A i \in DOMAIN pending' : pending'[i] = pending[i],
         stream' = stream,
         \A i \in DOMAIN pending' :
           /\ pending[i].conn \in DOMAIN conns'
           /\ conns'[pending[i].conn] = conns[pending[i].conn]
           /\ taken'[pending[i].client] = taken[pending[i].client]
           /\ pending[i].conn \notin todo' \cup remove_conn'
  PROVE  Handshakes'
<1>1. ASSUME NEW i \in DOMAIN pending'
      PROVE  HandshakeOK(pending[i])'
  <2>1. /\ HandshakeOK(pending[i]) /\ pending'[i] = pending[i]
        /\ pending[i].conn \in DOMAIN conns' /\ conns'[pending[i].conn] = conns[pending[i].conn]
        /\ taken'[pending[i].client] = taken[pending[i].client]
        /\ pending[i].conn \notin todo' \cup remove_conn'
    BY <1>1 DEF Handshakes
  <2>2. QED
    BY <2>1 DEF HandshakeOK, Expects
<1>2. QED
  BY <1>1 DEF Handshakes

LEMMA NoHandshakes ==
  ASSUME pending' = <<>>
  PROVE  Handshakes'
BY DEF Handshakes

-----------------------------------------------------------------------------
(* The clients.                                                            *)

LEMMA WsConnectKeeps ==
  ASSUME WsInv, NEW c \in Client, Connect(c), UNCHANGED <<wsVars, alive>>
  PROVE  WsInv'
<1>1. /\ WsTypeOK /\ WsPhaseOK /\ Homes /\ Handshakes
      /\ AppKnowsConns
      /\ \A id \in DOMAIN conns : conns[id].client \in Client
      /\ \A id \in DOMAIN ws : ws[id].client \in Client
  BY WsParts
<1>2. /\ peer[c] = "new" /\ peer' = [peer EXCEPT ![c] = "open"] /\ backlog' = Append(backlog, c)
      /\ UNCHANGED <<stream, taken, outbox, conn_seq, conns, phase, todo, remove_conn, owed,
                     pending, ws, ws_todo, ws_remove, known, alive>>
  BY DEF Connect, connVars, tickVars, wsVars
<1>3. /\ DOMAIN backlog' = DOMAIN backlog \cup {Len(backlog) + 1} /\ Len(backlog) \in Nat
      /\ backlog'[Len(backlog) + 1] = c
      /\ \A i \in DOMAIN backlog : backlog'[i] = backlog[i] /\ backlog[i] \in Client
      /\ backlog' \in Seq(Client)
  <2>1. backlog \in Seq(Client)
    BY <1>1 DEF WsTypeOK
  <2>2. QED
    BY <1>2, <2>1
<1>4. \A d \in Client : peer[d] # "new" => peer'[d] = peer[d] /\ d # c
  BY <1>1, <1>2 DEF WsTypeOK
<1>5. peer' \in [Client -> {"new", "open", "gone", "dropped"}] /\ peer'[c] = "open"
  BY <1>1, <1>2 DEF WsTypeOK
<1>6. WsTypeOK'
  BY <1>1, <1>2, <1>3, <1>5 DEF WsTypeOK
<1>7. Homes'
  <2>1. OneConnPerClient'
    BY <1>1, <1>2, <1>3, <1>4 DEF Homes, OneConnPerClient
  <2>2. OneHome'
    BY <1>1, <1>2 DEF Homes, OneHome
  <2>3. \A i \in DOMAIN backlog' :
          peer'[backlog'[i]] # "new" /\ \A id \in DOMAIN ws : backlog'[i] # ws[id].client
    BY <1>1, <1>3, <1>4, <1>5 DEF Homes
  <2>4. QED
    BY <1>1, <1>2, <1>4, <2>1, <2>2, <2>3 DEF Homes
<1>8. Handshakes'
  BY <1>1, <1>2 DEF Handshakes, HandshakeOK, Expects
<1>9. QED
  BY <1>1, <1>2, <1>6, <1>7, <1>8 DEF WsInv, WsPhaseOK, AppKnowsConns

LEMMA WsHangUpKeeps ==
  ASSUME WsInv, NEW c \in Client, HangUp(c), UNCHANGED <<wsVars, alive>>
  PROVE  WsInv'
<1>1. /\ WsTypeOK /\ WsPhaseOK /\ Homes /\ Handshakes
      /\ AppKnowsConns
      /\ \A id \in DOMAIN ws : ws[id].client \in Client
  BY WsParts
<1>2. /\ peer[c] = "open" /\ peer' = [peer EXCEPT ![c] = "gone"]
      /\ UNCHANGED <<backlog, stream, taken, outbox, conn_seq, conns, phase, todo, remove_conn,
                     owed, pending, ws, ws_todo, ws_remove, known, alive>>
  BY DEF HangUp, connVars, tickVars, wsVars
<1>3. /\ peer' \in [Client -> {"new", "open", "gone", "dropped"}]
      /\ \A d \in Client : peer[d] # "new" => peer'[d] # "new"
      /\ \A d \in Client : peer'[d] = "open" => peer[d] = "open"
  BY <1>1, <1>2 DEF WsTypeOK
<1>4. WsTypeOK'
  BY <1>1, <1>2, <1>3 DEF WsTypeOK
<1>5. Homes'
  BY <1>1, <1>2, <1>3, HomesFrame
<1>6. Handshakes'
  BY <1>1, <1>2 DEF Handshakes, HandshakeOK, Expects
<1>7. QED
  BY <1>1, <1>2, <1>4, <1>5, <1>6 DEF WsInv, WsPhaseOK, AppKnowsConns

LEMMA WsSendKeeps ==
  ASSUME WsInv, NEW c \in Client, NEW kind \in Kinds, WsSend(c, kind), UNCHANGED alive
  PROVE  WsInv'
<1>1. /\ WsTypeOK /\ WsPhaseOK /\ Homes /\ Handshakes
      /\ AppKnowsConns
      /\ \A id \in DOMAIN ws : ws[id].client \in Client
      /\ \A i \in DOMAIN pending : pending[i].client \in Client
  BY WsParts
<1>2. /\ stream' = [stream EXCEPT ![c] = Append(@, kind)]
      /\ UNCHANGED <<peer, backlog, taken, outbox, conn_seq, conns, phase, todo, remove_conn,
                     owed, pending, ws, ws_todo, ws_remove, known, alive>>
  BY DEF WsSend, Send, connVars, tickVars, wsVars
<1>3. stream' \in [Client -> Seq(Kinds)]
  BY <1>1, <1>2 DEF WsTypeOK
<1>4. ASSUME NEW d \in Client, NEW n \in DOMAIN stream[d]
      PROVE  n \in DOMAIN stream'[d] /\ stream'[d][n] = stream[d][n]
  <2>1. stream[d] \in Seq(Kinds)
    BY <1>1 DEF WsTypeOK
  <2>2. CASE d = c
    BY <1>1, <1>2, <2>1, <2>2 DEF WsTypeOK
  <2>3. CASE d # c
    BY <1>1, <1>2, <2>3 DEF WsTypeOK
  <2>4. QED
    BY <2>2, <2>3
<1>5. WsTypeOK'
  BY <1>1, <1>2, <1>3 DEF WsTypeOK
<1>6. Homes'
  BY <1>1, <1>2, HomesFrame
<1>7. Handshakes'
  <2>1. \A i \in DOMAIN pending : HandshakeOK(pending[i])'
    BY <1>1, <1>2, <1>4 DEF Handshakes, HandshakeOK, Expects
  <2>2. QED
    BY <1>1, <1>2, <2>1 DEF Handshakes
<1>8. QED
  BY <1>1, <1>2, <1>5, <1>6, <1>7 DEF WsInv, WsPhaseOK, AppKnowsConns

-----------------------------------------------------------------------------
(* The HTTP connections.                                                   *)

\* One connection meets its socket, in tick_read or in a reply.
LEMMA MeetKeeps ==
  ASSUME WsInv, NEW id \in DOMAIN conns, NEW conn \in Conn, conn.client = conns[id].client,
         DOMAIN conns' = DOMAIN conns, conns'[id] = conn,
         \A j \in DOMAIN conns \ {id} : conns'[j] = conns[j],
         outbox' \in [Client -> Seq(Response)],
         \A d \in Client \ {conn.client} : outbox'[d] = outbox[d],
         taken' \in [Client -> Nat],
         UNCHANGED <<peer, backlog, stream, conn_seq, phase, ws, ws_todo, ws_remove, known,
                     alive>>,
         todo' \subseteq todo, remove_conn' \subseteq remove_conn \cup {id},
         \A o \in owed' : o \in Owed, pending' \in Seq(Owed), WsPhaseOK', Handshakes'
  PROVE  WsInv'
<1>1. /\ WsTypeOK /\ Homes /\ AppKnowsConns
      /\ \A j \in DOMAIN ws : ws[j].client \in Client
  BY WsParts
<1>2. \A j \in DOMAIN conns' : conns'[j] \in Conn /\ conns'[j].client = conns[j].client
  BY <1>1 DEF WsTypeOK
<1>3. todo' \cup remove_conn' \subseteq DOMAIN conns'
  BY <1>1 DEF WsTypeOK
<1>4. WsTypeOK'
  BY <1>1, <1>2, <1>3 DEF WsTypeOK
<1>5. Homes'
  BY <1>1, <1>2, HomesFrame
<1>6. \A j \in DOMAIN ws : ws[j].client # conn.client
  BY <1>1 DEF Homes, OneHome
<1>7. QED
  BY <1>1, <1>4, <1>5 DEF WsInv, AppKnowsConns

\* A visit leaves the handshakes of other connections alone.
LEMMA VisitHandshakes ==
  ASSUME WsInv, NEW id \in todo, pending' = pending, stream' = stream,
         DOMAIN conns' = DOMAIN conns, \A j \in DOMAIN conns \ {id} : conns'[j] = conns[j],
         \A d \in Client \ {conns[id].client} : taken'[d] = taken[d],
         todo' \subseteq todo, remove_conn' \subseteq remove_conn \cup {id}
  PROVE  Handshakes'
<1>1. /\ WsTypeOK /\ Homes /\ Handshakes
      /\ \A i \in DOMAIN pending : pending[i].client \in Client
  BY WsParts
<1>2. id \in DOMAIN conns
  BY <1>1 DEF WsTypeOK
<1>3. ASSUME NEW i \in DOMAIN pending
      PROVE  /\ pending[i].conn \in DOMAIN conns /\ pending[i].conn # id
             /\ pending[i].client # conns[id].client
             /\ pending[i].conn \notin todo \cup remove_conn
  <2>1. HandshakeOK(pending[i])
    BY <1>1 DEF Handshakes
  <2>2. QED
    BY <1>1, <1>2, <2>1 DEF HandshakeOK, Expects, Homes, OneConnPerClient
<1>4. QED
  BY <1>1, <1>3, HandshakesFrame

\* What the flush at the head of read_request does.
LEMMA WsFlush ==
  ASSUME WsInv, NEW id \in DOMAIN conns, NEW k, Flush(id, k)
  PROVE  /\ outbox' \in [Client -> Seq(Response)]
         /\ \A d \in Client \ {conns[id].client} : outbox'[d] = outbox[d]
         /\ Flushed(conns[id], k) \in Conn
         /\ Flushed(conns[id], k).client = conns[id].client
         /\ Took(conns[id], k) \in Conn
         /\ Took(conns[id], k).client = conns[id].client
         /\ Took(conns[id], k).inflight = conns[id].inflight + 1
<1> DEFINE conn == conns[id]
<1>1. conn \in Conn /\ conn.client \in Client /\ conn.wbuf \in Seq(Response)
  BY WsParts
<1>2. k \in Accepts(Len(conn.wbuf)) /\ Deliver(conn.client, conn.wbuf, k)
  BY DEF Flush
<1>3. outbox \in [Client -> Seq(Response)]
  BY WsParts DEF WsTypeOK
<1>4. /\ outbox' \in [Client -> Seq(Response)]
      /\ \A d \in Client \ {conn.client} : outbox'[d] = outbox[d]
      /\ Unsent(conn.wbuf, k) \in Seq(Response)
  BY <1>1, <1>2, <1>3, DeliverTyped
<1>5. conn.inflight \in Nat
  BY <1>1 DEF Conn
<1>6. /\ Flushed(conn, k) \in Conn /\ Flushed(conn, k).client = conn.client
      /\ Flushed(conn, k).inflight = conn.inflight
  BY <1>1, <1>4 DEF Flushed, Conn
<1>7. /\ Took(conn, k) \in Conn /\ Took(conn, k).client = conn.client
      /\ Took(conn, k).inflight = conn.inflight + 1
  BY <1>5, <1>6 DEF Took, Conn
<1>8. QED
  BY <1>4, <1>6, <1>7

\* A visit that takes no request.
LEMMA WsQuietVisit ==
  ASSUME WsInv, NEW id \in DOMAIN conns, NEW k,
         NoRequest(id, k) \/ ReadFails(id, k) \/ FlushBlocks(id, k),
         UNCHANGED <<wsVars, alive>>
  PROVE  WsInv'
<1>1. WsTypeOK /\ WsPhaseOK /\ conns[id].client \in Client
  BY WsParts
<1>2. /\ Visiting(id) /\ Flush(id, k) /\ conns' = [conns EXCEPT ![id] = Flushed(@, k)]
      /\ todo' = todo \ {id} /\ remove_conn' \in {remove_conn, remove_conn \cup {id}}
      /\ UNCHANGED <<peer, backlog, stream, taken, conn_seq, phase, owed,
                     pending, ws, ws_todo, ws_remove, known, alive>>
  BY DEF NoRequest, ReadFails, FlushAll, FlushBlocks, wsVars
<1>3. id \in todo /\ phase = "read"
  BY <1>2 DEF Visiting
<1> DEFINE conn == Flushed(conns[id], k)
<1>4. /\ conn \in Conn /\ conn.client = conns[id].client
      /\ outbox' \in [Client -> Seq(Response)]
      /\ \A d \in Client \ {conns[id].client} : outbox'[d] = outbox[d]
  BY <1>2, WsFlush
<1>5. /\ DOMAIN conns' = DOMAIN conns /\ conns'[id] = conn
      /\ \A j \in DOMAIN conns \ {id} : conns'[j] = conns[j]
  BY <1>2
<1> HIDE DEF conn
<1>6. Handshakes'
  BY <1>2, <1>3, <1>5, VisitHandshakes
<1>7. WsPhaseOK' /\ taken' \in [Client -> Nat] /\ pending' \in Seq(Owed)
      /\ \A o \in owed' : o \in Owed
  BY <1>1, <1>2, <1>3 DEF WsPhaseOK, WsTypeOK
<1>8. QED
  BY <1>2, <1>4, <1>5, <1>6, <1>7, MeetKeeps

LEMMA WsFlushFailsKeeps ==
  ASSUME WsInv, NEW id \in DOMAIN conns, FlushFails(id), UNCHANGED <<wsVars, alive>>
  PROVE  WsInv'
<1>1. WsTypeOK /\ WsPhaseOK /\ conns[id] \in Conn
  BY WsParts
<1>2. /\ phase = "read" /\ id \in todo
      /\ todo' = todo \ {id} /\ remove_conn' = remove_conn \cup {id}
      /\ UNCHANGED <<peer, backlog, stream, taken, outbox, conn_seq, conns, phase, owed,
                     pending, ws, ws_todo, ws_remove, known, alive>>
  BY DEF FlushFails, Visiting, netVars, connVars, wsVars
<1>3. Handshakes'
  BY <1>2, VisitHandshakes
<1>4. /\ WsPhaseOK' /\ taken' \in [Client -> Nat] /\ outbox' \in [Client -> Seq(Response)]
      /\ pending' \in Seq(Owed) /\ \A o \in owed' : o \in Owed
  BY <1>1, <1>2 DEF WsPhaseOK, WsTypeOK
<1>5. QED
  BY <1>1, <1>2, <1>3, <1>4, MeetKeeps

\* A visit that takes a request.
LEMMA WsTake ==
  ASSUME WsInv, NEW id \in DOMAIN conns, NEW k, TakeRequest(id, k)
  PROVE  LET c == conns[id].client IN
         /\ id \in todo /\ phase = "read" /\ todo' = todo \ {id}
         /\ Flush(id, k)
         /\ taken' \in [Client -> Nat] /\ taken'[c] = taken[c] + 1
         /\ taken[c] + 1 \in DOMAIN stream[c]
         /\ \A d \in Client \ {c} : taken'[d] = taken[d]
         /\ Ticket(id) \in Owed
         /\ UNCHANGED <<peer, backlog, stream, conn_seq, phase, remove_conn>>
<1> DEFINE c == conns[id].client
<1>1. c \in Client /\ WsTypeOK
  BY WsParts
<1>2. /\ Visiting(id) /\ Flush(id, k) /\ taken[c] < Len(stream[c])
      /\ taken' = [taken EXCEPT ![c] = @ + 1] /\ todo' = todo \ {id}
      /\ UNCHANGED <<peer, backlog, stream, conn_seq, phase, remove_conn>>
  BY DEF TakeRequest, FlushAll, Unread
<1>3. taken \in [Client -> Nat] /\ taken[c] \in Nat /\ stream[c] \in Seq(Kinds)
  BY <1>1 DEF WsTypeOK
<1>4. taken[c] + 1 \in DOMAIN stream[c]
  BY <1>2, <1>3
<1>5. id \in Nat
  BY <1>1 DEF WsTypeOK
<1>6. Ticket(id) \in Owed
  BY <1>1, <1>3, <1>5 DEF Ticket, Owed
<1>7. taken' \in [Client -> Nat] /\ taken'[c] = taken[c] + 1
  BY <1>1, <1>2, <1>3
<1>8. QED
  BY <1>2, <1>3, <1>4, <1>6, <1>7 DEF Visiting

LEMMA WsPassKeeps ==
  ASSUME WsInv, NEW id \in DOMAIN conns, NEW k, NEW is_close \in BOOLEAN,
         PassRequest(id, k, is_close) \/ RefuseHandshake(id, k), UNCHANGED alive
  PROVE  WsInv'
<1>1. WsTypeOK /\ WsPhaseOK
  BY WsParts
<1>2. /\ TakeRequest(id, k)
      /\ \/ conns' = [conns EXCEPT ![id] = TryClose(Took(@, k))]
         \/ conns' = [conns EXCEPT ![id] = Took(@, k)]
      /\ owed' = owed \cup {Ticket(id)} \/ owed' = owed
      /\ UNCHANGED <<pending, ws, ws_todo, ws_remove, known, alive>>
  BY DEF PassRequest, NewRequest, RefuseHandshake, wsVars
<1>3. /\ id \in todo /\ phase = "read" /\ todo' = todo \ {id} /\ Flush(id, k)
      /\ taken' \in [Client -> Nat] /\ Ticket(id) \in Owed
      /\ \A d \in Client \ {conns[id].client} : taken'[d] = taken[d]
      /\ UNCHANGED <<peer, backlog, stream, conn_seq, phase, remove_conn>>
  BY <1>2, WsTake
<1>4. /\ Took(conns[id], k) \in Conn /\ Took(conns[id], k).client = conns[id].client
      /\ outbox' \in [Client -> Seq(Response)]
      /\ \A d \in Client \ {conns[id].client} : outbox'[d] = outbox[d]
  BY <1>3, WsFlush
<1>5. /\ TryClose(Took(conns[id], k)) \in Conn
      /\ TryClose(Took(conns[id], k)).client = conns[id].client
  BY <1>4 DEF TryClose, Conn
<1>6. PICK conn \in Conn : /\ conn.client = conns[id].client
                           /\ conns' = [conns EXCEPT ![id] = conn]
  BY <1>2, <1>4, <1>5
<1>7. /\ DOMAIN conns' = DOMAIN conns /\ conns'[id] = conn
      /\ \A j \in DOMAIN conns \ {id} : conns'[j] = conns[j]
  BY <1>6
<1>8. Handshakes'
  BY <1>2, <1>3, <1>7, VisitHandshakes
<1>9. WsPhaseOK' /\ pending' \in Seq(Owed) /\ \A o \in owed' : o \in Owed
  BY <1>1, <1>2, <1>3 DEF WsPhaseOK, WsTypeOK
<1>10. QED
  BY <1>2, <1>3, <1>4, <1>6, <1>7, <1>8, <1>9, MeetKeeps

\* A handshake is put aside.
LEMMA WsHandshakeKeeps ==
  ASSUME WsInv, NEW id \in DOMAIN conns, NEW k, TakeHandshake(id, k), UNCHANGED alive
  PROVE  WsInv'
<1> DEFINE c    == conns[id].client
           conn == Took(conns[id], k)
<1>1. /\ WsTypeOK /\ WsPhaseOK /\ Homes /\ Handshakes /\ c \in Client
      /\ \A i \in DOMAIN pending : pending[i] \in Owed /\ pending[i].client \in Client
  BY WsParts
<1>2. /\ TakeRequest(id, k) /\ NextKind(c) = "upgrade"
      /\ conns' = [conns EXCEPT ![id] = conn] /\ pending' = Append(pending, Ticket(id))
      /\ UNCHANGED <<owed, ws, ws_todo, ws_remove, known, alive>>
  BY DEF TakeHandshake
<1>3. /\ id \in todo /\ phase = "read" /\ todo' = todo \ {id} /\ Flush(id, k)
      /\ taken' \in [Client -> Nat] /\ taken'[c] = taken[c] + 1
      /\ taken[c] + 1 \in DOMAIN stream[c]
      /\ \A d \in Client \ {c} : taken'[d] = taken[d]
      /\ Ticket(id) \in Owed
      /\ UNCHANGED <<peer, backlog, stream, conn_seq, phase, remove_conn>>
  BY <1>2, WsTake
<1>4. /\ conn \in Conn /\ conn.client = c /\ conn.inflight = conns[id].inflight + 1
      /\ outbox' \in [Client -> Seq(Response)]
      /\ \A d \in Client \ {c} : outbox'[d] = outbox[d]
  BY <1>3, WsFlush
<1>5. /\ DOMAIN conns' = DOMAIN conns /\ conns'[id] = conn
      /\ \A j \in DOMAIN conns \ {id} : conns'[j] = conns[j]
  BY <1>2
<1>6. PICK t \in Owed : t = Ticket(id)
  BY <1>3
<1>7. /\ t.conn = id /\ t.client = c /\ t.n = taken[c] + 1
      /\ conns[id].inflight \in Nat
  BY <1>1, <1>6 DEF Ticket, WsTypeOK, Conn
<1> HIDE DEF conn
<1>8. /\ pending' \in Seq(Owed) /\ Len(pending) \in Nat
      /\ DOMAIN pending' = DOMAIN pending \cup {Len(pending) + 1}
      /\ pending'[Len(pending) + 1] = t
      /\ \A i \in DOMAIN pending : pending'[i] = pending[i]
  <2>1. pending \in Seq(Owed)
    BY <1>1 DEF WsTypeOK
  <2>2. QED
    BY <1>2, <1>3, <1>6, <2>1
<1>9. \A i \in DOMAIN pending : HandshakeOK(pending[i])' /\ pending[i].conn # id
  <2> SUFFICES ASSUME NEW i \in DOMAIN pending
               PROVE  HandshakeOK(pending[i])' /\ pending[i].conn # id
    OBVIOUS
  <2>1. HandshakeOK(pending[i])
    BY <1>1 DEF Handshakes
  <2>2. pending[i].conn # id /\ pending[i].conn \in DOMAIN conns
    BY <1>3, <2>1 DEF HandshakeOK, Expects
  <2>3. pending[i].client # c
    BY <1>1, <2>1, <2>2 DEF HandshakeOK, Homes, OneConnPerClient
  <2>4. QED
    BY <1>1, <1>3, <1>5, <1>8, <2>1, <2>2, <2>3 DEF HandshakeOK, Expects
<1>10. HandshakeOK(t)'
  <2>1. id \notin todo' \cup remove_conn'
    BY <1>1, <1>3 DEF WsPhaseOK
  <2>2. stream[c][taken[c] + 1] = "upgrade"
    BY <1>2 DEF NextKind
  <2>3. id \in DOMAIN conns' /\ conn.inflight > 0
    BY <1>4, <1>5, <1>7
  <2>4. QED
    BY <1>3, <1>4, <1>5, <1>7, <2>1, <2>2, <2>3 DEF HandshakeOK, Expects
<1>11. Handshakes'
  <2>1. \A i \in DOMAIN pending' : HandshakeOK(pending[i])'
    BY <1>8, <1>9, <1>10
  <2>2. \A i, j \in DOMAIN pending : pending[i].conn = pending[j].conn => i = j
    BY <1>1 DEF Handshakes
  <2>3. \A i, j \in DOMAIN pending' : pending'[i].conn = pending'[j].conn => i = j
    BY <1>7, <1>8, <1>9, <2>2
  <2>4. QED
    BY <2>1, <2>3 DEF Handshakes
<1>12. WsPhaseOK' /\ \A o \in owed' : o \in Owed
  BY <1>1, <1>2, <1>3 DEF WsPhaseOK, WsTypeOK
<1>13. QED
  BY <1>2, <1>3, <1>4, <1>5, <1>8, <1>11, <1>12, MeetKeeps

\* The socket at the head of the listen queue becomes a connection.
LEMMA WsAcceptConnKeeps ==
  ASSUME WsInv, AcceptConn, UNCHANGED <<wsVars, alive>>
  PROVE  WsInv'
<1>1. /\ WsTypeOK /\ WsPhaseOK /\ Homes /\ Handshakes
      /\ AppKnowsConns
  BY WsParts
<1>2. PICK c, id : c = Head(backlog) /\ id = conn_seq
  OBVIOUS
<1>3. /\ phase = "accept" /\ backlog # <<>> /\ backlog' = Tail(backlog)
      /\ conns' = [j \in DOMAIN conns \cup {id} |-> IF j = id THEN NewConn(c) ELSE conns[j]]
      /\ conn_seq' = id + 1
      /\ UNCHANGED <<peer, stream, taken, outbox, phase, todo, remove_conn, owed,
                     pending, ws, ws_todo, ws_remove, known, alive>>
  BY <1>2 DEF AcceptConn, AddConn, NextId, tickVars, wsVars
<1>4. /\ c \in Client /\ c = backlog[1] /\ 1 \in DOMAIN backlog
      /\ backlog' \in Seq(Client)
      /\ \A i \in DOMAIN backlog' : /\ i + 1 \in DOMAIN backlog /\ i + 1 # 1
                                    /\ i \in Nat /\ backlog'[i] = backlog[i + 1]
  BY <1>1, <1>2, <1>3, TailProperties DEF WsTypeOK
<1>5. /\ id \in Nat /\ DOMAIN conns \cup DOMAIN ws \subseteq 0..(id - 1)
      /\ id \notin DOMAIN conns /\ id \notin DOMAIN ws
  BY <1>1, <1>2 DEF WsTypeOK
<1>6. /\ DOMAIN conns' = DOMAIN conns \cup {id}
      /\ conns'[id] = [client |-> c, inflight |-> 0, closed |-> FALSE, wbuf |-> <<>>]
      /\ \A j \in DOMAIN conns : conns'[j] = conns[j]
  BY <1>3, <1>5 DEF NewConn
<1>7. WsTypeOK'
  <2>1. conns'[id] \in Conn
    BY <1>4, <1>6 DEF Conn
  <2>2. DOMAIN conns' \cup DOMAIN ws' \subseteq 0..(conn_seq' - 1) /\ conn_seq' \in Nat
    BY <1>3, <1>5, <1>6
  <2>3. \A j \in DOMAIN conns' : conns'[j] \in Conn
    BY <1>1, <1>6, <2>1 DEF WsTypeOK
  <2>4. todo' \cup remove_conn' \subseteq DOMAIN conns'
    BY <1>1, <1>3, <1>6 DEF WsTypeOK
  <2>5. QED
    BY <1>1, <1>3, <1>4, <2>2, <2>3, <2>4 DEF WsTypeOK
<1>8. /\ \A j \in DOMAIN conns : conns[j].client # c
      /\ \A j \in DOMAIN ws : ws[j].client # c
      /\ \A i \in DOMAIN backlog' : backlog'[i] # c
      /\ peer[c] # "new"
  <2>1. \A i \in DOMAIN backlog : backlog[i] = c => i = 1
    BY <1>1, <1>4 DEF Homes, OneConnPerClient
  <2>2. QED
    BY <1>1, <1>4, <2>1 DEF Homes, OneConnPerClient
<1>9. Homes'
  <2>1. /\ \A i, j \in DOMAIN backlog' : backlog'[i] = backlog'[j] => i = j
        /\ \A i \in DOMAIN backlog', j \in DOMAIN conns : backlog'[i] # conns[j].client
        /\ \A i \in DOMAIN backlog' :
             peer[backlog'[i]] # "new" /\ \A j \in DOMAIN ws : backlog'[i] # ws[j].client
    BY <1>1, <1>4 DEF Homes, OneConnPerClient
  <2>2. OneConnPerClient'
    BY <1>1, <1>6, <1>8, <2>1 DEF Homes, OneConnPerClient
  <2>3. OneHome'
    BY <1>1, <1>3, <1>5, <1>6, <1>8 DEF Homes, OneHome
  <2>4. \A j \in DOMAIN conns' : peer'[conns'[j].client] # "new"
    BY <1>1, <1>3, <1>6, <1>8 DEF Homes
  <2>5. QED
    BY <1>1, <1>3, <2>1, <2>2, <2>3, <2>4 DEF Homes
<1>10. Handshakes'
  BY <1>1, <1>3, NoHandshakes DEF WsPhaseOK
<1>11. QED
  BY <1>1, <1>3, <1>7, <1>9, <1>10 DEF WsInv, WsPhaseOK, AppKnowsConns

\* The queue is empty, or the socket at its head cannot be set up.
LEMMA WsAcceptEndsKeeps ==
  ASSUME WsInv, AcceptFails \/ AcceptError \/ AcceptDone, UNCHANGED <<wsVars, alive>>
  PROVE  WsInv'
<1>1. /\ WsTypeOK /\ WsPhaseOK /\ Homes /\ AppKnowsConns
      /\ \A id \in DOMAIN conns : conns[id].client \in Client
      /\ \A id \in DOMAIN ws : ws[id].client \in Client
  BY WsParts
<1>2. /\ phase = "accept" /\ phase' = "read" /\ todo' = DOMAIN conns
      /\ UNCHANGED <<stream, taken, outbox, conn_seq, conns, remove_conn, owed,
                     pending, ws, ws_todo, ws_remove, known, alive>>
      /\ \/ backlog # <<>> /\ backlog' = Tail(backlog) /\ peer' = Dropping({Head(backlog)})
         \/ UNCHANGED <<backlog, peer>>
  BY DEF AcceptFails, AcceptError, AcceptDone, netVars, connVars, wsVars
<1>3. /\ peer' \in [Client -> {"new", "open", "gone", "dropped"}]
      /\ \A c \in Client : peer[c] # "new" => peer'[c] # "new"
      /\ \A c \in Client : peer'[c] = "open" => peer[c] = "open"
  BY <1>1, <1>2, DroppingTyped DEF WsTypeOK
<1>4. pending' = <<>> /\ remove_conn = {}
  BY <1>1, <1>2 DEF WsPhaseOK
<1>5. WsPhaseOK'
  BY <1>1, <1>2, <1>4 DEF WsPhaseOK
<1>6. Handshakes'
  BY <1>4, NoHandshakes
<1>7. WsTypeOK' /\ Homes'
  <2>1. CASE UNCHANGED <<backlog, peer>>
    BY <1>1, <1>2, <1>3, <2>1, HomesFrame DEF WsTypeOK
  <2>2. CASE backlog # <<>> /\ backlog' = Tail(backlog)
    <3>1. /\ backlog' \in Seq(Client)
          /\ \A i \in DOMAIN backlog' : /\ i + 1 \in DOMAIN backlog
                                        /\ i \in Nat /\ backlog'[i] = backlog[i + 1]
      BY <1>1, <2>2, TailProperties DEF WsTypeOK
    <3>2. OneConnPerClient'
      BY <1>1, <1>2, <3>1 DEF Homes, OneConnPerClient
    <3>3. OneHome'
      BY <1>1, <1>2 DEF Homes, OneHome
    <3>4. ASSUME NEW i \in DOMAIN backlog'
          PROVE  peer'[backlog'[i]] # "new" /\ \A id \in DOMAIN ws' : backlog'[i] # ws'[id].client
      <4>1. i + 1 \in DOMAIN backlog /\ backlog'[i] = backlog[i + 1]
        BY <3>1
      <4>2. backlog[i + 1] \in Client
        BY <1>1, <4>1 DEF WsTypeOK
      <4>3. /\ peer[backlog[i + 1]] # "new"
            /\ \A id \in DOMAIN ws : backlog[i + 1] # ws[id].client
        BY <1>1, <4>1 DEF Homes
      <4>4. QED
        BY <1>2, <1>3, <4>1, <4>2, <4>3
    <3>5. Homes'
      BY <1>1, <1>2, <1>3, <3>2, <3>3, <3>4 DEF Homes
    <3>6. WsTypeOK'
      BY <1>1, <1>2, <1>3, <3>1 DEF WsTypeOK
    <3>7. QED
      BY <3>5, <3>6
  <2>3. QED
    BY <1>2, <2>1, <2>2
<1>8. QED
  BY <1>1, <1>2, <1>5, <1>6, <1>7 DEF WsInv, AppKnowsConns

\* Connections are removed, and their sockets closed.
LEMMA WsRemovalKeeps ==
  ASSUME WsInv, NEW ids, RemoveConns(ids),
         UNCHANGED <<backlog, stream, taken, outbox, conn_seq, owed, ws, ws_todo, ws_remove,
                     known, alive>>,
         phase' \in {"accept", "read", "transform", "wsread", "tick", "panicked"},
         todo' \cup remove_conn' \subseteq DOMAIN conns', pending' \in Seq(Owed),
         WsPhaseOK', Handshakes'
  PROVE  WsInv'
<1>1. /\ WsTypeOK /\ Homes /\ AppKnowsConns
      /\ \A id \in DOMAIN ws : ws[id].client \in Client
  BY WsParts
<1>2. conns' = Restrict(conns, DOMAIN conns \ ids) /\ peer' = Dropping(ClientsOf(ids))
  BY DEF RemoveConns
<1>3. /\ DOMAIN conns' = DOMAIN conns \ ids
      /\ \A j \in DOMAIN conns' : conns'[j] = conns[j]
  BY <1>2 DEF Restrict
<1>4. /\ peer' \in [Client -> {"new", "open", "gone", "dropped"}]
      /\ \A c \in Client : peer[c] # "new" => peer'[c] # "new"
      /\ \A c \in Client : peer'[c] = "open" => peer[c] = "open"
  BY <1>1, <1>2, DroppingTyped
<1>5. WsTypeOK'
  BY <1>1, <1>3, <1>4 DEF WsTypeOK
<1>6. Homes'
  BY <1>1, <1>3, <1>4, HomesFrame
<1>7. QED
  BY <1>1, <1>5, <1>6 DEF WsInv, AppKnowsConns

\* Connections whose handshakes were read are not among those removed.
LEMMA WsEndReadKeeps ==
  ASSUME WsInv, EndRead("transform"), UNCHANGED <<wsVars, alive>>
  PROVE  WsInv'
<1>1. WsTypeOK /\ WsPhaseOK /\ Handshakes
  BY WsParts
<1>2. /\ phase = "read" /\ todo = {} /\ RemoveConns(remove_conn) /\ remove_conn' = {}
      /\ phase' = "transform"
      /\ UNCHANGED <<backlog, stream, taken, outbox, conn_seq, todo, owed,
                     pending, ws, ws_todo, ws_remove, known, alive>>
  BY DEF EndRead, wsVars
<1>3. conns' = Restrict(conns, DOMAIN conns \ remove_conn)
  BY <1>2 DEF RemoveConns
<1>4. /\ DOMAIN conns' = DOMAIN conns \ remove_conn
      /\ \A j \in DOMAIN conns' : conns'[j] = conns[j]
  BY <1>3 DEF Restrict
<1>5. \A i \in DOMAIN pending : pending[i].conn \in DOMAIN conns'
  BY <1>1, <1>4 DEF Handshakes, HandshakeOK, Expects
<1>6. Handshakes'
  BY <1>1, <1>2, <1>4, <1>5, HandshakesFrame
<1>7. WsPhaseOK' /\ pending' \in Seq(Owed)
  BY <1>1, <1>2 DEF WsPhaseOK, WsTypeOK
<1>8. QED
  BY <1>2, <1>6, <1>7, WsRemovalKeeps

\* remove_conn of the application.
LEMMA WsRemoveConnKeeps ==
  ASSUME WsInv, NEW id \in DOMAIN conns, RemoveConn(id), UNCHANGED <<wsVars, alive>>
  PROVE  WsInv'
<1>1. WsTypeOK /\ WsPhaseOK
  BY WsParts
<1>2. /\ phase = "tick" /\ RemoveConns({id})
      /\ UNCHANGED <<backlog, stream, taken, outbox, conn_seq, phase, todo, remove_conn, owed,
                     pending, ws, ws_todo, ws_remove, known, alive>>
  BY DEF RemoveConn, tickVars, wsVars
<1>3. pending' = <<>> /\ todo' = {} /\ remove_conn' = {}
  BY <1>1, <1>2 DEF WsPhaseOK
<1>4. Handshakes'
  BY <1>3, NoHandshakes
<1>5. WsPhaseOK' /\ pending' \in Seq(Owed)
  BY <1>1, <1>2 DEF WsPhaseOK, WsTypeOK
<1>6. QED
  BY <1>1, <1>2, <1>3, <1>4, <1>5, WsRemovalKeeps DEF WsTypeOK

\* A reply is written, fails to be written, or finds nobody; or the
\* application asks for a connection to be closed.
LEMMA WsReplyKeeps ==
  ASSUME WsInv, WsReply, UNCHANGED alive
  PROVE  WsInv'
<1>1. /\ WsTypeOK /\ WsPhaseOK /\ Homes /\ AppKnowsConns
      /\ \A id \in DOMAIN conns :
           conns[id] \in Conn /\ conns[id].client \in Client /\ conns[id].wbuf \in Seq(Response)
  BY WsParts
<1>2. PICK o \in owed : WriteFails(o) \/ \E k \in Writes(o.conn) : WriteTo(o, k)
  BY DEF WsReply, Reply
<1>3. /\ phase = "tick" /\ owed' = owed \ {o}
      /\ UNCHANGED <<peer, backlog, stream, taken, conn_seq, phase, todo, remove_conn,
                     pending, ws, ws_todo, ws_remove, known, alive>>
  BY <1>2 DEF WriteFails, WriteTo, netVars, connVars, tickVars, WsReply, wsVars
<1>4. /\ pending' = <<>> /\ WsPhaseOK' /\ taken' \in [Client -> Nat] /\ pending' \in Seq(Owed)
      /\ \A p \in owed' : p \in Owed
  BY <1>1, <1>3 DEF WsPhaseOK, WsTypeOK
<1>5. Handshakes'
  BY <1>4, NoHandshakes
<1>6. CASE UNCHANGED <<outbox, conns>>
  BY <1>1, <1>3, <1>4, <1>5, <1>6, HomesFrame
  DEF WsInv, WsTypeOK, AppKnowsConns
<1>7. ASSUME NEW k, WriteTo(o, k), Expects(o.conn)
      PROVE  WsInv'
  <2> DEFINE id   == o.conn
             old  == conns[id]
             out  == Append(old.wbuf, Answer(o))
             conn == Answered(old, out, k)
  <2>1. /\ id \in DOMAIN conns /\ old.inflight > 0
        /\ k \in Accepts(Len(out)) /\ Deliver(old.client, out, k)
        /\ conns' = [conns EXCEPT ![id] = conn]
    BY <1>7 DEF WriteTo, Expects
  <2>2. old \in Conn /\ old.client \in Client /\ old.wbuf \in Seq(Response)
    BY <1>1, <2>1
  <2>3. out \in Seq(Response)
    <3>1. Answer(o) \in Response
      BY <1>1 DEF WsTypeOK, Owed, Answer, Response
    <3>2. QED
      BY <2>2, <3>1
  <2>4. /\ outbox' \in [Client -> Seq(Response)]
        /\ \A d \in Client \ {old.client} : outbox'[d] = outbox[d]
        /\ Unsent(out, k) \in Seq(Response)
    BY <1>1, <2>1, <2>2, <2>3, DeliverTyped DEF WsTypeOK
  <2>5. conn \in Conn /\ conn.client = old.client
    <3>1. old.inflight - 1 \in Nat
      BY <2>1, <2>2 DEF Conn
    <3>2. QED
      BY <2>2, <2>4, <3>1 DEF Answered, Conn
  <2> HIDE DEF conn
  <2>6. /\ DOMAIN conns' = DOMAIN conns /\ conns'[id] = conn
        /\ \A j \in DOMAIN conns \ {id} : conns'[j] = conns[j]
    BY <2>1
  <2>7. QED
    BY <1>3, <1>4, <1>5, <2>1, <2>4, <2>5, <2>6, MeetKeeps
<1>8. QED
  BY <1>2, <1>6, <1>7 DEF WriteFails, WriteTo, netVars, connVars

LEMMA WsCloseConnKeeps ==
  ASSUME WsInv, NEW id \in DOMAIN conns, CloseConn(id), UNCHANGED <<wsVars, alive>>
  PROVE  WsInv'
<1>1. WsTypeOK /\ WsPhaseOK /\ conns[id] \in Conn
  BY WsParts
<1>2. /\ phase = "tick" /\ conns' = [conns EXCEPT ![id] = TryClose(@)]
      /\ UNCHANGED <<peer, backlog, stream, taken, outbox, conn_seq, phase, todo, remove_conn,
                     owed, pending, ws, ws_todo, ws_remove, known, alive>>
  BY DEF CloseConn, netVars, tickVars, wsVars
<1> DEFINE conn == TryClose(conns[id])
<1>3. conn \in Conn /\ conn.client = conns[id].client
  BY <1>1 DEF TryClose, Conn
<1>4. /\ DOMAIN conns' = DOMAIN conns /\ conns'[id] = conn
      /\ \A j \in DOMAIN conns \ {id} : conns'[j] = conns[j]
  BY <1>2
<1> HIDE DEF conn
<1>5. /\ pending' = <<>> /\ WsPhaseOK' /\ taken' \in [Client -> Nat] /\ pending' \in Seq(Owed)
      /\ outbox' \in [Client -> Seq(Response)] /\ \A p \in owed' : p \in Owed
  BY <1>1, <1>2 DEF WsPhaseOK, WsTypeOK
<1>6. Handshakes'
  BY <1>5, NoHandshakes
<1>7. QED
  BY <1>2, <1>3, <1>4, <1>5, <1>6, MeetKeeps

LEMMA WsEndTickKeeps ==
  ASSUME WsInv, EndTick, UNCHANGED <<wsVars, alive>>
  PROVE  WsInv'
<1>1. /\ WsTypeOK /\ WsPhaseOK /\ Homes /\ AppKnowsConns
  BY WsParts
<1>2. /\ phase = "tick" /\ phase' = "accept"
      /\ UNCHANGED <<peer, backlog, stream, taken, outbox, conn_seq, conns, todo, remove_conn,
                     owed, pending, ws, ws_todo, ws_remove, known, alive>>
  BY DEF EndTick, netVars, connVars, wsVars
<1>3. WsPhaseOK' /\ pending' = <<>>
  BY <1>1, <1>2 DEF WsPhaseOK
<1>4. Handshakes'
  BY <1>3, NoHandshakes
<1>5. WsTypeOK'
  BY <1>1, <1>2 DEF WsTypeOK
<1>6. Homes'
  BY <1>1, <1>2, HomesFrame
<1>7. QED
  BY <1>1, <1>2, <1>3, <1>4, <1>5, <1>6 DEF WsInv, AppKnowsConns

-----------------------------------------------------------------------------
(* transform_conns.                                                        *)

LEMMA LastHandshake ==
  ASSUME WsInv, pending # <<>>
  PROVE  /\ Handshake \in Owed /\ HandshakeOK(Handshake)
         /\ Front(pending) \in Seq(Owed)
         /\ DOMAIN Front(pending) \subseteq DOMAIN pending
         /\ \A i \in DOMAIN Front(pending) :
              /\ Front(pending)[i] = pending[i]
              /\ pending[i].conn # Handshake.conn
              /\ HandshakeOK(pending[i])
<1>1. pending \in Seq(Owed) /\ Handshakes
  BY WsParts DEF WsTypeOK
<1>2. /\ Len(pending) \in Nat /\ Len(pending) >= 1 /\ DOMAIN pending = 1..Len(pending)
      /\ Len(pending) \in DOMAIN pending
  BY <1>1
<1>3. Handshake = pending[Len(pending)]
  BY DEF Handshake, Last
<1>4. /\ Front(pending) \in Seq(Owed) /\ DOMAIN Front(pending) = 1..(Len(pending) - 1)
      /\ \A i \in 1..(Len(pending) - 1) : Front(pending)[i] = pending[i]
  BY <1>1, <1>2 DEF Front
<1>5. \A i \in DOMAIN Front(pending) : i \in DOMAIN pending /\ i # Len(pending)
  BY <1>2, <1>4
<1>6. QED
  BY <1>1, <1>2, <1>3, <1>4, <1>5 DEF Handshakes

\* The connections of the handshakes that are left stay.
LEMMA HandshakesLeft ==
  ASSUME WsInv, pending # <<>>, pending' = Front(pending), stream' = stream, taken' = taken,
         todo' = todo, remove_conn' = remove_conn,
         DOMAIN conns' = DOMAIN conns \ {Handshake.conn},
         \A j \in DOMAIN conns' : conns'[j] = conns[j]
  PROVE  Handshakes' /\ pending' \in Seq(Owed)
<1>1. Handshakes
  BY WsParts
<1>2. /\ pending' \in Seq(Owed) /\ DOMAIN pending' \subseteq DOMAIN pending
      /\ \A i \in DOMAIN pending' :
           /\ pending'[i] = pending[i]
           /\ pending[i].conn # Handshake.conn /\ HandshakeOK(pending[i])
  BY LastHandshake
<1>3. \A i \in DOMAIN pending' :
        /\ pending[i].conn \in DOMAIN conns' /\ conns'[pending[i].conn] = conns[pending[i].conn]
        /\ pending[i].conn \notin todo' \cup remove_conn'
  BY <1>2 DEF HandshakeOK, Expects
<1>4. Handshakes'
  BY <1>1, <1>2, <1>3, HandshakesFrame
<1>5. QED
  BY <1>2, <1>4

\* The handshake is answered, and its connection is no HTTP connection any
\* more.
LEMMA UpgradeKeeps ==
  ASSUME WsInv, NEW k, NEW is_close \in BOOLEAN, Upgrade(k, is_close), UNCHANGED alive
  PROVE  WsInv'
<1>1. /\ WsTypeOK /\ WsPhaseOK /\ Homes /\ AppKnowsConns
      /\ \A j \in DOMAIN conns :
           conns[j] \in Conn /\ conns[j].client \in Client /\ conns[j].wbuf \in Seq(Response)
      /\ \A j \in DOMAIN ws : ws[j] \in WsConn /\ ws[j].client \in Client
  BY WsParts
<1>2. PICK p \in Owed : p = Handshake
  BY LastHandshake DEF Upgrade, Transforming
<1>3. PICK id, old, c : id = p.conn /\ old = conns[id] /\ c = old.client
  OBVIOUS
<1> DEFINE out == Append(old.wbuf, Answer(p))
<1>4. /\ phase = "transform" /\ pending # <<>> /\ id \in DOMAIN conns
      /\ k \in Accepts(Len(out)) /\ Deliver(p.client, out, k)
      /\ pending' = Front(pending) /\ conns' = Restrict(conns, DOMAIN conns \ {id})
      /\ UNCHANGED <<backlog, stream, taken, conn_seq, phase, todo, remove_conn, owed,
                     ws_todo, ws_remove, alive>>
  BY <1>2, <1>3 DEF Upgrade, Transforming, Switching, TakeConn, Expects, tickVars
<1>5. /\ p.client = c /\ p.n \in DOMAIN stream[c] /\ stream[c][p.n] = "upgrade"
  BY <1>2, <1>3, <1>4, LastHandshake DEF HandshakeOK
<1>6. c \in Client /\ old.wbuf \in Seq(Response) /\ Answer(p) = [client |-> c, n |-> p.n]
  BY <1>1, <1>3, <1>4, <1>5 DEF Answer
<1>7. out \in Seq(Response)
  <2>1. p.n \in Nat \ {0}
    BY DEF Owed
  <2>2. Answer(p) \in Response
    BY <1>6, <2>1 DEF Response
  <2>3. QED
    BY <1>6, <2>2
<1>8. /\ outbox' \in [Client -> Seq(Response)]
      /\ \A d \in Client \ {c} : outbox'[d] = outbox[d]
  BY <1>1, <1>4, <1>5, <1>6, <1>7, DeliverTyped DEF WsTypeOK
<1> HIDE DEF out
<1>9. /\ DOMAIN conns' = DOMAIN conns \ {id}
      /\ \A j \in DOMAIN conns' : conns'[j] = conns[j]
      /\ \A j \in DOMAIN conns' : conns'[j].client = conns[j].client
  BY <1>4 DEF Restrict
<1>10. Handshakes' /\ pending' \in Seq(Owed)
  BY <1>2, <1>3, <1>4, <1>9, HandshakesLeft
<1>11. WsPhaseOK'
  BY <1>1, <1>4 DEF WsPhaseOK
<1>12. id \notin todo /\ id \notin remove_conn
  BY <1>2, <1>3, <1>4, LastHandshake DEF HandshakeOK
<1>13. /\ \A j \in DOMAIN conns' : conns'[j].client # c
       /\ \A j \in DOMAIN ws : ws[j].client # c
       /\ id \notin DOMAIN ws /\ peer[c] # "new"
       /\ \A i \in DOMAIN backlog : backlog[i] # c
  <2>1. id \in DOMAIN conns /\ conns[id].client = c
    BY <1>3, <1>4
  <2>2. \A j \in DOMAIN conns' : conns'[j].client # c
    BY <1>1, <1>9, <2>1 DEF Homes, OneConnPerClient
  <2>3. (\A j \in DOMAIN ws : ws[j].client # c) /\ id \notin DOMAIN ws
    BY <1>1, <2>1 DEF Homes, OneHome
  <2>4. peer[c] # "new" /\ \A i \in DOMAIN backlog : backlog[i] # c
    BY <1>1, <2>1 DEF Homes, OneConnPerClient
  <2>5. QED
    BY <2>2, <2>3, <2>4
<1>14. todo' \cup remove_conn' \subseteq DOMAIN conns'
  BY <1>1, <1>4, <1>9, <1>12 DEF WsTypeOK
<1>15. CASE is_close
  <2>1. peer' = Dropping({c}) /\ UNCHANGED <<ws, known>>
    BY <1>2, <1>3, <1>15 DEF Upgrade
  <2>2. /\ peer' \in [Client -> {"new", "open", "gone", "dropped"}]
        /\ \A d \in Client : peer[d] # "new" => peer'[d] # "new"
        /\ \A d \in Client : peer'[d] = "open" => peer[d] = "open"
    BY <1>1, <2>1, DroppingTyped
  <2>3. WsTypeOK'
    BY <1>1, <1>4, <1>8, <1>9, <1>10, <1>14, <2>1, <2>2 DEF WsTypeOK
  <2>4. Homes'
    BY <1>1, <1>4, <1>9, <2>1, <2>2, HomesFrame
  <2>5. QED
    BY <1>1, <1>10, <1>11, <2>1, <2>3, <2>4 DEF WsInv, AppKnowsConns
<1>16. CASE ~is_close
  <2>1. /\ peer' = peer /\ known' = known \cup {id}
        /\ ws' = [j \in DOMAIN ws \cup {id} |->
                    IF j = id THEN [client |-> c, connected |-> TRUE] ELSE ws[j]]
    BY <1>2, <1>3, <1>16 DEF Upgrade
  <2>2. /\ DOMAIN ws' = DOMAIN ws \cup {id} /\ ws'[id] = [client |-> c, connected |-> TRUE]
        /\ \A j \in DOMAIN ws : ws'[j] = ws[j]
    BY <1>13, <2>1
  <2>3. WsTypeOK'
    <3>1. \A j \in DOMAIN ws' : ws'[j] \in WsConn
      <4>1. ws'[id] \in WsConn
        BY <1>6, <2>2 DEF WsConn
      <4>2. QED
        BY <1>1, <2>2, <4>1
    <3>2. DOMAIN conns' \cup DOMAIN ws' \subseteq 0..(conn_seq' - 1)
      BY <1>1, <1>4, <1>9, <2>2 DEF WsTypeOK
    <3>3. \A j \in DOMAIN conns' : conns'[j] \in Conn
      BY <1>1, <1>9
    <3>4. ws_todo' \cup ws_remove' \subseteq DOMAIN ws'
      BY <1>1, <1>4, <2>2 DEF WsTypeOK
    <3>5. QED
      BY <1>1, <1>4, <1>8, <1>10, <1>14, <2>1, <3>1, <3>2, <3>3, <3>4 DEF WsTypeOK
  <2>4. Homes'
    <3>1. /\ OneConnPerClient /\ backlog' = backlog /\ DOMAIN conns' \subseteq DOMAIN conns
          /\ \A j \in DOMAIN conns' : conns'[j].client = conns[j].client
      BY <1>1, <1>4, <1>9 DEF Homes
    <3>2. OneConnPerClient'
      BY <3>1 DEF OneConnPerClient
    <3>3. OneHome'
      BY <1>1, <1>9, <1>13, <2>2 DEF Homes, OneHome
    <3>4. \A j \in DOMAIN conns' : peer'[conns'[j].client] # "new"
      BY <1>1, <2>1, <3>1 DEF Homes
    <3>5. \A j \in DOMAIN ws' : peer'[ws'[j].client] # "new"
      BY <1>1, <1>13, <2>1, <2>2 DEF Homes
    <3>6. \A m \in DOMAIN backlog' :
            peer'[backlog'[m]] # "new" /\ \A j \in DOMAIN ws' : backlog'[m] # ws'[j].client
      BY <1>1, <1>13, <2>1, <2>2, <3>1 DEF Homes
    <3>7. QED
      BY <3>2, <3>3, <3>4, <3>5, <3>6 DEF Homes
  <2>5. QED
    BY <1>1, <1>10, <1>11, <2>1, <2>2, <2>3, <2>4 DEF WsInv, AppKnowsConns
<1>17. QED
  BY <1>15, <1>16

LEMMA UpgradeFailsKeeps ==
  ASSUME WsInv, UpgradeFails, UNCHANGED alive
  PROVE  WsInv'
<1>1. WsTypeOK /\ WsPhaseOK
  BY WsParts
<1>2. PICK ids : ids = {Handshake.conn} \cap DOMAIN conns
  OBVIOUS
<1>3. /\ phase = "transform" /\ pending # <<>> /\ pending' = Front(pending)
      /\ RemoveConns(ids)
      /\ UNCHANGED <<backlog, stream, taken, outbox, conn_seq, phase, todo, remove_conn, owed,
                     ws, ws_todo, ws_remove, known, alive>>
  BY <1>2 DEF UpgradeFails, Transforming, tickVars
<1>4. conns' = Restrict(conns, DOMAIN conns \ ids)
  BY <1>3 DEF RemoveConns
<1>5. /\ DOMAIN conns' = DOMAIN conns \ {Handshake.conn}
      /\ \A j \in DOMAIN conns' : conns'[j] = conns[j]
  BY <1>2, <1>4 DEF Restrict
<1>6. Handshakes' /\ pending' \in Seq(Owed)
  BY <1>3, <1>5, HandshakesLeft
<1>7. WsPhaseOK'
  BY <1>1, <1>3 DEF WsPhaseOK
<1>8. todo' = {} /\ remove_conn' = {}
  BY <1>1, <1>3 DEF WsPhaseOK
<1>9. QED
  BY <1>3, <1>6, <1>7, <1>8, WsRemovalKeeps

\* The loop is done, or the unwrap ends the thread.
LEMMA TransformEndsKeeps ==
  ASSUME WsInv, EndTransform \/ UpgradePanics, UNCHANGED alive
  PROVE  WsInv'
<1>1. /\ WsTypeOK /\ WsPhaseOK /\ Homes /\ Handshakes /\ AppKnowsConns
  BY WsParts
<1>2. /\ phase = "transform"
      /\ UNCHANGED <<peer, backlog, stream, taken, outbox, conn_seq, conns, todo, remove_conn,
                     owed, pending, ws, ws_remove, known, alive>>
      /\ \/ phase' = "wsread" /\ pending = <<>> /\ ws_todo' = DOMAIN ws
         \/ phase' = "panicked" /\ ws_todo' = ws_todo
  BY DEF EndTransform, UpgradePanics, Transforming, MoreToTransform, ToVisit, netVars,
         connVars, wsVars
<1>3. WsPhaseOK'
  BY <1>1, <1>2 DEF WsPhaseOK
<1>4. WsTypeOK'
  BY <1>1, <1>2 DEF WsTypeOK
<1>5. Homes'
  BY <1>1, <1>2, HomesFrame
<1>6. Handshakes'
  BY <1>1, <1>2 DEF Handshakes, HandshakeOK, Expects
<1>7. QED
  BY <1>1, <1>2, <1>3, <1>4, <1>5, <1>6 DEF WsInv, AppKnowsConns

-----------------------------------------------------------------------------
(* The WebSocket connections.                                              *)

\* A connection is visited, and stays or is listed for removal.
LEMMA WsVisitKeeps ==
  ASSUME WsInv, NEW id \in DOMAIN ws, WsVisit(id), UNCHANGED alive
  PROVE  WsInv'
<1>1. /\ WsTypeOK /\ WsPhaseOK /\ Homes /\ AppKnowsConns
      /\ ws[id].client \in Client
  BY WsParts
<1>2. /\ phase = "wsread" /\ id \in ws_todo /\ ws_todo' = ws_todo \ {id}
      /\ \/ ws_remove' = ws_remove /\ Usable(id)
         \/ ws_remove' = ws_remove \cup {id}
      /\ taken' = taken \/ taken' = [taken EXCEPT ![ws[id].client] = @ + 1]
      /\ UNCHANGED <<peer, backlog, stream, outbox, conn_seq, conns, phase, todo, remove_conn,
                     owed, pending, ws, known, alive>>
  BY DEF WsVisit, WsIdle, WsReadFails, WsMessage, WsVisiting, vars, netVars, connVars, tickVars
<1>3. taken' \in [Client -> Nat]
  <2>1. taken \in [Client -> Nat] /\ taken[ws[id].client] \in Nat
    BY <1>1 DEF WsTypeOK
  <2>2. QED
    BY <1>2, <2>1
<1>4. WsTypeOK'
  BY <1>1, <1>2, <1>3 DEF WsTypeOK
<1>5. WsPhaseOK' /\ pending' = <<>>
  BY <1>1, <1>2 DEF WsPhaseOK, Usable
<1>6. Handshakes'
  BY <1>5, NoHandshakes
<1>7. Homes'
  BY <1>1, <1>2, HomesFrame
<1>8. QED
  BY <1>1, <1>2, <1>4, <1>5, <1>6, <1>7 DEF WsInv, AppKnowsConns

\* WebSocket connections are removed, and their sockets closed.
LEMMA WsDropKeeps ==
  ASSUME WsInv, phase \in {"wsread", "tick"}, NEW ids, NEW S,
         ws' = Restrict(ws, DOMAIN ws \ ids), peer' = Dropping(S), known' = known \ ids,
         phase' = "tick", ws_todo = {}, ws_todo' = {}, ws_remove' = {},
         UNCHANGED <<backlog, stream, taken, outbox, conn_seq, conns, todo, remove_conn, owed,
                     pending, alive>>
  PROVE  WsInv'
<1>1. /\ WsTypeOK /\ WsPhaseOK /\ Homes /\ AppKnowsConns
      /\ \A j \in DOMAIN ws : ws[j].client \in Client
  BY WsParts
<1>2. DOMAIN ws' = DOMAIN ws \ ids /\ \A j \in DOMAIN ws' : ws'[j] = ws[j]
  BY DEF Restrict
<1>3. /\ peer' \in [Client -> {"new", "open", "gone", "dropped"}]
      /\ \A d \in Client : peer[d] # "new" => peer'[d] # "new"
      /\ \A d \in Client : peer'[d] = "open" => peer[d] = "open"
  BY <1>1, DroppingTyped
<1>4. WsTypeOK'
  BY <1>1, <1>2, <1>3 DEF WsTypeOK
<1>5. WsPhaseOK' /\ pending' = <<>>
  BY <1>1 DEF WsPhaseOK
<1>6. Handshakes'
  BY <1>5, NoHandshakes
<1>7. Homes'
  BY <1>1, <1>2, <1>3, HomesFrame
<1>8. known' = DOMAIN ws'
  BY <1>1, <1>2 DEF AppKnowsConns
<1>9. QED
  BY <1>4, <1>5, <1>6, <1>7, <1>8 DEF WsInv, AppKnowsConns

LEMMA WsEndKeeps ==
  ASSUME WsInv, EndWsRead \/ (\E id \in DOMAIN ws : WsRemove(id)), UNCHANGED alive
  PROVE  WsInv'
<1>1. WsPhaseOK
  BY WsParts
<1>2. CASE EndWsRead
  <2>1. /\ phase = "wsread" /\ ws_todo = {}
        /\ ws' = Restrict(ws, DOMAIN ws \ ws_remove)
        /\ peer' = Dropping({ws[id].client : id \in ws_remove})
        /\ known' = known \ ws_remove /\ ws_remove' = {} /\ phase' = "tick"
        /\ UNCHANGED <<backlog, stream, taken, outbox, conn_seq, conns, todo, remove_conn, owed,
                       pending, ws_todo, alive>>
    BY <1>2 DEF EndWsRead, OnClose, connVars
  <2>2. QED
    BY <2>1, WsDropKeeps
<1>3. ASSUME NEW id \in DOMAIN ws, WsRemove(id)
      PROVE  WsInv'
  <2>1. /\ phase = "tick" /\ phase' = phase
        /\ ws' = Restrict(ws, DOMAIN ws \ {id})
        /\ peer' = Dropping({ws[id].client}) /\ known' = known \ {id}
        /\ UNCHANGED <<backlog, stream, taken, outbox, conn_seq, conns, todo, remove_conn, owed,
                       pending, ws_todo, ws_remove, alive>>
    BY <1>3 DEF WsRemove, connVars, tickVars
  <2>2. ws_todo = {} /\ ws_remove = {}
    BY <1>1, <2>1 DEF WsPhaseOK
  <2>3. QED
    BY <2>1, <2>2, WsDropKeeps
<1>4. QED
  BY <1>2, <1>3

LEMMA WsDisconnectKeeps ==
  ASSUME WsInv, NEW id \in DOMAIN ws, WsDisconnect(id), UNCHANGED alive
  PROVE  WsInv'
<1>1. /\ WsTypeOK /\ WsPhaseOK /\ Homes /\ AppKnowsConns
      /\ \A j \in DOMAIN ws : ws[j] \in WsConn /\ ws[j].client \in Client
  BY WsParts
<1>2. /\ phase = "tick" /\ ws' = [ws EXCEPT ![id].connected = FALSE]
      /\ peer' = Dropping({ws[id].client})
      /\ UNCHANGED <<backlog, stream, taken, outbox, conn_seq, conns, phase, todo, remove_conn,
                     owed, pending, ws_todo, ws_remove, known, alive>>
  BY DEF WsDisconnect, connVars, tickVars
<1>3. /\ DOMAIN ws' = DOMAIN ws
      /\ \A j \in DOMAIN ws : ws'[j] \in WsConn /\ ws'[j].client = ws[j].client
  BY <1>1, <1>2 DEF WsConn
<1>4. /\ peer' \in [Client -> {"new", "open", "gone", "dropped"}]
      /\ \A d \in Client : peer[d] # "new" => peer'[d] # "new"
      /\ \A d \in Client : peer'[d] = "open" => peer[d] = "open"
  BY <1>1, <1>2, DroppingTyped
<1>5. WsTypeOK'
  BY <1>1, <1>2, <1>3, <1>4 DEF WsTypeOK
<1>6. WsPhaseOK' /\ pending' = <<>>
  BY <1>1, <1>2 DEF WsPhaseOK
<1>7. Handshakes'
  BY <1>6, NoHandshakes
<1>8. Homes'
  BY <1>1, <1>2, <1>3, <1>4, HomesFrame
<1>9. QED
  BY <1>1, <1>2, <1>3, <1>5, <1>6, <1>7, <1>8 DEF WsInv, AppKnowsConns

LEMMA WsShutdownKeeps ==
  ASSUME WsInv, WsShutdown
  PROVE  WsInv'
<1>1. /\ WsTypeOK /\ WsPhaseOK /\ Homes /\ Handshakes /\ AppKnowsConns
  BY WsParts
<1>2. /\ alive' = FALSE
      /\ UNCHANGED <<peer, backlog, stream, taken, outbox, conn_seq, conns, phase, todo,
                     remove_conn, owed, pending, ws, ws_todo, ws_remove, known>>
  BY DEF WsShutdown, allVars, vars, netVars, connVars, tickVars, wsVars
<1>3. WsTypeOK' /\ WsPhaseOK'
  BY <1>1, <1>2 DEF WsTypeOK, WsPhaseOK
<1>4. Handshakes'
  BY <1>1, <1>2 DEF Handshakes, HandshakeOK, Expects
<1>5. Homes'
  BY <1>1, <1>2, HomesFrame
<1>6. QED
  BY <1>1, <1>2, <1>3, <1>4, <1>5 DEF WsInv, AppKnowsConns

-----------------------------------------------------------------------------
(* The theorems.                                                           *)

LEMMA InitWs ==
  ASSUME WsInit
  PROVE  WsInv
<1>1. /\ peer = [c \in Client |-> "new"] /\ backlog = <<>> /\ stream = [c \in Client |-> <<>>]
      /\ taken = [c \in Client |-> 0] /\ outbox = [c \in Client |-> <<>>] /\ conn_seq = 0
      /\ conns = [id \in {} |-> {}] /\ phase = "accept" /\ todo = {} /\ remove_conn = {}
      /\ owed = {} /\ pending = <<>> /\ ws = [id \in {} |-> {}] /\ ws_todo = {}
      /\ ws_remove = {} /\ known = {} /\ alive = TRUE
  BY DEF WsInit, ServerInit
<1>2. DOMAIN conns = {} /\ DOMAIN ws = {} /\ DOMAIN backlog = {} /\ DOMAIN pending = {}
  BY <1>1
<1>3. WsTypeOK
  BY <1>1, <1>2 DEF WsTypeOK
<1>4. Homes
  BY <1>2 DEF Homes, OneHome, OneConnPerClient
<1>5. QED
  BY <1>1, <1>2, <1>3, <1>4
  DEF WsInv, WsPhaseOK, Handshakes, AppKnowsConns

LEMMA NextWs ==
  ASSUME WsInv, [WsNext]_<<allVars, alive, histVars>>
  PROVE  WsInv'
<1>1. ASSUME WsPeers, UNCHANGED alive
      PROVE  WsInv'
  BY <1>1, WsConnectKeeps, WsHangUpKeeps, WsSendKeeps DEF WsPeers
<1>2. ASSUME WsTick, UNCHANGED alive
      PROVE  WsInv'
  <2>1. ASSUME (Accept \/ EndRead("transform") \/ EndTick) /\ UNCHANGED wsVars
        PROVE  WsInv'
    BY <1>2, <2>1, WsAcceptConnKeeps, WsAcceptEndsKeeps, WsEndReadKeeps, WsEndTickKeeps
    DEF Accept
  <2>2. ASSUME NEW id \in DOMAIN conns, WsRead(id)
        PROVE  WsInv'
    BY <1>2, <2>2, WsFlushFailsKeeps, WsQuietVisit, WsHandshakeKeeps, WsPassKeeps DEF WsRead
  <2>3. ASSUME Transform
        PROVE  WsInv'
    BY <1>2, <2>3, UpgradeKeeps, UpgradeFailsKeeps, TransformEndsKeeps DEF Transform
  <2>4. ASSUME NEW id \in DOMAIN ws, WsVisit(id)
        PROVE  WsInv'
    BY <1>2, <2>4, WsVisitKeeps
  <2>5. ASSUME EndWsRead
        PROVE  WsInv'
    BY <1>2, <2>5, WsEndKeeps
  <2>6. QED
    BY <1>2, <2>1, <2>2, <2>3, <2>4, <2>5 DEF WsTick
<1>3. ASSUME WsManage, UNCHANGED alive
      PROVE  WsInv'
  <2>1. CASE Manage /\ UNCHANGED wsVars
    BY <1>3, <2>1, WsCloseConnKeeps, WsRemoveConnKeeps DEF Manage
  <2>2. CASE \E id \in DOMAIN ws : WsDisconnect(id) \/ WsRemove(id)
    BY <1>3, <2>2, WsDisconnectKeeps, WsEndKeeps
  <2>3. QED
    BY <1>3, <2>1, <2>2 DEF WsManage
<1>4. ASSUME UNCHANGED <<allVars, alive>>
      PROVE  WsInv'
  <2>1. /\ WsTypeOK /\ WsPhaseOK /\ Homes /\ Handshakes
        /\ AppKnowsConns
    BY WsParts
  <2>2. UNCHANGED <<peer, backlog, stream, taken, outbox, conn_seq, conns, phase, todo,
                    remove_conn, owed, pending, ws, ws_todo, ws_remove, known, alive>>
    BY <1>4 DEF allVars, vars, netVars, connVars, tickVars, wsVars
  <2>3. WsTypeOK' /\ WsPhaseOK' /\ AppKnowsConns'
    BY <2>1, <2>2 DEF WsTypeOK, WsPhaseOK, AppKnowsConns
  <2>4. Homes'
    BY <2>1, <2>2, HomesFrame
  <2>5. Handshakes'
    BY <2>1, <2>2 DEF Handshakes, HandshakeOK, Expects
  <2>6. QED
    BY <2>3, <2>4, <2>5 DEF WsInv
<1>5. QED
  BY <1>1, <1>2, <1>3, <1>4, WsReplyKeeps, WsShutdownKeeps DEF WsNext, WsStep

\* The inductive invariant: where the sockets are, and what the handshakes,
\* the lists of a tick and the application have to do with it.
THEOREM WsInvariance == WsSpec => []WsInv
<1>1. WsInit => WsInv
  BY InitWs
<1>2. WsInv /\ [WsNext]_<<allVars, alive, histVars>> => WsInv'
  BY NextWs
<1>3. QED
  BY <1>1, <1>2, PTL DEF WsSpec

\* A socket is in one of the two maps at most, and in it once
\* (ws_server.rs:139-151).
THEOREM SocketsAtHome == WsSpec => []OneHome
<1>1. WsInv => OneHome
  BY DEF WsInv, Homes
<1>2. QED
  BY <1>1, WsInvariance, PTL

\* When transform_conns answers a handshake its connection is there and
\* waits for the answer (ws_stream.rs:386).
THEOREM HandshakesWait == WsSpec => []PendingAlive
<1>1. ASSUME WsInv
      PROVE  PendingAlive
  <2>1. Handshakes
    BY <1>1, WsParts
  <2>2. \A p \in Range(pending) : HandshakeOK(p)
    BY <2>1 DEF Handshakes, Range
  <2>3. QED
    BY <2>2 DEF PendingAlive, HandshakeOK
<1>2. QED
  BY <1>1, WsInvariance, PTL

\* The callbacks tell the application of every WebSocket connection that
\* comes or goes, each time (ws_server.rs:158-161, 202-206).
THEOREM AppInformed == WsSpec => []AppKnowsConns
<1>1. WsInv => AppKnowsConns
  BY DEF WsInv
<1>2. QED
  BY <1>1, WsInvariance, PTL

-----------------------------------------------------------------------------
(* Shutdowns.                                                              *)

\* Which steps of a tick begin, continue and end a pass of tick_read.
LEMMA PassSteps ==
  ASSUME WsStep, "wsread" \in {phase, phase'}
  PROVE  \/ EndTransform /\ UNCHANGED alive
         \/ EndWsRead /\ UNCHANGED alive
         \/ (\E id \in DOMAIN ws : WsVisit(id)) /\ UNCHANGED alive
         \/ UNCHANGED <<phase, ws, ws_todo, ws_remove, alive>>
         \/ WsShutdown
<1>1. CASE WsPeers /\ UNCHANGED alive
  BY <1>1 DEF WsPeers, WsSend, Send, Connect, HangUp, tickVars, wsVars
<1>2. ~WsReply
  BY DEF WsReply, Reply, WriteTo, WriteFails, tickVars
<1>3. ~WsManage
  BY DEF WsManage, Manage, CloseConn, RemoveConn, WsDisconnect, WsRemove, tickVars
<1>4. CASE WsTick /\ UNCHANGED alive
  <2>1. ~(Accept \/ EndRead("transform") \/ EndTick)
    BY DEF Accept, AcceptConn, AcceptFails, AcceptError, AcceptDone, EndRead, EndTick, tickVars
  <2>2. \A id : ~WsRead(id)
    BY DEF WsRead, FlushFails, NoRequest, ReadFails, FlushBlocks, TakeHandshake,
           RefuseHandshake, PassRequest, NewRequest, TakeRequest, Visiting
  <2>3. Transform => EndTransform
    BY DEF Transform, Upgrade, UpgradeFails, UpgradePanics, Transforming, tickVars
  <2>4. QED
    BY <1>4, <2>1, <2>2, <2>3 DEF WsTick
<1>5. QED
  BY <1>1, <1>2, <1>3, <1>4 DEF WsStep

LEMMA NextLeaving ==
  ASSUME WsInv, Leaving, [WsNext]_<<allVars, alive, histVars>>
  PROVE  Leaving'
<1>1. WsTypeOK /\ WsPhaseOK
  BY WsParts
<1>2. CASE UNCHANGED <<allVars, alive, histVars>>
  BY <1>2 DEF Leaving, allVars, histVars, vars, tickVars, wsVars
<1>3. ASSUME WsStep, Note
      PROVE  Leaving'
  <2>1. /\ {handed', doomed'} \subseteq BOOLEAN
        /\ doomed' => IF phase # "wsread" /\ phase' = "wsread" THEN ~alive ELSE doomed
    BY <1>1, <1>3 DEF Note, Leaving, WsTypeOK
  <2>2. ~alive => ~alive'
    BY <1>3 DEF WsStep, WsShutdown
  <2>3. doomed' => ~alive'
    BY <2>1, <2>2 DEF Leaving
  <2>4. ASSUME phase' = "wsread", doomed'
        PROVE  DOMAIN ws' \subseteq ws_todo' \cup ws_remove'
    <3>1. CASE EndTransform
      BY <3>1 DEF EndTransform, ToVisit
    <3>2. CASE \E id \in DOMAIN ws : WsVisit(id)
      <4>1. PICK id \in DOMAIN ws : WsVisit(id)
        BY <3>2
      <4>2. /\ phase = "wsread" /\ ws' = ws /\ ws_todo' = ws_todo \ {id}
            /\ \/ ws_remove' = ws_remove /\ alive
               \/ ws_remove' = ws_remove \cup {id}
        BY <4>1 DEF WsVisit, WsIdle, WsReadFails, WsMessage, WsVisiting, Usable, vars, tickVars
      <4>3. DOMAIN ws \subseteq ws_todo \cup ws_remove /\ ~alive
        BY <2>1, <2>4, <4>2 DEF Leaving
      <4>4. QED
        BY <4>2, <4>3
    <3>3. CASE UNCHANGED <<phase, ws, ws_todo, ws_remove>>
      BY <2>1, <2>4, <3>3 DEF Leaving
    <3>4. ~EndWsRead
      BY <2>4 DEF EndWsRead
    <3>5. CASE WsShutdown
      <4>1. UNCHANGED <<phase, ws, ws_todo, ws_remove>>
        BY <3>5 DEF WsShutdown, allVars, vars, tickVars, wsVars
      <4>2. QED
        BY <3>3, <4>1
    <3>6. QED
      BY <1>3, <2>4, <3>1, <3>2, <3>3, <3>4, <3>5, PassSteps
  <2>5. QED
    BY <2>1, <2>3, <2>4 DEF Leaving
<1>4. QED
  BY <1>2, <1>3 DEF WsNext

THEOREM LeavingInvariance == WsSpec => [](WsInv /\ Leaving)
<1>1. WsInit => WsInv /\ Leaving
  BY InitWs DEF WsInit, Leaving
<1>2. WsInv /\ Leaving /\ [WsNext]_<<allVars, alive, histVars>> => WsInv' /\ Leaving'
  BY NextWs, NextLeaving
<1>3. QED
  BY <1>1, <1>2, PTL DEF WsSpec

\* A pass that begins after a shutdown leaves no WebSocket connection,
\* whichever were upgraded since (ws_server.rs:141, 176-201).
THEOREM ShutdownEndsAll == WsSpec => ShutdownForAll
<1>1. ASSUME WsInv, Leaving, [WsNext]_<<allVars, alive, histVars>>
      PROVE  [phase = "wsread" /\ phase' = "tick" /\ doomed => DOMAIN ws' = {}]_allVars
  <2> SUFFICES ASSUME phase = "wsread", phase' = "tick", doomed
               PROVE  DOMAIN ws' = {}
    OBVIOUS
  <2>1. EndWsRead
    <3>1. WsStep
      BY <1>1 DEF WsNext, allVars, vars, tickVars
    <3>2. ~EndTransform
      BY DEF EndTransform
    <3>3. \A id : ~WsVisit(id)
      BY DEF WsVisit, WsIdle, WsReadFails, WsMessage, vars, tickVars
    <3>4. ~WsShutdown
      BY DEF WsShutdown, allVars, vars, tickVars
    <3>5. QED
      BY <3>1, <3>2, <3>3, <3>4, PassSteps
  <2>2. ws_todo = {} /\ ws' = Restrict(ws, DOMAIN ws \ ws_remove)
    BY <2>1 DEF EndWsRead
  <2>3. DOMAIN ws' = DOMAIN ws \ ws_remove
    BY <2>2 DEF Restrict
  <2>4. DOMAIN ws \subseteq ws_todo \cup ws_remove
    BY <1>1 DEF Leaving
  <2>5. QED
    BY <2>2, <2>3, <2>4
<1>2. QED
  BY <1>1, LeavingInvariance, PTL DEF WsSpec, ShutdownForAll
=============================================================================
