------------------------------ MODULE WsServer ------------------------------
(***************************************************************************)
(* The server for both HTTP and WebSocket connections, HttpWsServer        *)
(* (ws_server.rs): an HttpServer whose handler, WsHandler, takes WebSocket *)
(* handshakes for itself and passes the other requests on to the           *)
(* application.  In its on_tick it turns the connections with a pending    *)
(* handshake into WebSocket connections, reads every WebSocket connection  *)
(* once, and lets the application act on both kinds.                       *)
(*                                                                         *)
(* A WebSocket connection keeps the id of the HTTP connection it was.  The *)
(* messages of a client are elements of its stream like its requests; what *)
(* happens inside one WsStream is the subject of WsStream.                 *)
(***************************************************************************)
EXTENDS HttpServer, SequencesExt

CONSTANTS
  Pipelines,    (* whether clients ask for an upgrade before they have the
                   answers to their earlier requests                     *)
  Shutdowns     (* whether the application calls shutdown() of a stream    *)

ASSUME WsAssumption == {Pipelines, Shutdowns} \subseteq BOOLEAN

VARIABLES
  pending,      (* handshakes to answer, pending_conn_ids                  *)
  ws,           (* the WebSocket connections, by id                        *)
  ws_todo,      (* ids WsHandler::tick_read has yet to visit               *)
  ws_remove,    (* ids it will remove                                      *)
  known,        (* WebSocket connections the application believes to exist *)
  alive,        (* the Alive that all WebSocket connections share          *)
  \* What has happened so far, for the guard of shutdown() and a property.
  handed,       (* whether the application has had a stream in its hands   *)
  doomed        (* whether this pass of tick_read began after a shutdown   *)

wsVars == <<pending, ws, ws_todo, ws_remove, known>>
allVars == <<vars, wsVars>>
histVars == <<handed, doomed>>

WsConn == [client : Client, connected : BOOLEAN]

WsTypeOK ==
  /\ peer \in [Client -> {"new", "open", "gone", "dropped"}]
  /\ backlog \in Seq(Client)
  /\ stream \in [Client -> Seq(Kinds)]
  /\ taken \in [Client -> Nat]
  /\ outbox \in [Client -> Seq(Response)]
  /\ conn_seq \in Nat
  /\ DOMAIN conns \cup DOMAIN ws \subseteq 0..(conn_seq - 1)
  /\ \A id \in DOMAIN conns : conns[id] \in Conn
  /\ \A id \in DOMAIN ws : ws[id] \in WsConn
  /\ phase \in {"accept", "read", "transform", "wsread", "tick", "panicked"}
  /\ pending \in Seq(Owed)
  /\ \A o \in owed : o \in Owed
  /\ todo \cup remove_conn \subseteq DOMAIN conns
  /\ ws_todo \cup ws_remove \subseteq DOMAIN ws
  /\ alive \in BOOLEAN

WsInit ==
  /\ ServerInit
  /\ pending = <<>>
  /\ ws = [id \in {} |-> {}]
  /\ ws_todo = {}
  /\ ws_remove = {}
  /\ known = {}
  /\ alive = TRUE
  /\ handed = FALSE
  /\ doomed = FALSE

-----------------------------------------------------------------------------
(* The clients: a client that asked for an upgrade waits for the answer,   *)
(* and sends messages once it has it, and frames that end the stream: a    *)
(* "badframe" is a close or one the parser refuses.                        *)

Upgraded(c) == \E i \in DOMAIN outbox[c] : stream[c][outbox[c][i].n] = "upgrade"

Frames == {"frame", "badframe"}

WsSend(c, kind) ==
  /\ IF Upgraded(c) THEN kind \in Frames
                    ELSE kind \notin Frames /\ ~Contains(stream[c], "upgrade")
  /\ kind = "upgrade" /\ ~Pipelines => Len(outbox[c]) = Len(stream[c])
  /\ Send(c, kind)
  /\ UNCHANGED wsVars

-----------------------------------------------------------------------------
(* on_new_http_request, called from tick_read of the HttpServer.           *)

\* A handshake is kept for the next transform_conns.
TakeHandshake(id, k) ==
  /\ TakeRequest(id, k)
  /\ NextKind(conns[id].client) = "upgrade"
  /\ conns' = [conns EXCEPT ![id] = Took(@, k)]
  /\ pending' = Append(pending, Ticket(id))
  /\ UNCHANGED <<owed, ws, ws_todo, ws_remove, known>>

\* A handshake whose headers are malformed closes the connection.
RefuseHandshake(id, k) ==
  /\ TakeRequest(id, k)
  /\ NextKind(conns[id].client) = "badupgrade"
  /\ conns' = [conns EXCEPT ![id] = TryClose(Took(@, k))]
  /\ UNCHANGED <<owed, wsVars>>

PassRequest(id, k, is_close) ==
  /\ NewRequest(id, k, is_close)
  /\ NextKind(conns[id].client) = "http"
  /\ UNCHANGED wsVars

-----------------------------------------------------------------------------
(* transform_conns: the latest handshake first.                            *)

Handshake == Last(pending)

Transforming == phase = "transform" /\ pending # <<>>

\* Variant: leaves handshakes for a later tick.
MoreToTransformLater == FALSE

\* The transform loop goes on until no handshake is left.
MoreToTransform == pending # <<>>

\* write_response of the 101 answer.
Switching(out, k) ==
  /\ k \in Accepts(Len(out))
  /\ Deliver(Handshake.client, out, k)

\* Variant: get_mut instead of remove_conn.
LeaveConns(id) == conns

\* The HTTP connections without the one that becomes a WebSocket.
TakeConn(id) == Restrict(conns, DOMAIN conns \ {id})

\* from_http_conn: what is left in the write buffer goes with the connection.
\* on_new_ws_conn may refuse the connection by setting is_close.
Upgrade(k, is_close) ==
  LET id == Handshake.conn IN
  /\ Transforming
  /\ Expects(id)
  /\ Switching(Append(conns[id].wbuf, Answer(Handshake)), k)
  /\ pending' = Front(pending)
  /\ conns' = TakeConn(id)
  /\ IF is_close
       THEN /\ peer' = Dropping({conns[id].client})
            /\ UNCHANGED <<ws, known>>
       ELSE /\ ws' = [j \in DOMAIN ws \cup {id} |->
                        IF j = id THEN [client |-> conns[id].client, connected |-> TRUE]
                                  ELSE ws[j]]
            /\ known' = known \cup {id}
            /\ UNCHANGED peer
  /\ UNCHANGED <<backlog, stream, taken, conn_seq, tickVars, owed, ws_todo, ws_remove>>

\* from_http_conn fails, or there is no such connection any more.
UpgradeFails ==
  /\ Transforming
  /\ pending' = Front(pending)
  /\ RemoveConns({Handshake.conn} \cap DOMAIN conns)
  /\ UNCHANGED <<backlog, stream, taken, outbox, conn_seq, tickVars, owed,
                 ws, ws_todo, ws_remove, known>>

\* write_response fails and its unwrap ends the thread.
UpgradePanics ==
  LET id == Handshake.conn IN
  /\ Transforming
  /\ id \in DOMAIN conns
  /\ peer[conns[id].client] = "gone" \/ ~Expects(id)
  /\ phase' = "panicked"
  /\ UNCHANGED <<netVars, connVars, todo, remove_conn, owed, wsVars>>

\* Variant: reads the first connection only.
FirstToVisit == {id \in DOMAIN ws : \A other \in DOMAIN ws : id <= other}

ToVisit == DOMAIN ws

EndTransform ==
  /\ phase = "transform"
  /\ ~MoreToTransform
  /\ phase' = "wsread"
  /\ ws_todo' = ToVisit
  /\ UNCHANGED <<netVars, connVars, todo, remove_conn, owed, pending, ws, ws_remove, known>>

-----------------------------------------------------------------------------
(* WsHandler::tick_read: one message of every WebSocket connection.        *)

WsVisiting(id) == phase = "wsread" /\ id \in ws_todo /\ \A other \in ws_todo : id <= other

\* Variant: a shutdown is that of its own stream.
UsableAnyway(id) == ws[id].connected

\* check_connected: an operation disconnected this stream, or some stream was
\* shut down.
Usable(id) == ws[id].connected /\ alive

WsMessage(id, is_close) ==
  LET c == ws[id].client IN
  /\ WsVisiting(id)
  /\ Usable(id)
  /\ Unread(c)
  /\ NextKind(c) = "frame"
  /\ taken' = [taken EXCEPT ![c] = @ + 1]
  /\ ws_todo' = ws_todo \ {id}
  /\ ws_remove' = IF is_close THEN ws_remove \cup {id} ELSE ws_remove
  /\ UNCHANGED <<peer, backlog, stream, outbox, connVars, tickVars, owed, pending, ws, known>>

\* Would block.
WsIdle(id) ==
  /\ WsVisiting(id)
  /\ Usable(id)
  /\ peer[ws[id].client] = "open"
  /\ ~Unread(ws[id].client)
  /\ ws_todo' = ws_todo \ {id}
  /\ UNCHANGED <<vars, pending, ws, ws_remove, known>>

\* The stream is disconnected, the client gone, or the next frame the last.
WsReadFails(id) ==
  /\ WsVisiting(id)
  /\ \/ ~Usable(id)
     \/ peer[ws[id].client] = "gone"
     \/ Unread(ws[id].client) /\ NextKind(ws[id].client) = "badframe"
  /\ ws_todo' = ws_todo \ {id}
  /\ ws_remove' = ws_remove \cup {id}
  /\ UNCHANGED <<vars, pending, ws, known>>

\* Variant: removes without telling the application.
OnCloseMissed(ids) == known

\* What the application believes after on_close_ws_conn for each of ids.
OnClose(ids) == known \ ids

\* Removes the connections and calls on_close_ws_conn for each.
EndWsRead ==
  /\ phase = "wsread"
  /\ ws_todo = {}
  /\ ws' = Restrict(ws, DOMAIN ws \ ws_remove)
  /\ peer' = Dropping({ws[id].client : id \in ws_remove})
  /\ known' = OnClose(ws_remove)
  /\ ws_remove' = {}
  /\ phase' = "tick"
  /\ UNCHANGED <<backlog, stream, taken, outbox, connVars, todo, remove_conn, owed,
                 pending, ws_todo>>

-----------------------------------------------------------------------------
(* The application in on_tick: besides what it does to HTTP connections it *)
(* reaches the WebSocket connections through WsServerConns.                *)

\* A write that fails, or disconnect(), closes the socket; the connection
\* stays until tick_read finds out.
WsDisconnect(id) ==
  /\ phase = "tick"
  /\ ws[id].connected
  /\ ws' = [ws EXCEPT ![id].connected = FALSE]
  /\ peer' = Dropping({ws[id].client})
  /\ UNCHANGED <<backlog, stream, taken, outbox, connVars, tickVars, owed,
                 pending, ws_todo, ws_remove, known>>

\* WsServerConns::remove
WsRemove(id) ==
  /\ phase = "tick"
  /\ ws' = Restrict(ws, DOMAIN ws \ {id})
  /\ peer' = Dropping({ws[id].client})
  /\ known' = known \ {id}
  /\ UNCHANGED <<backlog, stream, taken, outbox, connVars, tickVars, owed,
                 pending, ws_todo, ws_remove>>

\* shutdown() of one stream, which is that of all, and of those to come: any
\* thread the application has passed a stream's Alive to may call it, also in
\* the middle of a pass of tick_read.
WsShutdown ==
  /\ Shutdowns
  /\ handed
  /\ alive
  /\ alive' = FALSE
  /\ UNCHANGED allVars

-----------------------------------------------------------------------------
(* The specification. *)

WsPeers ==
  \E c \in Client :
    \/ (Connect(c) \/ HangUp(c)) /\ UNCHANGED wsVars
    \/ \E kind \in Kinds : WsSend(c, kind)

WsRead(id) ==
  \/ FlushFails(id) /\ UNCHANGED wsVars
  \/ \E k \in Writes(id) :
       \/ (NoRequest(id, k) \/ ReadFails(id, k) \/ FlushBlocks(id, k)) /\ UNCHANGED wsVars
       \/ TakeHandshake(id, k)
       \/ RefuseHandshake(id, k)
       \/ \E is_close \in BOOLEAN : PassRequest(id, k, is_close)

Transform ==
  \/ UpgradeFails
  \/ UpgradePanics
  \/ Transforming /\ \E k \in Writes(Handshake.conn), is_close \in BOOLEAN : Upgrade(k, is_close)
  \/ EndTransform

WsVisit(id) == WsIdle(id) \/ WsReadFails(id) \/ \E is_close \in BOOLEAN : WsMessage(id, is_close)

WsTick ==
  \/ (Accept \/ EndRead("transform") \/ EndTick) /\ UNCHANGED wsVars
  \/ \E id \in DOMAIN conns : WsRead(id)
  \/ Transform
  \/ \E id \in DOMAIN ws : WsVisit(id)
  \/ EndWsRead

WsReply == Reply /\ UNCHANGED wsVars

WsManage ==
  \/ Manage /\ UNCHANGED wsVars
  \/ \E id \in DOMAIN ws : WsDisconnect(id) \/ WsRemove(id)

WsStep ==
  \/ (WsPeers \/ WsTick \/ WsReply \/ WsManage) /\ UNCHANGED alive
  \/ WsShutdown

\* The application meets the streams in on_tick.
Note ==
  /\ handed' = (handed \/ (phase' = "tick" /\ DOMAIN ws' # {}))
  /\ doomed' = IF phase # "wsread" /\ phase' = "wsread" THEN ~alive ELSE doomed

WsNext == WsStep /\ Note

WsSpec == WsInit /\ [][WsNext]_<<allVars, alive, histVars>>

\* A panic ends the ticks.
WsTickSpec ==
  /\ WsSpec
  /\ WF_allVars(WsTick)
  /\ SF_allVars((AcceptConn \/ AcceptFails) /\ UNCHANGED wsVars)

-----------------------------------------------------------------------------
(* Properties. *)

\* A socket is in one of the two maps at most, although a connection moves
\* from one to the other under the same id (ws_server.rs:139-151): the same
\* bytes are never read as HTTP and as WebSocket frames.
OneHome ==
  /\ DOMAIN conns \cap DOMAIN ws = {}
  /\ \A i \in DOMAIN conns, j \in DOMAIN ws : conns[i].client # ws[j].client
  /\ \A i, j \in DOMAIN ws : ws[i].client = ws[j].client => i = j

\* A pending handshake is that of a connection that is still there with a
\* request in flight, so the only error the unwrap of write_response
\* (ws_stream.rs:386) can meet is that of the socket.
PendingAlive ==
  \A p \in Range(pending) : /\ Expects(p.conn)
                            /\ conns[p.conn].client = p.client

\* Between its steps the handler and the application agree on which
\* WebSocket connections exist: on_new_ws_conn and on_close_ws_conn come
\* exactly when they should, also when the application removes or refuses
\* a connection itself (ws_server.rs:158-161, 202-206).
AppKnowsConns == known = DOMAIN ws

\* A pass of tick_read that begins after the shutdown of one stream finds
\* every WebSocket connection disconnected and removes it, also one that was
\* upgraded since (ws_server.rs:141, 176-201).  A pass that shutdown() meets
\* half way removes the connections it has yet to visit; the others go with
\* the next.
ShutdownForAll ==
  [][phase = "wsread" /\ phase' = "tick" /\ doomed => DOMAIN ws' = {}]_allVars

\* The unwrap at ws_stream.rs:386 holds.
NoPanic == phase # "panicked"

\* EveryRequestTaken, for requests and messages, unless the server panicked.
EveryMessageTaken ==
  \A c \in Client : \A n \in 1..MaxRequests :
    Len(stream[c]) >= n ~>
      (taken[c] >= n \/ peer[c] # "open" \/ Closing(c) \/ phase = "panicked"
         \/ \E id \in DOMAIN ws : ws[id].client = c /\ ~ws[id].connected)

\* ClosingEnds, unless the server panicked.
WsClosingEnds ==
  SF_allVars(WsReply) =>
    \A c \in Client : Closing(c) ~> (peer[c] # "open" \/ phase = "panicked")
=============================================================================
