----------------------------- MODULE HttpServer -----------------------------
(***************************************************************************)
(* The nonblocking HTTP server: HttpServer::tick (http_server.rs), the map *)
(* of connections HttpServerConns it owns, and the connection operations   *)
(* of HttpConnServer (http_conn.rs) it calls.                              *)
(*                                                                         *)
(* The server is one thread that calls tick() in a loop.  A tick accepts   *)
(* every connection of the listen queue, visits every connection once in   *)
(* the order of the ids, and then lets the application (the                *)
(* HttpServerHandler) answer requests it took in this or an earlier tick.  *)
(* The clients and the kernel run concurrently with all of it, so a tick   *)
(* is a sequence of steps between which they act.                          *)
(*                                                                         *)
(* A client stands for one TCP connection.  The bytes of a request are one *)
(* element of the client's stream, and its n-th request is the pair of the *)
(* client and n; a response is named by the request the application wrote  *)
(* it for.                                                                 *)
(*                                                                         *)
(* An operator marked "Variant" is no part of the specification: it is the *)
(* operator after it with one mistake, for checking that a property of     *)
(* the module would notice the mistake.                                    *)
(***************************************************************************)
EXTENDS Naturals, Sequences, Functions

CONSTANTS
  Client,       (* the TCP connections that are ever opened                *)
  Kinds,        (* the kinds of requests clients send; "bad" does not parse *)
  MaxRequests,  (* bound: requests one client sends                        *)
  SocketFull    (* whether the kernel may refuse some bytes of a response  *)

ASSUME ServerAssumption ==
  /\ MaxRequests \in Nat
  /\ SocketFull \in BOOLEAN

VARIABLES
  \* The clients and the kernel.
  peer,         (* what has become of each client's socket                 *)
  backlog,      (* the listen queue                                        *)
  stream,       (* the requests each client has sent, all of them          *)
  taken,        (* how many of them the server has parsed                  *)
  outbox,       (* the responses each client has received                  *)
  \* HttpServerConns.
  conn_seq,     (* the next connection id                                  *)
  conns,        (* the connections, by id                                  *)
  \* Where the tick is.
  phase,        (* the part of the tick that runs                          *)
  todo,         (* ids tick_read has yet to visit                          *)
  remove_conn,  (* ids tick_read will remove                               *)
  \* The application.
  owed          (* requests it took and has not answered yet               *)

netVars  == <<peer, backlog, stream, taken, outbox>>
connVars == <<conn_seq, conns>>
tickVars == <<phase, todo, remove_conn>>
vars     == <<netVars, connVars, tickVars, owed>>

Response == [client : Client, n : Nat \ {0}]
Conn     == [client : Client, inflight : Nat, closed : BOOLEAN, wbuf : Seq(Response)]
Owed     == [conn : Nat, client : Client, n : Nat \ {0}]

TypeOK ==
  /\ peer \in [Client -> {"new", "open", "gone", "dropped"}]
  /\ backlog \in Seq(Client)
  /\ stream \in [Client -> Seq(Kinds)]
  /\ taken \in [Client -> Nat]
  /\ outbox \in [Client -> Seq(Response)]
  /\ conn_seq \in Nat
  /\ DOMAIN conns \subseteq 0..(conn_seq - 1)
  /\ \A id \in DOMAIN conns : conns[id] \in Conn
  /\ phase \in {"accept", "read", "tick"}
  /\ todo \subseteq DOMAIN conns
  /\ remove_conn \subseteq DOMAIN conns
  /\ \A o \in owed : o \in Owed

ServerInit ==
  /\ peer = [c \in Client |-> "new"]
  /\ backlog = <<>>
  /\ stream = [c \in Client |-> <<>>]
  /\ taken = [c \in Client |-> 0]
  /\ outbox = [c \in Client |-> <<>>]
  /\ conn_seq = 0
  /\ conns = [id \in {} |-> {}]
  /\ phase = "accept"
  /\ todo = {}
  /\ remove_conn = {}
  /\ owed = {}

Init == ServerInit

-----------------------------------------------------------------------------
(* The clients. *)

Connect(c) ==
  /\ peer[c] = "new"
  /\ peer' = [peer EXCEPT ![c] = "open"]
  /\ backlog' = Append(backlog, c)
  /\ UNCHANGED <<stream, taken, outbox, connVars, tickVars, owed>>

Send(c, kind) ==
  /\ peer[c] = "open"
  /\ Len(stream[c]) < MaxRequests
  /\ stream' = [stream EXCEPT ![c] = Append(@, kind)]
  /\ UNCHANGED <<peer, backlog, taken, outbox, connVars, tickVars, owed>>

HangUp(c) ==
  /\ peer[c] = "open"
  /\ peer' = [peer EXCEPT ![c] = "gone"]
  /\ UNCHANGED <<backlog, stream, taken, outbox, connVars, tickVars, owed>>

-----------------------------------------------------------------------------
(* The sockets and HttpServerConns. *)

\* The server closes the sockets of the clients in S.
Dropping(S) == [c \in Client |-> IF c \in S /\ peer[c] = "open" THEN "dropped" ELSE peer[c]]

ClientsOf(ids) == {conns[id].client : id \in ids}

\* How many of len buffered responses the kernel may accept in one write.
Accepts(len) == IF SocketFull THEN 0..len ELSE {len}

\* WriteBuffer hands the first k of the responses rs to the kernel, which
\* delivers them unless the client is gone.
Deliver(c, rs, k) ==
  outbox' = [outbox EXCEPT ![c] = IF peer[c] = "open" THEN @ \o SubSeq(rs, 1, k) ELSE @]

\* Variant: what was written stays in the buffer.
UnsentKept(rs, k) == rs

Unsent(rs, k) == SubSeq(rs, k + 1, Len(rs))

NewConn(c) == [client |-> c, inflight |-> 0, closed |-> FALSE, wbuf |-> <<>>]

\* Variant: ids are not used up.
NextIdStuck == conn_seq

NextId == conn_seq + 1

\* add_conn
AddConn(c) ==
  /\ conns' = [id \in DOMAIN conns \cup {conn_seq} |->
                 IF id = conn_seq THEN NewConn(c) ELSE conns[id]]
  /\ conn_seq' = NextId

\* remove_conn, for each of ids; dropping a connection closes its socket.
RemoveConns(ids) ==
  /\ conns' = Restrict(conns, DOMAIN conns \ ids)
  /\ peer' = Dropping(ClientsOf(ids))

\* close_conn, try_close
TryClose(conn) == [conn EXCEPT !.closed = TRUE]

-----------------------------------------------------------------------------
(* tick_accept *)

AcceptConn ==
  /\ phase = "accept"
  /\ backlog # <<>>
  /\ AddConn(Head(backlog))
  /\ backlog' = Tail(backlog)
  /\ UNCHANGED <<peer, stream, taken, outbox, tickVars, owed>>

\* HttpConnServer::accept fails on the new socket: the socket is dropped and
\* the rest of the queue waits for the next tick.
AcceptFails ==
  /\ phase = "accept"
  /\ backlog # <<>>
  /\ backlog' = Tail(backlog)
  /\ peer' = Dropping({Head(backlog)})
  /\ phase' = "read"
  /\ todo' = DOMAIN conns
  /\ UNCHANGED <<stream, taken, outbox, connVars, remove_conn, owed>>

\* listener.accept() itself fails: the queue waits for the next tick.
AcceptError ==
  /\ phase = "accept"
  /\ backlog # <<>>
  /\ phase' = "read"
  /\ todo' = DOMAIN conns
  /\ UNCHANGED <<netVars, connVars, remove_conn, owed>>

\* accept() would block.
AcceptDone ==
  /\ phase = "accept"
  /\ backlog = <<>>
  /\ phase' = "read"
  /\ todo' = DOMAIN conns
  /\ UNCHANGED <<netVars, connVars, remove_conn, owed>>

-----------------------------------------------------------------------------
(* tick_read: read_request on every connection, in the order of the ids.  *)

Visiting(id) == phase = "read" /\ id \in todo /\ \A other \in todo : id <= other

Unread(c) == taken[c] < Len(stream[c])

NextKind(c) == stream[c][taken[c] + 1]

\* Variant: one request at a time.
MayReadIdle(conn) == ~conn.closed /\ conn.inflight = 0

\* read_request looks at the socket only while nobody asked to close.
MayRead(conn) == ~conn.closed

\* Variant: closes with the last response still owed.
DrainedButOne(conn) == conn.inflight <= 1

\* A connection that was asked to close lives while a request is in flight.
Drained(conn) == conn.inflight = 0

\* The flush at the head of read_request hands k responses to the kernel ...
Flush(id, k) ==
  /\ k \in Accepts(Len(conns[id].wbuf))
  /\ Deliver(conns[id].client, conns[id].wbuf, k)

\* ... and read_request goes on when that is all of them.
FlushAll(id, k) == k = Len(conns[id].wbuf) /\ Flush(id, k)

Flushed(conn, k) == [conn EXCEPT !.wbuf = Unsent(@, k)]

\* read_request returns a request: what happens to the socket ...
TakeRequest(id, k) ==
  LET c == conns[id].client IN
  /\ Visiting(id)
  /\ FlushAll(id, k)
  /\ MayRead(conns[id])
  /\ Unread(c)
  /\ NextKind(c) # "bad"
  /\ taken' = [taken EXCEPT ![c] = @ + 1]
  /\ todo' = todo \ {id}
  /\ UNCHANGED <<peer, backlog, stream, conn_seq, phase, remove_conn>>

\* Variant: the request is not counted.
TookUncounted(conn, k) == Flushed(conn, k)

\* ... and to the connection.
Took(conn, k) == [Flushed(conn, k) EXCEPT !.inflight = @ + 1]

Ticket(id) == [conn |-> id, client |-> conns[id].client, n |-> taken[conns[id].client] + 1]

\* on_new_http_request keeps the request to answer it in a later on_tick,
\* and may ask for the connection to be closed.
NewRequest(id, k, is_close) ==
  /\ TakeRequest(id, k)
  /\ conns' = [conns EXCEPT ![id] = IF is_close THEN TryClose(Took(@, k)) ELSE Took(@, k)]
  /\ owed' = owed \cup {Ticket(id)}

\* read_request returns Ok(None).
NoRequest(id, k) ==
  LET conn == conns[id] IN
  /\ Visiting(id)
  /\ FlushAll(id, k)
  /\ IF MayRead(conn)
       THEN peer[conn.client] = "open" /\ ~Unread(conn.client)
       ELSE ~Drained(conn)
  /\ conns' = [conns EXCEPT ![id] = Flushed(@, k)]
  /\ todo' = todo \ {id}
  /\ UNCHANGED <<peer, backlog, stream, taken, conn_seq, phase, remove_conn, owed>>

\* read_request returns an error: the connection is closed and idle, the
\* next request does not parse, or the client is gone (what it sent before
\* may or may not still be readable).
ReadFails(id, k) ==
  LET conn == conns[id] IN
  /\ Visiting(id)
  /\ FlushAll(id, k)
  /\ IF MayRead(conn)
       THEN \/ peer[conn.client] = "gone"
            \/ Unread(conn.client) /\ NextKind(conn.client) = "bad"
       ELSE Drained(conn)
  /\ conns' = [conns EXCEPT ![id] = Flushed(@, k)]
  /\ todo' = todo \ {id}
  /\ remove_conn' = remove_conn \cup {id}
  /\ UNCHANGED <<peer, backlog, stream, taken, conn_seq, phase, owed>>

\* The flush itself fails: the client is gone.
FlushFails(id) ==
  /\ Visiting(id)
  /\ peer[conns[id].client] = "gone"
  /\ conns[id].wbuf # <<>>
  /\ todo' = todo \ {id}
  /\ remove_conn' = remove_conn \cup {id}
  /\ UNCHANGED <<netVars, connVars, phase, owed>>

\* The flush reports that the kernel did not take everything, which
\* read_request returns as an error like any other.
FlushBlocks(id, k) ==
  /\ Visiting(id)
  /\ Flush(id, k)
  /\ k < Len(conns[id].wbuf)
  /\ conns' = [conns EXCEPT ![id] = Flushed(@, k)]
  /\ todo' = todo \ {id}
  /\ remove_conn' = remove_conn \cup {id}
  /\ UNCHANGED <<peer, backlog, stream, taken, conn_seq, phase, owed>>

\* Every connection has been visited; the failed ones are removed.
EndRead(next) ==
  /\ phase = "read"
  /\ todo = {}
  /\ RemoveConns(remove_conn)
  /\ remove_conn' = {}
  /\ phase' = next
  /\ UNCHANGED <<backlog, stream, taken, outbox, conn_seq, todo, owed>>

-----------------------------------------------------------------------------
(* on_tick: the application has the connections to itself.  It answers the *)
(* requests of one connection in the order it got them, those of different *)
(* connections in any order, and it does not know which connections are    *)
(* still there.                                                            *)

Oldest(o) == \A other \in owed : other.conn = o.conn => o.n <= other.n

Answer(o) == [client |-> o.client, n |-> o.n]

\* Variant: nothing is written to a connection that was asked to close.
ExpectsOpen(id) == id \in DOMAIN conns /\ conns[id].inflight > 0 /\ ~conns[id].closed

\* write_response accepts a response only while a request is in flight.
Expects(id) == id \in DOMAIN conns /\ conns[id].inflight > 0

\* Variant: the answer is not counted.
AnsweredUncounted(conn, out, k) == [conn EXCEPT !.wbuf = Unsent(out, k)]

Answered(conn, out, k) == [conn EXCEPT !.inflight = @ - 1, !.wbuf = Unsent(out, k)]

\* write_to; a connection that is not there swallows the response.
WriteTo(o, k) ==
  /\ phase = "tick"
  /\ Oldest(o)
  /\ owed' = owed \ {o}
  /\ IF Expects(o.conn)
       THEN LET conn == conns[o.conn]
                out  == Append(conn.wbuf, Answer(o))
            IN  /\ k \in Accepts(Len(out))
                /\ Deliver(conn.client, out, k)
                /\ conns' = [conns EXCEPT ![o.conn] = Answered(@, out, k)]
       ELSE k = 0 /\ UNCHANGED <<outbox, conns>>
  /\ UNCHANGED <<peer, backlog, stream, taken, conn_seq, tickVars>>

\* The write fails because the client is gone; the connection keeps its
\* count and the application does not try again.
WriteFails(o) ==
  /\ phase = "tick"
  /\ Oldest(o)
  /\ Expects(o.conn)
  /\ peer[conns[o.conn].client] = "gone"
  /\ owed' = owed \ {o}
  /\ UNCHANGED <<netVars, connVars, tickVars>>

CloseConn(id) ==
  /\ phase = "tick"
  /\ conns' = [conns EXCEPT ![id] = TryClose(@)]
  /\ UNCHANGED <<netVars, conn_seq, tickVars, owed>>

RemoveConn(id) ==
  /\ phase = "tick"
  /\ RemoveConns({id})
  /\ UNCHANGED <<backlog, stream, taken, outbox, conn_seq, tickVars, owed>>

\* on_tick returns and the host calls tick() again.
EndTick ==
  /\ phase = "tick"
  /\ phase' = "accept"
  /\ UNCHANGED <<netVars, connVars, todo, remove_conn, owed>>

-----------------------------------------------------------------------------
(* The specification. *)

\* How many buffered responses a write of this connection can take at most.
Writes(id) == 0..(IF id \in DOMAIN conns THEN Len(conns[id].wbuf) + 1 ELSE 0)

Peers ==
  \E c \in Client : Connect(c) \/ HangUp(c) \/ \E kind \in Kinds : Send(c, kind)

Accept == AcceptConn \/ AcceptFails \/ AcceptError \/ AcceptDone

Read(id) ==
  \/ FlushFails(id)
  \/ \E k \in Writes(id) :
       \/ NoRequest(id, k)
       \/ ReadFails(id, k)
       \/ FlushBlocks(id, k)
       \/ \E is_close \in BOOLEAN : NewRequest(id, k, is_close)

Reply == \E o \in owed : WriteFails(o) \/ \E k \in Writes(o.conn) : WriteTo(o, k)

Manage == \E id \in DOMAIN conns : CloseConn(id) \/ RemoveConn(id)

\* What tick() does by itself.
Tick == Accept \/ (\E id \in DOMAIN conns : Read(id)) \/ EndRead("tick") \/ EndTick

Next == Peers \/ Tick \/ Reply \/ Manage

Spec == Init /\ [][Next]_vars

\* The host calls tick() in a loop, and accept() does not fail for ever.
TickSpec == Spec /\ []<><<Tick>>_vars /\ SF_vars(AcceptConn \/ AcceptFails)

-----------------------------------------------------------------------------
(* What the server implements. *)

State(c) == IF peer[c] \in {"gone", "dropped"} THEN "over" ELSE peer[c]

Exch == INSTANCE Exchange WITH
          state   <- [c \in Client |-> State(c)],
          asked   <- [c \in Client |-> Len(stream[c])],
          replies <- outbox

-----------------------------------------------------------------------------
(* Properties. *)

\* Seen from the clients, the tick loop with its ids, counts and buffers is
\* the exchange of requests and responses that Exchange describes: every
\* step of the server, the kernel or the application either is a step of it
\* or cannot be seen (http_server.rs:202-213).
ImplementsExchange == Exch!Spec

\* If the application answers, every request that was taken is answered or
\* its conversation ends: no response stays behind in a write buffer
\* (http_conn.rs:252, 277).
AnswersEveryone == SF_vars(Reply) => Exch!Fairness

\* A client receives exactly the answers to its own requests, each once and
\* in the order of the requests, although connections come and go while the
\* application holds ids: write_to (http_server.rs:60) addresses a
\* connection by its id only, and responses carry no request id.
ResponsesInOrder ==
  \A c \in Client : \A i \in 1..Len(outbox[c]) : outbox[c][i] = [client |-> c, n |-> i]

\* An application that answers each request once never meets the error
\* write_response calls "should not happen" (http_conn.rs:275): while a
\* response is owed on a connection, a request is in flight there.
SolicitedOnly ==
  \A o \in owed : o.conn \in DOMAIN conns => conns[o.conn].inflight > 0

\* When tick_read removes a connection that was asked to close, its client,
\* if still there, has got the response to every request the server took
\* (http_server.rs:180: closing waits for the responses), unless the kernel
\* refused some of them: a flush that blocks costs the connection, with what
\* is buffered (http_conn.rs:252).
GracefulClose ==
  [][\A id \in remove_conn :
       conns[id].closed /\ id \notin DOMAIN conns' /\ peer[conns[id].client] = "open"
         => \/ Len(outbox[conns[id].client]) = taken[conns[id].client]
            \/ conns[id].wbuf # <<>>]_vars

\* The connection of c has been asked to close.
Closing(c) == \E id \in DOMAIN conns : conns[id].client = c /\ conns[id].closed

\* Whatever the application does, every request a client sends is taken,
\* unless its connection ends or is asked to close: neither slow answers
\* nor other clients' connections starve it.
EveryRequestTaken ==
  \A c \in Client : \A n \in 1..MaxRequests :
    Len(stream[c]) >= n ~> (taken[c] >= n \/ peer[c] # "open" \/ Closing(c))

\* A connection that was asked to close ends, if the application answers
\* what it took: the last answer lets the connection go.
ClosingEnds ==
  SF_vars(Reply) => \A c \in Client : Closing(c) ~> peer[c] # "open"
=============================================================================
