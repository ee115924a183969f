-------------------------- MODULE PipelinedClient --------------------------
(***************************************************************************)
(* The nonblocking HTTP client: the connections HttpConnClient, each with  *)
(* any number of requests in flight, and the HttpConnClientPool of them    *)
(* (http_conn.rs).  One thread calls write_request and read_response of    *)
(* the pool; the server and the kernel act at any time.                    *)
(*                                                                         *)
(* A request is named by the id the caller gives it, and so is the         *)
(* response to it; the code sees only that a response has come, and names  *)
(* it after the oldest id in flight.  The caller uses an id again when it  *)
(* is no longer waited for.  Connections live in slots: a new connection   *)
(* takes the slot of the one it replaces.                                  *)
(*                                                                         *)
(* Operators marked "Variant" are mistakes, as in HttpServer.              *)
(***************************************************************************)
EXTENDS Naturals, Sequences, SequencesExt, FiniteSets

CONSTANTS
  Slot,      (* the places of the pool                                     *)
  NoSlot,
  Id,        (* request ids                                                *)
  Ping,      (* usize::MAX: the response is not for the caller             *)
  Window,    (* requests the kernel holds between client and server        *)
  Backlog    (* responses the server sends before the client reads one     *)

ASSUME PoolAssumption ==
  /\ NoSlot \notin Slot
  /\ Ping \in Id
  /\ IsFiniteSet(Slot) /\ Slot # {}
  /\ {Window, Backlog} \subseteq Nat \ {0}

VARIABLES
  conns,     (* the connection in each slot                                *)
  clients,   (* HttpConnClientPool::clients, as slots                      *)
  \* The call that runs.
  pc,
  held,      (* the connection write_request took out of the pool          *)
  req,       (* the id it is to send                                       *)
  at,        (* the client read_response looks at                          *)
  \* The caller.
  waiting,   (* the ids it waits for                                       *)
  drains,    (* whether it reads until nothing is left before it writes    *)
  drained,   (* the last read_response had nothing, which is WouldBlock    *)
  result     (* what read_response returned: the id, and whose response    *)

poolVars == <<conns, clients>>
callVars == <<pc, held, req, at, drains>>
vars     == <<poolVars, callVars, waiting, drained, result>>

Conn == [inflight : Seq(Id),   (* inflight_id                              *)
         wbuf     : Seq(Id),   (* requests the kernel did not take         *)
         inbox    : Seq(Id),   (* requests the server has yet to answer    *)
         outbox   : Seq(Id),   (* responses on their way                   *)
         buffer   : Seq(Id),   (* responses in header_buffer               *)
         up       : BOOLEAN]   (* the server has not closed its end        *)

None == [id |-> Ping, of |-> Ping]

NewConn == [inflight |-> <<>>, wbuf |-> <<>>, inbox |-> <<>>, outbox |-> <<>>,
            buffer |-> <<>>, up |-> TRUE]

TypeOK ==
  /\ conns \in [Slot -> Conn]
  /\ clients \in Seq(Slot)
  /\ pc \in {"idle", "write", "reconnect", "rewrite", "visit", "response", "replace"}
  /\ held \in Slot \cup {NoSlot}
  /\ req \in Id
  /\ at \in 0..Len(clients)
  /\ waiting \subseteq Id
  /\ {drains, drained} \subseteq BOOLEAN
  /\ result \in [id : Id, of : Id]

Init ==
  /\ conns = [s \in Slot |-> NewConn]
  /\ clients = SetToSeq(Slot)
  /\ pc = "idle"
  /\ held = NoSlot
  /\ req = Ping
  /\ at = 0
  /\ waiting = {}
  /\ drains \in BOOLEAN
  /\ drained = TRUE
  /\ result = None

-----------------------------------------------------------------------------
(* The server. *)

Respond(s) ==
  LET conn == conns[s] IN
  /\ conn.up
  /\ conn.inbox # <<>>
  /\ Len(conn.outbox) < Backlog
  /\ conns' = [conns EXCEPT ![s].inbox = Tail(@), ![s].outbox = Append(@, Head(conn.inbox))]
  /\ UNCHANGED <<clients, callVars, waiting, drained, result>>

\* What is on its way to the client arrives, unless the connection is reset.
ServerCloses(s, reset) ==
  /\ conns[s].up
  /\ conns' = [conns EXCEPT ![s].up = FALSE, ![s].inbox = <<>>,
                            ![s].outbox = IF reset THEN <<>> ELSE @]
  /\ UNCHANGED <<clients, callVars, waiting, drained, result>>

-----------------------------------------------------------------------------
(* The write buffer and the pool. *)

\* How much of the requests rs the kernel takes; a connection the server has
\* closed swallows all of them until it notices.
Taken(conn, rs) ==
  IF ~conn.up THEN Len(rs)
  ELSE IF Len(rs) <= Window - Len(conn.inbox) THEN Len(rs) ELSE Window - Len(conn.inbox)

\* WriteBuffer hands the requests rs, oldest first, to the kernel.
Put(conn, rs) ==
  LET k == Taken(conn, rs) IN
  [conn EXCEPT !.inbox = IF conn.up THEN @ \o SubSeq(rs, 1, k) ELSE @,
               !.wbuf = SubSeq(rs, k + 1, Len(rs))]

Flushed(conn) == Put(conn, conn.wbuf)

\* The orders sort_unstable may leave: most requests in flight first.
Sorted(order, cs) ==
  {s \in [DOMAIN order -> Range(order)] :
     /\ IsInjective(s)
     /\ \A i, j \in DOMAIN s : i < j => Len(cs[s[i]].inflight) >= Len(cs[s[j]].inflight)}

\* Variant: the connection is gone.
PutBackNot == clients

PutBack == Append(clients, held)

\* A call returns without a response.
Return ==
  /\ pc' = "idle"
  /\ held' = NoSlot
  /\ req' = Ping
  /\ at' = 0
  /\ UNCHANGED drains

\* A new connection takes the slot s; what was in flight is not mentioned.
Replace(s) ==
  /\ conns' = [conns EXCEPT ![s] = NewConn]
  /\ waiting' = waiting \ Range(conns[s].inflight)

-----------------------------------------------------------------------------
(* HttpConnClientPool::write_request *)

StartWrite(id) ==
  /\ pc = "idle"
  /\ id \notin waiting
  /\ drains => drained
  /\ pc' = "write"
  /\ held' = Last(clients)
  /\ clients' = Front(clients)
  /\ req' = id
  /\ result' = None
  /\ UNCHANGED <<conns, at, drains, waiting, drained>>

Writing == pc \in {"write", "rewrite"}

\* Variant: the oldest place.
PushFirst(conn) == [conn EXCEPT !.inflight = <<req>> \o @]

PushId(conn) == [conn EXCEPT !.inflight = Append(@, req)]

\* must_write succeeds: the kernel and the buffer have the request.
WriteRequest ==
  /\ Writing
  /\ conns' = [conns EXCEPT ![held] = PushId(Put(@, Append(@.wbuf, req)))]
  /\ clients' \in Sorted(PutBack, conns')
  /\ waiting' = waiting \cup {req}
  /\ Return
  /\ UNCHANGED <<drained, result>>

\* must_write fails, and the connection goes back as it is.
WriteFails ==
  /\ Writing
  /\ ~conns[held].up
  /\ clients' \in Sorted(PutBack, conns)
  /\ Return
  /\ UNCHANGED <<conns, waiting, drained, result>>

\* After ten idle seconds a read into an empty slice decides. It takes no
\* byte, which is what a read at the end of the stream does, so it may take
\* any connection for one that has ended, but for one just made.
SeemsEnded(conn) == ~conn.up \/ pc = "write"

\* The check or the write finds the connection ended.
WriteEOF ==
  /\ Writing
  /\ SeemsEnded(conns[held])
  /\ pc' = "reconnect"
  /\ UNCHANGED <<poolVars, held, req, at, drains, waiting, drained, result>>

Reconnect ==
  /\ pc = "reconnect"
  /\ Replace(held)
  /\ pc' = "rewrite"
  /\ UNCHANGED <<clients, held, req, at, drains, drained, result>>

\* The old connection goes back, unsorted.
ReconnectFails ==
  /\ pc = "reconnect"
  /\ clients' = PutBack
  /\ Return
  /\ UNCHANGED <<conns, waiting, drained, result>>

-----------------------------------------------------------------------------
(* HttpConnClientPool::read_response *)

StartRead ==
  /\ pc = "idle"
  /\ pc' = "visit"
  /\ at' = 1
  /\ drained' = FALSE
  /\ result' = None
  /\ UNCHANGED <<poolVars, held, req, drains, waiting>>

Client == clients[at]

\* Variant: gives up after the first client.
NextClientNone == Return /\ drained' = TRUE

\* Variant: looks past the last client.
NextClientPast ==
  IF at <= Len(clients)
    THEN /\ pc' = "visit"
         /\ at' = at + 1
         /\ UNCHANGED <<held, req, drains, drained>>
    ELSE Return /\ drained' = TRUE

\* The client would block: on to the next, or nobody has a response.
NextClient ==
  IF at < Len(clients)
    THEN /\ pc' = "visit"
         /\ at' = at + 1
         /\ UNCHANGED <<held, req, drains, drained>>
    ELSE Return /\ drained' = TRUE

\* HttpConnClient::read_response begins with a flush.
Visit ==
  LET conn == Flushed(conns[Client]) IN
  /\ pc = "visit"
  /\ conns' = [conns EXCEPT ![Client] = conn]
  /\ IF conn.wbuf # <<>> \/ conn.inflight = <<>>
       THEN NextClient
       ELSE pc' = "response" /\ UNCHANGED <<held, req, at, drains, drained>>
  /\ UNCHANGED <<clients, waiting, result>>

VisitFails ==
  /\ pc = "visit"
  /\ ~conns[Client].up
  /\ conns[Client].wbuf # <<>>
  /\ pc' = "replace"
  /\ UNCHANGED <<poolVars, held, req, at, drains, waiting, drained, result>>

\* Variant: the newest id.
PopLast(inflight) == Front(inflight)

\* What is left in flight when the oldest id has its response.
PopId(inflight) == Tail(inflight)

\* One read takes k of the responses that have arrived; the first response
\* in the buffer is for the oldest id.
ReadResponse(k) ==
  LET conn == conns[Client]
      got  == conn.buffer \o SubSeq(conn.outbox, 1, k)
      id   == Head(conn.inflight)
  IN
  /\ pc = "response"
  /\ k > 0 \/ (conn.up /\ conn.outbox = <<>>)
  /\ got # <<>>
  /\ conns' = [conns EXCEPT ![Client].buffer = Tail(got),
                            ![Client].outbox = SubSeq(@, k + 1, Len(@)),
                            ![Client].inflight = PopId(@)]
  /\ waiting' = waiting \ {id}
  /\ IF id = Ping
       THEN UNCHANGED <<callVars, result>>
       ELSE Return /\ result' = [id |-> id, of |-> Head(got)]
  /\ UNCHANGED <<clients, drained>>

ReadBlocks ==
  LET conn == conns[Client] IN
  /\ pc = "response"
  /\ conn.up
  /\ conn.outbox = <<>>
  /\ conn.buffer = <<>>
  /\ NextClient
  /\ UNCHANGED <<poolVars, waiting, result>>

\* The stream has ended: an error, whatever is in the buffer.
ReadEOF ==
  /\ pc = "response"
  /\ ~conns[Client].up
  /\ conns[Client].outbox = <<>>
  /\ pc' = "replace"
  /\ UNCHANGED <<poolVars, held, req, at, drains, waiting, drained, result>>

\* A new connection, and the error of the old one.
ReplaceClient ==
  /\ pc = "replace"
  /\ Replace(Client)
  /\ Return
  /\ UNCHANGED <<clients, drained, result>>

\* The dead connection keeps its place.
ReplaceFails ==
  /\ pc = "replace"
  /\ Return
  /\ UNCHANGED <<poolVars, waiting, drained, result>>

-----------------------------------------------------------------------------
(* The specification. *)

Server == \E s \in Slot : Respond(s) \/ \E reset \in BOOLEAN : ServerCloses(s, reset)

Write == WriteRequest \/ WriteFails \/ WriteEOF \/ Reconnect \/ ReconnectFails

Read ==
  \/ Visit \/ VisitFails \/ ReadBlocks \/ ReadEOF \/ ReplaceClient \/ ReplaceFails
  \/ pc = "response" /\ \E k \in 0..Len(conns[Client].outbox) : ReadResponse(k)

Next == Server \/ StartRead \/ Read \/ Write \/ \E id \in Id : StartWrite(id)

Spec == Init /\ [][Next]_vars

\* Calls go on, the caller reads again and again, and the server answers what
\* it has.  Of the attempts to connect, and of those to write to a connection
\* just made, that never end one succeeds.
LiveSpec ==
  /\ Spec
  /\ WF_vars(Read) /\ WF_vars(Write) /\ SF_vars(StartRead)
  /\ SF_vars(ReplaceClient) /\ SF_vars(WriteRequest)
  /\ \A s \in Slot : WF_vars(Respond(s))

-----------------------------------------------------------------------------
(* Properties. *)

\* A response is given the id of the request it answers, though the code
\* only counts (http_conn.rs:187): pings, failed writes, reconnections and
\* responses that arrive together do not shift the count.
OwnId == result.id = result.of

\* A live connection has in flight exactly what is on its way somewhere, in
\* that order, and one that has ended no more than that; what the caller
\* waits for is in flight on one connection.
InStep ==
  /\ \A s \in Slot :
       LET conn == conns[s]
           way  == conn.buffer \o conn.outbox \o conn.inbox \o conn.wbuf
       IN IF conn.up THEN conn.inflight = way
          ELSE IsPrefix(conn.buffer \o conn.outbox, conn.inflight)
  /\ \A id \in Id : (id \in waiting) <=> \E s \in Slot : id \in Range(conns[s].inflight)
  /\ \A s, t \in Slot : s # t => Range(conns[s].inflight) \cap Range(conns[t].inflight) = {}

\* Between two calls every connection is in the pool once, whatever failed:
\* write_request takes one out (http_conn.rs:348, 360).
PoolWhole ==
  pc = "idle" => Len(clients) = Cardinality(Slot) /\ IsInjective(clients)

\* A connection is replaced only if the server has closed it, so that no
\* request in flight is given up while its response may come
\* (http_conn.rs:212: "check whether the connection is alive").
LiveKept ==
  [][\A s \in Slot : (Reconnect \/ ReplaceClient) /\ conns'[s] # conns[s] => ~conns[s].up]_vars

\* If the caller reads until nothing is left before it writes, every request
\* is answered or given up with its connection, whichever connections are
\* busy, closed or slow: read_response looks at the others too, and a
\* connection that has ended is replaced sooner or later (http_conn.rs:374).
AnsweredOrLost == \A id \in Id : (drains /\ id \in waiting) ~> id \notin waiting
=============================================================================
