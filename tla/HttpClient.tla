----------------------------- MODULE HttpClient -----------------------------
(***************************************************************************)
(* The blocking HTTP client: HttpClient::send (http_client.rs), which any  *)
(* number of threads may call at once, the ConnPool it takes connections   *)
(* from (conn_pool.rs), and HttpConnBlockingClient::send (http_conn.rs).   *)
(*                                                                         *)
(* The pool is that of one server; connections to different servers never  *)
(* meet.  A thread holds the mutex of the pool within one step only.  Time *)
(* is kept as ages and as what is left of a timeout, so that it can pass   *)
(* without end in a finite model.                                          *)
(*                                                                         *)
(* Operators marked "Variant" are mistakes, as in HttpServer.              *)
(***************************************************************************)
EXTENDS Naturals, Sequences, SequencesExt

CONSTANTS
  Thread,
  Conn,         (* TCP connections; one that is over may be opened again   *)
  NoConn,
  IdleTime,     (* idle_time, 10 s in the code                             *)
  Timeout,      (* the timeout a caller may give                           *)
  MaxReads,     (* reads of one response, 100000 in the code               *)
  Responses,    (* the forms of responses: "sized" and "chunked"           *)
  MaxRequests   (* bound: requests of one thread                           *)

ASSUME ClientAssumption ==
  /\ NoConn \notin Conn
  /\ {IdleTime, Timeout, MaxReads, MaxRequests} \subseteq Nat
  /\ MaxReads > 0
  /\ Responses \subseteq {"sized", "chunked"}

VARIABLES
  \* The connections: what is between the client and the server.
  up,           (* the server has not closed its end                       *)
  inbox,        (* requests the server has not answered                    *)
  outbox,       (* segments of responses the client has not read           *)
  body,         (* chunks the server has yet to send, as a segment or none *)
  \* ConnPool
  list,
  \* The calls of HttpClient::send.
  pc,
  n,            (* the number of the request                               *)
  conn,         (* the connection of the ConnPoolGuard                     *)
  reused,
  age,          (* since the guard was made, create_time                   *)
  left,         (* until the deadline                                      *)
  wait,         (* until the read times out                                *)
  timeout,      (* that HttpConnBlockingClient::send was given             *)
  reads,        (* how often this response has been read                   *)
  \* What the properties need to know.
  lost,         (* what the last try of a call was lost to                 *)
  result        (* what the last call of a thread returned                 *)

netVars  == <<up, inbox, outbox, body>>
timeVars == <<age, left, wait, timeout>>
callVars == <<pc, n, conn, reused, timeVars, reads, lost, result>>
vars     == <<netVars, list, callVars>>

Forever == Timeout + 1   \* no timeout

Request == [thread : Thread, n : Nat]
Segment == [kind : {"full", "head", "chunks"}, req : Request]
Entry   == [conn : Conn, age : 0..IdleTime]
Result  == [status : {"none", "ok", "stale", "error", "timeout", "EOF"}, n : Nat, whole : BOOLEAN]

TypeOK ==
  /\ up \in [Conn -> BOOLEAN]
  /\ inbox \in [Conn -> Seq(Request)]
  /\ outbox \in [Conn -> Seq(Segment)]
  /\ body \in [Conn -> Seq(Segment)]
  /\ list \in Seq(Entry)
  /\ pc \in [Thread -> {"idle", "get", "connect", "send", "write", "read", "reuse"}]
  /\ n \in [Thread -> 0..MaxRequests]
  /\ conn \in [Thread -> Conn \cup {NoConn}]
  /\ \A t \in Thread : conn[t] = NoConn <=> pc[t] \in {"idle", "get", "connect"}
  /\ reused \in [Thread -> BOOLEAN]
  /\ age \in [Thread -> 0..IdleTime]
  /\ reads \in [Thread -> 0..MaxReads]
  /\ {left, wait, timeout} \subseteq [Thread -> 0..Forever]
  /\ lost \in [Thread -> {"none", "closed", "silent"}]
  /\ result \in [Thread -> Result]

Init ==
  /\ up = [c \in Conn |-> FALSE]
  /\ inbox = [c \in Conn |-> <<>>]
  /\ outbox = [c \in Conn |-> <<>>]
  /\ body = [c \in Conn |-> <<>>]
  /\ list = <<>>
  /\ pc = [t \in Thread |-> "idle"]
  /\ n = [t \in Thread |-> 0]
  /\ conn = [t \in Thread |-> NoConn]
  /\ reused = [t \in Thread |-> FALSE]
  /\ age = [t \in Thread |-> 0]
  /\ left = [t \in Thread |-> Forever]
  /\ wait = [t \in Thread |-> Forever]
  /\ timeout = [t \in Thread |-> Forever]
  /\ reads = [t \in Thread |-> 0]
  /\ lost = [t \in Thread |-> "none"]
  /\ result = [t \in Thread |-> [status |-> "none", n |-> 0, whole |-> FALSE]]

-----------------------------------------------------------------------------
(* Time and the server. *)

Less(time) == IF time \in {0, Forever} THEN time ELSE time - 1

Older(time) == IF time < IdleTime THEN time + 1 ELSE time

Tick ==
  /\ list' = [i \in DOMAIN list |-> [list[i] EXCEPT !.age = Older(@)]]
  /\ age' = [t \in Thread |-> Older(age[t])]
  /\ left' = [t \in Thread |-> Less(left[t])]
  /\ wait' = [t \in Thread |-> Less(wait[t])]
  /\ UNCHANGED <<netVars, pc, n, conn, reused, timeout, reads, lost, result>>

Take(c) ==
  /\ up[c]
  /\ body[c] = <<>>
  /\ inbox[c] # <<>>
  /\ inbox' = [inbox EXCEPT ![c] = Tail(@)]

\* A response with a content length is read as a whole however it arrives.
RespondSized(c) ==
  /\ "sized" \in Responses
  /\ Take(c)
  /\ outbox' = [outbox EXCEPT ![c] = Append(@, [kind |-> "full", req |-> Head(inbox[c])])]
  /\ UNCHANGED <<up, body, list, callVars>>

\* Of a chunked response the head may arrive first.
RespondHead(c) ==
  /\ "chunked" \in Responses
  /\ Take(c)
  /\ outbox' = [outbox EXCEPT ![c] = Append(@, [kind |-> "head", req |-> Head(inbox[c])])]
  /\ body' = [body EXCEPT ![c] = <<[kind |-> "chunks", req |-> Head(inbox[c])]>>]
  /\ UNCHANGED <<up, list, callVars>>

RespondChunks(c) ==
  /\ up[c]
  /\ body[c] # <<>>
  /\ outbox' = [outbox EXCEPT ![c] = @ \o body[c]]
  /\ body' = [body EXCEPT ![c] = <<>>]
  /\ UNCHANGED <<up, inbox, list, callVars>>

\* The server closes an idle connection, restarts or crashes.
ServerCloses(c) ==
  /\ up[c]
  /\ up' = [up EXCEPT ![c] = FALSE]
  /\ UNCHANGED <<inbox, outbox, body, list, callVars>>

-----------------------------------------------------------------------------
(* HttpClient::send and ConnPool *)

Start(t, dur) ==
  /\ pc[t] = "idle"
  /\ n[t] < MaxRequests
  /\ pc' = [pc EXCEPT ![t] = "get"]
  /\ n' = [n EXCEPT ![t] = @ + 1]
  /\ left' = [left EXCEPT ![t] = dur]
  /\ lost' = [lost EXCEPT ![t] = "none"]
  /\ UNCHANGED <<netVars, list, conn, reused, age, wait, timeout, reads, result>>

Fresh(entry) == entry.age < IdleTime

\* pop() takes entries from the end of the list until one is fresh.
FreshIndex == SelectLastInSeq(list, Fresh)

\* A new ConnPoolGuard.
Guard(t, c, is_reused) ==
  /\ conn' = [conn EXCEPT ![t] = c]
  /\ reused' = [reused EXCEPT ![t] = is_reused]
  /\ age' = [age EXCEPT ![t] = 0]
  /\ pc' = [pc EXCEPT ![t] = "send"]

\* The client closes the connections in S; what was under way is lost.
Discard(S) ==
  /\ up' = [c \in Conn |-> up[c] /\ c \notin S]
  /\ inbox' = [c \in Conn |-> IF c \in S THEN <<>> ELSE inbox[c]]
  /\ outbox' = [c \in Conn |-> IF c \in S THEN <<>> ELSE outbox[c]]
  /\ body' = [c \in Conn |-> IF c \in S THEN <<>> ELSE body[c]]

ConnsOf(entries) == {entries[i].conn : i \in DOMAIN entries}

\* Variant: the connection handed out stays in the list.
TakenNot(i) == SubSeq(list, 1, i)

\* The list without its i-th entry and those after it.
Taken(i) == SubSeq(list, 1, i - 1)

GetPooled(t) ==
  LET i == FreshIndex IN
  /\ pc[t] = "get"
  /\ i > 0
  /\ Guard(t, list[i].conn, TRUE)
  /\ list' = Taken(i)
  /\ Discard(ConnsOf(SubSeq(list, i + 1, Len(list))))
  /\ UNCHANGED <<n, left, wait, timeout, reads, lost, result>>

\* No entry is fresh, and none is left.
PoolEmpty(t) ==
  /\ pc[t] = "get"
  /\ FreshIndex = 0
  /\ pc' = [pc EXCEPT ![t] = "connect"]
  /\ list' = <<>>
  /\ Discard(ConnsOf(list))
  /\ UNCHANGED <<n, conn, reused, timeVars, reads, lost, result>>

Unused(c) == c \notin ConnsOf(list) /\ \A t \in Thread : conn[t] # c

Connect(t, c) ==
  /\ pc[t] = "connect"
  /\ Unused(c)
  /\ Guard(t, c, FALSE)
  /\ up' = [up EXCEPT ![c] = TRUE]
  /\ UNCHANGED <<inbox, outbox, body, list, n, left, wait, timeout, reads, lost, result>>

Outcome(t, status, whole) == [status |-> status, n |-> n[t], whole |-> whole]

ConnectFails(t) ==
  /\ pc[t] = "connect"
  /\ pc' = [pc EXCEPT ![t] = "idle"]
  /\ result' = [result EXCEPT ![t] = Outcome(t, "error", FALSE)]
  /\ UNCHANGED <<netVars, list, n, conn, reused, timeVars, reads, lost>>

\* Variant: a connection goes back to the pool whatever happened on it.
AfterDropAll(t) == Append(list, [conn |-> conn[t], age |-> age[t]])

\* The list after the guard was dropped without reuse().
AfterDrop(t) == list

\* Variant: the guard keeps the connection.
RawKept(t) == conn[t]

\* What the guard holds after its drop took it out.
RawTaken(t) == NoConn

\* The guard is dropped, and the call goes on at next.
Drop(t, next) ==
  /\ list' = AfterDrop(t)
  /\ Discard({conn[t]} \ ConnsOf(AfterDrop(t)))
  /\ conn' = [conn EXCEPT ![t] = RawTaken(t)]
  /\ pc' = [pc EXCEPT ![t] = next]
  /\ UNCHANGED <<n, reused, timeVars, reads>>

Fail(t, status) ==
  /\ Drop(t, "idle")
  /\ UNCHANGED lost
  /\ result' = [result EXCEPT ![t] = Outcome(t, status, FALSE)]

\* Variant: a deadline that has passed is not noticed.
MayGoOnAlways(t) == TRUE

\* The deadline has not passed when the connection is there.
MayGoOn(t) == left[t] > 0

Expired(t) ==
  /\ pc[t] = "send"
  /\ ~MayGoOn(t)
  /\ Fail(t, "timeout")

\* conn.send() gets what is left of the timeout, as it is now.
Send(t) ==
  /\ pc[t] = "send"
  /\ MayGoOn(t)
  /\ timeout' = [timeout EXCEPT ![t] = left[t]]
  /\ pc' = [pc EXCEPT ![t] = "write"]
  /\ UNCHANGED <<netVars, list, n, conn, reused, age, left, wait, reads, lost, result>>

-----------------------------------------------------------------------------
(* HttpConnBlockingClient::send *)

\* write_all, which has no timeout, is done, and set_read_timeout; what is
\* written to a connection the server has closed is lost.
Written(t) ==
  LET c == conn[t] IN
  /\ pc[t] = "write"
  /\ inbox' = [inbox EXCEPT ![c] = IF up[c] THEN Append(@, [thread |-> t, n |-> n[t]]) ELSE @]
  /\ wait' = [wait EXCEPT ![t] = timeout[t]]
  /\ reads' = [reads EXCEPT ![t] = 0]
  /\ pc' = [pc EXCEPT ![t] = "read"]
  /\ UNCHANGED <<up, outbox, body, list, n, conn, reused, age, left, timeout, lost, result>>

\* The write finds out that the server has closed the connection: not the
\* EOF that HttpClient::send tries again after.
SendFails(t) ==
  /\ pc[t] = "write"
  /\ ~up[conn[t]]
  /\ Fail(t, "error")

\* A part of a response with a content length comes: read_from goes on
\* reading (fill_all_with), and every read has the whole timeout again.
ReadPart(t) ==
  LET c == conn[t] IN
  /\ pc[t] = "read"
  /\ "sized" \in Responses
  /\ up[c]
  /\ inbox[c] # <<>> /\ outbox[c] = <<>> /\ body[c] = <<>>
  /\ wait' = [wait EXCEPT ![t] = timeout[t]]
  /\ UNCHANGED <<netVars, list, pc, n, conn, reused, age, left, timeout, reads, lost, result>>

\* One read takes the first k segments.  The head of a chunked response that
\* comes alone is taken for a response without a body (http_types.rs:427).
ReadResponse(t, k) ==
  LET c == conn[t]
      got == SubSeq(outbox[c], 1, k)
  IN
  /\ pc[t] = "read"
  /\ k > 0
  /\ got[1].kind # "chunks"
  /\ pc' = [pc EXCEPT ![t] = "reuse"]
  /\ result' = [result EXCEPT ![t] = [status |-> IF got[1].req.thread = t THEN "ok" ELSE "stale",
                                      n |-> got[1].req.n,
                                      whole |-> got[1].kind = "full" \/ k > 1]]
  /\ outbox' = [outbox EXCEPT ![c] = SubSeq(@, k + 1, Len(@))]
  /\ UNCHANGED <<up, inbox, body, list, n, conn, reused, timeVars, reads, lost>>

\* What arrives is no response: the chunks of an earlier one.
ReadFails(t) ==
  /\ pc[t] = "read"
  /\ outbox[conn[t]] # <<>>
  /\ Head(outbox[conn[t]]).kind = "chunks"
  /\ Fail(t, "error")

\* Variant: reads for ever.
NextReadSame(t) == reads[t]

NextRead(t) == reads[t] + 1

\* The read timed out: read_from returns Ok(None) and the loop reads again,
\* with the same timeout.
ReadAgain(t) ==
  /\ pc[t] = "read"
  /\ outbox[conn[t]] = <<>>
  /\ wait[t] = 0
  /\ NextRead(t) < MaxReads
  /\ reads' = [reads EXCEPT ![t] = NextRead(t)]
  /\ wait' = [wait EXCEPT ![t] = timeout[t]]
  /\ UNCHANGED <<netVars, list, pc, n, conn, reused, age, left, timeout, lost, result>>

\* HttpClient::send tries again if the connection was reused.
MayRetry(t) == reused[t]

\* The end of the stream, or one timeout too many, is an EOF.
Ended(t) ==
  /\ pc[t] = "read"
  /\ outbox[conn[t]] = <<>>
  /\ ~up[conn[t]] \/ (wait[t] = 0 /\ NextRead(t) >= MaxReads)

Retry(t) ==
  /\ Ended(t)
  /\ MayRetry(t)
  /\ Drop(t, "get")
  /\ lost' = [lost EXCEPT ![t] = IF up[conn[t]] THEN "silent" ELSE "closed"]
  /\ UNCHANGED result

GiveUp(t) ==
  /\ Ended(t)
  /\ ~MayRetry(t)
  /\ Fail(t, "EOF")

\* reuse(): the guard returns the connection, with the time it was taken.
Reuse(t) ==
  /\ pc[t] = "reuse"
  /\ list' = Append(list, [conn |-> conn[t], age |-> age[t]])
  /\ conn' = [conn EXCEPT ![t] = RawTaken(t)]
  /\ pc' = [pc EXCEPT ![t] = "idle"]
  /\ UNCHANGED <<netVars, n, reused, timeVars, reads, lost, result>>

-----------------------------------------------------------------------------
(* The specification. *)

Server(c) == RespondSized(c) \/ RespondHead(c) \/ RespondChunks(c) \/ ServerCloses(c)

\* The steps of a call of t that wait for the system without a timeout.
Connecting(t) == ConnectFails(t) \/ \E c \in Conn : Connect(t, c)
Writing(t)    == Written(t) \/ SendFails(t)

\* Its other steps.
Running(t) ==
  \/ GetPooled(t) \/ PoolEmpty(t) \/ Expired(t) \/ Send(t)
  \/ \E k \in 1..(IF conn[t] = NoConn THEN 0 ELSE Len(outbox[conn[t]])) : ReadResponse(t, k)
  \/ ReadFails(t) \/ ReadAgain(t)
  \/ Retry(t) \/ GiveUp(t) \/ Reuse(t)

Step(t) == Connecting(t) \/ Writing(t) \/ ReadPart(t) \/ Running(t)

Next ==
  \/ Tick
  \/ \E c \in Conn : Server(c)
  \/ \E t \in Thread : Step(t) \/ \E dur \in {Timeout, Forever} : Start(t, dur)

Spec == Init /\ [][Next]_vars

\* Time passes, and threads run where they do not wait for the system.
LiveSpec == Spec /\ WF_vars(Tick) /\ \A t \in Thread : WF_vars(Running(t))

-----------------------------------------------------------------------------
(* Properties. *)

\* No two requests share a connection: a connection is in the list once, or
\* with one guard, or nowhere (conn_pool.rs:44-55, 99-108).
Exclusive ==
  /\ \A i, j \in DOMAIN list : list[i].conn = list[j].conn => i = j
  /\ \A t \in Thread : conn[t] \notin ConnsOf(list)
  /\ \A t, u \in Thread : conn[t] = conn[u] /\ conn[t] # NoConn => t = u

\* A response is the response to this very request, also on a connection
\* that served others, after timeouts and after retries: a connection is in
\* the list only while nothing is under way on it (http_client.rs:61).
OwnResponse ==
  \A t \in Thread : pc[t] \in {"reuse", "idle"} /\ n[t] > 0 =>
    result[t].n = n[t] /\ result[t].status # "stale"

\* A request that a server is only slow to answer is not written again.
\* When all reads on a reused connection have timed out, the EOF that
\* HttpConnBlockingClient::send makes of it (http_conn.rs:145) is tried
\* again like that of a closed connection (http_client.rs:56), but by then
\* the deadline has passed (http_client.rs:45).  After a connection that
\* was closed it is, though the server may have acted on it.
NoResendOnTimeout ==
  \A t \in Thread : pc[t] \in {"write", "read"} => lost[t] # "silent"

\* A call with a timeout returns, though the server be silent or close
\* every connection, and other threads fill the pool with old ones; but it
\* may do so long after its deadline, and only if no connect and no write
\* blocks for ever, as neither has a timeout (http_conn.rs:112, 130), and if
\* the parts of a response come to an end (http_types.rs:510).
CallsReturn ==
  (\A t \in Thread : /\ WF_vars(Connecting(t)) /\ WF_vars(Writing(t))
                     /\ <>[][~ReadPart(t)]_vars) =>
    \A t \in Thread : (pc[t] # "idle" /\ left[t] # Forever) ~> pc[t] = "idle"
=============================================================================
