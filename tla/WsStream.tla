------------------------------ MODULE WsStream ------------------------------
(***************************************************************************)
(* WsStream (ws_stream.rs): one WebSocket connection seen from one end.    *)
(* The application calls connect, reconnect, read, write and disconnect    *)
(* from one thread, and shutdown from any.  At the client's end,           *)
(* WsStreamClient, every read or write first restores a lost connection if *)
(* auto_reconnect is set.  At the server's end, the WsStreamServer that    *)
(* accept() makes, it first goes on with the handshake, and a lost         *)
(* connection is lost.                                                     *)
(*                                                                         *)
(* A call is a sequence of steps between which the remote side and a       *)
(* shutdown act.  A step of read takes one frame, a step of write sends    *)
(* one.  A frame is the unit of the streams in both directions: the bytes  *)
(* of a frame and its header belong to the parser (embedded_websocket).    *)
(*                                                                         *)
(* Operators marked "Variant" are mistakes, as in HttpServer.              *)
(***************************************************************************)
EXTENDS Naturals, Sequences, FiniteSets, SequencesExt

CONSTANTS
  Roles,          (* the ends to look from: "client", "server"             *)
  AutoReconnect,  (* cfg.auto_reconnect                                    *)
  KeepAlive,      (* whether cfg.keep_alive is set                         *)
  SocketFull,     (* whether the kernel may refuse some of what is written *)
  Remote,         (* the types of frames the remote side sends             *)
  Sizes,          (* the sizes, in frames, of the messages written         *)
  MaxEpoch,       (* bound: the last connection_epoch                      *)
  MaxSent,        (* bound: frames the remote side sends on a connection   *)
  MaxWritten      (* bound: frames written on a connection                 *)

\* A ping with and without a payload, a close with and without a status, and
\* what the parser refuses, are types of their own.
FrameType == {"frag", "last", "ping", "empty ping", "pong", "close", "empty close", "bad"}

ASSUME StreamAssumption ==
  /\ Roles \subseteq {"client", "server"}
  /\ {AutoReconnect, KeepAlive, SocketFull} \subseteq BOOLEAN
  /\ Remote \subseteq FrameType
  /\ Sizes \subseteq Nat
  /\ {MaxSent, MaxWritten} \subseteq Nat
  /\ MaxEpoch \in Nat \ {0}

VARIABLES
  role,           (* the end that is modelled                              *)
  \* The network and the remote side, for the connection that is open or
  \* being opened.
  link,           (* "none", "open", "closed" by the remote side, or       *)
                  (* "deaf": that never gets the answer to its handshake   *)
  reply,          (* its answer to the handshake, or its request for one   *)
  sent,           (* the frames it sent                                    *)
  net,            (* those of them still in the socket                     *)
  received,       (* the frames it received                                *)
  \* WsStream.
  alive,          (* cfg.alive                                             *)
  connected,
  connection_epoch,
  handshake,      (* client_handshake_state or server_handshake_state      *)
  read_buffer,    (* frames read from the socket and not parsed            *)
  continuation_buffer,
  wbuf,           (* frames the kernel has not accepted                    *)
  \* The call that runs.
  call,           (* the operation, or "none"                              *)
  pc,             (* where it is                                           *)
  unwritten,      (* the frames a write has left                           *)
  \* What the calls returned, and what the properties need to know.
  result,         (* of the last call                                      *)
  late,           (* the last call began after shutdown()                  *)
  delivered,      (* the messages read() returned                          *)
  parsed,         (* the frames parsed on this connection                  *)
  written         (* the frames written on this connection                 *)

remoteVars == <<link, reply, sent, net, received>>
streamVars == <<alive, connected, connection_epoch, handshake, read_buffer,
                continuation_buffer, wbuf>>
callVars   == <<call, pc, unwritten, result, late>>
histVars   == <<delivered, parsed, written>>
vars       == <<remoteVars, streamVars, callVars, histVars>>

\* msg and part number the data frames of a connection; epoch is that of
\* the connection the frame was made for.
Frame == [epoch : Nat, type : FrameType, msg : Nat, part : Nat]

TypeOK ==
  /\ role \in Roles
  /\ link \in {"none", "open", "deaf", "closed"}
  /\ reply \in {"none", "ok", "bad"}
  /\ handshake \in IF role = "client" THEN {"None", "WaitSend", "Send"} ELSE {"None", "WaitRequest"}
  /\ alive \in BOOLEAN /\ connected \in BOOLEAN /\ late \in BOOLEAN
  /\ connection_epoch \in 1..MaxEpoch
  /\ sent \in Seq(Frame) /\ net \in Seq(Frame) /\ parsed \in Seq(Frame)
  /\ received \in Seq(Frame) /\ written \in Seq(Frame)
  /\ read_buffer \in Seq(Frame) /\ continuation_buffer \in Seq(Frame) /\ wbuf \in Seq(Frame)
  /\ delivered \in Seq([epoch : Nat, frames : Seq(Frame)])
  /\ call \in {"none", "connect", "accept", "read", "write", "gone"}
  /\ pc \in {"enter", "connect", "run"}
  /\ unwritten \in Nat
  /\ connected => handshake = "None"
  /\ call \notin {"none", "gone"} /\ pc = "run" => connected

\* WsStreamClient::new, or WsStreamServer::accept.
Init ==
  /\ role \in Roles
  /\ link = IF role = "client" THEN "none" ELSE "open"
  /\ reply = "none"
  /\ sent = <<>>
  /\ net = <<>>
  /\ received = <<>>
  /\ alive = TRUE
  /\ connected = FALSE
  /\ connection_epoch = 1
  /\ handshake = IF role = "client" THEN "None" ELSE "WaitRequest"
  /\ read_buffer = <<>>
  /\ continuation_buffer = <<>>
  /\ wbuf = <<>>
  /\ call = IF role = "client" THEN "connect" ELSE "accept"
  /\ pc = "enter"
  /\ unwritten = 0
  /\ result = "none"
  /\ late = FALSE
  /\ delivered = <<>>
  /\ parsed = <<>>
  /\ written = <<>>

-----------------------------------------------------------------------------
(* The remote side. *)

\* The epoch of the connection that is open or being opened.
Epoch == IF connected \/ role = "server" THEN connection_epoch ELSE connection_epoch + 1

Answer(r) ==
  /\ handshake \in {"Send", "WaitRequest"}
  /\ link = "open"
  /\ reply = "none"
  /\ reply' = r
  /\ UNCHANGED <<link, sent, net, received, streamVars, callVars, histVars>>

\* Of the first n frames, those that end a message, and the fragments of
\* the message that has begun.
Lasts(frames, n) == {i \in 1..n : frames[i].type = "last"}

Fragments(frames, n) ==
  {i \in 1..n : frames[i].type = "frag" /\ \A j \in i..n : frames[j].type # "last"}

\* Fragments of one message follow each other, control frames may come
\* between them, and nothing comes after a close.
RemoteFrame(type) ==
  [epoch |-> Epoch, type |-> type,
   msg  |-> Cardinality(Lasts(sent, Len(sent))) + 1,
   part |-> Cardinality(Fragments(sent, Len(sent))) + 1]

RemoteSend(type) ==
  /\ link = "open"
  /\ reply = "ok"
  /\ Len(sent) < MaxSent
  /\ sent # <<>> => Last(sent).type \notin {"close", "empty close"}
  /\ sent' = Append(sent, RemoteFrame(type))
  /\ net' = Append(net, RemoteFrame(type))
  /\ UNCHANGED <<link, reply, received, streamVars, callVars, histVars>>

RemoteClose ==
  /\ link \in {"open", "deaf"}
  /\ link' = "closed"
  /\ UNCHANGED <<reply, sent, net, received, streamVars, callVars, histVars>>

-----------------------------------------------------------------------------
(* The calls. *)

Begin(c, size) ==
  /\ call = "none"
  /\ call' = c
  /\ pc' = "enter"
  /\ unwritten' = size
  /\ late' = ~alive
  /\ UNCHANGED result

Return(r) ==
  /\ call' = "none"
  /\ result' = r
  /\ unwritten' = 0
  /\ UNCHANGED <<pc, late>>

\* The TCP connection of the stream or of the handshake is given up.
DropLink ==
  /\ link' = "none"
  /\ reply' = "none"
  /\ sent' = <<>>
  /\ net' = <<>>
  /\ received' = <<>>
  /\ parsed' = <<>>
  /\ written' = <<>>

CallRead == Begin("read", 0) /\ UNCHANGED <<remoteVars, streamVars, histVars>>

CallWrite(size) ==
  /\ Len(written) + size <= MaxWritten
  /\ Begin("write", size)
  /\ UNCHANGED <<remoteVars, streamVars, histVars>>

CallConnect == role = "client" /\ Begin("connect", 0) /\ UNCHANGED <<remoteVars, streamVars, histVars>>

\* disconnect(): every buffer stays as it is.
Forget ==
  /\ connected' = FALSE
  /\ DropLink
  /\ UNCHANGED <<alive, connection_epoch, handshake, read_buffer, continuation_buffer, wbuf>>

CallDisconnect ==
  /\ call = "none"
  /\ connected
  /\ Forget
  /\ UNCHANGED <<callVars, delivered>>

\* reconnect(): on a connected stream; otherwise it is connect().
CallReconnect ==
  /\ role = "client"
  /\ connected
  /\ Begin("connect", 0)
  /\ Forget
  /\ UNCHANGED delivered

\* shutdown(), also from another thread while a call runs.
Shutdown ==
  /\ alive
  /\ alive' = FALSE
  /\ UNCHANGED <<remoteVars, connected, connection_epoch, handshake, read_buffer,
                 continuation_buffer, wbuf, callVars, histVars>>

-----------------------------------------------------------------------------
(* auto_reconnect and connect *)

Entering == call \notin {"none", "gone"} /\ pc = "enter"

\* Variant: connects whatever shutdown() says.
CheckAliveNever == TRUE

CheckAlive == alive

\* auto_reconnect has nothing to do.
EnterConnected ==
  /\ Entering
  /\ call # "connect"
  /\ connected
  /\ pc' = "run"
  /\ UNCHANGED <<remoteVars, streamVars, call, unwritten, result, late, histVars>>

\* Variant: takes any lost connection for one whose handshake has begun.
MayConnectLost ==
  role = "client" /\ (call = "connect" \/ AutoReconnect \/ ~connected)

\* A handshake that has begun goes on whether auto_reconnect is set or not.
MayConnect ==
  role = "client" /\ (call = "connect" \/ AutoReconnect \/ handshake # "None")

\* A server's stream has nothing to connect to.
EnterRefused ==
  /\ Entering
  /\ call # "connect" => ~connected
  /\ handshake # "WaitRequest"
  /\ ~MayConnect \/ ~CheckAlive
  /\ Return("disconnected")
  /\ UNCHANGED <<remoteVars, streamVars, histVars>>

\* connect() looks at alive once, before its loop.
EnterConnect ==
  /\ Entering
  /\ call # "connect" => ~connected
  /\ MayConnect
  /\ CheckAlive
  /\ IF connected THEN Return("ok")
                  ELSE pc' = "connect" /\ UNCHANGED <<call, unwritten, result, late>>
  /\ UNCHANGED <<remoteVars, streamVars, histVars>>

Connecting(state) == call \notin {"none", "gone"} /\ pc = "connect" /\ handshake = state

Dial ==
  /\ Connecting("None")
  /\ connection_epoch < MaxEpoch
  /\ link' = "open"
  /\ handshake' = "WaitSend"
  /\ UNCHANGED <<reply, sent, net, received, alive, connected, connection_epoch, read_buffer,
                 continuation_buffer, wbuf, callVars, histVars>>

DialFails ==
  /\ Connecting("None")
  /\ Return("init error")
  /\ UNCHANGED <<remoteVars, streamVars, histVars>>

\* write_raw_request
SendHandshake ==
  /\ Connecting("WaitSend")
  /\ handshake' = "Send"
  /\ UNCHANGED <<remoteVars, alive, connected, connection_epoch, read_buffer,
                 continuation_buffer, wbuf, callVars, histVars>>

\* Variant: the state is not reset.
HandshakeKept == handshake

\* The handshake starts again with the next call.
HandshakeReset == "None"

HandshakeFails ==
  /\ \/ Connecting("WaitSend") /\ link # "open"
     \/ Connecting("Send") /\ (reply = "bad" \/ link # "open")
  /\ handshake' = HandshakeReset
  /\ DropLink
  /\ Return("init error")
  /\ UNCHANGED <<alive, connected, connection_epoch, read_buffer, continuation_buffer, wbuf,
                 delivered>>

HandshakeWaits ==
  /\ Connecting("Send")
  /\ reply = "none"
  /\ link = "open"
  /\ Return("would block")
  /\ UNCHANGED <<remoteVars, streamVars, histVars>>

\* Variant: a new buffer.
LeftoverLost(frames) == <<>>

\* Frames that came with the handshake response stay in the buffer of the
\* HttpConn, which becomes the read_buffer, if the response is read at all.
Leftover(frames) == frames

HandshakeDone(k) ==
  /\ Connecting("Send")
  /\ reply = "ok"
  /\ handshake' = "None"
  /\ connected' = TRUE
  /\ connection_epoch' = connection_epoch + 1
  /\ read_buffer' = Leftover(SubSeq(net, 1, k))
  /\ net' = SubSeq(net, k + 1, Len(net))
  /\ IF call = "connect" THEN Return("ok")
                         ELSE pc' = "run" /\ UNCHANGED <<call, unwritten, result, late>>
  /\ UNCHANGED <<link, reply, sent, received, alive, continuation_buffer, wbuf, histVars>>

\* A 101 has no length, so the frames that came with it are tried as the
\* first chunk of a body; if they contain a CRLF, that is an ill-formed
\* chunk, at which read_from panics.
HandshakePanics ==
  /\ Connecting("Send")
  /\ reply = "ok"
  /\ net # <<>>
  /\ call' = "gone"
  /\ UNCHANGED <<remoteVars, streamVars, pc, unwritten, result, late, histVars>>

-----------------------------------------------------------------------------
(* WsStreamServer::server_handshake, in accept() and in every later read   *)
(* or write until it is done; none of it looks at alive, and only accept() *)
(* has a timeout.                                                          *)

Accepting == Entering /\ handshake = "WaitRequest"

AcceptWaits ==
  /\ Accepting
  /\ reply = "none"
  /\ link = "open"
  /\ Return("would block")
  /\ UNCHANGED <<remoteVars, streamVars, histVars>>

\* The request is no handshake, or the remote side has closed, or accept()
\* runs out of time.  The handshake stays as it is and may go on with
\* another request; only accept() gives the stream up.
AcceptFails ==
  /\ Accepting
  /\ reply = "bad" \/ link = "closed" \/ call = "accept"
  /\ IF call = "accept"
       THEN call' = "gone" /\ UNCHANGED <<reply, pc, unwritten, result, late>>
       ELSE reply' = "none" /\ Return("init error")
  /\ UNCHANGED <<link, sent, net, received, streamVars, histVars>>

\* into_raw() drops the WriteBuffer of the HttpConn and with it what the
\* kernel has not taken of the answer.
AnswerSent == IF SocketFull /\ link = "open" THEN {"open", "deaf"} ELSE {link}

\* The answer is written, and the buffer of the HttpConn becomes the
\* read_buffer.
AcceptDone(k) ==
  /\ Accepting
  /\ reply = "ok"
  /\ link' \in AnswerSent
  /\ handshake' = "None"
  /\ connected' = TRUE
  /\ read_buffer' = Leftover(SubSeq(net, 1, k))
  /\ net' = SubSeq(net, k + 1, Len(net))
  /\ IF call = "accept" THEN Return("ok")
                        ELSE pc' = "run" /\ UNCHANGED <<call, unwritten, result, late>>
  /\ UNCHANGED <<reply, sent, received, alive, connection_epoch, continuation_buffer, wbuf,
                 histVars>>

\* The write of the answer fails and is unwrapped.
AcceptPanics ==
  /\ Accepting
  /\ reply = "ok"
  /\ link = "closed"
  /\ call' = "gone"
  /\ UNCHANGED <<remoteVars, streamVars, pc, unwritten, result, late, histVars>>

\* The thread has panicked, or accept() has returned no stream.
Gone == call = "gone" /\ UNCHANGED vars

-----------------------------------------------------------------------------
(* Writing frames: WriteBuffer hands the kernel the first k of the frames  *)
(* fs, which the remote side gets unless it has closed or waits for the     *)
(* rest of the answer to its handshake.                                    *)

Put(fs, k) ==
  /\ k \in (IF SocketFull THEN 0..Len(fs) ELSE {Len(fs)})
  /\ received' = IF link = "open" THEN received \o SubSeq(fs, 1, k) ELSE received
  /\ wbuf' = SubSeq(fs, k + 1, Len(fs))

\* Variant: a new frame overtakes what is left.
QueuedFirst(f) == <<f>> \o wbuf

Queued(f) == Append(wbuf, f)

\* must_write, of one frame.
WriteFrame(type, k) ==
  LET f == [epoch |-> connection_epoch, type |-> type, msg |-> 0, part |-> 0] IN
  /\ Len(written) < MaxWritten
  /\ written' = Append(written, f)
  /\ Put(Queued(f), k)
  /\ UNCHANGED <<link, reply, sent, net, alive, connected, connection_epoch, handshake>>

-----------------------------------------------------------------------------
(* read: generic_read, read_msg and fill_read_buffer *)

Reading == call = "read" /\ pc = "run"

Writing == call = "write" /\ pc = "run"

\* The remote side has closed the WebSocket, so the parser may refuse to
\* read and to write.
Closing == \E i \in DOMAIN parsed : parsed[i].type = "empty close"

Refused(f) == f.type \in {"bad", "close"} \cup (IF link = "closed" THEN {"ping"} ELSE {})

\* Some step disconnects: check_connected after a shutdown; the end of the
\* stream or an error of the socket, which may take unread frames with it; a
\* frame the parser refuses, a close with a status, or a ping whose answer
\* cannot be written; or a frame that cannot be written.
Disconnected ==
  /\ \/ Reading /\ (~alive \/ Closing)
     \/ Reading /\ read_buffer = <<>> /\ link = "closed"
     \/ Reading /\ read_buffer # <<>> /\ Refused(Head(read_buffer))
     \/ Writing /\ unwritten > 0 /\ (~alive \/ Closing \/ link = "closed")
  /\ Forget
  /\ Return("disconnected")
  /\ UNCHANGED delivered

\* The socket has k frames for the read_buffer, which is empty.
Fill(k) ==
  /\ Reading
  /\ alive
  /\ read_buffer = <<>>
  /\ k > 0
  /\ read_buffer' = SubSeq(net, 1, k)
  /\ net' = SubSeq(net, k + 1, Len(net))
  /\ UNCHANGED <<link, reply, sent, received, alive, connected, connection_epoch, handshake,
                 continuation_buffer, wbuf, callVars, histVars>>

\* The parser takes the next frame, which is of one of these types.
Parse(types) ==
  /\ Reading
  /\ alive
  /\ read_buffer # <<>>
  /\ Head(read_buffer).type \in types
  /\ read_buffer' = Tail(read_buffer)
  /\ parsed' = Append(parsed, Head(read_buffer))

ReadFragment ==
  /\ Parse({"frag"})
  /\ continuation_buffer' = Append(continuation_buffer, Head(read_buffer))
  /\ UNCHANGED <<remoteVars, alive, connected, connection_epoch, handshake, wbuf, callVars,
                 delivered, written>>

ReadMessage ==
  /\ Parse({"last"})
  /\ delivered' = Append(delivered, [epoch |-> connection_epoch,
                       frames |-> Append(continuation_buffer, Head(read_buffer))])
  /\ continuation_buffer' = <<>>
  /\ Return("ok")
  /\ UNCHANGED <<remoteVars, alive, connected, connection_epoch, handshake, wbuf, written>>

\* Variant: the payload of a control frame stays.
PoppedNot(frames, f) == Append(frames, f)

\* The payload of a control frame is pushed like that of any frame, and
\* popped again.
Popped(frames, f) == frames

\* write_msg writes no frame for an empty payload: neither the answer to an
\* empty ping nor a CloseReply.
ReadControl ==
  /\ Parse({"pong", "empty ping", "empty close"})
  /\ continuation_buffer' = Popped(continuation_buffer, Head(read_buffer))
  /\ UNCHANGED <<remoteVars, alive, connected, connection_epoch, handshake, wbuf, callVars,
                 delivered, written>>

ReadPing(k) ==
  /\ Parse({"ping"})
  /\ continuation_buffer' = Popped(continuation_buffer, Head(read_buffer))
  /\ WriteFrame("pong", k)
  /\ UNCHANGED <<callVars, delivered>>

NothingToRead == Reading /\ alive /\ read_buffer = <<>> /\ net = <<>> /\ link # "closed"

\* The read would block; what is left in wbuf is flushed.
ReadIdle(k) ==
  /\ NothingToRead
  /\ Put(wbuf, k)
  /\ Return("would block")
  /\ UNCHANGED <<link, reply, sent, net, alive, connected, connection_epoch, handshake,
                 read_buffer, continuation_buffer, histVars>>

\* The flush meets the end of the connection, which stays connected.
FlushFails ==
  /\ Reading
  /\ alive
  /\ read_buffer = <<>>
  /\ net = <<>>
  /\ link = "closed"
  /\ wbuf # <<>>
  /\ Return("disconnected")
  /\ UNCHANGED <<remoteVars, streamVars, histVars>>

\* The connection was silent for too long, and not within a message.
ReadKeepAlive(k) ==
  /\ KeepAlive
  /\ role = "client"
  /\ NothingToRead
  /\ continuation_buffer = <<>>
  /\ WriteFrame("ping", k)
  /\ Return("would block")
  /\ UNCHANGED <<read_buffer, continuation_buffer, delivered, parsed>>

-----------------------------------------------------------------------------
(* write: write_msg *)

WriteData(k) ==
  /\ Writing
  /\ alive
  /\ unwritten > 0
  /\ WriteFrame(IF unwritten = 1 THEN "last" ELSE "frag", k)
  /\ unwritten' = unwritten - 1
  /\ UNCHANGED <<read_buffer, continuation_buffer, call, pc, result, late, delivered, parsed>>

WriteDone ==
  /\ Writing
  /\ unwritten = 0
  /\ Return("ok")
  /\ UNCHANGED <<remoteVars, streamVars, histVars>>

-----------------------------------------------------------------------------
(* The specification. *)

Network ==
  \/ \E r \in {"ok", "bad"} : Answer(r)
  \/ \E type \in Remote : RemoteSend(type)
  \/ RemoteClose

Application ==
  \/ CallRead \/ CallConnect \/ CallReconnect \/ CallDisconnect \/ Shutdown
  \/ \E size \in Sizes : CallWrite(size)

Connect ==
  \/ EnterConnected \/ EnterRefused \/ EnterConnect
  \/ Dial \/ DialFails \/ SendHandshake
  \/ HandshakeFails \/ HandshakeWaits \/ HandshakePanics
  \/ \E k \in 0..Len(net) : HandshakeDone(k)

Read ==
  \/ Disconnected \/ FlushFails
  \/ \E k \in 0..Len(net) : Fill(k)
  \/ ReadFragment \/ ReadMessage \/ ReadControl
  \/ \E k \in 0..(Len(wbuf) + 1) : ReadPing(k) \/ ReadIdle(k) \/ ReadKeepAlive(k)

Write == WriteDone \/ \E k \in 0..(Len(wbuf) + 1) : WriteData(k)

Accept ==
  \/ AcceptWaits \/ AcceptFails \/ AcceptPanics
  \/ \E k \in 0..Len(net) : AcceptDone(k)

\* The steps of the call that runs.
Step == Connect \/ Accept \/ Read \/ Write

Next == (Network \/ Application \/ Step \/ Gone) /\ UNCHANGED role

Spec == Init /\ [][Next]_<<role, vars>>

\* The application reads again and again, and the network and the remote
\* side let a handshake succeed now and then.
LiveSpec ==
  /\ Spec
  /\ WF_vars(Step)
  /\ WF_vars(CallRead)
  /\ SF_vars(Dial)
  /\ SF_vars(link = "open" /\ SendHandshake)
  /\ SF_vars(Answer("ok"))
  /\ SF_vars(\E k \in 0..Len(net) : HandshakeDone(k))

-----------------------------------------------------------------------------
(* Properties. *)

\* Every frame the remote side sends on a connection is parsed once and in
\* order.  Those that come with the handshake response are no exception, if
\* the response is read (HandshakePanics): the buffer of the HttpConn becomes
\* the read_buffer, and what an earlier connection left there goes
\* (ws_stream.rs:195-197).
FramesInOrder == connected => parsed \o read_buffer \o net = sent

\* Within one epoch, read() returns the messages of that connection in
\* order from the first on, so an application that sees epoch() change
\* knows where messages may be missing (ws_stream.rs:815).
MessagesInOrder ==
  \A i \in DOMAIN delivered :
    LET m == Last(delivered[i].frames) IN
    /\ m.epoch = delivered[i].epoch
    /\ m.msg = Cardinality({j \in 1..i : delivered[j].epoch = delivered[i].epoch})

\* A message is the concatenation of its own fragments and of nothing else,
\* although control frames come between them (ws_stream.rs:743).
MessageIntegrity ==
  \A i \in DOMAIN delivered :
    LET frames == delivered[i].frames IN
    \A p \in DOMAIN frames : /\ frames[p].epoch = delivered[i].epoch
                             /\ frames[p].msg = Last(frames).msg
                             /\ frames[p].part = p

\* What is written on a connection, and nothing else, goes to the remote
\* side in order: writes, pongs and pings pass through one WriteBuffer.  (Not
\* so on a "deaf" link, whose remote side still waits for its handshake.)
WritesInOrder == connected /\ link = "open" => received \o wbuf = written

\* A call that begins after shutdown() returns no message, sends no frame and
\* opens no connection, whatever handshake is pending, whatever frames are
\* buffered, and also when the shutdown came between two steps of the call
\* before (ws_stream.rs:537, 600-620).
ShutdownSilences ==
  [][late /\ call # "none" => /\ delivered' = delivered
                             /\ Len(written') <= Len(written)
                             /\ Len(received') <= Len(received)
                             /\ ~(link = "none" /\ link' = "open")]_vars

\* "it will return ServerDisconnected to everywhere" (ws_stream.rs:537): a
\* call that begins after shutdown() reports the disconnection.
ShutdownRefuses == call = "none" /\ late => result = "disconnected"

\* Without auto_reconnect a read or a write never opens a connection: it
\* goes on with a handshake that has begun, but does not begin one again,
\* however that handshake ends (ws_stream.rs:213-216).
DialsOnRequest ==
  [][(link = "none" /\ link' = "open") => (AutoReconnect /\ role = "client") \/ call = "connect"]_vars

\* With auto_reconnect a lost connection comes back, if the application goes
\* on reading, unless the thread panics (HandshakePanics).
Reconnects ==
  (role = "client" /\ ~connected)
    ~> (connected \/ ~alive \/ call = "gone" \/ connection_epoch = MaxEpoch)
=============================================================================
