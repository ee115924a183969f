--------------------------- MODULE WsStreamProofs ---------------------------
(***************************************************************************)
(* What holds of a WsStream for every bound, every kind of message and     *)
(* either end.  The properties of WsStream speak of one connection, but    *)
(* the buffers of the stream outlive it.  So the inductive invariant       *)
(* StreamInv says of each buffer to which connection its content belongs,  *)
(* and where that is not known (after a first connection was lost) it      *)
(* claims less: First and SocketFull mark the difference.  Each conjunct   *)
(* has a lemma on what the steps do to it.                                 *)
(***************************************************************************)
EXTENDS WsStream, SequenceFacts, FiniteSetTheorems, TLAPS

\* What is under way belongs to a connection: there is none, or one that is
\* being opened, or the one of the stream.
LinkOK ==
  /\ link = "none" <=> ~connected /\ handshake = "None"
  /\ link = "none" => sent = <<>>
  /\ ~connected => net = sent /\ parsed = <<>> /\ received = <<>> /\ written = <<>>
  /\ role = "client" /\ handshake # "None" => connection_epoch < MaxEpoch

\* Nothing has been read or written yet.
Unused ==
  \/ role = "server" /\ handshake = "WaitRequest"
  \/ role = "client" /\ connection_epoch = 1

UnusedOK ==
  Unused => ~connected /\ delivered = <<>> /\ continuation_buffer = <<>> /\ wbuf = <<>>

\* The stream is on its first connection, or has lost it.
First == role = "server" \/ connection_epoch <= 2

\* A connection is opened for a call that may, and only while there is none.
ConnectOK ==
  pc = "connect" /\ call # "none" =>
    /\ role = "client" /\ ~connected
    /\ handshake = "None" => call = "connect" \/ AutoReconnect

\* A call that began after shutdown() is not within connect(), which looks at
\* alive first.
LateOK == late => ~alive /\ (call # "none" => pc # "connect")

\* A frame of the remote side has its place in a message of its connection.
Numbered ==
  \A i \in DOMAIN sent :
    /\ sent[i].epoch = Epoch
    /\ sent[i].msg = Cardinality(Lasts(sent, i - 1)) + 1
    /\ sent[i].part = Cardinality(Fragments(sent, i - 1)) + 1

Returned(e) == {i \in DOMAIN delivered : delivered[i].epoch = e}

\* Every message that was parsed was returned, and the continuation_buffer
\* holds the fragments of the next, if no other connection left some there.
Assembled ==
  /\ \A i \in DOMAIN delivered : delivered[i].epoch <= connection_epoch
  /\ connected =>
       Cardinality(Returned(connection_epoch)) = Cardinality(Lasts(parsed, Len(parsed)))
  /\ connected /\ First =>
       /\ Len(continuation_buffer) = Cardinality(Fragments(parsed, Len(parsed)))
       /\ \A p \in DOMAIN continuation_buffer :
            /\ continuation_buffer[p].epoch = connection_epoch
            /\ continuation_buffer[p].msg = Cardinality(Lasts(parsed, Len(parsed))) + 1
            /\ continuation_buffer[p].part = p

\* What the kernel has not taken is the rest of what was written, if no
\* other connection left some of its frames there.
Written ==
  /\ ~SocketFull => wbuf = <<>>
  /\ First \/ ~SocketFull => WritesInOrder

StreamInv ==
  /\ TypeOK /\ LinkOK /\ UnusedOK /\ ConnectOK /\ LateOK
  /\ Numbered /\ FramesInOrder /\ Assembled /\ Written
  /\ MessagesInOrder
  /\ First => MessageIntegrity

Message == [epoch : Nat, frames : Seq(Frame)]

-----------------------------------------------------------------------------
(* The messages and fragments among the first frames of a connection.      *)

LEMMA CountTypes ==
  ASSUME NEW frames, NEW n \in Nat
  PROVE  /\ IsFiniteSet(Lasts(frames, n)) /\ Cardinality(Lasts(frames, n)) \in Nat
         /\ IsFiniteSet(Fragments(frames, n)) /\ Cardinality(Fragments(frames, n)) \in Nat
<1>1. IsFiniteSet(1..n)
  BY FS_Interval
<1>2. Lasts(frames, n) \subseteq 1..n /\ Fragments(frames, n) \subseteq 1..n
  BY DEF Lasts, Fragments
<1>3. QED
  BY <1>1, <1>2, FS_Subset, FS_CardinalityType

\* They depend on these frames only.
LEMMA CountPrefix ==
  ASSUME NEW s, NEW t, NEW n \in Nat, \A i \in 1..n : s[i] = t[i]
  PROVE  Lasts(s, n) = Lasts(t, n) /\ Fragments(s, n) = Fragments(t, n)
<1>1. \A i \in 1..n : \A j \in i..n : j \in 1..n
  OBVIOUS
<1>2. QED
  BY <1>1 DEF Lasts, Fragments

LEMMA CountNone ==
  ASSUME NEW frames
  PROVE  /\ Lasts(frames, 0) = {} /\ Cardinality(Lasts(frames, 0)) = 0
         /\ Fragments(frames, 0) = {} /\ Cardinality(Fragments(frames, 0)) = 0
<1>1. Lasts(frames, 0) = {} /\ Fragments(frames, 0) = {}
  BY DEF Lasts, Fragments
<1>2. QED
  BY <1>1, FS_EmptySet

\* What one more frame does to them.
LEMMA CountNext ==
  ASSUME NEW frames, NEW n \in Nat
  PROVE  /\ frames[n + 1].type = "last" =>
              /\ Cardinality(Lasts(frames, n + 1)) = Cardinality(Lasts(frames, n)) + 1
              /\ Cardinality(Fragments(frames, n + 1)) = 0
         /\ frames[n + 1].type = "frag" =>
              /\ Cardinality(Lasts(frames, n + 1)) = Cardinality(Lasts(frames, n))
              /\ Cardinality(Fragments(frames, n + 1)) = Cardinality(Fragments(frames, n)) + 1
         /\ frames[n + 1].type \notin {"frag", "last"} =>
              /\ Cardinality(Lasts(frames, n + 1)) = Cardinality(Lasts(frames, n))
              /\ Cardinality(Fragments(frames, n + 1)) = Cardinality(Fragments(frames, n))
<1> DEFINE L == Lasts(frames, n)
           F == Fragments(frames, n)
<1>0. IsFiniteSet(L) /\ IsFiniteSet(F)
  BY CountTypes
<1>1. n + 1 \notin L /\ n + 1 \notin F
  BY DEF Lasts, Fragments
<1>2. 1..(n + 1) = 1..n \cup {n + 1}
  OBVIOUS
<1>3. \A i \in 1..n : i..(n + 1) = i..n \cup {n + 1}
  OBVIOUS
<1>4. (n + 1)..(n + 1) = {n + 1}
  OBVIOUS
<1>5. CASE frames[n + 1].type = "last"
  <2>1. Lasts(frames, n + 1) = Lasts(frames, n) \cup {n + 1}
    BY <1>2, <1>5 DEF Lasts
  <2>2. Fragments(frames, n + 1) = {}
    BY <1>2, <1>3, <1>4, <1>5 DEF Fragments
  <2>3. Cardinality(L \cup {n + 1}) = Cardinality(L) + 1
    BY <1>0, <1>1, FS_AddElement
  <2>4. QED
    BY <1>5, <2>1, <2>2, <2>3, FS_EmptySet
<1>6. CASE frames[n + 1].type = "frag"
  <2>1. Lasts(frames, n + 1) = Lasts(frames, n)
    BY <1>2, <1>6 DEF Lasts
  <2>2. Fragments(frames, n + 1) = Fragments(frames, n) \cup {n + 1}
    BY <1>2, <1>3, <1>4, <1>6 DEF Fragments
  <2>3. Cardinality(F \cup {n + 1}) = Cardinality(F) + 1
    BY <1>0, <1>1, FS_AddElement
  <2>4. QED
    BY <1>6, <2>1, <2>2, <2>3
<1>7. CASE frames[n + 1].type \notin {"frag", "last"}
  <2>1. Lasts(frames, n + 1) = Lasts(frames, n)
    BY <1>2, <1>7 DEF Lasts
  <2>2. Fragments(frames, n + 1) = Fragments(frames, n)
    BY <1>2, <1>3, <1>4, <1>7 DEF Fragments
  <2>3. QED
    BY <1>7, <2>1, <2>2
<1>8. QED
  BY <1>5, <1>6, <1>7

LEMMA FramesAssociative ==
  \A a, b, c \in Seq(Frame) : a \o b \o c = a \o (b \o c)
BY ConcatAssociative

-----------------------------------------------------------------------------
(* Types.                                                                  *)

LEMMA Bounds == MaxEpoch \in Nat /\ MaxEpoch >= 1
<1>1. MaxEpoch \in Nat \ {0}
  BY StreamAssumption, Zenon
<1>2. QED
  BY <1>1

LEMMA Typed ==
  ASSUME TypeOK
  PROVE  /\ role \in {"client", "server"}
         /\ alive \in BOOLEAN /\ connected \in BOOLEAN /\ late \in BOOLEAN
         /\ connection_epoch \in Nat /\ connection_epoch >= 1
         /\ sent \in Seq(Frame) /\ net \in Seq(Frame) /\ received \in Seq(Frame)
         /\ read_buffer \in Seq(Frame) /\ wbuf \in Seq(Frame) /\ parsed \in Seq(Frame)
         /\ written \in Seq(Frame) /\ continuation_buffer \in Seq(Frame)
         /\ delivered \in Seq(Message)
         /\ unwritten \in Nat
<1>1. role \in {"client", "server"}
  BY StreamAssumption, Zenon DEF TypeOK
<1>2. QED
  BY <1>1, Bounds DEF TypeOK, Message

\* The two halves of TypeOK: what the buffers hold, and where the calls are.
Buffers ==
  /\ sent \in Seq(Frame) /\ net \in Seq(Frame) /\ received \in Seq(Frame)
  /\ read_buffer \in Seq(Frame) /\ wbuf \in Seq(Frame) /\ parsed \in Seq(Frame)
  /\ written \in Seq(Frame) /\ continuation_buffer \in Seq(Frame)
  /\ delivered \in Seq(Message)

Control ==
  /\ role \in Roles
  /\ link \in {"none", "open", "deaf", "closed"}
  /\ reply \in {"none", "ok", "bad"}
  /\ handshake \in IF role = "client" THEN {"None", "WaitSend", "Send"} ELSE {"None", "WaitRequest"}
  /\ alive \in BOOLEAN /\ connected \in BOOLEAN /\ late \in BOOLEAN
  /\ connection_epoch \in 1..MaxEpoch
  /\ call \in {"none", "connect", "accept", "read", "write", "gone"}
  /\ pc \in {"enter", "connect", "run"}
  /\ unwritten \in Nat
  /\ connected => handshake = "None"
  /\ call \notin {"none", "gone"} /\ pc = "run" => connected

LEMMA Halves == TypeOK <=> Buffers /\ Control
BY DEF TypeOK, Buffers, Control, Message

LEMMA HalvesNext == TypeOK' <=> Buffers' /\ Control'
BY DEF TypeOK, Buffers, Control, Message

LEMMA InitTypes == Init => TypeOK
<1> SUFFICES ASSUME Init
             PROVE  TypeOK
  OBVIOUS
<1>1. <<>> \in Seq(Frame) /\ <<>> \in Seq(Message)
  OBVIOUS
<1>2. 1 \in 1..MaxEpoch
  BY Bounds
<1>3. role \in {"client", "server"}
  BY StreamAssumption, Zenon DEF Init
<1>4. QED
  BY <1>1, <1>2, <1>3 DEF Init, TypeOK, Message

\* The buffers that a step replaces hold frames.
LEMMA BufferTypes ==
  ASSUME TypeOK, NEW type \in FrameType
  PROVE  /\ RemoteFrame(type) \in Frame
         /\ Append(sent, RemoteFrame(type)) \in Seq(Frame)
         /\ Append(net, RemoteFrame(type)) \in Seq(Frame)
<1>1. sent \in Seq(Frame) /\ net \in Seq(Frame) /\ Len(sent) \in Nat
  BY Typed
<1>2. Epoch \in Nat
  BY Typed DEF Epoch
<1>3. RemoteFrame(type) \in Frame
  BY <1>1, <1>2, CountTypes DEF RemoteFrame, Frame
<1>4. QED
  BY <1>1, <1>3, AppendProperties

\* What the kernel takes and what it leaves.
LEMMA PutTypes ==
  ASSUME TypeOK, NEW fs \in Seq(Frame), NEW k, Put(fs, k)
  PROVE  /\ k \in 0..Len(fs)
         /\ ~SocketFull => k = Len(fs)
         /\ SubSeq(fs, 1, k) \in Seq(Frame) /\ wbuf' \in Seq(Frame)
         /\ SubSeq(fs, 1, k) \o wbuf' = fs
         /\ Len(wbuf') = Len(fs) - k
         /\ received' \in Seq(Frame)
<1>1. Len(fs) \in Nat
  OBVIOUS
<1>2. k \in 0..Len(fs) /\ (~SocketFull => k = Len(fs))
  BY <1>1 DEF Put
<1>3. /\ SubSeq(fs, 1, k) \in Seq(Frame)
      /\ SubSeq(fs, k + 1, Len(fs)) \in Seq(Frame)
      /\ Len(SubSeq(fs, k + 1, Len(fs))) = Len(fs) - k
      /\ SubSeq(fs, 1, k) \o SubSeq(fs, k + 1, Len(fs)) = fs
  BY <1>2, TwoParts
<1>4. received \in Seq(Frame)
  BY Typed
<1>5. received \o SubSeq(fs, 1, k) \in Seq(Frame)
  BY <1>3, <1>4, ConcatProperties
<1>6. QED
  BY <1>2, <1>3, <1>4, <1>5 DEF Put

\* A frame is written behind those that the kernel has not taken.
LEMMA WriteTypes ==
  ASSUME TypeOK, NEW type \in FrameType, NEW k, WriteFrame(type, k)
  PROVE  \E f \in Frame :
           /\ f = [epoch |-> connection_epoch, type |-> type, msg |-> 0, part |-> 0]
           /\ Append(wbuf, f) \in Seq(Frame) /\ Put(Append(wbuf, f), k)
           /\ written' = Append(written, f) /\ written' \in Seq(Frame)
<1> DEFINE f == [epoch |-> connection_epoch, type |-> type, msg |-> 0, part |-> 0]
<1>1. f \in Frame
  BY Typed DEF Frame
<1>2. written' = Append(written, f) /\ Put(Append(wbuf, f), k)
  BY DEF WriteFrame, Queued
<1>3. wbuf \in Seq(Frame) /\ written \in Seq(Frame)
  BY Typed
<1>4. f = [epoch |-> connection_epoch, type |-> type, msg |-> 0, part |-> 0]
  OBVIOUS
<1> HIDE DEF f
<1>5. Append(wbuf, f) \in Seq(Frame) /\ Append(written, f) \in Seq(Frame)
  BY <1>1, <1>3, AppendProperties
<1>6. QED
  BY <1>1, <1>2, <1>4, <1>5

\* The frames that come with a handshake, or in a read.
LEMMA NetTypes ==
  ASSUME TypeOK, NEW k \in 0..Len(net)
  PROVE  /\ SubSeq(net, 1, k) \in Seq(Frame) /\ SubSeq(net, k + 1, Len(net)) \in Seq(Frame)
         /\ SubSeq(net, 1, k) \o SubSeq(net, k + 1, Len(net)) = net
BY Typed, TwoParts

\* The frame that is parsed.
LEMMA ParseTypes ==
  ASSUME TypeOK, read_buffer # <<>>
  PROVE  /\ Head(read_buffer) \in Frame /\ Tail(read_buffer) \in Seq(Frame)
         /\ Append(parsed, Head(read_buffer)) \in Seq(Frame)
         /\ Append(continuation_buffer, Head(read_buffer)) \in Seq(Frame)
<1>1. read_buffer \in Seq(Frame) /\ parsed \in Seq(Frame) /\ continuation_buffer \in Seq(Frame)
  BY Typed
<1>2. Head(read_buffer) \in Frame /\ Tail(read_buffer) \in Seq(Frame)
  BY <1>1, HeadTailProperties
<1>3. QED
  BY <1>1, <1>2, AppendProperties

LEMMA NetworkTypes ==
  ASSUME TypeOK, Network, UNCHANGED role
  PROVE  TypeOK'
<1>1. CASE \E r \in {"ok", "bad"} : Answer(r)
  BY <1>1 DEF Answer, TypeOK, streamVars, callVars, histVars
<1>2. CASE \E type \in Remote : RemoteSend(type)
  <2>1. PICK type \in Remote : RemoteSend(type)
    BY <1>2
  <2>2. type \in FrameType
    BY StreamAssumption
  <2>3. sent' \in Seq(Frame) /\ net' \in Seq(Frame)
    BY <2>1, <2>2, BufferTypes DEF RemoteSend
  <2>4. QED
    BY <2>1, <2>3 DEF RemoteSend, TypeOK, streamVars, callVars, histVars
<1>3. CASE RemoteClose
  BY <1>3 DEF RemoteClose, TypeOK, streamVars, callVars, histVars
<1>4. QED
  BY <1>1, <1>2, <1>3 DEF Network

LEMMA ForgetTypes ==
  ASSUME TypeOK, Forget, UNCHANGED <<role, delivered>>,
         call' \in {"none", "connect"}, pc' \in {"enter", "connect", "run"},
         unwritten' \in Nat, late' \in BOOLEAN, call' = "connect" => pc' = "enter"
  PROVE  TypeOK'
<1>1. <<>> \in Seq(Frame)
  OBVIOUS
<1>2. Buffers'
  BY <1>1, Halves DEF Forget, DropLink, Buffers
<1>3. Control'
  BY Halves DEF Forget, DropLink, Control
<1>4. QED
  BY <1>2, <1>3, HalvesNext

LEMMA ApplicationTypes ==
  ASSUME TypeOK, Application, UNCHANGED role
  PROVE  TypeOK'
<1>0. \A size \in Sizes : size \in Nat
  BY StreamAssumption
<1>1. ASSUME NEW c \in {"connect", "read", "write"}, NEW size \in Nat, Begin(c, size),
             UNCHANGED <<remoteVars, streamVars, histVars>>
      PROVE  TypeOK'
  <2>1. late' \in BOOLEAN
    BY <1>1, Zenon DEF Begin
  <2>2. call' = c /\ pc' = "enter" /\ unwritten' = size
    BY <1>1 DEF Begin
  <2>3. Buffers'
    BY <1>1, Halves DEF Buffers, remoteVars, streamVars, histVars
  <2>4. Control'
    BY <1>1, <2>1, <2>2, Halves DEF Control, remoteVars, streamVars
  <2>5. QED
    BY <2>3, <2>4, HalvesNext
<1>2. CASE CallReconnect \/ CallDisconnect
  <2>1. /\ Forget /\ UNCHANGED delivered
        /\ \/ call' = "connect" /\ pc' = "enter" /\ unwritten' = 0 /\ late' = ~alive
           \/ call' = "none" /\ UNCHANGED <<pc, unwritten, late>>
    BY <1>2 DEF CallReconnect, CallDisconnect, Begin, callVars
  <2>2. late' \in BOOLEAN
    BY <2>1, Typed, Zenon
  <2>3. pc' \in {"enter", "connect", "run"} /\ unwritten' \in Nat
    BY <2>1 DEF TypeOK
  <2>4. QED
    BY <2>1, <2>2, <2>3, ForgetTypes
<1>3. CASE Shutdown
  BY <1>3 DEF Shutdown, TypeOK, remoteVars, callVars, histVars
<1>4. CASE CallRead \/ CallConnect \/ \E size \in Sizes : CallWrite(size)
  BY <1>0, <1>1, <1>4 DEF CallRead, CallConnect, CallWrite
<1>5. QED
  BY <1>2, <1>3, <1>4 DEF Application

LEMMA ConnectTypes ==
  ASSUME TypeOK, LinkOK, ConnectOK, Connect \/ Accept, UNCHANGED role
  PROVE  TypeOK'
<1> USE Halves
<1>1. ASSUME UNCHANGED <<remoteVars, streamVars, histVars>>, Control'
      PROVE  TypeOK'
  BY <1>1, HalvesNext DEF Buffers, remoteVars, streamVars, histVars
<1>2. CASE EnterConnected \/ EnterRefused \/ EnterConnect
  <2>1. Control'
    <3>1. CASE EnterConnected
      BY <3>1 DEF EnterConnected, Control, remoteVars, streamVars
    <3>2. CASE EnterRefused
      BY <3>2 DEF EnterRefused, Return, Control, remoteVars, streamVars
    <3>3. CASE EnterConnect
      BY <3>3 DEF EnterConnect, Return, Control, remoteVars, streamVars
    <3>4. QED
      BY <1>2, <3>1, <3>2, <3>3
  <2>2. QED
    BY <1>1, <1>2, <2>1 DEF EnterConnected, EnterRefused, EnterConnect
<1>3. CASE Dial \/ SendHandshake
  <2>1. role = "client" /\ ~connected
    BY <1>3 DEF Dial, SendHandshake, Connecting, ConnectOK
  <2>2. Buffers'
    BY <1>3 DEF Dial, SendHandshake, Buffers, remoteVars, callVars, histVars
  <2>3. Control'
    BY <1>3, <2>1 DEF Dial, SendHandshake, Connecting, Control, remoteVars, callVars
  <2>4. QED
    BY <2>2, <2>3, HalvesNext
<1>4. CASE DialFails \/ HandshakeWaits
  <2>1. /\ UNCHANGED <<remoteVars, streamVars, histVars, pc, late>>
        /\ call' = "none" /\ unwritten' = 0
    BY <1>4 DEF DialFails, HandshakeWaits, Return
  <2>2. Control'
    BY <2>1 DEF Control, remoteVars, streamVars
  <2>3. QED
    BY <1>1, <2>1, <2>2
<1>5. CASE HandshakeFails
  <2>1. <<>> \in Seq(Frame)
    OBVIOUS
  <2>2. Buffers'
    BY <1>5, <2>1 DEF HandshakeFails, DropLink, Buffers
  <2>3. role = "client"
    BY <1>5 DEF HandshakeFails, Connecting, Control
  <2>4. Control'
    BY <1>5, <2>3 DEF HandshakeFails, HandshakeReset, DropLink, Return, Control
  <2>5. QED
    BY <2>2, <2>4, HalvesNext
<1>6. ASSUME NEW k \in 0..Len(net), HandshakeDone(k) \/ AcceptDone(k)
      PROVE  TypeOK'
  <2>1. read_buffer' \in Seq(Frame) /\ net' \in Seq(Frame)
    BY <1>6, NetTypes DEF HandshakeDone, AcceptDone, Leftover
  <2>2. connection_epoch' \in 1..MaxEpoch
    <3>1. HandshakeDone(k) => role = "client" /\ connection_epoch < MaxEpoch
      BY DEF HandshakeDone, Connecting, LinkOK, TypeOK
    <3>2. connection_epoch \in 1..MaxEpoch
      BY DEF TypeOK
    <3>3. QED
      BY <1>6, <3>1, <3>2, Bounds DEF HandshakeDone, AcceptDone
  <2>3. Buffers'
    BY <1>6, <2>1 DEF HandshakeDone, AcceptDone, Buffers, histVars
  <2>4. /\ handshake' = "None" /\ connected' = TRUE /\ UNCHANGED <<reply, alive, late>>
        /\ link' \in {link, "open", "deaf"}
        /\ \/ pc' = "run" /\ call' = call /\ unwritten' = unwritten
           \/ pc' = pc /\ call' = "none" /\ unwritten' = 0
    BY <1>6 DEF HandshakeDone, AcceptDone, AnswerSent, Return
  <2>5. Control'
    BY <2>2, <2>4 DEF Control
  <2>6. QED
    BY <2>3, <2>5, HalvesNext
<1>7. CASE AcceptWaits \/ AcceptFails \/ AcceptPanics \/ HandshakePanics
  <2>1. Buffers'
    BY <1>7 DEF AcceptWaits, AcceptFails, AcceptPanics, HandshakePanics, Buffers, remoteVars,
       streamVars, histVars
  <2>2. /\ UNCHANGED <<link, streamVars, pc, late>>
        /\ reply' \in {reply, "none"} /\ unwritten' \in {unwritten, 0}
        /\ call' \in {"none", "gone"}
    BY <1>7 DEF AcceptWaits, AcceptFails, AcceptPanics, HandshakePanics, Return, remoteVars
  <2>3. Control'
    BY <2>2 DEF Control, streamVars
  <2>4. QED
    BY <2>1, <2>3, HalvesNext
<1>8. QED
  BY <1>2, <1>3, <1>4, <1>5, <1>6, <1>7 DEF Connect, Accept

LEMMA ReadTypes ==
  ASSUME TypeOK, Read \/ Write, UNCHANGED role
  PROVE  TypeOK'
<1> USE Halves
<1>0. {"ping", "pong", "frag", "last"} \subseteq FrameType
  BY DEF FrameType
<1>1. CASE Disconnected
  <2>1. /\ Forget /\ UNCHANGED delivered
        /\ call' = "none" /\ unwritten' = 0 /\ UNCHANGED <<pc, late>>
    BY <1>1 DEF Disconnected, Return
  <2>2. pc' \in {"enter", "connect", "run"} /\ late' \in BOOLEAN
    BY <2>1 DEF Control
  <2>3. QED
    BY <2>1, <2>2, ForgetTypes
<1>2. CASE FlushFails \/ WriteDone
  <2>1. /\ UNCHANGED <<remoteVars, streamVars, histVars, pc, late>>
        /\ call' = "none" /\ unwritten' = 0
    BY <1>2 DEF FlushFails, WriteDone, Return
  <2>2. Buffers'
    BY <2>1 DEF Buffers, remoteVars, streamVars, histVars
  <2>3. Control'
    BY <2>1 DEF Control, remoteVars, streamVars
  <2>4. QED
    BY <2>2, <2>3, HalvesNext
<1>3. ASSUME NEW k \in 0..Len(net), Fill(k)
      PROVE  TypeOK'
  <2>1. read_buffer' \in Seq(Frame) /\ net' \in Seq(Frame)
    BY <1>3, NetTypes DEF Fill
  <2>2. Buffers'
    BY <1>3, <2>1 DEF Fill, Buffers, histVars
  <2>3. Control'
    BY <1>3 DEF Fill, Control, callVars
  <2>4. QED
    BY <2>2, <2>3, HalvesNext
<1>4. CASE ReadFragment \/ ReadMessage \/ ReadControl
  <2> DEFINE f == Head(read_buffer)
             m == [epoch |-> connection_epoch, frames |-> Append(continuation_buffer, f)]
  <2>1. /\ read_buffer' = Tail(read_buffer) /\ read_buffer # <<>> /\ parsed' = Append(parsed, f)
        /\ continuation_buffer' \in {Append(continuation_buffer, f), <<>>, continuation_buffer}
        /\ delivered' \in {delivered, Append(delivered, m)}
        /\ UNCHANGED <<remoteVars, alive, connected, connection_epoch, handshake, wbuf, pc, late,
                       written>>
        /\ \/ UNCHANGED <<call, unwritten>>
           \/ call' = "none" /\ unwritten' = 0
    BY <1>4 DEF ReadFragment, ReadMessage, ReadControl, Parse, Popped, Return, callVars
  <2>2. /\ Tail(read_buffer) \in Seq(Frame) /\ Append(parsed, f) \in Seq(Frame)
        /\ Append(continuation_buffer, f) \in Seq(Frame)
    BY <2>1, ParseTypes
  <2>3. m \in Message
    BY <2>2, Typed DEF Message
  <2>4. Append(delivered, m) \in Seq(Message)
    BY <2>3, AppendProperties DEF Buffers
  <2>5. <<>> \in Seq(Frame)
    OBVIOUS
  <2> HIDE DEF f, m
  <2>6. Buffers'
    BY <2>1, <2>2, <2>4, <2>5 DEF Buffers, remoteVars
  <2>7. Control'
    BY <2>1 DEF Control, remoteVars
  <2>8. QED
    BY <2>6, <2>7, HalvesNext
<1>5. ASSUME NEW k, ReadPing(k) \/ ReadKeepAlive(k) \/ WriteData(k)
      PROVE  TypeOK'
  <2>1. PICK type \in {"ping", "pong", "frag", "last"} : WriteFrame(type, k)
    BY <1>5 DEF ReadPing, ReadKeepAlive, WriteData
  <2>2. type \in FrameType
    BY <1>0
  <2>3. wbuf' \in Seq(Frame) /\ received' \in Seq(Frame) /\ written' \in Seq(Frame)
    BY <2>1, <2>2, WriteTypes, PutTypes
  <2>4. /\ UNCHANGED <<continuation_buffer, delivered>>
        /\ \/ UNCHANGED <<read_buffer, parsed>>
           \/ /\ read_buffer # <<>> /\ read_buffer' = Tail(read_buffer)
              /\ parsed' = Append(parsed, Head(read_buffer))
    BY <1>5 DEF ReadPing, Parse, Popped, ReadKeepAlive, WriteData
  <2>5. read_buffer' \in Seq(Frame) /\ parsed' \in Seq(Frame)
    BY <2>4, ParseTypes DEF Buffers
  <2>6. Buffers'
    BY <2>1, <2>3, <2>4, <2>5 DEF WriteFrame, Buffers
  <2>7. /\ UNCHANGED <<pc, late>>
        /\ \/ UNCHANGED <<call, unwritten>>
           \/ call' = "none" /\ unwritten' = 0
           \/ UNCHANGED call /\ unwritten > 0 /\ unwritten' = unwritten - 1
    BY <1>5 DEF ReadPing, ReadKeepAlive, WriteData, Return, callVars
  <2>8. unwritten' \in Nat
    BY <2>7 DEF Control
  <2>9. Control'
    BY <2>1, <2>7, <2>8 DEF WriteFrame, Control
  <2>10. QED
    BY <2>6, <2>9, HalvesNext
<1>6. ASSUME NEW k, ReadIdle(k)
      PROVE  TypeOK'
  <2>1. wbuf' \in Seq(Frame) /\ received' \in Seq(Frame)
    BY <1>6, PutTypes DEF ReadIdle, Buffers
  <2>2. Buffers'
    BY <1>6, <2>1 DEF ReadIdle, Buffers, histVars
  <2>3. Control'
    BY <1>6 DEF ReadIdle, Return, Control
  <2>4. QED
    BY <2>2, <2>3, HalvesNext
<1>7. QED
  BY <1>1, <1>2, <1>3, <1>4, <1>5, <1>6 DEF Read, Write

LEMMA TypesKept ==
  ASSUME TypeOK, LinkOK, ConnectOK, [Next]_<<role, vars>>
  PROVE  TypeOK'
<1>1. CASE Gone \/ UNCHANGED vars
  BY <1>1 DEF Gone, vars, remoteVars, streamVars, callVars, histVars, TypeOK, Next
<1>2. CASE ~(Gone \/ UNCHANGED vars)
  BY <1>2, NetworkTypes, ApplicationTypes, ConnectTypes, ReadTypes DEF Next, Step
<1>3. QED
  BY <1>1, <1>2
-----------------------------------------------------------------------------
(* Connections and calls.                                                  *)

\* A call that runs has a connection, which it keeps or gives up.
LEMMA RunningSteps ==
  ASSUME TypeOK, Read \/ Write
  PROVE  /\ connected /\ handshake = "None" /\ call \in {"read", "write"} /\ pc = "run"
         /\ UNCHANGED <<alive, connection_epoch, handshake, pc, late>>
         /\ \/ Disconnected /\ Forget /\ Return("disconnected") /\ UNCHANGED delivered
            \/ /\ UNCHANGED <<link, reply, sent, connected>>
               /\ FlushFails \/ alive \/ WriteDone
<1>1. (Reading \/ Writing) => connected /\ handshake = "None"
  BY DEF Reading, Writing, TypeOK
<1>2. CASE Disconnected
  BY <1>1, <1>2 DEF Disconnected, Forget, Return, Reading, Writing
<1>3. CASE FlushFails \/ WriteDone
  BY <1>1, <1>3 DEF FlushFails, WriteDone, Return, Reading, Writing, remoteVars, streamVars
<1>4. ASSUME NEW k, Fill(k) \/ ReadIdle(k)
      PROVE  /\ Reading /\ alive
             /\ UNCHANGED <<alive, connection_epoch, handshake, pc, late>>
             /\ UNCHANGED <<link, reply, sent, connected>>
  BY <1>4 DEF Fill, ReadIdle, NothingToRead, Return, callVars
<1>5. CASE ReadFragment \/ ReadMessage \/ ReadControl
  <2>1. /\ Reading /\ alive
        /\ UNCHANGED <<alive, connection_epoch, handshake, pc, late>>
        /\ UNCHANGED <<link, reply, sent, connected>>
    BY <1>5 DEF ReadFragment, ReadMessage, ReadControl, Parse, Return, callVars, remoteVars
  <2>2. QED
    BY <1>1, <2>1 DEF Reading
<1>6. ASSUME NEW k, ReadPing(k) \/ ReadKeepAlive(k) \/ WriteData(k)
      PROVE  /\ (Reading \/ Writing) /\ alive
             /\ UNCHANGED <<alive, connection_epoch, handshake, pc, late>>
             /\ UNCHANGED <<link, reply, sent, connected>>
  BY <1>6 DEF ReadPing, ReadKeepAlive, WriteData, WriteFrame, Parse, NothingToRead, Return,
              callVars
<1>7. QED
  BY <1>1, <1>2, <1>3, <1>4, <1>5, <1>6 DEF Read, Write, Reading, Writing

LEMMA ConnectionKept ==
  ASSUME TypeOK, LinkOK, ConnectOK, [Next]_<<role, vars>>
  PROVE  LinkOK'
<1>0. role' = role
  BY DEF Next
<1>1. ASSUME UNCHANGED <<link, connected, handshake, sent, net, parsed, received, written,
                         connection_epoch>>
      PROVE  LinkOK'
  BY <1>0, <1>1 DEF LinkOK
<1>2. ASSUME Forget, handshake = "None"
      PROVE  LinkOK'
  BY <1>0, <1>2 DEF Forget, DropLink, LinkOK
<1>3. CASE Network
  <2>1. CASE \E r \in {"ok", "bad"} : Answer(r)
    BY <1>1, <2>1 DEF Answer, streamVars, histVars
  <2>2. ASSUME NEW type \in Remote, RemoteSend(type)
        PROVE  LinkOK'
    BY <1>0, <2>2 DEF RemoteSend, LinkOK, streamVars, histVars
  <2>3. CASE RemoteClose
    BY <1>0, <2>3 DEF RemoteClose, LinkOK, streamVars, histVars
  <2>4. QED
    BY <1>3, <2>1, <2>2, <2>3 DEF Network
<1>4. CASE Application
  <2>1. CASE CallReconnect \/ CallDisconnect
    BY <1>2, <2>1 DEF CallReconnect, CallDisconnect, TypeOK
  <2>2. CASE ~(CallReconnect \/ CallDisconnect)
    BY <1>1, <1>4, <2>2 DEF Application, CallRead, CallConnect, CallWrite, Shutdown, remoteVars,
                            streamVars, histVars
  <2>3. QED
    BY <2>1, <2>2
<1>5. CASE Connect
  <2>1. CASE EnterConnected \/ EnterRefused \/ EnterConnect \/ DialFails \/ HandshakeWaits
             \/ HandshakePanics
    BY <1>1, <2>1 DEF EnterConnected, EnterRefused, EnterConnect, DialFails, HandshakeWaits,
                      HandshakePanics, remoteVars, streamVars, histVars
  <2>2. CASE Dial
    <3>1. role = "client" /\ ~connected /\ handshake = "None" /\ connection_epoch < MaxEpoch
      BY <2>2 DEF Dial, Connecting, ConnectOK
    <3>2. QED
      BY <1>0, <2>2, <3>1 DEF Dial, LinkOK, histVars
  <2>3. CASE SendHandshake
    BY <1>0, <2>3 DEF SendHandshake, Connecting, LinkOK, remoteVars, histVars
  <2>4. CASE HandshakeFails
    <3>1. ~connected
      BY <2>4 DEF HandshakeFails, Connecting, TypeOK
    <3>2. QED
      BY <1>0, <2>4, <3>1 DEF HandshakeFails, HandshakeReset, DropLink, LinkOK
  <2>5. ASSUME NEW k \in 0..Len(net), HandshakeDone(k)
        PROVE  LinkOK'
    BY <1>0, <2>5 DEF HandshakeDone, Connecting, LinkOK
  <2>6. QED
    BY <1>5, <2>1, <2>2, <2>3, <2>4, <2>5 DEF Connect
<1>6. CASE Accept
  <2>1. CASE AcceptWaits \/ AcceptFails \/ AcceptPanics
    BY <1>1, <2>1 DEF AcceptWaits, AcceptFails, AcceptPanics, remoteVars, streamVars, histVars
  <2>2. ASSUME NEW k \in 0..Len(net), AcceptDone(k)
        PROVE  LinkOK'
    BY <1>0, <2>2 DEF AcceptDone, AnswerSent, Accepting, LinkOK
  <2>3. QED
    BY <1>6, <2>1, <2>2 DEF Accept
<1>7. CASE Read \/ Write
  <2>1. /\ connected /\ handshake = "None"
        /\ Forget \/ UNCHANGED <<link, connected, handshake, sent, connection_epoch>>
    BY <1>7, RunningSteps
  <2>2. QED
    BY <1>0, <1>2, <2>1 DEF LinkOK
<1>8. CASE Gone \/ UNCHANGED vars
  BY <1>1, <1>8 DEF Gone, vars, remoteVars, streamVars, histVars
<1>9. QED
  BY <1>3, <1>4, <1>5, <1>6, <1>7, <1>8 DEF Next, Step

\* What calls and connections owe to each other.
LEMMA CallsKept ==
  ASSUME TypeOK, LinkOK, ConnectOK, [Next]_<<role, vars>>
  PROVE  ConnectOK'
<1>0. role' = role
  BY DEF Next
<1>1. ASSUME UNCHANGED <<pc, call, connected, handshake>>
      PROVE  ConnectOK'
  BY <1>0, <1>1 DEF ConnectOK
<1>2. ASSUME pc' # "connect" \/ call' = "none"
      PROVE  ConnectOK'
  BY <1>2 DEF ConnectOK
<1>3. CASE Network
  BY <1>1, <1>3 DEF Network, Answer, RemoteSend, RemoteClose, streamVars, callVars
<1>4. CASE Application
  BY <1>1, <1>2, <1>4 DEF Application, CallRead, CallConnect, CallWrite, CallReconnect,
     CallDisconnect, Shutdown, Begin, callVars
<1>5. CASE Connect
  <2>1. CASE EnterConnect
    <3>1. /\ role = "client" /\ UNCHANGED <<connected, handshake, call>> /\ ~connected
          /\ call = "connect" \/ AutoReconnect \/ handshake # "None"
          \/ call' = "none"
      BY <2>1 DEF EnterConnect, MayConnect, Return, streamVars
    <3>2. QED
      BY <1>0, <1>2, <3>1 DEF ConnectOK
  <2>2. CASE Dial \/ SendHandshake \/ HandshakePanics
    BY <1>0, <2>2 DEF Dial, SendHandshake, HandshakePanics, Connecting, streamVars, callVars,
                      ConnectOK
  <2>3. CASE EnterConnected \/ EnterRefused \/ DialFails \/ HandshakeWaits \/ HandshakeFails
    BY <1>2, <2>3 DEF EnterConnected, EnterRefused, DialFails, HandshakeWaits, HandshakeFails,
                      Return
  <2>4. ASSUME NEW k \in 0..Len(net), HandshakeDone(k)
        PROVE  ConnectOK'
    BY <1>2, <2>4 DEF HandshakeDone, Return
  <2>5. QED
    BY <1>5, <2>1, <2>2, <2>3, <2>4 DEF Connect
<1>6. CASE Accept
  <2>1. pc = "enter"
    BY <1>6 DEF Accept, AcceptWaits, AcceptFails, AcceptPanics, AcceptDone, Accepting, Entering
  <2>2. pc' = pc \/ pc' = "run"
    BY <1>6 DEF Accept, AcceptWaits, AcceptFails, AcceptPanics, AcceptDone, Return
  <2>3. QED
    BY <1>2, <2>1, <2>2
<1>7. CASE Read \/ Write
  BY <1>2, <1>7, RunningSteps
<1>8. CASE Gone \/ UNCHANGED vars
  BY <1>1, <1>8 DEF Gone, vars, streamVars, callVars
<1>9. QED
  BY <1>3, <1>4, <1>5, <1>6, <1>7, <1>8 DEF Next, Step

LEMMA UnusedKept ==
  ASSUME TypeOK, ConnectOK, UnusedOK, [Next]_<<role, vars>>
  PROVE  UnusedOK'
<1>0. role' = role /\ role \in {"client", "server"}
  BY Typed DEF Next
<1>1. ASSUME UNCHANGED <<delivered, continuation_buffer, wbuf>>, Unused' => Unused,
             connected' = connected \/ ~connected'
      PROVE  UnusedOK'
  BY <1>1 DEF UnusedOK
<1>2. ASSUME handshake' = handshake \/ handshake' = "None" \/ role = "client",
             connection_epoch' = connection_epoch
      PROVE  Unused' => Unused
  BY <1>0, <1>2 DEF Unused
<1>3. CASE Network \/ Application
  <2>1. UNCHANGED <<delivered, continuation_buffer, wbuf, handshake, connection_epoch>>
    BY <1>3 DEF Network, Answer, RemoteSend, RemoteClose, Application, CallRead, CallConnect,
       CallWrite, CallReconnect, CallDisconnect, Forget, Shutdown, streamVars, histVars
  <2>2. connected' = connected \/ ~connected'
    BY <1>3 DEF Network, Answer, RemoteSend, RemoteClose, Application, CallRead, CallConnect,
       CallWrite, CallReconnect, CallDisconnect, Forget, Shutdown, streamVars
  <2>3. QED
    BY <1>1, <1>2, <2>1, <2>2
<1>4. CASE EnterConnected \/ EnterRefused \/ EnterConnect \/ DialFails \/ HandshakeWaits
           \/ AcceptWaits \/ AcceptFails \/ AcceptPanics \/ HandshakePanics
           \/ Gone \/ UNCHANGED vars
  <2>1. UNCHANGED <<delivered, streamVars>>
    BY <1>4 DEF EnterConnected, EnterRefused, EnterConnect, DialFails, HandshakeWaits,
       AcceptWaits, AcceptFails, AcceptPanics, HandshakePanics, Gone, vars, histVars
  <2>2. QED
    BY <1>1, <1>2, <2>1 DEF streamVars
<1>5. CASE Dial \/ SendHandshake \/ HandshakeFails
  <2>1. UNCHANGED <<delivered, continuation_buffer, wbuf, connection_epoch, connected>>
    BY <1>5 DEF Dial, SendHandshake, HandshakeFails, histVars
  <2>2. pc = "connect" /\ call # "none"
    BY <1>5 DEF Dial, SendHandshake, HandshakeFails, Connecting
  <2>3. QED
    BY <1>1, <1>2, <2>1, <2>2 DEF ConnectOK
<1>6. ASSUME NEW k \in 0..Len(net), HandshakeDone(k)
      PROVE  UnusedOK'
  <2>1. handshake' = "None" /\ connection_epoch' = connection_epoch + 1
    BY <1>6 DEF HandshakeDone
  <2>2. QED
    BY <2>1, Typed DEF Unused, UnusedOK
<1>7. ASSUME NEW k \in 0..Len(net), AcceptDone(k)
      PROVE  UnusedOK'
  <2>1. handshake' = "None" /\ handshake = "WaitRequest"
    BY <1>7 DEF AcceptDone, Accepting
  <2>2. role = "server"
    BY <1>0, <2>1 DEF TypeOK
  <2>3. QED
    BY <1>0, <2>1, <2>2 DEF Unused, UnusedOK
<1>8. CASE Read \/ Write
  <2>1. connected /\ UNCHANGED <<handshake, connection_epoch>>
    BY <1>8, RunningSteps
  <2>2. QED
    BY <1>0, <2>1 DEF UnusedOK, Unused
<1>9. QED
  BY <1>3, <1>4, <1>5, <1>6, <1>7, <1>8 DEF Next, Step, Connect, Accept

\* A call that began after shutdown() finds out before it returns.
LEMMA LateKept ==
  ASSUME TypeOK, LateOK, [Next]_<<role, vars>>
  PROVE  LateOK'
<1>1. ASSUME UNCHANGED <<late, alive, pc, call, unwritten>>
      PROVE  LateOK'
  BY <1>1 DEF LateOK
<1>2. ASSUME UNCHANGED <<late, alive>>, call' \in {"none", "gone"}, pc' = pc,
             call' = "gone" => pc # "connect"
      PROVE  LateOK'
  BY <1>2 DEF LateOK
<1>3. ASSUME late' = late, ~late
      PROVE  LateOK'
  BY <1>3 DEF LateOK
<1>4. CASE Network
  BY <1>1, <1>4 DEF Network, Answer, RemoteSend, RemoteClose, streamVars, callVars
<1>5. CASE Application
  <2>1. ASSUME NEW c \in {"connect", "read", "write"}, NEW size \in Nat, Begin(c, size),
               alive' = alive
        PROVE  LateOK'
    <3>1. late' = ~alive /\ pc' = "enter"
      BY <2>1 DEF Begin
    <3>2. late' => ~alive'
      BY <2>1, <3>1, Zenon
    <3>3. QED
      BY <3>1, <3>2 DEF LateOK
  <2>2. CASE CallRead \/ CallConnect \/ CallReconnect
    BY <2>1, <2>2 DEF CallRead, CallConnect, CallReconnect, Forget, streamVars
  <2>3. ASSUME NEW size \in Sizes, CallWrite(size)
        PROVE  LateOK'
    BY <2>1, <2>3, StreamAssumption DEF CallWrite, streamVars
  <2>4. CASE CallDisconnect
    BY <1>1, <2>4 DEF CallDisconnect, Forget, callVars
  <2>5. CASE Shutdown
    BY <2>5 DEF Shutdown, LateOK, callVars
  <2>6. QED
    BY <1>5, <2>2, <2>3, <2>4, <2>5 DEF Application
<1>6. CASE Connect
  <2>1. CASE EnterConnected
    BY <2>1 DEF EnterConnected, LateOK, streamVars
  <2>2. CASE EnterRefused
    BY <1>2, <2>2 DEF EnterRefused, Return, streamVars
  <2>3. CASE EnterConnect
    <3>1. alive /\ UNCHANGED late
      BY <2>3 DEF EnterConnect, CheckAlive, Return
    <3>2. QED
      BY <1>3, <3>1 DEF LateOK
  <2>4. CASE ~(EnterConnected \/ EnterRefused \/ EnterConnect)
    <3>1. call # "none" /\ pc = "connect" /\ UNCHANGED late
      BY <1>6, <2>4 DEF Connect, Dial, DialFails, SendHandshake, HandshakeFails, HandshakeWaits,
         HandshakePanics, HandshakeDone, Connecting, Return, callVars
    <3>2. QED
      BY <1>3, <3>1 DEF LateOK
  <2>5. QED
    BY <2>1, <2>2, <2>3, <2>4
<1>7. CASE Accept
  <2>1. CASE AcceptWaits \/ AcceptFails \/ AcceptPanics
    BY <1>2, <2>1 DEF AcceptWaits, AcceptFails, AcceptPanics, Accepting, Entering, Return,
       streamVars
  <2>2. ASSUME NEW k \in 0..Len(net), AcceptDone(k)
        PROVE  LateOK'
    <3>1. CASE call = "accept"
      BY <1>2, <2>2, <3>1 DEF AcceptDone, Return
    <3>2. CASE call # "accept"
      BY <2>2, <3>2 DEF AcceptDone, LateOK
    <3>3. QED
      BY <3>1, <3>2
  <2>3. QED
    BY <1>7, <2>1, <2>2 DEF Accept
<1>8. CASE Read \/ Write
  <2>1. UNCHANGED <<alive, late, pc>> /\ (alive \/ call' = "none")
    BY <1>8, RunningSteps DEF Return, FlushFails, WriteDone
  <2>2. QED
    BY <1>2, <1>3, <2>1 DEF LateOK
<1>9. CASE Gone \/ UNCHANGED vars
  BY <1>1, <1>9 DEF Gone, vars, streamVars, callVars
<1>10. QED
  BY <1>4, <1>5, <1>6, <1>7, <1>8, <1>9 DEF Next, Step

-----------------------------------------------------------------------------
(* Frames of the remote side.                                              *)

LEMMA NumbersKept ==
  ASSUME TypeOK, LinkOK, ConnectOK, Numbered, [Next]_<<role, vars>>
  PROVE  Numbered'
<1>0. role' = role /\ role \in {"client", "server"}
  BY Typed DEF Next
<1>1. ASSUME UNCHANGED <<sent, connected, connection_epoch>>
      PROVE  Numbered'
  BY <1>0, <1>1 DEF Numbered, Epoch
<1>2. ASSUME sent' = <<>>
      PROVE  Numbered'
  BY <1>2 DEF Numbered
<1>3. ASSUME NEW type \in Remote, RemoteSend(type)
      PROVE  Numbered'
  <2>1. type \in FrameType
    BY StreamAssumption
  <2> DEFINE f == RemoteFrame(type)
  <2>2. /\ f \in Frame /\ f.epoch = Epoch
        /\ f.msg = Cardinality(Lasts(sent, Len(sent))) + 1
        /\ f.part = Cardinality(Fragments(sent, Len(sent))) + 1
    BY <2>1, BufferTypes DEF RemoteFrame
  <2>3. sent' = Append(sent, f) /\ UNCHANGED <<connected, connection_epoch>>
    BY <1>3 DEF RemoteSend, streamVars
  <2> HIDE DEF f
  <2>4. Epoch' = Epoch
    BY <1>0, <2>3 DEF Epoch
  <2>5. sent \in Seq(Frame) /\ Len(sent) \in Nat
    BY Typed
  <2>6. /\ DOMAIN sent = 1..Len(sent) /\ DOMAIN sent' = 1..(Len(sent) + 1)
        /\ \A i \in 1..Len(sent) : sent'[i] = sent[i]
        /\ sent'[Len(sent) + 1] = f
    BY <2>2, <2>3, <2>5
  <2>7. ASSUME NEW i \in 1..(Len(sent) + 1)
        PROVE  /\ Lasts(sent', i - 1) = Lasts(sent, i - 1)
               /\ Fragments(sent', i - 1) = Fragments(sent, i - 1)
    <3>1. i - 1 \in Nat /\ \A j \in 1..(i - 1) : sent'[j] = sent[j]
      BY <2>5, <2>6
    <3>2. QED
      BY <3>1, CountPrefix
  <2>8. ASSUME NEW i \in 1..Len(sent)
        PROVE  /\ sent'[i].epoch = Epoch'
               /\ sent'[i].msg = Cardinality(Lasts(sent', i - 1)) + 1
               /\ sent'[i].part = Cardinality(Fragments(sent', i - 1)) + 1
    <3>1. i \in 1..(Len(sent) + 1) /\ sent'[i] = sent[i] /\ i \in DOMAIN sent
      BY <2>5, <2>6
    <3>2. QED
      BY <2>4, <2>7, <3>1 DEF Numbered
  <2>9. LET i == Len(sent) + 1 IN
        /\ sent'[i].epoch = Epoch'
        /\ sent'[i].msg = Cardinality(Lasts(sent', i - 1)) + 1
        /\ sent'[i].part = Cardinality(Fragments(sent', i - 1)) + 1
    <3>1. Len(sent) + 1 \in 1..(Len(sent) + 1) /\ Len(sent) + 1 - 1 = Len(sent)
      BY <2>5
    <3>2. QED
      BY <2>2, <2>4, <2>6, <2>7, <3>1
  <2>10. \A i \in DOMAIN sent' : i \in 1..Len(sent) \/ i = Len(sent) + 1
    BY <2>5, <2>6
  <2>11. QED
    BY <2>8, <2>9, <2>10 DEF Numbered
<1>4. CASE Network
  BY <1>1, <1>3, <1>4 DEF Network, Answer, RemoteClose, streamVars
<1>5. CASE Application
  BY <1>1, <1>2, <1>5 DEF Application, CallRead, CallConnect, CallWrite, CallReconnect,
     CallDisconnect, Shutdown, Forget, DropLink, remoteVars, streamVars
<1>6. ASSUME NEW k \in 0..Len(net), HandshakeDone(k)
      PROVE  Numbered'
  <2>1. role = "client" /\ ~connected
    BY <1>6 DEF HandshakeDone, Connecting, ConnectOK
  <2>2. connected' = TRUE /\ connection_epoch' = connection_epoch + 1 /\ sent' = sent
    BY <1>6 DEF HandshakeDone
  <2>3. Epoch' = Epoch
    BY <2>1, <2>2 DEF Epoch
  <2>4. QED
    BY <2>2, <2>3 DEF Numbered
<1>7. ASSUME NEW k \in 0..Len(net), AcceptDone(k)
      PROVE  Numbered'
  <2>1. handshake = "WaitRequest" /\ UNCHANGED <<sent, connection_epoch>>
    BY <1>7 DEF AcceptDone, Accepting
  <2>2. role = "server"
    BY <1>0, <2>1 DEF TypeOK
  <2>3. QED
    BY <1>0, <2>1, <2>2 DEF Numbered, Epoch
<1>8. CASE EnterConnected \/ EnterRefused \/ EnterConnect \/ DialFails \/ HandshakeWaits
           \/ AcceptWaits \/ AcceptFails \/ AcceptPanics \/ HandshakePanics
           \/ Gone \/ UNCHANGED vars
           \/ Dial \/ SendHandshake \/ HandshakeFails
  BY <1>1, <1>2, <1>8 DEF EnterConnected, EnterRefused, EnterConnect, DialFails, HandshakeWaits,
     AcceptWaits, AcceptFails, AcceptPanics,
     HandshakePanics, Gone, vars, Dial, SendHandshake, HandshakeFails,
     DropLink, remoteVars, streamVars
<1>9. CASE Read \/ Write
  <2>1. UNCHANGED <<sent, connected, connection_epoch>> \/ Forget
    BY <1>9, RunningSteps
  <2>2. QED
    BY <1>1, <1>2, <2>1 DEF Forget, DropLink
<1>10. QED
  BY <1>4, <1>5, <1>6, <1>7, <1>8, <1>9 DEF Next, Step, Connect, Accept

LEMMA FramesKept ==
  ASSUME TypeOK, LinkOK, ConnectOK, FramesInOrder, [Next]_<<role, vars>>
  PROVE  FramesInOrder'
<1>0. /\ sent \in Seq(Frame) /\ net \in Seq(Frame) /\ read_buffer \in Seq(Frame)
      /\ parsed \in Seq(Frame) /\ parsed \o read_buffer \in Seq(Frame)
  BY Typed, ConcatProperties
<1>1. ASSUME UNCHANGED <<connected, parsed, read_buffer, net, sent>>
      PROVE  FramesInOrder'
  BY <1>1 DEF FramesInOrder
<1>2. ASSUME ~connected'
      PROVE  FramesInOrder'
  BY <1>2 DEF FramesInOrder
<1>3. ASSUME NEW type \in Remote, RemoteSend(type)
      PROVE  FramesInOrder'
  <2> DEFINE f == RemoteFrame(type)
             p == parsed \o read_buffer
  <2>1. f \in Frame
    BY StreamAssumption, BufferTypes
  <2>2. /\ sent' = Append(sent, f) /\ net' = Append(net, f)
        /\ UNCHANGED <<connected, parsed, read_buffer>>
    BY <1>3 DEF RemoteSend, streamVars, histVars
  <2>3. p \in Seq(Frame)
    BY <1>0
  <2>4. (p \o net = sent) => p \o net' = sent'
    <3> HIDE DEF f, p
    <3>1. Append(net, f) = net \o <<f>> /\ Append(sent, f) = sent \o <<f>> /\ <<f>> \in Seq(Frame)
      BY <1>0, <2>1, AppendIsConcat
    <3>2. p \o (net \o <<f>>) = (p \o net) \o <<f>>
      BY <1>0, <2>3, <3>1, ConcatAssociative
    <3>3. QED
      BY <2>2, <3>1, <3>2
  <2>5. QED
    BY <2>2, <2>4 DEF FramesInOrder
<1>4. CASE Network
  BY <1>1, <1>3, <1>4 DEF Network, Answer, RemoteClose, streamVars, histVars
<1>5. CASE Application
  BY <1>1, <1>2, <1>5 DEF Application, CallRead, CallConnect, CallWrite, CallReconnect,
     CallDisconnect, Shutdown, Forget, remoteVars, streamVars, histVars
<1>6. ASSUME NEW k \in 0..Len(net), HandshakeDone(k) \/ AcceptDone(k)
      PROVE  FramesInOrder'
  <2>1. ~connected
    BY <1>6 DEF HandshakeDone, AcceptDone, Connecting, Accepting, ConnectOK, TypeOK
  <2>2. parsed = <<>> /\ net = sent
    BY <2>1 DEF LinkOK
  <2>3. /\ parsed' = parsed /\ sent' = sent /\ read_buffer' = SubSeq(net, 1, k)
        /\ net' = SubSeq(net, k + 1, Len(net))
    BY <1>6 DEF HandshakeDone, AcceptDone, Leftover, histVars
  <2>4. SubSeq(net, 1, k) \in Seq(Frame) /\ read_buffer' \o net' = net
    BY <2>3, NetTypes
  <2>5. <<>> \o SubSeq(net, 1, k) = SubSeq(net, 1, k)
    BY <2>4, ConcatEmptySeq
  <2>6. QED
    BY <2>2, <2>3, <2>4, <2>5 DEF FramesInOrder
<1>7. CASE EnterConnected \/ EnterRefused \/ EnterConnect \/ DialFails \/ HandshakeWaits
           \/ AcceptWaits \/ AcceptFails \/ AcceptPanics \/ HandshakePanics
           \/ Gone \/ UNCHANGED vars
  <2>1. UNCHANGED <<connected, parsed, read_buffer, net, sent>>
    BY <1>7 DEF EnterConnected, EnterRefused, EnterConnect, DialFails, HandshakeWaits,
       AcceptWaits, AcceptFails, AcceptPanics,
       HandshakePanics, Gone, vars, remoteVars, streamVars, histVars
  <2>2. QED
    BY <1>1, <2>1
<1>8. CASE Dial \/ SendHandshake \/ HandshakeFails
  <2>1. ~connected
    BY <1>8 DEF Dial, SendHandshake, HandshakeFails, Connecting, ConnectOK
  <2>2. connected' = connected
    BY <1>8 DEF Dial, SendHandshake, HandshakeFails
  <2>3. QED
    BY <1>2, <2>1, <2>2
<1>9. CASE Disconnected
  BY <1>2, <1>9 DEF Disconnected, Forget
<1>10. ASSUME NEW k \in 0..Len(net), Fill(k)
       PROVE  FramesInOrder'
  <2>1. /\ read_buffer = <<>> /\ read_buffer' = SubSeq(net, 1, k)
        /\ net' = SubSeq(net, k + 1, Len(net)) /\ UNCHANGED <<connected, parsed, sent>>
    BY <1>10 DEF Fill, histVars
  <2>2. read_buffer' \in Seq(Frame) /\ net' \in Seq(Frame) /\ read_buffer' \o net' = net
    BY <2>1, NetTypes
  <2>3. parsed \o read_buffer' \o net' = parsed \o (read_buffer' \o net')
    <3>1. parsed \in Seq(Frame)
      BY <1>0
    <3>2. read_buffer' \in Seq(Frame) /\ net' \in Seq(Frame)
      BY <2>2
    <3>3. QED
      BY <3>1, <3>2, FramesAssociative, Zenon
  <2>4. parsed \o read_buffer = parsed
    BY <1>0, <2>1, ConcatEmptySeq
  <2>5. QED
    BY <2>1, <2>2, <2>3, <2>4 DEF FramesInOrder
<1>11. ASSUME NEW types, Parse(types), UNCHANGED <<connected, net, sent>>
       PROVE  FramesInOrder'
  <2>1. /\ read_buffer # <<>> /\ read_buffer' = Tail(read_buffer)
        /\ parsed' = Append(parsed, Head(read_buffer))
    BY <1>11 DEF Parse
  <2>2. parsed' \o read_buffer' = parsed \o read_buffer
    BY <1>0, <2>1, HeadMoves
  <2>3. QED
    BY <1>11, <2>2 DEF FramesInOrder
<1>12. CASE ReadFragment \/ ReadMessage \/ ReadControl \/ \E k : ReadPing(k)
  BY <1>11, <1>12 DEF ReadFragment, ReadMessage, ReadControl, ReadPing, WriteFrame, remoteVars
<1>13. ASSUME NEW k, FlushFails \/ WriteDone \/ ReadIdle(k) \/ ReadKeepAlive(k) \/ WriteData(k)
       PROVE  FramesInOrder'
  BY <1>1, <1>13 DEF FlushFails, WriteDone, ReadIdle, ReadKeepAlive, WriteData, WriteFrame,
     remoteVars, streamVars, histVars
<1>14. CASE Read \/ Write
  BY <1>9, <1>10, <1>12, <1>13, <1>14 DEF Read, Write
<1>15. QED
  BY <1>4, <1>5, <1>6, <1>7, <1>8, <1>14 DEF Next, Step, Connect, Accept
-----------------------------------------------------------------------------
(* Frames of the stream.                                                   *)

\* The kernel takes the first of what was waiting and one frame more.
LEMMA PutInOrder ==
  ASSUME TypeOK, Written, NEW fs \in Seq(Frame), NEW k, Put(fs, k),
         UNCHANGED <<role, link, connected, connection_epoch>>,
         received \o wbuf = written => received \o fs = written'
  PROVE  Written'
<1>0. received \in Seq(Frame)
  BY Typed
<1>1. /\ k \in 0..Len(fs) /\ (~SocketFull => k = Len(fs))
      /\ SubSeq(fs, 1, k) \in Seq(Frame) /\ wbuf' \in Seq(Frame)
      /\ SubSeq(fs, 1, k) \o wbuf' = fs /\ Len(wbuf') = Len(fs) - k
  BY PutTypes
<1>2. ~SocketFull => wbuf' = <<>>
  <2>1. ~SocketFull => Len(wbuf') = 0
    BY <1>1
  <2>2. QED
    BY <1>1, <2>1, EmptySeq
<1>3. ASSUME link = "open", received \o wbuf = written
      PROVE  received' \o wbuf' = written'
  <2>1. received' = received \o SubSeq(fs, 1, k)
    BY <1>3 DEF Put
  <2>2. SubSeq(fs, 1, k) \in Seq(Frame) /\ wbuf' \in Seq(Frame)
    BY <1>1
  <2>3. received \o SubSeq(fs, 1, k) \o wbuf' = received \o (SubSeq(fs, 1, k) \o wbuf')
    BY <1>0, <2>2, FramesAssociative, Zenon
  <2>4. QED
    BY <1>1, <1>3, <2>1, <2>3
<1>4. QED
  BY <1>2, <1>3 DEF Written, WritesInOrder, First

LEMMA WritesKept ==
  ASSUME TypeOK, LinkOK, ConnectOK, UnusedOK, Written, [Next]_<<role, vars>>
  PROVE  Written'
<1>0. role' = role /\ role \in {"client", "server"}
  BY Typed DEF Next
<1>1. ASSUME UNCHANGED <<wbuf, connected, connection_epoch, received, written>>,
             link' = "open" => link = "open"
      PROVE  Written'
  BY <1>0, <1>1 DEF Written, WritesInOrder, First
<1>2. ASSUME ~connected', wbuf' = wbuf
      PROVE  Written'
  BY <1>2 DEF Written, WritesInOrder
<1>3. CASE Network
  BY <1>1, <1>3 DEF Network, Answer, RemoteSend, RemoteClose, streamVars, histVars
<1>4. CASE Application
  BY <1>1, <1>2, <1>4 DEF Application, CallRead, CallConnect, CallWrite, CallReconnect,
     CallDisconnect, Shutdown, Forget, remoteVars, streamVars, histVars
<1>5. ASSUME NEW k \in 0..Len(net), HandshakeDone(k) \/ AcceptDone(k)
      PROVE  Written'
  <2>1. ~connected
    BY <1>5 DEF HandshakeDone, AcceptDone, Connecting, Accepting, ConnectOK, TypeOK
  <2>2. received' = <<>> /\ written' = <<>> /\ wbuf' = wbuf
    BY <1>5, <2>1 DEF LinkOK, HandshakeDone, AcceptDone, histVars
  <2>3. First' => Unused
    <3>1. CASE HandshakeDone(k)
      <4>1. role = "client" /\ connection_epoch' = connection_epoch + 1
        BY <3>1 DEF HandshakeDone, Connecting, ConnectOK
      <4>2. QED
        BY <1>0, <4>1, Typed DEF First, Unused
    <3>2. CASE AcceptDone(k)
      BY <1>0, <3>2 DEF AcceptDone, Accepting, TypeOK, Unused
    <3>3. QED
      BY <1>5, <3>1, <3>2
  <2>4. First' \/ ~SocketFull => wbuf = <<>>
    BY <2>3 DEF UnusedOK, Written
  <2>5. <<>> \o <<>> = <<>>
    OBVIOUS
  <2>6. QED
    BY <2>2, <2>4, <2>5 DEF Written, WritesInOrder
<1>6. CASE EnterConnected \/ EnterRefused \/ EnterConnect \/ DialFails \/ HandshakeWaits
           \/ AcceptWaits \/ AcceptFails \/ AcceptPanics \/ HandshakePanics
           \/ Gone \/ UNCHANGED vars
  <2>1. UNCHANGED <<wbuf, connected, connection_epoch, received, written, link>>
    BY <1>6 DEF EnterConnected, EnterRefused, EnterConnect, DialFails, HandshakeWaits,
       AcceptWaits, AcceptFails, AcceptPanics,
       HandshakePanics, Gone, vars, remoteVars, streamVars, histVars
  <2>2. QED
    BY <1>1, <2>1
<1>7. CASE Dial \/ SendHandshake \/ HandshakeFails
  <2>1. ~connected
    BY <1>7 DEF Dial, SendHandshake, HandshakeFails, Connecting, ConnectOK
  <2>2. connected' = connected /\ wbuf' = wbuf
    BY <1>7 DEF Dial, SendHandshake, HandshakeFails
  <2>3. QED
    BY <1>2, <2>1, <2>2
<1>8. CASE Disconnected
  BY <1>2, <1>8 DEF Disconnected, Forget
<1>9. ASSUME NEW k, Fill(k) \/ FlushFails \/ WriteDone \/ ReadFragment \/ ReadMessage
                    \/ ReadControl
      PROVE  Written'
  <2>1. UNCHANGED <<wbuf, connected, connection_epoch, received, written, link>>
    BY <1>9 DEF Fill, FlushFails, WriteDone, ReadFragment, ReadMessage, ReadControl, remoteVars,
       streamVars, histVars
  <2>2. QED
    BY <1>1, <2>1
<1>10. ASSUME NEW k, ReadIdle(k)
       PROVE  Written'
  <2>1. /\ Put(wbuf, k) /\ wbuf \in Seq(Frame)
        /\ UNCHANGED <<link, connected, connection_epoch, written>>
    BY <1>10, Typed DEF ReadIdle, histVars
  <2>2. QED
    BY <1>0, <2>1, PutInOrder
<1>11. ASSUME NEW type \in FrameType, NEW k, WriteFrame(type, k)
       PROVE  Written'
  <2>1. PICK f \in Frame : /\ Append(wbuf, f) \in Seq(Frame) /\ Put(Append(wbuf, f), k)
                           /\ written' = Append(written, f)
    BY <1>11, WriteTypes
  <2>2. UNCHANGED <<link, connected, connection_epoch>>
    BY <1>11 DEF WriteFrame
  <2>3. received \o Append(wbuf, f) = Append(received \o wbuf, f)
    <3>1. received \in Seq(Frame) /\ wbuf \in Seq(Frame) /\ received \o wbuf \in Seq(Frame)
      BY Typed, ConcatProperties
    <3>2. /\ Append(wbuf, f) = wbuf \o <<f>> /\ <<f>> \in Seq(Frame)
          /\ Append(received \o wbuf, f) = received \o wbuf \o <<f>>
      BY <3>1, AppendIsConcat
    <3>3. received \o wbuf \o <<f>> = received \o (wbuf \o <<f>>)
      BY <3>1, <3>2, ConcatAssociative
    <3>4. QED
      BY <3>2, <3>3
  <2>4. QED
    BY <1>0, <2>1, <2>2, <2>3, PutInOrder
<1>12. ASSUME NEW k, ReadPing(k) \/ ReadKeepAlive(k) \/ WriteData(k)
       PROVE  Written'
  <2>1. PICK type \in {"ping", "pong", "frag", "last"} : WriteFrame(type, k)
    BY <1>12 DEF ReadPing, ReadKeepAlive, WriteData
  <2>2. QED
    BY <1>11, <2>1 DEF FrameType
<1>13. CASE Read \/ Write
  BY <1>8, <1>9, <1>10, <1>12, <1>13 DEF Read, Write
<1>14. QED
  BY <1>3, <1>4, <1>5, <1>6, <1>7, <1>13 DEF Next, Step, Connect, Accept
-----------------------------------------------------------------------------
(* Messages.                                                               *)

\* The frame that is parsed next has the place in its message that the
\* frames parsed before it leave.
LEMMA NextFrame ==
  ASSUME TypeOK, Numbered, FramesInOrder, connected, read_buffer # <<>>
  PROVE  LET f == Head(read_buffer) IN
         /\ f.epoch = connection_epoch
         /\ f.msg = Cardinality(Lasts(parsed, Len(parsed))) + 1
         /\ f.part = Cardinality(Fragments(parsed, Len(parsed))) + 1
<1> DEFINE pr == parsed \o read_buffer
           n  == Len(parsed) + 1
<1>1. /\ parsed \in Seq(Frame) /\ read_buffer \in Seq(Frame) /\ net \in Seq(Frame)
      /\ sent = pr \o net
  BY Typed DEF FramesInOrder
<1>2. /\ Len(parsed) \in Nat /\ Len(read_buffer) \in Nat /\ Len(net) \in Nat
      /\ Len(read_buffer) >= 1
  BY <1>1
<1>3. /\ pr \in Seq(Frame) /\ Len(pr) = Len(parsed) + Len(read_buffer)
      /\ \A i \in 1..Len(parsed) : pr[i] = parsed[i]
      /\ pr[n] = Head(read_buffer)
  BY <1>1, <1>2
<1>4. /\ Len(sent) = Len(pr) + Len(net) /\ DOMAIN sent = 1..Len(sent)
      /\ \A i \in 1..Len(pr) : sent[i] = pr[i]
  <2>1. pr \in Seq(Frame) /\ net \in Seq(Frame) /\ sent = pr \o net
    BY <1>1, <1>3
  <2> HIDE DEF pr
  <2>2. QED
    BY <2>1
<1> HIDE DEF pr
<1>5. n \in DOMAIN sent /\ n - 1 = Len(parsed) /\ n \in 1..Len(pr)
  BY <1>2, <1>3, <1>4
<1>6. sent[n] = Head(read_buffer)
  BY <1>3, <1>4, <1>5
<1>7. \A i \in 1..Len(parsed) : sent[i] = parsed[i]
  BY <1>2, <1>3, <1>4
<1>8. /\ Lasts(sent, Len(parsed)) = Lasts(parsed, Len(parsed))
      /\ Fragments(sent, Len(parsed)) = Fragments(parsed, Len(parsed))
  BY <1>2, <1>7, CountPrefix
<1>9. Epoch = connection_epoch
  BY DEF Epoch
<1>10. /\ sent[n].epoch = Epoch
       /\ sent[n].msg = Cardinality(Lasts(sent, n - 1)) + 1
       /\ sent[n].part = Cardinality(Fragments(sent, n - 1)) + 1
  BY <1>5 DEF Numbered
<1>11. QED
  BY <1>5, <1>6, <1>8, <1>9, <1>10

\* What the parsing of one frame does to the counts.
LEMMA CountAppend ==
  ASSUME NEW s \in Seq(Frame), NEW f \in Frame, NEW t, t = Append(s, f)
  PROVE  /\ f.type = "last" =>
              /\ Cardinality(Lasts(t, Len(t))) = Cardinality(Lasts(s, Len(s))) + 1
              /\ Cardinality(Fragments(t, Len(t))) = 0
         /\ f.type = "frag" =>
              /\ Cardinality(Lasts(t, Len(t))) = Cardinality(Lasts(s, Len(s)))
              /\ Cardinality(Fragments(t, Len(t))) = Cardinality(Fragments(s, Len(s))) + 1
         /\ f.type \notin {"frag", "last"} =>
              /\ Cardinality(Lasts(t, Len(t))) = Cardinality(Lasts(s, Len(s)))
              /\ Cardinality(Fragments(t, Len(t))) = Cardinality(Fragments(s, Len(s)))
<1>1. /\ Len(s) \in Nat /\ Len(t) = Len(s) + 1 /\ t[Len(s) + 1] = f
      /\ \A i \in 1..Len(s) : t[i] = s[i]
  OBVIOUS
<1>2. Lasts(t, Len(s)) = Lasts(s, Len(s)) /\ Fragments(t, Len(s)) = Fragments(s, Len(s))
  BY <1>1, CountPrefix
<1>3. /\ t[Len(s) + 1].type = "last" =>
           /\ Cardinality(Lasts(t, Len(s) + 1)) = Cardinality(Lasts(t, Len(s))) + 1
           /\ Cardinality(Fragments(t, Len(s) + 1)) = 0
      /\ t[Len(s) + 1].type = "frag" =>
           /\ Cardinality(Lasts(t, Len(s) + 1)) = Cardinality(Lasts(t, Len(s)))
           /\ Cardinality(Fragments(t, Len(s) + 1)) = Cardinality(Fragments(t, Len(s))) + 1
      /\ t[Len(s) + 1].type \notin {"frag", "last"} =>
           /\ Cardinality(Lasts(t, Len(s) + 1)) = Cardinality(Lasts(t, Len(s)))
           /\ Cardinality(Fragments(t, Len(s) + 1)) = Cardinality(Fragments(t, Len(s)))
  <2>1. Len(s) \in Nat
    OBVIOUS
  <2>2. QED
    BY <2>1, CountNext, Zenon
<1>4. QED
  BY <1>1, <1>2, <1>3

\* Nothing is returned, and no frame of a message is parsed.
LEMMA AssembledFrame ==
  ASSUME TypeOK, Assembled, UNCHANGED <<role, delivered, connection_epoch>>,
         ~connected' \/
           /\ connected /\ continuation_buffer' = continuation_buffer
           /\ Cardinality(Lasts(parsed, Len(parsed)))' = Cardinality(Lasts(parsed, Len(parsed)))
           /\ Cardinality(Fragments(parsed, Len(parsed)))'
                = Cardinality(Fragments(parsed, Len(parsed)))
  PROVE  Assembled'
<1>1. \A i \in DOMAIN delivered' : delivered'[i].epoch <= connection_epoch'
  BY DEF Assembled
<1>2. CASE ~connected'
  BY <1>1, <1>2 DEF Assembled
<1>3. CASE connected'
  <2>1. Returned(connection_epoch)' = Returned(connection_epoch)
    BY DEF Returned
  <2>2. First' = First
    BY DEF First
  <2>3. QED
    BY <1>1, <1>3, <2>1, <2>2 DEF Assembled
<1>4. QED
  BY <1>2, <1>3

LEMMA MessagesFrame ==
  ASSUME UNCHANGED <<role, delivered>>, First' => First
  PROVE  /\ MessagesInOrder => MessagesInOrder'
         /\ (First => MessageIntegrity) => (First' => MessageIntegrity')
BY DEF MessagesInOrder, MessageIntegrity

LEMMA DeliveredTypes ==
  ASSUME TypeOK
  PROVE  \A i \in DOMAIN delivered : /\ delivered[i].epoch \in Nat
                                     /\ delivered[i].frames \in Seq(Frame)
<1>1. delivered \in Seq(Message)
  BY Typed
<1>2. \A i \in DOMAIN delivered : delivered[i] \in Message
  BY <1>1
<1>3. \A m \in Message : m.epoch \in Nat /\ m.frames \in Seq(Frame)
  BY DEF Message
<1>4. QED
  BY <1>2, <1>3

\* A new connection begins with nothing parsed.
LEMMA ConnectedAssembles ==
  ASSUME TypeOK, LinkOK, ConnectOK, UnusedOK, Assembled, role' = role,
         NEW k \in 0..Len(net), HandshakeDone(k) \/ AcceptDone(k)
  PROVE  Assembled' /\ UNCHANGED delivered /\ (First' => First)
<1>0. role \in {"client", "server"} /\ connection_epoch \in Nat
  BY Typed
<1>1. ~connected
  BY DEF HandshakeDone, AcceptDone, Connecting, Accepting, ConnectOK, TypeOK
<1>2. parsed' = <<>> /\ UNCHANGED <<delivered, continuation_buffer>>
  BY <1>1 DEF LinkOK, HandshakeDone, AcceptDone, histVars
<1>3. \/ role = "client" /\ connection_epoch' = connection_epoch + 1
      \/ role = "server" /\ connection_epoch' = connection_epoch /\ Unused
  <2>1. CASE HandshakeDone(k)
    BY <2>1 DEF HandshakeDone, Connecting, ConnectOK
  <2>2. CASE AcceptDone(k)
    BY <1>0, <2>2 DEF AcceptDone, Accepting, TypeOK, Unused
  <2>3. QED
    BY <2>1, <2>2
<1>4. First' => First /\ Unused
  BY <1>0, <1>3 DEF First, Unused, TypeOK
<1>5. /\ \A i \in DOMAIN delivered : delivered[i].epoch \in Nat
      /\ \A i \in DOMAIN delivered : delivered[i].epoch <= connection_epoch
  BY DeliveredTypes DEF Assembled
<1>6. \A i \in DOMAIN delivered' : /\ delivered'[i].epoch <= connection_epoch'
                                   /\ delivered'[i].epoch # connection_epoch'
  <2>1. CASE Unused
    BY <1>2, <2>1 DEF UnusedOK
  <2>2. CASE ~Unused
    BY <1>0, <1>2, <1>3, <1>5, <2>2
  <2>3. QED
    BY <2>1, <2>2
<1>7. Cardinality(Returned(connection_epoch))' = 0
  <2>1. Returned(connection_epoch)' = {}
    BY <1>6 DEF Returned
  <2>2. QED
    BY <2>1, FS_EmptySet
<1>8. /\ Cardinality(Lasts(parsed, Len(parsed)))' = 0
      /\ Cardinality(Fragments(parsed, Len(parsed)))' = 0
  <2>1. Len(<<>>) = 0
    OBVIOUS
  <2>2. QED
    BY <1>2, <2>1, CountNone
<1>9. First' => continuation_buffer' = <<>>
  BY <1>2, <1>4 DEF UnusedOK
<1>10. QED
  BY <1>2, <1>4, <1>6, <1>7, <1>8, <1>9 DEF Assembled

\* A fragment joins those of its message.
LEMMA FragmentAssembles ==
  ASSUME TypeOK, Numbered, FramesInOrder, Assembled, ReadFragment, UNCHANGED role
  PROVE  Assembled'
<1> DEFINE f  == Head(read_buffer)
           cb == continuation_buffer
           L  == Cardinality(Lasts(parsed, Len(parsed)))
           F  == Cardinality(Fragments(parsed, Len(parsed)))
<1>1. /\ read_buffer # <<>> /\ f.type = "frag" /\ parsed' = Append(parsed, f)
      /\ cb' = Append(cb, f) /\ UNCHANGED <<connected, connection_epoch, delivered>> /\ connected
  BY DEF ReadFragment, Parse, Reading, TypeOK
<1>2. /\ f \in Frame /\ parsed \in Seq(Frame) /\ cb \in Seq(Frame) /\ Len(cb) \in Nat
  BY <1>1, Typed, ParseTypes
<1>3. f.epoch = connection_epoch /\ f.msg = L + 1 /\ f.part = F + 1
  BY <1>1, NextFrame
<1>4. /\ Cardinality(Lasts(parsed', Len(parsed'))) = L
      /\ Cardinality(Fragments(parsed', Len(parsed'))) = F + 1
  BY <1>1, <1>2, CountAppend
<1>5. /\ Len(cb') = Len(cb) + 1 /\ cb'[Len(cb) + 1] = f /\ DOMAIN cb' = 1..(Len(cb) + 1)
      /\ DOMAIN cb = 1..Len(cb) /\ \A p \in 1..Len(cb) : cb'[p] = cb[p]
  <2> HIDE DEF f
  <2>1. QED
    BY <1>1, <1>2
<1>6. ASSUME First
      PROVE  /\ Len(cb') = F + 1
             /\ \A p \in DOMAIN cb' : /\ cb'[p].epoch = connection_epoch
                                      /\ cb'[p].msg = L + 1 /\ cb'[p].part = p
  <2>1. /\ Len(cb) = F
        /\ \A p \in DOMAIN cb : /\ cb[p].epoch = connection_epoch
                                /\ cb[p].msg = L + 1 /\ cb[p].part = p
    BY <1>1, <1>6 DEF Assembled
  <2> HIDE DEF f, L, F
  <2>2. \A p \in 1..(Len(cb) + 1) : p \in 1..Len(cb) \/ p = Len(cb) + 1
    BY <1>2
  <2>3. QED
    BY <1>3, <1>5, <2>1, <2>2
<1>7. /\ Returned(connection_epoch)' = Returned(connection_epoch) /\ (First' => First)
      /\ \A i \in DOMAIN delivered : delivered[i].epoch <= connection_epoch
      /\ Cardinality(Returned(connection_epoch)) = L
  BY <1>1 DEF Returned, First, Assembled
<1>8. QED
  BY <1>1, <1>4, <1>6, <1>7 DEF Assembled

\* The last frame of a message makes it whole.
LEMMA MessageAssembles ==
  ASSUME TypeOK, Numbered, FramesInOrder, Assembled, MessagesInOrder, First => MessageIntegrity,
         ReadMessage, UNCHANGED role
  PROVE  Assembled' /\ MessagesInOrder' /\ (First' => MessageIntegrity')
<1> DEFINE f  == Head(read_buffer)
           e  == connection_epoch
           cb == continuation_buffer
           fs == Append(cb, f)
           m  == [epoch |-> e, frames |-> fs]
           n  == Len(delivered) + 1
           L  == Cardinality(Lasts(parsed, Len(parsed)))
           F  == Cardinality(Fragments(parsed, Len(parsed)))
<1>1. /\ read_buffer # <<>> /\ f.type = "last" /\ parsed' = Append(parsed, f) /\ connected
      /\ delivered' = Append(delivered, m) /\ cb' = <<>> /\ UNCHANGED <<connected, connection_epoch>>
  BY DEF ReadMessage, Parse, Reading, TypeOK
<1>2. /\ f \in Frame /\ parsed \in Seq(Frame) /\ cb \in Seq(Frame) /\ Len(cb) \in Nat
      /\ delivered \in Seq(Message) /\ Len(delivered) \in Nat /\ e \in Nat
  BY <1>1, Typed, ParseTypes
<1>3. f.epoch = e /\ f.msg = L + 1 /\ f.part = F + 1
  BY <1>1, NextFrame
<1>4. /\ Cardinality(Lasts(parsed', Len(parsed'))) = L + 1
      /\ Cardinality(Fragments(parsed', Len(parsed'))) = 0
  BY <1>1, <1>2, CountAppend
<1>5. /\ Len(fs) = Len(cb) + 1 /\ fs[Len(cb) + 1] = f /\ DOMAIN fs = 1..(Len(cb) + 1)
      /\ \A p \in 1..Len(cb) : fs[p] = cb[p]
  <2> HIDE DEF f
  <2>1. QED
    BY <1>2
<1>6. Last(fs) = f
  BY <1>5 DEF Last
<1>7. m.epoch = e /\ m.frames = fs
  OBVIOUS
<1>8. /\ DOMAIN delivered = 1..Len(delivered) /\ DOMAIN delivered' = 1..n
      /\ delivered'[n] = m /\ \A i \in 1..Len(delivered) : delivered'[i] = delivered[i]
  <2> HIDE DEF m
  <2>1. QED
    BY <1>1, <1>2
<1> HIDE DEF f, fs, m, L, F
<1>9. \A i \in 1..n : i \in 1..Len(delivered) \/ i = n
  BY <1>2
<1>10. Returned(e) \subseteq 1..Len(delivered) /\ n \notin 1..Len(delivered)
  BY <1>2, <1>8 DEF Returned
<1>11. Returned(e)' = Returned(e) \cup {n}
  <2>1. n \in 1..n /\ 1..Len(delivered) \subseteq 1..n
    BY <1>2
  <2>2. QED
    BY <1>1, <1>7, <1>8, <1>9, <2>1 DEF Returned
<1>12. Cardinality(Returned(e)) = L /\ \A i \in DOMAIN delivered : delivered[i].epoch <= e
  BY <1>1 DEF Assembled, L
<1>13. Cardinality(Returned(e)') = L + 1
  <2>1. IsFiniteSet(1..Len(delivered))
    BY <1>2, FS_Interval
  <2>2. IsFiniteSet(Returned(e))
    BY <1>10, <2>1, FS_Subset
  <2>3. Cardinality(Returned(e) \cup {n}) = Cardinality(Returned(e)) + 1
    BY <1>10, <2>2, FS_AddElement
  <2>4. QED
    BY <1>11, <1>12, <2>3
<1>14. Assembled'
  <2>1. \A i \in DOMAIN delivered' : delivered'[i].epoch <= e
    BY <1>2, <1>7, <1>8, <1>9, <1>12
  <2>2. Len(<<>>) = 0 /\ DOMAIN <<>> = {}
    OBVIOUS
  <2>3. QED
    BY <1>1, <1>4, <1>13, <2>1, <2>2 DEF Assembled
<1>15. MessagesInOrder'
  <2>1. ASSUME NEW i \in 1..Len(delivered)
        PROVE  {j \in 1..i : delivered'[j].epoch = delivered'[i].epoch}
                 = {j \in 1..i : delivered[j].epoch = delivered[i].epoch}
    <3>1. 1..i \subseteq 1..Len(delivered)
      BY <1>2
    <3>2. QED
      BY <1>8, <3>1
  <2>2. ASSUME NEW i \in 1..Len(delivered)
        PROVE  LET l == Last(delivered'[i].frames) IN
               /\ l.epoch = delivered'[i].epoch
               /\ l.msg = Cardinality({j \in 1..i : delivered'[j].epoch = delivered'[i].epoch})
    BY <1>8, <2>1 DEF MessagesInOrder
  <2>3. {j \in 1..n : delivered'[j].epoch = delivered'[n].epoch} = Returned(e)'
    BY <1>1, <1>7, <1>8 DEF Returned
  <2>4. LET l == Last(delivered'[n].frames) IN
        /\ l.epoch = delivered'[n].epoch
        /\ l.msg = Cardinality({j \in 1..n : delivered'[j].epoch = delivered'[n].epoch})
    BY <1>3, <1>6, <1>7, <1>8, <1>13, <2>3
  <2>5. QED
    BY <1>8, <1>9, <2>2, <2>4 DEF MessagesInOrder
<1>16. ASSUME First'
       PROVE  MessageIntegrity'
  <2>1. First
    BY <1>1, <1>16 DEF First
  <2>2. ASSUME NEW p \in DOMAIN fs
        PROVE  fs[p].epoch = e /\ fs[p].msg = f.msg /\ fs[p].part = p
    <3>1. /\ Len(cb) = F
          /\ \A q \in DOMAIN cb : cb[q].epoch = e /\ cb[q].msg = L + 1 /\ cb[q].part = q
      BY <1>1, <2>1 DEF Assembled, L, F
    <3>2. CASE p = Len(cb) + 1
      BY <1>3, <1>5, <3>1, <3>2
    <3>3. CASE p # Len(cb) + 1
      <4>1. p \in 1..Len(cb) /\ DOMAIN cb = 1..Len(cb)
        BY <1>2, <1>5, <3>3
      <4>2. QED
        BY <1>3, <1>5, <3>1, <4>1
    <3>4. QED
      BY <3>2, <3>3
  <2>3. QED
    BY <1>6, <1>7, <1>8, <1>9, <2>1, <2>2 DEF MessageIntegrity
<1>17. QED
  BY <1>14, <1>15, <1>16

LEMMA MessagesKept ==
  ASSUME TypeOK, LinkOK, ConnectOK, UnusedOK, Numbered, FramesInOrder, Assembled,
         MessagesInOrder, First => MessageIntegrity, [Next]_<<role, vars>>
  PROVE  Assembled' /\ MessagesInOrder' /\ (First' => MessageIntegrity')
<1> DEFINE Kept == Assembled' /\ MessagesInOrder' /\ (First' => MessageIntegrity')
<1>0. role' = role
  BY DEF Next
<1>1. ASSUME UNCHANGED <<delivered, connection_epoch>>,
             ~connected' \/ UNCHANGED <<connected, parsed, continuation_buffer>>
      PROVE  Kept
  <2>1. First' = First
    BY <1>0, <1>1 DEF First
  <2>2. CASE ~connected'
    BY <1>0, <1>1, <2>1, <2>2, AssembledFrame, MessagesFrame
  <2>3. CASE connected' /\ UNCHANGED <<connected, parsed, continuation_buffer>>
    <3>1. /\ Cardinality(Lasts(parsed, Len(parsed)))' = Cardinality(Lasts(parsed, Len(parsed)))
          /\ Cardinality(Fragments(parsed, Len(parsed)))'
               = Cardinality(Fragments(parsed, Len(parsed)))
      BY <2>3 DEF Lasts, Fragments
    <3>2. QED
      BY <1>0, <1>1, <2>1, <2>3, <3>1, AssembledFrame, MessagesFrame
  <2>4. QED
    BY <1>1, <2>2, <2>3
<1>2. ASSUME Parse({"pong", "empty ping", "empty close", "ping"}),
             UNCHANGED <<delivered, connection_epoch, connected, continuation_buffer>>
      PROVE  Kept
  <2>1. /\ read_buffer # <<>> /\ Head(read_buffer).type \notin {"frag", "last"}
        /\ parsed' = Append(parsed, Head(read_buffer)) /\ connected
    BY <1>2 DEF Parse, Reading, TypeOK
  <2>2. Head(read_buffer) \in Frame /\ parsed \in Seq(Frame)
    BY <2>1, Typed, ParseTypes
  <2>3. /\ Cardinality(Lasts(parsed, Len(parsed)))' = Cardinality(Lasts(parsed, Len(parsed)))
        /\ Cardinality(Fragments(parsed, Len(parsed)))'
             = Cardinality(Fragments(parsed, Len(parsed)))
    BY <2>1, <2>2, CountAppend
  <2>4. First' = First
    BY <1>0, <1>2 DEF First
  <2>5. QED
    BY <1>0, <1>2, <2>1, <2>3, <2>4, AssembledFrame, MessagesFrame
<1>3. ASSUME NEW k \in 0..Len(net), HandshakeDone(k) \/ AcceptDone(k)
      PROVE  Kept
  BY <1>0, <1>3, ConnectedAssembles, MessagesFrame
<1>4. CASE ReadFragment
  <2>1. Assembled'
    BY <1>0, <1>4, FragmentAssembles
  <2>2. UNCHANGED <<delivered, connection_epoch>>
    BY <1>4 DEF ReadFragment
  <2>3. First' => First
    BY <1>0, <2>2 DEF First
  <2>4. QED
    BY <1>0, <2>1, <2>2, <2>3, MessagesFrame
<1>5. CASE ReadMessage
  BY <1>0, <1>5, MessageAssembles
<1>6. CASE Network
  BY <1>1, <1>6 DEF Network, Answer, RemoteSend, RemoteClose, streamVars, histVars
<1>7. CASE Application
  BY <1>1, <1>7 DEF Application, CallRead, CallConnect, CallWrite, CallReconnect,
     CallDisconnect, Shutdown, Forget, remoteVars, streamVars, histVars
<1>8. CASE EnterConnected \/ EnterRefused \/ EnterConnect \/ DialFails \/ HandshakeWaits
           \/ AcceptWaits \/ AcceptFails \/ AcceptPanics \/ HandshakePanics
           \/ Gone \/ UNCHANGED vars
  <2>1. UNCHANGED <<connected, parsed, continuation_buffer, delivered, connection_epoch>>
    BY <1>8 DEF EnterConnected, EnterRefused, EnterConnect, DialFails, HandshakeWaits,
       AcceptWaits, AcceptFails, AcceptPanics,
       HandshakePanics, Gone, vars, remoteVars, streamVars, histVars
  <2>2. QED
    BY <1>1, <2>1
<1>9. CASE Dial \/ SendHandshake \/ HandshakeFails
  <2>1. ~connected
    BY <1>9 DEF Dial, SendHandshake, HandshakeFails, Connecting, ConnectOK
  <2>2. UNCHANGED <<connected, delivered, connection_epoch>>
    BY <1>9 DEF Dial, SendHandshake, HandshakeFails, histVars
  <2>3. QED
    BY <1>1, <2>1, <2>2
<1>10. CASE Disconnected
  BY <1>1, <1>10 DEF Disconnected, Forget
<1>11. ASSUME NEW k, Fill(k) \/ ReadIdle(k) \/ ReadKeepAlive(k) \/ WriteData(k)
       PROVE  Kept
  <2>1. UNCHANGED <<connected, parsed, continuation_buffer, delivered, connection_epoch>>
    BY <1>11 DEF Fill, ReadIdle, ReadKeepAlive, WriteData, WriteFrame, histVars
  <2>2. QED
    BY <1>1, <2>1
<1>12. CASE FlushFails \/ WriteDone
  BY <1>1, <1>12 DEF FlushFails, WriteDone, streamVars, histVars
<1>13. CASE ReadControl
  BY <1>2, <1>13 DEF ReadControl, Parse, Popped
<1>14. ASSUME NEW k, ReadPing(k)
       PROVE  Kept
  BY <1>2, <1>14 DEF ReadPing, Parse, Popped, WriteFrame
<1>15. CASE Read \/ Write
  BY <1>4, <1>5, <1>10, <1>11, <1>12, <1>13, <1>14, <1>15 DEF Read, Write
<1>16. QED
  <2>1. CASE Connect
    BY <1>3, <1>8, <1>9, <2>1 DEF Connect
  <2>2. CASE Accept
    BY <1>3, <1>8, <2>2 DEF Accept
  <2>3. CASE UNCHANGED vars
    BY <1>8, <2>3
  <2>4. QED
    BY <1>6, <1>7, <1>8, <1>15, <2>1, <2>2, <2>3 DEF Next, Step

-----------------------------------------------------------------------------
(* The theorems.                                                           *)

LEMMA InitStream == Init => StreamInv
<1> SUFFICES ASSUME Init
             PROVE  StreamInv
  OBVIOUS
<1>1. /\ role \in {"client", "server"} /\ ~connected /\ ~late /\ connection_epoch = 1
      /\ sent = <<>> /\ net = <<>> /\ received = <<>> /\ parsed = <<>> /\ written = <<>>
      /\ delivered = <<>> /\ continuation_buffer = <<>> /\ wbuf = <<>>
      /\ pc = "enter" /\ call \in {"connect", "accept"}
      /\ link = IF role = "client" THEN "none" ELSE "open"
      /\ handshake = IF role = "client" THEN "None" ELSE "WaitRequest"
  BY StreamAssumption, Zenon DEF Init
<1>2. TypeOK
  BY InitTypes
<1>3. LinkOK
  BY <1>1 DEF LinkOK
<1>4. UnusedOK /\ ConnectOK /\ LateOK
  BY <1>1 DEF UnusedOK, ConnectOK, LateOK
<1>5. DOMAIN <<>> = {}
  OBVIOUS
<1>6. Numbered /\ Assembled /\ MessagesInOrder /\ MessageIntegrity
  BY <1>1, <1>5 DEF Numbered, Assembled, MessagesInOrder, MessageIntegrity
<1>7. FramesInOrder /\ Written
  BY <1>1 DEF FramesInOrder, Written, WritesInOrder
<1>8. QED
  BY <1>2, <1>3, <1>4, <1>6, <1>7 DEF StreamInv

LEMMA NextStream == StreamInv /\ [Next]_<<role, vars>> => StreamInv'
<1> SUFFICES ASSUME StreamInv, [Next]_<<role, vars>>
             PROVE  StreamInv'
  OBVIOUS
<1>1. /\ TypeOK /\ LinkOK /\ UnusedOK /\ ConnectOK /\ LateOK
      /\ Numbered /\ FramesInOrder /\ Assembled /\ Written
      /\ MessagesInOrder /\ (First => MessageIntegrity)
  BY DEF StreamInv
<1>2. TypeOK' /\ LinkOK' /\ ConnectOK'
  BY <1>1, TypesKept, ConnectionKept, CallsKept
<1>3. UnusedOK' /\ LateOK'
  BY <1>1, UnusedKept, LateKept
<1>4. Numbered' /\ FramesInOrder' /\ Written'
  BY <1>1, NumbersKept, FramesKept, WritesKept
<1>5. Assembled' /\ MessagesInOrder' /\ (First' => MessageIntegrity')
  BY <1>1, MessagesKept
<1>6. QED
  BY <1>2, <1>3, <1>4, <1>5 DEF StreamInv

\* The inductive invariant: what the buffers, the counters and the calls of
\* a stream have to do with the connection it has, opens, or has lost.
THEOREM StreamInvariance == Spec => []StreamInv
<1>1. QED
  BY InitStream, NextStream, PTL DEF Spec

\* Once a handshake is done, the frames the remote side sends on the
\* connection are parsed once and in order, those that came with the
\* handshake response included (ws_stream.rs:195-197).  Whether the response
\* is read in spite of these, the theorem does not say: HandshakePanics is
\* the step in which it is not, and it leaves no connection.
THEOREM FramesComeInOrder == Spec => []FramesInOrder
<1>1. StreamInv => FramesInOrder
  BY DEF StreamInv
<1>2. QED
  BY <1>1, StreamInvariance, PTL

\* read() returns the messages of an epoch in order, from the first on
\* (ws_stream.rs:815).
THEOREM MessagesComeInOrder == Spec => []MessagesInOrder
<1>1. StreamInv => MessagesInOrder
  BY DEF StreamInv
<1>2. QED
  BY <1>1, StreamInvariance, PTL

\* Until a client has lost its first connection and has another, and on a
\* server always, a message is the concatenation of its own fragments
\* (ws_stream.rs:743).  Nothing clears the continuation_buffer when a
\* connection is lost, so it is not so on a later one.
THEOREM MessagesComeWhole == Spec => [](First => MessageIntegrity)
<1>1. StreamInv => (First => MessageIntegrity)
  BY DEF StreamInv
<1>2. QED
  BY <1>1, StreamInvariance, PTL

\* What is written goes to the remote side in order through the one
\* WriteBuffer, on the first connection or if the kernel takes what it is
\* given: the frames that it did not take outlive their connection
\* (ws_stream.rs:194).
THEOREM WritesGoInOrder == Spec => [](First \/ ~SocketFull => WritesInOrder)
<1>1. StreamInv => (First \/ ~SocketFull => WritesInOrder)
  BY DEF StreamInv, Written
<1>2. QED
  BY <1>1, StreamInvariance, PTL

\* A call that begins after shutdown() returns no message, sends no frame and
\* opens no connection (ws_stream.rs:537, 600-620).
THEOREM ShutdownIsSilent == Spec => ShutdownSilences
<1> DEFINE Silent == /\ delivered' = delivered
                     /\ Len(written') <= Len(written)
                     /\ Len(received') <= Len(received)
                     /\ ~(link = "none" /\ link' = "open")
<1>1. ASSUME StreamInv, [Next]_<<role, vars>>, late, call # "none"
      PROVE  Silent
  <2>1. ~alive /\ pc # "connect" /\ TypeOK
    BY <1>1 DEF StreamInv, LateOK
  <2>2. Len(written) \in Nat /\ Len(received) \in Nat
    BY <2>1, Typed
  <2>3. ASSUME UNCHANGED <<delivered, written, received>>, link # "none" \/ link' = link
        PROVE  Silent
    BY <2>2, <2>3
  <2>4. CASE Network
    BY <2>3, <2>4 DEF Network, Answer, RemoteSend, RemoteClose, histVars
  <2>5. ~Application
    BY <1>1, <2>1 DEF Application, CallRead, CallConnect, CallWrite, CallReconnect,
       CallDisconnect, Shutdown, Begin
  <2>6. CASE Connect
    <3>1. EnterConnected \/ EnterRefused
      BY <2>1, <2>6 DEF Connect, EnterConnect, CheckAlive, Dial, DialFails, SendHandshake,
         HandshakeFails, HandshakeWaits, HandshakePanics, HandshakeDone, Connecting
    <3>2. QED
      BY <2>3, <3>1 DEF EnterConnected, EnterRefused, remoteVars, histVars
  <2>7. CASE Accept
    BY <2>3, <2>7 DEF Accept, AcceptWaits, AcceptFails, AcceptPanics, AcceptDone, AnswerSent,
       remoteVars, histVars
  <2>8. CASE Read \/ Write
    <3>1. CASE Forget /\ UNCHANGED delivered
      <4>1. Len(<<>>) = 0
        OBVIOUS
      <4>2. QED
        BY <2>2, <3>1, <4>1 DEF Forget, DropLink
    <3>2. CASE FlushFails \/ WriteDone
      BY <2>3, <3>2 DEF FlushFails, WriteDone, remoteVars, histVars
    <3>3. QED
      BY <2>1, <2>8, <3>1, <3>2, RunningSteps
  <2>9. CASE Gone \/ UNCHANGED <<role, vars>>
    BY <2>3, <2>9 DEF Gone, vars, remoteVars, histVars
  <2>10. QED
    BY <1>1, <2>4, <2>5, <2>6, <2>7, <2>8, <2>9 DEF Next, Step
<1>2. ASSUME StreamInv, [Next]_<<role, vars>>
      PROVE  [late /\ call # "none" => Silent]_vars
  BY <1>1, <1>2
<1>3. QED
  BY <1>2, StreamInvariance, PTL DEF Spec, ShutdownSilences

\* Only connect(), or a client with auto_reconnect, opens a connection
\* (ws_stream.rs:213-216).
THEOREM DialsWhenAsked == Spec => DialsOnRequest
<1>1. ASSUME StreamInv, [Next]_<<role, vars>>
      PROVE  link = "none" /\ link' = "open" => (AutoReconnect /\ role = "client") \/ call = "connect"
  <2> SUFFICES ASSUME link = "none", link' = "open"
               PROVE  (AutoReconnect /\ role = "client") \/ call = "connect"
    OBVIOUS
  <2>1. link' # link /\ link' # "closed" /\ link' # "none"
    OBVIOUS
  <2>2. ~Network
    BY <2>1 DEF Network, Answer, RemoteSend, RemoteClose
  <2>3. ~Application
    BY <2>1 DEF Application, CallRead, CallConnect, CallWrite, CallReconnect, CallDisconnect,
       Shutdown, Forget, DropLink, remoteVars
  <2>4. ~(Read \/ Write)
    BY <1>1, <2>1, RunningSteps DEF StreamInv, Forget, DropLink
  <2>5. ~Accept /\ ~Gone /\ ~UNCHANGED <<role, vars>>
    BY <2>1 DEF Accept, AcceptWaits, AcceptFails, AcceptPanics, AcceptDone, AnswerSent, Gone, vars,
       remoteVars
  <2>6. Dial
    <3>1. Connect
      BY <1>1, <2>2, <2>3, <2>4, <2>5 DEF Next, Step
    <3>2. QED
      BY <2>1, <3>1 DEF Connect, EnterConnected, EnterRefused, EnterConnect, DialFails,
         SendHandshake, HandshakeFails, HandshakeWaits, HandshakePanics, HandshakeDone,
         DropLink, remoteVars
  <2>7. ConnectOK
    BY <1>1 DEF StreamInv
  <2>8. QED
    BY <2>6, <2>7 DEF Dial, Connecting, ConnectOK
<1>2. ASSUME StreamInv, [Next]_<<role, vars>>
      PROVE  [link = "none" /\ link' = "open"
                => (AutoReconnect /\ role = "client") \/ call = "connect"]_vars
  BY <1>1, <1>2
<1>3. QED
  BY <1>2, StreamInvariance, PTL DEF Spec, DialsOnRequest
=============================================================================
