-------------------------- MODULE HttpClientProofs --------------------------
(***************************************************************************)
(* Proofs, for any threads and connections and whatever the times and      *)
(* bounds, that no two calls of the blocking client share a connection,    *)
(* that each gets the response to its own request, and that no request is  *)
(* written again because its response is slow.                             *)
(*                                                                         *)
(* OwnResponse rests on what is under way on each connection: a pooled one *)
(* is quiet, so what arrives after a request is written is the response.   *)
(***************************************************************************)
EXTENDS HttpClient, SequenceTheorems, WellFoundedInduction, TLAPS

\* The responses, or beginnings of them, that wait to be read on c.
Waiting(c) == {i \in DOMAIN outbox[c] : outbox[c][i].kind # "chunks"}

\* Nothing is under way on c that a call could take for a response.
Quiet(c) == inbox[c] = <<>> /\ Waiting(c) = {}

\* Of what is under way on c, the request r or its response is the only one.
Carries(c, r) ==
  \/ inbox[c] = <<r>> /\ Waiting(c) = {}
  \/ /\ inbox[c] = <<>>
     /\ \A i \in Waiting(c) : outbox[c][i].req = r /\ Waiting(c) = {i}

\* A connection carries the request of the call that reads from it; any
\* other is quiet, the ones in the list among them.
OneRequest ==
  /\ \A t \in Thread : pc[t] = "read" => Carries(conn[t], [thread |-> t, n |-> n[t]])
  /\ \A c \in Conn : Quiet(c) \/ \E t \in Thread : conn[t] = c /\ pc[t] = "read"
  /\ \A c \in Conn : \A i \in DOMAIN body[c] : body[c][i].kind = "chunks"

\* A read times out no earlier than the call, so a call that goes on after
\* its last read timed out has no time left.
Timely ==
  \A t \in Thread :
    /\ pc[t] \in {"write", "read"} => left[t] <= timeout[t]
    /\ pc[t] = "read" => left[t] <= wait[t]
    /\ pc[t] \in {"get", "connect", "send"} /\ lost[t] = "silent" => left[t] = 0

ClientInv == TypeOK /\ Exclusive /\ OneRequest /\ OwnResponse /\ Timely /\ NoResendOnTimeout

-----------------------------------------------------------------------------
(* Lists and what leaves them.                                             *)

\* A set of positions of a sequence has a greatest one.
LEMMA GreatestPosition ==
  ASSUME NEW len \in Nat, NEW I \in SUBSET (1..len), I # {}
  PROVE  Max(I) \in I
<1> DEFINE T == {len - i : i \in I}
<1>1. \A i \in I : i \in Nat /\ i >= 1 /\ i <= len
  OBVIOUS
<1>2. T \subseteq Nat
  BY <1>1
<1>3. T # {}
  OBVIOUS
<1>4. PICK x \in T : \A y \in T : <<y, x>> \notin OpToRel(<, Nat)
  BY <1>2, <1>3, NatLessThanWellFounded, WFMin, Zenon
<1>5. \A y \in T : ~(y < x)
  BY <1>2, <1>4 DEF OpToRel
<1>6. PICK i \in I : x = len - i
  OBVIOUS
<1>7. ASSUME NEW j \in I
      PROVE  i >= j
  <2>1. ~(len - j < len - i)
    BY <1>5, <1>6
  <2>2. QED
    BY <1>1, <2>1
<1>8. QED
  BY <1>6, <1>7 DEF Max

\* pop() looks for an entry at a place of the list, or finds none.
LEMMA FreshIndexPlace ==
  ASSUME TypeOK
  PROVE  FreshIndex \in 0..Len(list)
<1>1. list \in Seq(Entry) /\ Len(list) \in Nat
  BY DEF TypeOK
<1> DEFINE I == {i \in 1..Len(list) : Fresh(list[i])}
<1>2. FreshIndex = IF I # {} THEN Max(I) ELSE 0
  BY DEF FreshIndex, SelectLastInSeq
<1>3. I # {} => Max(I) \in I
  BY <1>1, GreatestPosition
<1>4. QED
  BY <1>1, <1>2, <1>3

\* The list before one of its entries.
LEMMA TakenProperties ==
  ASSUME TypeOK, NEW i \in 1..Len(list)
  PROVE  /\ Taken(i) \in Seq(Entry)
         /\ Len(Taken(i)) = i - 1
         /\ \A j \in 1..(i - 1) : Taken(i)[j] = list[j]
<1>1. list \in Seq(Entry) /\ Len(list) \in Nat
  BY DEF TypeOK
<1>2. i \in Nat /\ 1 \in Int /\ i - 1 \in Int /\ i - 1 >= 0
  BY <1>1
<1>3. \A j \in 1..(i - 1) : list[j] \in Entry
  BY <1>1, <1>2
<1>4. /\ SubSeq(list, 1, i - 1) \in Seq(Entry)
      /\ Len(SubSeq(list, 1, i - 1)) = IF 1 <= i - 1 THEN i - 1 - 1 + 1 ELSE 0
      /\ \A j \in 1..(i - 1 - 1 + 1) : SubSeq(list, 1, i - 1)[j] = list[1 + j - 1]
  BY <1>2, <1>3, SubSeqProperties
<1>5. QED
  BY <1>2, <1>4 DEF Taken

\* What a place of a concatenation holds.
LEMMA ConcatPlaces ==
  ASSUME NEW S, NEW s \in Seq(S), NEW t \in Seq(S)
  PROVE  /\ DOMAIN s \subseteq DOMAIN (s \o t)
         /\ \A i \in DOMAIN s : (s \o t)[i] = s[i]
         /\ \A i \in DOMAIN (s \o t) \ DOMAIN s : \E j \in DOMAIN t : (s \o t)[i] = t[j]
<1>1. /\ Len(s) \in Nat /\ DOMAIN s = 1..Len(s)
      /\ Len(t) \in Nat /\ DOMAIN t = 1..Len(t)
      /\ DOMAIN (s \o t) = 1..(Len(s) + Len(t))
  OBVIOUS
<1>2. \A i \in DOMAIN s : i \in DOMAIN (s \o t) /\ (s \o t)[i] = s[i]
  BY <1>1
<1>3. ASSUME NEW i \in DOMAIN (s \o t) \ DOMAIN s
      PROVE  i - Len(s) \in DOMAIN t /\ (s \o t)[i] = t[i - Len(s)]
  BY <1>1
<1>4. QED
  BY <1>2, <1>3

-----------------------------------------------------------------------------
(* Types.                                                                  *)

\* What the server does to a connection.
LEMMA ServerTyped ==
  ASSUME TypeOK, NEW c \in Conn, Server(c)
  PROVE  TypeOK'
<1>1. /\ inbox \in [Conn -> Seq(Request)] /\ outbox \in [Conn -> Seq(Segment)]
      /\ body \in [Conn -> Seq(Segment)] /\ up \in [Conn -> BOOLEAN]
  BY DEF TypeOK
<1>2. ASSUME UNCHANGED <<list, callVars>>, up' \in [Conn -> BOOLEAN],
             inbox' \in [Conn -> Seq(Request)], outbox' \in [Conn -> Seq(Segment)],
             body' \in [Conn -> Seq(Segment)]
      PROVE  TypeOK'
  BY <1>2 DEF TypeOK, callVars, timeVars
<1>3. ASSUME Take(c)
      PROVE  Head(inbox[c]) \in Request /\ inbox' \in [Conn -> Seq(Request)]
  <2>1. /\ inbox[c] \in Seq(Request) /\ inbox[c] # <<>>
        /\ inbox' = [inbox EXCEPT ![c] = Tail(@)]
    BY <1>1, <1>3 DEF Take
  <2>2. Head(inbox[c]) \in Request /\ Tail(inbox[c]) \in Seq(Request)
    BY <2>1
  <2>3. QED
    BY <1>1, <2>1, <2>2
<1>4. CASE RespondSized(c)
  <2>1. [kind |-> "full", req |-> Head(inbox[c])] \in Segment
    BY <1>3, <1>4 DEF RespondSized, Segment
  <2>2. Append(outbox[c], [kind |-> "full", req |-> Head(inbox[c])]) \in Seq(Segment)
    BY <1>1, <2>1
  <2>3. QED
    BY <1>1, <1>2, <1>3, <1>4, <2>2 DEF RespondSized
<1>5. CASE RespondHead(c)
  <2>1. /\ [kind |-> "head", req |-> Head(inbox[c])] \in Segment
        /\ [kind |-> "chunks", req |-> Head(inbox[c])] \in Segment
    BY <1>3, <1>5 DEF RespondHead, Segment
  <2>2. /\ Append(outbox[c], [kind |-> "head", req |-> Head(inbox[c])]) \in Seq(Segment)
        /\ <<[kind |-> "chunks", req |-> Head(inbox[c])]>> \in Seq(Segment)
    BY <1>1, <2>1
  <2>3. QED
    BY <1>1, <1>2, <1>3, <1>5, <2>2 DEF RespondHead
<1>6. CASE RespondChunks(c)
  <2>1. outbox[c] \o body[c] \in Seq(Segment) /\ <<>> \in Seq(Segment)
    BY <1>1
  <2>2. QED
    BY <1>1, <1>2, <1>6, <2>1 DEF RespondChunks
<1>7. CASE ServerCloses(c)
  BY <1>1, <1>2, <1>7 DEF ServerCloses
<1>8. QED
  BY <1>4, <1>5, <1>6, <1>7 DEF Server

\* Closed connections hold nothing.
LEMMA DiscardTyped ==
  ASSUME TypeOK, NEW S, Discard(S)
  PROVE  /\ up' \in [Conn -> BOOLEAN]
         /\ inbox' \in [Conn -> Seq(Request)]
         /\ outbox' \in [Conn -> Seq(Segment)]
         /\ body' \in [Conn -> Seq(Segment)]
<1>1. <<>> \in Seq(Request) /\ <<>> \in Seq(Segment)
  OBVIOUS
<1>2. QED
  BY <1>1 DEF TypeOK, Discard

\* Dropping the guard ends the call or begins it anew.
LEMMA DropTyped ==
  ASSUME TypeOK, NEW t \in Thread, NEW next \in {"idle", "get"}, Drop(t, next),
         result' \in [Thread -> Result], lost' \in [Thread -> {"none", "closed", "silent"}]
  PROVE  TypeOK'
<1>1. /\ list' = list /\ Discard({conn[t]} \ ConnsOf(AfterDrop(t)))
      /\ conn' = [conn EXCEPT ![t] = NoConn] /\ pc' = [pc EXCEPT ![t] = next]
      /\ UNCHANGED <<n, reused, age, left, wait, timeout, reads>>
  BY DEF Drop, AfterDrop, RawTaken, timeVars
<1>2. QED
  BY <1>1, DiscardTyped DEF TypeOK

LEMMA OutcomeTyped ==
  ASSUME TypeOK, NEW t \in Thread, NEW status \in {"error", "timeout", "EOF"}
  PROVE  Outcome(t, status, FALSE) \in Result
<1>1. n[t] \in Nat
  BY ClientAssumption DEF TypeOK
<1>2. QED
  BY <1>1 DEF Outcome, Result

LEMMA FailTyped ==
  ASSUME TypeOK, NEW t \in Thread, NEW status \in {"error", "timeout", "EOF"}, Fail(t, status)
  PROVE  TypeOK'
<1>1. /\ Drop(t, "idle") /\ lost' = lost
      /\ result' = [result EXCEPT ![t] = Outcome(t, status, FALSE)]
  BY DEF Fail
<1>2. result' \in [Thread -> Result] /\ lost' \in [Thread -> {"none", "closed", "silent"}]
  BY <1>1, OutcomeTyped DEF TypeOK
<1>3. QED
  BY <1>1, <1>2, DropTyped

\* A guard holds a connection.
LEMMA GuardTyped ==
  ASSUME TypeOK, NEW t \in Thread, NEW c \in Conn, NEW is_reused \in BOOLEAN,
         Guard(t, c, is_reused),
         /\ up' \in [Conn -> BOOLEAN] /\ inbox' \in [Conn -> Seq(Request)]
         /\ outbox' \in [Conn -> Seq(Segment)] /\ body' \in [Conn -> Seq(Segment)],
         list' \in Seq(Entry),
         UNCHANGED <<n, left, wait, timeout, reads, lost, result>>
  PROVE  TypeOK'
<1>1. c # NoConn /\ 0 \in 0..IdleTime
  BY ClientAssumption
<1>2. /\ conn' = [conn EXCEPT ![t] = c] /\ reused' = [reused EXCEPT ![t] = is_reused]
      /\ age' = [age EXCEPT ![t] = 0] /\ pc' = [pc EXCEPT ![t] = "send"]
  BY DEF Guard
<1>3. \A u \in Thread : conn'[u] = NoConn <=> pc'[u] \in {"idle", "get", "connect"}
  BY <1>1, <1>2 DEF TypeOK
<1>4. /\ conn' \in [Thread -> Conn \cup {NoConn}] /\ reused' \in [Thread -> BOOLEAN]
      /\ age' \in [Thread -> 0..IdleTime]
      /\ pc' \in [Thread -> {"idle", "get", "connect", "send", "write", "read", "reuse"}]
  BY <1>1, <1>2 DEF TypeOK
<1> HIDE DEF Guard
<1>5. QED
  BY <1>3, <1>4 DEF TypeOK

\* The steps of a call.
LEMMA StepTyped ==
  ASSUME TypeOK, NEW t \in Thread, Step(t)
  PROVE  TypeOK'
<1> USE ClientAssumption
<1>1. /\ list \in Seq(Entry) /\ Len(list) \in Nat
      /\ \A i \in 1..Len(list) : list[i] \in Entry
  BY DEF TypeOK
<1>2. CASE GetPooled(t)
  <2> DEFINE i == FreshIndex
  <2>1. i \in 1..Len(list)
    BY <1>1, <1>2, FreshIndexPlace DEF GetPooled
  <2>2. list[i].conn \in Conn /\ Taken(i) \in Seq(Entry)
    BY <1>1, <2>1, TakenProperties DEF Entry
  <2>3. /\ Guard(t, list[i].conn, TRUE) /\ list' = Taken(i)
        /\ \E S : Discard(S)
        /\ UNCHANGED <<n, left, wait, timeout, reads, lost, result>>
    BY <1>2 DEF GetPooled
  <2> HIDE DEF i
  <2>4. QED
    BY <2>2, <2>3, DiscardTyped, GuardTyped
<1>3. CASE PoolEmpty(t)
  <2>1. /\ pc[t] = "get" /\ pc' = [pc EXCEPT ![t] = "connect"]
        /\ list' = <<>> /\ <<>> \in Seq(Entry)
        /\ \E S : Discard(S)
        /\ UNCHANGED <<n, conn, reused, age, left, wait, timeout, reads, lost, result>>
    BY <1>3 DEF PoolEmpty, timeVars
  <2>2. QED
    BY <2>1, DiscardTyped DEF TypeOK
<1>4. ASSUME NEW c \in Conn, Connect(t, c)
      PROVE  TypeOK'
  <2>1. /\ Guard(t, c, FALSE) /\ up' = [up EXCEPT ![c] = TRUE]
        /\ UNCHANGED <<inbox, outbox, body, list, n, left, wait, timeout, reads, lost, result>>
    BY <1>4 DEF Connect
  <2>2. /\ up' \in [Conn -> BOOLEAN] /\ inbox' \in [Conn -> Seq(Request)]
        /\ outbox' \in [Conn -> Seq(Segment)] /\ body' \in [Conn -> Seq(Segment)]
        /\ list' \in Seq(Entry)
    BY <2>1 DEF TypeOK
  <2>3. QED
    BY <2>1, <2>2, GuardTyped
<1>5. CASE ConnectFails(t)
  <2>1. /\ pc[t] = "connect" /\ pc' = [pc EXCEPT ![t] = "idle"]
        /\ result' = [result EXCEPT ![t] = Outcome(t, "error", FALSE)]
        /\ UNCHANGED <<up, inbox, outbox, body, list, n, conn, reused, age, left, wait, timeout,
                       reads, lost>>
    BY <1>5 DEF ConnectFails, netVars, timeVars
  <2>2. Outcome(t, "error", FALSE) \in Result
    BY OutcomeTyped
  <2>3. QED
    BY <2>1, <2>2 DEF TypeOK
<1>6. CASE Expired(t)
  BY <1>6, FailTyped DEF Expired
<1>7. CASE Send(t)
  <2>1. /\ pc[t] = "send" /\ pc' = [pc EXCEPT ![t] = "write"]
        /\ timeout' = [timeout EXCEPT ![t] = left[t]]
        /\ UNCHANGED <<up, inbox, outbox, body, list, n, conn, reused, age, left, wait, reads,
                       lost, result>>
    BY <1>7 DEF Send, netVars
  <2>2. timeout' \in [Thread -> 0..Forever]
    BY <2>1 DEF TypeOK
  <2>3. /\ pc' \in [Thread -> {"idle", "get", "connect", "send", "write", "read", "reuse"}]
        /\ \A u \in Thread : conn'[u] = NoConn <=> pc'[u] \in {"idle", "get", "connect"}
    BY <2>1 DEF TypeOK
  <2>4. /\ left' = left /\ wait' = wait /\ conn' = conn
        /\ UNCHANGED <<up, inbox, outbox, body, list, n, reused, age, reads, lost, result>>
    BY <2>1
  <2>5. QED
    BY <2>2, <2>3, <2>4, SMTT(60) DEF TypeOK
<1>8. CASE Written(t)
  <2>1. PICK c : c = conn[t]
    OBVIOUS
  <2>2. c \in Conn
    BY <1>8, <2>1 DEF Written, TypeOK
  <2>3. [thread |-> t, n |-> n[t]] \in Request
    BY DEF TypeOK, Request
  <2>4. Append(inbox[c], [thread |-> t, n |-> n[t]]) \in Seq(Request)
    BY <2>2, <2>3 DEF TypeOK
  <2>5. /\ pc[t] = "write"
        /\ inbox' = [inbox EXCEPT ![c] = IF up[c] THEN Append(@, [thread |-> t, n |-> n[t]])
                                                  ELSE @]
        /\ wait' = [wait EXCEPT ![t] = timeout[t]]
        /\ reads' = [reads EXCEPT ![t] = 0]
        /\ pc' = [pc EXCEPT ![t] = "read"]
        /\ UNCHANGED <<up, outbox, body, list, n, conn, reused, age, left, timeout, lost, result>>
    BY <1>8, <2>1 DEF Written
  <2>6. 0 \in 0..MaxReads /\ wait' \in [Thread -> 0..Forever]
    BY <2>5 DEF TypeOK
  <2>7. inbox' \in [Conn -> Seq(Request)]
    BY <2>4, <2>5 DEF TypeOK
  <2>8. /\ reads' \in [Thread -> 0..MaxReads]
        /\ pc' \in [Thread -> {"idle", "get", "connect", "send", "write", "read", "reuse"}]
        /\ \A u \in Thread : conn'[u] = NoConn <=> pc'[u] \in {"idle", "get", "connect"}
    BY <2>5, <2>6 DEF TypeOK
  <2>9. /\ left' = left /\ timeout' = timeout
        /\ UNCHANGED <<up, outbox, body, list, n, conn, reused, age, lost, result>>
    BY <2>5
  <2>10. QED
    BY <2>6, <2>7, <2>8, <2>9, SMTT(60) DEF TypeOK
<1>9. CASE ReadPart(t)
  <2>1. /\ wait' = [wait EXCEPT ![t] = timeout[t]]
        /\ UNCHANGED <<up, inbox, outbox, body, list, pc, n, conn, reused, age, left, timeout,
                       reads, lost, result>>
    BY <1>9 DEF ReadPart, netVars
  <2>2. wait' \in [Thread -> 0..Forever]
    BY <2>1 DEF TypeOK
  <2>3. /\ left' = left /\ timeout' = timeout
        /\ UNCHANGED <<up, inbox, outbox, body, list, pc, n, conn, reused, age, reads, lost,
                       result>>
    BY <2>1
  <2>4. QED
    BY <2>2, <2>3, SMTT(60) DEF TypeOK
<1>10. CASE SendFails(t)
  BY <1>10, FailTyped DEF SendFails
<1>11. ASSUME NEW k \in 1..(IF conn[t] = NoConn THEN 0 ELSE Len(outbox[conn[t]])),
             ReadResponse(t, k)
      PROVE  TypeOK'
  <2>1. PICK c : c = conn[t]
    OBVIOUS
  <2>2. c \in Conn /\ outbox[c] \in Seq(Segment)
    BY <1>11, <2>1 DEF ReadResponse, TypeOK
  <2>3. k \in 1..Len(outbox[c]) /\ Len(outbox[c]) \in Nat
    BY <1>11, <2>1, <2>2
  <2>4. SubSeq(outbox[c], 1, k)[1] = outbox[c][1] /\ outbox[c][1] \in Segment
    BY <2>2, <2>3
  <2> DEFINE status == IF outbox[c][1].req.thread = t THEN "ok" ELSE "stale"
             whole  == outbox[c][1].kind = "full" \/ k > 1
  <2>5. result' = [result EXCEPT ![t] = [status |-> status, n |-> outbox[c][1].req.n,
                                         whole |-> whole]]
    BY <1>11, <2>1, <2>4 DEF ReadResponse
  <2>6. /\ status \in {"ok", "stale"} /\ whole \in BOOLEAN
        /\ outbox[c][1].req.n \in Nat
    BY <2>4 DEF Segment, Request
  <2> HIDE DEF status, whole
  <2>7. SubSeq(outbox[c], k + 1, Len(outbox[c])) \in Seq(Segment)
    <3>1. \A i \in (k + 1)..Len(outbox[c]) : outbox[c][i] \in Segment
      BY <2>2, <2>4
    <3>2. QED
      BY <2>3, <3>1, SubSeqProperties
  <2>8. /\ pc[t] = "read"
        /\ pc' = [pc EXCEPT ![t] = "reuse"]
        /\ outbox' = [outbox EXCEPT ![c] = SubSeq(@, k + 1, Len(@))]
        /\ UNCHANGED <<up, inbox, body, list, n, conn, reused, age, left, wait, timeout, reads,
                       lost>>
    BY <1>11, <2>1 DEF ReadResponse, timeVars
  <2>9. [status |-> status, n |-> outbox[c][1].req.n, whole |-> whole] \in Result
    BY <2>6 DEF Result
  <2>10. result' \in [Thread -> Result]
    BY <2>5, <2>9 DEF TypeOK
  <2>11. QED
    BY <2>7, <2>8, <2>10 DEF TypeOK
<1>12. CASE ReadFails(t)
  BY <1>12, FailTyped DEF ReadFails
<1>13. CASE ReadAgain(t)
  <2>1. /\ NextRead(t) < MaxReads
        /\ reads' = [reads EXCEPT ![t] = NextRead(t)]
        /\ wait' = [wait EXCEPT ![t] = timeout[t]]
        /\ UNCHANGED <<up, inbox, outbox, body, list, pc, n, conn, reused, age, left, timeout,
                       lost, result>>
    BY <1>13 DEF ReadAgain, netVars
  <2>2. NextRead(t) \in 0..MaxReads
    BY <2>1 DEF NextRead, TypeOK
  <2>3. timeout[t] \in 0..Forever
    BY DEF TypeOK
  <2>4. QED
    BY <2>1, <2>2, <2>3 DEF TypeOK
<1>14. CASE Retry(t)
  <2>1. /\ Drop(t, "get") /\ result' = result
        /\ lost' = [lost EXCEPT ![t] = IF up[conn[t]] THEN "silent" ELSE "closed"]
    BY <1>14 DEF Retry
  <2>2. QED
    BY <2>1, DropTyped DEF TypeOK
<1>15. CASE GiveUp(t)
  BY <1>15, FailTyped DEF GiveUp
<1>16. CASE Reuse(t)
  <2>1. /\ pc[t] = "reuse"
        /\ list' = Append(list, [conn |-> conn[t], age |-> age[t]])
        /\ conn' = [conn EXCEPT ![t] = NoConn]
        /\ pc' = [pc EXCEPT ![t] = "idle"]
        /\ UNCHANGED <<up, inbox, outbox, body, n, reused, age, left, wait, timeout, reads,
                       lost, result>>
    BY <1>16 DEF Reuse, RawTaken, netVars, timeVars
  <2>2. conn[t] \in Conn /\ age[t] \in 0..IdleTime
    BY <2>1 DEF TypeOK
  <2>3. Append(list, [conn |-> conn[t], age |-> age[t]]) \in Seq(Entry)
    BY <1>1, <2>2 DEF Entry
  <2>4. QED
    BY <2>1, <2>3 DEF TypeOK
<1>17. QED
  BY <1>2, <1>3, <1>4, <1>5, <1>6, <1>7, <1>10, <1>11, <1>12, <1>13, <1>14, <1>15, <1>16, <1>8, <1>9
  DEF Step, Connecting, Writing, Running

\* Time passes, and a call begins.
LEMMA TickTyped ==
  ASSUME TypeOK, Tick
  PROVE  TypeOK'
<1> USE ClientAssumption
<1>1. /\ \A time \in 0..Forever : Less(time) \in 0..Forever
      /\ \A time \in 0..IdleTime : Older(time) \in 0..IdleTime
  BY DEF Less, Older, Forever
<1>2. list' \in Seq(Entry)
  <2>1. list \in Seq(Entry) /\ Len(list) \in Nat /\ DOMAIN list = 1..Len(list)
    BY DEF TypeOK
  <2>2. ASSUME NEW i \in 1..Len(list)
        PROVE  [list[i] EXCEPT !.age = Older(@)] \in Entry
    <3>1. list[i] \in Entry
      BY <2>1
    <3>2. list[i].age \in 0..IdleTime /\ list[i].conn \in Conn
      BY <3>1 DEF Entry
    <3>3. Older(list[i].age) \in 0..IdleTime
      BY <1>1, <3>2
    <3>4. QED
      BY <3>1, <3>3 DEF Entry
  <2>3. list' = [i \in 1..Len(list) |-> [list[i] EXCEPT !.age = Older(@)]]
    BY <2>1 DEF Tick
  <2>4. list' \in [1..Len(list) -> Entry]
    BY <2>2, <2>3
  <2>5. QED
    BY <2>1, <2>4
<1>3. /\ age' \in [Thread -> 0..IdleTime]
      /\ left' \in [Thread -> 0..Forever] /\ wait' \in [Thread -> 0..Forever]
  BY <1>1 DEF Tick, TypeOK
<1>4. QED
  BY <1>2, <1>3 DEF Tick, TypeOK, netVars

LEMMA StartTyped ==
  ASSUME TypeOK, NEW t \in Thread, NEW dur \in {Timeout, Forever}, Start(t, dur)
  PROVE  TypeOK'
<1>1. dur \in 0..Forever
  BY ClientAssumption DEF Forever
<1>2. n' \in [Thread -> 0..MaxRequests]
  BY ClientAssumption DEF Start, TypeOK
<1>3. QED
  BY <1>1, <1>2 DEF Start, TypeOK, netVars

LEMMA TypeKept ==
  ASSUME TypeOK, [Next]_vars
  PROVE  TypeOK'
<1>1. CASE UNCHANGED vars
  BY <1>1 DEF vars, netVars, callVars, timeVars, TypeOK
<1>2. QED
  BY <1>1, ServerTyped, StepTyped, TickTyped, StartTyped DEF Next

-----------------------------------------------------------------------------
(* A connection is with one call, or in the list once, or nowhere.         *)

\* What a step of one call leaves to the others.
LEMMA ExclusiveKept ==
  ASSUME TypeOK, Exclusive, [Next]_vars
  PROVE  Exclusive'
<1>1. /\ list \in Seq(Entry) /\ Len(list) \in Nat /\ DOMAIN list = 1..Len(list)
      /\ conn \in [Thread -> Conn \cup {NoConn}] /\ NoConn \notin Conn
      /\ \A t \in Thread : conn[t] = NoConn <=> pc[t] \in {"idle", "get", "connect"}
      /\ \A i \in DOMAIN list : list[i].conn \in Conn
  <2>1. list \in Seq(Entry) /\ Len(list) \in Nat /\ DOMAIN list = 1..Len(list)
    BY DEF TypeOK
  <2>2. \A i \in DOMAIN list : list[i] \in Entry
    BY <2>1
  <2>3. QED
    BY <2>1, <2>2, ClientAssumption DEF TypeOK, Entry
<1>2. ASSUME list' = list, conn' = conn
      PROVE  Exclusive'
  BY <1>2 DEF Exclusive, ConnsOf
<1>3. ASSUME NEW t \in Thread, list' = list, conn' = [conn EXCEPT ![t] = NoConn]
      PROVE  Exclusive'
  <2>1. \A u \in Thread : conn'[u] = IF u = t THEN NoConn ELSE conn[u]
    BY <1>1, <1>3
  <2>2. QED
    BY <1>1, <1>3, <2>1 DEF Exclusive, ConnsOf
<1>4. ASSUME NEW t \in Thread, NEW next, Drop(t, next)
      PROVE  Exclusive'
  BY <1>3, <1>4 DEF Drop, AfterDrop, RawTaken
<1>5. CASE UNCHANGED vars
  BY <1>2, <1>5 DEF vars, callVars
<1>6. CASE Tick
  <2>1. /\ DOMAIN list' = DOMAIN list /\ conn' = conn
        /\ \A i \in DOMAIN list : list'[i].conn = list[i].conn
    <3>1. \A i \in DOMAIN list : list[i] \in Entry
      BY <1>1
    <3>2. /\ list' = [i \in DOMAIN list |-> [list[i] EXCEPT !.age = Older(@)]]
          /\ conn' = conn
      BY <1>6 DEF Tick
    <3>3. QED
      BY <3>1, <3>2 DEF Entry
  <2>2. QED
    BY <2>1 DEF Exclusive, ConnsOf
<1>7. ASSUME NEW c \in Conn, Server(c)
      PROVE  Exclusive'
  BY <1>2, <1>7 DEF Server, RespondSized, RespondHead, RespondChunks, ServerCloses, callVars
<1>8. ASSUME NEW t \in Thread, NEW dur, Start(t, dur)
      PROVE  Exclusive'
  BY <1>2, <1>8 DEF Start
<1>9. ASSUME NEW t \in Thread, Step(t)
      PROVE  Exclusive'
  <2>1. CASE GetPooled(t)
    <3> DEFINE i == FreshIndex
    <3>1. i \in 1..Len(list)
      BY <1>1, <2>1, FreshIndexPlace DEF GetPooled
    <3>2. list' = Taken(i) /\ conn' = [conn EXCEPT ![t] = list[i].conn]
      BY <2>1 DEF GetPooled, Guard
    <3> HIDE DEF i
    <3>3. /\ DOMAIN list' = 1..(i - 1)
          /\ \A j \in 1..(i - 1) : j \in DOMAIN list /\ j # i /\ list'[j] = list[j]
      <4>1. i \in Nat /\ i - 1 \in Nat /\ \A j \in 1..(i - 1) : j \in 1..Len(list) /\ j # i
        BY <1>1, <3>1
      <4>2. /\ list' \in Seq(Entry) /\ Len(list') = i - 1
            /\ \A j \in 1..(i - 1) : list'[j] = list[j]
        BY <3>1, <3>2, TakenProperties
      <4>3. DOMAIN list' = 1..(i - 1)
        BY <4>1, <4>2
      <4>4. QED
        BY <1>1, <4>1, <4>2, <4>3
    <3>4. i \in DOMAIN list /\ list[i].conn \in ConnsOf(list) /\ list[i].conn # NoConn
      BY <1>1, <3>1 DEF ConnsOf
    <3>5. \A u \in Thread : conn'[u] = IF u = t THEN list[i].conn ELSE conn[u]
      BY <1>1, <3>2
    <3>6. \A j, k \in DOMAIN list' : list'[j].conn = list'[k].conn => j = k
      BY <3>3 DEF Exclusive
    <3>7. \A u \in Thread : conn'[u] \notin {list'[j].conn : j \in DOMAIN list'}
      <4>1. \A j \in DOMAIN list' : list'[j].conn \in ConnsOf(list) /\ list'[j].conn # list[i].conn
        BY <3>3, <3>4 DEF Exclusive, ConnsOf
      <4>2. QED
        BY <3>5, <4>1 DEF Exclusive
    <3>8. \A u, v \in Thread : conn'[u] = conn'[v] /\ conn'[u] # NoConn => u = v
      BY <3>4, <3>5 DEF Exclusive
    <3>9. QED
      BY <3>6, <3>7, <3>8 DEF Exclusive, ConnsOf
  <2>2. CASE PoolEmpty(t)
    <3>1. list' = <<>> /\ conn' = conn
      BY <2>2 DEF PoolEmpty
    <3>2. QED
      BY <3>1 DEF Exclusive, ConnsOf
  <2>3. ASSUME NEW c \in Conn, Connect(t, c)
        PROVE  Exclusive'
    <3>1. list' = list /\ conn' = [conn EXCEPT ![t] = c] /\ Unused(c)
      BY <2>3 DEF Connect, Guard
    <3>2. \A u \in Thread : conn'[u] = IF u = t THEN c ELSE conn[u]
      BY <1>1, <3>1
    <3>3. QED
      BY <3>1, <3>2 DEF Exclusive, ConnsOf, Unused
  <2>4. CASE Reuse(t)
    <3>1. /\ pc[t] = "reuse" /\ list' = Append(list, [conn |-> conn[t], age |-> age[t]])
          /\ conn' = [conn EXCEPT ![t] = NoConn]
      BY <2>4 DEF Reuse, RawTaken
    <3>2. conn[t] \in Conn
      BY <1>1, <3>1
    <3>3. /\ DOMAIN list' = 1..(Len(list) + 1)
          /\ \A j \in DOMAIN list' :
               list'[j].conn = IF j = Len(list) + 1 THEN conn[t] ELSE list[j].conn
      BY <1>1, <3>1
    <3>4. \A j \in DOMAIN list' : j # Len(list) + 1 => j \in DOMAIN list
      BY <1>1, <3>3
    <3>5. \A u \in Thread : conn'[u] = IF u = t THEN NoConn ELSE conn[u]
      BY <1>1, <3>1
    <3>6. \A j \in DOMAIN list : list[j].conn # conn[t]
      BY DEF Exclusive, ConnsOf
    <3>7. \A j, k \in DOMAIN list' : list'[j].conn = list'[k].conn => j = k
      BY <3>3, <3>4, <3>6 DEF Exclusive
    <3>8. \A u \in Thread : conn'[u] \notin {list'[j].conn : j \in DOMAIN list'}
      <4>1. \A j \in DOMAIN list' : list'[j].conn \in ConnsOf(list) \cup {conn[t]}
        BY <3>3, <3>4 DEF ConnsOf
      <4>2. \A j \in DOMAIN list' : list'[j].conn \in Conn
        BY <1>1, <3>2, <3>3, <3>4
      <4>3. QED
        BY <1>1, <3>2, <3>5, <4>1, <4>2 DEF Exclusive
    <3>9. \A u, v \in Thread : conn'[u] = conn'[v] /\ conn'[u] # NoConn => u = v
      BY <3>5 DEF Exclusive
    <3>10. QED
      BY <3>7, <3>8, <3>9 DEF Exclusive, ConnsOf
  <2>5. CASE ConnectFails(t) \/ Send(t) \/ Written(t) \/ ReadPart(t) \/ ReadAgain(t)
    BY <1>2, <2>5 DEF ConnectFails, Send, Written, ReadPart, ReadAgain
  <2>6. ASSUME NEW k, ReadResponse(t, k)
        PROVE  Exclusive'
    BY <1>2, <2>6 DEF ReadResponse
  <2>7. CASE Expired(t) \/ SendFails(t) \/ ReadFails(t) \/ Retry(t) \/ GiveUp(t)
    BY <1>4, <2>7 DEF Expired, SendFails, ReadFails, Retry, GiveUp, Fail
  <2>8. QED
    BY <1>9, <2>1, <2>2, <2>3, <2>4, <2>5, <2>6, <2>7
    DEF Step, Connecting, Writing, Running
<1>10. QED
  BY <1>5, <1>6, <1>7, <1>8, <1>9 DEF Next

-----------------------------------------------------------------------------
(* What is under way on a connection.                                      *)

\* The number of responses under way depends on the connection alone.
LEMMA UnderWayKept ==
  ASSUME NEW c \in Conn, inbox'[c] = inbox[c], outbox'[c] = outbox[c]
  PROVE  /\ Quiet(c) => Quiet(c)'
         /\ \A r : Carries(c, r) => Carries(c, r)'
BY DEF Quiet, Carries, Waiting

LEMMA EmptyIsQuiet ==
  ASSUME NEW c \in Conn, inbox'[c] = <<>>, outbox'[c] = <<>>
  PROVE  Quiet(c)'
BY DEF Quiet, Waiting

\* A discarded connection is quiet, and the others stay as they are.
LEMMA DiscardUnderWay ==
  ASSUME NEW S, Discard(S), NEW c \in Conn
  PROVE  /\ c \in S => Quiet(c)'
         /\ c \notin S => inbox'[c] = inbox[c] /\ outbox'[c] = outbox[c]
  <1>1. /\ inbox'[c] = IF c \in S THEN <<>> ELSE inbox[c]
        /\ outbox'[c] = IF c \in S THEN <<>> ELSE outbox[c]
    BY DEF Discard
  <1>2. QED
    BY <1>1, EmptyIsQuiet

\* The server answers what the connection carries, and chunks are part of
\* the response they belong to.
LEMMA ServerUnderWay ==
  ASSUME TypeOK, NEW c \in Conn, Server(c), NEW d \in Conn,
         \A i \in DOMAIN body[c] : body[c][i].kind = "chunks"
  PROVE  /\ Quiet(d) => Quiet(d)'
         /\ \A r : Carries(d, r) => Carries(d, r)'
         /\ \A i \in DOMAIN body'[c] : body'[c][i].kind = "chunks"
         /\ d # c => body'[d] = body[d]
<1>1. /\ inbox \in [Conn -> Seq(Request)] /\ outbox \in [Conn -> Seq(Segment)]
      /\ body \in [Conn -> Seq(Segment)]
  BY DEF TypeOK
<1>2. outbox[c] \in Seq(Segment) /\ Len(outbox[c]) \in Nat /\ inbox[c] \in Seq(Request)
      /\ DOMAIN outbox[c] = 1..Len(outbox[c])
  BY <1>1
<1>3. ASSUME NEW kind \in {"full", "head"}, Take(c),
             outbox' = [outbox EXCEPT ![c] = Append(@, [kind |-> kind, req |-> Head(inbox[c])])]
      PROVE  /\ Quiet(d) => Quiet(d)'
             /\ \A r : Carries(d, r) => Carries(d, r)'
  <2>1. CASE d # c
    <3>1. inbox'[d] = inbox[d] /\ outbox'[d] = outbox[d]
      BY <1>1, <1>3, <2>1 DEF Take
    <3>2. QED
      BY <3>1, UnderWayKept
  <2>2. CASE d = c
    <3>1. inbox[c] # <<>> /\ inbox'[c] = Tail(inbox[c])
      BY <1>1, <1>3 DEF Take
    <3>2. /\ DOMAIN outbox'[c] = 1..(Len(outbox[c]) + 1)
          /\ \A i \in DOMAIN outbox[c] : i # Len(outbox[c]) + 1 /\ outbox'[c][i] = outbox[c][i]
          /\ outbox'[c][Len(outbox[c]) + 1] = [kind |-> kind, req |-> Head(inbox[c])]
      BY <1>1, <1>2, <1>3
    <3>3. ASSUME NEW r, Carries(c, r)
          PROVE  Carries(c, r)'
      <4>1. inbox[c] = <<r>> /\ Waiting(c) = {}
        BY <3>1, <3>3 DEF Carries
      <4>2. inbox'[c] = <<>> /\ Head(inbox[c]) = r
        BY <3>1, <4>1
      <4>3. \A i \in DOMAIN outbox[c] : outbox[c][i].kind = "chunks"
        BY <4>1 DEF Waiting
      <4>4. Waiting(c)' = {Len(outbox[c]) + 1}
        <5>1. \A i \in DOMAIN outbox'[c] : i \in DOMAIN outbox[c] \/ i = Len(outbox[c]) + 1
          BY <1>2, <3>2
        <5>2. Len(outbox[c]) + 1 \in DOMAIN outbox'[c]
          BY <1>2, <3>2
        <5>3. \A i \in DOMAIN outbox'[c] :
                outbox'[c][i].kind # "chunks" <=> i = Len(outbox[c]) + 1
          BY <3>2, <4>3, <5>1
        <5>4. QED
          BY <5>2, <5>3 DEF Waiting
      <4>5. QED
        BY <3>2, <4>2, <4>4 DEF Carries
    <3>4. ~Quiet(c)
      BY <3>1 DEF Quiet
    <3>5. QED
      BY <2>2, <3>3, <3>4
  <2>3. QED
    BY <2>1, <2>2
<1>4. CASE RespondSized(c)
  <2>1. body' = body
    BY <1>4 DEF RespondSized
  <2>2. QED
    BY <1>3, <1>4, <2>1 DEF RespondSized
<1>5. CASE RespondHead(c)
  <2>1. body' = [body EXCEPT ![c] = <<[kind |-> "chunks", req |-> Head(inbox[c])]>>]
    BY <1>5 DEF RespondHead
  <2>2. /\ body'[c] = <<[kind |-> "chunks", req |-> Head(inbox[c])]>>
        /\ d # c => body'[d] = body[d]
    BY <1>1, <2>1
  <2>3. QED
    BY <1>3, <1>5, <2>2 DEF RespondHead
<1>6. CASE RespondChunks(c)
  <2>1. /\ inbox' = inbox /\ outbox' = [outbox EXCEPT ![c] = @ \o body[c]]
        /\ body' = [body EXCEPT ![c] = <<>>]
    BY <1>6 DEF RespondChunks
  <2>2. body'[c] = <<>> /\ (d # c => body'[d] = body[d])
    BY <1>1, <2>1
  <2>3. CASE d # c
    <3>1. inbox'[d] = inbox[d] /\ outbox'[d] = outbox[d]
      BY <1>1, <2>1, <2>3
    <3>2. QED
      BY <2>2, <3>1, UnderWayKept
  <2>4. CASE d = c
    <3>1. body[c] \in Seq(Segment) /\ Len(body[c]) \in Nat /\ DOMAIN body[c] = 1..Len(body[c])
      BY <1>1
    <3>2. outbox'[c] = outbox[c] \o body[c]
      BY <1>1, <2>1
    <3>3. /\ DOMAIN outbox[c] \subseteq DOMAIN outbox'[c]
          /\ \A i \in DOMAIN outbox[c] : outbox'[c][i] = outbox[c][i]
          /\ \A i \in DOMAIN outbox'[c] \ DOMAIN outbox[c] : outbox'[c][i].kind = "chunks"
      <4>1. PICK s \in Seq(Segment) : s = outbox[c]
        BY <1>2
      <4>2. PICK t \in Seq(Segment) : t = body[c]
        BY <3>1
      <4>3. /\ DOMAIN s \subseteq DOMAIN (s \o t)
            /\ \A i \in DOMAIN s : (s \o t)[i] = s[i]
            /\ \A i \in DOMAIN (s \o t) \ DOMAIN s : \E j \in DOMAIN t : (s \o t)[i] = t[j]
        BY ConcatPlaces
      <4>4. outbox'[c] = s \o t /\ \A j \in DOMAIN t : t[j].kind = "chunks"
        BY <3>2, <4>1, <4>2
      <4>5. QED
        BY <4>1, <4>3, <4>4
    <3>4. Waiting(c)' = Waiting(c) /\ \A i \in Waiting(c) : outbox'[c][i] = outbox[c][i]
      BY <3>3 DEF Waiting
    <3>5. \A i \in DOMAIN body'[c] : body'[c][i].kind = "chunks"
      BY <2>2
    <3>6. inbox'[c] = inbox[c]
      BY <2>1
    <3>7. QED
      BY <2>4, <3>4, <3>5, <3>6 DEF Quiet, Carries
  <2>5. QED
    BY <2>3, <2>4
<1>7. CASE ServerCloses(c)
  <2>1. inbox' = inbox /\ outbox' = outbox /\ body' = body
    BY <1>7 DEF ServerCloses
  <2>2. QED
    BY <2>1, UnderWayKept
<1>8. QED
  BY <1>4, <1>5, <1>6, <1>7 DEF Server

\* What a place of a suffix holds.
LEMMA SuffixPlaces ==
  ASSUME NEW S, NEW s \in Seq(S), NEW k \in 1..Len(s), NEW i \in DOMAIN SubSeq(s, k + 1, Len(s))
  PROVE  k + i \in DOMAIN s /\ k + i # 1 /\ SubSeq(s, k + 1, Len(s))[i] = s[k + i]
<1>1. /\ k \in Nat /\ k > 0 /\ k + 1 \in Int /\ Len(s) \in Nat /\ k <= Len(s)
      /\ DOMAIN s = 1..Len(s)
  OBVIOUS
<1>2. \A j \in (k + 1)..Len(s) : s[j] \in S
  BY <1>1
<1>3. /\ SubSeq(s, k + 1, Len(s)) \in Seq(S)
      /\ Len(SubSeq(s, k + 1, Len(s))) = IF k + 1 <= Len(s) THEN Len(s) - (k + 1) + 1 ELSE 0
      /\ \A j \in 1..(Len(s) - (k + 1) + 1) : SubSeq(s, k + 1, Len(s))[j] = s[k + 1 + j - 1]
  BY <1>1, <1>2, SubSeqProperties
<1>4. i \in 1..Len(SubSeq(s, k + 1, Len(s)))
  BY <1>3
<1>5. i \in Nat /\ i > 0 /\ k + i <= Len(s)
  BY <1>1, <1>3, <1>4
<1>6. i \in 1..(Len(s) - (k + 1) + 1) /\ k + 1 + i - 1 = k + i
  BY <1>1, <1>5
<1>7. QED
  BY <1>1, <1>3, <1>5, <1>6

\* A read takes the one response that waits, which is that of the call, and
\* nothing is left behind (http_conn.rs:173).
LEMMA ReadUnderWay ==
  ASSUME TypeOK, OneRequest, NEW t \in Thread, NEW c \in Conn, c = conn[t],
         NEW k \in 1..Len(outbox[c]), ReadResponse(t, k)
  PROVE  /\ Quiet(c)'
         /\ outbox[c][1].req = [thread |-> t, n |-> n[t]]
         /\ \A d \in Conn : d # c => inbox'[d] = inbox[d] /\ outbox'[d] = outbox[d]
<1> DEFINE s == outbox[c]
           u == SubSeq(s, k + 1, Len(s))
<1>1. pc[t] = "read"
  BY DEF ReadResponse
<1>2. /\ s \in Seq(Segment) /\ Len(s) \in Nat /\ k \in 1..Len(s)
      /\ outbox \in [Conn -> Seq(Segment)]
  BY DEF TypeOK
<1>3. SubSeq(s, 1, k)[1] = s[1] /\ 1 \in DOMAIN s
  BY <1>2
<1>4. 1 \in Waiting(c)
  BY <1>3 DEF ReadResponse, Waiting
<1>5. inbox[c] = <<>> /\ Waiting(c) = {1} /\ s[1].req = [thread |-> t, n |-> n[t]]
  <2>1. Carries(c, [thread |-> t, n |-> n[t]])
    BY <1>1 DEF OneRequest
  <2>2. QED
    BY <1>4, <2>1 DEF Carries
<1>6. inbox' = inbox /\ outbox' = [outbox EXCEPT ![c] = u]
  BY DEF ReadResponse
<1>7. inbox'[c] = <<>> /\ outbox'[c] = u
  BY <1>1, <1>2, <1>5, <1>6
<1>8. \A i \in DOMAIN u : u[i].kind = "chunks"
  <2>1. \A i \in DOMAIN u : k + i \in DOMAIN s /\ k + i # 1 /\ u[i] = s[k + i]
    BY <1>2, SuffixPlaces
  <2>2. QED
    BY <1>5, <2>1 DEF Waiting
<1>9. Waiting(c)' = {}
  BY <1>7, <1>8 DEF Waiting
<1>10. QED
  BY <1>2, <1>5, <1>6, <1>7, <1>9 DEF Quiet

\* A step after which the same calls read from the same connections, and
\* one that closes connections none of them reads from.
LEMMA ReadersKeep ==
  ASSUME OneRequest,
         \A t \in Thread : pc'[t] = "read" <=> pc[t] = "read",
         \A t \in Thread : pc[t] = "read" => conn[t] \in Conn /\ conn'[t] = conn[t] /\ n'[t] = n[t],
         \A c \in Conn : /\ Quiet(c) => Quiet(c)'
                         /\ \A r : Carries(c, r) => Carries(c, r)'
                         /\ \A i \in DOMAIN body'[c] : body'[c][i].kind = "chunks"
  PROVE  OneRequest'
<1>1. ASSUME NEW t \in Thread, pc'[t] = "read"
      PROVE  Carries(conn[t], [thread |-> t, n |-> n[t]])'
  <2>1. PICK c \in Conn : c = conn[t]
    BY <1>1
  <2>2. PICK r : r = [thread |-> t, n |-> n[t]]
    OBVIOUS
  <2>3. Carries(c, r)'
    BY <1>1, <2>1, <2>2 DEF OneRequest
  <2>4. conn'[t] = c /\ r = [thread |-> t, n |-> n'[t]]
    BY <1>1, <2>1, <2>2
  <2>5. QED
    BY <2>3, <2>4 DEF Carries, Waiting
<1>2. ASSUME NEW c \in Conn
      PROVE  Quiet(c)' \/ \E t \in Thread : conn'[t] = c /\ pc'[t] = "read"
  BY DEF OneRequest
<1>3. QED
  BY <1>1, <1>2 DEF OneRequest

LEMMA DiscardKeeps ==
  ASSUME OneRequest, NEW S, Discard(S),
         \A t \in Thread : pc'[t] = "read" =>
           /\ pc[t] = "read" /\ conn[t] \in Conn \ S
           /\ conn'[t] = conn[t] /\ n'[t] = n[t],
         \A t \in Thread : pc[t] = "read" => pc'[t] = "read" \/ conn[t] \in S
  PROVE  OneRequest'
<1>1. \A c \in Conn : /\ c \in S => Quiet(c)'
                      /\ c \notin S => inbox'[c] = inbox[c] /\ outbox'[c] = outbox[c]
  BY DiscardUnderWay
<1>2. ASSUME NEW t \in Thread, pc'[t] = "read"
      PROVE  Carries(conn[t], [thread |-> t, n |-> n[t]])'
  <2>1. PICK c \in Conn : c = conn[t]
    BY <1>2
  <2>2. PICK r : r = [thread |-> t, n |-> n[t]]
    OBVIOUS
  <2>3. c \notin S /\ Carries(c, r)
    BY <1>2, <2>1, <2>2 DEF OneRequest
  <2>4. Carries(c, r)'
    BY <1>1, <2>3, UnderWayKept
  <2>5. conn'[t] = c /\ r = [thread |-> t, n |-> n'[t]]
    BY <1>2, <2>1, <2>2
  <2>6. QED
    BY <2>4, <2>5 DEF Carries, Waiting
<1>3. ASSUME NEW c \in Conn
      PROVE  Quiet(c)' \/ \E t \in Thread : conn'[t] = c /\ pc'[t] = "read"
  <2>1. CASE c \in S
    BY <1>1, <2>1
  <2>2. CASE c \notin S /\ Quiet(c)
    BY <1>1, <2>2, UnderWayKept
  <2>3. ASSUME c \notin S, NEW t \in Thread, conn[t] = c, pc[t] = "read"
        PROVE  conn'[t] = c /\ pc'[t] = "read"
    BY <2>3
  <2>4. QED
    BY <2>1, <2>2, <2>3 DEF OneRequest
<1>4. \A c \in Conn : \A i \in DOMAIN body'[c] : body'[c][i].kind = "chunks"
  <2>1. \A c \in Conn : body'[c] = <<>> \/ body'[c] = body[c]
    BY DEF Discard
  <2>2. QED
    BY <2>1 DEF OneRequest
<1>5. QED
  BY <1>2, <1>3, <1>4 DEF OneRequest

LEMMA DropKeeps ==
  ASSUME TypeOK, Exclusive, OneRequest, NEW t \in Thread, NEW next \in {"idle", "get"},
         Drop(t, next)
  PROVE  OneRequest'
<1>1. /\ Discard({conn[t]} \ ConnsOf(list)) /\ n' = n
      /\ conn' = [conn EXCEPT ![t] = NoConn] /\ pc' = [pc EXCEPT ![t] = next]
  BY DEF Drop, AfterDrop, RawTaken
<1>2. Discard({conn[t]})
  <2>1. {conn[t]} \ ConnsOf(list) = {conn[t]}
    BY DEF Exclusive
  <2>2. QED
    BY <1>1, <2>1
<1>3. ASSUME NEW u \in Thread, pc'[u] = "read"
      PROVE  /\ pc[u] = "read" /\ conn[u] \in Conn \ {conn[t]}
             /\ conn'[u] = conn[u]
  <2>1. u # t /\ pc[u] = "read" /\ conn'[u] = conn[u]
    BY <1>1, <1>3 DEF TypeOK
  <2>2. conn[u] \in Conn /\ conn[u] # NoConn
    BY <2>1 DEF TypeOK
  <2>3. QED
    BY <2>1, <2>2 DEF Exclusive
<1>4. \A u \in Thread : pc[u] = "read" => pc'[u] = "read" \/ conn[u] \in {conn[t]}
  BY <1>1 DEF TypeOK
<1>5. QED
  BY <1>1, <1>2, <1>3, <1>4, DiscardKeeps

LEMMA OneRequestKept ==
  ASSUME TypeOK, Exclusive, OneRequest, [Next]_vars
  PROVE  OneRequest'
<1>1. /\ pc \in [Thread -> {"idle", "get", "connect", "send", "write", "read", "reuse"}]
      /\ conn \in [Thread -> Conn \cup {NoConn}] /\ NoConn \notin Conn
      /\ \A t \in Thread : conn[t] = NoConn <=> pc[t] \in {"idle", "get", "connect"}
  BY ClientAssumption DEF TypeOK
<1>2. /\ \A t \in Thread : pc[t] = "read" => conn[t] \in Conn
      /\ \A c \in Conn : \A i \in DOMAIN body[c] : body[c][i].kind = "chunks"
  BY <1>1 DEF OneRequest
<1>3. ASSUME inbox' = inbox, outbox' = outbox, body' = body,
             \A t \in Thread : pc'[t] = "read" <=> pc[t] = "read",
             \A t \in Thread : pc[t] = "read" => conn'[t] = conn[t] /\ n'[t] = n[t]
      PROVE  OneRequest'
  BY <1>2, <1>3, UnderWayKept, ReadersKeep
<1>4. CASE UNCHANGED vars
  BY <1>3, <1>4 DEF vars, netVars, callVars
<1>5. CASE Tick
  BY <1>3, <1>5 DEF Tick, netVars
<1>6. ASSUME NEW c \in Conn, Server(c)
      PROVE  OneRequest'
  <2>1. pc' = pc /\ conn' = conn /\ n' = n
    BY <1>6 DEF Server, RespondSized, RespondHead, RespondChunks, ServerCloses, callVars
  <2>2. ASSUME NEW d \in Conn
        PROVE  /\ Quiet(d) => Quiet(d)'
               /\ \A r : Carries(d, r) => Carries(d, r)'
               /\ \A i \in DOMAIN body'[d] : body'[d][i].kind = "chunks"
    BY <1>2, <1>6, ServerUnderWay
  <2>3. QED
    BY <1>2, <2>1, <2>2, ReadersKeep
<1>7. ASSUME NEW t \in Thread, NEW dur, Start(t, dur)
      PROVE  OneRequest'
  <2>1. /\ pc[t] = "idle" /\ pc' = [pc EXCEPT ![t] = "get"] /\ conn' = conn
        /\ \A u \in Thread : u # t => n'[u] = n[u]
        /\ inbox' = inbox /\ outbox' = outbox /\ body' = body
    BY <1>7 DEF Start, TypeOK, netVars
  <2>2. QED
    BY <1>1, <1>3, <2>1
<1>8. ASSUME NEW t \in Thread, Step(t)
      PROVE  OneRequest'
  <2>1. ASSUME NEW S \in SUBSET ConnsOf(list), Discard(S), n' = n, NEW c, NEW next,
               pc[t] = "get", next # "read",
               conn' = [conn EXCEPT ![t] = c], pc' = [pc EXCEPT ![t] = next]
        PROVE  OneRequest'
    <3>1. \A u \in Thread : u # t => conn'[u] = conn[u] /\ pc'[u] = pc[u]
      BY <1>1, <2>1
    <3>2. pc[t] # "read" /\ pc'[t] # "read"
      BY <1>1, <2>1
    <3>3. \A u \in Thread : conn[u] \notin S
      BY <2>1 DEF Exclusive
    <3>4. QED
      BY <1>2, <2>1, <3>1, <3>2, <3>3, DiscardKeeps
  <2>2. CASE GetPooled(t)
    <3> DEFINE i == FreshIndex
    <3>1. list \in Seq(Entry) /\ Len(list) \in Nat
      BY DEF TypeOK
    <3>2. i \in 1..Len(list)
      BY <2>2, <3>1, FreshIndexPlace DEF GetPooled
    <3>3. /\ pc[t] = "get" /\ Discard(ConnsOf(SubSeq(list, i + 1, Len(list))))
          /\ n' = n /\ conn' = [conn EXCEPT ![t] = list[i].conn]
          /\ pc' = [pc EXCEPT ![t] = "send"]
      BY <2>2 DEF GetPooled, Guard
    <3> HIDE DEF i
    <3>4. ConnsOf(SubSeq(list, i + 1, Len(list))) \subseteq ConnsOf(list)
      BY <3>1, <3>2, SuffixPlaces DEF ConnsOf
    <3>5. QED
      BY <2>1, <3>3, <3>4
  <2>3. CASE PoolEmpty(t)
    <3>1. /\ pc[t] = "get" /\ Discard(ConnsOf(list)) /\ n' = n /\ conn' = conn
          /\ pc' = [pc EXCEPT ![t] = "connect"]
      BY <2>3 DEF PoolEmpty
    <3>2. conn' = [conn EXCEPT ![t] = conn[t]]
      BY <1>1, <3>1
    <3>3. QED
      BY <2>1, <3>1, <3>2
  <2>4. ASSUME NEW c \in Conn, Connect(t, c)
        PROVE  OneRequest'
    <3>1. /\ pc[t] = "connect" /\ pc' = [pc EXCEPT ![t] = "send"]
          /\ conn' = [conn EXCEPT ![t] = c] /\ n' = n
          /\ inbox' = inbox /\ outbox' = outbox /\ body' = body
      BY <2>4 DEF Connect, Guard
    <3>2. QED
      BY <1>1, <1>3, <3>1
  <2>5. CASE ConnectFails(t) \/ Reuse(t)
    <3>1. /\ pc[t] # "read" /\ pc' = [pc EXCEPT ![t] = "idle"] /\ n' = n
          /\ \A u \in Thread : u # t => conn'[u] = conn[u]
          /\ inbox' = inbox /\ outbox' = outbox /\ body' = body
      BY <1>1, <2>5 DEF ConnectFails, Reuse, netVars
    <3>2. QED
      BY <1>1, <1>3, <3>1
  <2>6. CASE Written(t)
    <3>1. PICK c \in Conn : c = conn[t]
      BY <1>1, <2>6 DEF Written
    <3>2. PICK r : r = [thread |-> t, n |-> n[t]]
      OBVIOUS
    <3>3. /\ pc[t] = "write" /\ pc' = [pc EXCEPT ![t] = "read"]
          /\ inbox' = [inbox EXCEPT ![c] = IF up[c] THEN Append(@, r) ELSE @]
          /\ outbox' = outbox /\ body' = body /\ conn' = conn /\ n' = n
      BY <2>6, <3>1, <3>2 DEF Written
    <3>4. Quiet(c)
      BY <1>1, <3>1, <3>3 DEF OneRequest, Exclusive
    <3>5. inbox'[c] = <<>> \/ inbox'[c] = <<r>>
      BY <3>3, <3>4 DEF Quiet, TypeOK
    <3>6. Carries(c, r)'
      BY <3>3, <3>4, <3>5 DEF Carries, Quiet, Waiting
    <3>7. \A d \in Conn : d # c => inbox'[d] = inbox[d] /\ outbox'[d] = outbox[d]
      BY <3>3 DEF TypeOK
    <3>8. ASSUME NEW u \in Thread, pc'[u] = "read"
          PROVE  Carries(conn[u], [thread |-> u, n |-> n[u]])'
      <4>1. CASE u = t
        <5>1. conn'[u] = c /\ r = [thread |-> u, n |-> n'[u]]
          BY <3>1, <3>2, <3>3, <4>1
        <5>2. QED
          BY <3>6, <5>1 DEF Carries, Waiting
      <4>2. CASE u # t
        <5>1. PICK d : d = conn[u]
          OBVIOUS
        <5>2. PICK q : q = [thread |-> u, n |-> n[u]]
          OBVIOUS
        <5>3. pc[u] = "read" /\ d \in Conn /\ d # c
          BY <1>1, <3>1, <3>3, <3>8, <4>2, <5>1 DEF Exclusive
        <5>4. Carries(d, q)'
          BY <3>7, <5>1, <5>2, <5>3, UnderWayKept DEF OneRequest
        <5>5. d = conn'[u] /\ q = [thread |-> u, n |-> n'[u]]
          BY <3>3, <5>1, <5>2
        <5>6. QED
          BY <5>4, <5>5 DEF Carries, Waiting
      <4>3. QED
        BY <4>1, <4>2
    <3>9. ASSUME NEW d \in Conn
          PROVE  Quiet(d)' \/ \E u \in Thread : conn'[u] = d /\ pc'[u] = "read"
      <4>1. CASE d = c
        BY <1>1, <3>1, <3>3, <4>1
      <4>2. CASE d # c
        <5>1. Quiet(d) => Quiet(d)'
          BY <3>7, <4>2, UnderWayKept
        <5>2. \A u \in Thread : pc[u] = "read" => pc'[u] = "read"
          BY <1>1, <3>3
        <5>3. QED
          BY <3>3, <5>1, <5>2 DEF OneRequest
      <4>3. QED
        BY <4>1, <4>2
    <3>10. QED
      BY <1>2, <3>3, <3>8, <3>9 DEF OneRequest
  <2>7. ASSUME NEW k \in 1..(IF conn[t] = NoConn THEN 0 ELSE Len(outbox[conn[t]])),
               ReadResponse(t, k)
        PROVE  OneRequest'
    <3>1. /\ pc[t] = "read" /\ pc' = [pc EXCEPT ![t] = "reuse"]
          /\ body' = body /\ conn' = conn /\ n' = n
      BY <2>7 DEF ReadResponse
    <3>2. PICK c \in Conn : c = conn[t]
      BY <1>2, <3>1
    <3>3. k \in 1..Len(outbox[c])
      BY <1>1, <2>7, <3>2
    <3>4. /\ Quiet(c)'
          /\ \A d \in Conn : d # c => inbox'[d] = inbox[d] /\ outbox'[d] = outbox[d]
      BY <2>7, <3>2, <3>3, ReadUnderWay
    <3>5. ASSUME NEW u \in Thread, pc'[u] = "read"
          PROVE  Carries(conn[u], [thread |-> u, n |-> n[u]])'
      <4>1. PICK d : d = conn[u]
        OBVIOUS
      <4>2. PICK q : q = [thread |-> u, n |-> n[u]]
        OBVIOUS
      <4>3. u # t /\ pc[u] = "read"
        BY <1>1, <3>1, <3>5
      <4>4. d \in Conn /\ d # c
        BY <1>1, <3>2, <4>1, <4>3 DEF Exclusive
      <4>5. Carries(d, q)'
        BY <3>4, <4>1, <4>2, <4>3, <4>4, UnderWayKept DEF OneRequest
      <4>6. d = conn'[u] /\ q = [thread |-> u, n |-> n'[u]]
        BY <3>1, <4>1, <4>2
      <4>7. QED
        BY <4>5, <4>6 DEF Carries, Waiting
    <3>6. ASSUME NEW d \in Conn
          PROVE  Quiet(d)' \/ \E u \in Thread : conn'[u] = d /\ pc'[u] = "read"
      <4>1. CASE d = c
        BY <3>4, <4>1
      <4>2. CASE d # c
        <5>1. Quiet(d) => Quiet(d)'
          BY <3>4, <4>2, UnderWayKept
        <5>2. \A u \in Thread : pc[u] = "read" /\ conn[u] # c => pc'[u] = "read"
          BY <1>1, <3>1, <3>2
        <5>3. QED
          BY <3>1, <4>2, <5>1, <5>2 DEF OneRequest
      <4>3. QED
        BY <4>1, <4>2
    <3>7. QED
      BY <1>2, <3>1, <3>5, <3>6 DEF OneRequest
  <2>8. CASE Send(t) \/ ReadPart(t) \/ ReadAgain(t)
    BY <1>1, <1>3, <2>8 DEF Send, ReadPart, ReadAgain, netVars
  <2>9. CASE Expired(t) \/ SendFails(t) \/ ReadFails(t) \/ Retry(t) \/ GiveUp(t)
    BY <2>9, DropKeeps DEF Expired, SendFails, ReadFails, Retry, GiveUp, Fail
  <2>10. QED
    BY <1>8, <2>2, <2>3, <2>4, <2>5, <2>6, <2>7, <2>8, <2>9
    DEF Step, Connecting, Writing, Running
<1>9. QED
  BY <1>4, <1>5, <1>6, <1>7, <1>8 DEF Next

-----------------------------------------------------------------------------
(* What a call returns.                                                    *)

LEMMA OwnResponseKept ==
  ASSUME TypeOK, OneRequest, OwnResponse, [Next]_vars
  PROVE  OwnResponse'
<1>1. /\ pc \in [Thread -> {"idle", "get", "connect", "send", "write", "read", "reuse"}]
      /\ n \in [Thread -> 0..MaxRequests] /\ result \in [Thread -> Result]
  BY DEF TypeOK
<1>2. ASSUME UNCHANGED <<pc, n, result>>
      PROVE  OwnResponse'
  BY <1>2 DEF OwnResponse
<1>3. ASSUME NEW t \in Thread, n' = n, NEW next, pc' = [pc EXCEPT ![t] = next],
             \/ result' = result /\ (next \notin {"reuse", "idle"} \/ pc[t] = "reuse")
             \/ \E status \in {"ok", "error", "timeout", "EOF"}, whole \in BOOLEAN :
                  result' = [result EXCEPT ![t] = Outcome(t, status, whole)]
      PROVE  OwnResponse'
  <2>1. \A u \in Thread : u # t => pc'[u] = pc[u] /\ result'[u] = result[u]
    BY <1>1, <1>3
  <2>2. pc'[t] \in {"reuse", "idle"} /\ n[t] > 0 =>
          result'[t].n = n[t] /\ result'[t].status # "stale"
    BY <1>1, <1>3 DEF OwnResponse, Outcome
  <2>3. QED
    BY <1>3, <2>1, <2>2 DEF OwnResponse
<1>4. ASSUME NEW t \in Thread, NEW status \in {"error", "timeout", "EOF"}, Fail(t, status)
      PROVE  OwnResponse'
  BY <1>3, <1>4 DEF Fail, Drop
<1>5. CASE UNCHANGED vars \/ Tick \/ \E c \in Conn : Server(c)
  BY <1>2, <1>5 DEF vars, callVars, Tick, Server, RespondSized, RespondHead, RespondChunks,
                    ServerCloses
<1>6. ASSUME NEW t \in Thread, NEW dur, Start(t, dur)
      PROVE  OwnResponse'
  <2>1. \A u \in Thread : IF u = t THEN pc'[u] = "get"
                                   ELSE pc'[u] = pc[u] /\ n'[u] = n[u] /\ result'[u] = result[u]
    BY <1>1, <1>6 DEF Start
  <2>2. QED
    BY <2>1 DEF OwnResponse
<1>7. ASSUME NEW t \in Thread, Step(t)
      PROVE  OwnResponse'
  <2>1. CASE GetPooled(t) \/ PoolEmpty(t)
    BY <1>3, <2>1 DEF GetPooled, PoolEmpty, Guard
  <2>2. ASSUME NEW c \in Conn, Connect(t, c)
        PROVE  OwnResponse'
    BY <1>3, <2>2 DEF Connect, Guard
  <2>3. CASE ConnectFails(t)
    BY <1>3, <2>3 DEF ConnectFails
  <2>4. CASE Send(t) \/ Written(t) \/ Reuse(t)
    BY <1>3, <2>4 DEF Send, Written, Reuse
  <2>5. ASSUME NEW k \in 1..(IF conn[t] = NoConn THEN 0 ELSE Len(outbox[conn[t]])),
               ReadResponse(t, k)
        PROVE  OwnResponse'
    <3>1. PICK c \in Conn : c = conn[t]
      BY <2>5 DEF ReadResponse, TypeOK
    <3>2. k \in 1..Len(outbox[c]) /\ outbox[c] \in Seq(Segment) /\ Len(outbox[c]) \in Nat
      BY <2>5, <3>1, ClientAssumption DEF TypeOK
    <3>3. /\ SubSeq(outbox[c], 1, k)[1] = outbox[c][1]
          /\ outbox[c][1].req = [thread |-> t, n |-> n[t]]
      BY <2>5, <3>1, <3>2, ReadUnderWay
    <3>4. /\ outbox[c][1].req.thread = t
          /\ outbox[c][1].req.n = n[t]
      BY <3>3
    <3>5. result' = [result EXCEPT ![t] =
                       Outcome(t, "ok", SubSeq(outbox[c], 1, k)[1].kind = "full" \/ k > 1)]
      BY <2>5, <3>1, <3>3, <3>4 DEF ReadResponse, Outcome
    <3>6. n' = n /\ pc' = [pc EXCEPT ![t] = "reuse"]
      BY <2>5 DEF ReadResponse
    <3>7. QED
      BY <1>3, <3>5, <3>6
  <2>6. CASE Expired(t) \/ SendFails(t) \/ ReadFails(t) \/ GiveUp(t)
    BY <1>4, <2>6 DEF Expired, SendFails, ReadFails, GiveUp
  <2>7. CASE ReadPart(t) \/ ReadAgain(t)
    BY <1>2, <2>7 DEF ReadPart, ReadAgain
  <2>8. CASE Retry(t)
    BY <1>3, <2>8 DEF Retry, Drop
  <2>9. QED
    BY <1>7, <2>1, <2>2, <2>3, <2>4, <2>5, <2>6, <2>7, <2>8
    DEF Step, Connecting, Writing, Running
<1>8. QED
  BY <1>5, <1>6, <1>7 DEF Next

\* What is left when a read times out.
LEMMA TimelyKept ==
  ASSUME TypeOK, Timely, NoResendOnTimeout, [Next]_vars
  PROVE  Timely' /\ NoResendOnTimeout'
<1> USE ClientAssumption
<1>1. /\ pc \in [Thread -> {"idle", "get", "connect", "send", "write", "read", "reuse"}]
      /\ {left, wait, timeout} \subseteq [Thread -> 0..Forever] /\ Forever = Timeout + 1
      /\ lost \in [Thread -> {"none", "closed", "silent"}]
  BY DEF TypeOK, Forever
<1> DEFINE Same(t) == /\ pc'[t] = pc[t] /\ left'[t] = left[t] /\ wait'[t] = wait[t]
                      /\ timeout'[t] = timeout[t] /\ lost'[t] = lost[t]
           Good(t) == /\ pc'[t] \in {"write", "read"} =>
                           left'[t] <= timeout'[t] /\ lost'[t] # "silent"
                      /\ pc'[t] = "read" => left'[t] <= wait'[t]
                      /\ pc'[t] \in {"get", "connect", "send"} /\ lost'[t] = "silent" =>
                           left'[t] = 0
<1>2. ASSUME \A t \in Thread : Same(t) \/ Good(t)
      PROVE  Timely' /\ NoResendOnTimeout'
  <2>1. \A t \in Thread : Good(t)
    BY <1>2 DEF Timely, NoResendOnTimeout
  <2>2. QED
    BY <2>1 DEF Timely, NoResendOnTimeout
<1>3. CASE UNCHANGED vars \/ \E c \in Conn : Server(c)
  BY <1>2, <1>3 DEF vars, callVars, timeVars, Server, RespondSized, RespondHead, RespondChunks,
                    ServerCloses
<1>4. CASE Tick
  <2>1. /\ \A time \in 0..Forever : Less(time) <= time /\ (time = 0 => Less(time) = 0)
        /\ \A time, other \in 0..Forever : time <= other => Less(time) <= Less(other)
        /\ \A time \in 0..Forever : Less(time) \in 0..Forever
    BY <1>1 DEF Less
  <2>2. /\ pc' = pc /\ lost' = lost /\ timeout' = timeout
        /\ left' = [t \in Thread |-> Less(left[t])] /\ wait' = [t \in Thread |-> Less(wait[t])]
    BY <1>4 DEF Tick
  <2>3. ASSUME NEW t \in Thread
        PROVE  Good(t)
    <3>1. left[t] \in 0..Forever /\ wait[t] \in 0..Forever /\ timeout[t] \in 0..Forever
      BY <1>1
    <3>2. left'[t] = Less(left[t]) /\ wait'[t] = Less(wait[t])
      BY <2>2
    <3>3. left'[t] <= left[t] /\ (left[t] = 0 => left'[t] = 0) /\ left'[t] \in 0..Forever
      BY <2>1, <3>1, <3>2
    <3>4. left[t] <= wait[t] => left'[t] <= wait'[t]
      BY <2>1, <3>1, <3>2
    <3>5. QED
      BY <1>1, <2>2, <3>1, <3>3, <3>4 DEF Timely, NoResendOnTimeout
  <2>4. QED
    BY <1>2, <2>3
<1>5. ASSUME NEW t \in Thread, NEW dur, Start(t, dur)
      PROVE  Timely' /\ NoResendOnTimeout'
  <2>1. /\ pc'[t] = "get" /\ lost'[t] = "none"
        /\ \A u \in Thread : u # t => Same(u)
    BY <1>1, <1>5 DEF Start
  <2>2. QED
    BY <1>2, <2>1
<1>6. ASSUME NEW t \in Thread, Step(t)
      PROVE  Timely' /\ NoResendOnTimeout'
  <2>1. \A u \in Thread : u # t => Same(u)
    BY <1>1, <1>6 DEF Step, Connecting, Writing, Running, GetPooled, Guard, PoolEmpty, Connect,
         ConnectFails, Expired, Send, Written, SendFails, ReadPart, ReadResponse, ReadFails,
         ReadAgain, Retry, GiveUp, Reuse, Fail, Drop, timeVars
  <2>2. CASE GetPooled(t) \/ PoolEmpty(t) \/ \E c \in Conn : Connect(t, c)
    <3>1. /\ pc[t] \in {"get", "connect"} /\ pc'[t] \in {"connect", "send"}
          /\ lost' = lost /\ left' = left
      BY <1>1, <2>2 DEF GetPooled, Guard, PoolEmpty, Connect, timeVars
    <3>2. Good(t)
      BY <3>1 DEF Timely
    <3>3. QED
      BY <1>2, <2>1, <3>2
  <2>3. CASE \/ ConnectFails(t) \/ Expired(t) \/ SendFails(t) \/ ReadFails(t) \/ GiveUp(t)
             \/ Reuse(t) \/ \E k \in Nat : ReadResponse(t, k)
    <3>1. pc'[t] \in {"idle", "reuse"}
      BY <1>1, <2>3 DEF ConnectFails, Expired, SendFails, ReadFails, GiveUp, Reuse,
                        ReadResponse, Fail, Drop
    <3>2. QED
      BY <1>2, <2>1, <3>1
  <2>4. CASE Send(t)
    <3>1. /\ pc[t] = "send" /\ pc'[t] = "write" /\ left[t] > 0
          /\ timeout'[t] = left[t] /\ left' = left /\ lost' = lost
      BY <1>1, <2>4 DEF Send, MayGoOn
    <3>2. left[t] \in 0..Forever
      BY <1>1
    <3>3. Good(t)
      BY <1>1, <3>1, <3>2 DEF Timely
    <3>4. QED
      BY <1>2, <2>1, <3>3
  <2>5. CASE Written(t) \/ ReadPart(t) \/ ReadAgain(t)
    <3>1. /\ pc[t] \in {"write", "read"} /\ pc'[t] = "read" /\ wait'[t] = timeout[t]
          /\ timeout' = timeout /\ left' = left /\ lost' = lost
      BY <1>1, <2>5 DEF Written, ReadPart, ReadAgain
    <3>2. Good(t)
      BY <3>1 DEF Timely, NoResendOnTimeout
    <3>3. QED
      BY <1>2, <2>1, <3>2
  <2>6. CASE Retry(t)
    <3>1. /\ pc[t] = "read" /\ pc'[t] = "get" /\ left' = left
          /\ lost'[t] = IF up[conn[t]] THEN "silent" ELSE "closed"
          /\ ~up[conn[t]] \/ wait[t] = 0
      BY <1>1, <2>6 DEF Retry, Ended, Drop, timeVars
    <3>2. left[t] \in 0..Forever /\ left[t] <= wait[t]
      BY <1>1, <3>1 DEF Timely
    <3>3. wait[t] = 0 => left[t] = 0
      BY <1>1, <3>2
    <3>4. Good(t)
      BY <3>1, <3>3
    <3>5. QED
      BY <1>2, <2>1, <3>4
  <2>7. ASSUME NEW k \in 1..(IF conn[t] = NoConn THEN 0 ELSE Len(outbox[conn[t]])),
               ReadResponse(t, k)
        PROVE  Timely' /\ NoResendOnTimeout'
    <3>1. k \in Nat
      OBVIOUS
    <3>2. QED
      BY <2>3, <2>7, <3>1
  <2>8. QED
    BY <1>6, <2>2, <2>3, <2>4, <2>5, <2>6, <2>7 DEF Step, Connecting, Writing, Running
<1>7. QED
  BY <1>3, <1>4, <1>5, <1>6 DEF Next

-----------------------------------------------------------------------------
(* The invariant.                                                          *)

LEMMA InitInv ==
  ASSUME Init
  PROVE  ClientInv
<1> USE ClientAssumption
<1>1. /\ <<>> \in Seq(Request) /\ <<>> \in Seq(Segment) /\ <<>> \in Seq(Entry)
      /\ DOMAIN <<>> = {}
  OBVIOUS
<1>2. [status |-> "none", n |-> 0, whole |-> FALSE] \in Result
  BY DEF Result
<1>3. TypeOK
  BY <1>1, <1>2 DEF Init, TypeOK, Forever
<1>4. Exclusive
  BY <1>1 DEF Init, Exclusive, ConnsOf
<1>5. OneRequest
  BY <1>1 DEF Init, OneRequest, Quiet, Waiting
<1>6. OwnResponse /\ Timely /\ NoResendOnTimeout
  BY DEF Init, OwnResponse, Timely, NoResendOnTimeout
<1>7. QED
  BY <1>3, <1>4, <1>5, <1>6 DEF ClientInv

\* Every step of the pool, of a call, of the server or of time keeps the
\* invariant.
THEOREM Invariance == Spec => []ClientInv
<1>1. Init => ClientInv
  BY InitInv
<1>2. ClientInv /\ [Next]_vars => ClientInv'
  BY TypeKept, ExclusiveKept, OneRequestKept, OwnResponseKept, TimelyKept DEF ClientInv
<1>3. QED
  BY <1>1, <1>2, PTL DEF Spec

\* The variables have their types, and a connection is held exactly from
\* get() to the end of the call.
THEOREM TypeCorrect == Spec => []TypeOK
<1>1. ClientInv => TypeOK
  BY DEF ClientInv
<1>2. QED
  BY <1>1, Invariance, PTL

\* However many threads call get() and drop or reuse their guards at once,
\* a connection is with one of them or once in the list (conn_pool.rs:44).
THEOREM NoSharing == Spec => []Exclusive
<1>1. ClientInv => Exclusive
  BY DEF ClientInv
<1>2. QED
  BY <1>1, Invariance, PTL

\* A call returns the response to its own request, on a pooled connection
\* too: only an idle connection goes back to the pool (http_client.rs:61).
THEOREM ResponseOwned == Spec => []OwnResponse
<1>1. ClientInv => OwnResponse
  BY DEF ClientInv
<1>2. QED
  BY <1>1, Invariance, PTL

\* No request is written again because its response is slow: by the time a
\* call has waited for it in vain, its deadline has passed (http_client.rs:45).
THEOREM SlowNotResent == Spec => []NoResendOnTimeout
<1>1. ClientInv => NoResendOnTimeout
  BY DEF ClientInv
<1>2. QED
  BY <1>1, Invariance, PTL
=============================================================================
