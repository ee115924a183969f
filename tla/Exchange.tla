------------------------------ MODULE Exchange ------------------------------
(***************************************************************************)
(* What an HTTP server promises its clients, with nothing of how it keeps  *)
(* the promise: on each connection the requests are taken in the order in  *)
(* which they were sent and answered in the order in which they were       *)
(* taken, each at most once, until the conversation ends.  HttpServer      *)
(* implements it, and so does WsServer.                                    *)
(***************************************************************************)
EXTENDS Naturals, Sequences

CONSTANT Client

VARIABLES
  state,    (* whether the conversation of a client is new, open or over   *)
  asked,    (* how many requests it has sent                               *)
  taken,    (* how many of them were taken                                 *)
  replies   (* the responses it has received                               *)

vars == <<state, asked, taken, replies>>

Init ==
  /\ state = [c \in Client |-> "new"]
  /\ asked = [c \in Client |-> 0]
  /\ taken = [c \in Client |-> 0]
  /\ replies = [c \in Client |-> <<>>]

Open(c) ==
  /\ state[c] = "new"
  /\ state' = [state EXCEPT ![c] = "open"]
  /\ UNCHANGED <<asked, taken, replies>>

Ask(c) ==
  /\ state[c] = "open"
  /\ asked' = [asked EXCEPT ![c] = @ + 1]
  /\ UNCHANGED <<state, taken, replies>>

\* What is owed to c.
Due(c) == taken[c] - Len(replies[c])

\* The next k responses to requests of c.
NextReplies(c, k) == [i \in 1..k |-> [client |-> c, n |-> Len(replies[c]) + i]]

\* The next k responses reach c, and the next request is taken if take = 1.
Serve(c, k, take) ==
  /\ state[c] = "open"
  /\ taken[c] + take <= asked[c]
  /\ taken' = [taken EXCEPT ![c] = @ + take]
  /\ replies' = [replies EXCEPT ![c] = @ \o NextReplies(c, k)]
  /\ UNCHANGED <<state, asked>>

\* What a client sent before it left may still be taken; nobody is answered.
TakeLate(c) ==
  /\ state[c] = "over"
  /\ taken[c] < asked[c]
  /\ taken' = [taken EXCEPT ![c] = @ + 1]
  /\ UNCHANGED <<state, asked, replies>>

\* Clients leave and the server closes connections, several in one step.
End(S) ==
  /\ \A c \in S : state[c] = "open"
  /\ state' = [c \in Client |-> IF c \in S THEN "over" ELSE state[c]]
  /\ UNCHANGED <<asked, taken, replies>>

\* The server hangs up behind the next k responses.
Dismiss(c, k) ==
  /\ state[c] = "open"
  /\ state' = [state EXCEPT ![c] = "over"]
  /\ replies' = [replies EXCEPT ![c] = @ \o NextReplies(c, k)]
  /\ UNCHANGED <<asked, taken>>

Reply(c) == \E k \in 1..Due(c), take \in 0..1 : Serve(c, k, take)

Next ==
  \/ \E c \in Client : Open(c) \/ Ask(c) \/ Serve(c, 0, 1) \/ Reply(c) \/ TakeLate(c)
  \/ \E c \in Client : \E k \in 1..Due(c) : Dismiss(c, k)
  \/ \E S \in SUBSET Client : End(S)

Spec == Init /\ [][Next]_vars

\* Whoever stays is answered.
Fairness == \A c \in Client : WF_vars(Reply(c))
=============================================================================
