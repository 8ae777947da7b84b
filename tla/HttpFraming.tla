----------------------------- MODULE HttpFraming -----------------------------
(***************************************************************************)
(* One connection as HandleClient sees it (server/WifiDropServer.cpp):     *)
(* ReceiveHttpRequest cuts a request out of a TCP stream that arrives in   *)
(* pieces of any size, a handler makes an answer or keeps the socket,      *)
(* SendAll sends an answer in pieces, and the socket is closed.            *)
(*                                                                         *)
(* A request is abstracted to its sizes.  Bytes are counted from its start *)
(* and keep their order, so "the first n bytes" names a piece of it.       *)
(***************************************************************************)
EXTENDS Naturals

CONSTANTS Requests,       \* what phones send
          MaxHeader,      \* kMaxHeaderSize
          Chunk,          \* the size of the receive buffer
          AnswerSizes,    \* how long the answers are
          Undeclared      \* no Content-Length

ASSUME SizesAssumption ==
    /\ MaxHeader \in Nat
    /\ Chunk \in Nat \ {0}
    /\ AnswerSizes \subseteq Nat \ {0}
    /\ Undeclared \notin Nat

ASSUME RequestsAssumption ==
    Requests \subseteq
        [head : Nat \ {0},                \* up to and with the empty line
         body : Nat,                      \* the bytes the phone has after it
         declared : Nat \cup {Undeclared},  \* Content-Length
         valid : BOOLEAN,                 \* request line and length can be parsed
         hasBody : BOOLEAN]               \* PUT or POST

VARIABLES request,   \* what the phone sends
          sent,      \* how many of its bytes are in the stream
          link,      \* "up", "finished" by the phone, or "reset"
          received,  \* how many bytes recv has returned
          pc,        \* the thread
          body,      \* how many bytes of the body the handler gets
          answer,    \* the size of the answer
          offset     \* how much of it is sent

vars == <<request, sent, link, received, pc, body, answer, offset>>

Receiving == {"header", "body", "toEnd"}

\* "kept": a session has the socket.  "thrown": an exception has ended the process.
Taken == {"handle", "answer", "closed", "kept", "thrown"}
Total == request.head + request.body

TypeOK ==
    /\ request \in Requests
    /\ sent \in 0..Total
    /\ link \in {"up", "finished", "reset"}
    /\ received \in 0..sent
    /\ pc \in Receiving \cup Taken \cup {"refused"}
    /\ body \in 0..request.body
    /\ answer \in {0} \cup AnswerSizes
    /\ offset \in 0..answer

Init ==
    /\ request \in Requests
    /\ link = "up"
    /\ pc = "header"
    /\ sent = 0 /\ received = 0 /\ body = 0 /\ answer = 0 /\ offset = 0

-----------------------------------------------------------------------------
(* The phone and the network. *)

PhoneSends ==
    /\ link = "up"
    /\ \E n \in (sent + 1)..Total : sent' = n
    /\ UNCHANGED <<request, link, received, pc, body, answer, offset>>

\* The phone shuts down its side, having sent everything or not.
PhoneFinishes ==
    /\ link = "up"
    /\ link' = "finished"
    /\ UNCHANGED <<request, sent, received, pc, body, answer, offset>>

\* The connection breaks, or Stop closes the socket.
LinkBreaks ==
    /\ link # "reset"
    /\ link' = "reset"
    /\ UNCHANGED <<request, sent, received, pc, body, answer, offset>>

-----------------------------------------------------------------------------
(* ReceiveHttpRequest. *)

\* recv returns the next bytes, up to the nth.
Recv(n) ==
    /\ n \in (received + 1)..sent
    /\ n =< received + Chunk
    /\ received' = n
    /\ UNCHANGED <<request, sent, link, answer, offset>>

Refuse == pc' = "refused" /\ UNCHANGED body

\* A PUT or POST without a length is read until the phone finishes.
ReadsToEnd == request.hasBody /\ request.declared = Undeclared

\* Mutated form: a body that has come whole waits for one byte more.
LacksOneMore(n) == request.declared # Undeclared /\ n - request.head =< request.declared

\* Mutated form: the header is counted as part of the body.
LacksBodyAndHeader(n) == request.declared # Undeclared /\ n < request.declared

\* Bytes of a declared body are missing from the first n.
LacksBody(n) == request.declared # Undeclared /\ n - request.head < request.declared

\* A declared body is cut to its length, any other is what has come.
Hand(n) ==
    /\ pc' = "handle"
    /\ body' = IF request.declared = Undeclared THEN n - request.head ELSE request.declared

\* The limit counts all bytes that have come, not only those of the header.
HeaderTooLong ==
    /\ pc = "header"
    /\ \E n \in 1..sent : Recv(n) /\ n > MaxHeader
    /\ Refuse

HeaderGoesOn ==
    /\ pc = "header"
    /\ \E n \in 1..sent : Recv(n) /\ n =< MaxHeader /\ n < request.head
    /\ UNCHANGED <<pc, body>>

HeaderInvalid ==
    /\ pc = "header"
    /\ ~request.valid
    /\ \E n \in request.head..sent : Recv(n) /\ n =< MaxHeader
    /\ Refuse

AfterHeader(n) ==
    \/ LacksBody(n) /\ pc' = "body" /\ UNCHANGED body
    \/ ReadsToEnd /\ pc' = "toEnd" /\ UNCHANGED body
    \/ ~LacksBody(n) /\ ~ReadsToEnd /\ Hand(n)

\* Mutated form: a header that has come to its end is not held against the limit.
HeaderEndsAnywhere ==
    /\ pc = "header"
    /\ request.valid
    /\ \E n \in request.head..sent : Recv(n) /\ AfterHeader(n)

HeaderEnds ==
    /\ pc = "header"
    /\ request.valid
    /\ \E n \in request.head..sent : Recv(n) /\ n =< MaxHeader /\ AfterHeader(n)

BodyComes ==
    /\ pc = "body"
    /\ \E n \in 1..sent :
          Recv(n) /\ IF LacksBody(n) THEN UNCHANGED <<pc, body>> ELSE Hand(n)

BodyToEndComes ==
    /\ pc = "toEnd"
    /\ \E n \in 1..sent : Recv(n)
    /\ UNCHANGED <<pc, body>>

\* Mutated form: the end of the stream ends every body.
StreamEndsAnyBody ==
    /\ link = "finished"
    /\ received = sent
    /\ \/ pc = "header" /\ Refuse
       \/ pc \in {"body", "toEnd"} /\ pc' = "handle" /\ body' = received - request.head
    /\ UNCHANGED <<request, sent, link, received, answer, offset>>

\* Mutated form: the end of the stream is an error wherever it comes, also where it is
\* the end of the body.
StreamEndsInError ==
    /\ link = "finished"
    /\ received = sent
    /\ pc \in Receiving
    /\ Refuse
    /\ UNCHANGED <<request, sent, link, received, answer, offset>>

\* recv returns 0.
StreamEnds ==
    /\ link = "finished"
    /\ received = sent
    /\ \/ pc \in {"header", "body"} /\ Refuse
       \/ pc = "toEnd" /\ Hand(received)
    /\ UNCHANGED <<request, sent, link, received, answer, offset>>

\* recv fails; what has come and was not read is lost.
RecvFails ==
    /\ link = "reset"
    /\ pc \in Receiving
    /\ Refuse
    /\ UNCHANGED <<request, sent, link, received, answer, offset>>

-----------------------------------------------------------------------------
(* HandleClient. *)

\* A handler makes an answer, keeps the socket for a session (see ControlServer), or
\* throws on this detached thread, which ends the process.  It may also never return
\* (see server_remembered.cfg): it is not fair.
Handle ==
    /\ pc = "handle"
    /\ \/ pc' = "answer" /\ answer' \in AnswerSizes
       \/ pc' \in {"kept", "thrown"} /\ UNCHANGED answer
    /\ UNCHANGED <<request, sent, link, received, body, offset>>

\* Mutated form: what send has left is not sent.
SendOnce ==
    /\ pc = "answer"
    /\ \E n \in (offset + 1)..answer : offset' = n
    /\ pc' = "closed"
    /\ UNCHANGED <<request, sent, link, received, body, answer>>

Send ==
    /\ pc = "answer"
    /\ \E n \in (offset + 1)..answer :
          /\ offset' = n
          /\ pc' = IF n = answer THEN "closed" ELSE pc
    /\ UNCHANGED <<request, sent, link, received, body, answer>>

SendFails ==
    /\ pc = "answer"
    /\ link = "reset"
    /\ pc' = "closed"
    /\ UNCHANGED <<request, sent, link, received, body, answer, offset>>

ReceiveHttpRequest ==
    \/ HeaderTooLong \/ HeaderGoesOn \/ HeaderInvalid \/ HeaderEnds
    \/ BodyComes \/ BodyToEndComes \/ StreamEnds \/ RecvFails

Next ==
    \/ PhoneSends \/ PhoneFinishes \/ LinkBreaks
    \/ ReceiveHttpRequest \/ Handle \/ Send \/ SendFails

Spec == Init /\ [][Next]_vars

\* The thread runs while it receives: recv returns what has come.
FairSpec == Spec /\ WF_vars(ReceiveHttpRequest)

-----------------------------------------------------------------------------
\* However TCP cuts the stream, a handler gets all of a declared body and nothing
\* behind it, or, without a length, all that the phone sent until it finished.
BodyIsWhole ==
    pc \in Taken =>
        /\ request.declared # Undeclared =>
              body = request.declared /\ request.head + body =< sent
        /\ ReadsToEnd => link # "up" /\ request.head + body = sent

\* No request with a header over the limit is handled, wherever the header's last
\* bytes are cut.
HeaderLimit == pc \in Taken => request.head =< MaxHeader

DeclaredBody == IF request.declared = Undeclared THEN 0 ELSE request.declared

\* A valid request is refused only if the connection broke, the phone finished before it
\* had sent the header and all of a declared body, or the header is within one receive
\* buffer of the limit.  A phone that sends everything and then finishes is not refused,
\* with or without a declared length, and its body may be as long as it likes.
RefusedForCause ==
    pc = "refused" =>
        \/ ~request.valid
        \/ link = "reset"
        \/ link = "finished" /\ sent < request.head + DeclaredBody
        \/ request.head + Chunk > MaxHeader + 1

\* The answer is sent whole, unless the connection breaks.
AnswerIsWhole == pc = "closed" => offset = answer \/ link = "reset"

Complete ==
    IF ReadsToEnd THEN link # "up"
    ELSE sent >= request.head + DeclaredBody

\* A request that is there in full is handed to its handler, or refused, without another
\* byte from the phone, also if the phone keeps its side open and waits.  Only a PUT or
\* POST without a length has to finish first.  (What its handler makes of it is another
\* matter: it may keep the socket or never return.)
CompleteIsTaken == pc \in Receiving /\ Complete ~> pc \notin Receiving
=============================================================================
