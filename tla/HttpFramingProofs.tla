-------------------------- MODULE HttpFramingProofs --------------------------
(***************************************************************************)
(* What HttpFraming guarantees for any requests, limits and buffer sizes.  *)
(***************************************************************************)
EXTENDS HttpFraming, TLAPS

\* The inductive part: while the header is read, the terminator has not come and the
\* limit is kept; afterwards the header is within the limit and was received, and while
\* a declared body is read, some of it is missing.
HeaderInv ==
    /\ pc = "header" => received < request.head /\ received =< MaxHeader
    /\ pc \in {"body", "toEnd"} => request.head =< received /\ request.head =< MaxHeader
    /\ pc \in {"body", "toEnd"} => request.valid
    /\ pc = "body" => request.declared # Undeclared /\ received < request.head + DeclaredBody
    /\ pc = "toEnd" => ReadsToEnd

\* The answer is begun when it is made and is not sent beyond its end.
AnswerInv ==
    /\ pc \in Receiving \cup {"handle"} => answer = 0 /\ offset = 0
    /\ pc = "answer" => offset < answer

IInv ==
    /\ TypeOK /\ HeaderInv /\ AnswerInv
    /\ BodyIsWhole /\ HeaderLimit /\ RefusedForCause /\ AnswerIsWhole

LEMMA RequestFacts ==
    ASSUME TypeOK
    PROVE  /\ request.head \in Nat \ {0} /\ request.body \in Nat
           /\ request.declared \in Nat \cup {Undeclared}
           /\ request.valid \in BOOLEAN /\ request.hasBody \in BOOLEAN
           /\ sent \in Nat /\ received \in Nat /\ body \in Nat
           /\ answer \in Nat /\ offset \in Nat
BY RequestsAssumption, SizesAssumption DEF TypeOK, Total

LEMMA InitIInv == Init => IInv
BY RequestsAssumption, SizesAssumption
   DEF Init, IInv, TypeOK, HeaderInv, AnswerInv, BodyIsWhole, HeaderLimit, RefusedForCause,
       AnswerIsWhole, Taken, Total, Receiving, DeclaredBody

\* The phone and the network only add to a stream that has not ended.
LEMMA PhoneIInv ==
    ASSUME IInv, PhoneSends \/ PhoneFinishes \/ LinkBreaks PROVE IInv'
BY RequestFacts
   DEF IInv, PhoneSends, PhoneFinishes, LinkBreaks, TypeOK, HeaderInv, AnswerInv, BodyIsWhole,
       HeaderLimit, RefusedForCause, AnswerIsWhole, Taken, Total, ReadsToEnd, Receiving, DeclaredBody

\* Steps of recv.
LEMMA RecvIInv ==
    ASSUME IInv,
           \/ HeaderTooLong \/ HeaderGoesOn \/ HeaderInvalid \/ HeaderEnds
           \/ BodyComes \/ BodyToEndComes \/ StreamEnds \/ RecvFails
    PROVE  IInv'
<1> USE RequestFacts, SizesAssumption
    DEF IInv, TypeOK, HeaderInv, AnswerInv, BodyIsWhole, HeaderLimit, RefusedForCause,
        AnswerIsWhole, Taken, Total, ReadsToEnd, Receiving, DeclaredBody, Recv, Refuse
<1>1. CASE HeaderTooLong
  BY <1>1 DEF HeaderTooLong
<1>2. CASE HeaderGoesOn
  BY <1>2 DEF HeaderGoesOn
<1>3. CASE HeaderInvalid
  BY <1>3 DEF HeaderInvalid
<1>4. CASE HeaderEnds
  <2>1. PICK n \in request.head..sent : Recv(n) /\ n =< MaxHeader /\ AfterHeader(n)
    BY <1>4 DEF HeaderEnds
  <2>2. CASE LacksBody(n) /\ pc' = "body" /\ UNCHANGED body
    BY <1>4, <2>1, <2>2 DEF HeaderEnds, LacksBody
  <2>3. CASE ReadsToEnd /\ pc' = "toEnd" /\ UNCHANGED body
    BY <1>4, <2>1, <2>3 DEF HeaderEnds
  <2>4. CASE ~LacksBody(n) /\ ~ReadsToEnd /\ Hand(n)
    BY <1>4, <2>1, <2>4 DEF HeaderEnds, Hand, LacksBody
  <2> QED BY <2>1, <2>2, <2>3, <2>4 DEF AfterHeader
<1>5. CASE BodyComes
  BY <1>5 DEF BodyComes, LacksBody, Hand
<1>6. CASE BodyToEndComes
  BY <1>6 DEF BodyToEndComes
<1>7. CASE StreamEnds
  BY <1>7 DEF StreamEnds, Hand
<1>8. CASE RecvFails
  BY <1>8 DEF RecvFails
<1> QED
  BY <1>1, <1>2, <1>3, <1>4, <1>5, <1>6, <1>7, <1>8

\* Steps of the handler and of send.
LEMMA AnswerIInv == ASSUME IInv, Handle \/ Send \/ SendFails PROVE IInv'
<1> USE RequestFacts, SizesAssumption
    DEF IInv, TypeOK, HeaderInv, AnswerInv, BodyIsWhole, HeaderLimit, RefusedForCause,
        AnswerIsWhole, Taken, Total, ReadsToEnd, Receiving, DeclaredBody
<1>1. CASE Handle
  <2>1. CASE pc' = "answer" /\ answer' \in AnswerSizes
    BY <1>1, <2>1 DEF Handle
  <2>2. CASE pc' = "kept" /\ UNCHANGED answer
    BY <1>1, <2>2 DEF Handle
  <2>3. CASE pc' = "thrown" /\ UNCHANGED answer
    BY <1>1, <2>3 DEF Handle
  <2> QED
    BY ONLY <1>1, <2>1, <2>2, <2>3 DEF Handle
<1>2. CASE Send
  BY <1>2 DEF Send
<1>3. CASE SendFails
  BY <1>3 DEF SendFails
<1> QED
  BY <1>1, <1>2, <1>3

LEMMA NextIInv == IInv /\ [Next]_vars => IInv'
<1>1. ASSUME IInv, UNCHANGED vars PROVE IInv'
  BY <1>1 DEF vars, IInv, TypeOK, HeaderInv, AnswerInv, BodyIsWhole, HeaderLimit,
              RefusedForCause, AnswerIsWhole, Taken, Total, ReadsToEnd, Receiving, DeclaredBody
<1> QED
  BY <1>1, PhoneIInv, RecvIInv, AnswerIInv DEF Next, ReceiveHttpRequest

LEMMA SpecIInv == Spec => []IInv
BY InitIInv, NextIInv, PTL DEF Spec

-----------------------------------------------------------------------------
\* TypeOK: the thread counts no byte that was not sent, and sends none that it has not.
THEOREM FramingTypes == Spec => []TypeOK
BY SpecIInv, PTL DEF IInv

\* BodyIsWhole: no cutting of the stream makes a handler see a part of a body.
THEOREM BodiesAreWhole == Spec => []BodyIsWhole
BY SpecIInv, PTL DEF IInv

\* HeaderLimit: no cutting lets a longer header through.
THEOREM HeadersAreLimited == Spec => []HeaderLimit
BY SpecIInv, PTL DEF IInv

\* RefusedForCause: a request that came in full, however its body was ended, is refused
\* for its header only, and there the limit is off by one receive buffer at most.
THEOREM RefusalsHaveCause == Spec => []RefusedForCause
BY SpecIInv, PTL DEF IInv

\* AnswerIsWhole: a connection that holds gets the answer to its last byte.
THEOREM AnswersAreWhole == Spec => []AnswerIsWhole
BY SpecIInv, PTL DEF IInv
=============================================================================
