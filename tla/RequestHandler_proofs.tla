------------------------ MODULE RequestHandler_proofs ------------------------
(***************************************************************************)
(* Theorems about the handler of a request (RequestHandler), for every     *)
(* request and whatever the parser, the builder and the database do: an    *)
(* answer is the last thing that happens and has one of the statuses the   *)
(* code can write, a write that was refused has not been sent, and the     *)
(* Content-Range announces the rows of the body.                           *)
(***************************************************************************)
EXTENDS RequestHandler, TLAPS

Statuses == {200, 201, 204, 206, 400, 401, 404, 406, 409, 413, 415, 416, 500}

\* Nothing is sent to the database before this stage.
Unsent == {"headers", "body", "parse", "build", "query"}

\* What the database answered is there from the moment it was sent.
Sent == stage \in Unsent => result = <<>>

\* The database answered with rows and how many they are.
HasRows == {"rows", "affected"} \subseteq DOMAIN result /\ Len(result.rows) \in Nat

\* How many rows a Content-Range is about: those that are written.
CountsRows == stage = "respond" /\ Returns /\ ~Counted /\ HasRows => result.affected = Len(result.rows)

\* A Content-Range without a count names as many rows as the body has
\* (SetResponseHeaders, and what the serializers count).
RangeAgrees ==
    /\ stage = "answered" /\ Returns /\ ~Counted /\ ~options.count /\ answer.range.from # -1
    /\ options.min \in Int /\ HasRows
    => /\ answer.body = result.rows
       /\ answer.range.to = answer.range.from + Len(answer.body) - 1

IInv == TypeOK /\ Sent /\ WriteRefused

-----------------------------------------------------------------------------
(* Answers. *)

\* An answer is never the empty sequence that stands for none.
LEMMA IsAnswer ==
    ASSUME NEW s, NEW r, NEW b, NEW h
    PROVE  [status |-> s, range |-> r, body |-> b, head |-> h] # <<>>
OBVIOUS

\* An answer without a body has the status it is given.
LEMMA EmptyLemma ==
    ASSUME NEW s
    PROVE  Empty(s) # <<>> /\ Empty(s).status = s /\ Empty(s).range = NoRange
BY DEF Empty

\* The statuses of the SQLSTATEs.
LEMMA ServerStatusLemma ==
    ASSUME NEW c
    PROVE  ServerStatus(c) \in {400, 401, 404, 409, 500}
BY DEF ServerStatus

\* The statuses a Content-Range may ask for.
LEMMA HeadersLemma ==
    ASSUME NEW m, NEW o, NEW n
    PROVE  SetResponseHeaders(m, o, n).status \in {0, 206, 416}
BY DEF SetResponseHeaders

\* The statuses of success.
LEMMA SuccessLemma == Success \in {200, 201, 204}
BY DEF Success


-----------------------------------------------------------------------------
(* The invariant: the program keeps its place, and nothing is there before  *)
(* the statement was sent.                                                  *)

\* The statuses of an answer that is nothing else: a refusal, or a write of no
\* records.
EarlyStatuses == {200, 201, 204, 400, 401, 404, 406, 409, 413, 415, 416, 500}

\* A step that ends before anything was sent, or that goes on.
LEMMA UnsentStep ==
    ASSUME IInv, result' = <<>>, stage # "answered",
           \/ \E s \in EarlyStatuses : Finish(Empty(s))
           \/ answer' = answer /\ stage' \in Stages \ {"answered"}
    PROVE  IInv'
<1>1. answer = <<>>
  BY DEF IInv, TypeOK
<1>2. CASE \E s \in EarlyStatuses : Finish(Empty(s))
  <2>1. PICK s \in EarlyStatuses : Finish(Empty(s))
    BY <1>2
  <2>2. answer' # <<>> /\ answer'.status \in EarlyStatuses /\ stage' = "answered"
    BY <2>1, EmptyLemma DEF Finish
  <2>3. QED
    BY <2>2 DEF IInv, TypeOK, Sent, WriteRefused, Stages, EarlyStatuses
<1>3. CASE answer' = answer /\ stage' \in Stages \ {"answered"}
  BY <1>1, <1>3 DEF IInv, TypeOK, Sent, WriteRefused
<1>4. QED
  BY <1>2, <1>3

\* The statement's failure is a refusal too; nothing was kept of it.
LEMMA QueryStep == ASSUME IInv, Query PROVE IInv'
<1> DEFINE r == Database(request, statement)
<1>1. stage = "query" /\ result = <<>> /\ answer = <<>>
  BY DEF Query, IInv, TypeOK, Sent, Unsent
<1>2. \/ Finish(Empty(406)) /\ UNCHANGED result
      \/ Finish(Empty(416)) /\ UNCHANGED result
      \/ Finish(Empty(ServerStatus(r.code))) /\ UNCHANGED result
      \/ stage' \in {"serialize", "respond"} /\ UNCHANGED answer
  BY DEF Query
<1>3. CASE stage' \in {"serialize", "respond"} /\ UNCHANGED answer
  BY <1>1, <1>3 DEF IInv, TypeOK, Sent, Unsent, WriteRefused, Stages
<1>4. CASE Finish(Empty(406)) /\ UNCHANGED result
  BY <1>1, <1>4, UnsentStep DEF Finish, EarlyStatuses
<1>5. CASE Finish(Empty(416)) /\ UNCHANGED result
  BY <1>1, <1>5, UnsentStep DEF Finish, EarlyStatuses
<1>6. CASE Finish(Empty(ServerStatus(r.code))) /\ UNCHANGED result
  <2>1. ServerStatus(r.code) \in EarlyStatuses
    BY ServerStatusLemma DEF EarlyStatuses
  <2>2. QED
    BY <1>1, <1>6, <2>1, UnsentStep DEF Finish
<1>7. QED
  BY <1>2, <1>3, <1>4, <1>5, <1>6

\* The serializer refuses what does not fit the media type.
LEMMA SerializeStep == ASSUME IInv, Serialize PROVE IInv'
<1> DEFINE binary == options.contentType = "application/octet-stream"
<1>1. stage = "serialize" /\ answer = <<>> /\ UNCHANGED <<request, options>>
  BY DEF Serialize, IInv, TypeOK
<1>2. \/ (Single \/ binary) /\ Finish(Empty(406)) /\ UNCHANGED result
      \/ stage' = "respond" /\ UNCHANGED answer
  BY DEF Serialize
<1>3. CASE (Single \/ binary) /\ Finish(Empty(406)) /\ UNCHANGED result
  <2>1. answer' # <<>> /\ answer'.status = 406 /\ stage' = "answered"
    BY <1>3, EmptyLemma DEF Finish
  <2>2. ~request.call => options.singular \/ options.contentType = Supported[4]
    BY <1>3 DEF Single, Supported
  <2>3. QED
    BY <1>1, <2>1, <2>2 DEF IInv, TypeOK, Sent, Unsent, WriteRefused, Stages
<1>4. CASE stage' = "respond" /\ UNCHANGED answer
  BY <1>1, <1>4 DEF IInv, TypeOK, Sent, Unsent, WriteRefused, Stages
<1>5. QED
  BY <1>2, <1>3, <1>4

\* Only a read heeds the status its range asks for.
LEMMA RespondStep == ASSUME IInv, Respond PROVE IInv'
<1> DEFINE h == SetResponseHeaders(request.method, options, result.affected)
<1>1. stage = "respond" /\ stage' = "answered" /\ UNCHANGED <<request, options, result>>
  BY DEF Respond, Finish
<1>2. h.status \in {0, 206, 416}
  BY HeadersLemma
<1>3. /\ answer' # <<>>
      /\ answer'.status = IF request.method = "GET" /\ h.status # 0 THEN h.status ELSE Success
  <2>1. CASE request.method = "GET" /\ h.status >= 400
    <3>1. answer' = [Empty(h.status) EXCEPT !.range = h.range]
      BY <2>1 DEF Respond, Finish, Heeds
    <3>2. answer' = [status |-> h.status, range |-> h.range, body |-> <<>>, head |-> <<>>]
      BY <3>1 DEF Empty
    <3>3. QED
      BY <2>1, <3>2, <1>2, IsAnswer
  <2>2. CASE ~(request.method = "GET" /\ h.status >= 400)
    <3>1. PICK b, d : answer' = [status |-> IF request.method = "GET" /\ h.status # 0 THEN h.status ELSE Success,
                                 range |-> h.range, body |-> b, head |-> d]
      BY <2>2 DEF Respond, Finish, Heeds
    <3>2. QED
      BY <3>1, IsAnswer
  <2>3. QED
    BY <2>1, <2>2
<1>4. QED
  <2>1. answer'.status \in {200, 201, 204, 206, 416}
    BY <1>2, <1>3, SuccessLemma
  <2>2. request.method # "GET" => answer'.status < 400
    BY <1>2, <1>3, SuccessLemma
  <2>3. QED
    BY <1>1, <1>3, <2>1, <2>2 DEF IInv, TypeOK, Sent, Unsent, WriteRefused, Stages

\* The invariant holds of a request that has just come.
LEMMA IInvInit == Init => IInv
BY DEF Init, IInv, TypeOK, Sent, WriteRefused, Stages

\* Every step keeps the invariant.
LEMMA IInvNext == IInv /\ [Next]_vars => IInv'
<1> SUFFICES ASSUME IInv, [Next]_vars PROVE IInv'
  OBVIOUS
<1>1. CASE GetQueryOptions
  <2>1. stage = "headers" /\ result' = <<>> /\ answer' = answer /\ stage' \in Stages \ {"answered"}
    BY <1>1 DEF GetQueryOptions, IInv, Sent, Unsent, Stages
  <2>2. QED
    BY <2>1, UnsentStep
<1>2. CASE ReadRequest
  <2>1. stage = "body" /\ result' = <<>>
    BY <1>2 DEF ReadRequest, IInv, Sent, Unsent
  <2>2. \/ stage' = "parse" /\ UNCHANGED answer
        \/ Finish(Empty(400)) \/ Finish(Empty(413)) \/ Finish(Empty(415)) \/ Finish(Empty(500))
        \/ Finish(Empty(200)) \/ Finish(Empty(201)) \/ Finish(Empty(204))
    BY <1>2 DEF ReadRequest
  <2>3. QED
    BY <2>1, <2>2, UnsentStep DEF Finish, EarlyStatuses, Stages
<1>3. CASE ParseRequest
  <2>1. stage = "parse" /\ result' = <<>>
    BY <1>3 DEF ParseRequest, IInv, Sent, Unsent
  <2>2. \/ stage' = "build" /\ UNCHANGED answer
        \/ Finish(Empty(400)) \/ Finish(Empty(406))
    BY <1>3 DEF ParseRequest
  <2>3. QED
    BY <2>1, <2>2, UnsentStep DEF Finish, EarlyStatuses, Stages
<1>4. CASE Build
  <2>1. stage = "build" /\ result' = <<>>
    BY <1>4 DEF Build, IInv, Sent, Unsent
  <2>2. \/ stage' = "query" /\ UNCHANGED answer
        \/ Finish(Empty(400))
    BY <1>4 DEF Build, Built
  <2>3. QED
    BY <2>1, <2>2, UnsentStep DEF Finish, EarlyStatuses, Stages
<1>5. CASE UNCHANGED vars
  BY <1>5 DEF vars, IInv, TypeOK, Sent, WriteRefused
<1>6. QED
  BY <1>1, <1>2, <1>3, <1>4, <1>5, QueryStep, SerializeStep, RespondStep DEF Next

-----------------------------------------------------------------------------
(* What holds of every request. *)

\* The inductive invariant of a request, whatever is parsed, built and answered.
THEOREM Invariance == Spec => []IInv
BY IInvInit, IInvNext, PTL DEF Spec

\* The program keeps its place, an answer is the last thing that happens, and
\* it has one of the statuses that the code can write.
THEOREM TypeCorrect == Spec => []TypeOK
<1>1. IInv => TypeOK
  BY DEF IInv
<1>2. QED
  BY <1>1, Invariance, PTL

\* A write that was refused has not been sent, unless its result does not fit
\* the media type (ReadRequest, querySerialize and the handlers).
THEOREM WriteRefusedCorrect == Spec => []WriteRefused
<1>1. IInv => WriteRefused
  BY DEF IInv
<1>2. QED
  BY <1>1, Invariance, PTL


-----------------------------------------------------------------------------
(* The Content-Range of an answer without a count. *)

\* Without a count, a range that is shown starts at the first row of the page and
\* is as long as the page is.
LEMMA RangeLemma ==
    ASSUME NEW m, NEW o, NEW n \in Nat, o.min \in Int, ~o.count,
           SetResponseHeaders(m, o, n).range.from # -1
    PROVE  /\ SetResponseHeaders(m, o, n).range.to = SetResponseHeaders(m, o, n).range.from + n - 1
           /\ m = "GET" => SetResponseHeaders(m, o, n).status = 0
<1> DEFINE shown == /\ n > 0 /\ (o.min <= n \/ ~o.count)
                    /\ (m = "GET" \/ (o.min > -1 /\ o.max > -1))
           from  == IF o.min = -1 THEN 0 ELSE o.min
<1>1. shown
  BY DEF SetResponseHeaders
<1>2. /\ SetResponseHeaders(m, o, n).range.from = from
      /\ SetResponseHeaders(m, o, n).range.to = from + n - 1
  BY <1>1 DEF SetResponseHeaders
<1>3. from \in Int /\ ~(from > from + n - 1)
  BY <1>1
<1>4. SetResponseHeaders(m, o, n).status = 0
  BY <1>1, <1>3 DEF SetResponseHeaders
<1>5. QED
  BY <1>2, <1>3, <1>4

\* The serializers count the rows they write.
RInv == RangeAgrees /\ CountsRows /\ (stage # "answered" => answer = <<>>)

\* The answer: its range is that of the rows that were counted.
LEMMA RInvRespond == ASSUME RInv, Respond PROVE RInv'
<1> DEFINE n == Len(result.rows)
           h == SetResponseHeaders(request.method, options, result.affected)
<1>1. stage = "respond" /\ stage' = "answered" /\ UNCHANGED <<request, options, statement, result>>
  BY DEF Respond, Finish
<1>2. SUFFICES ASSUME Returns, ~Counted, ~options.count, answer'.range.from # -1,
                      options.min \in Int, HasRows
               PROVE  answer'.body = result.rows /\ answer'.range.to = answer'.range.from + Len(answer'.body) - 1
  BY <1>1 DEF RInv, CountsRows, RangeAgrees, Returns, Counted, HasRows
<1>3. result.affected = n /\ n \in Nat
  BY <1>1, <1>2 DEF RInv, CountsRows, HasRows
<1>4. answer'.range = h.range
  BY DEF Respond, Finish, Empty
<1>5. h.range.to = h.range.from + n - 1 /\ (request.method = "GET" => h.status = 0)
  BY <1>2, <1>3, <1>4, RangeLemma
<1>6. answer'.body = result.rows
  BY <1>2, <1>5 DEF Respond, Finish, Heeds
<1>7. QED
  BY <1>4, <1>5, <1>6

\* An answer without a body announces nothing, and a step that goes on answers nothing.
LEMMA RInvOther ==
    ASSUME RInv, stage # "answered",
           \/ \E s \in EarlyStatuses : Finish(Empty(s))
           \/ stage' \in Stages \ {"answered", "respond"} /\ UNCHANGED answer
    PROVE  RInv'
<1>1. CASE \E s \in EarlyStatuses : Finish(Empty(s))
  <2>1. stage' = "answered" /\ answer'.range.from = -1
    BY <1>1, EmptyLemma DEF Finish, NoRange
  <2>2. QED
    BY <2>1 DEF RInv, RangeAgrees, CountsRows
<1>2. CASE stage' \in Stages \ {"answered", "respond"} /\ UNCHANGED answer
  BY <1>2 DEF RInv, RangeAgrees, CountsRows
<1>3. QED
  BY <1>1, <1>2

\* What is written is counted: the serializers see to it.
LEMMA RInvSerialize == ASSUME RInv, Serialize PROVE RInv'
<1>1. stage = "serialize" /\ UNCHANGED <<request, options, parts, statement>>
  BY DEF Serialize
<1>2. CASE Finish(Empty(406))
  BY <1>1, <1>2, RInvOther DEF Finish, EarlyStatuses
<1>3. CASE ~Finish(Empty(406))
  <2>1. /\ stage' = "respond" /\ UNCHANGED answer
        /\ \E rows, n : result' = [result EXCEPT !.rows = rows, !.affected = n] /\ (~Counted => n = Len(rows))
    BY <1>3 DEF Serialize
  <2>2. PICK rows, n : result' = [result EXCEPT !.rows = rows, !.affected = n] /\ (~Counted => n = Len(rows))
    BY <2>1
  <2>3. CASE {"rows", "affected"} \subseteq DOMAIN result'
    <3>1. {"rows", "affected"} \subseteq DOMAIN result
      BY <2>2, <2>3
    <3>2. result'.rows = rows /\ result'.affected = n
      BY <2>2, <3>1
    <3>3. CountsRows'
      BY <1>1, <2>2, <3>2 DEF CountsRows, Counted
    <3>4. QED
      BY <1>1, <2>1, <3>3 DEF RInv, RangeAgrees
  <2>4. CASE ~({"rows", "affected"} \subseteq DOMAIN result')
    BY <1>1, <2>1, <2>4 DEF RInv, RangeAgrees, CountsRows, HasRows
  <2>5. QED
    BY <2>3, <2>4
<1>4. QED
  BY <1>2, <1>3

\* A statement whose rows nobody asked for is not counted here.
LEMMA RInvQuery == ASSUME RInv, Query PROVE RInv'
<1> DEFINE r == Database(request, statement)
<1>1. stage = "query" /\ UNCHANGED <<request, options, parts, statement>>
  BY DEF Query
<1>2. \/ Finish(Empty(406)) \/ Finish(Empty(416)) \/ Finish(Empty(ServerStatus(r.code)))
      \/ stage' = (IF Returns THEN "serialize" ELSE "respond") /\ UNCHANGED answer
  BY DEF Query
<1>3. CASE Finish(Empty(406)) \/ Finish(Empty(416)) \/ Finish(Empty(ServerStatus(r.code)))
  <2>1. ServerStatus(r.code) \in EarlyStatuses
    BY ServerStatusLemma DEF EarlyStatuses
  <2>2. QED
    BY <1>1, <1>3, <2>1, RInvOther DEF Finish, EarlyStatuses
<1>4. CASE stage' = (IF Returns THEN "serialize" ELSE "respond") /\ UNCHANGED answer
  BY <1>1, <1>4 DEF RInv, RangeAgrees, CountsRows, Returns
<1>5. QED
  BY <1>2, <1>3, <1>4

\* Every step keeps the range.
LEMMA RInvNext == RInv /\ [Next]_vars => RInv'
<1> SUFFICES ASSUME RInv, [Next]_vars PROVE RInv'
  OBVIOUS
<1>1. CASE GetQueryOptions
  BY <1>1, RInvOther DEF GetQueryOptions, Stages
<1>2. CASE ReadRequest
  <2>1. \/ stage' = "parse" /\ UNCHANGED answer
        \/ Finish(Empty(400)) \/ Finish(Empty(413)) \/ Finish(Empty(415)) \/ Finish(Empty(500))
        \/ Finish(Empty(200)) \/ Finish(Empty(201)) \/ Finish(Empty(204))
    BY <1>2 DEF ReadRequest
  <2>2. stage = "body"
    BY <1>2 DEF ReadRequest
  <2>3. QED
    BY <2>1, <2>2, RInvOther DEF Finish, EarlyStatuses, Stages
<1>3. CASE ParseRequest
  <2>1. \/ stage' = "build" /\ UNCHANGED answer
        \/ Finish(Empty(400)) \/ Finish(Empty(406))
    BY <1>3 DEF ParseRequest
  <2>2. stage = "parse"
    BY <1>3 DEF ParseRequest
  <2>3. QED
    BY <2>1, <2>2, RInvOther DEF Finish, EarlyStatuses, Stages
<1>4. CASE Build
  <2>1. \/ stage' = "query" /\ UNCHANGED answer
        \/ Finish(Empty(400))
    BY <1>4 DEF Build, Built
  <2>2. stage = "build"
    BY <1>4 DEF Build
  <2>3. QED
    BY <2>1, <2>2, RInvOther DEF Finish, EarlyStatuses, Stages
<1>5. CASE UNCHANGED vars
  BY <1>5 DEF vars, RInv, RangeAgrees, CountsRows, Returns, Counted, HasRows
<1>6. QED
  BY <1>1, <1>2, <1>3, <1>4, <1>5, RInvQuery, RInvSerialize, RInvRespond DEF Next

\* The Content-Range of an answer without a count names as many rows as its body
\* has, whatever page was asked for and whatever rows the database answered with
\* (SetResponseHeaders, and what the serializers count).
THEOREM RangeAgreesCorrect == Spec => []RangeAgrees
<1>1. Init => RInv
  BY DEF Init, RInv, RangeAgrees, CountsRows
<1>2. RInv => RangeAgrees
  BY DEF RInv
<1>3. QED
  BY <1>1, <1>2, RInvNext, PTL DEF Spec
=============================================================================
