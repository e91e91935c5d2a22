---------------------------- MODULE RequestHandler ----------------------------
(***************************************************************************)
(* One request on a table or a function, from its headers to its answer:   *)
(* getQueryOptions and the content negotiation, ReadRequest and the error  *)
(* statuses (api/utils.go), the handlers (api/sources.go), the executors   *)
(* (database/queryexecutor.go) and what the serializers do with the rows.  *)
(* What the parser, the builder and the database do with a request is left *)
(* open here: they are operators, and Requests gives them their meaning.   *)
(* The arms of a CASE exclude each other, or are read in order.            *)
(***************************************************************************)
EXTENDS Integers, Sequences, SequencesExt

CONSTANTS
    Requests,           \* the requests a behaviour may start with: a sequence of sets
    Parser(_),          \* a request: an error, or the parts of the query
    Builder(_, _, _),   \* a request, parts and options: an error, or the statement
    Database(_, _),     \* a request and a statement: an SQLSTATE, or the rows
    ReturnsSet(_)       \* a call: whether its function returns a set

VARIABLES
    request,        \* the request, the catalog and the rows it meets
    stage,          \* what is to be done next
    options,        \* QueryOptions
    parts,          \* QueryParts
    statement,      \* the statement built
    result,         \* what PostgreSQL answered
    answer          \* what the client gets

vars == <<request, stage, options, parts, statement, result, answer>>

Stages == {"headers", "body", "parse", "build", "query", "serialize", "respond", "answered"}

-----------------------------------------------------------------------------
(* Headers. The best media type that is supported: by quality, then by how *)
(* specific it is, then as written.                                        *)
Supported == <<"application/json", "application/vnd.pgrst.object+json", "text/csv",
               "application/octet-stream">>
Wildcards1 == [any |-> "*/*", application |-> "application/*", text |-> "text/*"]
Matching(t) == CASE t \in ToSet(Supported) -> t
                 [] t \in {Wildcards1.any, Wildcards1.application} -> Supported[1]
                 [] t = Wildcards1.text -> "text/csv"
                 [] OTHER -> ""
Specificity(t) == CASE t = Wildcards1.any -> 0
                    [] t \in {Wildcards1.application, Wildcards1.text} -> 1 [] OTHER -> 2

ContentNegotiation(accept) ==
    LET fit(i)       == Matching(accept[i].type) # ""
        Before(i, k) == \/ accept[i].q > accept[k].q
                        \/ /\ accept[i].q = accept[k].q
                           /\ LET a == Specificity(accept[i].type) b == Specificity(accept[k].type)
                              IN  a > b \/ (a = b /\ i <= k)
        best         == {i \in DOMAIN accept : fit(i) /\ \A k \in DOMAIN accept : fit(k) => Before(i, k)}
    IN  CASE accept = <<>> -> Supported[1]
          [] best = {} -> ""
          [] OTHER -> Matching(accept[CHOOSE i \in best : TRUE].type)

QueryOptions(r) ==
    LET ct == ContentNegotiation(r.accept)
    IN  [contentType |-> IF ct = "" THEN "unknown/unknown" ELSE ct, singular |-> ct = Supported[2],
         representation |-> "return=representation" \in r.prefer,
         merge |-> "resolution=merge-duplicates" \in r.prefer,
         ignore |-> "resolution=ignore-duplicates" \in r.prefer,
         count |-> "count=exact" \in r.prefer,
         hasRange |-> r.range.given, min |-> r.range.min, max |-> r.range.max]

-----------------------------------------------------------------------------
(* Answers. *)
NoRange  == [from |-> -1, to |-> -1, total |-> -1]
Empty(s) == [status |-> s, range |-> NoRange, body |-> <<>>, head |-> <<>>]

(* The handler writes its answer and returns; and a mutant: it goes on. *)
WritesOnly(a) == answer' = a /\ stage' = "respond"
Finish(a)     == answer' = a /\ stage' = "answered"

(* WriteServerError: the status of an SQLSTATE. *)
ServerStatus(code) ==
    CASE code = "42501" -> 401
      [] code \in {"42P01", "42883"} -> 404
      [] code \in {"42P04", "42P06", "42P07", "23505", "42710"} -> 409
      [] code \in {"22P02", "42703"} -> 400
      [] OTHER -> 500

(* SetResponseHeaders: the Content-Range, and the status it asks for. *)
SetResponseHeaders(method, o, count) ==
    LET shown == /\ count > 0 /\ (o.min <= count \/ ~o.count)
                 /\ (method = "GET" \/ (o.min > -1 /\ o.max > -1))
        min   == IF shown /\ o.min = -1 THEN 0 ELSE o.min
        max   == IF shown /\ (o.max = -1 \/ ~o.count) THEN min + count - 1 ELSE o.max
    IN  [range |-> [from |-> IF shown THEN min ELSE -1, to |-> IF shown THEN max ELSE -1,
                    total |-> IF o.count THEN count ELSE -1],
         status |-> CASE \/ min > count /\ o.count
                         \/ min > -1 /\ max > -1 /\ min > max -> 416
                      [] o.count /\ o.hasRange /\ max - min + 1 < count -> 206
                      [] OTHER -> 0]

-----------------------------------------------------------------------------
Init == /\ \E i \in DOMAIN Requests : request \in Requests[i]
        /\ stage = "headers"
        /\ options = <<>> /\ parts = <<>> /\ statement = <<>> /\ result = <<>> /\ answer = <<>>

GetQueryOptions ==
    /\ stage = "headers"
    /\ options' = QueryOptions(request)
    /\ stage' = "body"
    /\ UNCHANGED <<request, parts, statement, result, answer>>

(* The preconditions of a write: a body of an unsupported type (415), that  *)
(* cannot be decoded (400), that is too large (413) or, as csv, empty (the  *)
(* panic is a 500); too many records; no record at all.                     *)
HasBody(r) == r.method \in {"POST", "PATCH"}
ReadRequest ==
    LET records == request.records
        nothing == IF request.method = "POST" THEN records = <<>>
                   ELSE records = <<>> \/ DOMAIN records[1] = {}
        done    == IF request.method = "POST" THEN 201 ELSE 200
    IN  /\ stage = "body"
        /\ CASE ~HasBody(request) -> stage' = "parse" /\ UNCHANGED answer
             [] HasBody(request) /\ request.unreadable # 0 ->
                    \E s \in {400, 413, 415, 500} : s = request.unreadable /\ Finish(Empty(s))
             [] request.method = "PATCH" /\ Len(records) > 1 -> Finish(Empty(500))
             [] HasBody(request) /\ nothing -> Finish(Empty(IF options.representation THEN done ELSE 204))
             [] OTHER -> stage' = "parse" /\ UNCHANGED answer
        /\ UNCHANGED <<request, options, parts, statement, result>>

(* An error of the parser or the builder, or what comes after it. Execute   *)
(* looks at the content type before anything else.                          *)
Fails(r) == r.err # ""
ParseRequest ==
    LET Parsed(r) == IF Fails(r) THEN Finish(Empty(400)) /\ UNCHANGED parts
                     ELSE parts' = r.v /\ stage' = "build" /\ UNCHANGED answer
    IN  /\ stage = "parse"
        /\ IF request.call /\ options.contentType = "unknown/unknown"
           THEN Finish(Empty(406)) /\ UNCHANGED parts
           ELSE Parsed(Parser(request))
        /\ UNCHANGED <<request, options, statement, result>>

Built(r) == IF Fails(r) THEN Finish(Empty(400)) /\ UNCHANGED <<statement, options>>
            ELSE /\ statement' = r.v /\ stage' = "query"
                 /\ options' = IF r.v.kind \in {"select", "recursive"}
                               THEN [options EXCEPT !.min = r.v.page.min, !.max = r.v.page.max] ELSE options
                 /\ UNCHANGED answer

Build == /\ stage = "build"
         /\ Built(Builder(request, parts, options))
         /\ UNCHANGED <<request, parts, result>>

(* querySerialize answers for a statement that returns rows; it checks the  *)
(* content type and the range before it sends the statement.                *)
Returns == request.method = "GET" \/ request.call \/ options.representation

Query ==
    LET Unsuitable == /\ ~request.call /\ Returns
                      /\ options.contentType = "unknown/unknown"
        NoPage     == ~request.call /\ Returns /\ options.min > options.max /\ options.min # -1 /\ options.max # -1
        Ran(r)     == IF r.code # "" THEN Finish(Empty(ServerStatus(r.code))) /\ UNCHANGED result
                      ELSE result' = r /\ stage' = (IF Returns THEN "serialize" ELSE "respond") /\ UNCHANGED answer
    IN  /\ stage = "query"
        /\ CASE Unsuitable -> Finish(Empty(406)) /\ UNCHANGED result
             [] NoPage -> Finish(Empty(416)) /\ UNCHANGED result
             [] OTHER -> Ran(Database(request, statement))
        /\ UNCHANGED <<request, options, parts, statement>>

(* The serializers. A counted query has one pseudo row at least, and the    *)
(* count in its first column; csv writes that column's name too. One row    *)
(* exactly when an object is asked for. Binary wants one column, and        *)
(* counts bytes.                                                            *)
Counted == statement.kind = "select" /\ statement.counted
Single  == IF request.call THEN statement.kind = "select" /\ ~ReturnsSet(request)
           ELSE options.singular
NullRow == LET t == request.db[statement.table] IN [c \in DOMAIN t[1] |-> "null"]

Serialize ==
    LET rows   == IF Counted /\ result.rows = <<>> THEN <<NullRow>> ELSE result.rows
        binary == options.contentType = "application/octet-stream"
        items  == CASE statement.kind \in {"select", "recursive"} -> statement.items
                    [] statement.returning.embeds -> statement.returning.items
                    [] OTHER -> statement.returning.list
        single == SelectSeq(items, LAMBDA x : x.kind # "comma")
    IN  /\ stage = "serialize"
        /\ IF (~binary /\ Single /\ Len(rows) # 1)
              \/ (binary /\ (Counted \/ Len(single) # 1 \/ single[1].kind = "star"))
           THEN Finish(Empty(406)) /\ UNCHANGED result
           ELSE /\ result' = [result EXCEPT !.rows = rows,
                                            !.affected = IF Counted THEN result.total ELSE Len(rows)]
                /\ stage' = "respond" /\ UNCHANGED answer
        /\ UNCHANGED <<request, options, parts, statement>>

Success == CASE request.method = "GET" \/ request.call -> 200
             [] request.method = "POST" -> 201
             [] OTHER -> IF Returns THEN 200 ELSE 204

(* Only the handlers of reads look at the status the range asks for; and a  *)
(* mutant: all do.                                                          *)
AllHeed(method) == TRUE
Heeds(method)   == method = "GET"

Respond ==
    LET h     == SetResponseHeaders(request.method, options, result.affected)
        reads == Heeds(request.method)
    IN  /\ stage = "respond"
        /\ Finish(IF reads /\ h.status >= 400 THEN [Empty(h.status) EXCEPT !.range = h.range]
                  ELSE [status |-> IF reads /\ h.status # 0 THEN h.status ELSE Success, range |-> h.range,
                        body |-> IF Returns THEN result.rows ELSE <<>>,
                        head |-> IF Returns /\ options.contentType = "text/csv" /\ Counted THEN <<"__count">> ELSE <<>>])
        /\ UNCHANGED <<request, options, parts, statement, result>>

Next == \/ GetQueryOptions \/ ReadRequest \/ ParseRequest \/ Build
        \/ Query \/ Serialize \/ Respond

Spec == Init /\ [][Next]_vars

-----------------------------------------------------------------------------
(* Properties. *)

(* The program keeps its place: what a stage has not produced is not there, *)
(* and an answer has one of the statuses the code can write.                *)
TypeOK ==
    /\ stage \in Stages
    /\ (answer # <<>>) <=> (stage = "answered")
    /\ answer # <<>> => answer.status \in {200, 201, 204, 206, 400, 401, 404, 406, 409, 413, 415, 416, 500}

(* A write that was refused has not been sent, unless it is its result that *)
(* does not fit the media type asked for; one whose statement failed left   *)
(* nothing (preconditions and their order in ReadRequest, the handlers and  *)
(* querySerialize).                                                         *)
WriteRefused ==
    stage = "answered" /\ request.method # "GET" /\ ~request.call =>
        \/ answer.status < 400
        \/ result = <<>>
        \/ answer.status = 406 /\ (options.singular \/ options.contentType = Supported[4])
===============================================================================
