------------------------------ MODULE JQUpdates ------------------------------
(***************************************************************************)
(* jq updates (database/jqupdate.go, api/jq.go): PATCH requests that lock  *)
(* the rows they match, feed each to a jq program and write back what it   *)
(* makes of it; calls of functions that write a row and transform what     *)
(* they return (JQTransformResponse); and the program cache between them   *)
(* (jqeval/jqeval.go). PostgreSQL is external: READ COMMITTED, a lock per  *)
(* row, and a new place (ctid) for every version of a row.                 *)
(***************************************************************************)
EXTENDS JQCache, FiniteSets

CONSTANTS
    Clients,        \* PATCH requests with a jq program
    Writers,        \* function calls that write one row, with a transform
    Rows,           \* the rows of the table, those to be inserted included
    Partitions,     \* sets of rows: a place is unique in one of them only
    Programs,       \* the programs an actor comes with: text and variables
    Invalid,        \* those that do not compile
    Cancelers,      \* the actors whose client may go away
    Configs,        \* the configurations to start in, see Config
    NoOne

(* Database.TransactionMode and JQ.MaxUpdateRows *)
Config == [mode : {"none", "commit", "rollback"}, maxRows : 1..Cardinality(Rows)]

ASSUME UpdatesAssumption ==
    /\ IsFiniteSet(Rows)
    /\ UNION Partitions = Rows
    /\ Configs \subseteq Config
    /\ Clients \cap Writers = {}
    /\ Cancelers \subseteq Clients \cup Writers
    /\ NoOne \notin Clients \cup Writers

VARIABLES
    config,     \* the configuration, fixed at startup
    rows,       \* the committed version of each row
    draft,      \* its newest version, which its owner may still roll back
    owner,      \* who holds the row's lock
    cache,      \* jqeval's cache
    req         \* the requests: pc and local variables

vars == <<config, rows, draft, owner, cache, req>>

Actors     == Clients \cup Writers
NoCode     == [text |-> "", vars |-> {}]
At(q, l)   == req[q].pc = l
Unlocked   == UNCHANGED <<rows, draft, owner>>
Held(q)    == {r \in Rows : owner[r] = q}
Matches(v) == v.live /\ v.open

-----------------------------------------------------------------------------
(* PostgreSQL: the ends of a transaction, and the place of a new version. *)
Freed(q)   == [r \in Rows |-> IF r \in Held(q) THEN NoOne ELSE owner[r]]
Publish(q) == /\ rows' = [r \in Rows |-> IF r \in Held(q) THEN draft[r] ELSE rows[r]]
              /\ owner' = Freed(q) /\ UNCHANGED draft
Abort(q)   == /\ draft' = [r \in Rows |-> IF r \in Held(q) THEN rows[r] ELSE draft[r]]
              /\ owner' = Freed(q) /\ UNCHANGED rows

Beside(r)   == UNION {p \in Partitions : r \in p}
Taken(r)    == {rows[s].ctid : s \in Beside(r)} \cup {draft[s].ctid : s \in Beside(r)}
FirstPlace  == CHOOSE f \in [Rows -> 1..Cardinality(Rows)] :
                  \A p \in Partitions : \A r, s \in p : f[r] = f[s] => r = s
NewPlace(r) == CHOOSE n \in 1..2 * Cardinality(Rows) + 1 : n \notin Taken(r)

(* A row that is not there yet; one that was deleted is never inserted      *)
(* again, as its history tells.                                             *)
Unborn(r) == ~rows[r].live /\ rows[r].history = {}

-----------------------------------------------------------------------------
Fresh(q) == [pc |-> IF q \in Clients THEN "handle" ELSE "write", program |-> NoCode, code |-> NoCode,
             missed |-> FALSE, tx |-> config.mode # "none", gone |-> FALSE, todo |-> {},
             seen |-> [r \in Rows |-> {}], got |-> <<>>, done |-> 0, status |-> 0, committed |-> FALSE]

Init ==
    /\ config \in Configs
    /\ \E born, opened \in SUBSET Rows :
          /\ opened \subseteq born
          /\ rows = [r \in Rows |-> [live |-> r \in born, open |-> r \in opened, history |-> {}, ctid |-> FirstPlace[r]]]
    /\ draft = rows
    /\ owner = [r \in Rows |-> NoOne]
    /\ cache = EmptyCache
    /\ req = [q \in Actors |-> Fresh(q)]

(* What is left of a request when its answer is written, and after it. *)
Answered(q, status, committed, tx) ==
    [Fresh(q) EXCEPT !.pc = "release", !.status = status, !.committed = committed, !.tx = tx, !.gone = req[q].gone]
Over(q, committed) == [Fresh(q) EXCEPT !.pc = "done", !.committed = committed, !.tx = FALSE]

(* A request fails: the transaction of its own is rolled back, unless the   *)
(* context is canceled, which keeps the ROLLBACK from being sent; and a     *)
(* mutant: it is not rolled back.                                           *)
FailOnly(q, status) == Unlocked /\ req' = [req EXCEPT ![q] = Answered(q, status, @.committed, config.mode # "none")]
Fail(q, status) ==
    /\ IF config.mode = "none" /\ req[q].tx /\ ~req[q].gone THEN Abort(q) ELSE Unlocked
    /\ req' = [req EXCEPT ![q] = Answered(q, status, @.committed, @.tx /\ (config.mode # "none" \/ @.gone))]

(* jqUpdateHandler: a program in the parameter or in the body, not in both; *)
(* jq enabled, its arguments an object.                                     *)
Handle(q) ==
    /\ At(q, "handle")
    /\ \/ Fail(q, 400)
       \/ \E p \in Programs[q] : req' = [req EXCEPT ![q].pc = "parse", ![q].program = p] /\ Unlocked
    /\ UNCHANGED <<config, cache>>

-----------------------------------------------------------------------------
(* jqeval.compile, before anything else and for every row: the entry of the *)
(* cache or one more. Two requests may both miss and then both put.         *)
NeedsCode(q) == /\ req[q].code = NoCode /\ req[q].pc \in {"parse", "eval", "transform"}
                /\ At(q, "eval") => req[q].done < Len(req[q].got)

Lookup(q) ==
    /\ NeedsCode(q) /\ ~req[q].missed
    /\ cache' = Get(cache, req[q].program)
    /\ req' = [req EXCEPT ![q].missed = ~Hit(cache, req[q].program),
                          ![q].code = IF Hit(cache, req[q].program) THEN Stored(cache, req[q].program).code ELSE @]
    /\ Unlocked /\ UNCHANGED config

Compile(q) ==
    /\ NeedsCode(q) /\ req[q].missed
    /\ IF req[q].program \in Invalid THEN Fail(q, 400) /\ UNCHANGED cache
       ELSE /\ cache' = Put(cache, req[q].program)
            /\ req' = [req EXCEPT ![q].missed = FALSE, ![q].code = req[q].program]
            /\ Unlocked
    /\ UNCHANGED config

-----------------------------------------------------------------------------
(* The filters are parsed, and a transaction begun when there is none.      *)
Begin(q) ==
    /\ At(q, "parse") /\ req[q].code # NoCode
    /\ \/ Fail(q, 400)
       \/ Fail(q, 500)
       \/ /\ ~req[q].gone
          /\ req' = [req EXCEPT ![q].pc = "select", ![q].code = NoCode, ![q].tx = TRUE]
          /\ Unlocked
    /\ UNCHANGED <<config, cache>>

(* jqSelectRows: the rows that match in the snapshot that the SELECT takes  *)
(* are locked one by one, in any order, until there is one too many. What   *)
(* every row was in that snapshot is kept for OnlyMatched.                  *)
Select(q) ==
    /\ At(q, "select")
    /\ \/ Fail(q, 500)
       \/ /\ ~req[q].gone
          /\ req' = [req EXCEPT ![q].pc = "lock", ![q].todo = {r \in Rows : Matches(rows[r])},
                                ![q].seen = [r \in Rows |-> rows[r].history]]
          /\ Unlocked
    /\ UNCHANGED <<config, cache>>

(* A lock waits for its holder, and then looks at the newest version. Which *)
(* row is next is left open until it is locked. And two mutants: without    *)
(* FOR UPDATE, and a LIMIT of the rows allowed, not of one more.            *)
PlainRead(q, r) == NoOne
ForUpdate(q, r) == IF rows[r].live THEN q ELSE NoOne
LimitAtMax(q)   == At(q, "lock") /\ req[q].todo # {} /\ Len(req[q].got) < config.maxRows
Locking(q)      == At(q, "lock") /\ req[q].todo # {} /\ Len(req[q].got) <= config.maxRows
Lock(q) ==
    /\ Locking(q) /\ ~req[q].gone
    /\ \E r \in req[q].todo :
          LET g == [row |-> r, ctid |-> rows[r].ctid, history |-> rows[r].history]
          IN  /\ owner[r] = NoOne
              /\ owner' = [owner EXCEPT ![r] = ForUpdate(q, r)]
              /\ req' = [req EXCEPT ![q].todo = @ \ {r}, ![q].got = IF Matches(rows[r]) THEN Append(@, g) ELSE @]
    /\ UNCHANGED <<config, rows, draft, cache>>

(* More rows than allowed. *)
TooMany(got) == Len(got) > config.maxRows

Selected(q) ==
    /\ At(q, "lock") /\ ~Locking(q)
    /\ IF TooMany(req[q].got) THEN Fail(q, 400)
       ELSE req' = [req EXCEPT ![q].pc = "eval", ![q].todo = {}] /\ Unlocked
    /\ UNCHANGED <<config, cache>>

(* jqUpdateRow: the program fails or yields what cannot be set, has nothing *)
(* to change, or yields an object of columns.                               *)
Current(q) == req[q].got[req[q].done + 1]
NextRow(q) == [req[q] EXCEPT !.pc = "eval", !.done = @ + 1, !.code = NoCode]

Eval(q) ==
    /\ At(q, "eval") /\ req[q].code # NoCode
    /\ \/ Fail(q, 400)
       \/ /\ ~req[q].gone
          /\ req' \in {[req EXCEPT ![q] = NextRow(q)], [req EXCEPT ![q].pc = "update"]}
          /\ Unlocked
    /\ UNCHANGED <<config, cache>>

(* The UPDATE of the rows at that place: its own row, and that of another   *)
(* partition at the same place. The columns it sets may be those that the   *)
(* filters are about.                                                       *)
Hits(q) == {r \in Rows : draft[r].live /\ (owner[r] = q \/ rows[r].live) /\ draft[r].ctid = Current(q).ctid}

Update(q) ==
    /\ At(q, "update")
    /\ \/ Fail(q, 500)
       \/ /\ ~req[q].gone /\ \A r \in Hits(q) : owner[r] \in {q, NoOne}
          /\ \E o \in BOOLEAN :
                draft' = [r \in Rows |-> IF r \notin Hits(q) THEN draft[r]
                                         ELSE [draft[r] EXCEPT !.open = o, !.ctid = NewPlace(r),
                                                               !.history = Current(q).history \cup {q}]]
          /\ owner' = [r \in Rows |-> IF r \in Hits(q) THEN q ELSE owner[r]]
          /\ req' = [req EXCEPT ![q] = NextRow(q)]
          /\ UNCHANGED rows
    /\ UNCHANGED <<config, cache>>

(* jqAssembleRows: one row exactly when an object is asked for, which is   *)
(* left open until here, where it is first read.                            *)
Assembled(q) == IF Len(req[q].got) = 1 THEN {200} ELSE {200, 406}

(* The COMMIT of a transaction of its own may fail, or its answer be lost. *)
Finished(q, status, committed) ==
    req' = [req EXCEPT ![q] = Answered(q, status, committed, config.mode # "none")]
Commit(q) ==
    /\ At(q, "eval") /\ req[q].done = Len(req[q].got)
    /\ \/ config.mode # "none" /\ Unlocked /\ \E s \in Assembled(q) : Finished(q, s, FALSE)
       \/ config.mode = "none" /\ Fail(q, 500)
       \/ config.mode = "none" /\ ~req[q].gone /\ Publish(q) /\ \E s \in Assembled(q) \cup {500} : Finished(q, s, TRUE)
    /\ UNCHANGED <<config, cache>>

-----------------------------------------------------------------------------
(* POST /rpc: the function updates a row, which may match from then on or   *)
(* no longer, deletes one or inserts one, in the transaction of the request *)
(* or at once when there is none; then its result is transformed.           *)
Versions(r, w) ==
    LET Made(live, open, ctid) ==
            [live |-> live, open |-> open, history |-> rows[r].history \cup {w}, ctid |-> ctid]
    IN  {Made(TRUE, o, NewPlace(r)) : o \in BOOLEAN} \cup {Made(FALSE, FALSE, rows[r].ctid)}
Change(r, w, v) ==
    /\ draft' = [draft EXCEPT ![r] = v]
    /\ IF config.mode = "none" THEN rows' = [rows EXCEPT ![r] = v] /\ UNCHANGED owner
       ELSE owner' = [owner EXCEPT ![r] = w] /\ UNCHANGED rows

Write(w) ==
    /\ At(w, "write")
    /\ \/ Fail(w, 500)
       \/ /\ ~req[w].gone
          /\ \E r \in Rows, p \in Programs[w] :
                /\ rows[r].live \/ Unborn(r)
                /\ owner[r] = NoOne
                /\ \E v \in Versions(r, w) : (rows[r].live \/ v.live) /\ Change(r, w, v)
                /\ req' = [req EXCEPT ![w].pc = "transform", ![w].program = p, ![w].committed = config.mode = "none"]
    /\ UNCHANGED <<config, cache>>

Transform(w) ==
    /\ At(w, "transform") /\ req[w].code # NoCode
    /\ \E s \in {200, 400} : req' = [req EXCEPT ![w] = Answered(w, s, @.committed, @.tx)]
    /\ Unlocked /\ UNCHANGED <<config, cache>>

-----------------------------------------------------------------------------
(* The answer is written; then the transaction of the request ends. A       *)
(* connection that is released with an open one, or whose last statement    *)
(* cannot be sent, is closed; and two mutants: an error is committed, and   *)
(* an open transaction goes back into the pool.                             *)
CommitsAll(q) == config.mode = "commit" /\ ~req[q].gone
Commits(q)    == config.mode = "commit" /\ ~req[q].gone /\ req[q].status < 400
StaysOpen(q)  == IF req[q].gone THEN Unlocked ELSE Abort(q)
Closed(q)     == Abort(q)

Release(q) ==
    /\ At(q, "release")
    /\ \/ /\ Commits(q) /\ Publish(q)
          /\ req' = [req EXCEPT ![q] = Over(q, TRUE)]
       \/ /\ Closed(q)
          /\ req' = [req EXCEPT ![q] = Over(q, @.committed)]
    /\ UNCHANGED <<config, cache>>

(* The client goes away. *)
Cancel(q) ==
    /\ q \in Cancelers /\ ~req[q].gone /\ req[q].pc \notin {"handle", "release", "done"}
    /\ req' = [req EXCEPT ![q].gone = TRUE]
    /\ Unlocked /\ UNCHANGED <<config, cache>>

(* Two requests that wait for each other's rows (of more than two actors    *)
(* the same would be true): PostgreSQL ends one. A wait ends, too, when the *)
(* client goes away.                                                        *)
Waits(q, p) == \/ Locking(q) /\ {NoOne, p} \cap {owner[r] : r \in req[q].todo} = {p}
               \/ At(q, "update") /\ \E r \in Hits(q) : owner[r] = p
Broken(q) ==
    /\ Locking(q)
    /\ req[q].gone \/ \E p \in Clients \ {q} : Waits(q, p) /\ Waits(p, q)
    /\ Fail(q, 500)
    /\ UNCHANGED <<config, cache>>

Step(q) ==
    \/ Lookup(q) \/ Compile(q) \/ Release(q)
    \/ q \in Clients /\ (\/ Handle(q) \/ Begin(q) \/ Select(q) \/ Lock(q) \/ Selected(q)
                         \/ Eval(q) \/ Update(q) \/ Commit(q) \/ Broken(q))
    \/ q \in Writers /\ (Write(q) \/ Transform(q))

Next == \E q \in Actors : Step(q) \/ Cancel(q)

Spec     == Init /\ [][Next]_vars
LiveSpec == Spec /\ \A q \in Actors : WF_vars(Step(q))

-----------------------------------------------------------------------------
Statuses == {0, 200, 400, 406, 500}
Version  == [live : BOOLEAN, open : BOOLEAN, history : SUBSET Actors, ctid : 1..2 * Cardinality(Rows) + 1]

(* Rows without a lock have one version, a request has a status when it is  *)
(* answered, and holds rows only in a transaction (UpdateRecordsWithJQ).    *)
TypeOK ==
    /\ rows \in [Rows -> Version] /\ draft \in [Rows -> Version]
    /\ owner \in [Rows -> Actors \cup {NoOne}]
    /\ \A r \in Rows : owner[r] = NoOne => draft[r] = rows[r]
    /\ \A q \in Actors : /\ req[q].status \in Statuses
                         /\ At(q, "release") <=> req[q].status # 0
                         /\ Held(q) # {} => req[q].tx

(* An update changes only rows that it has locked, which are as many as are *)
(* allowed, and among these none is missing that matched in its snapshot    *)
(* and is still what it was: one that others have made match or inserted    *)
(* since is left out (jqSelectRows, the UPDATE by ctid).                    *)
Got(q)    == {req[q].got[i].row : i \in DOMAIN req[q].got}
Stayed(q) == {r \in Rows : Matches(rows[r]) /\ rows[r].history = req[q].seen[r]}
OnlyMatched ==
    \A q \in Clients : At(q, "eval") =>
        /\ {r \in Rows : q \in draft[r].history} \subseteq Got(q)
        /\ Stayed(q) \subseteq Got(q)
        /\ Len(req[q].got) <= config.maxRows

(* A request answered with an error has changed nothing, except without a   *)
(* transaction mode: an update that answers 406, or has lost the answer of  *)
(* its COMMIT, and a call whose transform fails, have committed. Without a  *)
(* mode, what was answered as done was done (UpdateRecordsWithJQ,           *)
(* JQTransformResponse, ReleaseConnection).                                 *)
AnswerTrue ==
    [][\A q \in Actors : At(q, "release") /\ At(q, "done")' =>
          /\ req'[q].committed /\ req[q].status >= 400 =>
                config.mode = "none" /\ (q \in Writers \/ req[q].status \in {406, 500})
          /\ req[q].status < 400 /\ ~req'[q].committed => config.mode # "none"]_vars

(* Every program runs as it was written, with its own variables, whatever   *)
(* the other requests compile, and the cache's list and map agree and are   *)
(* bounded (compile, get, put).                                             *)
OwnProgram ==
    /\ \A q \in Actors : req[q].code \in {NoCode, req[q].program}
    /\ cache.items = {cache.ll[i].key : i \in DOMAIN cache.ll}
    /\ Len(cache.ll) = Cardinality(cache.items) /\ Len(cache.ll) <= CacheEntries

(* An update happens all at once or not at all, at most once, and no change *)
(* of another is lost (SELECT ... FOR UPDATE, the one transaction).         *)
Committed == [r \in Rows |-> [live |-> rows[r].live, open |-> rows[r].open, history |-> rows[r].history]]
Promise == INSTANCE RowUpdates WITH rows <- Committed, applied <- {q \in Actors : req[q].committed}
AllOrNone == Promise!Spec

(* Every request ends, and leaves no row locked, whoever waits for whom and *)
(* whatever is canceled.                                                    *)
AllEnd == <>(\A q \in Actors : At(q, "done") /\ Held(q) = {})
=============================================================================
