---------------------------- MODULE CheckRouting ----------------------------
(***************************************************************************)
(* How isok-proxy finds the region of a check: utils::proxy in             *)
(* src/isok-proxy/src/utils.rs, over the answers of one isok-api per       *)
(* region (src/isok-api/src/api/checks.rs).                                *)
(*                                                                         *)
(* The proxy does not know where a check is.  A create names its region;   *)
(* the other requests are tried on one region after the other, in the      *)
(* order of a HashMap, until one answers Ok.  A region that has not        *)
(* answered in 15 seconds is given up, but it may still do what it was     *)
(* asked, and so may one whose caller has hung up.  That the caller and    *)
(* the check are of one organization is taken as read.                     *)
(***************************************************************************)
EXTENDS Integers, Sequences, FiniteSets

CONSTANTS
    Regions,
    Requests      \* [nr, op, check, region] records; region matters to a create

\* The database of a region names a check when it stores it: one create makes one
\* check, and a retried create makes another.
ASSUME RoutingAssumption ==
    /\ IsFiniteSet(Regions) /\ Regions # {}
    /\ \A r \in Requests :
        r.op \in {"create", "update", "delete", "get"} /\ r.region \in Regions
    /\ \A r, s \in Requests :
        r.op = "create" /\ s.op = "create" /\ r.check = s.check => r = s

Checks == {r.check : r \in Requests}

VARIABLES
    apis,       \* the regions in the order of the HashMap, which never changes
    rows,       \* check -> [region, state]
    asks,       \* request -> its handler: [at, turn, reply, answer, by, late, refused]
    underway,   \* <<request, region>>: sent to that region and not done there
    effects     \* history: the requests that wrote a row

vars == <<apis, rows, asks, underway, effects>>

Orders == {s \in [1 .. Cardinality(Regions) -> Regions] :
            \A i, j \in DOMAIN s : s[i] = s[j] => i = j}

\* at      "idle", "asking" or "done"
\* turn    the region asked now is the turn-th
\* reply   what it replied, or "none" so far
\* answer  what the caller was told, and by which region's reply
\* late    history: the regions given up
\* refused history: the regions that replied with an error, or hung up
Unasked == [at |-> "idle", turn |-> 1, reply |-> "none", answer |-> "none",
            by |-> "none", late |-> {}, refused |-> {}]

Init ==
    /\ apis \in Orders
    /\ rows = [c \in Checks |-> [region |-> "none", state |-> "absent"]]
    /\ asks = [r \in Requests |-> Unasked]
    /\ underway = {}
    /\ effects = {}

Region(r, turn) == IF r.op = "create" THEN r.region ELSE apis[turn]

\* A caller knows of a check once it is stored.
start(r) ==
    /\ asks[r] = Unasked
    /\ r.op # "create" => rows[r.check].state # "absent"
    /\ asks' = [asks EXCEPT ![r].at = "asking"]
    /\ underway' = underway \cup {<<r, Region(r, 1)>>}
    /\ UNCHANGED <<apis, rows, effects>>

----------------------------------------------------------------------------
(* The regions.                                                            *)

\* MUTANT: a late reply is taken for that of the region asked now.
Replied_to_any(r, region, status) ==
    IF asks[r].at = "asking" THEN [asks EXCEPT ![r].reply = status] ELSE asks

\* A reply reaches a handler that still waits for that region.
Replied(r, region, status) ==
    IF asks[r].at = "asking" /\ Region(r, asks[r].turn) = region
    THEN [asks EXCEPT ![r].reply = status] ELSE asks

\* The connection may be lost behind the region's step, as an error for the proxy.
Replies(r, region, status) == {Replied(r, region, s) : s \in {status, "error"}}

\* MUTANT: a deleted row is found, too.
Hit_deleted_too(r, region) == rows[r.check].region = region

\* The row an API finds: live, and of its own database.
Hit(r, region) == rows[r.check].state = "live" /\ rows[r.check].region = region

Wrote(r, row) ==
    /\ rows' = [rows EXCEPT ![r.check] = row]
    /\ effects' = effects \cup {r}

insert_check(r, region) ==
    /\ r.op = "create"
    /\ Wrote(r, [region |-> region, state |-> "live"])
    /\ asks' \in Replies(r, region, "ok")

\* An UPDATE that finds no row is answered Ok, too.
change_check(r, region) ==
    /\ r.op = "update"
    /\ IF Hit(r, region) THEN Wrote(r, rows[r.check]) ELSE UNCHANGED <<rows, effects>>
    /\ asks' \in Replies(r, region, "ok")

delete_check(r, region) ==
    /\ r.op = "delete"
    /\ IF Hit(r, region)
       THEN /\ Wrote(r, [rows[r.check] EXCEPT !.state = "deleted"])
            /\ asks' \in Replies(r, region, "ok")
       ELSE /\ asks' \in Replies(r, region, "not_found")
            /\ UNCHANGED <<rows, effects>>

get_check(r, region) ==
    /\ r.op = "get"
    /\ asks' \in Replies(r, region, IF Hit(r, region) THEN "ok" ELSE "not_found")
    /\ UNCHANGED <<rows, effects>>

\* The region cannot be reached, or its database fails before the statement.
refuse(r, region) ==
    /\ asks' = Replied(r, region, "error")
    /\ UNCHANGED <<rows, effects>>

\* A region does what it was asked, perhaps after the proxy gave it up.
RegionStep(r, region) ==
    /\ <<r, region>> \in underway
    /\ underway' = underway \ {<<r, region>>}
    /\ \/ insert_check(r, region) \/ change_check(r, region)
       \/ delete_check(r, region) \/ get_check(r, region) \/ refuse(r, region)
    /\ UNCHANGED apis

----------------------------------------------------------------------------
(* The proxy.                                                              *)

LastTurn(r) == IF r.op = "create" THEN 1 ELSE Len(apis)

\* MUTANT: a change goes to every region.
Final_update_everywhere(r, status) ==
    asks[r].turn = LastTurn(r) \/ (status = "ok" /\ r.op # "update")

\* The loop over the regions ends at the first Ok, or after the last region.
Final(r, status) == asks[r].turn = LastTurn(r) \/ status = "ok"

\* What the caller is told at the end: delete and get make a NotFound of any
\* failure; the others pass on the last one.
Answer(r, status) ==
    IF status # "ok" /\ r.op \in {"delete", "get"} THEN "not_found" ELSE status

Settle(r, status, asked) ==
    IF Final(r, status)
    THEN /\ asks' = [asks EXCEPT ![r] =
                        [asked EXCEPT !.at = "done", !.turn = 1, !.reply = "none",
                                      !.answer = Answer(r, status),
                                      !.by = Region(r, asked.turn)]]
         /\ UNCHANGED underway
    ELSE /\ asks' = [asks EXCEPT ![r] = [asked EXCEPT !.turn = @ + 1, !.reply = "none"]]
         /\ underway' = underway \cup {<<r, Region(r, asked.turn + 1)>>}

Asked(r) == Region(r, asks[r].turn)

receive(r) ==
    /\ asks[r].at = "asking"
    /\ asks[r].reply # "none"
    /\ Settle(r, asks[r].reply,
              IF asks[r].reply = "error"
              THEN [asks[r] EXCEPT !.refused = @ \cup {Asked(r)}] ELSE asks[r])
    /\ UNCHANGED <<apis, rows, effects>>

\* MUTANT: a delete is sent without a timeout.
timeout_but_delete(r) ==
    /\ asks[r].at = "asking"
    /\ r.op # "delete"
    /\ Settle(r, "error", [asks[r] EXCEPT !.late = @ \cup {Asked(r)}])
    /\ UNCHANGED <<apis, rows, effects>>

\* After 15 seconds the region is given up, also if its reply is on the way.
timeout(r) ==
    /\ asks[r].at = "asking"
    /\ Settle(r, "error", [asks[r] EXCEPT !.late = @ \cup {Asked(r)}])
    /\ UNCHANGED <<apis, rows, effects>>

\* The caller hangs up and the handler is dropped, between two regions.
hang_up(r) ==
    /\ asks[r].at = "asking"
    /\ asks' = [asks EXCEPT ![r].at = "done", ![r].turn = 1, ![r].reply = "none"]
    /\ UNCHANGED <<apis, rows, underway, effects>>

----------------------------------------------------------------------------
ProxyStep(r) == receive(r) \/ timeout(r)

Next ==
    \E r \in Requests :
        \/ start(r) \/ ProxyStep(r) \/ hang_up(r)
        \/ \E region \in Regions : RegionStep(r, region)

Spec == Init /\ [][Next]_vars

\* The proxy's timer runs; nothing is assumed of the regions.
FairSpec == Spec /\ \A r \in Requests : WF_vars(ProxyStep(r))

----------------------------------------------------------------------------
(* Properties.                                                             *)

\* The type invariant.  A handler waits for the region it asks now, and for no other:
\* what an earlier region still does cannot be taken for its answer.
TypeOK ==
    /\ apis \in Orders
    /\ rows \in [Checks -> [region: Regions \cup {"none"},
                            state: {"absent", "live", "deleted"}]]
    /\ \A r \in Requests :
        /\ asks[r].at \in {"idle", "asking", "done"}
        /\ asks[r].turn \in 1 .. Cardinality(Regions)
        /\ asks[r].reply \in {"none", "ok", "not_found", "error"}
        /\ asks[r].answer \in {"none", "ok", "not_found", "error"}
        /\ asks[r].by \in Regions \cup {"none"}
        /\ asks[r].at = "asking" =>
                (asks[r].reply = "none" <=> <<r, Asked(r)>> \in underway)
        /\ asks[r].late \cup asks[r].refused \subseteq Regions
    /\ underway \subseteq Requests \X Regions
    /\ effects \subseteq Requests

Answered(r, op, answer) == r.op = op /\ asks[r].answer = answer

\* A create or delete answered Ok was made, and by nobody else: two deletes of a
\* check are not both answered Ok, however they race, time out and are retried.
OkIsDone ==
    \A r \in Requests :
        /\ Answered(r, "create", "ok") =>
                r \in effects /\ rows[r.check].region = r.region
        /\ Answered(r, "delete", "ok") =>
                /\ r \in effects /\ rows[r.check].state = "deleted"
                /\ \A s \in Requests :
                    Answered(s, "delete", "ok") /\ s.check = r.check => s = r

Home(r) == rows[r.check].region

\* NotFound is to be believed of a check whose own region was neither given up nor
\* failed to reply: it has been deleted.  Only then: any failure at home is told
\* as NotFound, too, even of a delete that was made.
NotFoundIsTrue ==
    \A r \in Requests :
        /\ Answered(r, "delete", "not_found") \/ Answered(r, "get", "not_found")
        /\ Home(r) \notin asks[r].late \cup asks[r].refused
        => rows[r.check].state = "deleted"

\* What a change answered Ok has done: it was made if the check's own region gave the
\* answer, and lost if another region did, which has no such row and says Ok; unless
\* the own region was asked before, and made it after it was given up or before its
\* reply was lost.
ChangesMadeWhereAnswered ==
    \A r \in Requests :
        Answered(r, "update", "ok") =>
            /\ asks[r].by = Home(r) /\ rows[r.check].state = "live" => r \in effects
            /\ r \in effects => \/ asks[r].by = Home(r)
                                 \/ Home(r) \in asks[r].late \cup asks[r].refused

\* Whatever the regions do, every request comes to an end.
RequestsAnswered == \A r \in Requests : asks[r].at = "asking" ~> asks[r].at = "done"
=============================================================================
