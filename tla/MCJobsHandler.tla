--------------------------- MODULE MCJobsHandler ----------------------------
(* Small instances of JobsHandler.                                         *)
EXTENDS JobsHandlerPromise

MCCheckKinds == {"Http", "Dns"}

Check(id, interval, kind) ==
    [id |-> id, interval |-> interval, kind |-> kind, url_parses |-> TRUE]

BadUrl(id, interval) ==
    [id |-> id, interval |-> interval, kind |-> "Http", url_parses |-> FALSE]

\* Every Add may arrive again: jobs pile up until each slot of the wheel is full.
OneWheel == {Check("a", 2, "Http"), Check("b", 2, "Dns"), Check("c", 2, "Http"),
             Check("z", 0, "Http"), BadUrl("u", 1)}

\* Wheels of two slots and of one; a check that comes again with another interval,
\* zero included; and a malformed one of interval zero.
TwoWheels == {Check("a", 2, "Http"), Check("b", 2, "Dns"), Check("a", 1, "Http"),
              Check("c", 2, "Http"), Check("b", 0, "Dns"), BadUrl("u", 0)}

OnePosition == {0}
TwoPositions == 0 .. 1

\* The comment on Job::execute_dummy, "Execute a dummy job (for test only)", says
\* that no job an agent runs for a check is a dummy one.
NoDummyRuns ==
    \A f \in DOMAIN jobs : \A o \in Slots(f) : \A p \in DOMAIN jobs[f].jobs[o] :
        jobs[f].jobs[o][p].kind = "Dummy" => jobs[f].jobs[o][p].fresh
============================================================================
