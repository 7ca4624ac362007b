------------------------- MODULE JobsHandlerPromise -------------------------
(* JobsHandler implements ActiveChecks.                                        *)
EXTENDS JobsHandler

JobOf(c) == [id |-> c.id, interval |-> c.interval,
             kind |-> IF c.kind = "Http" THEN "Http" ELSE "Dummy"]

\* The places that hold a job, and the ones the table of checks knows of.
Places ==
    UNION {UNION {{JobLocation(f, o, p) : p \in DOMAIN jobs[f].jobs[o]}
                  : o \in DOMAIN jobs[f].jobs} : f \in DOMAIN jobs}

Located == {checks[id] : id \in DOMAIN checks}

JobSeen(l) == [id |-> JobAt(l).id, interval |-> l.frequency, kind |-> JobAt(l).kind]

Promise == INSTANCE ActiveChecks WITH
    CheckJobs     <- {JobOf(c) : c \in {d \in CheckOutputs : ~Malformed(d)}},
    MalformedJobs <- {JobOf(c) : c \in {d \in CheckOutputs : Malformed(d)}},
    listening     <- main = "running",
    wanted        <- DOMAIN checks,
    active        <- {JobSeen(l) : l \in Places \cap Located},
    orphans       <- {JobSeen(l) : l \in Places \ Located},
    stopped       <- {f \in DOMAIN jobs : jobs[f].process = "panicked"}

\* After any commands, in any order with the turns of the processes: a tracked check
\* has exactly one job a Remove can reach (unless its interval is zero), every other
\* job was orphaned by a second Add of its own check and stays for good, a removed
\* check has no job but those, and no command changes the jobs of another check.
KeepsPromise == Promise!Spec
============================================================================
