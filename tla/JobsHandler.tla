---------------------------- MODULE JobsHandler -----------------------------
(***************************************************************************)
(* The state of isok-agent (JobsHandler in src/isok-agent/src/job.rs): the *)
(* checks it was told to run, the schedulers that run them, and the        *)
(* interleaving of the thread that handles commands with the process of    *)
(* every scheduler.  The two meet at the mutex around a wheel of jobs, and *)
(* each holds it for all it does to the wheel, so a command and a turn of  *)
(* a process are each one step.                                            *)
(***************************************************************************)
EXTENDS JobScheduler

CONSTANTS
    CheckOutputs,  \* the checks commands may add: [id, interval, kind, url_parses]
    Redelivery     \* may an Add arrive for a check that is already tracked?

\* A check's interval and URL come from the API unchecked: zero is possible, and a
\* URL that Url::parse refuses (which matters for http checks only).
ASSUME CheckOutputsAssumption ==
    \A c \in CheckOutputs :
        /\ c = [id |-> c.id, interval |-> c.interval, kind |-> c.kind,
                url_parses |-> c.url_parses]
        /\ c.interval \in Nat
        /\ c.kind \in CheckKinds
        /\ c.url_parses \in BOOLEAN

ASSUME RedeliveryAssumption == Redelivery \in BOOLEAN

VARIABLES
    checks,   \* check id -> location of its job (HashMap<Uuid, JobLocation>)
    jobs,     \* interval -> scheduler (HashMap<Duration, JobScheduler>)
    main      \* the thread that handles commands: "running" or "panicked"

vars == <<checks, jobs, main>>

Malformed(c) == c.kind = "Http" /\ ~c.url_parses

Ids == {c.id : c \in CheckOutputs}
Intervals == {c.interval : c \in CheckOutputs}

JobLocation(f, o, p) == [frequency |-> f, offset |-> o, position |-> p]

\* HashMap::insert and HashMap::remove.
Insert(m, k, v) == [x \in DOMAIN m \cup {k} |-> IF x = k THEN v ELSE m[x]]
Remove(m, k) == [x \in DOMAIN m \ {k} |-> m[x]]

TypeOK ==
    /\ DOMAIN checks \subseteq Ids
    /\ checks \in [DOMAIN checks ->
                    [frequency: Intervals, offset: Nat, position: Nat]]
    /\ DOMAIN jobs \subseteq Intervals
    /\ jobs = [f \in DOMAIN jobs |-> jobs[f]]
    /\ \A f \in DOMAIN jobs : IsScheduler(jobs[f], f, Ids)
    /\ main \in {"running", "panicked"}

----------------------------------------------------------------------------
Init ==
    /\ checks = [id \in {} |-> {}]
    /\ jobs = [f \in {} |-> {}]
    /\ main = "running"

\* The scheduler add_check works on: the one of that interval, or a new one.
\* The process of a new one is spawned on another thread: by the time add_job gets
\* the lock it may have taken any number of turns, and overrun the last of them.
SchedulersFor(f) ==
    IF f \in DOMAIN jobs
    THEN {jobs[f]}
    ELSE {NewScheduler(f)} \cup
         {Tick(StartedScheduler(f, n), f, overran) :
                n \in Slots(f) \cup {0}, overran \in BOOLEAN}

\* MUTANT: the location holds the slot fill_cursor moved to.
AddedJobAtNextSlot(c, s) ==
    /\ ~Malformed(c)
    /\ ~s.poisoned
    /\ c.interval > 0
    /\ \E p \in VacantPositions(s) :
        LET t == PutJob(s, c.interval, Job(c), p)
        IN  /\ jobs' = Insert(jobs, c.interval, t)
            /\ checks' = Insert(checks, c.id,
                                JobLocation(c.interval, t.fill_cursor, p))
    /\ UNCHANGED main

\* The job is inserted, and the check's location recorded.  A check that was
\* already tracked gets the new location; its old job stays where it is.
AddedJob(c, s) ==
    /\ ~Malformed(c)
    /\ ~s.poisoned
    /\ c.interval > 0
    /\ \E p \in VacantPositions(s) :
        /\ jobs' = Insert(jobs, c.interval, PutJob(s, c.interval, Job(c), p))
        /\ checks' = Insert(checks, c.id,
                            JobLocation(c.interval, InsertSlot(s), p))
    /\ UNCHANGED main

\* add_job cannot lock a poisoned mutex: it inserts nothing and returns
\* (fill_cursor, 0), which add_check records as the location.
LostJob(c, s) ==
    /\ ~Malformed(c)
    /\ s.poisoned
    /\ jobs' = Insert(jobs, c.interval, s)
    /\ checks' = Insert(checks, c.id, JobLocation(c.interval, s.fill_cursor, 0))
    /\ UNCHANGED main

\* A wheel without slots, and add_job first to get the lock: the index panics
\* the thread that handles commands, with the lock held.
IndexPanic(c, s) ==
    /\ ~Malformed(c)
    /\ ~s.poisoned
    /\ c.interval = 0
    /\ jobs' = Insert(jobs, 0, [s EXCEPT !.poisoned = TRUE])
    /\ main' = "panicked"
    /\ UNCHANGED checks

\* The scheduler is there, its process spawned, when Job::from parses the URL and
\* panics the thread that handles commands; no lock is held.
UrlPanic(c, s) ==
    /\ Malformed(c)
    /\ jobs' = Insert(jobs, c.interval, s)
    /\ main' = "panicked"
    /\ UNCHANGED checks

add_check(c) ==
    /\ main = "running"
    /\ Redelivery \/ c.id \notin DOMAIN checks
    /\ \E s \in SchedulersFor(c.interval) :
        AddedJob(c, s) \/ LostJob(c, s) \/ IndexPanic(c, s) \/ UrlPanic(c, s)

\* A check that is not tracked is only warned about.
remove_check(id) ==
    /\ main = "running"
    /\ id \in DOMAIN checks
    /\ checks' = Remove(checks, id)
    /\ LET l == checks[id]
       IN  jobs' = [jobs EXCEPT ![l.frequency] =
                        RemoveJob(@, l.offset, l.position)]
    /\ UNCHANGED main

\* A turn of the process of a scheduler.
process(f) ==
    /\ jobs[f].process = "running"
    /\ \E overran \in BOOLEAN :
        jobs' = [jobs EXCEPT ![f] = IF @.poisoned THEN IdleTick(@, overran)
                                    ELSE Tick(@, f, overran)]
    /\ UNCHANGED <<checks, main>>

Next ==
    \/ \E c \in CheckOutputs : add_check(c)
    \/ \E id \in Ids : remove_check(id)
    \/ \E f \in DOMAIN jobs : process(f)

Spec == Init /\ [][Next]_vars

----------------------------------------------------------------------------
(* Properties.                                                             *)

JobAt(l) == jobs[l.frequency].jobs[l.offset][l.position]

\* Every tracked check's location leads to a scheduler, and (unless its interval
\* is zero) to a job of that very check: what the two expects of remove_check
\* rely on, after any sequence of adds, redelivered adds, removes and reuses of
\* slots and slab positions.  The panics of the scheduler of interval zero spread
\* to no other scheduler.
LocationIntegrity ==
    /\ \A id \in DOMAIN checks :
        LET l == checks[id]
        IN  /\ l.frequency \in DOMAIN jobs
            /\ l.frequency > 0 =>
                /\ HasJob(jobs[l.frequency], l.offset, l.position)
                /\ JobAt(l).id = id
    /\ \A f \in DOMAIN jobs : jobs[f].poisoned => f = 0

\* The load of an interval is spread evenly over its seconds: no slot ever had
\* more jobs at once than another plus one.  empty_slot and fill_cursor agree
\* with the wheel only through the whole history of adds and removes.
Balanced == \A f \in DOMAIN jobs \ {0} : BalancedWheel(jobs[f], f)

\* While its process runs, a job runs once per interval: never more than the
\* interval after it was added or last run, and never sooner than that after a
\* run, whatever is added to or removed from the wheel meanwhile.
PunctualRuns == \A f \in DOMAIN jobs : PunctualWheel(jobs[f], f)

\* A job keeps its place until a command removes its check: no add overwrites
\* it, and no remove of another check takes it.
JobsStayPut ==
    [][\A f \in DOMAIN jobs : \A o \in Slots(f) :
        \A p \in DOMAIN jobs[f].jobs[o] :
            LET id == jobs[f].jobs[o][p].id
            IN  \/ HasJob(jobs'[f], o, p) /\ jobs'[f].jobs[o][p].id = id
                \/ id \in DOMAIN checks \ DOMAIN checks']_vars
============================================================================
