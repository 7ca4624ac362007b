---------------------------- MODULE ActiveChecks ----------------------------
(***************************************************************************)
(* What isok-agent promises the rest of the system: it runs the checks it  *)
(* was told to add and not yet told to remove, one job for each, and no    *)
(* other job but the ones it lost sight of.                                *)
(*                                                                         *)
(*   listening  it still handles commands                                  *)
(*   wanted     the checks it was told to add and not to remove since      *)
(*   active     the jobs a Remove can reach: [id, interval, kind] records  *)
(*   orphans    the jobs no Remove can reach any more                      *)
(*   stopped    the intervals whose jobs no longer run                     *)
(*                                                                         *)
(* The promise has the code's exceptions: an Add for a check that is       *)
(* already there makes a second job and orphans the first for good; a      *)
(* check of interval zero never gets a job, and it or one whose URL is     *)
(* malformed may end the handling of commands; the jobs of an interval     *)
(* may stop, the first one's before it ran.                                *)
(***************************************************************************)
EXTENDS Integers

CONSTANTS
    CheckJobs,      \* the jobs an agent can be asked to run
    MalformedJobs   \* those whose URL it cannot parse

VARIABLES listening, wanted, active, orphans, stopped

vars == <<listening, wanted, active, orphans, stopped>>

Init ==
    /\ listening = TRUE
    /\ wanted = {}
    /\ active = {}
    /\ orphans = {}
    /\ stopped = {}

JobsOf(id) == {k \in active : k.id = id}

\* An interval may have stopped by the time it gets its first job.
Add(j) ==
    /\ listening
    /\ j.interval > 0
    /\ wanted' = wanted \cup {j.id}
    /\ active' = (active \ JobsOf(j.id)) \cup {j}
    /\ orphans' = orphans \cup JobsOf(j.id)
    /\ stopped' \in {stopped, stopped \cup {j.interval}}
    /\ UNCHANGED listening

\* Interval zero: the check is wanted and has no job, not even the one it had.
Refuse(j) ==
    /\ listening
    /\ j.interval = 0
    /\ wanted' = wanted \cup {j.id}
    /\ active' = active \ JobsOf(j.id)
    /\ orphans' = orphans \cup JobsOf(j.id)
    /\ stopped' = stopped \cup {0}
    /\ UNCHANGED listening

\* Interval zero, or a URL that cannot be parsed: no command is handled from now
\* on, and the jobs that are there go on running.
Panic(j) ==
    /\ listening
    /\ j.interval = 0 \/ j \in MalformedJobs
    /\ listening' = FALSE
    /\ stopped' \in {stopped, stopped \cup {j.interval}}
    /\ UNCHANGED <<wanted, active, orphans>>

Remove(id) ==
    /\ listening
    /\ wanted' = wanted \ {id}
    /\ active' = active \ JobsOf(id)
    /\ UNCHANGED <<listening, orphans, stopped>>

Stop(f) ==
    /\ stopped' = stopped \cup {f}
    /\ UNCHANGED <<listening, wanted, active, orphans>>

Next ==
    \/ \E j \in CheckJobs : Add(j) \/ Refuse(j)
    \/ \E j \in CheckJobs \cup MalformedJobs : Panic(j)
    \/ \E id \in {j.id : j \in CheckJobs \cup MalformedJobs} : Remove(id)
    \/ \E f \in {j.interval : j \in CheckJobs \cup MalformedJobs} : Stop(f)

Spec == Init /\ [][Next]_vars
============================================================================
