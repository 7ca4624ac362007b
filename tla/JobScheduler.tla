---------------------------- MODULE JobScheduler ----------------------------
(***************************************************************************)
(* The job scheduler of isok-agent (src/isok-agent/src/job.rs).            *)
(*                                                                         *)
(* The agent keeps one scheduler per check interval.  A scheduler of range *)
(* n (an interval of n seconds) is a wheel of n slots; every slot is a     *)
(* slab of jobs.  Its process goes round the wheel, one slot a second, and *)
(* runs all jobs of the slot it is at, so that each job runs once per      *)
(* interval and the jobs are spread over its seconds.                      *)
(*                                                                         *)
(* A scheduler is a record:                                                *)
(*   fill_cursor  the slot the next job goes to when no slot has a hole    *)
(*   empty_slot   a stack of slots, one entry for each job removed from it *)
(*   jobs         the wheel: slot -> (position in its slab -> job)         *)
(*   poisoned     the mutex around the wheel was held by a panicking task  *)
(*   time_cursor  the slot the process runs next (a local of the process)  *)
(*   process      "running", or "panicked": its JoinHandle is never looked *)
(*                at, so nobody notices                                    *)
(* The operators below take the scheduler and return the new one; they are *)
(* not actions.  JobsHandler composes them.                                *)
(***************************************************************************)
EXTENDS Integers, Sequences, FiniteSets

CONSTANT
    Positions,     \* positions a slab can give to a job
    CheckKinds     \* kinds of check; only "Http" is told apart

ASSUME PositionsAssumption == Positions \subseteq Nat /\ 0 \in Positions

----------------------------------------------------------------------------
(* Jobs and slabs.                                                         *)

\* Job::from: an http check becomes an http job, any other kind a dummy job.
\* fresh and idle are history: the job has not run yet; the number of turns of
\* the process since the job was inserted or run.
Job(c) == [id    |-> c.id,
           kind  |-> IF c.kind = "Http" THEN "Http" ELSE "Dummy",
           fresh |-> TRUE,
           idle  |-> 0]

EmptySlab == [p \in {} |-> {}]

SlabInsert(slab, p, job) ==
    [q \in DOMAIN slab \cup {p} |-> IF q = p THEN job ELSE slab[q]]

SlabRemove(slab, p) == [q \in DOMAIN slab \ {p} |-> slab[q]]

----------------------------------------------------------------------------
(* The wheel.                                                              *)

Slots(range) == 0 .. range - 1

NewScheduler(range) ==
    [fill_cursor |-> 0,
     empty_slot  |-> <<>>,
     jobs        |-> [o \in Slots(range) |-> EmptySlab],
     poisoned    |-> FALSE,
     time_cursor |-> 0,
     process     |-> "running"]

\* The same, its process at slot n.
StartedScheduler(range, n) == [NewScheduler(range) EXCEPT !.time_cursor = n]

\* MUTANT: the wrap of a cursor is off by one.
AdvanceLate(cursor, range) == IF cursor = range THEN 0 ELSE cursor + 1

\* Both cursors move to the next slot of the wheel the same way.
Advance(cursor, range) == IF cursor + 1 = range THEN 0 ELSE cursor + 1

\* The slot add_job inserts into: the last one that lost a job, if any,
\* otherwise the one at fill_cursor.
InsertSlot(s) ==
    IF s.empty_slot = <<>> THEN s.fill_cursor
                           ELSE s.empty_slot[Len(s.empty_slot)]

\* The positions slab.insert can give in that slot.  The slab chooses; all its
\* callers rely on is that the position was vacant.
VacantPositions(s) == Positions \ DOMAIN s.jobs[InsertSlot(s)]

\* add_job, when it gets the lock: insert at position p of that slot, and either
\* move fill_cursor on or pop the slot from empty_slot.
PutJob(s, range, job, p) ==
    [s EXCEPT !.jobs[InsertSlot(s)] = SlabInsert(@, p, job),
              !.fill_cursor = IF s.empty_slot = <<>> THEN Advance(@, range) ELSE @,
              !.empty_slot  = IF s.empty_slot = <<>> THEN <<>>
                              ELSE SubSeq(@, 1, Len(@) - 1)]

HasJob(s, offset, p) == offset \in DOMAIN s.jobs /\ p \in DOMAIN s.jobs[offset]

\* MUTANT: the slot of a removed job is not remembered.
RemoveJobForgetSlot(s, offset, p) ==
    IF s.poisoned \/ ~HasJob(s, offset, p) THEN s
    ELSE [s EXCEPT !.jobs[offset] = SlabRemove(@, p)]

\* MUTANT: the slot of a removed job is remembered, and the job left in it.
RemoveJobLeaveJob(s, offset, p) ==
    IF s.poisoned \/ ~HasJob(s, offset, p) THEN s
    ELSE [s EXCEPT !.empty_slot = Append(@, offset)]

\* remove_job: nothing but a log line when the lock is poisoned, the slot does
\* not exist or the position is vacant.
RemoveJob(s, offset, p) ==
    IF s.poisoned \/ ~HasJob(s, offset, p) THEN s
    ELSE [s EXCEPT !.jobs[offset] = SlabRemove(@, p),
                   !.empty_slot   = Append(@, offset)]

\* The jobs of the slot at time_cursor run; the others wait one turn more.
RunSlot(s) ==
    [o \in DOMAIN s.jobs |->
        [p \in DOMAIN s.jobs[o] |->
            IF o = s.time_cursor
            THEN [s.jobs[o][p] EXCEPT !.fresh = FALSE, !.idle = 0]
            ELSE [s.jobs[o][p] EXCEPT !.idle = @ + 1]]]

\* MUTANT: the process skips a slot when it wraps.
TickSkipSlot(s, range, overran) ==
    [s EXCEPT !.jobs = RunSlot(s),
              !.time_cursor = IF @ + 2 >= range THEN 0 ELSE @ + 1,
              !.process = IF overran THEN "panicked" ELSE @]

\* One iteration of the process loop.  overran: the iteration took longer than
\* its second, or the clock went back; the subtraction (or the expect) in the
\* argument of sleep then panics, with the lock already released.
\* A wheel of range 0 has no slot to index: that panic comes with the lock held.
Tick(s, range, overran) ==
    IF range = 0
    THEN [s EXCEPT !.poisoned = TRUE, !.process = "panicked"]
    ELSE [s EXCEPT !.jobs = RunSlot(s),
                   !.time_cursor = Advance(@, range),
                   !.process = IF overran THEN "panicked" ELSE @]

\* An iteration that finds the mutex poisoned runs nothing, and may take too long
\* like any other.  Its cursor, which goes on, indexes nothing any more.
IdleTick(s, overran) == [s EXCEPT !.process = IF overran THEN "panicked" ELSE @]

----------------------------------------------------------------------------
(* What the state of a scheduler of a range looks like.                    *)

Jobs(Ids) == [id: Ids, kind: {"Http", "Dummy"}, fresh: BOOLEAN, idle: Nat]

IsSlab(slab, Ids) ==
    /\ DOMAIN slab \subseteq Positions
    /\ IsFiniteSet(DOMAIN slab)
    /\ slab \in [DOMAIN slab -> Jobs(Ids)]

\* The cursors of a wheel without slots are zero too.
SchedulerFields(range, wheels) ==
    [fill_cursor: Slots(range) \cup {0},
     empty_slot:  Seq(Slots(range)),
     jobs:        wheels,
     poisoned:    BOOLEAN,
     time_cursor: Slots(range) \cup {0},
     process:     {"running", "panicked"}]

IsScheduler(s, range, Ids) ==
    /\ s \in SchedulerFields(range, {[o \in Slots(range) |-> s.jobs[o]]})
    /\ \A o \in Slots(range) : IsSlab(s.jobs[o], Ids)

----------------------------------------------------------------------------
(* What a wheel keeps true of itself.                                      *)

\* The holes of a slot: its entries on empty_slot.
Holes(s, o) == {i \in DOMAIN s.empty_slot : s.empty_slot[i] = o}

\* The most jobs slot o ever had at once.
SlotPeak(s, o) == Cardinality(DOMAIN s.jobs[o]) + Cardinality(Holes(s, o))

\* The peaks differ by at most one: the slots fill_cursor has passed in this
\* lap are ahead of the others, and the last slot is never one of them.
BalancedWheel(s, range) ==
    \A o \in Slots(range) :
        SlotPeak(s, o) =
            SlotPeak(s, range - 1) + (IF o < s.fill_cursor THEN 1 ELSE 0)

\* The turns until the process comes to slot o.
TurnsUntil(s, range, o) ==
    IF o >= s.time_cursor THEN o - s.time_cursor ELSE o + range - s.time_cursor

\* A job is in time: the turns it waited and those it still has to wait make up
\* the wheel, and no more than that before its first run.
PunctualJob(s, range, o, p) ==
    LET waits == s.jobs[o][p].idle + TurnsUntil(s, range, o)
    IN  IF s.jobs[o][p].fresh THEN waits < range ELSE waits = range - 1

PunctualWheel(s, range) ==
    \A o \in Slots(range) : \A p \in DOMAIN s.jobs[o] : PunctualJob(s, range, o, p)
============================================================================
