------------------------- MODULE JobsHandlerProofs --------------------------
(***************************************************************************)
(* Proofs about JobScheduler and JobsHandler, for any checks and           *)
(* intervals, redelivered adds included: the locations, the wheels, and    *)
(* the promise (ActiveChecks) the handler keeps.  Only that no job is ever *)
(* orphaned (NoOrphans) needs that no Add is redelivered.                  *)
(***************************************************************************)
EXTENDS JobsHandlerPromise, FiniteSetTheorems, TLAPS

----------------------------------------------------------------------------
(* The operators on a wheel with at least one slot.                        *)

LEMMA AdvanceInSlots ==
    ASSUME NEW range \in Nat \ {0}, NEW cursor \in Slots(range)
    PROVE  Advance(cursor, range) \in Slots(range)
BY DEF Advance, Slots

LEMMA FieldsOK ==
    ASSUME NEW range \in Nat, NEW s, IsScheduler(s, range, Ids)
    PROVE  /\ s.empty_slot \in Seq(Slots(range))
           /\ DOMAIN s.jobs = Slots(range)
           /\ s.jobs = [o \in Slots(range) |-> s.jobs[o]]
           /\ s.poisoned \in BOOLEAN
           /\ s.process \in {"running", "panicked"}
           /\ \A o \in Slots(range) : IsSlab(s.jobs[o], Ids)
BY DEF IsScheduler, SchedulerFields

LEMMA CursorsOK ==
    ASSUME NEW range \in Nat \ {0}, NEW s, IsScheduler(s, range, Ids)
    PROVE  s.fill_cursor \in Slots(range) /\ s.time_cursor \in Slots(range)
BY DEF IsScheduler, SchedulerFields, Slots

LEMMA NewSchedulerOK ==
    ASSUME NEW range \in Nat
    PROVE  IsScheduler(NewScheduler(range), range, Ids)
<1>1. IsSlab(EmptySlab, Ids)
  BY FS_EmptySet DEF IsSlab, EmptySlab
<1> QED
  BY <1>1 DEF IsScheduler, SchedulerFields, NewScheduler

\* A wheel whose process went round it before it had a job.
LEMMA StartedSchedulerOK ==
    ASSUME NEW range \in Nat, NEW n \in Slots(range) \cup {0}
    PROVE  LET s == StartedScheduler(range, n)
           IN  /\ IsScheduler(s, range, Ids)
               /\ ~s.poisoned /\ s.process = "running"
               /\ s.jobs = [o \in Slots(range) |-> EmptySlab]
               /\ s.fill_cursor = 0 /\ s.empty_slot = <<>>
<1> DEFINE s == StartedScheduler(range, n)
           new == NewScheduler(range)
           wheel == [o \in Slots(range) |-> EmptySlab]
<1>1. /\ new \in SchedulerFields(range, {wheel})
      /\ new.jobs = wheel /\ new.fill_cursor = 0 /\ new.empty_slot = <<>>
      /\ new.process = "running" /\ new.poisoned = FALSE
  BY DEF NewScheduler, SchedulerFields
<1>2. s = [new EXCEPT !.time_cursor = n]
  BY DEF StartedScheduler
<1> HIDE DEF new, s, wheel
<1>3. /\ s \in SchedulerFields(range, {wheel})
      /\ s.jobs = wheel /\ s.fill_cursor = 0 /\ s.empty_slot = <<>>
      /\ s.process = "running" /\ s.poisoned = FALSE
  BY <1>1, <1>2 DEF SchedulerFields
<1>4. IsSlab(EmptySlab, Ids)
  BY FS_EmptySet DEF IsSlab, EmptySlab
<1>5. IsScheduler(s, range, Ids)
  BY <1>3, <1>4 DEF IsScheduler, wheel
<1> QED
  BY <1>3, <1>5 DEF s, wheel

LEMMA SlabInsertIs ==
    ASSUME NEW slab, NEW p, NEW job
    PROVE  /\ DOMAIN SlabInsert(slab, p, job) = DOMAIN slab \cup {p}
           /\ SlabInsert(slab, p, job)[p] = job
           /\ \A q \in DOMAIN slab \ {p} : SlabInsert(slab, p, job)[q] = slab[q]
BY DEF SlabInsert

LEMMA SlabInsertOK ==
    ASSUME NEW slab, IsSlab(slab, Ids), NEW p \in Positions, NEW job \in Jobs(Ids)
    PROVE  IsSlab(SlabInsert(slab, p, job), Ids)
BY FS_AddElement DEF IsSlab, SlabInsert

LEMMA SlabRemoveIs ==
    ASSUME NEW slab, NEW p
    PROVE  /\ DOMAIN SlabRemove(slab, p) = DOMAIN slab \ {p}
           /\ \A q \in DOMAIN slab \ {p} : SlabRemove(slab, p)[q] = slab[q]
BY DEF SlabRemove

LEMMA SlabRemoveOK ==
    ASSUME NEW slab, IsSlab(slab, Ids), NEW p
    PROVE  IsSlab(SlabRemove(slab, p), Ids)
BY FS_RemoveElement DEF IsSlab, SlabRemove

LEMMA InsertSlotOK ==
    ASSUME NEW range \in Nat \ {0}, NEW s, IsScheduler(s, range, Ids)
    PROVE  InsertSlot(s) \in Slots(range)
<1>1. s.fill_cursor \in Slots(range) /\ s.empty_slot \in Seq(Slots(range))
  BY FieldsOK, CursorsOK
<1> QED
  BY <1>1 DEF InsertSlot

LEMMA PutJobOK ==
    ASSUME NEW range \in Nat \ {0}, NEW s, IsScheduler(s, range, Ids),
           NEW job \in Jobs(Ids), NEW p \in VacantPositions(s)
    PROVE  LET t == PutJob(s, range, job, p)
               o == InsertSlot(s)
           IN  /\ IsScheduler(t, range, Ids)
               /\ t.jobs = [s.jobs EXCEPT ![o] = SlabInsert(s.jobs[o], p, job)]
               /\ t.fill_cursor = IF s.empty_slot = <<>>
                                  THEN Advance(s.fill_cursor, range) ELSE s.fill_cursor
               /\ t.empty_slot = IF s.empty_slot = <<>> THEN <<>>
                                 ELSE SubSeq(s.empty_slot, 1, Len(s.empty_slot) - 1)
               /\ t.poisoned = s.poisoned
               /\ t.time_cursor = s.time_cursor
               /\ t.process = s.process
<1> DEFINE t == PutJob(s, range, job, p)
           o == InsertSlot(s)
           tjobs == [s.jobs EXCEPT ![o] = SlabInsert(s.jobs[o], p, job)]
           tfill == IF s.empty_slot = <<>>
                    THEN Advance(s.fill_cursor, range) ELSE s.fill_cursor
           tempty == IF s.empty_slot = <<>> THEN <<>>
                     ELSE SubSeq(s.empty_slot, 1, Len(s.empty_slot) - 1)
<1>1. o \in Slots(range) /\ p \in Positions
  BY InsertSlotOK DEF VacantPositions
<1>2. /\ t.jobs = tjobs
      /\ t.fill_cursor = tfill
      /\ t.empty_slot = tempty
      /\ t.poisoned = s.poisoned
      /\ t.time_cursor = s.time_cursor
      /\ t.process = s.process
  BY DEF PutJob, IsScheduler, SchedulerFields
<1>3. tfill \in Slots(range) \cup {0}
  BY CursorsOK, AdvanceInSlots
<1>4. tempty \in Seq(Slots(range))
  <2>1. s.empty_slot \in Seq(Slots(range))
    BY FieldsOK
  <2> QED
    BY <2>1
<1>5. /\ tjobs = [q \in Slots(range) |-> tjobs[q]]
      /\ \A q \in Slots(range) : IsSlab(tjobs[q], Ids)
  BY <1>1, FieldsOK, SlabInsertOK
<1>6. t \in SchedulerFields(range, {tjobs})
  <2>1. s \in SchedulerFields(range, {s.jobs, tjobs})
    BY DEF IsScheduler, SchedulerFields
  <2> QED
    BY <2>1, <1>2, <1>3, <1>4 DEF PutJob, SchedulerFields
<1>7. IsScheduler(t, range, Ids)
  BY <1>2, <1>5, <1>6 DEF IsScheduler
<1> QED
  BY <1>2, <1>7

LEMMA RemoveJobOK ==
    ASSUME NEW range \in Nat, NEW s, IsScheduler(s, range, Ids),
           ~s.poisoned, NEW o, NEW p, HasJob(s, o, p)
    PROVE  LET t == RemoveJob(s, o, p)
           IN  /\ IsScheduler(t, range, Ids)
               /\ t.jobs = [s.jobs EXCEPT ![o] = SlabRemove(s.jobs[o], p)]
               /\ t.fill_cursor = s.fill_cursor
               /\ t.empty_slot = Append(s.empty_slot, o)
               /\ t.poisoned = s.poisoned
               /\ t.time_cursor = s.time_cursor
               /\ t.process = s.process
<1> DEFINE t == RemoveJob(s, o, p)
           tjobs == [s.jobs EXCEPT ![o] = SlabRemove(s.jobs[o], p)]
<1>1. o \in Slots(range)
  BY FieldsOK DEF HasJob
<1>2. t = [s EXCEPT !.jobs[o] = SlabRemove(@, p), !.empty_slot = Append(@, o)]
  BY DEF RemoveJob
<1>3. /\ t.jobs = tjobs
      /\ t.fill_cursor = s.fill_cursor
      /\ t.empty_slot = Append(s.empty_slot, o)
      /\ t.poisoned = s.poisoned
      /\ t.time_cursor = s.time_cursor
      /\ t.process = s.process
  BY <1>2 DEF IsScheduler, SchedulerFields
<1>4. Append(s.empty_slot, o) \in Seq(Slots(range))
  <2>1. s.empty_slot \in Seq(Slots(range))
    BY FieldsOK
  <2> QED
    BY <1>1, <2>1
<1>5. /\ tjobs = [q \in Slots(range) |-> tjobs[q]]
      /\ \A q \in Slots(range) : IsSlab(tjobs[q], Ids)
  BY <1>1, FieldsOK, SlabRemoveOK
<1>6. t \in SchedulerFields(range, {tjobs})
  <2>1. s \in SchedulerFields(range, {s.jobs, tjobs})
    BY DEF IsScheduler, SchedulerFields
  <2> QED
    BY <2>1, <1>2, <1>4 DEF SchedulerFields
<1>7. IsScheduler(t, range, Ids)
  BY <1>3, <1>5, <1>6 DEF IsScheduler
<1> QED
  BY <1>3, <1>7

LEMMA TickOK ==
    ASSUME NEW range \in Nat \ {0}, NEW s, IsScheduler(s, range, Ids),
           NEW overran \in BOOLEAN
    PROVE  LET t == Tick(s, range, overran)
           IN  /\ IsScheduler(t, range, Ids)
               /\ t.jobs = RunSlot(s)
               /\ t.fill_cursor = s.fill_cursor
               /\ t.empty_slot = s.empty_slot
               /\ t.poisoned = s.poisoned
               /\ t.time_cursor = Advance(s.time_cursor, range)
<1> DEFINE t == Tick(s, range, overran)
<1>1. t = [s EXCEPT !.jobs = RunSlot(s), !.time_cursor = Advance(@, range),
                    !.process = IF overran THEN "panicked" ELSE @]
  BY DEF Tick
<1>2. /\ t.jobs = RunSlot(s)
      /\ t.fill_cursor = s.fill_cursor
      /\ t.empty_slot = s.empty_slot
      /\ t.poisoned = s.poisoned
      /\ t.time_cursor = Advance(s.time_cursor, range)
  BY <1>1 DEF IsScheduler, SchedulerFields
<1>3. Advance(s.time_cursor, range) \in Slots(range)
  BY CursorsOK, AdvanceInSlots
<1>4. RunSlot(s) = [q \in Slots(range) |-> RunSlot(s)[q]]
  BY FieldsOK DEF RunSlot
<1>5. ASSUME NEW q \in Slots(range)
      PROVE  IsSlab(RunSlot(s)[q], Ids)
  <2>1. IsSlab(s.jobs[q], Ids)
    BY FieldsOK
  <2>2. ASSUME NEW j \in Jobs(Ids)
        PROVE  /\ [j EXCEPT !.fresh = FALSE, !.idle = 0] \in Jobs(Ids)
               /\ [j EXCEPT !.idle = @ + 1] \in Jobs(Ids)
    <3>1. j.idle + 1 \in Nat
      BY DEF Jobs
    <3>2. [j EXCEPT !.idle = j.idle + 1] \in Jobs(Ids)
      BY <3>1 DEF Jobs
    <3>3. [j EXCEPT !.fresh = FALSE, !.idle = 0] \in Jobs(Ids)
      BY DEF Jobs
    <3> QED
      BY <3>2, <3>3
  <2>3. RunSlot(s)[q] = [p \in DOMAIN s.jobs[q] |->
                            IF q = s.time_cursor
                            THEN [s.jobs[q][p] EXCEPT !.fresh = FALSE, !.idle = 0]
                            ELSE [s.jobs[q][p] EXCEPT !.idle = @ + 1]]
    BY FieldsOK DEF RunSlot
  <2>4. ASSUME NEW p \in DOMAIN s.jobs[q]
        PROVE  RunSlot(s)[q][p] \in Jobs(Ids)
    <3>1. s.jobs[q][p] \in Jobs(Ids)
      BY <2>1 DEF IsSlab
    <3> QED
      BY <2>2, <2>3, <3>1
  <2> QED
    BY <2>1, <2>3, <2>4 DEF IsSlab
<1>6. t \in SchedulerFields(range, {RunSlot(s)})
  <2>1. s \in SchedulerFields(range, {s.jobs, RunSlot(s)})
    BY DEF IsScheduler, SchedulerFields
  <2> QED
    BY <2>1, <1>1, <1>3 DEF SchedulerFields
<1>7. IsScheduler(t, range, Ids)
  BY <1>2, <1>4, <1>5, <1>6 DEF IsScheduler
<1> QED
  BY <1>2, <1>7
LEMMA PoisonOK ==
    ASSUME NEW s, IsScheduler(s, 0, Ids), NEW overran \in BOOLEAN
    PROVE  /\ IsScheduler([s EXCEPT !.poisoned = TRUE], 0, Ids)
           /\ IsScheduler(Tick(s, 0, overran), 0, Ids)
           /\ IsScheduler(IdleTick(s, overran), 0, Ids)
BY DEF IsScheduler, SchedulerFields, Tick, IdleTick, Slots
----------------------------------------------------------------------------
(* Which jobs the operators leave where they are.                          *)

LEMMA PutKeeps ==
    ASSUME NEW range \in Nat \ {0}, NEW s, IsScheduler(s, range, Ids),
           NEW job, NEW p \in VacantPositions(s)
    PROVE  LET t == PutJob(s, range, job, p)
               o == InsertSlot(s)
           IN  /\ HasJob(t, o, p) /\ t.jobs[o][p] = job
               /\ \A q, r : HasJob(s, q, r) =>
                        HasJob(t, q, r) /\ t.jobs[q][r] = s.jobs[q][r]
<1> DEFINE t == PutJob(s, range, job, p)
           o == InsertSlot(s)
<1>1. /\ o \in Slots(range) /\ DOMAIN s.jobs = Slots(range)
      /\ p \notin DOMAIN s.jobs[o]
  BY InsertSlotOK, FieldsOK DEF VacantPositions
<1>2. t.jobs = [s.jobs EXCEPT ![o] = SlabInsert(s.jobs[o], p, job)]
  BY DEF PutJob, IsScheduler, SchedulerFields
<1>3. /\ DOMAIN SlabInsert(s.jobs[o], p, job) = DOMAIN s.jobs[o] \cup {p}
      /\ SlabInsert(s.jobs[o], p, job)[p] = job
      /\ \A q \in DOMAIN s.jobs[o] \ {p} :
            SlabInsert(s.jobs[o], p, job)[q] = s.jobs[o][q]
  BY DEF SlabInsert
<1> QED
  BY <1>1, <1>2, <1>3 DEF HasJob

LEMMA RemoveKeeps ==
    ASSUME NEW range \in Nat, NEW s, IsScheduler(s, range, Ids),
           NEW o, NEW p, NEW q, NEW r, HasJob(s, q, r), ~(q = o /\ r = p)
    PROVE  LET t == RemoveJob(s, o, p)
           IN  HasJob(t, q, r) /\ t.jobs[q][r] = s.jobs[q][r]
<1> DEFINE t == RemoveJob(s, o, p)
<1>1. CASE s.poisoned \/ ~HasJob(s, o, p)
  BY <1>1 DEF RemoveJob
<1>2. CASE ~s.poisoned /\ HasJob(s, o, p)
  <2>1. t.jobs = [s.jobs EXCEPT ![o] = SlabRemove(s.jobs[o], p)]
    BY <1>2 DEF RemoveJob, IsScheduler, SchedulerFields
  <2>2. q \in DOMAIN s.jobs /\ r \in DOMAIN s.jobs[q]
    BY DEF HasJob
  <2>3. CASE q = o
    <3>1. q \in DOMAIN t.jobs /\ t.jobs[q] = SlabRemove(s.jobs[q], p)
      BY <2>1, <2>2, <2>3
    <3>2. r \in DOMAIN s.jobs[q] \ {p}
      BY <2>2, <2>3
    <3> QED
      BY <3>1, <3>2 DEF HasJob, SlabRemove
  <2>4. CASE q # o
    BY <2>1, <2>2, <2>4 DEF HasJob
  <2> QED
    BY <2>3, <2>4
<1> QED
  BY <1>1, <1>2

LEMMA TickKeeps ==
    ASSUME NEW range \in Nat \ {0}, NEW s, IsScheduler(s, range, Ids),
           NEW overran \in BOOLEAN, NEW o, NEW p, HasJob(s, o, p)
    PROVE  LET t == Tick(s, range, overran)
           IN  HasJob(t, o, p) /\ t.jobs[o][p].id = s.jobs[o][p].id
<1> DEFINE t == Tick(s, range, overran)
<1>1. o \in DOMAIN s.jobs /\ o \in Slots(range) /\ p \in DOMAIN s.jobs[o]
  BY FieldsOK DEF HasJob
<1>2. s.jobs[o][p] \in Jobs(Ids)
  <2>1. IsSlab(s.jobs[o], Ids)
    BY <1>1, FieldsOK
  <2> QED
    BY <1>1, <2>1 DEF IsSlab
<1>3. t.jobs = RunSlot(s)
  BY TickOK
<1>4. /\ o \in DOMAIN t.jobs
      /\ t.jobs[o] = [q \in DOMAIN s.jobs[o] |->
                         IF o = s.time_cursor
                         THEN [s.jobs[o][q] EXCEPT !.fresh = FALSE, !.idle = 0]
                         ELSE [s.jobs[o][q] EXCEPT !.idle = @ + 1]]
  BY <1>1, <1>3 DEF RunSlot
<1>5. /\ [s.jobs[o][p] EXCEPT !.fresh = FALSE, !.idle = 0].id = s.jobs[o][p].id
      /\ [s.jobs[o][p] EXCEPT !.idle = @ + 1].id = s.jobs[o][p].id
  BY <1>2 DEF Jobs
<1> QED
  BY <1>1, <1>4, <1>5 DEF HasJob

----------------------------------------------------------------------------
(* The maps of the handler.                                                *)

LEMMA InsertOK ==
    ASSUME NEW m, NEW k, NEW v
    PROVE  /\ DOMAIN Insert(m, k, v) = DOMAIN m \cup {k}
           /\ Insert(m, k, v)[k] = v
           /\ \A x \in DOMAIN m : x # k => Insert(m, k, v)[x] = m[x]
           /\ Insert(m, k, v) = [x \in DOMAIN Insert(m, k, v) |-> Insert(m, k, v)[x]]
BY DEF Insert

LEMMA RemoveOK ==
    ASSUME NEW m, NEW k
    PROVE  /\ DOMAIN Remove(m, k) = DOMAIN m \ {k}
           /\ \A x \in DOMAIN m : x # k => Remove(m, k)[x] = m[x]
           /\ Remove(m, k) = [x \in DOMAIN Remove(m, k) |-> Remove(m, k)[x]]
BY DEF Remove

LEMMA CheckOutputOK ==
    ASSUME NEW c \in CheckOutputs
    PROVE  /\ c.id \in Ids
           /\ c.interval \in Intervals
           /\ c.interval \in Nat
           /\ Job(c) \in Jobs(Ids)
           /\ Job(c).id = c.id
BY CheckOutputsAssumption DEF Ids, Intervals, Job, Jobs

LEMMA IntervalsAreNaturals == Intervals \subseteq Nat
BY CheckOutputsAssumption DEF Intervals

----------------------------------------------------------------------------
(* Type correctness and the integrity of the locations.  Either alone is   *)
(* not inductive: a step needs the type of the wheel it changes, and a     *)
(* remove that took a job of another check would leave a type-correct      *)
(* state.                                                                  *)

IInv == TypeOK /\ LocationIntegrity

\* What add_check works on in an interval that is new.
LEMMA NewOnes ==
    ASSUME NEW f, f \notin DOMAIN jobs, NEW s \in SchedulersFor(f)
    PROVE  \/ s = NewScheduler(f)
           \/ \E n \in Slots(f) \cup {0} : \E overran \in BOOLEAN :
                s = Tick(StartedScheduler(f, n), f, overran)
BY DEF SchedulersFor

LEMMA SchedulersForOK ==
    ASSUME IInv, NEW f \in Intervals, NEW s \in SchedulersFor(f)
    PROVE  /\ IsScheduler(s, f, Ids)
           /\ s.poisoned => f = 0
           /\ f \in DOMAIN jobs => s = jobs[f]
<1>1. CASE f \in DOMAIN jobs
  BY <1>1 DEF IInv, TypeOK, LocationIntegrity, SchedulersFor
<1>2. CASE f \notin DOMAIN jobs
  <2>1. f \in Nat
    BY IntervalsAreNaturals
  <2>2. IsScheduler(NewScheduler(f), f, Ids) /\ ~NewScheduler(f).poisoned
    BY <2>1, NewSchedulerOK DEF NewScheduler
  <2>3. ASSUME NEW n \in Slots(f) \cup {0}, NEW overran \in BOOLEAN,
               s = Tick(StartedScheduler(f, n), f, overran)
        PROVE  IsScheduler(s, f, Ids) /\ (s.poisoned => f = 0)
    <3> DEFINE u == StartedScheduler(f, n)
    <3>1. IsScheduler(u, f, Ids) /\ ~u.poisoned
      BY <2>1, StartedSchedulerOK
    <3> HIDE DEF u
    <3>2. s = Tick(u, f, overran)
      BY <2>3 DEF u
    <3>3. CASE f = 0
      BY <3>1, <3>2, <3>3, PoisonOK
    <3>4. CASE f # 0
      <4>1. f \in Nat \ {0}
        BY <2>1, <3>4
      <4> QED
        BY <3>1, <3>2, <4>1, TickOK
    <3> QED
      BY <3>3, <3>4
  <2> QED
    BY <1>2, <2>2, <2>3, NewOnes
<1> QED
  BY <1>1, <1>2

LEMMA InitIInv == Init => IInv
BY DEF Init, IInv, TypeOK, LocationIntegrity

LEMMA AddedJobIInv ==
    ASSUME IInv, NEW c \in CheckOutputs, NEW s \in SchedulersFor(c.interval),
           AddedJob(c, s)
    PROVE  IInv'
<1> DEFINE f == c.interval
           o == InsertSlot(s)
<1>1. PICK p \in VacantPositions(s) :
        /\ jobs' = Insert(jobs, f, PutJob(s, f, Job(c), p))
        /\ checks' = Insert(checks, c.id, JobLocation(f, o, p))
  BY DEF AddedJob
<1> DEFINE t == PutJob(s, f, Job(c), p)
<1>2. /\ f \in Nat \ {0} /\ f \in Intervals
      /\ c.id \in Ids /\ Job(c) \in Jobs(Ids) /\ Job(c).id = c.id
  BY CheckOutputOK DEF AddedJob
<1>3. IsScheduler(s, f, Ids) /\ ~s.poisoned /\ (f \in DOMAIN jobs => s = jobs[f])
  BY <1>2, SchedulersForOK DEF AddedJob
<1>4. o \in Slots(f) /\ p \in Positions \ DOMAIN s.jobs[o]
  BY <1>2, <1>3, InsertSlotOK DEF VacantPositions
<1>5. /\ IsScheduler(t, f, Ids)
      /\ t.jobs = [s.jobs EXCEPT ![o] = SlabInsert(s.jobs[o], p, Job(c))]
      /\ ~t.poisoned
  BY <1>2, <1>3, PutJobOK
<1>6. \* what the wheel holds after the insertion
      /\ HasJob(t, o, p) /\ t.jobs[o][p].id = c.id
      /\ \A q, r : HasJob(s, q, r) => HasJob(t, q, r) /\ t.jobs[q][r] = s.jobs[q][r]
  <2> DEFINE job == Job(c)
  <2>1. job.id = c.id
    BY <1>2
  <2> HIDE DEF job
  <2>2. LET u == PutJob(s, f, job, p)
        IN  /\ HasJob(u, o, p) /\ u.jobs[o][p] = job
            /\ \A q, r : HasJob(s, q, r) =>
                    HasJob(u, q, r) /\ u.jobs[q][r] = s.jobs[q][r]
    BY <1>2, <1>3, PutKeeps
  <2> QED
    BY <2>1, <2>2 DEF job
<1>7. TypeOK'
  <2>1. DOMAIN checks' = DOMAIN checks \cup {c.id} /\ DOMAIN jobs' = DOMAIN jobs \cup {f}
    BY <1>1 DEF Insert
  <2>2. JobLocation(f, o, p) \in [frequency: Intervals, offset: Nat, position: Nat]
    <3>1. o \in Nat /\ p \in Nat
      BY <1>2, <1>4, PositionsAssumption DEF Slots
    <3> QED
      BY <1>2, <3>1 DEF JobLocation
  <2>3. checks' \in [DOMAIN checks' -> [frequency: Intervals, offset: Nat, position: Nat]]
    BY <1>1, <2>1, <2>2 DEF Insert, IInv, TypeOK
  <2>4. \A g \in DOMAIN jobs' : IsScheduler(jobs'[g], g, Ids)
    BY <1>1, <1>5, <2>1 DEF Insert, IInv, TypeOK
  <2>5. jobs' = [g \in DOMAIN jobs' |-> jobs'[g]]
    BY <1>1 DEF Insert
  <2> QED
    BY <1>2, <2>1, <2>3, <2>4, <2>5 DEF IInv, TypeOK, AddedJob
<1>8. LocationIntegrity'
  <2>1. /\ DOMAIN checks' = DOMAIN checks \cup {c.id}
        /\ DOMAIN jobs' = DOMAIN jobs \cup {f}
        /\ jobs'[f] = t
        /\ \A g \in DOMAIN jobs : g # f => jobs'[g] = jobs[g]
        /\ checks'[c.id] = JobLocation(f, o, p)
        /\ \A id \in DOMAIN checks : id # c.id => checks'[id] = checks[id]
    BY <1>1 DEF Insert
  <2>2. ASSUME NEW g \in DOMAIN jobs', jobs'[g].poisoned
        PROVE  g = 0
    BY <1>5, <2>1, <2>2 DEF IInv, LocationIntegrity
  <2>3. ASSUME NEW id \in DOMAIN checks', id # c.id
        PROVE  LET l == checks'[id]
               IN  /\ l.frequency \in DOMAIN jobs'
                   /\ l.frequency > 0 =>
                        /\ HasJob(jobs'[l.frequency], l.offset, l.position)
                        /\ jobs'[l.frequency].jobs[l.offset][l.position].id = id
    <3> DEFINE l == checks[id]
    <3>1. /\ id \in DOMAIN checks /\ checks'[id] = l
          /\ l.frequency \in DOMAIN jobs
          /\ l.frequency > 0 => /\ HasJob(jobs[l.frequency], l.offset, l.position)
                                /\ jobs[l.frequency].jobs[l.offset][l.position].id = id
      BY <2>1, <2>3 DEF IInv, LocationIntegrity, JobAt
    <3>2. CASE l.frequency = f
      <4>1. /\ HasJob(s, l.offset, l.position)
            /\ s.jobs[l.offset][l.position].id = id
        BY <1>2, <1>3, <3>1, <3>2
      <4> QED
        BY <1>6, <2>1, <3>1, <3>2, <4>1
    <3>3. CASE l.frequency # f
      BY <2>1, <3>1, <3>3
    <3> QED
      BY <3>2, <3>3
  <2>4. /\ checks'[c.id].frequency = f
        /\ HasJob(jobs'[f], checks'[c.id].offset, checks'[c.id].position)
        /\ jobs'[f].jobs[checks'[c.id].offset][checks'[c.id].position].id = c.id
    BY <1>6, <2>1 DEF JobLocation
  <2> QED
    BY <2>1, <2>2, <2>3, <2>4 DEF LocationIntegrity, JobAt
<1> QED
  BY <1>7, <1>8 DEF IInv

\* A scheduler of interval zero enters the map: no other wheel changes, and no
\* location but the recorded one, if any.
LEMMA ZeroSchedulerIInv ==
    ASSUME IInv, 0 \in Intervals, NEW t, IsScheduler(t, 0, Ids),
           jobs' = Insert(jobs, 0, t),
           \/ checks' = checks
           \/ \E id \in Ids, o \in Nat : checks' = Insert(checks, id, JobLocation(0, o, 0)),
           main' \in {"running", "panicked"}
    PROVE  IInv'
<1>1. /\ DOMAIN jobs' = DOMAIN jobs \cup {0}
      /\ jobs'[0] = t
      /\ \A g \in DOMAIN jobs : g # 0 => jobs'[g] = jobs[g]
      /\ jobs' = [g \in DOMAIN jobs' |-> jobs'[g]]
  BY DEF Insert
<1>2. \A id \in DOMAIN checks' :
        \/ id \in DOMAIN checks /\ checks'[id] = checks[id]
        \/ \E o \in Nat : id \in Ids /\ checks'[id] = JobLocation(0, o, 0)
  BY DEF Insert
<1>3. checks' = [id \in DOMAIN checks' |-> checks'[id]]
  BY DEF Insert, IInv, TypeOK
<1>4. TypeOK'
  <2>1. DOMAIN jobs' \subseteq Intervals
    BY <1>1 DEF IInv, TypeOK
  <2>2. \A g \in DOMAIN jobs' : IsScheduler(jobs'[g], g, Ids)
    BY <1>1 DEF IInv, TypeOK
  <2>3. ASSUME NEW id \in DOMAIN checks'
        PROVE  /\ id \in Ids
               /\ checks'[id] \in [frequency: Intervals, offset: Nat, position: Nat]
    BY <1>2 DEF IInv, TypeOK, JobLocation
  <2> QED
    BY <1>1, <1>3, <2>1, <2>2, <2>3 DEF TypeOK
<1>5. LocationIntegrity'
  <2>1. \A g \in DOMAIN jobs' : jobs'[g].poisoned => g = 0
    BY <1>1 DEF IInv, LocationIntegrity
  <2>2. ASSUME NEW id \in DOMAIN checks'
        PROVE  LET l == checks'[id]
               IN  /\ l.frequency \in DOMAIN jobs'
                   /\ l.frequency > 0 =>
                        /\ HasJob(jobs'[l.frequency], l.offset, l.position)
                        /\ jobs'[l.frequency].jobs[l.offset][l.position].id = id
    <3>1. CASE id \in DOMAIN checks /\ checks'[id] = checks[id]
      BY <1>1, <3>1 DEF IInv, LocationIntegrity, JobAt
    <3>2. CASE \E o \in Nat : id \in Ids /\ checks'[id] = JobLocation(0, o, 0)
      BY <1>1, <3>2 DEF JobLocation
    <3> QED
      BY <1>2, <3>1, <3>2
  <2> QED
    BY <2>1, <2>2 DEF LocationIntegrity, JobAt
<1> QED
  BY <1>4, <1>5 DEF IInv

LEMMA LostJobIInv ==
    ASSUME IInv, NEW c \in CheckOutputs, NEW s \in SchedulersFor(c.interval),
           LostJob(c, s)
    PROVE  IInv'
<1>1. /\ c.interval = 0 /\ c.interval \in Intervals /\ c.id \in Ids
      /\ IsScheduler(s, 0, Ids)
  BY CheckOutputOK, SchedulersForOK DEF LostJob
<1>2. s.fill_cursor \in Nat
  BY <1>1 DEF IsScheduler, SchedulerFields, Slots
<1>3. main' \in {"running", "panicked"}
  BY DEF LostJob, IInv, TypeOK
<1> QED
  BY <1>1, <1>2, <1>3, ZeroSchedulerIInv DEF LostJob

LEMMA IndexPanicIInv ==
    ASSUME IInv, NEW c \in CheckOutputs, NEW s \in SchedulersFor(c.interval),
           IndexPanic(c, s)
    PROVE  IInv'
<1>1. c.interval = 0 /\ c.interval \in Intervals /\ IsScheduler(s, 0, Ids)
  BY CheckOutputOK, SchedulersForOK DEF IndexPanic
<1>2. IsScheduler([s EXCEPT !.poisoned = TRUE], 0, Ids)
  BY <1>1, PoisonOK
<1> QED
  BY <1>1, <1>2, ZeroSchedulerIInv DEF IndexPanic

\* The scheduler of a malformed check enters the map, if it was not there.
LEMMA UrlPanicIInv ==
    ASSUME IInv, NEW c \in CheckOutputs, NEW s \in SchedulersFor(c.interval),
           UrlPanic(c, s)
    PROVE  IInv'
<1> DEFINE f == c.interval
<1>1. /\ f \in Intervals /\ IsScheduler(s, f, Ids)
      /\ s.poisoned => f = 0
      /\ f \in DOMAIN jobs => s = jobs[f]
  BY CheckOutputOK, SchedulersForOK
<1> HIDE DEF f
<1>2. /\ DOMAIN jobs' = DOMAIN jobs \cup {f}
      /\ jobs'[f] = s
      /\ \A g \in DOMAIN jobs : jobs'[g] = jobs[g]
      /\ jobs' = [g \in DOMAIN jobs' |-> jobs'[g]]
  BY <1>1 DEF UrlPanic, Insert, f
<1>3. checks' = checks /\ main' = "panicked"
  BY DEF UrlPanic
<1>4. TypeOK'
  BY <1>1, <1>2, <1>3 DEF IInv, TypeOK
<1>5. LocationIntegrity'
  BY <1>1, <1>2, <1>3 DEF IInv, LocationIntegrity, JobAt
<1> QED
  BY <1>4, <1>5 DEF IInv

LEMMA RemoveCheckIInv ==
    ASSUME IInv, NEW id \in Ids, remove_check(id)
    PROVE  IInv'
<1> DEFINE l == checks[id]
           f == l.frequency
           s == jobs[f]
           t == RemoveJob(s, l.offset, l.position)
<1>1. /\ id \in DOMAIN checks
      /\ f \in DOMAIN jobs /\ f \in Nat
      /\ IsScheduler(s, f, Ids)
      /\ f > 0 => /\ ~s.poisoned
                  /\ HasJob(s, l.offset, l.position)
                  /\ s.jobs[l.offset][l.position].id = id
  BY IntervalsAreNaturals DEF remove_check, IInv, TypeOK, LocationIntegrity, JobAt
<1>2. /\ DOMAIN checks' = DOMAIN checks \ {id}
      /\ checks' = [x \in DOMAIN checks \ {id} |-> checks[x]]
      /\ jobs' = [jobs EXCEPT ![f] = t]
      /\ main' = main
  BY DEF remove_check, Remove
<1>3. f = 0 => t = s
  <2>1. ASSUME f = 0
        PROVE  ~HasJob(s, l.offset, l.position)
    <3>1. DOMAIN s.jobs = Slots(f)
      BY <1>1, FieldsOK
    <3> QED
      BY <2>1, <3>1 DEF HasJob, Slots
  <2> QED
    BY <2>1 DEF RemoveJob
<1>4. f > 0 => /\ IsScheduler(t, f, Ids)
               /\ t.jobs = [s.jobs EXCEPT ![l.offset] =
                                SlabRemove(s.jobs[l.offset], l.position)]
               /\ t.poisoned = s.poisoned
  <2> DEFINE o == l.offset
             p == l.position
  <2>1. ASSUME f > 0
        PROVE  ~s.poisoned /\ HasJob(s, o, p)
    BY <1>1, <2>1
  <2> HIDE DEF o, p, s
  <2> QED
    BY <1>1, <2>1, RemoveJobOK
<1>5. IsScheduler(t, f, Ids)
  BY <1>1, <1>3, <1>4
<1>6. /\ jobs = [g \in DOMAIN jobs |-> jobs[g]]
      /\ DOMAIN jobs' = DOMAIN jobs
      /\ jobs'[f] = t
      /\ \A g \in DOMAIN jobs : g # f => jobs'[g] = jobs[g]
      /\ jobs' = [g \in DOMAIN jobs' |-> jobs'[g]]
  BY <1>1, <1>2 DEF IInv, TypeOK
<1>7. TypeOK'
  BY <1>2, <1>5, <1>6 DEF IInv, TypeOK
<1>8. LocationIntegrity'
  <2>1. ASSUME NEW g \in DOMAIN jobs', jobs'[g].poisoned
        PROVE  g = 0
    BY <1>1, <1>6, <2>1, <1>4 DEF IInv, LocationIntegrity
  <2>2. ASSUME NEW x \in DOMAIN checks'
        PROVE  LET m == checks'[x]
               IN  /\ m.frequency \in DOMAIN jobs'
                   /\ m.frequency > 0 =>
                        /\ HasJob(jobs'[m.frequency], m.offset, m.position)
                        /\ jobs'[m.frequency].jobs[m.offset][m.position].id = x
    <3> DEFINE m == checks[x]
    <3>1. /\ x # id /\ checks'[x] = m
          /\ m.frequency \in DOMAIN jobs
          /\ m.frequency > 0 => /\ HasJob(jobs[m.frequency], m.offset, m.position)
                                /\ jobs[m.frequency].jobs[m.offset][m.position].id = x
      BY <1>2, <2>2 DEF IInv, LocationIntegrity, JobAt
    <3>2. CASE m.frequency = f /\ f > 0
      \* the job of x is not at the place of the job of id
      <4>1. /\ HasJob(s, m.offset, m.position)
            /\ s.jobs[m.offset][m.position].id = x
            /\ ~(m.offset = l.offset /\ m.position = l.position)
        BY <1>1, <3>1, <3>2
      <4>2. /\ HasJob(t, m.offset, m.position)
            /\ t.jobs[m.offset][m.position] = s.jobs[m.offset][m.position]
        <5>1. f \in Nat /\ IsScheduler(s, f, Ids)
          BY <1>1
        <5> HIDE DEF s, m, f
        <5> QED
          BY <4>1, <5>1, RemoveKeeps
      <4>3. checks'[x] = m
        BY <3>1
      <4>4. jobs'[m.frequency] = t
        BY <1>6, <3>2
      <4> QED
        BY <1>6, <3>1, <4>1, <4>2, <4>3, <4>4
    <3>3. CASE m.frequency # f
      BY <1>6, <3>1, <3>3
    <3>4. CASE m.frequency = f /\ ~(f > 0)
      BY <1>6, <3>1, <3>4
    <3> QED
      BY <3>2, <3>3, <3>4
  <2> QED
    BY <2>1, <2>2 DEF LocationIntegrity, JobAt
<1> QED
  BY <1>7, <1>8 DEF IInv

\* What a turn of a process makes of its wheel.
Turn(s, f, overran) ==
    IF s.poisoned THEN IdleTick(s, overran) ELSE Tick(s, f, overran)

LEMMA ProcessIInv ==
    ASSUME IInv, NEW f \in DOMAIN jobs, process(f)
    PROVE  IInv'
<1> DEFINE s == jobs[f]
<1>1. PICK overran \in BOOLEAN : jobs' = [jobs EXCEPT ![f] = Turn(s, f, overran)]
  BY DEF process, Turn
<1> DEFINE t == Turn(s, f, overran)
<1>2. f \in Nat /\ IsScheduler(s, f, Ids) /\ (s.poisoned => f = 0)
  BY IntervalsAreNaturals DEF process, IInv, TypeOK, LocationIntegrity
<1>3. /\ checks' = checks /\ main' = main
      /\ DOMAIN jobs' = DOMAIN jobs
      /\ jobs'[f] = t
      /\ \A g \in DOMAIN jobs : g # f => jobs'[g] = jobs[g]
      /\ jobs' = [g \in DOMAIN jobs' |-> jobs'[g]]
  BY <1>1 DEF process, IInv, TypeOK
<1>4. f # 0 => IsScheduler(t, f, Ids) /\ t.jobs = RunSlot(s) /\ t.poisoned = s.poisoned
  BY <1>2, TickOK DEF Turn
<1>5. IsScheduler(t, f, Ids)
  BY <1>2, <1>4, PoisonOK DEF Turn
<1>6. TypeOK'
  BY <1>3, <1>5 DEF IInv, TypeOK
<1>7. f # 0 => \A o, p : HasJob(s, o, p) =>
                    HasJob(t, o, p) /\ t.jobs[o][p].id = s.jobs[o][p].id
  BY <1>2, TickKeeps DEF Turn
<1>8. LocationIntegrity'
  <2>1. ASSUME NEW g \in DOMAIN jobs', jobs'[g].poisoned
        PROVE  g = 0
    BY <1>2, <1>3, <1>4, <2>1 DEF IInv, LocationIntegrity
  <2>2. ASSUME NEW id \in DOMAIN checks'
        PROVE  LET l == checks'[id]
               IN  /\ l.frequency \in DOMAIN jobs'
                   /\ l.frequency > 0 =>
                        /\ HasJob(jobs'[l.frequency], l.offset, l.position)
                        /\ jobs'[l.frequency].jobs[l.offset][l.position].id = id
    BY <1>3, <1>7, SMTT(30) DEF IInv, LocationIntegrity, JobAt
  <2> QED
    BY <2>1, <2>2 DEF LocationIntegrity, JobAt
<1> QED
  BY <1>6, <1>8 DEF IInv

LEMMA NextIInv == IInv /\ [Next]_vars => IInv'
<1> SUFFICES ASSUME IInv, [Next]_vars
             PROVE  IInv'
  OBVIOUS
<1>1. ASSUME NEW c \in CheckOutputs, add_check(c)
      PROVE  IInv'
  <2>1. PICK s \in SchedulersFor(c.interval) :
                AddedJob(c, s) \/ LostJob(c, s) \/ IndexPanic(c, s) \/ UrlPanic(c, s)
    BY <1>1 DEF add_check
  <2> QED
    BY <2>1, AddedJobIInv, LostJobIInv, IndexPanicIInv, UrlPanicIInv
<1>2. ASSUME NEW id \in Ids, remove_check(id)
      PROVE  IInv'
  BY <1>2, RemoveCheckIInv
<1>3. ASSUME NEW f \in DOMAIN jobs, process(f)
      PROVE  IInv'
  BY <1>3, ProcessIInv
<1>4. CASE UNCHANGED vars
  BY <1>4 DEF vars, IInv, TypeOK, LocationIntegrity, JobAt
<1> QED
  BY <1>1, <1>2, <1>3, <1>4 DEF Next

\* The state of the agent has its type, and every location leads to the job it
\* was recorded for, in every reachable state.
THEOREM LocationsCorrect == Spec => [](TypeOK /\ LocationIntegrity)
<1>1. Init => IInv
  BY InitIInv
<1>2. IInv /\ [Next]_vars => IInv'
  BY NextIInv
<1>3. IInv => TypeOK /\ LocationIntegrity
  BY DEF IInv
<1> QED
  BY <1>1, <1>2, <1>3, PTL DEF Spec

----------------------------------------------------------------------------
(* The balance of a wheel is kept by each of the operators.                *)

LEMMA HolesFinite ==
    ASSUME NEW range \in Nat, NEW s, IsScheduler(s, range, Ids), NEW o
    PROVE  IsFiniteSet(Holes(s, o)) /\ Cardinality(Holes(s, o)) \in Nat
<1>1. s.empty_slot \in Seq(Slots(range))
  BY FieldsOK
<1>2. DOMAIN s.empty_slot = 1 .. Len(s.empty_slot) /\ Len(s.empty_slot) \in Nat
  BY <1>1
<1>3. IsFiniteSet(1 .. Len(s.empty_slot))
  BY <1>2, FS_Interval
<1>4. Holes(s, o) \subseteq 1 .. Len(s.empty_slot)
  BY <1>2 DEF Holes
<1>5. IsFiniteSet(Holes(s, o))
  BY <1>3, <1>4, FS_Subset
<1> QED
  BY <1>5, FS_CardinalityType

LEMMA SlotCardinality ==
    ASSUME NEW range \in Nat, NEW s, IsScheduler(s, range, Ids),
           NEW o \in Slots(range)
    PROVE  IsFiniteSet(DOMAIN s.jobs[o]) /\ Cardinality(DOMAIN s.jobs[o]) \in Nat
<1>1. IsSlab(s.jobs[o], Ids)
  BY FieldsOK
<1>2. IsFiniteSet(DOMAIN s.jobs[o])
  BY <1>1 DEF IsSlab
<1> QED
  BY <1>2, FS_CardinalityType

LEMMA PeakIsNatural ==
    ASSUME NEW range \in Nat, NEW s, IsScheduler(s, range, Ids),
           NEW o \in Slots(range)
    PROVE  SlotPeak(s, o) \in Nat
BY HolesFinite, SlotCardinality DEF SlotPeak

LEMMA NewSchedulerBalanced ==
    ASSUME NEW range \in Nat \ {0}, NEW s,
           s.jobs = [o \in Slots(range) |-> EmptySlab],
           s.fill_cursor = 0, s.empty_slot = <<>>
    PROVE  BalancedWheel(s, range)
<1>1. range - 1 \in Slots(range)
  BY DEF Slots
<1>2. \A o \in Slots(range) : SlotPeak(s, o) = 0
  BY FS_EmptySet DEF SlotPeak, EmptySlab, Holes
<1> QED
  BY SMTT(30), <1>1, <1>2 DEF BalancedWheel, Slots

\* Filling at the cursor: the slot at fill_cursor gets one job more, and every
\* slot behind it already has one more than those ahead.
LEMMA FillBalanced ==
    ASSUME NEW range \in Nat \ {0}, NEW s, IsScheduler(s, range, Ids),
           BalancedWheel(s, range), s.empty_slot = <<>>,
           NEW job \in Jobs(Ids), NEW p \in VacantPositions(s)
    PROVE  BalancedWheel(PutJob(s, range, job, p), range)
<1> DEFINE t == PutJob(s, range, job, p)
           fill == s.fill_cursor
<1>1. fill \in Slots(range) /\ p \in Positions \ DOMAIN s.jobs[fill] /\ InsertSlot(s) = fill
  BY CursorsOK DEF VacantPositions, InsertSlot
<1>2. /\ t.jobs = [s.jobs EXCEPT ![fill] = SlabInsert(s.jobs[fill], p, job)]
      /\ t.empty_slot = <<>>
      /\ t.fill_cursor = Advance(fill, range)
  BY <1>1, PutJobOK
<1>3. ASSUME NEW o \in Slots(range)
      PROVE  SlotPeak(t, o) = SlotPeak(s, o) + (IF o = fill THEN 1 ELSE 0)
  <2>1. Holes(t, o) = Holes(s, o)
    BY <1>2 DEF Holes
  <2>2. /\ IsFiniteSet(DOMAIN s.jobs[o]) /\ Cardinality(DOMAIN s.jobs[o]) \in Nat
        /\ Cardinality(Holes(s, o)) \in Nat
        /\ DOMAIN s.jobs = Slots(range)
    BY SlotCardinality, HolesFinite, FieldsOK
  <2>3. CASE o = fill
    <3>1. DOMAIN t.jobs[o] = DOMAIN s.jobs[o] \cup {p}
      BY <1>1, <1>2, <2>2, <2>3 DEF SlabInsert
    <3>2. Cardinality(DOMAIN t.jobs[o]) = Cardinality(DOMAIN s.jobs[o]) + 1
      BY ZenonT(40), <1>1, <2>2, <2>3, <3>1, FS_AddElement
    <3> QED
      BY <2>1, <2>2, <2>3, <3>2 DEF SlotPeak
  <2>4. CASE o # fill
    <3>1. t.jobs[o] = s.jobs[o]
      BY <1>2, <2>2, <2>4
    <3> QED
      BY <2>1, <2>2, <2>4, <3>1 DEF SlotPeak
  <2> QED
    BY <2>3, <2>4
<1>4. \A o \in Slots(range) : SlotPeak(s, o) \in Nat
  BY PeakIsNatural
<1>5. range - 1 \in Slots(range)
  BY DEF Slots
<1>6. \A o \in Slots(range) :
        SlotPeak(s, o) = SlotPeak(s, range - 1) + (IF o < fill THEN 1 ELSE 0)
  BY DEF BalancedWheel
<1>7. ASSUME NEW o \in Slots(range)
      PROVE  SlotPeak(t, o) =
                SlotPeak(t, range - 1) + (IF o < t.fill_cursor THEN 1 ELSE 0)
  <2>1. /\ SlotPeak(t, o) = SlotPeak(s, o) + (IF o = fill THEN 1 ELSE 0)
        /\ SlotPeak(t, range - 1) =
              SlotPeak(s, range - 1) + (IF range - 1 = fill THEN 1 ELSE 0)
        /\ SlotPeak(s, o) = SlotPeak(s, range - 1) + (IF o < fill THEN 1 ELSE 0)
        /\ SlotPeak(s, range - 1) \in Nat
    BY <1>3, <1>4, <1>5, <1>6
  <2>2. CASE fill + 1 = range
    <3>1. t.fill_cursor = 0
      BY <1>2, <2>2 DEF Advance
    <3> QED
      BY <1>1, <2>1, <2>2, <3>1 DEF Slots
  <2>3. CASE fill + 1 # range
    <3>1. t.fill_cursor = fill + 1
      BY <1>2, <2>3 DEF Advance
    <3> QED
      BY <1>1, <2>1, <2>3, <3>1 DEF Slots
  <2> QED
    BY <2>2, <2>3
<1> QED
  BY <1>7 DEF BalancedWheel

\* Filling a hole: the slot gets a job and loses a hole.
LEMMA RefillBalanced ==
    ASSUME NEW range \in Nat \ {0}, NEW s, IsScheduler(s, range, Ids),
           BalancedWheel(s, range), s.empty_slot # <<>>,
           NEW job \in Jobs(Ids), NEW p \in VacantPositions(s)
    PROVE  BalancedWheel(PutJob(s, range, job, p), range)
<1> DEFINE t == PutJob(s, range, job, p)
           n == Len(s.empty_slot)
           hole == s.empty_slot[n]
<1>1. s.empty_slot \in Seq(Slots(range)) /\ n \in Nat \ {0} /\ hole \in Slots(range)
  <2>1. s.empty_slot \in Seq(Slots(range))
    BY FieldsOK
  <2> QED
    BY <2>1
<1>2. p \in Positions \ DOMAIN s.jobs[hole] /\ InsertSlot(s) = hole
  BY DEF VacantPositions, InsertSlot
<1>3. /\ t.jobs = [s.jobs EXCEPT ![hole] = SlabInsert(s.jobs[hole], p, job)]
      /\ t.empty_slot = SubSeq(s.empty_slot, 1, n - 1)
      /\ t.fill_cursor = s.fill_cursor
  <2>1. /\ t.jobs = [s.jobs EXCEPT ![InsertSlot(s)] =
                         SlabInsert(s.jobs[InsertSlot(s)], p, job)]
        /\ t.empty_slot = IF s.empty_slot = <<>> THEN <<>>
                          ELSE SubSeq(s.empty_slot, 1, Len(s.empty_slot) - 1)
        /\ t.fill_cursor = IF s.empty_slot = <<>>
                           THEN Advance(s.fill_cursor, range) ELSE s.fill_cursor
    BY DEF PutJob, IsScheduler, SchedulerFields
  <2> QED
    BY <1>2, <2>1
<1>4. /\ DOMAIN t.empty_slot = DOMAIN s.empty_slot \ {n}
      /\ \A i \in DOMAIN t.empty_slot : t.empty_slot[i] = s.empty_slot[i]
  BY <1>1, <1>3
<1>5. ASSUME NEW o \in Slots(range)
      PROVE  SlotPeak(t, o) = SlotPeak(s, o)
  <2>1. /\ IsFiniteSet(DOMAIN s.jobs[o]) /\ Cardinality(DOMAIN s.jobs[o]) \in Nat
        /\ IsFiniteSet(Holes(s, o)) /\ Cardinality(Holes(s, o)) \in Nat
        /\ DOMAIN s.jobs = Slots(range)
    BY SlotCardinality, HolesFinite, FieldsOK
  <2>2. CASE o = hole
    <3>1. DOMAIN t.jobs[o] = DOMAIN s.jobs[o] \cup {p}
      BY <1>1, <1>3, <2>1, <2>2 DEF SlabInsert
    <3>2. Cardinality(DOMAIN t.jobs[o]) = Cardinality(DOMAIN s.jobs[o]) + 1
      BY ZenonT(40), <1>2, <2>1, <2>2, <3>1, FS_AddElement
    <3>3. Holes(t, o) = Holes(s, o) \ {n} /\ n \in Holes(s, o)
      BY <1>1, <1>4, <2>2 DEF Holes
    <3>4. Cardinality(Holes(t, o)) = Cardinality(Holes(s, o)) - 1
      BY ZenonT(40), <2>1, <3>3, FS_RemoveElement
    <3> QED
      BY <2>1, <3>2, <3>4 DEF SlotPeak
  <2>3. CASE o # hole
    <3>1. t.jobs[o] = s.jobs[o]
      BY <1>3, <2>1, <2>3
    <3>2. Holes(t, o) = Holes(s, o)
      BY <1>1, <1>4, <2>3 DEF Holes
    <3> QED
      BY <3>1, <3>2 DEF SlotPeak
  <2> QED
    BY <2>2, <2>3
<1>6. range - 1 \in Slots(range)
  BY DEF Slots
<1> QED
  BY <1>3, <1>5, <1>6 DEF BalancedWheel

LEMMA RemoveBalanced ==
    ASSUME NEW range \in Nat \ {0}, NEW s, IsScheduler(s, range, Ids),
           BalancedWheel(s, range), NEW hole, NEW p
    PROVE  BalancedWheel(RemoveJob(s, hole, p), range)
<1> DEFINE t == RemoveJob(s, hole, p)
           n == Len(s.empty_slot)
<1>1. CASE s.poisoned \/ ~HasJob(s, hole, p)
  BY <1>1 DEF RemoveJob
<1>2. CASE ~s.poisoned /\ HasJob(s, hole, p)
  <2>1. /\ hole \in Slots(range) /\ p \in DOMAIN s.jobs[hole]
        /\ DOMAIN s.jobs = Slots(range)
    BY <1>2, FieldsOK DEF HasJob
  <2>2. /\ t.jobs = [s.jobs EXCEPT ![hole] = SlabRemove(s.jobs[hole], p)]
        /\ t.empty_slot = Append(s.empty_slot, hole)
        /\ t.fill_cursor = s.fill_cursor
    <3>1. t = [s EXCEPT !.jobs[hole] = SlabRemove(@, p), !.empty_slot = Append(@, hole)]
      BY <1>2 DEF RemoveJob
    <3> QED
      BY <3>1 DEF IsScheduler, SchedulerFields
  <2>3. /\ n \in Nat
        /\ DOMAIN t.empty_slot = DOMAIN s.empty_slot \cup {n + 1}
        /\ n + 1 \notin DOMAIN s.empty_slot
        /\ \A i \in DOMAIN s.empty_slot : t.empty_slot[i] = s.empty_slot[i]
        /\ t.empty_slot[n + 1] = hole
    <3>1. s.empty_slot \in Seq(Slots(range))
      BY FieldsOK
    <3> QED
      BY <2>1, <2>2, <3>1
  <2>4. ASSUME NEW o \in Slots(range)
        PROVE  SlotPeak(t, o) = SlotPeak(s, o)
    <3>1. /\ IsFiniteSet(DOMAIN s.jobs[o]) /\ Cardinality(DOMAIN s.jobs[o]) \in Nat
          /\ IsFiniteSet(Holes(s, o)) /\ Cardinality(Holes(s, o)) \in Nat
      BY SlotCardinality, HolesFinite
    <3>2. CASE o = hole
      <4>1. DOMAIN t.jobs[o] = DOMAIN s.jobs[o] \ {p}
        BY <2>1, <2>2, <3>2 DEF SlabRemove
      <4>2. Cardinality(DOMAIN t.jobs[o]) = Cardinality(DOMAIN s.jobs[o]) - 1
        <5> DEFINE places == DOMAIN s.jobs[o]
        <5>1. p \in places /\ IsFiniteSet(places) /\ DOMAIN t.jobs[o] = places \ {p}
          BY <2>1, <3>1, <3>2, <4>1
        <5> HIDE DEF places
        <5>2. Cardinality(places \ {p}) = Cardinality(places) - 1
          BY <5>1, FS_RemoveElement
        <5> QED
          BY <5>1, <5>2 DEF places
      <4>3. Holes(t, o) = Holes(s, o) \cup {n + 1} /\ n + 1 \notin Holes(s, o)
        BY <2>3, <3>2 DEF Holes
      <4>4. Cardinality(Holes(t, o)) = Cardinality(Holes(s, o)) + 1
        BY <3>1, <4>3, FS_AddElement
      <4> QED
        BY <3>1, <4>2, <4>4 DEF SlotPeak
    <3>3. CASE o # hole
      <4>1. t.jobs[o] = s.jobs[o]
        BY <2>1, <2>2, <3>3
      <4>2. Holes(t, o) = Holes(s, o)
        BY <2>3, <3>3 DEF Holes
      <4> QED
        BY <4>1, <4>2 DEF SlotPeak
    <3> QED
      BY <3>2, <3>3
  <2>5. range - 1 \in Slots(range)
    BY DEF Slots
  <2> QED
    BY <2>2, <2>4, <2>5 DEF BalancedWheel
<1> QED
  BY <1>1, <1>2

LEMMA TickBalanced ==
    ASSUME NEW range \in Nat \ {0}, NEW s, IsScheduler(s, range, Ids),
           BalancedWheel(s, range), NEW overran \in BOOLEAN
    PROVE  BalancedWheel(Tick(s, range, overran), range)
<1> DEFINE t == Tick(s, range, overran)
<1>1. /\ t.jobs = RunSlot(s)
      /\ t.fill_cursor = s.fill_cursor
      /\ t.empty_slot = s.empty_slot
  BY TickOK
<1>2. ASSUME NEW o \in Slots(range)
      PROVE  SlotPeak(t, o) = SlotPeak(s, o)
  <2>1. DOMAIN t.jobs[o] = DOMAIN s.jobs[o]
    <3>1. DOMAIN s.jobs = Slots(range)
      BY FieldsOK
    <3>2. DOMAIN RunSlot(s)[o] = DOMAIN s.jobs[o]
      BY <3>1 DEF RunSlot
    <3> QED
      BY <1>1, <3>2
  <2>2. Holes(t, o) = Holes(s, o)
    BY <1>1 DEF Holes
  <2> QED
    BY <2>1, <2>2 DEF SlotPeak
<1>3. range - 1 \in Slots(range)
  BY DEF Slots
<1> QED
  BY <1>1, <1>2, <1>3 DEF BalancedWheel

----------------------------------------------------------------------------
(* The jobs of a wheel stay in time under each of the operators.           *)

LEMMA NewSchedulerPunctual ==
    ASSUME NEW range \in Nat, NEW s, s.jobs = [o \in Slots(range) |-> EmptySlab]
    PROVE  PunctualWheel(s, range)
BY DEF PunctualWheel, EmptySlab

LEMMA PutPunctual ==
    ASSUME NEW range \in Nat \ {0}, NEW s, IsScheduler(s, range, Ids),
           PunctualWheel(s, range),
           NEW job \in Jobs(Ids), job.idle = 0, job.fresh, NEW p \in VacantPositions(s)
    PROVE  PunctualWheel(PutJob(s, range, job, p), range)
<1> DEFINE t == PutJob(s, range, job, p)
           slot == InsertSlot(s)
<1>1. slot \in Slots(range) /\ DOMAIN s.jobs = Slots(range) /\ s.time_cursor \in Slots(range)
  BY InsertSlotOK, FieldsOK, CursorsOK
<1>2. /\ t.jobs = [s.jobs EXCEPT ![slot] = SlabInsert(s.jobs[slot], p, job)]
      /\ t.time_cursor = s.time_cursor
  BY DEF PutJob, IsScheduler, SchedulerFields
<1>3. ASSUME NEW o \in Slots(range), NEW q \in DOMAIN t.jobs[o]
      PROVE  PunctualJob(t, range, o, q)
  <2>1. TurnsUntil(t, range, o) = TurnsUntil(s, range, o)
    BY <1>2 DEF TurnsUntil
  <2>2. CASE o = slot /\ q = p
    <3>1. t.jobs[o][q] = job
      BY <1>1, <1>2, <2>2 DEF SlabInsert
    <3>2. TurnsUntil(s, range, o) < range /\ TurnsUntil(s, range, o) \in Int
      BY <1>1 DEF TurnsUntil, Slots
    <3> QED
      BY <2>1, <3>1, <3>2 DEF PunctualJob
  <2>3. CASE ~(o = slot /\ q = p)
    <3>1. q \in DOMAIN s.jobs[o] /\ t.jobs[o][q] = s.jobs[o][q]
      BY <1>1, <1>2, <2>3 DEF SlabInsert
    <3>2. PunctualJob(s, range, o, q)
      BY <3>1 DEF PunctualWheel
    <3> QED
      BY <2>1, <3>1, <3>2 DEF PunctualJob
  <2> QED
    BY <2>2, <2>3
<1> QED
  BY <1>3 DEF PunctualWheel

LEMMA RemovePunctual ==
    ASSUME NEW range \in Nat \ {0}, NEW s, IsScheduler(s, range, Ids),
           PunctualWheel(s, range), NEW hole, NEW p
    PROVE  PunctualWheel(RemoveJob(s, hole, p), range)
<1> DEFINE t == RemoveJob(s, hole, p)
<1>1. CASE s.poisoned \/ ~HasJob(s, hole, p)
  BY <1>1 DEF RemoveJob
<1>2. CASE ~s.poisoned /\ HasJob(s, hole, p)
  <2>1. hole \in Slots(range) /\ DOMAIN s.jobs = Slots(range)
    BY <1>2, FieldsOK DEF HasJob
  <2>2. /\ t.jobs = [s.jobs EXCEPT ![hole] = SlabRemove(s.jobs[hole], p)]
        /\ t.time_cursor = s.time_cursor
    BY <1>2 DEF RemoveJob, IsScheduler, SchedulerFields
  <2>3. ASSUME NEW o \in Slots(range), NEW q \in DOMAIN t.jobs[o]
        PROVE  PunctualJob(t, range, o, q)
    <3>1. q \in DOMAIN s.jobs[o] /\ t.jobs[o][q] = s.jobs[o][q]
      BY <2>1, <2>2 DEF SlabRemove
    <3>2. PunctualJob(s, range, o, q)
      BY <3>1 DEF PunctualWheel
    <3>3. TurnsUntil(t, range, o) = TurnsUntil(s, range, o)
      BY <2>2 DEF TurnsUntil
    <3> QED
      BY <3>1, <3>2, <3>3 DEF PunctualJob
  <2> QED
    BY <2>3 DEF PunctualWheel
<1> QED
  BY <1>1, <1>2

LEMMA TickPunctual ==
    ASSUME NEW range \in Nat \ {0}, NEW s, IsScheduler(s, range, Ids),
           PunctualWheel(s, range), NEW overran \in BOOLEAN
    PROVE  PunctualWheel(Tick(s, range, overran), range)
<1> DEFINE t == Tick(s, range, overran)
           cursor == s.time_cursor
<1>1. t.jobs = RunSlot(s) /\ t.time_cursor = Advance(cursor, range)
  BY TickOK
<1>2. cursor \in Slots(range) /\ DOMAIN s.jobs = Slots(range)
  BY CursorsOK, FieldsOK
<1>3. ASSUME NEW o \in Slots(range), NEW p \in DOMAIN t.jobs[o]
      PROVE  PunctualJob(t, range, o, p)
  <2> DEFINE j == s.jobs[o][p]
  <2>1. p \in DOMAIN s.jobs[o]
    BY <1>1, <1>2 DEF RunSlot
  <2>2. j \in Jobs(Ids)
    <3>1. IsSlab(s.jobs[o], Ids)
      BY FieldsOK
    <3> QED
      BY <2>1, <3>1 DEF IsSlab
  <2>3. PunctualJob(s, range, o, p)
    BY <2>1 DEF PunctualWheel
  <2>a. RunSlot(s)[o][p] = IF o = s.time_cursor
                           THEN [j EXCEPT !.fresh = FALSE, !.idle = 0]
                           ELSE [j EXCEPT !.idle = @ + 1]
    BY <1>2, <2>1 DEF RunSlot
  <2>4. CASE o = cursor
    <3>1. t.jobs[o][p] = [j EXCEPT !.fresh = FALSE, !.idle = 0]
      BY <1>1, <2>4, <2>a
    <3>2. ~t.jobs[o][p].fresh /\ t.jobs[o][p].idle = 0
      BY <2>2, <3>1 DEF Jobs
    <3>3. TurnsUntil(t, range, o) = range - 1
      BY <1>1, <1>2, <2>4 DEF TurnsUntil, Advance, Slots
    <3> QED
      BY <3>2, <3>3 DEF PunctualJob
  <2>5. CASE o # cursor
    <3>1. t.jobs[o][p] = [j EXCEPT !.idle = j.idle + 1]
      BY ZenonT(40), <1>1, <1>2, <2>1, <2>5 DEF RunSlot
    <3>2. /\ t.jobs[o][p].fresh = j.fresh /\ t.jobs[o][p].idle = j.idle + 1
          /\ j.idle \in Nat
      BY <2>2, <3>1 DEF Jobs
    <3>3. /\ TurnsUntil(t, range, o) = TurnsUntil(s, range, o) - 1
          /\ TurnsUntil(s, range, o) \in Int
      BY SMTT(30), <1>1, <1>2, <2>5 DEF TurnsUntil, Advance, Slots
    <3> QED
      BY <2>3, <3>2, <3>3 DEF PunctualJob
  <2> QED
    BY <2>4, <2>5
<1> QED
  BY <1>3 DEF PunctualWheel

----------------------------------------------------------------------------
(* What a step of the agent can do to the wheel of an interval: nothing, or *)
(* one of the operators; a new wheel enters the map with its first job.     *)

WheelStep(s, t, f) ==
    \/ t = s
    \/ \E c \in CheckOutputs : \E p \in VacantPositions(s) : t = PutJob(s, f, Job(c), p)
    \/ \E o, p : t = RemoveJob(s, o, p)
    \/ \E overran \in BOOLEAN : t = Tick(s, f, overran)

LEMMA WheelSteps ==
    ASSUME IInv, Next, NEW f \in DOMAIN jobs', f # 0
    PROVE  /\ f \in Nat \ {0}
           /\ \E s : /\ IsScheduler(s, f, Ids)
                     /\ IF f \in DOMAIN jobs THEN s = jobs[f] ELSE s \in SchedulersFor(f)
                     /\ WheelStep(s, jobs'[f], f)
<1>1. ASSUME NEW c \in CheckOutputs, add_check(c)
      PROVE  /\ f \in Nat \ {0}
             /\ \E s : /\ IsScheduler(s, f, Ids)
                       /\ IF f \in DOMAIN jobs THEN s = jobs[f] ELSE s \in SchedulersFor(f)
                       /\ WheelStep(s, jobs'[f], f)
  <2>1. PICK s \in SchedulersFor(c.interval) :
                AddedJob(c, s) \/ LostJob(c, s) \/ IndexPanic(c, s) \/ UrlPanic(c, s)
    BY <1>1 DEF add_check
  <2>2. /\ c.interval \in Intervals /\ c.interval \in Nat
        /\ IsScheduler(s, c.interval, Ids)
        /\ c.interval \in DOMAIN jobs => s = jobs[c.interval]
        /\ s.poisoned => c.interval = 0
    BY CheckOutputOK, SchedulersForOK
  <2>3. CASE f = c.interval
    <3>1. \/ jobs' = Insert(jobs, f, s)
          \/ \E p \in VacantPositions(s) : jobs' = Insert(jobs, f, PutJob(s, f, Job(c), p))
      BY <1>1, <2>1, <2>2, <2>3 DEF AddedJob, LostJob, IndexPanic, UrlPanic
    <3>2. \/ jobs'[f] = s
          \/ \E p \in VacantPositions(s) : jobs'[f] = PutJob(s, f, Job(c), p)
      BY <3>1 DEF Insert
    <3>3. WheelStep(s, jobs'[f], f)
      BY <3>2 DEF WheelStep
    <3> QED
      BY <2>1, <2>2, <2>3, <3>3
  <2>4. CASE f # c.interval
    <3>1. f \in DOMAIN jobs /\ jobs'[f] = jobs[f]
      BY <2>1, <2>4, <2>2 DEF AddedJob, LostJob, IndexPanic, UrlPanic, Insert
    <3>2. f \in Nat \ {0} /\ IsScheduler(jobs[f], f, Ids)
      BY <3>1, IntervalsAreNaturals DEF IInv, TypeOK
    <3> QED
      BY <3>1, <3>2 DEF WheelStep
  <2> QED
    BY <2>3, <2>4
<1>2. ASSUME NEW id \in Ids, remove_check(id)
      PROVE  /\ f \in DOMAIN jobs
             /\ WheelStep(jobs[f], jobs'[f], f)
  <2> DEFINE l == checks[id]
  <2>1. jobs' = [jobs EXCEPT ![l.frequency] =
                    RemoveJob(jobs[l.frequency], l.offset, l.position)]
    BY <1>2 DEF remove_check
  <2>2. f \in DOMAIN jobs
    BY <2>1 DEF IInv, TypeOK
  <2>3. jobs'[f] = jobs[f] \/ jobs'[f] = RemoveJob(jobs[f], l.offset, l.position)
    BY <2>1, <2>2
  <2> QED
    BY <2>2, <2>3 DEF WheelStep
<1>3. ASSUME NEW g \in DOMAIN jobs, process(g)
      PROVE  /\ f \in DOMAIN jobs
             /\ WheelStep(jobs[f], jobs'[f], f)
  <2>1. PICK overran \in BOOLEAN : jobs' = [jobs EXCEPT ![g] = Turn(jobs[g], g, overran)]
    BY <1>3 DEF process, Turn
  <2>2. f \in DOMAIN jobs /\ ~jobs[f].poisoned
    BY <2>1 DEF IInv, TypeOK, LocationIntegrity
  <2>3. jobs'[f] = jobs[f] \/ jobs'[f] = Tick(jobs[f], f, overran)
    BY <2>1, <2>2 DEF Turn
  <2> QED
    BY <2>2, <2>3 DEF WheelStep
<1>4. f \in DOMAIN jobs => f \in Nat \ {0} /\ IsScheduler(jobs[f], f, Ids)
  BY IntervalsAreNaturals DEF IInv, TypeOK
<1> QED
  BY <1>1, <1>2, <1>3, <1>4 DEF Next

LEMMA WheelStepBalanced ==
    ASSUME NEW f \in Nat \ {0}, NEW s, NEW t, IsScheduler(s, f, Ids),
           BalancedWheel(s, f), WheelStep(s, t, f)
    PROVE  BalancedWheel(t, f)
<1>1. ASSUME NEW c \in CheckOutputs, NEW p \in VacantPositions(s),
             t = PutJob(s, f, Job(c), p)
      PROVE  BalancedWheel(t, f)
  <2>1. Job(c) \in Jobs(Ids)
    BY CheckOutputOK
  <2> QED
    BY <1>1, <2>1, FillBalanced, RefillBalanced
<1>2. ASSUME NEW o, NEW p, t = RemoveJob(s, o, p)
      PROVE  BalancedWheel(t, f)
  BY <1>2, RemoveBalanced
<1>3. ASSUME NEW overran \in BOOLEAN, t = Tick(s, f, overran)
      PROVE  BalancedWheel(t, f)
  BY <1>3, TickBalanced
<1> QED
  BY <1>1, <1>2, <1>3 DEF WheelStep

LEMMA WheelStepPunctual ==
    ASSUME NEW f \in Nat \ {0}, NEW s, NEW t, IsScheduler(s, f, Ids),
           PunctualWheel(s, f), WheelStep(s, t, f)
    PROVE  PunctualWheel(t, f)
<1>1. ASSUME NEW c \in CheckOutputs, NEW p \in VacantPositions(s),
             t = PutJob(s, f, Job(c), p)
      PROVE  PunctualWheel(t, f)
  <2>1. Job(c) \in Jobs(Ids) /\ Job(c).idle = 0 /\ Job(c).fresh
    BY CheckOutputOK DEF Job
  <2> QED
    BY <1>1, <2>1, PutPunctual
<1>2. ASSUME NEW o, NEW p, t = RemoveJob(s, o, p)
      PROVE  PunctualWheel(t, f)
  BY <1>2, RemovePunctual
<1>3. ASSUME NEW overran \in BOOLEAN, t = Tick(s, f, overran)
      PROVE  PunctualWheel(t, f)
  BY <1>3, TickPunctual
<1> QED
  BY <1>1, <1>2, <1>3 DEF WheelStep

\* A wheel starts balanced and in time, however many turns its process took
\* before the first job was added.
LEMMA NewWheel ==
    ASSUME NEW f \in Nat \ {0}, f \notin DOMAIN jobs, NEW s \in SchedulersFor(f)
    PROVE  BalancedWheel(s, f) /\ PunctualWheel(s, f)
<1>1. CASE s = NewScheduler(f)
  BY <1>1, NewSchedulerBalanced, NewSchedulerPunctual DEF NewScheduler
<1>2. ASSUME NEW n \in Slots(f) \cup {0}, NEW overran \in BOOLEAN,
             s = Tick(StartedScheduler(f, n), f, overran)
      PROVE  BalancedWheel(s, f) /\ PunctualWheel(s, f)
  <2> DEFINE u == StartedScheduler(f, n)
  <2>1. IsScheduler(u, f, Ids) /\ BalancedWheel(u, f) /\ PunctualWheel(u, f)
    BY StartedSchedulerOK, NewSchedulerBalanced, NewSchedulerPunctual
  <2> HIDE DEF u
  <2>2. s = Tick(u, f, overran)
    BY <1>2 DEF u
  <2> QED
    BY <2>1, <2>2, TickBalanced, TickPunctual
<1> QED
  BY <1>1, <1>2, NewOnes

WheelsInv == IInv /\ Balanced /\ PunctualRuns

LEMMA NextWheelsInv == WheelsInv /\ [Next]_vars => WheelsInv'
<1> SUFFICES ASSUME WheelsInv, [Next]_vars
             PROVE  WheelsInv'
  OBVIOUS
<1>1. IInv'
  BY NextIInv DEF WheelsInv
<1>2. CASE Next
  <2>1. ASSUME NEW f \in DOMAIN jobs', f # 0
        PROVE  BalancedWheel(jobs'[f], f) /\ PunctualWheel(jobs'[f], f)
    <3>1. f \in Nat \ {0}
      BY <1>2, <2>1, WheelSteps DEF WheelsInv
    <3>2. PICK s : /\ IsScheduler(s, f, Ids)
                   /\ IF f \in DOMAIN jobs THEN s = jobs[f] ELSE s \in SchedulersFor(f)
                   /\ WheelStep(s, jobs'[f], f)
      BY <1>2, <2>1, WheelSteps DEF WheelsInv
    <3>3. BalancedWheel(s, f) /\ PunctualWheel(s, f)
      BY <2>1, <3>1, <3>2, NewWheel DEF WheelsInv, Balanced, PunctualRuns
    <3> QED
      BY <3>1, <3>2, <3>3, WheelStepBalanced, WheelStepPunctual
  <2>2. ASSUME 0 \in DOMAIN jobs'
        PROVE  PunctualWheel(jobs'[0], 0)
    BY DEF PunctualWheel, Slots
  <2> QED
    BY <1>1, <2>1, <2>2 DEF WheelsInv, Balanced, PunctualRuns
<1>3. CASE UNCHANGED vars
  BY <1>1, <1>3 DEF vars, WheelsInv, Balanced, PunctualRuns
<1> QED
  BY <1>2, <1>3

\* The load of every interval is spread evenly over its seconds, and every job
\* runs once per interval, in every reachable state.
THEOREM WheelsCorrect == Spec => [](Balanced /\ PunctualRuns)
<1>1. Init => WheelsInv
  BY InitIInv DEF Init, WheelsInv, Balanced, PunctualRuns
<1>2. WheelsInv /\ [Next]_vars => WheelsInv'
  BY NextWheelsInv
<1>3. WheelsInv => Balanced /\ PunctualRuns
  BY DEF WheelsInv
<1> QED
  BY <1>1, <1>2, <1>3, PTL DEF Spec

----------------------------------------------------------------------------
(* No step takes the place of a job, unless it removes the job's check.    *)

LEMMA StepKeepsPlaces ==
    ASSUME IInv, Next, NEW f \in DOMAIN jobs, NEW o \in Slots(f),
           NEW p \in DOMAIN jobs[f].jobs[o]
    PROVE  LET id == jobs[f].jobs[o][p].id
           IN  \/ HasJob(jobs'[f], o, p) /\ jobs'[f].jobs[o][p].id = id
               \/ id \in DOMAIN checks \ DOMAIN checks'
<1> DEFINE s == jobs[f]
           id == s.jobs[o][p].id
           Kept == HasJob(jobs'[f], o, p) /\ jobs'[f].jobs[o][p].id = id
<1>1. f \in Nat \ {0} /\ IsScheduler(s, f, Ids) /\ HasJob(s, o, p)
  <2>1. f \in Nat /\ IsScheduler(s, f, Ids)
    BY IntervalsAreNaturals DEF IInv, TypeOK
  <2>2. f # 0
    BY <2>1 DEF Slots
  <2>3. DOMAIN s.jobs = Slots(f)
    BY <2>1, FieldsOK
  <2> QED
    BY <2>1, <2>2, <2>3 DEF HasJob
<1>2. CASE jobs'[f] = s
  BY <1>1, <1>2
<1>3. ASSUME NEW c \in CheckOutputs, add_check(c), jobs'[f] # s
      PROVE  Kept
  <2>1. PICK u \in SchedulersFor(c.interval) :
                AddedJob(c, u) \/ LostJob(c, u) \/ IndexPanic(c, u) \/ UrlPanic(c, u)
    BY <1>3 DEF add_check
  <2>2. c.interval \in Intervals /\ (c.interval \in DOMAIN jobs => u = jobs[c.interval])
        /\ (u.poisoned => c.interval = 0)
    BY CheckOutputOK, SchedulersForOK
  <2>3. f = c.interval
    BY <1>3, <2>1 DEF AddedJob, LostJob, IndexPanic, UrlPanic, Insert
  <2>4. u = s /\ AddedJob(c, u)
    <3>1. u = s
      BY <2>2, <2>3
    <3>2. UrlPanic(c, u) => jobs'[f] = s
      BY <2>3, <3>1 DEF UrlPanic, Insert
    <3> QED
      BY <1>1, <1>3, <2>1, <2>2, <2>3, <3>1, <3>2 DEF LostJob, IndexPanic
  <2>5. PICK r \in VacantPositions(s) : jobs' = Insert(jobs, f, PutJob(s, f, Job(c), r))
    BY <2>3, <2>4 DEF AddedJob
  <2>6. jobs'[f] = PutJob(s, f, Job(c), r)
    BY <2>5 DEF Insert
  <2> QED
    BY <1>1, <2>6, PutKeeps
<1>4. ASSUME NEW x \in Ids, remove_check(x), jobs'[f] # s
      PROVE  Kept \/ id \in DOMAIN checks \ DOMAIN checks'
  <2> DEFINE l == checks[x]
  <2>1. jobs' = [jobs EXCEPT ![l.frequency] =
                    RemoveJob(jobs[l.frequency], l.offset, l.position)]
    BY <1>4 DEF remove_check
  <2>2. f = l.frequency /\ jobs'[f] = RemoveJob(s, l.offset, l.position)
    BY <1>4, <2>1
  <2>3. CASE o = l.offset /\ p = l.position
    <3>1. x \in DOMAIN checks \ DOMAIN checks'
      BY <1>4 DEF remove_check, Remove
    <3>2. JobAt(l).id = x
      BY <1>1, <2>2, <3>1 DEF IInv, LocationIntegrity
    <3> QED
      BY <2>2, <2>3, <3>1, <3>2 DEF JobAt
  <2>4. CASE ~(o = l.offset /\ p = l.position)
    BY <1>1, <2>2, <2>4, RemoveKeeps
  <2> QED
    BY <2>3, <2>4
<1>5. ASSUME NEW g \in DOMAIN jobs, process(g), jobs'[f] # s
      PROVE  Kept
  <2>1. PICK overran \in BOOLEAN : jobs' = [jobs EXCEPT ![g] = Turn(jobs[g], g, overran)]
    BY <1>5 DEF process, Turn
  <2>2. ~s.poisoned
    BY <1>1 DEF IInv, LocationIntegrity
  <2>3. jobs'[f] = Tick(s, f, overran)
    BY <1>5, <2>1, <2>2 DEF Turn
  <2> QED
    BY <1>1, <2>3, TickKeeps
<1> QED
  BY <1>2, <1>3, <1>4, <1>5 DEF Next

\* A command never moves, overwrites or removes a job that is not its own.
THEOREM PlacesKept == Spec => JobsStayPut
<1> DEFINE Step ==
        \A f \in DOMAIN jobs : \A o \in Slots(f) : \A p \in DOMAIN jobs[f].jobs[o] :
            LET id == jobs[f].jobs[o][p].id
            IN  \/ HasJob(jobs'[f], o, p) /\ jobs'[f].jobs[o][p].id = id
                \/ id \in DOMAIN checks \ DOMAIN checks'
<1>1. Init => IInv
  BY InitIInv
<1>2. IInv /\ [Next]_vars => IInv'
  BY NextIInv
<1>3. IInv /\ [Next]_vars => [Step]_vars
  BY StepKeepsPlaces
<1> QED
  BY <1>1, <1>2, <1>3, PTL DEF Spec, JobsStayPut

----------------------------------------------------------------------------
(***************************************************************************)
(* The agent keeps its promise (ActiveChecks).  Each step is looked at     *)
(* twice: which places of which wheel hold a job afterwards, and which of  *)
(* those places the table of checks leads to.                              *)
(***************************************************************************)

PlacesIn(j) ==
    UNION {UNION {{JobLocation(f, o, p) : p \in DOMAIN j[f].jobs[o]}
                  : o \in DOMAIN j[f].jobs} : f \in DOMAIN j}

Seen(j, l) ==
    LET job == j[l.frequency].jobs[l.offset][l.position]
    IN  [id |-> job.id, interval |-> l.frequency, kind |-> job.kind]

Active == {JobSeen(l) : l \in Places \cap Located}
Orphans == {JobSeen(l) : l \in Places \ Located}
Stopped == {f \in DOMAIN jobs : jobs[f].process = "panicked"}

\* While commands are handled, a poisoned wheel is one whose process panicked.
PoisonSeen ==
    main = "running" =>
        \A f \in DOMAIN jobs : jobs[f].poisoned => jobs[f].process = "panicked"

PromiseInv == IInv /\ PoisonSeen

LEMMA PlacesInAre ==
    ASSUME NEW j, NEW l
    PROVE  l \in PlacesIn(j) <=>
            \E f \in DOMAIN j : \E o, p : HasJob(j[f], o, p) /\ l = JobLocation(f, o, p)
BY DEF PlacesIn, HasJob

LEMMA LocationsDiffer ==
    ASSUME NEW f, NEW o, NEW p, NEW g, NEW q, NEW r,
           JobLocation(f, o, p) = JobLocation(g, q, r)
    PROVE  f = g /\ o = q /\ p = r
<1>1. /\ JobLocation(f, o, p).frequency = f /\ JobLocation(g, q, r).frequency = g
      /\ JobLocation(f, o, p).offset = o /\ JobLocation(g, q, r).offset = q
      /\ JobLocation(f, o, p).position = p /\ JobLocation(g, q, r).position = r
  BY DEF JobLocation
<1> QED
  BY <1>1

LEMMA ViewsAre ==
    /\ Places = PlacesIn(jobs) /\ Places' = PlacesIn(jobs')
    /\ \A k : k \in Active <=>
            \E l \in PlacesIn(jobs) \cap Located : k = Seen(jobs, l)
    /\ \A k : k \in Orphans <=>
            \E l \in PlacesIn(jobs) \ Located : k = Seen(jobs, l)
    /\ \A k : k \in Active' <=>
            \E l \in PlacesIn(jobs') \cap Located' : k = Seen(jobs', l)
    /\ \A k : k \in Orphans' <=>
            \E l \in PlacesIn(jobs') \ Located' : k = Seen(jobs', l)
<1>1. Places = PlacesIn(jobs) /\ Places' = PlacesIn(jobs')
  BY DEF Places, PlacesIn
<1> QED
  BY <1>1 DEF Active, Orphans, JobSeen, Seen, JobAt

LEMMA WheelTypes ==
    ASSUME IInv, NEW f \in DOMAIN jobs
    PROVE  f \in Nat /\ f \in Intervals /\ IsScheduler(jobs[f], f, Ids)
BY IntervalsAreNaturals DEF IInv, TypeOK

\* The job at a place is of a wheel with slots.
LEMMA PlacesHaveSlots ==
    ASSUME IInv, NEW l \in PlacesIn(jobs)
    PROVE  l.frequency \in DOMAIN jobs /\ l.frequency > 0
<1>1. PICK f \in DOMAIN jobs : \E o, p : HasJob(jobs[f], o, p) /\ l = JobLocation(f, o, p)
  BY PlacesInAre
<1>2. f \in Nat /\ DOMAIN jobs[f].jobs = Slots(f)
  BY WheelTypes, FieldsOK
<1>3. f # 0
  BY <1>1, <1>2 DEF HasJob, Slots
<1> QED
  BY <1>1, <1>2, <1>3 DEF JobLocation

\* The table leads to a place if and only if it does for the check of its job.
LEMMA LocatedIs ==
    ASSUME IInv, NEW l \in PlacesIn(jobs), NEW id \in DOMAIN checks
    PROVE  checks[id] = l => Seen(jobs, l).id = id
BY PlacesHaveSlots DEF IInv, LocationIntegrity, JobAt, Seen

----------------------------------------------------------------------------
(* What the table makes of the places.                                     *)

\* The check id gets the location l0, which held no job before.
LEMMA InsertedLocation ==
    ASSUME IInv, NEW id, NEW l0, l0 \notin PlacesIn(jobs),
           checks' = Insert(checks, id, l0),
           \A l : l # l0 => (l \in PlacesIn(jobs') <=> l \in PlacesIn(jobs)),
           \A l \in PlacesIn(jobs) : Seen(jobs', l) = Seen(jobs, l)
    PROVE  /\ Orphans' = Orphans \cup {k \in Active : k.id = id}
           /\ Active' = {k \in Active : k.id # id}
                            \cup {Seen(jobs', l) : l \in {l0} \cap PlacesIn(jobs')}
<1>1. /\ DOMAIN checks' = DOMAIN checks \cup {id} /\ checks'[id] = l0
      /\ \A x \in DOMAIN checks : x # id => checks'[x] = checks[x]
  BY DEF Insert
<1>2. ASSUME NEW l \in PlacesIn(jobs)
      PROVE  l \in Located' <=> l \in Located /\ Seen(jobs, l).id # id
  <2>1. ASSUME l \in Located'
        PROVE  l \in Located /\ Seen(jobs, l).id # id
    <3>1. PICK x \in DOMAIN checks' : checks'[x] = l
      BY <2>1 DEF Located
    <3>2. x # id
      BY <1>1, <3>1
    <3>3. x \in DOMAIN checks /\ checks[x] = l
      BY <1>1, <3>1, <3>2
    <3> QED
      BY <3>2, <3>3, LocatedIs DEF Located
  <2>2. ASSUME l \in Located, Seen(jobs, l).id # id
        PROVE  l \in Located'
    <3>1. PICK x \in DOMAIN checks : checks[x] = l
      BY <2>2 DEF Located
    <3>2. x # id
      BY <2>2, <3>1, LocatedIs
    <3> QED
      BY <1>1, <3>1, <3>2 DEF Located
  <2> QED
    BY <2>1, <2>2
<1>3. l0 \in Located'
  BY <1>1 DEF Located
<1>4. ASSUME NEW k
      PROVE  k \in Orphans' <=> k \in Orphans \/ (k \in Active /\ k.id = id)
  BY <1>2, <1>3, ViewsAre
<1>5. ASSUME NEW k
      PROVE  k \in Active' <=>
                \/ k \in Active /\ k.id # id
                \/ l0 \in PlacesIn(jobs') /\ k = Seen(jobs', l0)
  BY <1>2, <1>3, ViewsAre
<1> QED
  BY <1>4, <1>5

\* The check id leaves the table, and the place it led to its job.
LEMMA RemovedLocation ==
    ASSUME IInv, NEW id \in DOMAIN checks, checks' = Remove(checks, id),
           \A l : l \in PlacesIn(jobs') <=> l \in PlacesIn(jobs) /\ l # checks[id],
           \A l \in PlacesIn(jobs') : Seen(jobs', l) = Seen(jobs, l)
    PROVE  /\ Orphans' = Orphans
           /\ Active' = {k \in Active : k.id # id}
<1>1. /\ DOMAIN checks' = DOMAIN checks \ {id}
      /\ \A x \in DOMAIN checks : x # id => checks'[x] = checks[x]
  BY DEF Remove
<1>2. ASSUME NEW l \in PlacesIn(jobs')
      PROVE  l \in Located' <=> l \in Located
  BY <1>1 DEF Located
<1>3. ASSUME NEW l \in PlacesIn(jobs) \cap Located
      PROVE  l # checks[id] <=> Seen(jobs, l).id # id
  <2>1. PICK x \in DOMAIN checks : checks[x] = l
    BY DEF Located
  <2>2. Seen(jobs, l).id = x
    BY <2>1, LocatedIs
  <2> QED
    BY <2>1, <2>2, LocatedIs
<1>4. checks[id] \in Located
  BY DEF Located
<1>5. ASSUME NEW k
      PROVE  k \in Orphans' <=> k \in Orphans
  BY <1>2, <1>4, ViewsAre
<1>6. ASSUME NEW k
      PROVE  k \in Active' <=> k \in Active /\ k.id # id
  BY <1>2, <1>3, ViewsAre
<1> QED
  BY <1>5, <1>6

LEMMA SameLocations ==
    ASSUME checks' = checks, PlacesIn(jobs') = PlacesIn(jobs),
           \A l \in PlacesIn(jobs) : Seen(jobs', l) = Seen(jobs, l)
    PROVE  Orphans' = Orphans /\ Active' = Active
<1>1. Located' = Located
  BY DEF Located
<1>2. \A k : /\ k \in Orphans' <=> k \in Orphans
             /\ k \in Active' <=> k \in Active
  BY <1>1, ViewsAre
<1> QED
  BY <1>2

----------------------------------------------------------------------------
(* What the operators on a wheel make of its places.                       *)

LEMMA NewWheelEmpty ==
    ASSUME NEW f \in Nat \ {0}, f \notin DOMAIN jobs, NEW s \in SchedulersFor(f)
    PROVE  ~ \E o, p : HasJob(s, o, p)
<1>1. CASE s = NewScheduler(f)
  BY <1>1 DEF NewScheduler, EmptySlab, HasJob
<1>2. ASSUME NEW n \in Slots(f) \cup {0}, NEW overran \in BOOLEAN,
             s = Tick(StartedScheduler(f, n), f, overran)
      PROVE  ~ \E o, p : HasJob(s, o, p)
  <2> DEFINE u == StartedScheduler(f, n)
  <2>1. IsScheduler(u, f, Ids) /\ u.jobs = [o \in Slots(f) |-> EmptySlab]
    BY StartedSchedulerOK
  <2> HIDE DEF u
  <2>2. s.jobs = RunSlot(u)
    BY <1>2, <2>1, TickOK DEF u
  <2>3. \A o, p : HasJob(s, o, p) => HasJob(u, o, p)
    BY <2>2 DEF HasJob, RunSlot
  <2> QED
    BY <2>1, <2>3 DEF EmptySlab, HasJob
<1> QED
  BY <1>1, <1>2, NewOnes

LEMMA PutOnly ==
    ASSUME NEW range \in Nat \ {0}, NEW s, IsScheduler(s, range, Ids),
           NEW job \in Jobs(Ids), NEW p \in VacantPositions(s),
           NEW q, NEW r, HasJob(PutJob(s, range, job, p), q, r)
    PROVE  (q = InsertSlot(s) /\ r = p) \/ HasJob(s, q, r)
<1> DEFINE t == PutJob(s, range, job, p)
           o == InsertSlot(s)
<1>1. o \in Slots(range) /\ DOMAIN s.jobs = Slots(range)
  BY InsertSlotOK, FieldsOK
<1>2. t.jobs = [s.jobs EXCEPT ![o] = SlabInsert(s.jobs[o], p, job)]
  BY PutJobOK
<1>3. DOMAIN SlabInsert(s.jobs[o], p, job) = DOMAIN s.jobs[o] \cup {p}
  BY DEF SlabInsert
<1> QED
  BY <1>1, <1>2, <1>3 DEF HasJob

LEMMA RemoveOnly ==
    ASSUME NEW range \in Nat, NEW s, IsScheduler(s, range, Ids), ~s.poisoned,
           NEW o, NEW p, HasJob(s, o, p), NEW q, NEW r,
           HasJob(RemoveJob(s, o, p), q, r)
    PROVE  HasJob(s, q, r) /\ ~ (q = o /\ r = p)
<1> DEFINE t == RemoveJob(s, o, p)
<1>1. t.jobs = [s.jobs EXCEPT ![o] = SlabRemove(s.jobs[o], p)]
  BY DEF RemoveJob, IsScheduler, SchedulerFields
<1>2. DOMAIN SlabRemove(s.jobs[o], p) = DOMAIN s.jobs[o] \ {p}
  BY DEF SlabRemove
<1> QED
  BY <1>1, <1>2 DEF HasJob

LEMMA TickOnly ==
    ASSUME NEW range \in Nat \ {0}, NEW s, IsScheduler(s, range, Ids),
           NEW overran \in BOOLEAN, NEW o, NEW p
    PROVE  LET t == Tick(s, range, overran)
           IN  /\ HasJob(t, o, p) <=> HasJob(s, o, p)
               /\ HasJob(t, o, p) => /\ t.jobs[o][p].id = s.jobs[o][p].id
                                     /\ t.jobs[o][p].kind = s.jobs[o][p].kind
<1> DEFINE t == Tick(s, range, overran)
<1>1. t.jobs = RunSlot(s)
  BY TickOK
<1>2. HasJob(t, o, p) <=> HasJob(s, o, p)
  BY <1>1 DEF HasJob, RunSlot
<1>3. ASSUME HasJob(s, o, p)
      PROVE  /\ t.jobs[o][p].id = s.jobs[o][p].id
             /\ t.jobs[o][p].kind = s.jobs[o][p].kind
  <2>1. o \in DOMAIN s.jobs /\ o \in Slots(range) /\ p \in DOMAIN s.jobs[o]
    BY <1>3, FieldsOK DEF HasJob
  <2>2. IsSlab(s.jobs[o], Ids)
    BY <2>1, FieldsOK
  <2>3. s.jobs[o][p] \in Jobs(Ids)
    BY <2>1, <2>2 DEF IsSlab
  <2>4. t.jobs[o] = [q \in DOMAIN s.jobs[o] |->
                         IF o = s.time_cursor
                         THEN [s.jobs[o][q] EXCEPT !.fresh = FALSE, !.idle = 0]
                         ELSE [s.jobs[o][q] EXCEPT !.idle = @ + 1]]
    BY <1>1, <2>1 DEF RunSlot
  <2>5. \/ t.jobs[o][p] = [s.jobs[o][p] EXCEPT !.fresh = FALSE, !.idle = 0]
        \/ t.jobs[o][p] = [s.jobs[o][p] EXCEPT !.idle = @ + 1]
    BY <2>1, <2>4
  <2> QED
    BY <2>3, <2>5 DEF Jobs
<1> QED
  BY <1>2, <1>3

\* A step that changes one wheel, or makes it.
LEMMA OneWheelChanges ==
    ASSUME NEW f, DOMAIN jobs' = DOMAIN jobs \cup {f},
           \A g \in DOMAIN jobs : g # f => jobs'[g] = jobs[g]
    PROVE  /\ \A l : l \in PlacesIn(jobs') <=>
                \/ \E o, p : HasJob(jobs'[f], o, p) /\ l = JobLocation(f, o, p)
                \/ l \in PlacesIn(jobs) /\ l.frequency # f
           /\ \A l \in PlacesIn(jobs) : l.frequency # f => Seen(jobs', l) = Seen(jobs, l)
<1>1. ASSUME NEW l
      PROVE  l \in PlacesIn(jobs') <=>
                \/ \E o, p : HasJob(jobs'[f], o, p) /\ l = JobLocation(f, o, p)
                \/ \E g \in DOMAIN jobs : g # f /\ \E o, p : HasJob(jobs[g], o, p) /\ l = JobLocation(g, o, p)
  <2>1. l \in PlacesIn(jobs') <=>
            \E g \in DOMAIN jobs' : \E o, p : HasJob(jobs'[g], o, p) /\ l = JobLocation(g, o, p)
    BY PlacesInAre
  <2> QED
    BY <2>1
<1>2. \A g, o, p : JobLocation(g, o, p).frequency = g
  BY DEF JobLocation
<1>3. ASSUME NEW l
      PROVE  l \in PlacesIn(jobs) /\ l.frequency # f <=>
                \E g \in DOMAIN jobs : g # f /\ \E o, p : HasJob(jobs[g], o, p) /\ l = JobLocation(g, o, p)
  BY <1>2, PlacesInAre
<1>4. ASSUME NEW l \in PlacesIn(jobs), l.frequency # f
      PROVE  Seen(jobs', l) = Seen(jobs, l)
  <2>1. l.frequency \in DOMAIN jobs
    BY <1>2, PlacesInAre
  <2> QED
    BY <1>4, <2>1 DEF Seen
<1> QED
  BY <1>1, <1>3, <1>4

\* What a wheel becomes, when its jobs are the same: so are the places.
LEMMA SameWheelPlaces ==
    ASSUME NEW f, DOMAIN jobs' = DOMAIN jobs \cup {f},
           \A g \in DOMAIN jobs : g # f => jobs'[g] = jobs[g],
           f \notin DOMAIN jobs => ~ \E o, p : HasJob(jobs'[f], o, p),
           f \in DOMAIN jobs => \A o, p :
                /\ HasJob(jobs'[f], o, p) <=> HasJob(jobs[f], o, p)
                /\ HasJob(jobs[f], o, p) =>
                    /\ jobs'[f].jobs[o][p].id = jobs[f].jobs[o][p].id
                    /\ jobs'[f].jobs[o][p].kind = jobs[f].jobs[o][p].kind
    PROVE  /\ PlacesIn(jobs') = PlacesIn(jobs)
           /\ \A l \in PlacesIn(jobs) : Seen(jobs', l) = Seen(jobs, l)
<1>1. ASSUME NEW l
      PROVE  (\E o, p : HasJob(jobs'[f], o, p) /\ l = JobLocation(f, o, p))
                <=> l \in PlacesIn(jobs) /\ l.frequency = f
  <2>1. \A g, o, p : JobLocation(g, o, p).frequency = g
    BY DEF JobLocation
  <2> QED
    BY <2>1, PlacesInAre
<1>2. PlacesIn(jobs') = PlacesIn(jobs)
  BY <1>1, OneWheelChanges
<1>3. ASSUME NEW l \in PlacesIn(jobs), l.frequency = f
      PROVE  Seen(jobs', l) = Seen(jobs, l)
  <2>1. PICK g \in DOMAIN jobs : \E o, p : HasJob(jobs[g], o, p) /\ l = JobLocation(g, o, p)
    BY PlacesInAre
  <2>2. PICK o, p : HasJob(jobs[g], o, p) /\ l = JobLocation(g, o, p)
    BY <2>1
  <2>3. f \in DOMAIN jobs /\ HasJob(jobs[f], o, p) /\ l.offset = o /\ l.position = p
    BY <1>3, <2>2 DEF JobLocation
  <2>4. /\ jobs'[f].jobs[o][p].id = jobs[f].jobs[o][p].id
        /\ jobs'[f].jobs[o][p].kind = jobs[f].jobs[o][p].kind
    BY <2>3
  <2> QED
    BY <1>3, <2>3, <2>4 DEF Seen
<1> QED
  BY <1>2, <1>3, OneWheelChanges

----------------------------------------------------------------------------
(* The steps of the handler.                                               *)

LEMMA ActiveAreTracked ==
    ASSUME IInv, NEW k \in Active
    PROVE  k.id \in DOMAIN checks
<1>1. PICK l \in PlacesIn(jobs) \cap Located : k = Seen(jobs, l)
  BY ViewsAre
<1>2. PICK x \in DOMAIN checks : checks[x] = l
  BY DEF Located
<1> QED
  BY <1>1, <1>2, LocatedIs

\* The wheel add_check works on holds what it held, or nothing.
LEMMA WheelToFill ==
    ASSUME PromiseInv, NEW f \in Intervals, f # 0, NEW s \in SchedulersFor(f)
    PROVE  /\ f \in Nat \ {0} /\ IsScheduler(s, f, Ids)
           /\ f \in DOMAIN jobs => s = jobs[f]
           /\ f \notin DOMAIN jobs => ~ \E o, p : HasJob(s, o, p)
<1>1. f \in Nat \ {0}
  BY IntervalsAreNaturals
<1>2. IsScheduler(s, f, Ids) /\ (f \in DOMAIN jobs => s = jobs[f])
  BY SchedulersForOK DEF PromiseInv
<1> QED
  BY <1>1, <1>2, NewWheelEmpty

\* The places of the wheel a scheduler of the map, or a new one, has.
LEMMA PlacesOfWheel ==
    ASSUME NEW f, NEW s,
           f \in DOMAIN jobs => s = jobs[f],
           f \notin DOMAIN jobs => ~ \E o, p : HasJob(s, o, p),
           NEW o, NEW p
    PROVE  HasJob(s, o, p) <=> JobLocation(f, o, p) \in PlacesIn(jobs)
<1>1. ASSUME HasJob(s, o, p)
      PROVE  JobLocation(f, o, p) \in PlacesIn(jobs)
  BY <1>1, PlacesInAre
<1>2. ASSUME JobLocation(f, o, p) \in PlacesIn(jobs)
      PROVE  HasJob(s, o, p)
  <2>1. PICK g, q, r : g \in DOMAIN jobs /\
            HasJob(jobs[g], q, r) /\ JobLocation(f, o, p) = JobLocation(g, q, r)
    BY <1>2, PlacesInAre
  <2>2. f = g /\ o = q /\ p = r
    BY <2>1, LocationsDiffer
  <2> QED
    BY <2>1, <2>2
<1> QED
  BY <1>1, <1>2

\* A command leaves every process as it is, but for the one it starts.
LEMMA StoppedByOne ==
    ASSUME NEW f, NEW s, f \in DOMAIN jobs => s = jobs[f],
           DOMAIN jobs' = DOMAIN jobs \cup {f}, jobs'[f].process = s.process,
           \A g \in DOMAIN jobs : g # f => jobs'[g] = jobs[g]
    PROVE  Stopped' \in {Stopped, Stopped \cup {f}}
<1>1. \A g : g # f => (g \in Stopped' <=> g \in Stopped)
  BY DEF Stopped
<1>2. f \in Stopped => f \in Stopped'
  BY DEF Stopped
<1>3. CASE f \in Stopped'
  BY <1>1, <1>3
<1>4. CASE f \notin Stopped'
  BY <1>1, <1>2, <1>4
<1> QED
  BY <1>3, <1>4

LEMMA AddPromise ==
    ASSUME PromiseInv, main = "running", NEW c \in CheckOutputs,
           NEW s \in SchedulersFor(c.interval), AddedJob(c, s)
    PROVE  PoisonSeen' /\ Promise!Add(JobOf(c))
<1> DEFINE f == c.interval
           o == InsertSlot(s)
           job == Job(c)
<1>1. /\ f \in Intervals /\ f # 0 /\ job \in Jobs(Ids) /\ ~s.poisoned
      /\ JobOf(c) = [id |-> job.id, interval |-> f, kind |-> job.kind]
  BY CheckOutputOK DEF AddedJob, JobOf, Job
<1>2. PICK p \in VacantPositions(s) :
        /\ jobs' = Insert(jobs, f, PutJob(s, f, job, p))
        /\ checks' = Insert(checks, c.id, JobLocation(f, o, p))
  BY DEF AddedJob
<1> DEFINE t == PutJob(s, f, job, p)
           l0 == JobLocation(f, o, p)
<1> HIDE DEF job, f, o
<1>3. /\ f \in Nat \ {0} /\ IsScheduler(s, f, Ids)
      /\ f \in DOMAIN jobs => s = jobs[f]
      /\ f \notin DOMAIN jobs => ~ \E q, r : HasJob(s, q, r)
  BY <1>1, WheelToFill DEF f
<1>4. t.process = s.process /\ t.poisoned = s.poisoned
  BY <1>3 DEF PutJob, IsScheduler, SchedulerFields
<1>5. /\ HasJob(t, o, p) /\ t.jobs[o][p] = job
      /\ \A q, r : HasJob(s, q, r) => HasJob(t, q, r) /\ t.jobs[q][r] = s.jobs[q][r]
      /\ \A q, r : HasJob(t, q, r) => (q = o /\ r = p) \/ HasJob(s, q, r)
  BY <1>1, <1>3, PutKeeps, PutOnly DEF o
<1>6. ~ HasJob(s, o, p)
  BY DEF VacantPositions, HasJob, o
<1> HIDE DEF t
<1>7. /\ DOMAIN jobs' = DOMAIN jobs \cup {f} /\ jobs'[f] = t
      /\ \A g \in DOMAIN jobs : g # f => jobs'[g] = jobs[g]
  BY <1>2 DEF Insert, t
<1>8. \A q, r : HasJob(s, q, r) <=> JobLocation(f, q, r) \in PlacesIn(jobs)
  BY <1>3, PlacesOfWheel
<1>9. l0 \notin PlacesIn(jobs)
  BY <1>6, <1>8
<1>10. \A l : l # l0 => (l \in PlacesIn(jobs') <=> l \in PlacesIn(jobs))
  <2> SUFFICES ASSUME NEW l, l # l0
               PROVE  l \in PlacesIn(jobs') <=> l \in PlacesIn(jobs)
    OBVIOUS
  <2>1. l \in PlacesIn(jobs') <=>
            \/ \E q, r : HasJob(t, q, r) /\ l = JobLocation(f, q, r)
            \/ l \in PlacesIn(jobs) /\ l.frequency # f
    BY <1>7, OneWheelChanges
  <2>2. (\E q, r : HasJob(t, q, r) /\ l = JobLocation(f, q, r)) <=>
            \E q, r : HasJob(s, q, r) /\ l = JobLocation(f, q, r)
    BY <1>5
  <2>3. l \in PlacesIn(jobs) /\ l.frequency = f =>
            \E q, r : HasJob(s, q, r) /\ l = JobLocation(f, q, r)
    <3> SUFFICES ASSUME l \in PlacesIn(jobs), l.frequency = f
                 PROVE  \E q, r : HasJob(s, q, r) /\ l = JobLocation(f, q, r)
      OBVIOUS
    <3>1. PICK g, q, r : g \in DOMAIN jobs /\ HasJob(jobs[g], q, r) /\ l = JobLocation(g, q, r)
      BY PlacesInAre
    <3>2. g = f
      BY <3>1 DEF JobLocation
    <3> QED
      BY <1>3, <3>1, <3>2
  <2> QED
    BY <1>8, <2>1, <2>2, <2>3
<1>11. \A l \in PlacesIn(jobs) : Seen(jobs', l) = Seen(jobs, l)
  <2> SUFFICES ASSUME NEW l \in PlacesIn(jobs)
               PROVE  Seen(jobs', l) = Seen(jobs, l)
    OBVIOUS
  <2>1. PICK g, q, r : g \in DOMAIN jobs /\ HasJob(jobs[g], q, r) /\ l = JobLocation(g, q, r)
    BY PlacesInAre
  <2>2. jobs'[g].jobs[q][r] = jobs[g].jobs[q][r]
    BY <1>3, <1>5, <1>7, <2>1
  <2> QED
    BY <2>1, <2>2 DEF Seen, JobLocation
<1>12. l0 \in PlacesIn(jobs') /\ Seen(jobs', l0) = JobOf(c)
  <2>1. l0 \in PlacesIn(jobs')
    BY <1>5, <1>7, PlacesInAre
  <2>2. Seen(jobs', l0) = JobOf(c)
    BY <1>1, <1>5, <1>7 DEF Seen, JobLocation
  <2> QED
    BY <2>1, <2>2
<1>13. /\ Orphans' = Orphans \cup {k \in Active : k.id = c.id}
       /\ Active' = {k \in Active : k.id # c.id}
                        \cup {Seen(jobs', l) : l \in {l0} \cap PlacesIn(jobs')}
  <2>1. IInv /\ checks' = Insert(checks, c.id, l0)
    BY <1>2 DEF PromiseInv
  <2> HIDE DEF l0
  <2> QED
    BY <1>9, <1>10, <1>11, <2>1, InsertedLocation
<1>14. Active' = {k \in Active : k.id # c.id} \cup {JobOf(c)}
  BY <1>12, <1>13
<1>15. Stopped' \in {Stopped, Stopped \cup {f}}
  BY <1>3, <1>4, <1>7, StoppedByOne
<1>16. PoisonSeen'
  BY <1>1, <1>4, <1>7 DEF PromiseInv, PoisonSeen, AddedJob
<1>17. /\ (DOMAIN checks)' = DOMAIN checks \cup {JobOf(c).id}
       /\ JobOf(c).interval = f /\ f > 0 /\ JobOf(c).id = c.id
  BY <1>2, <1>3 DEF JobOf, f, Insert
<1> QED
  BY <1>13, <1>14, <1>15, <1>16, <1>17
  DEF Promise!Add, Promise!JobsOf, Active, Orphans, Stopped, AddedJob

LEMMA NoPlacesOfZero ==
    ASSUME NEW s, IsScheduler(s, 0, Ids)
    PROVE  ~ \E o, p : HasJob(s, o, p)
<1>1. DOMAIN s.jobs = Slots(0)
  BY DEF IsScheduler, SchedulerFields
<1> QED
  BY <1>1 DEF HasJob, Slots

\* A scheduler enters the map without a job of its own, or stays as it was.
LEMMA InsertedScheduler ==
    ASSUME IInv, NEW f \in Intervals, NEW s \in SchedulersFor(f), NEW u,
           u = s \/ (f = 0 /\ u = [s EXCEPT !.poisoned = TRUE]),
           jobs' = Insert(jobs, f, u)
    PROVE  /\ DOMAIN jobs' = DOMAIN jobs \cup {f} /\ jobs'[f] = u
           /\ \A g \in DOMAIN jobs : g # f => jobs'[g] = jobs[g]
           /\ u.process = s.process
           /\ PlacesIn(jobs') = PlacesIn(jobs)
           /\ \A l \in PlacesIn(jobs) : Seen(jobs', l) = Seen(jobs, l)
<1>1. IsScheduler(s, f, Ids) /\ (f \in DOMAIN jobs => s = jobs[f]) /\ f \in Nat
  BY SchedulersForOK, IntervalsAreNaturals
<1>2. /\ DOMAIN jobs' = DOMAIN jobs \cup {f} /\ jobs'[f] = u
      /\ \A g \in DOMAIN jobs : g # f => jobs'[g] = jobs[g]
  BY DEF Insert
<1>3. u.jobs = s.jobs /\ u.process = s.process
  BY <1>1 DEF IsScheduler, SchedulerFields
<1>4. f \notin DOMAIN jobs => ~ \E o, p : HasJob(s, o, p)
  <2>1. CASE f = 0
    BY <1>1, <2>1, NoPlacesOfZero
  <2>2. CASE f # 0 /\ f \notin DOMAIN jobs
    <3>1. f \in Nat \ {0}
      BY <1>1, <2>2
    <3> QED
      BY <2>2, <3>1, NewWheelEmpty
  <2> QED
    BY <2>1, <2>2
<1>5. \A o, p : HasJob(u, o, p) <=> HasJob(s, o, p)
  BY <1>3 DEF HasJob
<1>6. f \in DOMAIN jobs => \A o, p :
        /\ HasJob(jobs'[f], o, p) <=> HasJob(jobs[f], o, p)
        /\ jobs'[f].jobs[o][p].id = jobs[f].jobs[o][p].id
        /\ jobs'[f].jobs[o][p].kind = jobs[f].jobs[o][p].kind
  BY <1>1, <1>2, <1>3, <1>5
<1>7. f \notin DOMAIN jobs => ~ \E o, p : HasJob(jobs'[f], o, p)
  BY <1>2, <1>4, <1>5
<1> QED
  BY <1>2, <1>3, <1>6, <1>7, SameWheelPlaces

\* A check of interval zero gets no job, and the process of that interval is gone.
LEMMA RefusePromise ==
    ASSUME PromiseInv, main = "running", NEW c \in CheckOutputs,
           NEW s \in SchedulersFor(c.interval), LostJob(c, s)
    PROVE  PoisonSeen' /\ Promise!Refuse(JobOf(c))
<1> DEFINE l0 == JobLocation(0, s.fill_cursor, 0)
<1>1. c.interval = 0 /\ 0 \in Intervals /\ (0 \in DOMAIN jobs => s = jobs[0])
      /\ IsScheduler(s, 0, Ids) /\ s.poisoned
  BY CheckOutputOK, SchedulersForOK DEF PromiseInv, LostJob
<1>2. s.process = "panicked"
  <2>1. CASE 0 \in DOMAIN jobs
    BY <1>1, <2>1 DEF PromiseInv, PoisonSeen
  <2>2. CASE 0 \notin DOMAIN jobs
    <3>1. \/ s = NewScheduler(0)
          \/ \E n \in Slots(0) \cup {0} : \E overran \in BOOLEAN :
                s = Tick(StartedScheduler(0, n), 0, overran)
      BY <1>1, <2>2, NewOnes
    <3>2. ASSUME NEW n, NEW overran PROVE
            Tick(StartedScheduler(0, n), 0, overran).process = "panicked"
      BY DEF StartedScheduler, NewScheduler, Tick
    <3>3. ~ NewScheduler(0).poisoned
      BY DEF NewScheduler
    <3> QED
      BY <1>1, <3>1, <3>2, <3>3
  <2> QED
    BY <2>1, <2>2
<1>3. /\ jobs' = Insert(jobs, 0, s)
      /\ checks' = Insert(checks, c.id, l0)
      /\ main' = main
  BY <1>1 DEF LostJob
<1>4. /\ DOMAIN jobs' = DOMAIN jobs \cup {0} /\ jobs'[0] = s
      /\ \A g \in DOMAIN jobs : g # 0 => jobs'[g] = jobs[g]
      /\ PlacesIn(jobs') = PlacesIn(jobs)
      /\ \A l \in PlacesIn(jobs) : Seen(jobs', l) = Seen(jobs, l)
  BY <1>1, <1>3, InsertedScheduler DEF PromiseInv
<1>5. l0 \notin PlacesIn(jobs)
  BY PlacesHaveSlots DEF PromiseInv, JobLocation
<1> HIDE DEF l0
<1>6. /\ Orphans' = Orphans \cup {k \in Active : k.id = c.id}
      /\ Active' = {k \in Active : k.id # c.id}
                        \cup {Seen(jobs', l) : l \in {l0} \cap PlacesIn(jobs')}
  BY <1>3, <1>4, <1>5, InsertedLocation DEF PromiseInv
<1>7. Active' = {k \in Active : k.id # c.id}
  BY <1>4, <1>5, <1>6
<1>8. Stopped' = Stopped \cup {0}
  BY <1>2, <1>4 DEF Stopped
<1>9. PoisonSeen'
  BY <1>2, <1>3, <1>4 DEF PromiseInv, PoisonSeen
<1>10. /\ (DOMAIN checks)' = DOMAIN checks \cup {JobOf(c).id}
       /\ JobOf(c).interval = 0 /\ JobOf(c).id = c.id
  BY <1>1, <1>3 DEF JobOf, Insert
<1> QED
  BY <1>3, <1>6, <1>7, <1>8, <1>9, <1>10
  DEF Promise!Refuse, Promise!JobsOf, Active, Orphans, Stopped

\* The thread that handles commands panics; no job and no location changes.
LEMMA PanicPromise ==
    ASSUME PromiseInv, main = "running", NEW c \in CheckOutputs,
           NEW s \in SchedulersFor(c.interval), IndexPanic(c, s) \/ UrlPanic(c, s)
    PROVE  PoisonSeen' /\ Promise!Panic(JobOf(c))
<1> DEFINE f == c.interval
           u == jobs'[f]
<1>1. /\ f \in Intervals /\ f \in Nat
      /\ f \in DOMAIN jobs => s = jobs[f]
  BY CheckOutputOK, SchedulersForOK DEF PromiseInv
<1>2. /\ main' = "panicked" /\ checks' = checks
      /\ f = 0 \/ Malformed(c)
      /\ \/ jobs' = Insert(jobs, f, s)
         \/ f = 0 /\ jobs' = Insert(jobs, f, [s EXCEPT !.poisoned = TRUE])
  BY DEF IndexPanic, UrlPanic
<1>3. u = s \/ (f = 0 /\ u = [s EXCEPT !.poisoned = TRUE])
  BY <1>2 DEF Insert
<1>4. jobs' = Insert(jobs, f, u)
  BY <1>2 DEF Insert
<1>5. /\ DOMAIN jobs' = DOMAIN jobs \cup {f}
      /\ \A g \in DOMAIN jobs : g # f => jobs'[g] = jobs[g]
      /\ u.process = s.process
      /\ PlacesIn(jobs') = PlacesIn(jobs)
      /\ \A l \in PlacesIn(jobs) : Seen(jobs', l) = Seen(jobs, l)
  <2>1. IInv /\ s \in SchedulersFor(f)
    BY DEF PromiseInv
  <2> HIDE DEF u, f
  <2> QED
    BY <1>1, <1>3, <1>4, <2>1, InsertedScheduler
<1>6. Orphans' = Orphans /\ Active' = Active
  BY <1>2, <1>5, SameLocations
<1>7. Stopped' \in {Stopped, Stopped \cup {f}}
  BY <1>1, <1>5, StoppedByOne
<1> HIDE DEF u
<1>8. PoisonSeen'
  BY <1>2 DEF PoisonSeen
<1>9. /\ JobOf(c).interval = f /\ (DOMAIN checks)' = DOMAIN checks
      /\ Malformed(c) => JobOf(c) \in {JobOf(d) : d \in {e \in CheckOutputs : Malformed(e)}}
  BY <1>2 DEF JobOf
<1> HIDE DEF f
<1> QED
  BY <1>2, <1>6, <1>7, <1>8, <1>9
  DEF Promise!Panic, Active, Orphans, Stopped

LEMMA RemovePromise ==
    ASSUME PromiseInv, NEW id \in Ids, remove_check(id)
    PROVE  PoisonSeen' /\ Promise!Remove(id)
<1> DEFINE l == checks[id]
           f == l.frequency
           o == l.offset
           p == l.position
           s == jobs[f]
           t == RemoveJob(s, o, p)
<1>1. /\ id \in DOMAIN checks /\ f \in DOMAIN jobs /\ f \in Nat
      /\ IsScheduler(s, f, Ids)
      /\ f > 0 => ~s.poisoned /\ HasJob(s, o, p)
      /\ l = JobLocation(f, o, p)
  <2>1. l \in [frequency: Intervals, offset: Nat, position: Nat]
    BY DEF remove_check, PromiseInv, IInv, TypeOK
  <2>2. l = JobLocation(f, o, p)
    BY <2>1 DEF JobLocation
  <2> QED
    BY <2>2, IntervalsAreNaturals
    DEF remove_check, PromiseInv, IInv, TypeOK, LocationIntegrity, JobAt
<1>2. checks' = Remove(checks, id) /\ jobs' = [jobs EXCEPT ![f] = t] /\ main' = main
      /\ main = "running"
  BY DEF remove_check
<1>3. /\ DOMAIN jobs' = DOMAIN jobs \cup {f}
      /\ jobs'[f] = t
      /\ \A g \in DOMAIN jobs : g # f => jobs'[g] = jobs[g]
  BY <1>1, <1>2
<1>4. f = 0 => t = s /\ \A q, r : ~ HasJob(s, q, r)
  <2>1. ASSUME f = 0
        PROVE  \A q, r : ~ HasJob(s, q, r)
    BY <1>1, <2>1, NoPlacesOfZero
  <2> QED
    BY <2>1 DEF RemoveJob
<1> HIDE DEF s, o, p, f, l
<1>5. /\ \A q, r : HasJob(t, q, r) => HasJob(s, q, r) /\ ~ (q = o /\ r = p)
      /\ \A q, r : HasJob(s, q, r) /\ ~ (q = o /\ r = p) =>
                        HasJob(t, q, r) /\ t.jobs[q][r] = s.jobs[q][r]
  <2>1. CASE f = 0
    BY <1>4, <2>1
  <2>2. CASE f > 0
    <3>1. \A q, r : HasJob(t, q, r) => HasJob(s, q, r) /\ ~ (q = o /\ r = p)
      BY <1>1, <2>2, RemoveOnly
    <3>2. \A q, r : HasJob(s, q, r) /\ ~ (q = o /\ r = p) =>
                        HasJob(t, q, r) /\ t.jobs[q][r] = s.jobs[q][r]
      BY <1>1, RemoveKeeps
    <3> QED
      BY <3>1, <3>2
  <2> QED
    BY <1>1, <2>1, <2>2
<1>6. t.process = s.process /\ t.poisoned = s.poisoned
  <2>1. CASE s.poisoned \/ ~ HasJob(s, o, p)
    BY <2>1 DEF RemoveJob
  <2>2. CASE ~ s.poisoned /\ HasJob(s, o, p)
    BY <1>1, <2>2 DEF RemoveJob, IsScheduler, SchedulerFields
  <2> QED
    BY <2>1, <2>2
<1> HIDE DEF t
<1>7. \A k : k \in PlacesIn(jobs') <=> k \in PlacesIn(jobs) /\ k # l
  <2> SUFFICES ASSUME NEW k
               PROVE  k \in PlacesIn(jobs') <=> k \in PlacesIn(jobs) /\ k # l
    OBVIOUS
  <2>1. k \in PlacesIn(jobs') <=>
            \/ \E q, r : HasJob(t, q, r) /\ k = JobLocation(f, q, r)
            \/ k \in PlacesIn(jobs) /\ k.frequency # f
    BY <1>3, OneWheelChanges
  <2>2. \A q, r : k = JobLocation(f, q, r) =>
            /\ k.frequency = f
            /\ k = l <=> q = o /\ r = p
            /\ HasJob(s, q, r) <=> k \in PlacesIn(jobs)
    <3> SUFFICES ASSUME NEW q, NEW r, k = JobLocation(f, q, r)
                 PROVE  /\ k.frequency = f
                        /\ k = l <=> q = o /\ r = p
                        /\ HasJob(s, q, r) <=> k \in PlacesIn(jobs)
      OBVIOUS
    <3>1. k.frequency = f
      BY DEF JobLocation
    <3>2. k = l <=> q = o /\ r = p
      BY <1>1, LocationsDiffer
    <3>3. HasJob(s, q, r) <=> k \in PlacesIn(jobs)
      BY <1>1, PlacesOfWheel DEF s
    <3> QED
      BY <3>1, <3>2, <3>3
  <2>3. k \in PlacesIn(jobs) /\ k.frequency = f => \E q, r : k = JobLocation(f, q, r)
    <3> SUFFICES ASSUME k \in PlacesIn(jobs), k.frequency = f
                 PROVE  \E q, r : k = JobLocation(f, q, r)
      OBVIOUS
    <3>1. PICK g, q, r : g \in DOMAIN jobs /\ k = JobLocation(g, q, r)
      BY PlacesInAre
    <3>2. g = f
      BY <3>1 DEF JobLocation
    <3> QED
      BY <3>1, <3>2
  <2>4. k.frequency # f => k # l
    BY DEF f
  <2>5. CASE k.frequency # f
    BY <2>1, <2>2, <2>4, <2>5
  <2>6. CASE k.frequency = f /\ k \in PlacesIn(jobs)
    <3>1. PICK q, r : k = JobLocation(f, q, r)
      BY <2>3, <2>6
    <3>2. HasJob(t, q, r) <=> k # l
      BY <1>5, <2>2, <2>6, <3>1
    <3>3. ASSUME NEW x, NEW y, k = JobLocation(f, x, y)
          PROVE  x = q /\ y = r
      <4>1. JobLocation(f, q, r) = JobLocation(f, x, y)
        BY <3>1, <3>3
      <4> QED
        BY <4>1, LocationsDiffer
    <3> QED
      BY <2>1, <2>6, <3>1, <3>2, <3>3
  <2>7. CASE k \notin PlacesIn(jobs)
    BY <1>5, <2>1, <2>2, <2>7
  <2> QED
    BY <2>5, <2>6, <2>7
<1>8. \A k \in PlacesIn(jobs') : Seen(jobs', k) = Seen(jobs, k)
  <2> SUFFICES ASSUME NEW k \in PlacesIn(jobs')
               PROVE  Seen(jobs', k) = Seen(jobs, k)
    OBVIOUS
  <2>1. PICK g, q, r : g \in DOMAIN jobs' /\ HasJob(jobs'[g], q, r) /\ k = JobLocation(g, q, r)
    BY PlacesInAre
  <2>2. jobs'[g].jobs[q][r] = jobs[g].jobs[q][r]
    <3>1. CASE g = f
      <4>1. t.jobs[q][r] = s.jobs[q][r]
        BY <1>3, <1>5, <2>1, <3>1
      <4> QED
        BY <1>3, <3>1, <4>1 DEF s
    <3>2. CASE g # f
      BY <1>3, <2>1, <3>2
    <3> QED
      BY <3>1, <3>2
  <2> QED
    BY <2>1, <2>2 DEF Seen, JobLocation
<1>9. Orphans' = Orphans /\ Active' = {k \in Active : k.id # id}
  BY <1>1, <1>2, <1>7, <1>8, RemovedLocation DEF PromiseInv, l
<1>10. Stopped' = Stopped
  BY <1>1, <1>3, <1>6 DEF Stopped, s
<1>11. PoisonSeen'
  BY <1>1, <1>2, <1>3, <1>6 DEF PromiseInv, PoisonSeen, s
<1>12. (DOMAIN checks)' = DOMAIN checks \ {id}
  BY <1>2 DEF Remove
<1> QED
  BY <1>2, <1>9, <1>10, <1>11, <1>12
  DEF Promise!Remove, Promise!JobsOf, Active, Orphans, Stopped

LEMMA ProcessPromise ==
    ASSUME PromiseInv, NEW f \in DOMAIN jobs, process(f)
    PROVE  /\ PoisonSeen'
           /\ Promise!Stop(f) \/ UNCHANGED Promise!vars
<1> DEFINE s == jobs[f]
<1>1. f \in Nat /\ IsScheduler(s, f, Ids)
  BY WheelTypes DEF PromiseInv
<1>2. PICK overran \in BOOLEAN : jobs' = [jobs EXCEPT ![f] = Turn(s, f, overran)]
  BY DEF process, Turn
<1> DEFINE t == Turn(s, f, overran)
<1>3. /\ DOMAIN jobs' = DOMAIN jobs \cup {f} /\ jobs'[f] = t
      /\ checks' = checks /\ main' = main
      /\ \A g \in DOMAIN jobs : g # f => jobs'[g] = jobs[g]
  BY <1>2 DEF process
<1>4. /\ \A o, p : HasJob(t, o, p) => HasJob(s, o, p)
      /\ \A o, p : HasJob(s, o, p) => /\ HasJob(t, o, p)
                                      /\ t.jobs[o][p].id = s.jobs[o][p].id
                                      /\ t.jobs[o][p].kind = s.jobs[o][p].kind
      /\ t.process \in {s.process, "panicked"}
      /\ t.poisoned => s.poisoned \/ t.process = "panicked"
  <2>1. CASE f = 0
    <3>1. t \in {[s EXCEPT !.poisoned = TRUE, !.process = "panicked"],
                 [s EXCEPT !.process = "panicked"], [s EXCEPT !.process = @]}
      BY <2>1 DEF Turn, Tick, IdleTick
    <3>2. t.poisoned => s.poisoned \/ t = [s EXCEPT !.poisoned = TRUE, !.process = "panicked"]
      BY <1>1, <2>1 DEF Turn, Tick, IdleTick, IsScheduler, SchedulerFields
    <3> HIDE DEF t, s
    <3>3. t.jobs = s.jobs /\ t.process \in {s.process, "panicked"}
      BY <1>1, <3>1 DEF IsScheduler, SchedulerFields
    <3>4. t.poisoned => s.poisoned \/ t.process = "panicked"
      BY <1>1, <3>2 DEF IsScheduler, SchedulerFields
    <3> QED
      BY <3>3, <3>4 DEF HasJob
  <2>2. CASE f # 0
    <3>0. t = Tick(s, f, overran)
      BY <2>2 DEF PromiseInv, IInv, LocationIntegrity, Turn
    <3> HIDE DEF s, t
    <3>1. f \in Nat \ {0}
      BY <1>1, <2>2
    <3>2. /\ \A o, p : HasJob(t, o, p) => HasJob(s, o, p)
          /\ \A o, p : HasJob(s, o, p) => /\ HasJob(t, o, p)
                                          /\ t.jobs[o][p].id = s.jobs[o][p].id
                                          /\ t.jobs[o][p].kind = s.jobs[o][p].kind
      BY <1>1, <3>0, <3>1, TickOnly
    <3>3. t.process \in {s.process, "panicked"} /\ t.poisoned = s.poisoned
      BY <1>1, <3>0, <3>1 DEF Tick, IsScheduler, SchedulerFields
    <3> QED
      BY <3>2, <3>3
  <2> QED
    BY <2>1, <2>2
<1> HIDE DEF t
<1>5. PlacesIn(jobs') = PlacesIn(jobs) /\ \A l \in PlacesIn(jobs) : Seen(jobs', l) = Seen(jobs, l)
  BY <1>3, <1>4, SameWheelPlaces
<1>6. Orphans' = Orphans /\ Active' = Active
  BY <1>3, <1>5, SameLocations
<1>7. Stopped' = Stopped \/ Stopped' = Stopped \cup {f}
  <2>1. CASE t.process = s.process
    BY <1>3, <2>1 DEF Stopped
  <2>2. CASE t.process = "panicked"
    BY <1>3, <2>2 DEF Stopped
  <2> QED
    BY <1>4, <2>1, <2>2
<1>8. PoisonSeen'
  <2>1. ASSUME main' = "running", NEW g \in DOMAIN jobs', jobs'[g].poisoned
        PROVE  jobs'[g].process = "panicked"
    BY <1>3, <1>4, <2>1 DEF PromiseInv, PoisonSeen
  <2> QED
    BY <2>1 DEF PoisonSeen
<1> QED
  BY <1>3, <1>6, <1>7, <1>8
  DEF Promise!Stop, Promise!vars, Active, Orphans, Stopped

LEMMA NextPromise ==
    ASSUME PromiseInv, [Next]_vars
    PROVE  PromiseInv' /\ [Promise!Next]_Promise!vars
<1> DEFINE Good == {JobOf(c) : c \in {d \in CheckOutputs : ~Malformed(d)}}
           Bad  == {JobOf(c) : c \in {d \in CheckOutputs : Malformed(d)}}
<1>1. IInv'
  BY NextIInv DEF PromiseInv
<1>2. /\ \A c \in CheckOutputs : /\ ~Malformed(c) => JobOf(c) \in Good
                                /\ JobOf(c) \in Good \cup Bad
      /\ Ids = {j.id : j \in Good \cup Bad}
      /\ Intervals = {j.interval : j \in Good \cup Bad}
  <2>1. \A c \in CheckOutputs : JobOf(c).id = c.id /\ JobOf(c).interval = c.interval
    BY DEF JobOf
  <2>2. /\ \A c \in CheckOutputs : JobOf(c) \in Good \cup Bad
        /\ \A j \in Good \cup Bad : \E c \in CheckOutputs : j = JobOf(c)
    OBVIOUS
  <2> HIDE DEF Good, Bad
  <2>3. Ids = {j.id : j \in Good \cup Bad}
    BY <2>1, <2>2 DEF Ids
  <2>4. Intervals = {j.interval : j \in Good \cup Bad}
    BY <2>1, <2>2 DEF Intervals
  <2>5. \A c \in CheckOutputs : ~Malformed(c) => JobOf(c) \in Good
    BY DEF Good
  <2> QED
    BY <2>2, <2>3, <2>4, <2>5
<1>3. ASSUME NEW c \in CheckOutputs, add_check(c)
      PROVE  PoisonSeen' /\ Promise!Next
  <2>1. main = "running"
    BY <1>3 DEF add_check
  <2>2. PICK s \in SchedulersFor(c.interval) :
                AddedJob(c, s) \/ LostJob(c, s) \/ IndexPanic(c, s) \/ UrlPanic(c, s)
    BY <1>3 DEF add_check
  <2>3. CASE AddedJob(c, s) \/ LostJob(c, s)
    <3>1. PoisonSeen' /\ (Promise!Add(JobOf(c)) \/ Promise!Refuse(JobOf(c)))
      BY <2>1, <2>3, AddPromise, RefusePromise
    <3>2. JobOf(c) \in Good
      BY <1>2, <2>3 DEF AddedJob, LostJob
    <3> QED
      BY <3>1, <3>2 DEF Promise!Next
  <2>4. CASE IndexPanic(c, s) \/ UrlPanic(c, s)
    <3>1. PoisonSeen' /\ Promise!Panic(JobOf(c))
      BY <2>1, <2>4, PanicPromise
    <3> QED
      BY <1>2, <3>1 DEF Promise!Next
  <2> QED
    BY <2>2, <2>3, <2>4
<1>4. ASSUME NEW id \in Ids, remove_check(id)
      PROVE  PoisonSeen' /\ Promise!Next
  <2>1. PoisonSeen' /\ Promise!Remove(id)
    BY <1>4, RemovePromise
  <2> QED
    BY <1>2, <2>1 DEF Promise!Next
<1>5. ASSUME NEW f \in DOMAIN jobs, process(f)
      PROVE  PoisonSeen' /\ [Promise!Next]_Promise!vars
  <2>1. PoisonSeen' /\ (Promise!Stop(f) \/ UNCHANGED Promise!vars)
    BY <1>5, ProcessPromise
  <2>2. f \in Intervals
    BY WheelTypes DEF PromiseInv
  <2> QED
    BY <1>2, <2>1, <2>2 DEF Promise!Next
<1>6. ASSUME UNCHANGED vars
      PROVE  PoisonSeen' /\ UNCHANGED Promise!vars
  BY <1>6
  DEF vars, PromiseInv, PoisonSeen, Promise!vars, Places, Located, JobSeen, JobAt
<1> QED
  BY <1>1, <1>3, <1>4, <1>5, <1>6 DEF Next, PromiseInv

LEMMA InitPromise == Init => PromiseInv /\ Promise!Init
<1> SUFFICES ASSUME Init PROVE PromiseInv /\ Promise!Init
  OBVIOUS
<1>1. DOMAIN jobs = {} /\ DOMAIN checks = {} /\ main = "running"
  BY DEF Init
<1> QED
  BY <1>1, InitIInv DEF PromiseInv, PoisonSeen, Promise!Init, Places

\* The handler, with its schedulers and their processes, implements ActiveChecks, for
\* any checks, intervals and URLs and any order of commands and turns, redelivered
\* adds and panics included.
THEOREM PromiseKept == Spec => KeepsPromise
<1>1. PromiseInv /\ [Next]_vars => PromiseInv' /\ [Promise!Next]_Promise!vars
  BY NextPromise
<1> QED
  BY <1>1, InitPromise, PTL DEF Spec, KeepsPromise, Promise!Spec

----------------------------------------------------------------------------
(* Orphaned jobs are the work of redelivered adds alone.                   *)

LEMMA NextNoOrphans ==
    ASSUME ~Redelivery, PromiseInv, Orphans = {}, [Next]_vars
    PROVE  Orphans' = {}
<1>1. ASSUME NEW c \in CheckOutputs, add_check(c)
      PROVE  Orphans' = {}
  <2>1. main = "running" /\ c.id \notin DOMAIN checks
    BY <1>1 DEF add_check
  <2>2. {k \in Active : k.id = c.id} = {}
    BY <2>1, ActiveAreTracked DEF PromiseInv
  <2>3. JobOf(c).id = c.id
    BY DEF JobOf
  <2>4. PICK s \in SchedulersFor(c.interval) :
                AddedJob(c, s) \/ LostJob(c, s) \/ IndexPanic(c, s) \/ UrlPanic(c, s)
    BY <1>1 DEF add_check
  <2>5. Promise!Add(JobOf(c)) \/ Promise!Refuse(JobOf(c)) \/ Promise!Panic(JobOf(c))
    BY <2>1, <2>4, AddPromise, RefusePromise, PanicPromise
  <2> QED
    BY <2>2, <2>3, <2>5
    DEF Promise!Add, Promise!Refuse, Promise!Panic, Promise!JobsOf, Active, Orphans
<1>2. ASSUME NEW id \in Ids, remove_check(id)
      PROVE  Orphans' = {}
  BY <1>2, RemovePromise DEF Promise!Remove, Orphans
<1>3. ASSUME NEW f \in DOMAIN jobs, process(f)
      PROVE  Orphans' = {}
  BY <1>3, ProcessPromise DEF Promise!Stop, Promise!vars, Orphans
<1>4. CASE UNCHANGED vars
  <2>1. checks' = checks /\ jobs' = jobs
    BY <1>4 DEF vars
  <2> QED
    BY <2>1, SameLocations
<1> QED
  BY <1>1, <1>2, <1>3, <1>4 DEF Next

\* Without redelivered adds no job escapes the table: a Remove can reach every job
\* of every wheel, so that a removed check has none left.
THEOREM NoOrphans == ~Redelivery /\ Spec => [](Places \subseteq Located)
<1> SUFFICES ASSUME ~Redelivery PROVE Spec => [](Places \subseteq Located)
  OBVIOUS
<1> DEFINE Inv == PromiseInv /\ Orphans = {}
<1>1. Init => Inv
  BY InitPromise DEF Promise!Init, Orphans
<1>2. Inv /\ [Next]_vars => Inv'
  BY NextPromise, NextNoOrphans
<1>3. Inv => Places \subseteq Located
  BY DEF Orphans
<1> QED
  BY <1>1, <1>2, <1>3, PTL DEF Spec
============================================================================
