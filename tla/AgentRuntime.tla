---------------------------- MODULE AgentRuntime ----------------------------
(***************************************************************************)
(* What the threads of an agent do (src/isok-agent/src: main.rs, job.rs,   *)
(* http.rs, magic_pool.rs, pulsar_sink.rs).                                *)
(*                                                                         *)
(* The main thread reads commands and handles them; it is not one of the   *)
(* worker threads of the runtime.  The workers poll the tasks: the sink,   *)
(* the Pulsar client's own tasks, and the process of each scheduler.  A    *)
(* poll of the former is short.  A process never awaits, so it holds its   *)
(* worker until it panics.  The jobs run elsewhere, on the threads of the  *)
(* scheduler's own pool; they hold a client of the http pool until their   *)
(* sample is in the channel the sink reads.                                *)
(*                                                                         *)
(* Only Add commands of checks of kind http are on the topic here, and it  *)
(* stays as it is; what else a command does is in JobsHandler, and what    *)
(* Remove commands and compaction make of the topic in CheckCommands.      *)
(***************************************************************************)
EXTENDS Integers, Sequences, FiniteSets

CONSTANTS
    Intervals,      \* intervals that checks have: one scheduler each
    Topics,         \* contents of the topic: sequences of [interval, valid],
                    \* valid if reqwest can parse the URL of the check
    WorkerCounts,   \* values of the environment variable JOBS, by default 1
    ChannelSize,    \* samples the channel holds
    PoolCapacity,   \* http clients at the start
    GrowFactor,     \* http clients added when all are in use
    MaxRuns,        \* bound: runs of a job
    MaxRestarts     \* bound: restarts of the agent

ASSUME RuntimeAssumption ==
    /\ IsFiniteSet(Intervals)
    /\ Topics \subseteq Seq([interval: Intervals, valid: BOOLEAN])
    /\ WorkerCounts \subseteq Nat \ {0}
    /\ ChannelSize \in Nat \ {0}
    /\ PoolCapacity \in Nat
    /\ GrowFactor \in Nat \ {0}
    /\ MaxRuns \in Nat
    /\ MaxRestarts \in Nat

VARIABLES
    workers,    \* worker threads of the runtime
    topic,      \* the commands the agent reads
    fetched,    \* commands the Pulsar client has received
    handled,    \* commands the main thread has taken from the client
    main,       \* the main thread: "running", "ended" (waits for the workers)
                \* or "exited"
    process,    \* interval -> the process of its scheduler
    sink,       \* the task of pulsar_sink: "running" or "dropped"
    channel,    \* samples sent and not received, oldest first
    stage,      \* run of a job -> how far it is
    wheel,      \* the intervals of the schedulers that started the runs, in order
    capacity,   \* http clients the pool can give
    restarts,   \* number of restarts so far
    overran     \* history: a process has panicked

vars == <<workers, topic, fetched, handled, main, process, sink, channel,
          stage, wheel, capacity, restarts, overran>>

Runs == 1 .. MaxRuns

(***************************************************************************)
(* The stages of a run: the request is under way; it has a result and is   *)
(* in or before pulsar_sender.send; its sample is in the channel; the sink *)
(* has it; the Pulsar client has it.                                       *)
(***************************************************************************)
Stages == {"none", "request", "answered", "queued", "sinking", "sent",
           "lost", "cancelled"}

RunningProcesses == {i \in Intervals : process[i] = "running"}

\* MUTANT: the runtime is built with one thread less than it is told.
FreeWorkerOneLess == Cardinality(RunningProcesses) < workers - 1

\* A worker that no process holds.
FreeWorker == Cardinality(RunningProcesses) < workers

\* The runs that hold a client: the checkout is dropped at the end of the job.
UnderWay == {r \in Runs : stage[r] \in {"request", "answered"}}

At(s) == {r \in Runs : stage[r] = s}

Init ==
    /\ workers \in WorkerCounts
    /\ topic \in Topics
    /\ fetched = 0
    /\ handled = 0
    /\ main = "running"
    /\ process = [i \in Intervals |-> "none"]
    /\ sink = "running"
    /\ channel = <<>>
    /\ stage = [r \in Runs |-> "none"]
    /\ wheel = <<>>
    /\ capacity = PoolCapacity
    /\ restarts = 0
    /\ overran = FALSE
----------------------------------------------------------------------------
(* Commands.                                                               *)

\* External: a task of the Pulsar client receives the next command.
receive ==
    /\ main = "running"
    /\ FreeWorker
    /\ fetched < Len(topic)
    /\ fetched' = fetched + 1
    /\ UNCHANGED <<workers, topic, handled, main, process, sink, channel, stage,
                   wheel, capacity, restarts, overran>>

\* handle_command on the next command the client has received.  An interval
\* without a scheduler gets one, which spawns its process.  Only then
\* HttpContext::new unwraps Url::parse: the main thread panics on a URL that is
\* only a Uri, and leaves the process of a wheel without jobs.
handle_command ==
    /\ main = "running"
    /\ handled < fetched
    /\ handled' = handled + 1
    /\ LET command == topic[handled + 1]
       IN  /\ process' = [process EXCEPT ![command.interval] =
                              IF @ = "none" THEN "spawned" ELSE @]
           /\ main' = IF command.valid THEN main ELSE "ended"
    /\ UNCHANGED <<workers, topic, fetched, sink, channel, stage, wheel,
                   capacity, restarts, overran>>

\* try_next fails: main_process returns, and the runtime is dropped.
subscription_fails ==
    /\ main = "running"
    /\ main' = "ended"
    /\ UNCHANGED <<workers, topic, fetched, handled, process, sink, channel,
                   stage, wheel, capacity, restarts, overran>>
----------------------------------------------------------------------------
(* Processes.                                                              *)

\* A worker polls the process of interval i for the first time, and the last.
process_start(i) ==
    /\ process[i] = "spawned"
    /\ FreeWorker
    /\ process' = [process EXCEPT ![i] = "running"]
    /\ UNCHANGED <<workers, topic, fetched, handled, main, sink, channel, stage,
                   wheel, capacity, restarts, overran>>

\* MUTANT: the test for growth is one too late.
CapacityForGetLate ==
    IF Cardinality(UnderWay) > capacity THEN capacity + GrowFactor ELSE capacity

\* MagicPool::get grows a pool whose clients are all in use.
CapacityForGet ==
    IF Cardinality(UnderWay) = capacity THEN capacity + GrowFactor ELSE capacity

\* The commands handled gave the wheel of interval i a job.
HasJobs(i) == \E k \in 1 .. handled : topic[k] = [interval |-> i, valid |-> TRUE]

\* MUTANT: the process awaits its sleep, and has to be polled again after it.
execute_http_then_await(i, r) ==
    /\ process[i] = "running"
    /\ HasJobs(i)
    /\ r = Len(wheel) + 1
    /\ stage' = [stage EXCEPT ![r] = "request"]
    /\ wheel' = Append(wheel, i)
    /\ capacity' = CapacityForGet
    /\ process' = [process EXCEPT ![i] = "spawned"]
    /\ UNCHANGED <<workers, topic, fetched, handled, main, sink, channel,
                   restarts, overran>>

\* The process of interval i comes to a job and starts run r of it, with a
\* client of the pool.
execute_http(i, r) ==
    /\ process[i] = "running"
    /\ HasJobs(i)
    /\ r = Len(wheel) + 1
    /\ wheel' = Append(wheel, i)
    /\ stage' = [stage EXCEPT ![r] = "request"]
    /\ capacity' = CapacityForGet
    /\ UNCHANGED <<workers, topic, fetched, handled, main, process, sink, channel,
                   restarts, overran>>

\* A turn takes longer than its second: `wait - elapsed` panics.  The worker is
\* free again; the process' pool of threads goes, and the jobs on it with it.
overrun(i) ==
    /\ process[i] = "running"
    /\ process' = [process EXCEPT ![i] = "panicked"]
    /\ stage' = [r \in Runs |-> IF r \in UnderWay /\ wheel[r] = i THEN "cancelled"
                                ELSE stage[r]]
    /\ overran' = TRUE
    /\ UNCHANGED <<workers, topic, fetched, handled, main, sink, channel, wheel,
                   capacity, restarts>>
----------------------------------------------------------------------------
(* Jobs and the sink.                                                      *)

\* HttpClient::run: an answer, or an error, which makes a result too.  Nothing
\* limits the time it takes.
run(r) ==
    /\ stage[r] = "request"
    /\ stage' = [stage EXCEPT ![r] = "answered"]
    /\ UNCHANGED <<workers, topic, fetched, handled, main, process, sink, channel,
                   wheel, capacity, restarts, overran>>

\* MUTANT: the channel is not bounded.
send_unbounded(r) ==
    /\ stage[r] = "answered"
    /\ IF sink = "running"
       THEN /\ channel' = Append(channel, r)
            /\ stage' = [stage EXCEPT ![r] = "queued"]
       ELSE /\ stage' = [stage EXCEPT ![r] = "lost"]
            /\ channel' = channel
    /\ UNCHANGED <<workers, topic, fetched, handled, main, process, sink, wheel,
                   capacity, restarts, overran>>

\* pulsar_sender.send: waits for room in the channel; an error, when the
\* receiver is gone, is not looked at.
send(r) ==
    /\ stage[r] = "answered"
    /\ IF sink = "running"
       THEN /\ Len(channel) < ChannelSize
            /\ channel' = Append(channel, r)
            /\ stage' = [stage EXCEPT ![r] = "queued"]
       ELSE /\ stage' = [stage EXCEPT ![r] = "lost"]
            /\ channel' = channel
    /\ UNCHANGED <<workers, topic, fetched, handled, main, process, sink, wheel,
                   capacity, restarts, overran>>

\* The sink takes the oldest sample, after it is done with the previous one.
recv ==
    /\ sink = "running"
    /\ FreeWorker
    /\ At("sinking") = {}
    /\ channel /= <<>>
    /\ channel' = Tail(channel)
    /\ stage' = [stage EXCEPT ![Head(channel)] = "sinking"]
    /\ UNCHANGED <<workers, topic, fetched, handled, main, process, sink, wheel,
                   capacity, restarts, overran>>

\* send_non_blocking ends: the client has the sample, or an error is dropped.
send_non_blocking(r) ==
    /\ stage[r] = "sinking"
    /\ FreeWorker
    /\ \E s \in {"sent", "lost"} : stage' = [stage EXCEPT ![r] = s]
    /\ UNCHANGED <<workers, topic, fetched, handled, main, process, sink, channel,
                   wheel, capacity, restarts, overran>>
----------------------------------------------------------------------------
(* The end of an agent.                                                    *)

\* What becomes of the runs of jobs when the tasks in front of them are dropped.
Drop(stages, s) == [r \in Runs |-> IF stage[r] \in stages THEN s ELSE stage[r]]

\* External: the first worker that is free to notice the end of the runtime
\* drops the tasks that are not being polled.
shutdown ==
    /\ main = "ended"
    /\ FreeWorker
    /\ sink = "running"
    /\ sink' = "dropped"
    /\ channel' = <<>>
    /\ stage' = Drop({"queued", "sinking"}, "lost")
    /\ process' = [i \in Intervals |-> IF process[i] = "spawned" THEN "dropped"
                                       ELSE process[i]]
    /\ UNCHANGED <<workers, topic, fetched, handled, main, wheel, capacity,
                   restarts, overran>>

\* The drop of the runtime returns when all workers have ended.
exit ==
    /\ main = "ended"
    /\ sink = "dropped"
    /\ RunningProcesses = {}
    /\ main' = "exited"
    /\ UNCHANGED <<workers, topic, fetched, handled, process, sink, channel, stage,
                   wheel, capacity, restarts, overran>>

\* MUTANT: the new agent believes to have handled what the last one did.
restart_half ==
    /\ restarts < MaxRestarts
    /\ restarts' = restarts + 1
    /\ fetched' = 0
    /\ main' = "running"
    /\ process' = [i \in Intervals |-> "none"]
    /\ sink' = "running"
    /\ channel' = <<>>
    /\ stage' = [r \in Runs |-> IF stage[r] \in {"none", "sent"} THEN stage[r]
                                ELSE "lost"]
    /\ capacity' = PoolCapacity
    /\ UNCHANGED <<workers, topic, handled, wheel, overran>>

\* The agent is killed, or has exited, and is started again: a subscription of
\* a new name reads the topic from its beginning.
restart ==
    /\ restarts < MaxRestarts
    /\ restarts' = restarts + 1
    /\ fetched' = 0
    /\ handled' = 0
    /\ main' = "running"
    /\ process' = [i \in Intervals |-> "none"]
    /\ sink' = "running"
    /\ channel' = <<>>
    /\ stage' = [r \in Runs |-> IF stage[r] \in {"none", "sent"} THEN stage[r]
                                ELSE "lost"]
    /\ capacity' = PoolCapacity
    /\ UNCHANGED <<workers, topic, wheel, overran>>
----------------------------------------------------------------------------
Next ==
    \/ receive
    \/ handle_command
    \/ subscription_fails
    \/ \E i \in Intervals : process_start(i) \/ overrun(i)
    \/ \E i \in Intervals, r \in Runs : execute_http(i, r)
    \/ \E r \in Runs : run(r) \/ send(r) \/ send_non_blocking(r)
    \/ recv
    \/ shutdown
    \/ exit
    \/ restart

Spec == Init /\ [][Next]_vars

\* Threads that can go on do.  A free worker polls every task that is ready, and
\* room in the channel goes to the job that has waited longest.  Requests and
\* subscriptions may hang.
FairSpec ==
    /\ Spec
    /\ WF_vars(receive) /\ WF_vars(handle_command) /\ WF_vars(shutdown)
    /\ \A r \in Runs : WF_vars(send(r))
    /\ WF_vars(recv \/ \E r \in Runs : send_non_blocking(r))
----------------------------------------------------------------------------
(* Correctness.                                                            *)

TypeOK ==
    /\ workers \in WorkerCounts
    /\ topic \in Topics
    /\ fetched \in 0 .. Len(topic)
    /\ handled \in 0 .. fetched
    /\ main \in {"running", "ended", "exited"}
    /\ process \in [Intervals -> {"none", "spawned", "running", "panicked", "dropped"}]
    /\ sink \in {"running", "dropped"}
    /\ channel \in Seq(Runs)
    /\ stage \in [Runs -> Stages]
    /\ wheel \in Seq(Intervals)
    /\ capacity \in Nat
    /\ restarts \in 0 .. MaxRestarts
    /\ overran \in BOOLEAN

\* Runs start in order and their samples go one way: the channel holds each
\* sample that was sent and not received once, in no more than its 512 places, and
\* the sink has one sample in its hands at most.
SamplesInOnePlace ==
    /\ \A r \in Runs : stage[r] = "none" <=> r > Len(wheel)
    /\ Len(channel) <= ChannelSize
    /\ \A r \in Runs : stage[r] = "queued" <=> \E k \in DOMAIN channel : channel[k] = r
    /\ \A j, k \in DOMAIN channel : channel[j] = channel[k] => j = k
    /\ \A q, r \in Runs : stage[q] = "sinking" /\ stage[r] = "sinking" => q = r

\* "should have a checkout after grow": the pool has a client for every job that
\* waits for its answer or for room in the channel, however long it waits.
ClientsSuffice == Cardinality(UnderWay) <= capacity

\* With one worker, the default, no sample leaves the channel as long as every
\* process keeps to its second: the first process that starts has the worker.
OneWorkerSendsNothing ==
    workers = 1 /\ ~overran =>
        \A r \in Runs : stage[r] \notin {"sinking", "sent"}

\* When processes hold all workers nothing goes in or out, neither commands nor
\* samples, until one of them panics or the agent is restarted.
StarvedForGood ==
    [][~FreeWorker =>
        \/ restarts' > restarts
        \/ \E i \in Intervals : process[i] = "running" /\ process'[i] = "panicked"
        \/ /\ ~FreeWorker'
           /\ fetched' = fetched
           /\ At("sent")' = At("sent")
           /\ \A r \in At("queued") : stage'[r] = "queued"]_vars

\* With more workers than intervals the jobs get rid of their samples: none
\* waits for the channel for ever.
SamplesGetOut ==
    \A r \in Runs :
        (stage[r] = "answered" /\ workers > Cardinality(Intervals))
            ~> stage[r] \in {"sent", "lost", "cancelled"}

\* With more workers than intervals the agent reads the whole topic, unless its
\* subscription fails or it meets a malformed URL.
CommandsGetIn ==
    (main = "running" /\ workers > Cardinality(Intervals))
        ~> (main /= "running" \/ handled = Len(topic))
============================================================================
