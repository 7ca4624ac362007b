# isok in TLA+

isok watches services: users describe checks (a URL, an interval), agents in every region run
them, and the results end up in a time series database. This directory holds TLA+ models of the
five Rust crates of the repository, the TLC configurations that check them, and TLAPS proofs.
Paths below are relative to the root of the repository.

## 1. The system

```
 user ──HTTP──> isok-proxy ──HTTP──> isok-api (one per region, PostgreSQL)
                (users and orgs,          │ Add / Remove commands
                 PostgreSQL)              v
                                     Pulsar topic of commands (compacted, kept)
                                          │ every agent reads all of it
                                          v
                                     isok-agent ──HTTP──> the services checked
                                          │ samples
                                          v
                                     Pulsar topic of samples (shared, durable)
                                          │
                                          v
                                     isok-offloader ──> aggregates (Pulsar), Warp10
```

| Component | State | Operations | What is hard | What makes it correct |
|---|---|---|---|---|
| agent: `JobScheduler` (`isok-agent/src/job.rs` 115-247) | a wheel of slabs per interval, two cursors, a stack of holes, a mutex | `new`, `add_job`, `remove_job`, its process | the process and the command thread meet at the mutex; cursors wrap; interval 0; panics with and without the lock | each job runs once per lap, the load is even, nobody else's job is touched |
| agent: `JobsHandler` (`job.rs` 251-336) | check → location of its job, interval → scheduler | `add_check`, `remove_check` | locations have to stay right over reuse of slots and slab positions; Add delivered twice | exactly the wanted checks have a job |
| agent: command loop (`main.rs`, `pulsar_client.rs`) | a subscription of its own, made at every start | acknowledge, then handle | crash in between, acknowledgement lost, topic compacted while it reads | an agent that has read everything runs what was announced |
| agent: runtime (`main.rs`, `magic_pool.rs`, `http.rs`, `pulsar_sink.rs`) | worker threads, a channel of 512, a pool of clients | run a job, send a sample | processes that never yield take the workers; a panic ends the main thread and not the program | with workers enough samples get out and commands in; no sample is doubled |
| api: check handlers (`isok-api/src/api/checks.rs`, `db.rs`, `pulsar.rs`) | rows of `checks`, one producer behind a lock | create, delete, change kind / interval / latency, list, get | racing handlers, dropped handlers, row and command not atomic | the topic tells of a check in order and once |
| offloader (`isok-offloader/src/pulsar_source.rs`, `http/`) | broadcast ring, aggregate buffers, position of each sink | source, aggregator, warp10 | slow sinks are overrun; acknowledged before processed | aggregates are right, every sample is accounted for |
| proxy: users and organizations (`isok-proxy/src/api/users.rs`, `organizations.rs`, `db.rs`) | users, organizations, memberships | 5 organization calls, 2 user calls | several statements per handler without transaction or lock | who can become a member of what; no half-made changes but the known ones |
| proxy: routing (`isok-proxy/src/utils.rs` `proxy`, `api/checks.rs`) | none but the list of regions | create, update, delete, get_one, get_all | regions fail, answer late, or act after they were given up | an answer means what it says |
| proxy: accounts and authentication (`api/users.rs`, `auth.rs`, `middlewares.rs`, `db.rs`) | rows of users, tokens handed out, the key of the process | log in, the middleware, changes of name, address and password, deletion | a row is read, and written by a later statement; tokens have no end | owners can log in, only a password that was held counts, deleted is deleted |
| proxy: configuration (`config.rs`, `main.rs`) | three sources of settings and regions | merge, check, exit or serve | precedence of file, environment, command line | what is served is what the strongest source says |
| data (`isok-data`) | none | types of commands, samples, checks and conversions | the four time and duration types | what is sent is what is read |

The concrete hazards of this code, each with its line and the properties that watch it, are
listed under `hazards` in PROJECT.json.

## 2. Modules

| Module | Models | Checked by |
|---|---|---|
| `JobScheduler` | operators on one wheel, one per method of the Rust type | through `JobsHandler` |
| `JobsHandler` | one agent's checks and schedulers, commands interleaved with processes | `MCJobsHandler` |
| `ActiveChecks` | abstract: the checks wanted, the jobs a Remove can reach and the orphans, the intervals that stopped, whether commands are still handled | as a property of `JobsHandler` and of the agents of `CheckCommands` |
| `JobsHandlerPromise` | the refinement mapping from `JobsHandler` to `ActiveChecks` | `MCJobsHandler` |
| `JobsHandlerProofs` | theorems about all four, the refinement included | TLAPS |
| `AgentRuntime` | worker threads, processes, jobs, the pool of clients, the channel, the sink | `MCAgentRuntime` |
| `AgentRuntimeProofs` | theorems about it | TLAPS |
| `CheckCommands` | API handlers, database, producer lock, command topic, agents | `MCCheckCommands` |
| `CheckCommandsProofs` | theorem about the order of commands, and what each announcement goes back to | TLAPS |
| `CheckAgentsProofs` | theorems about what agents run, and that each keeps the promise of `ActiveChecks` | TLAPS |
| `Offloader` | source, broadcast channel, aggregator, warp10 sink | `MCOffloader` |
| `SampleDelivery` | abstract: what agents and readers of Warp10 may expect of the offloader | as a property of `Offloader` |
| `OffloaderProofs` | theorems about aggregates and acknowledged samples, the refinement included | TLAPS |
| `ProxyOrganizations` | users, organizations, memberships, handlers statement by statement | `MCProxyOrganizations` |
| `ProxyOrganizationsProofs` | theorems about members and the two dead ends | TLAPS |
| `ProxyConfig` | operators: how the three sources become a configuration, and what it should be | through `ProxyAccounts` |
| `ProxyAccounts` | the rows of users, tokens, logins, changes, and the process that is started with a configuration | `MCProxyAccounts` |
| `ProxyAccountsProofs` | theorems about the two | TLAPS |
| `CheckRouting` | the proxy's search for the region of a check | `MCCheckRouting` |
| `CheckRoutingProofs` | theorems about what an answer means | TLAPS |

Definitions named `..._<fault>` with a comment that begins `MUTANT` belong to no model: each is a
plausible bug, put in the place of the definition after it to show that a property notices
(section 3). The correspondence of definitions and source lines is `map` in PROJECT.json.

### JobScheduler and JobsHandler
A scheduler is a record with the fields of the struct, plus `time_cursor` (a local of its process),
`poisoned` (the mutex) and `process`. `add_check` and `remove_check` hold the mutex for all they do
to a wheel, and the process holds it for a whole turn, so each is one action (`process(f)` is one
turn of scheduler `f`). A new scheduler spawns its process before `add_job` takes the lock, so the
process may win, and win again: `SchedulersFor` lets it take any number of turns first, the last of which may overrun. The slab is external; it may give any vacant position.
`process(f)` may overrun its second: `wait - elapsed` then panics, outside the lock, and nothing
restarts the process. On a wheel of range 0 both `add_job` and the process index out of bounds with
the lock held, which poisons it; the process of a poisoned wheel goes on without running anything (`IdleTick`), and may overrun like
any other. `fresh` and `idle` are history that `PunctualRuns` needs.
The commands' thread panics in `add_job` (range 0, if it gets the lock before the process, `IndexPanic`) or on an address that is a
`Uri` and not a `Url` (`UrlPanic`, with or without the scheduler it may have made before), while the processes go on: they never yield,
and the runtime's shutdown waits for them.

`ActiveChecks` keeps whether commands are still handled (`listening`), the checks that are `wanted`, the jobs a Remove can reach
(`active`) and those none can any more (`orphans`), and the intervals whose jobs stopped for good (`stopped`), which those of a new interval may have
done before its first job is there.
`KeepsPromise` maps the table of checks and the wheels to them: a job is active if the location of its check leads to its place,
and an orphan otherwise. It holds for every command, an Add that comes again included: that one makes a second job and orphans
the first, which then runs for ever, also after a Remove. That an Add orphans exactly the job it replaces, and that
nothing else does, is what the refinement says; `NoOrphans` (section 5) that there are none if no Add comes again.

### AgentRuntime
The main thread (`main_process`, under `block_on`) is none of the runtime's workers; it takes commands that the Pulsar client's tasks have fetched, and those
tasks need a worker, as does the sink. So does the process of a scheduler, which sleeps its thread instead of
awaiting: once polled it keeps the worker (`process[i] = "running"`, and `FreeWorker` says that one is left) until it panics (`overrun`). What such a
process starts runs on the scheduler's own pool of threads: `execute_http` takes a client (`MagicPool::get`, `CapacityForGet`), `run` ends
the request, `send` waits for room in the channel with the client still in hand; `recv` and `send_non_blocking` are the sink's loop.
`run` is never forced, since no request has a time limit.
`handle_command` gives a new interval its process and then panics on an address that is a `Uri` and not a `Url`: that process has no jobs
(`HasJobs`), takes a worker and holds up the shutdown like any other. `subscription_fails` returns from `main_process`: either
way the runtime is dropped (`shutdown`), which waits for the processes (`exit`). `restart` starts over with a new subscription.
`wheel` is the order in which the runs of jobs were started, and `overran` is history; where a job
sits on its wheel is the matter of `JobsHandler`, and here any process with jobs may start a run at any time. The topic is fixed: what a Remove and compaction change of it is the matter of
`CheckCommands`. `overrun` cancels the process's runs at once; those its pool had begun may get on a little first (the pool is external), which
comes to the overrun being later.

### CheckCommands
A request is a handler of the API with a program counter `pc`: `called`, `locked`, `stored`, and an
end. `lock_pulsar_client`, `insert_check`, `delete_check`, `send_command` are its steps; the changes
of kind, interval and latency are one statement without lock or command (`change_check_interval`
stands for the three, interval being what the agent would see). `abandon` drops a handler at an
await: axum drops the future when the caller (the proxy, after 15 seconds) goes away, and a restart
of the API is an `abandon` of every handler. `lose_command` is a producer error, only logged.
The topic is a sequence; `horizon` is how far it was compacted, per check the last command wins; an
agent reads with `read_compacted` from the earliest message on a subscription with a random name,
made at every start, so `restart` begins again at the beginning. `receive` acknowledges (the result is
dropped, so it may be lost) and `handle_command` then handles; `reconnect` redelivers what was not
acknowledged. `panic` is the end of the thread that handles commands, on a malformed address or on interval zero while that
interval's lock is not `poisoned`; what the agent runs stays until it is restarted, and then it meets the same command, as long as
compaction has not taken it off the topic (`NothingBehindMalformed`). An agent's wheels are abstracted: `tracked` is
the table (check → interval of the job it leads to), `orphans` are the jobs that repeated Adds left behind. This
abstraction is `ActiveChecks` again: `Table(a)` maps an agent to it, and `AgentsKeepPromise` says that between two starts
an agent makes only steps of `ActiveChecks`. So both ends meet: `JobsHandler` implements it, and the pipeline uses no more
of it. The workers an agent needs to read anything at all, and failing subscriptions, are the matter of `AgentRuntime`.

### Offloader
`sent` is what the source broadcast since the process started, and each sink has the position it
reads next. The ring keeps the last `Capacity` samples: a receiver behind that gets `Lagged`. The
aggregator's `while let Some(..) = recv().await.ok()` ends on it, and the task with it; warp10's loop
is inside another one and goes on at the oldest sample. `aggregator_recv` is the whole body of the
loop up to the await of the send, `aggregator_send` the rest. `restart` can come at any point; the
subscription is durable, so the broker delivers what was not acknowledged. When the subscription ends
(`subscription_ends`, where the constant `MayEnd` allows it) `try_next` gives nothing any more and the outer loop spins. `published` and `fates`
are history. `ClassCodes`, what an aggregate's counts are compared to, does not use the model's `StatusClass`.
Left out: a message of a valid form and with fields that `CheckMessage::into` cannot convert (`isok-data/src/pulsar_messages.rs:118`), which panics the source and
which no agent of this repository sends, and copies the consumer has prefetched before a reconnection and that it hands out after the first copy was acknowledged (the consumer is external).

`SampleDelivery` is the promise without source, connection and channel: samples are `produced`, taken into one sequence
`ahead` of Warp10, and leave it at its front, stored or refused one by one, or overwritten down to the last `Capacity`, or all
lost in a crash; the broker may be told of a sample (`done`) only once it is ahead or has had its end.
`KeepsDelivery` maps `Offloader` to it: `Ahead` is the sample warp10 is posting followed by what it has yet to read of
`sent`, and a sample that cannot be read is never produced.

### ProxyOrganizations
Every handler is a sequence of SQL statements, and each statement is an action: `authenticate` (the
middleware's query of the user), `get_user_organization`, `is_owner` (on the value read before),
`is_user_in_organization`, then the write. Between two of them any other handler may run. A user and
the organization of type `user` it owns are made by `insert_user`. `delete_user` and
`delete_self_organization` are the two statements of `DbHandler::delete_user`, and `give_up` is the
second one failing or never being made. Changes of name, email and password touch nothing that
membership depends on; they are in `ProxyAccounts`. The reads are left out.

### ProxyConfig and ProxyAccounts
`ProxyConfig` has one operator per function of `config.rs`: `from_file`, `from_env`, `from_cli`, `merge`, `merge_apis_config`,
`to_config`, and `Resolve` for the part of `main` that calls them. `SettingIsStrongest` and `RegionsAreStrongest` say what the
result should be in terms of the sources and not of the merges. A source that cannot be read or parsed is `Unreadable`.

In `ProxyAccounts` the program is launched in some way, resolves its configuration, and serves or exits (`start`,
`serve`); `stop` kills it and its requests, while `rows` and `tokens` stay. A token is a pair of a user and the key that signed it; the middleware
(`authenticate`) admits a pair with the key of this process if the user is live. It reads the row, and the handler's
one statement comes later: `rename_user`, `change_user_email`, `change_user_password`, `delete_user`. A login is
`get_user_password` (the live row of an address) and then `login` (the comparison, and the token). Every statement has the
conditions of its SQL: `update_user_password` is the one that does not look at `deleted_at`. A hash
stands for the password it was made of, what a validator accepts is a constant set, and `since`, `answer` are history.

### CheckRouting
A request of the proxy asks one region at a time (`turn`, over the fixed but arbitrary order of the
HashMap in `apis`). `<<request, region>>` in `underway` is a request that the region has not worked
on yet; it is answered, with an error also where the region has done it and only the connection was lost (`Replies`). It stays there when the proxy's 15 seconds are over (`timeout`) or the caller hangs up
(`hang_up`), because the region may still act on it. `refuse` is a region that cannot be reached or whose database fails first; `RegionStep` is the API's whole handler:
`change_check` answers Ok also when its UPDATE finds no row, since `execute` reports no missing row;
`delete_check` and `get_check` answer NotFound. The three changes are one operation here, and what the proxy demands of the caller (`api/checks.rs`) is left out:
it comes before anything is asked of a region.

## 3. What the runs check

Every property also has a mutant in PROJECT.json: a bug in one definition that makes TLC report the
property violated in the same run.

| Run | Instance | States | Shows |
|---|---|---|---|
| `redelivery` | 3 checks on one wheel, one more of interval 0, one more malformed, adds repeated | 1.3 M | `LocationIntegrity`: the location of every tracked check leads to its own job. `Balanced`: slots differ by one job at most. `PunctualRuns`: once per lap, whatever is added or removed |
| `promise` | checks on wheels of 2, 1 and no slots, one malformed, adds repeated with the same and with another interval, one job to a slot | 48 k | `KeepsPromise`: `JobsHandler` implements `ActiveChecks` |
| `dummy_jobs` | the wheel of `redelivery`, no repeated adds | (stops early) | violation, see section 6 |
| `commands_faults` | 6 requests on 2 checks (one of interval 0), 1 agent; one lost command, acknowledgement and restart each | 0.6 M | `TopicTellsOneLife`: one Add, then one Remove at most. `AgentsRunWhatIsAnnounced`: a caught-up agent runs what the topic says, with the two exceptions spelled out in the property. `AgentsKeepPromise`: between two starts an agent does what `ActiveChecks` says |
| `commands_fair` | 4 requests, one check malformed, 2 agents, one restart each, no losses | 49 k | `LockReleased`, `AgentsConverge`. `NothingBehindMalformed`: what is announced behind a malformed check reaches no agent, and no later life of one, until that check is deleted and compacted away |
| `offloader_aggregates` | 5 kinds of sample with status codes at the bounds of the classes, 3 samples, ring of 1 | 5.3 M | `AggregatesAreFirstAnswers`: what is kept or sent is the aggregate of the first answer of each agent since the start, without a gap |
| `offloader_fair` | 1 kind of sample, 2 samples, two restarts, one lost acknowledgement, any number of reconnections, ring of 1, posts that hang, a subscription that may end | 0.2 M | `KeepsDelivery`: the offloader implements `SampleDelivery`. `SamplesSettle`: every sample comes to an end, if posts do and the subscription lasts. `SourceDrains`: sinks that hang do not hold up the source |
| `organizations` | 2 users, 1 organization, 2 handlers at a time | 0.5 M | `NoMembersOfSelfOrganizations`, `OnlyInvitationsAdd`, and the dead ends: `StuckForGood` (an organization without a live owner never has one again), `HalfDeletedForGood` |
| `routing_races` | create, change, two deletes; two regions in either order | 1.9 M | `OkIsDone`: an Ok to a create or delete was made, by that request alone. `ChangesMadeWhereAnswered`: a change answered Ok by the check's own region was made, one answered by another only if the own region had been given up or had failed after it wrote |
| `routing_fair` | create, delete, get; regions that may never answer | 27 k | `NotFoundIsTrue`, `RequestsAnswered` |
| `agent_runtime` | 2 intervals, `JOBS` from 1 to 3, a channel and a pool of 1, 3 runs of jobs, 1 restart, topics with and without a malformed address | 0.5 M | `SamplesInOnePlace`: the channel holds each sample that was sent and not received once, and no more than it has places for; the sink has one at most. `ClientsSuffice`: `get` finds a client after growing. `OneWorkerSendsNothing`, `StarvedForGood`: what happens when processes hold all workers. `SamplesGetOut`, `CommandsGetIn`: with more workers than intervals all goes on |
| `accounts` | 2 users, 2 handlers at a time, valid and invalid inputs, 2 keys, 60 launches | 0.2 M | `OwnersCanLogIn`: no account is locked out by what it was changed to. `OkIsDoneOrGone`: an Ok to a change is true, unless the user was deleted meanwhile. `OnlyHeldPasswordsCount`: tokens and new passwords are had only with a password the user has had since the request read the row. `DeletedIsFinal`. `ServesStrongest`: precedence of the sources |

Why the bounds are enough. *Wheels:* three checks on a wheel of two slots fill a slot twice, wrap both cursors and
reuse slots and positions; for the promise, one job to a slot is enough for a job and the orphan it leaves, on one wheel or on two (`Positions`
bounds the jobs that pile up: an Add that finds its slot full is not taken). The theorems of section 5 cover any size. *Commands:* a create, two
deletes by the owner and one by a stranger, and a change of one check, with a create of another between them, are all
the pairs of handlers that can meet on a check; three commands can be compacted in every way that matters. Two checks that are created and deleted put
each before and behind the other on the topic, with the malformed one's Remove compacted or not. *Offloader:* with a ring of one, every second
sample overruns a slow sink; three samples are a first answer, a repeated one, and one lost between. For the delivery two samples do, since
each can be broadcast more than once: a sink then misses several at a time, and a crash finds a sample stored, one in the channel and one in the source's hands.
*Organizations:* a handler's statements are interleaved with those of one other at a time, and with two users
each can be caller and target. *Regions:* the check's own region comes first or second, so there is a region
without the check before it and after it. *Runtime:* the number of workers is below, at and above the number of
processes, which is all that matters of it; three runs of jobs are one in the sink, one in the full channel, and one in front of it with a client of
the pool, so the pool has to grow. *Accounts:* two handlers are two changes of one user, a change and a deletion, a login and a
change, or two users after one address; the launches are every mix of a file (complete, without token, without
APIs, unreadable, none), an environment (empty, full, unreadable) and a command line (empty, with a key and a URI, with what is no key, unreadable).

`MaxDropped`, `MaxLostAcks`, `MaxRestarts`, `MaxSamples`, `MaxRuns` and the set of requests bound what would be
unbounded. `CHECK_DEADLOCK FALSE` is there because all requests are done, all samples settled, all runs and restarts used up or all
processes panicked at the end of some behaviours, which is where a bounded model stops. `accounts` uses the symmetry of `Handlers`
and states no liveness. `OneWorkerSendsNothing` speaks of an agent none of whose processes has panicked, `StarvedForGood` of any.

### Fairness
- `CheckCommands!FairSpec`: every handler takes its next step (the database answers, and tokio's mutex queues its
  waiters, of which there are finitely many here), and agents read and handle, until they panic: that an agent has a worker left to
  read with is assumed here, and looked into in `AgentRuntime`. Run without lost commands and
  acknowledgements, since the code sends nothing again; agents do restart, and may panic on the malformed check, which is the exception in
  `AgentsConverge`.
- `Offloader!FairSpec`: the source and the two sinks are tasks of a multi-threaded runtime, which polls what is ready: the source
  goes on, and warp10 reads on when it is not posting. Nothing is assumed of a post (`warp10.rs:75-80` sets it no limit) or of the sending of an aggregate, so
  that `SourceDrains` holds with both hanging; `SamplesSettle` has as its premise that no post hangs for ever. Nor is anything assumed of
  the agents, of reconnections, of the subscription or of restarts.
- `CheckRouting!FairSpec`: the proxy's own steps only, its timer included. Regions may never answer.
- `AgentRuntime!FairSpec`: the tasks that are ready while a worker is free are polled (`receive`, the sink), the main thread
  handles what was fetched, the end of the runtime is noticed by a free worker, and the channel's permits go to the senders in turn, so each `send`
  is fair by itself. Nothing is assumed of requests, subscriptions, new processes, panics, or restarts. The two liveness properties
  are about `workers > Cardinality(Intervals)`: with fewer the processes may hold all of them, which is `StarvedForGood`.
- `JobsHandler`, `ProxyOrganizations` and `ProxyAccounts` state no liveness: a scheduler's process that panicked never comes back, and no handler
  of the proxy's database waits for another.

## 4. What the models found true that one may not expect
These are stated as properties or as the exceptions in them, not as disagreements, since no text in the repository says
otherwise.
- A change that the proxy answers Ok is lost whenever a region without the check is asked first (`ChangesMadeWhereAnswered`).
- A change of interval, kind or latency reaches the database and never an agent (`AgentsRunWhatIsAnnounced`).
- A deleted check whose delete timed out is told as NotFound (`NotFoundIsTrue` has to exclude it).
- An aggregator that is overrun once stops until the process is restarted (`SourceDrains` holds without it).
- An agent with the default `JOBS=1` sends nothing once it has a check, and reads no more commands than it had fetched by then, until a process overruns its second
  (`OneWorkerSendsNothing`, `StarvedForGood`). The number of distinct intervals has to stay below `JOBS`.
- A check whose address is a `Uri` but not a `Url` ends the main thread of every agent that reads it, and hides the commands behind
  it, also from a restarted one, until it is deleted and the topic compacted (`NothingBehindMalformed`). The program does not exit then: it waits for processes that never end.
- Of two changes of a password under way at once, both with the old one, both are answered Ok and the first is lost (`OnlyHeldPasswordsCount` has `since` for it).
- A change to a user who is deleted meanwhile is answered Ok and not made: an UPDATE without a row is no error for sqlx, and the
  mapping of `RowNotFound` to 404 never applies (`OkIsDoneOrGone`). The password is written nevertheless (`DeletedIsFinal`).
- The address of a deleted user cannot be used again (`DeletedIsFinal`).
- The APIs of the command line are named by their URI and override none of the file or the environment, unless one is named like the URI
  (`RegionsAreStrongest` has the exception); a file without `apis` makes the program
  exit even if the other sources have some (`from_file`).
- An organization can lose its last owner, and a half-deleted user's organization stays (`StuckForGood`, `HalfDeletedForGood`).

## 5. What is proved
TLAPS checks the theorems for every value of the constants allowed by the named assumptions, which sit in the modules that declare
the constants: `PositionsAssumption`, `CheckOutputsAssumption`, `RedeliveryAssumption` (agent's jobs), `RuntimeAssumption`,
`RequestsAssumption`, `MalformedAssumption` and `BoundsAssumption` (commands), `OffloaderAssumption`, `OrganizationsAssumption`,
`ConfigAssumption` and `AccountsAssumption`, `RoutingAssumption`. All invariants, all action properties and the three refinements
that the passing runs check are proved. The proofs need no fairness, so they are about `Spec`.

`JobsHandlerProofs`
- `LocationsCorrect`: `Spec => [](TypeOK /\ LocationIntegrity)`. The two are inductive together: a
  location stays right only if `PutJob` inserts at a vacant position of an existing slot, which is a matter of the types of cursors and stack.
- `WheelsCorrect`: `Spec => [](Balanced /\ PunctualRuns)`, with `WheelsInv`, the conjunction of these and the previous
  invariant. That the numbers of jobs differ by one at most is not inductive; what is: the jobs of a slot and its entries on
  `empty_slot` add up to its peak (`SlotPeak`), and the peaks differ by one, at `fill_cursor`. Lemmas say how `PutJob`,
  `RemoveJob` and `Tick` change `Holes` and `TurnsUntil`.
- `PlacesKept`: `Spec => JobsStayPut`, an action property, from the same invariants.
- `PromiseKept`: `Spec => KeepsPromise`, the refinement of `ActiveChecks`, with repeated Adds, malformed addresses and panics. The
  invariant is `PromiseInv`, that is `IInv` (the types and `LocationIntegrity`) and `PoisonSeen`: while commands are handled, the process of a
  poisoned wheel has panicked, which is what `Refuse` says of interval zero when `LostJob` meets the poison. The lemmas say what each command does to the
  places that hold a job and to the places the table leads to: an Add takes one vacant place and turns the one the check had into
  an orphan's (`AddPromise`), a Remove vacates the one its check's location leads to and no other (`RemovePromise`), and a turn of a process moves
  nothing (`ProcessPromise`).
- `NoOrphans`: `~Redelivery /\ Spec => [](Places \subseteq Located)`: without repeated Adds the table leads to every job there is.
- `PlacesKept` is not the property of a run any more: `KeepsPromise` says more.

`AgentRuntimeProofs`
- `RuntimeCorrect`: `Spec => [](TypeOK /\ SamplesInOnePlace /\ ClientsSuffice)`; `OneWorkerIsMute`: the other invariant;
  `StarvedStays`: `Spec => StarvedForGood`. The invariant `RuntimeInv` adds to the properties `SamplesNeedProcess` (with one worker and no panic so far, a run
  that waits for its answer, for the channel or in it has a process beside it that holds the worker, so the sink never has its turn). `ClientsSuffice` rests on the finite set of runs under way growing by one at most, exactly where `CapacityForGet` looks.

`CheckCommandsProofs` and `CheckAgentsProofs`
- `TopicOrder`: `Spec => []TopicTellsOneLife`. The strengthening is `HandlersTypeOK /\ OneHandlerAtATime /\
  LifeSoFar`: at most one handler is between lock and command, and its row and the topic agree on what it
  is about to say. Without the lock a Remove could overtake its Add, which the mutant `insert_check_unlocked` shows.
- `CommandTypesCorrect` and `AgentsCorrect`: `Spec => []AgentsRunWhatIsAnnounced`. `StoryInv` carries, from the API's side, what was
  announced, what it goes back to, and what was lost. `AgentsInv` adds `Knows(a, c)` for every agent and check no acknowledgement of which was lost:
  a command the broker will not deliver again is acknowledged or compacted away, an Add is never handled after the Remove of its check, and the table
  has a check exactly if its Add was handled and its Remove was not. It is delicate because the agent acknowledges before it
  handles: the command in its hands counts as acknowledged and not as handled.
- `AgentsArePromised`: `Spec => AgentsKeepPromise`, for every agent: handling a command is one step of `ActiveChecks` (`HandlePromise`), a
  panic is its `Panic`, and a step of anything else leaves the agent as it was or starts it anew. With `PromiseKept` it ties the two models of an
  agent together: what `CheckCommands` assumes of the table and the wheels is what `JobsHandler` does.
- `MalformedHides`: `Spec => []NothingBehindMalformed`. To `AgentsInv` it adds `HeldUp` for every agent: a malformed Add it has read or acknowledged
  is the command in its hands or one that compaction had superseded, and the checks it runs, and the command it holds, lie behind no other.

`OffloaderProofs`
- `OffloaderTypes`, `AggregatesCorrect`, `NothingAcknowledgedIsForgotten`: invariants of the offloader, from `OffloaderInv`.
  Its half `AccountsInv` says that what the source has told the broker, or is about to, has had its fate or is still ahead of warp10; the other, `AggregatorOK`,
  that each buffer is the aggregate of the first answers up to the position the aggregator has read, with their number bounded by the number of agents. The lemmas about
  cardinalities say how one more first answer changes the set of responders and the count of its status class. No run checks the last of the three by itself
  any more, as it follows from `KeepsDelivery`.
- `DeliveryKept`: `Spec => KeepsDelivery`, the refinement of `SampleDelivery`. To `AccountsInv` it adds `SourceHolds`: the sample the source
  holds can be read, and the broker has not heard of it, whatever is delivered again meanwhile. There is one lemma for each kind of step; those about
  the sequence rest on three lemmas about what is left of a sequence from a position on (`SuffixIs`, `SuffixOfAppend`, `SuffixOfSuffix`).

`ProxyOrganizationsProofs`
- `MembersCorrect`: `Spec => [](TypeOK /\ NoMembersOfSelfOrganizations)`. The writes no longer look at the organization, so
  the strengthening is `ReadSoFar`: a handler past `get_user_organization` is in a call about an organization that exists and is not
  of type user, as its caller has a row in it.
- `MembersAreInvited`, `HalfDeletedStays`, `StuckStays`: the action properties of the run, from the same invariant and lemmas that say
  which steps write a membership (`MembersWritten`), end an organization (`OrganizationsEnd`), change a user (`UsersLive`)
  and move a handler (`HandlersMove`).

`ProxyAccountsProofs`
- `AccountsCorrect`: `Spec => [](TypeOK /\ OwnersCanLogIn)`; `OkIsTrue`; `CredentialsCount`, `DeletedStays`: the action properties. The
  invariant is `AccountsInv`: to the properties it adds `SnapshotsHeld`, that the password a handler has read is one
  the user has had since.
- `ServedIsStrongest`: `Spec => ServesStrongest`, for any settings, regions and launches: two merges and the defaults come to
  the precedence that `SettingIsStrongest` and `RegionsAreStrongest` state.

`CheckRoutingProofs`
- `HandlersAskInTurn` (`TypeOK`), `OkIsBelieved` (`OkIsDone`), `NotFoundIsBelieved` (`NotFoundIsTrue`), `ChangesAreWhereAnswered`
  (`ChangesMadeWhereAnswered`), for any number of regions and requests. The invariant `RoutingInv` has a part per request: it is under way only to regions that have had their turn, and has a reply only
  from the one whose turn it is (`InTurn`); a row is made by one create and deleted by one delete (`MadeOnce`, `DeletedOnce`); a delete or read that
  has passed the check's own region found it deleted there, or was refused or given up (`Found`); a change that was or can still be made is
  waiting for that region, was answered by it, or has given it up (`Changed`).

Left to TLC: the liveness properties `LockReleased`, `AgentsConverge`, `SamplesSettle`, `SourceDrains`, `RequestsAnswered`, `SamplesGetOut`
and `CommandsGetIn`, since fairness and ENABLED are beyond the prover.

## 6. A disagreement
`Job::from` makes a dummy job of every check that is not http (`isok-agent/src/job.rs:119`), so the checks of
kind dns, icmp and tcp that the API accepts are run and only logged. The comment on `execute_dummy` (`job.rs:50`) says
that it is for tests only. Run `dummy_jobs` adds such a check and runs it.

## 7. What is not modelled
- Producer retries inside the Pulsar library; the wording of answers and logs; serialisation. Malformed samples
  are the `valid` field of `Offloader`, malformed addresses the `valid` field of `AgentRuntime`.
- Reads (`list_checks`, `get_all`, the lists and gets of users and organizations), which change nothing and relate no two pieces of state.
- The cryptography of passwords and tokens, and the regular expressions of the validators: `ProxyAccounts` keeps what they decide, not how.
- The start-up of the API server and of the offloader, the errors' mapping to status codes except where a property says
  so, request headers and bodies. `isok-proxy` reads a token for each region and never uses it.
- The conversions of `isok-data` between input, row and output types. They are field by field; a command or sample is a record here.
- Kinds icmp and tcp of the agent, whose files have no code that runs, and `logout_handler`, which is `todo!()` and has no route.

## 8. Plan
Done, in this order: `JobScheduler`, `JobsHandler`, `ActiveChecks` and their proofs; `CheckCommands` and its proof;
`Offloader`; `ProxyOrganizations` and its proofs; `CheckRouting`; `AgentRuntime` and its proofs; `ProxyConfig`, `ProxyAccounts` and
their proofs; the proofs of `CheckRouting`, `Offloader` and the agents of `CheckCommands`; `ActiveChecks` with repeated Adds and panics, as what
the agents of `CheckCommands` do too; `SampleDelivery` and its proof. Left:
1. The aggregator compared to an abstract specification of the aggregates a reader sees, in place of the invariant on them.
2. `AgentRuntime` composed with the wheels of `JobsHandler`, so that the runs are those of a lap.
3. Liveness as theorems, if a prover for fairness is at hand.
