--------------------------- MODULE CheckCommands ----------------------------
(***************************************************************************)
(* How a check gets from the API to the agents.                            *)
(*                                                                         *)
(* A handler of isok-api (src/isok-api/src/api/checks.rs) that creates or  *)
(* deletes a check takes the lock of the Pulsar producer, writes the row,  *)
(* sends the command and releases the lock; it may be dropped at every     *)
(* await, because its client went away or the server stopped.  A handler   *)
(* that changes a check writes the row and sends nothing.                  *)
(*                                                                         *)
(* Every agent (src/isok-agent) reads the whole topic of commands from its *)
(* start, acknowledges a command before it handles it, and keeps what it   *)
(* tracks in memory only.  Of its handler this module keeps what           *)
(* JobsHandler promises (ActiveChecks): the checks it tracks, the jobs it  *)
(* lost track of, and the commands that end it.  That the processes of an  *)
(* agent leave its main thread a worker, and that its subscription does    *)
(* not fail, is the matter of AgentRuntime: without either an agent is one *)
(* that takes no step here.                                                *)
(***************************************************************************)
EXTENDS Integers, Sequences, FiniteSets

CONSTANTS
    Requests,      \* calls of the API: [nr, op, check, owner, interval] records
    Malformed,     \* the checks of kind http whose address is a Uri, but not a Url
    Agents,
    None,
    MaxDropped,    \* bound: commands that are never sent
    MaxLostAcks,   \* bound: acknowledgements of each agent that are lost
    MaxRestarts    \* bound: restarts of each agent

Checks == {r.check : r \in Requests}

\* op is "create", "delete" or "change"; owner says whether the organization of
\* the path owns the check.  The database names a check when it stores it, so a
\* check has one create; create_check refuses a foreign one before it does
\* anything.
ASSUME RequestsAssumption ==
    /\ \A r \in Requests :
        /\ r.op \in {"create", "delete", "change"}
        /\ r.owner \in BOOLEAN
        /\ r.interval \in Nat
        /\ r.op = "create" => r.owner
    /\ \A r, s \in Requests :
        r.op = "create" /\ s.op = "create" /\ r.check = s.check => r = s
    /\ None \notin Requests

ASSUME MalformedAssumption == Malformed \subseteq Checks

ASSUME BoundsAssumption ==
    MaxDropped \in Nat /\ MaxLostAcks \in Nat /\ MaxRestarts \in Nat

VARIABLES
    pc,        \* request -> where its handler is
    holder,    \* the request whose handler holds the producer's lock, or None
    rows,      \* check -> its row: [state, interval]
    topic,     \* the commands sent: [kind, check, interval] records
    horizon,   \* the broker has compacted the topic up to here
    dropped,   \* history: the requests whose write was made, and command not sent
    agents     \* agent -> its state

vars == <<pc, holder, rows, topic, horizon, dropped, agents>>

Add(check, interval) == [kind |-> "Add", check |-> check, interval |-> interval]
Remove(check) == [kind |-> "Remove", check |-> check, interval |-> 0]

Commands == [kind: {"Add", "Remove"}, check: Checks,
             interval: {0} \cup {r.interval : r \in Requests}]

\* A job, as ActiveChecks knows it.
Job(check, interval) == [id |-> check, interval |-> interval]

\* The jobs a table leads to; there is none of interval zero.
JobsIn(t) == {Job(c, t[c]) : c \in {d \in DOMAIN t : t[d] > 0}}

\* MUTANT: the subscription starts with the commands sent from now on.
StartAgentAtLatest(starts) ==
    [cursor |-> Len(topic) + 1, acked |-> {}, inflight |-> 0, panicked |-> FALSE,
     tracked |-> [c \in {} |-> 0], orphans |-> {}, poisoned |-> FALSE,
     lost |-> <<>>, starts |-> starts]

\* A new subscription at the earliest command, and nothing in memory.
\*   cursor    the next command of the topic the broker will deliver
\*   acked     the commands the broker knows are acknowledged
\*   inflight  the command that was acknowledged and not handled yet, or 0
\*   panicked  the thread that handles commands has panicked
\*   tracked   the checks of JobsHandler's table, with the interval they run at
\*   orphans   the jobs that run, and which no location in the table leads to
\*   poisoned  the scheduler of interval zero is there, and its lock is poisoned
\*   lost      history: the checks of the acknowledgements that were lost
StartAgent(starts) ==
    [cursor |-> 1, acked |-> {}, inflight |-> 0, panicked |-> FALSE,
     tracked |-> [c \in {} |-> 0], orphans |-> {}, poisoned |-> FALSE,
     lost |-> <<>>, starts |-> starts]

Init ==
    /\ pc = [r \in Requests |-> "called"]
    /\ holder = None
    /\ rows = [c \in Checks |-> [state |-> "absent", interval |-> 0]]
    /\ topic = <<>>
    /\ horizon = 0
    /\ dropped = {}
    /\ agents = [a \in Agents |-> StartAgent(0)]

----------------------------------------------------------------------------
(* The handlers of isok-api.                                               *)

lock_pulsar_client(r) ==
    /\ pc[r] = "called"
    /\ r.op \in {"create", "delete"}
    /\ holder = None
    /\ holder' = r
    /\ pc' = [pc EXCEPT ![r] = "locked"]
    /\ UNCHANGED <<rows, topic, horizon, dropped, agents>>

\* MUTANT: the lock is held for the statement of its own only.
insert_check_unlocked(r) ==
    /\ pc[r] = "locked"
    /\ r.op = "create"
    /\ rows' = [rows EXCEPT ![r.check] = [state |-> "live", interval |-> r.interval]]
    /\ pc' = [pc EXCEPT ![r] = "stored"]
    /\ holder' = None
    /\ UNCHANGED <<topic, horizon, dropped, agents>>

insert_check(r) ==
    /\ pc[r] = "locked"
    /\ r.op = "create"
    /\ rows' = [rows EXCEPT ![r.check] = [state |-> "live", interval |-> r.interval]]
    /\ pc' = [pc EXCEPT ![r] = "stored"]
    /\ UNCHANGED <<holder, topic, horizon, dropped, agents>>

Deletable(r) == rows[r.check].state = "live" /\ r.owner

\* MUTANT: the command is sent whether or not a row was deleted.
delete_check_unchecked(r) ==
    /\ pc[r] = "locked"
    /\ r.op = "delete"
    /\ rows' = IF Deletable(r)
               THEN [rows EXCEPT ![r.check].state = "deleted"] ELSE rows
    /\ pc' = [pc EXCEPT ![r] = "stored"]
    /\ UNCHANGED <<holder, topic, horizon, dropped, agents>>

\* MUTANT: the lock is not released when there is no row to delete.
delete_check_keeping_lock(r) ==
    /\ pc[r] = "locked"
    /\ r.op = "delete"
    /\ IF Deletable(r)
       THEN /\ rows' = [rows EXCEPT ![r.check].state = "deleted"]
            /\ pc' = [pc EXCEPT ![r] = "stored"]
       ELSE /\ pc' = [pc EXCEPT ![r] = "not_found"]
            /\ UNCHANGED rows
    /\ UNCHANGED <<holder, topic, horizon, dropped, agents>>

\* The row is marked deleted if it is live and the owner's; otherwise the
\* handler answers NotFound, and the guard of the lock is dropped on the way.
delete_check(r) ==
    /\ pc[r] = "locked"
    /\ r.op = "delete"
    /\ IF Deletable(r)
       THEN /\ rows' = [rows EXCEPT ![r.check].state = "deleted"]
            /\ pc' = [pc EXCEPT ![r] = "stored"]
            /\ UNCHANGED holder
       ELSE /\ pc' = [pc EXCEPT ![r] = "not_found"]
            /\ holder' = None
            /\ UNCHANGED rows
    /\ UNCHANGED <<topic, horizon, dropped, agents>>

\* One UPDATE, no lock, no command; it answers Ok when there was no row, too.
change_check_interval(r) ==
    /\ pc[r] = "called"
    /\ r.op = "change"
    /\ rows' = IF rows[r.check].state = "live" /\ r.owner
               THEN [rows EXCEPT ![r.check].interval = r.interval] ELSE rows
    /\ pc' = [pc EXCEPT ![r] = "ok"]
    /\ UNCHANGED <<holder, topic, horizon, dropped, agents>>

\* The command carries the check as it was stored.
CommandOf(r) ==
    IF r.op = "create" THEN Add(r.check, r.interval) ELSE Remove(r.check)

\* PulsarClient::add_check and remove_check.  A handler dropped while it awaits
\* the receipt of a command is one that answered nothing after this step.
send_command(r) ==
    /\ pc[r] = "stored"
    /\ topic' = Append(topic, CommandOf(r))
    /\ pc' = [pc EXCEPT ![r] = "ok"]
    /\ holder' = None
    /\ UNCHANGED <<rows, horizon, dropped, agents>>

\* A failure to send is logged, and the handler still answers Ok; or the handler
\* is dropped between the write and the command.
lose_command(r) ==
    /\ pc[r] = "stored"
    /\ Cardinality(dropped) < MaxDropped
    /\ dropped' = dropped \cup {r}
    /\ pc' = [pc EXCEPT ![r] = "ok"]
    /\ holder' = None
    /\ UNCHANGED <<rows, topic, horizon, agents>>

\* A handler dropped before its write.
abandon(r) ==
    /\ pc[r] \in {"called", "locked"}
    /\ pc' = [pc EXCEPT ![r] = "abandoned"]
    /\ holder' = IF holder = r THEN None ELSE holder
    /\ UNCHANGED <<rows, topic, horizon, dropped, agents>>

----------------------------------------------------------------------------
(* The broker and the agents.                                              *)

\* Messages are keyed by check: compaction keeps the last one of each.
Superseded(i) == \E j \in i + 1 .. horizon : topic[j].check = topic[i].check

Deliverable(a) ==
    {i \in agents[a].cursor .. Len(topic) :
        i \notin agents[a].acked /\ ~Superseded(i)}

compact ==
    /\ horizon < Len(topic)
    /\ horizon' = Len(topic)
    /\ UNCHANGED <<pc, holder, rows, topic, dropped, agents>>

\* The next command is acknowledged; nothing looks at whether that worked.
receive(a) ==
    /\ agents[a].inflight = 0
    /\ \E i \in Deliverable(a) :
        /\ \A j \in Deliverable(a) : i <= j
        /\ \/ agents' = [agents EXCEPT ![a].cursor = i + 1,
                                       ![a].inflight = i,
                                       ![a].acked = @ \cup {i}]
           \/ /\ Len(agents[a].lost) < MaxLostAcks
              /\ agents' = [agents EXCEPT ![a].cursor = i + 1,
                                          ![a].inflight = i,
                                          ![a].lost = Append(@, topic[i].check)]
    /\ UNCHANGED <<pc, holder, rows, topic, horizon, dropped>>

\* MUTANT: no Add orphans a job.
handle_command_forgetting(a) ==
    LET m == topic[agents[a].inflight]
        t == agents[a].tracked
    IN  /\ agents[a].inflight # 0
        /\ ~agents[a].panicked
        /\ ~(m.kind = "Add" /\ m.check \in Malformed)
        /\ agents' = [agents EXCEPT
                ![a].inflight = 0,
                ![a].tracked =
                    IF m.kind = "Add"
                    THEN [c \in DOMAIN t \cup {m.check} |->
                            IF c = m.check THEN m.interval ELSE t[c]]
                    ELSE [c \in DOMAIN t \ {m.check} |-> t[c]],
                ![a].poisoned = @ \/ (m.kind = "Add" /\ m.interval = 0)]
        /\ UNCHANGED <<pc, holder, rows, topic, horizon, dropped>>

\* JobsHandler::add_check of a tracked check leaves its old job an orphan, and makes
\* no job for interval zero, where the scheduler's process had the lock before it;
\* remove_check of a check that is not tracked does nothing.
handle_command(a) ==
    LET m == topic[agents[a].inflight]
        t == agents[a].tracked
    IN  /\ agents[a].inflight # 0
        /\ ~agents[a].panicked
        /\ ~(m.kind = "Add" /\ m.check \in Malformed)
        /\ agents' = [agents EXCEPT
                ![a].inflight = 0,
                ![a].tracked =
                    IF m.kind = "Add"
                    THEN [c \in DOMAIN t \cup {m.check} |->
                            IF c = m.check THEN m.interval ELSE t[c]]
                    ELSE [c \in DOMAIN t \ {m.check} |-> t[c]],
                ![a].orphans =
                    @ \cup {Job(c, t[c]) : c \in {d \in DOMAIN t :
                                m.kind = "Add" /\ d = m.check /\ t[d] > 0}},
                ![a].poisoned = @ \/ (m.kind = "Add" /\ m.interval = 0)]
        /\ UNCHANGED <<pc, holder, rows, topic, horizon, dropped>>

\* Url::parse is unwrapped on the way to the job; the wheel of interval zero has no
\* slot, and its lock no poison yet if add_job is there before the process.
panic(a) ==
    LET m == topic[agents[a].inflight]
    IN  /\ agents[a].inflight # 0
        /\ ~agents[a].panicked
        /\ m.kind = "Add"
        /\ m.check \in Malformed \/ (m.interval = 0 /\ ~agents[a].poisoned)
        /\ agents' = [agents EXCEPT ![a].panicked = TRUE]
        /\ UNCHANGED <<pc, holder, rows, topic, horizon, dropped>>

\* The connection of the consumer is lost and made again: the broker delivers
\* what it does not know to be acknowledged once more.
reconnect(a) ==
    /\ ~agents[a].panicked
    /\ \E i \in 1 .. agents[a].cursor - 1 : i \notin agents[a].acked /\ ~Superseded(i)
    /\ agents' = [agents EXCEPT ![a].cursor = 1]
    /\ UNCHANGED <<pc, holder, rows, topic, horizon, dropped>>

restart(a) ==
    /\ agents[a].starts < MaxRestarts
    /\ agents' = [agents EXCEPT ![a] = StartAgent(@.starts + 1)]
    /\ UNCHANGED <<pc, holder, rows, topic, horizon, dropped>>

----------------------------------------------------------------------------
HandlerStep(r) ==
    \/ lock_pulsar_client(r)
    \/ insert_check(r)
    \/ delete_check(r)
    \/ change_check_interval(r)
    \/ send_command(r)

AgentStep(a) == receive(a) \/ handle_command(a) \/ panic(a)

Next ==
    \/ \E r \in Requests : HandlerStep(r) \/ lose_command(r) \/ abandon(r)
    \/ \E a \in Agents : AgentStep(a) \/ reconnect(a) \/ restart(a)
    \/ compact

Spec == Init /\ [][Next]_vars

\* The database answers, the tokio mutex queues its waiters, and the runtime
\* resumes a handler whose await is over; an agent goes on reading.
Fairness ==
    /\ \A r \in Requests : WF_vars(HandlerStep(r))
    /\ \A a \in Agents : WF_vars(AgentStep(a))

FairSpec == Spec /\ Fairness

----------------------------------------------------------------------------
(* Properties.                                                             *)

\* A handler is between its lock and its command exactly while it holds the lock.
OneHandlerAtATime ==
    \A r \in Requests : pc[r] \in {"locked", "stored"} <=> holder = r

TypeOK ==
    /\ OneHandlerAtATime
    /\ pc \in [Requests -> {"called", "locked", "stored", "ok", "not_found",
                            "abandoned"}]
    /\ holder \in Requests \cup {None}
    /\ rows \in [Checks -> [state: {"absent", "live", "deleted"}, interval: Nat]]
    /\ topic \in Seq(Commands)
    /\ horizon \in 0 .. Len(topic)
    /\ dropped \subseteq Requests
    /\ \A a \in Agents :
        /\ agents[a].cursor \in 1 .. Len(topic) + 1
        /\ agents[a].acked \subseteq 1 .. Len(topic)
        /\ agents[a].inflight \in 0 .. Len(topic)
        /\ DOMAIN agents[a].tracked \subseteq Checks
        /\ agents[a].orphans \subseteq [id: Checks, interval: Nat]
        /\ agents[a].panicked => agents[a].inflight # 0

\* The topic tells the story of a check in order and once: at most one Add, at
\* most one Remove, and no Remove before the Add.  What keeps it so is that the
\* lock is held from before the write until after the command: a check that is
\* listed can be deleted by another handler before its Add is sent.
TopicTellsOneLife ==
    \A i, j \in DOMAIN topic :
        topic[i].check = topic[j].check /\ i < j =>
            topic[i].kind = "Add" /\ topic[j].kind = "Remove"

Unsent(c, op) ==
    \E r \in Requests :
        r.check = c /\ r.op = op /\ (pc[r] = "stored" \/ r \in dropped)

\* What the topic says of a check, in terms of its row: a live row whose Add was
\* sent, or a deleted one whose Add was and whose Remove was not.
Announced(c) ==
    \/ rows[c].state = "live" /\ ~Unsent(c, "create")
    \/ rows[c].state = "deleted" /\ Unsent(c, "delete") /\ ~Unsent(c, "create")

CreationInterval(c) ==
    (CHOOSE r \in Requests : r.op = "create" /\ r.check = c).interval

AcksLost(a, c) == \E i \in DOMAIN agents[a].lost : agents[a].lost[i] = c

CaughtUp(a) == agents[a].inflight = 0 /\ Deliverable(a) = {}

\* An agent that has read what there is runs a check exactly if its row is live,
\* with two exceptions: commands that were not sent, and checks an
\* acknowledgement of which was lost.  However often it restarts, wherever the
\* topic was compacted, and although it acknowledges before it handles, it has
\* no check too many and none too few; it runs it with one job (none at interval
\* zero), at the interval it was created with, whatever the row says since.  An
\* agent that panicked has a command in its hands that it never handles.
AgentsRunWhatIsAnnounced ==
    \A a \in Agents : CaughtUp(a) =>
        \A c \in {d \in Checks : ~AcksLost(a, d)} :
            /\ c \in DOMAIN agents[a].tracked <=> Announced(c)
            /\ c \in DOMAIN agents[a].tracked =>
                    agents[a].tracked[c] = CreationInterval(c)
            /\ \A j \in agents[a].orphans : j.id # c

\* The promise of an agent, which JobsHandler keeps, about what this module keeps of it.
Table(a) == INSTANCE ActiveChecks WITH
    CheckJobs     <- {Job(r.check, r.interval) : r \in {q \in Requests :
                            q.op = "create" /\ q.check \notin Malformed}},
    MalformedJobs <- {Job(r.check, r.interval) : r \in {q \in Requests :
                            q.op = "create" /\ q.check \in Malformed}},
    listening     <- ~agents[a].panicked,
    wanted        <- DOMAIN agents[a].tracked,
    active        <- JobsIn(agents[a].tracked),
    orphans       <- agents[a].orphans,
    stopped       <- IF agents[a].poisoned THEN {0} ELSE {}

\* What the agent does about command m is what it promises about its check.
HandledAsPromised(a, m) ==
    \/ /\ m.kind = "Add"
       /\ LET j == Job(m.check, m.interval)
          IN  Table(a)!Add(j) \/ Table(a)!Refuse(j) \/ Table(a)!Panic(j)
    \/ m.kind = "Remove" /\ Table(a)!Remove(m.check)

\* Between two starts an agent does nothing but its promise (ActiveChecks), and of
\* that only, and all of, what the command in its hands asks for.
AgentsKeepPromise ==
    /\ \A a \in Agents : Table(a)!Init
    /\ [][\A a \in Agents :
            \/ /\ agents[a].inflight \in {0, agents'[a].inflight}
               /\ UNCHANGED Table(a)!vars
            \/ /\ agents[a].inflight \in DOMAIN topic
               /\ HandledAsPromised(a, topic[agents[a].inflight])
               /\ Table(a)!Next
            \/ agents'[a].starts # agents[a].starts /\ Table(a)!Init']_vars

\* Command i adds a check whose URL the agents cannot parse.
AddsMalformed(i) == topic[i].kind = "Add" /\ topic[i].check \in Malformed

\* A check with a URL that cannot be parsed hides the checks announced behind it,
\* from every agent and in every life of it, until the check is deleted and the
\* topic compacted past its Remove: an agent that runs a check announced later
\* has not met the command, and not jumped over it either, by a reconnection, a
\* lost acknowledgement or a restart.
NothingBehindMalformed ==
    \A i, k \in DOMAIN topic :
        /\ i < k /\ AddsMalformed(i)
        /\ topic[k].kind = "Add"
        /\ \E a \in Agents : topic[k].check \in DOMAIN agents[a].tracked
        => \E j \in i + 1 .. horizon :
               topic[j].kind = "Remove" /\ topic[j].check = topic[i].check

\* A handler that gets the lock releases it, also on its error paths.
LockReleased == \A r \in Requests : holder = r ~> holder # r

\* When every command is sent and no acknowledgement lost, the agents that do not
\* panic end up running the checks that have a live row.
AgentsConverge ==
    \A a \in Agents :
        <>[](\/ agents[a].panicked
             \/ DOMAIN agents[a].tracked = {c \in Checks : rows[c].state = "live"})
============================================================================
