----------------------------- MODULE Offloader ------------------------------
(***************************************************************************)
(* isok-offloader: the source reads the samples agents sent to the topic   *)
(* of http checks, and broadcasts them to two sinks, each a task:          *)
(*                                                                         *)
(*   source      src/isok-offloader/src/pulsar_source.rs                   *)
(*   aggregator  src/isok-offloader/src/http/aggregator.rs                 *)
(*   warp10      src/isok-offloader/src/http/warp10.rs                     *)
(*                                                                         *)
(* The broadcast channel is a ring: it never makes the source wait.  It    *)
(* overwrites the oldest sample, and a sink that missed one gets an error  *)
(* in its place.  The two sinks take that error differently.               *)
(*                                                                         *)
(* A sample is known by its index in the topic, which is its timestamp     *)
(* too.                                                                    *)
(***************************************************************************)
EXTENDS Integers, Sequences, FiniteSets

CONSTANTS
    Samples,       \* what agents send: [check, agent, latency, status, valid]
    Capacity,      \* of the broadcast channel
    MaxSamples,    \* bound: length of the topic
    MaxLostAcks,   \* bound: acknowledgements that are lost
    MaxRestarts,   \* bound: restarts of the offloader
    MayEnd         \* bound: whether subscriptions may end

Checks == {m.check : m \in Samples}
AgentIds == {m.agent : m \in Samples}

ASSUME OffloaderAssumption ==
    /\ IsFiniteSet(AgentIds)
    /\ \A m \in Samples :
        m.latency \in Nat /\ m.status \in 0 .. 2 ^ 16 - 1 /\ m.valid \in BOOLEAN
    /\ Capacity \in Nat \ {0}
    /\ MaxSamples \in Nat /\ MaxLostAcks \in Nat /\ MaxRestarts \in Nat
    /\ MayEnd \in BOOLEAN

VARIABLES
    topic,        \* the samples agents sent
    acked,        \* those the broker was told are done with
    delivered,    \* those it sent over the present connection
    source,       \* [at, msg]: "idle", "received" or "sent" sample msg, or "ended"
    sent,         \* all the source broadcast since the start of the process
    aggregator,   \* [at, next, buffer]: "running", "sending" or "stopped"
    warp10,       \* [at, next]: "running", "posting" or "stopped"
    published,    \* history: the last aggregate sent since the start, if any
    fates,        \* history: what became of samples at warp10
    faults        \* [acks, restarts] so far

vars == <<topic, acked, delivered, source, sent, aggregator, warp10, published,
          fates, faults>>

sourceVars == <<topic, acked, delivered, source, sent>>

----------------------------------------------------------------------------
(* The broadcast channel, as receivers see it.                             *)

Oldest == IF Len(sent) > Capacity THEN Len(sent) - Capacity + 1 ELSE 1

Available(next) == Oldest <= next /\ next <= Len(sent)

Lagged(next) == next < Oldest

\* A sink that returned dropped its receiver.
SomeReceiver == aggregator.at # "stopped" \/ warp10.at # "stopped"

----------------------------------------------------------------------------
(* Aggregates.                                                             *)

Classes == {"_200", "_300", "_400", "_500"}

\* The class a status code is counted in; none from 600 on.
StatusClass(code) ==
    CASE code < 300 -> "_200"
      [] code \in 300 .. 399 -> "_300"
      [] code \in 400 .. 499 -> "_400"
      [] code \in 500 .. 599 -> "_500"
      [] OTHER -> "none"

NewBuffer(timestamp) ==
    [timestamp    |-> timestamp,
     responded    |-> {},
     latency      |-> 0,
     status_codes |-> [k \in Classes |-> 0]]

\* AggregateBuffer::add_check and AggregateValues::aggregate.
AddToBuffer(b, m) ==
    [b EXCEPT !.responded = @ \cup {m.agent},
              !.latency = IF m.latency > @ THEN m.latency ELSE @,
              !.status_codes = [k \in Classes |->
                    IF StatusClass(m.status) = k THEN @[k] + 1 ELSE @[k]]]

EmptyBuffer == [c \in {} |-> NewBuffer(0)]

----------------------------------------------------------------------------
StartAggregator == [at |-> "running", next |-> 1, buffer |-> EmptyBuffer]
StartWarp10 == [at |-> "running", next |-> 1]

Init ==
    /\ topic = <<>>
    /\ acked = {}
    /\ delivered = {}
    /\ source = [at |-> "idle", msg |-> 0]
    /\ sent = <<>>
    /\ aggregator = StartAggregator
    /\ warp10 = StartWarp10
    /\ published = {}
    /\ fates = {}
    /\ faults = [acks |-> 0, restarts |-> 0]

\* An agent sends a sample.
to_message(m) ==
    /\ Len(topic) < MaxSamples
    /\ topic' = Append(topic, m)
    /\ UNCHANGED <<acked, delivered, source, sent, aggregator, warp10, published,
                   fates, faults>>

\* The acknowledgement of sample i, which may be lost unnoticed.
Acknowledge(i) ==
    \/ /\ acked' = acked \cup {i}
       /\ UNCHANGED faults
    \/ /\ faults.acks < MaxLostAcks
       /\ faults' = [faults EXCEPT !.acks = @ + 1]
       /\ UNCHANGED acked

\* MUTANT: a sample is acknowledged before it is broadcast.
try_next_ack_first ==
    /\ source.at = "idle"
    /\ \E i \in DOMAIN topic \ (acked \cup delivered) :
        /\ \A j \in DOMAIN topic \ (acked \cup delivered) : i <= j
        /\ delivered' = delivered \cup {i}
        /\ source' = IF topic[i].valid THEN [at |-> "received", msg |-> i] ELSE source
        /\ Acknowledge(i)
    /\ UNCHANGED <<topic, sent, aggregator, warp10, published, fates>>

\* The source takes the next sample.  One that cannot be read is acknowledged
\* and skipped.
try_next ==
    /\ source.at = "idle"
    /\ \E i \in DOMAIN topic \ (acked \cup delivered) :
        /\ \A j \in DOMAIN topic \ (acked \cup delivered) : i <= j
        /\ delivered' = delivered \cup {i}
        /\ IF topic[i].valid
           THEN /\ source' = [at |-> "received", msg |-> i]
                /\ UNCHANGED <<acked, faults>>
           ELSE /\ Acknowledge(i)
                /\ UNCHANGED source
    /\ UNCHANGED <<topic, sent, aggregator, warp10, published, fates>>

\* The subscription comes to an end: try_next gives None at once and for ever, and
\* the loop around it spins.  After a failure that passes it goes on as before.
subscription_ends ==
    /\ MayEnd
    /\ source.at = "idle"
    /\ source' = [source EXCEPT !.at = "ended"]
    /\ UNCHANGED <<topic, acked, delivered, sent, aggregator, warp10, published,
                   fates, faults>>

\* Without a receiver left, the source tries again for ever.
broadcast ==
    /\ source.at = "received"
    /\ SomeReceiver
    /\ sent' = Append(sent, source.msg)
    /\ source' = [source EXCEPT !.at = "sent"]
    /\ UNCHANGED <<topic, acked, delivered, aggregator, warp10, published, fates, faults>>

ack ==
    /\ source.at = "sent"
    /\ Acknowledge(source.msg)
    /\ source' = [at |-> "idle", msg |-> 0]
    /\ UNCHANGED <<topic, delivered, sent, aggregator, warp10, published, fates>>

\* The connection is made again: what is not acknowledged is delivered again.  What
\* the client had fetched over the old connection it is taken to drop.
reconnect ==
    /\ delivered \ acked # {}
    /\ delivered' = {}
    /\ UNCHANGED <<topic, acked, source, sent, aggregator, warp10, published, fates, faults>>

----------------------------------------------------------------------------
(* The aggregator.                                                         *)

\* MUTANT: an agent that answered before is added all the same.
aggregator_recv_again ==
    /\ aggregator.at = "running"
    /\ Available(aggregator.next)
    /\ LET i == sent[aggregator.next]
           m == topic[i]
           old == aggregator.buffer
           b == IF m.check \in DOMAIN old THEN old[m.check] ELSE NewBuffer(i)
       IN  aggregator' =
               [at     |-> IF m.agent \in b.responded THEN "sending" ELSE "running",
                next   |-> aggregator.next + 1,
                buffer |-> [c \in DOMAIN old \cup {m.check} |->
                                IF c = m.check THEN AddToBuffer(b, m) ELSE old[c]]]
    /\ UNCHANGED <<sourceVars, warp10, published, fates, faults>>

\* The first sample of an agent is added to the buffer of its check.  Another
\* one of that agent only makes the aggregator send the buffer, as it is; the
\* sample is dropped, and the buffer is kept.
aggregator_recv ==
    /\ aggregator.at = "running"
    /\ Available(aggregator.next)
    /\ LET i == sent[aggregator.next]
           m == topic[i]
           old == aggregator.buffer
           b == IF m.check \in DOMAIN old THEN old[m.check] ELSE NewBuffer(i)
       IN  aggregator' =
               IF m.agent \in b.responded
               THEN [aggregator EXCEPT !.at = "sending", !.next = @ + 1]
               ELSE [aggregator EXCEPT
                        !.next = @ + 1,
                        !.buffer = [c \in DOMAIN old \cup {m.check} |->
                            IF c = m.check THEN AddToBuffer(b, m) ELSE old[c]]]
    /\ UNCHANGED <<sourceVars, warp10, published, fates, faults>>

\* MUTANT: the aggregator goes on after it missed samples.
aggregator_lagged_goes_on ==
    /\ aggregator.at = "running"
    /\ Lagged(aggregator.next)
    /\ aggregator' = [aggregator EXCEPT !.next = Oldest]
    /\ UNCHANGED <<sourceVars, warp10, published, fates, faults>>

\* An error of recv ends the loop, and the task with its buffer.
aggregator_lagged ==
    /\ aggregator.at = "running"
    /\ Lagged(aggregator.next)
    /\ aggregator' = [aggregator EXCEPT !.at = "stopped", !.buffer = EmptyBuffer]
    /\ UNCHANGED <<sourceVars, warp10, published, fates, faults>>

\* The buffer of the sample just taken is sent, or the failure is ignored.
aggregator_send ==
    /\ aggregator.at = "sending"
    /\ LET c == topic[sent[aggregator.next - 1]].check
           b == aggregator.buffer[c]
       IN  published' \in {published,
               {[check |-> c, after |-> aggregator.next - 1, buffer |-> b]}}
    /\ aggregator' = [aggregator EXCEPT !.at = "running"]
    /\ UNCHANGED <<sourceVars, warp10, fates, faults>>

----------------------------------------------------------------------------
(* The warp10 sink.                                                        *)

Fate(i, how) == [sample |-> i, how |-> how]

warp10_recv ==
    /\ warp10.at = "running"
    /\ Available(warp10.next)
    /\ warp10' = [at |-> "posting", next |-> warp10.next + 1]
    /\ UNCHANGED <<sourceVars, aggregator, published, fates, faults>>

\* MUTANT: an error of recv ends the task.
warp10_lagged_stops ==
    /\ warp10.at = "running"
    /\ Lagged(warp10.next)
    /\ warp10' = [warp10 EXCEPT !.at = "stopped"]
    /\ UNCHANGED <<sourceVars, aggregator, published, fates, faults>>

\* An error of recv is logged, and the loop starts again at the oldest sample.
warp10_lagged ==
    /\ warp10.at = "running"
    /\ Lagged(warp10.next)
    /\ warp10' = [warp10 EXCEPT !.next = Oldest]
    /\ fates' = fates \cup
            {Fate(sent[k], "overwritten") : k \in warp10.next .. Oldest - 1}
    /\ UNCHANGED <<sourceVars, aggregator, published, faults>>

\* MUTANT: a post that fails ends the task.
warp10_send_or_stop ==
    /\ warp10.at = "posting"
    /\ \/ /\ fates' = fates \cup {Fate(sent[warp10.next - 1], "stored")}
          /\ warp10' = [warp10 EXCEPT !.at = "running"]
       \/ /\ warp10' = [warp10 EXCEPT !.at = "stopped"]
          /\ UNCHANGED fates
    /\ UNCHANGED <<sourceVars, aggregator, published, faults>>

\* A sample that cannot be posted is dropped.
warp10_send ==
    /\ warp10.at = "posting"
    /\ \E how \in {"stored", "refused"} :
        fates' = fates \cup {Fate(sent[warp10.next - 1], how)}
    /\ warp10' = [warp10 EXCEPT !.at = "running"]
    /\ UNCHANGED <<sourceVars, aggregator, published, faults>>

\* What the source has broadcast and warp10 has not seen the end of.
Underway ==
    {sent[k] : k \in warp10.next .. Len(sent)} \cup
    (IF warp10.at = "posting" THEN {sent[warp10.next - 1]} ELSE {})

\* The process ends, at any point, and is started again.  The subscription is
\* durable; everything else was in memory.
restart ==
    /\ faults.restarts < MaxRestarts
    /\ faults' = [faults EXCEPT !.restarts = @ + 1]
    /\ fates' = fates \cup {Fate(i, "crashed") : i \in Underway}
    /\ delivered' = {}
    /\ source' = [at |-> "idle", msg |-> 0]
    /\ sent' = <<>>
    /\ aggregator' = StartAggregator
    /\ warp10' = StartWarp10
    /\ published' = {}
    /\ UNCHANGED <<topic, acked>>

----------------------------------------------------------------------------
SourceStep == try_next \/ broadcast \/ ack
AggregatorStep == aggregator_recv \/ aggregator_lagged \/ aggregator_send
Warp10Step == warp10_recv \/ warp10_lagged \/ warp10_send

Next ==
    \/ \E m \in Samples : to_message(m)
    \/ SourceStep \/ AggregatorStep \/ Warp10Step
    \/ reconnect \/ subscription_ends \/ restart

Spec == Init /\ [][Next]_vars

\* Each is a task of a multi-threaded runtime, which polls a task that is ready.
\* Nothing is assumed of what the sinks await: no limit is set to a post to Warp10,
\* and none to the sending of an aggregate.
Fairness ==
    WF_vars(SourceStep) /\ WF_vars(warp10_recv \/ warp10_lagged)

FairSpec == Spec /\ Fairness

----------------------------------------------------------------------------
(* Properties.                                                             *)

Buffers ==
    [timestamp: 1 .. MaxSamples, responded: SUBSET AgentIds, latency: Nat,
     status_codes: [Classes -> 0 .. Cardinality(AgentIds)]]

\* No count of an aggregate exceeds the number of agents.
TypeOK ==
    /\ topic \in Seq(Samples)
    /\ acked \subseteq DOMAIN topic
    /\ delivered \subseteq DOMAIN topic
    /\ source \in [at: {"idle", "received", "sent", "ended"}, msg: 0 .. Len(topic)]
    /\ sent \in Seq(DOMAIN topic)
    /\ aggregator.at \in {"running", "sending", "stopped"}
    /\ aggregator.next \in 1 .. Len(sent) + 1
    /\ DOMAIN aggregator.buffer \subseteq Checks
    /\ \A c \in DOMAIN aggregator.buffer : aggregator.buffer[c] \in Buffers
    /\ warp10 \in [at: {"running", "posting", "stopped"}, next: 1 .. Len(sent) + 1]
    /\ \A p \in published : p.check \in Checks /\ p.buffer \in Buffers
    /\ fates \subseteq [sample: DOMAIN topic,
                        how: {"stored", "refused", "overwritten", "crashed"}]
    /\ faults \in [acks: 0 .. MaxLostAcks, restarts: 0 .. MaxRestarts]

\* The first answer each agent gave for check c among the first n broadcast
\* samples: the positions of those.
FirstAnswers(c, n) ==
    {k \in 1 .. n :
        /\ topic[sent[k]].check = c
        /\ \A j \in 1 .. k - 1 :
            topic[sent[j]].check = c => topic[sent[j]].agent # topic[sent[k]].agent}

\* The status codes a field of StatusCodeCount is for.
ClassCodes(s) ==
    CASE s = "_200" -> 0 .. 299
      [] s = "_300" -> 300 .. 399
      [] s = "_400" -> 400 .. 499
      [] s = "_500" -> 500 .. 599

\* b is the aggregate of the first answers for c: the worst latency, the number
\* of agents with a code of each class, and the time of the earliest answer.
IsAggregateOf(b, c, n) ==
    LET firsts == FirstAnswers(c, n)
        answer(k) == topic[sent[k]]
    IN  /\ b.responded = {answer(k).agent : k \in firsts}
        /\ \A k \in firsts : answer(k).latency <= b.latency
        /\ \E k \in firsts : answer(k).latency = b.latency
        /\ \A s \in Classes : b.status_codes[s] =
                Cardinality({k \in firsts : answer(k).status \in ClassCodes(s)})
        /\ \E k \in firsts : b.timestamp = sent[k] /\ \A j \in firsts : k <= j

\* What the aggregator keeps and sends is the aggregate of the first answer of
\* each agent since the process started, over all the source broadcast without a
\* gap: later answers never count, however often it was sent, and an aggregator
\* that missed a sample sends nothing any more.
AggregatesAreFirstAnswers ==
    /\ \A c \in DOMAIN aggregator.buffer :
            IsAggregateOf(aggregator.buffer[c], c, aggregator.next - 1)
    /\ \A p \in published : IsAggregateOf(p.buffer, p.check, p.after)

\* A sample the broker was told is done with was stored, or refused by warp10, or
\* overwritten in the channel, or lost in a crash after it was broadcast; or it
\* is on its way.
AcknowledgedSamplesAccounted ==
    \A i \in acked : topic[i].valid =>
        (\E f \in fates : f.sample = i) \/ i \in Underway

Readable(i) == topic[i].valid

\* What warp10 has in its hands, and then what it reads next.
Ahead ==
    SubSeq(sent, IF warp10.at = "posting" THEN warp10.next - 1 ELSE warp10.next,
           Len(sent))

Delivery == INSTANCE SampleDelivery WITH
    Ids      <- 1 .. MaxSamples,
    produced <- {i \in DOMAIN topic : Readable(i)},
    done     <- {i \in acked : Readable(i)},
    ahead    <- Ahead,
    ends     <- fates

\* Warp10 gets the samples in the order they were broadcast, none left out but in
\* an overrun or a crash and none twice but by a repeated delivery, and the broker
\* is told of a sample only when it is in front of warp10 or had its end.
KeepsDelivery == Delivery!Spec

\* As long as no post to Warp10 hangs for ever, every sample an agent sent comes to
\* one of those ends, unless the subscription ends before it was broadcast.
SamplesSettle ==
    []<>(warp10.at # "posting") =>
        \A i \in 1 .. MaxSamples :
            (i \in DOMAIN topic /\ topic[i].valid)
                ~> \/ \E f \in fates : f.sample = i
                   \/ source.at = "ended" /\ i \notin Underway

\* No sink holds up the source: it gets through the topic while its subscription
\* lasts, also after the aggregator stopped for good, whatever warp10 misses or
\* refuses, and although a post or an aggregate of theirs may hang for ever.
SourceDrains ==
    <>[](\/ source.at = "ended"
         \/ source.at = "idle" /\ DOMAIN topic \subseteq acked \cup delivered)
============================================================================
