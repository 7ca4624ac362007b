--------------------------- MODULE OffloaderProofs ---------------------------
(***************************************************************************)
(* Proofs about the offloader.                                             *)
(***************************************************************************)
EXTENDS Offloader, FiniteSetTheorems, SequenceTheorems, TLAPS

USE OffloaderAssumption

----------------------------------------------------------------------------
(* The source.                                                             *)

SourceOK ==
    /\ topic \in Seq(Samples) /\ Len(topic) <= MaxSamples
    /\ acked \subseteq DOMAIN topic
    /\ delivered \subseteq DOMAIN topic
    /\ source \in [at: {"idle", "received", "sent", "ended"}, msg: 0 .. Len(topic)]
    /\ source.at \in {"received", "sent"} => source.msg \in DOMAIN topic
    /\ sent \in Seq(DOMAIN topic)
    /\ faults \in [acks: 0 .. MaxLostAcks, restarts: 0 .. MaxRestarts]

\* What was sent to the topic or broadcast stays, until a restart.
TopicGrows ==
    /\ Len(topic) <= Len(topic')
    /\ \A i \in 1 .. Len(topic) : topic'[i] = topic[i]

SentGrows ==
    /\ Len(sent) <= Len(sent')
    /\ \A k \in 1 .. Len(sent) : sent'[k] = sent[k]

LEMMA AcknowledgeKeeps ==
    ASSUME SourceOK, NEW i \in DOMAIN topic, Acknowledge(i)
    PROVE  /\ acked' \subseteq DOMAIN topic /\ acked' \subseteq acked \cup {i}
           /\ faults' \in [acks: 0 .. MaxLostAcks, restarts: 0 .. MaxRestarts]
<1>1. CASE acked' = acked \cup {i} /\ UNCHANGED faults
    BY <1>1 DEF SourceOK
<1>2. CASE /\ faults.acks < MaxLostAcks /\ UNCHANGED acked
           /\ faults' = [faults EXCEPT !.acks = @ + 1]
    <2>1. faults.acks + 1 \in 0 .. MaxLostAcks
        BY <1>2, OffloaderAssumption DEF SourceOK
    <2> QED BY <1>2, <2>1 DEF SourceOK
<1> QED BY <1>1, <1>2 DEF Acknowledge

LEMMA SourceKept ==
    ASSUME SourceOK, Next
    PROVE  /\ SourceOK'
           /\ TopicGrows
           /\ SentGrows \/ restart
<1>1. DOMAIN topic = 1 .. Len(topic) /\ Len(topic) \in Nat /\ Len(sent) \in Nat
    BY DEF SourceOK
<1>2. ASSUME NEW m \in Samples, to_message(m)
      PROVE  SourceOK' /\ TopicGrows /\ SentGrows
    <2>1. /\ topic' \in Seq(Samples) /\ Len(topic') = Len(topic) + 1
          /\ \A i \in 1 .. Len(topic) : topic'[i] = topic[i]
          /\ Len(topic') <= MaxSamples
        BY <1>1, <1>2 DEF SourceOK, to_message
    <2>2. DOMAIN topic' = 1 .. Len(topic) + 1
        BY <2>1, <1>1
    <2>3. sent \in Seq(DOMAIN topic')
        BY <1>1, <2>2, SeqMonotonic DEF SourceOK
    <2> QED
        BY <1>1, <1>2, <2>1, <2>2, <2>3
        DEF SourceOK, TopicGrows, SentGrows, to_message
<1>3. CASE try_next
    <2>1. PICK i \in DOMAIN topic \ (acked \cup delivered) :
            /\ delivered' = delivered \cup {i}
            /\ IF topic[i].valid
               THEN /\ source' = [at |-> "received", msg |-> i]
                    /\ UNCHANGED <<acked, faults>>
               ELSE /\ Acknowledge(i)
                    /\ UNCHANGED source
        BY <1>3 DEF try_next
    <2>2. /\ acked' \subseteq DOMAIN topic
          /\ faults' \in [acks: 0 .. MaxLostAcks, restarts: 0 .. MaxRestarts]
        BY <2>1, AcknowledgeKeeps DEF SourceOK
    <2>3. topic' = topic /\ sent' = sent
        BY <1>3 DEF try_next
    <2> QED BY <1>1, <2>1, <2>2, <2>3 DEF SourceOK, TopicGrows, SentGrows
<1>4. CASE broadcast
    <2>1. /\ source.msg \in DOMAIN topic /\ sent' = Append(sent, source.msg)
          /\ source' = [source EXCEPT !.at = "sent"]
          /\ UNCHANGED <<topic, acked, delivered, faults>>
        BY <1>4 DEF SourceOK, broadcast
    <2>2. /\ sent' \in Seq(DOMAIN topic) /\ Len(sent') = Len(sent) + 1
          /\ \A k \in 1 .. Len(sent) : sent'[k] = sent[k]
        BY <2>1 DEF SourceOK
    <2>3. source' \in [at: {"idle", "received", "sent", "ended"}, msg: 0 .. Len(topic)]
          /\ source'.msg = source.msg
        BY <2>1 DEF SourceOK
    <2>4. source'.at = "sent"
        BY <2>1 DEF SourceOK
    <2> QED BY <1>1, <2>1, <2>2, <2>3, <2>4 DEF SourceOK, TopicGrows, SentGrows
<1>5. CASE ack
    <2>1. source.msg \in DOMAIN topic /\ Acknowledge(source.msg)
        BY <1>5 DEF SourceOK, ack
    <2>2. /\ acked' \subseteq DOMAIN topic
          /\ faults' \in [acks: 0 .. MaxLostAcks, restarts: 0 .. MaxRestarts]
        BY <2>1, AcknowledgeKeeps
    <2> QED BY <1>1, <1>5, <2>2 DEF SourceOK, TopicGrows, SentGrows, ack
<1>6. CASE AggregatorStep \/ Warp10Step
    <2>1. UNCHANGED <<topic, acked, delivered, source, sent, faults>>
        BY <1>6 DEF AggregatorStep, aggregator_recv, aggregator_lagged, aggregator_send,
                    Warp10Step, warp10_recv, warp10_lagged, warp10_send, sourceVars
    <2> QED BY <1>1, <2>1 DEF SourceOK, TopicGrows, SentGrows
<1>7. CASE reconnect \/ subscription_ends
    <2>1. /\ UNCHANGED <<topic, acked, sent, faults>>
          /\ delivered' \subseteq delivered
        BY <1>7 DEF reconnect, subscription_ends
    <2>2. source' = source \/ source' = [source EXCEPT !.at = "ended"]
        BY <1>7 DEF reconnect, subscription_ends
    <2>3. /\ source' \in [at: {"idle", "received", "sent", "ended"}, msg: 0 .. Len(topic)]
          /\ source'.at \in {"received", "sent"} => source'.msg \in DOMAIN topic
        BY <2>2 DEF SourceOK
    <2> QED BY <1>1, <2>1, <2>3 DEF SourceOK, TopicGrows, SentGrows
<1>8. CASE restart
    <2>1. sent' \in Seq(DOMAIN topic)
        BY <1>8, EmptySeq DEF restart
    <2>2. faults' \in [acks: 0 .. MaxLostAcks, restarts: 0 .. MaxRestarts]
        <3>1. faults.restarts + 1 \in 0 .. MaxRestarts
            BY <1>8 DEF SourceOK, restart
        <3> QED BY <1>8, <3>1 DEF SourceOK, restart
    <2> QED BY <1>1, <1>8, <2>1, <2>2 DEF SourceOK, TopicGrows, restart
<1> QED BY <1>2, <1>3, <1>4, <1>5, <1>6, <1>7, <1>8 DEF Next, SourceStep

----------------------------------------------------------------------------
(* The warp10 sink.                                                        *)

Accounted(i) == (\E f \in fates : f.sample = i) \/ i \in Underway

Warp10OK ==
    /\ warp10 \in [at: {"running", "posting", "stopped"}, next: 1 .. Len(sent) + 1]
    /\ warp10.at = "posting" => warp10.next > 1
    /\ fates \subseteq [sample: DOMAIN topic,
                        how: {"stored", "refused", "overwritten", "crashed"}]

\* The samples acknowledged, and the one about to be.
Told == acked \cup {i \in DOMAIN topic : source.at = "sent" /\ i = source.msg}

AccountedSoFar == \A i \in Told : topic[i].valid => Accounted(i)

AccountsInv == SourceOK /\ Warp10OK /\ AccountedSoFar

LEMMA Warp10Kept ==
    ASSUME SourceOK, Warp10OK, Next
    PROVE  Warp10OK'
<1>1. /\ DOMAIN topic = 1 .. Len(topic) /\ Len(topic) \in Nat /\ Len(sent) \in Nat
      /\ Capacity \in Nat \ {0}
      /\ \A k \in 1 .. Len(sent) : sent[k] \in DOMAIN topic
    BY DEF SourceOK
<1>2. SourceOK' /\ TopicGrows /\ (SentGrows \/ restart)
    BY SourceKept
<1>3. /\ DOMAIN topic \subseteq DOMAIN topic' /\ Len(sent') \in Nat
      /\ fates \subseteq [sample: DOMAIN topic',
                          how: {"stored", "refused", "overwritten", "crashed"}]
    <2>1. DOMAIN topic' = 1 .. Len(topic') /\ Len(topic') \in Nat /\ Len(sent') \in Nat
        BY <1>2 DEF SourceOK
    <2> QED BY <1>1, <1>2, <2>1 DEF TopicGrows, Warp10OK
<1>4. CASE ~ restart /\ UNCHANGED <<warp10, fates>>
    BY <1>1, <1>2, <1>3, <1>4 DEF Warp10OK, SentGrows
<1>5. CASE warp10_recv
    BY <1>1, <1>3, <1>5 DEF Warp10OK, warp10_recv, Available, sourceVars
<1>6. CASE warp10_lagged
    <2>1. /\ warp10.next < Oldest /\ Oldest \in 1 .. Len(sent)
          /\ warp10' = [warp10 EXCEPT !.next = Oldest] /\ warp10.at = "running"
          /\ fates' = fates \cup
                {Fate(sent[k], "overwritten") : k \in warp10.next .. Oldest - 1}
          /\ topic' = topic /\ sent' = sent
        BY <1>1, <1>6 DEF Warp10OK, warp10_lagged, Lagged, Oldest, sourceVars
    <2>2. \A k \in warp10.next .. Oldest - 1 :
            Fate(sent[k], "overwritten") \in
                [sample: DOMAIN topic,
                 how: {"stored", "refused", "overwritten", "crashed"}]
        BY <1>1, <2>1 DEF Warp10OK, Fate
    <2> QED BY SMTT(30), <1>1, <2>1, <2>2 DEF Warp10OK
<1>7. CASE warp10_send
    <2>1. sent[warp10.next - 1] \in DOMAIN topic
        BY SMTT(30), <1>1, <1>7 DEF Warp10OK, warp10_send
    <2> QED BY <1>1, <1>7, <2>1 DEF Warp10OK, warp10_send, Fate, sourceVars
<1>8. CASE restart
    <2>1. Underway \subseteq DOMAIN topic
        BY <1>1 DEF Warp10OK, Underway
    <2>2. /\ fates' = fates \cup {Fate(i, "crashed") : i \in Underway}
          /\ warp10' = [at |-> "running", next |-> 1] /\ topic' = topic
        BY <1>8 DEF restart, StartWarp10
    <2>3. 1 \in 1 .. Len(sent') + 1
        BY <1>3
    <2> QED BY <2>1, <2>2, <2>3 DEF Warp10OK, Fate
<1>9. \/ ~ restart /\ UNCHANGED <<warp10, fates>>
      \/ warp10_recv \/ warp10_lagged \/ warp10_send \/ restart
    BY DEF Next, SourceStep, AggregatorStep, Warp10Step, to_message, try_next,
           broadcast, ack, reconnect, subscription_ends,
         aggregator_recv, aggregator_lagged, aggregator_send
<1> QED BY <1>4, <1>5, <1>6, <1>7, <1>8, <1>9

\* What is accounted for stays accounted for.
LEMMA AccountsGrow ==
    ASSUME SourceOK, Warp10OK, Next, NEW i, Accounted(i)
    PROVE  Accounted(i)'
<1>1. Len(sent) \in Nat /\ Capacity \in Nat \ {0} /\ warp10.next \in 1 .. Len(sent) + 1
    BY DEF SourceOK, Warp10OK
<1>2. CASE UNCHANGED <<warp10, fates>> /\ SentGrows
    <2>1. Len(sent') \in Nat
        BY SourceKept DEF SourceOK
    <2> QED BY SMTT(30), <1>1, <1>2, <2>1 DEF Accounted, Underway, SentGrows, Warp10OK
<1>3. CASE warp10_recv
    BY <1>1, <1>3 DEF Accounted, Underway, warp10_recv, Available, sourceVars
<1>4. CASE warp10_lagged
    <2>1. /\ warp10' = [warp10 EXCEPT !.next = Oldest] /\ warp10.at = "running"
          /\ fates' = fates \cup
                {Fate(sent[k], "overwritten") : k \in warp10.next .. Oldest - 1}
          /\ sent' = sent /\ Oldest \in Nat
        BY <1>1, <1>4 DEF warp10_lagged, Oldest, sourceVars
    <2>2. warp10'.next = Oldest
        BY <2>1 DEF Warp10OK
    <2>3. CASE \E f \in fates : f.sample = i
        BY <2>1, <2>3 DEF Accounted
    <2>4. CASE i \in Underway
        <3>1. PICK k \in warp10.next .. Len(sent) : i = sent[k]
            BY <2>1, <2>4 DEF Underway
        <3>2. CASE k \in warp10.next .. Oldest - 1
            <4>1. Fate(sent[k], "overwritten") \in fates'
                BY <2>1, <3>2
            <4> QED BY <3>1, <4>1 DEF Accounted, Fate
        <3>3. CASE k \in Oldest .. Len(sent)
            BY <2>1, <2>2, <3>1, <3>3 DEF Accounted, Underway
        <3> QED BY <1>1, <2>1, <3>1, <3>2, <3>3
    <2> QED BY <2>3, <2>4 DEF Accounted
<1>5. CASE warp10_send
    <2>1. /\ warp10.at = "posting" /\ warp10'.next = warp10.next /\ sent' = sent
          /\ fates \subseteq fates'
          /\ \E how : Fate(sent[warp10.next - 1], how) \in fates'
        BY <1>5 DEF warp10_send, sourceVars, Warp10OK
    <2>2. CASE \E f \in fates : f.sample = i
        BY <2>1, <2>2 DEF Accounted
    <2>3. CASE i = sent[warp10.next - 1]
        BY <2>1, <2>3 DEF Accounted, Fate
    <2>4. CASE \E k \in warp10.next .. Len(sent) : i = sent[k]
        BY <2>1, <2>4 DEF Accounted, Underway
    <2> QED BY <2>1, <2>2, <2>3, <2>4 DEF Accounted, Underway
<1>6. CASE restart
    <2>1. fates' = fates \cup {Fate(j, "crashed") : j \in Underway}
        BY <1>6 DEF restart
    <2>2. CASE \E f \in fates : f.sample = i
        BY <2>1, <2>2 DEF Accounted
    <2>3. CASE i \in Underway
        <3>1. Fate(i, "crashed") \in fates'
            BY <2>1, <2>3
        <3> QED BY <3>1 DEF Accounted, Fate
    <2> QED BY <2>2, <2>3 DEF Accounted
<1>7. \/ UNCHANGED <<warp10, fates>> /\ SentGrows
      \/ warp10_recv \/ warp10_lagged \/ warp10_send \/ restart
    BY SourceKept
    DEF Next, SourceStep, AggregatorStep, Warp10Step, to_message, try_next,
        broadcast, ack, reconnect, subscription_ends, aggregator_recv, aggregator_lagged, aggregator_send
<1> QED BY <1>2, <1>3, <1>4, <1>5, <1>6, <1>7

LEMMA AccountsStep ==
    ASSUME AccountsInv, Next
    PROVE  AccountsInv'
<1> SourceOK /\ Warp10OK /\ AccountedSoFar
    BY DEF AccountsInv
<1>1. SourceOK' /\ Warp10OK'
    BY SourceKept, Warp10Kept
<1>2. /\ acked \subseteq DOMAIN topic
      /\ source.at \in {"received", "sent"} => source.msg \in DOMAIN topic
    BY DEF SourceOK
<1>3. Told \subseteq DOMAIN topic /\ \A i \in DOMAIN topic : topic'[i] = topic[i]
    <2>1. DOMAIN topic = 1 .. Len(topic)
        BY DEF SourceOK
    <2> QED BY <1>2, <2>1, SourceKept DEF Told, TopicGrows
<1>4. \A i : Accounted(i) => Accounted(i)'
    BY AccountsGrow
<1>5. ASSUME NEW i \in Told', topic'[i].valid
      PROVE  i \in Told \/ Accounted(i)'
    <2>1. CASE try_next
        <3>1. PICK j \in DOMAIN topic \ (acked \cup delivered) :
                IF topic[j].valid
                THEN source' = [at |-> "received", msg |-> j] /\ acked' = acked
                ELSE Acknowledge(j) /\ source' = source
            BY <2>1 DEF try_next
        <3>2. ~ topic[j].valid => acked' \subseteq acked \cup {j}
            BY <3>1, AcknowledgeKeeps
        <3>3. topic' = topic
            BY <2>1 DEF try_next
        <3> QED BY <1>5, <3>1, <3>2, <3>3 DEF Told
    <2>2. CASE broadcast
        <3>1. /\ source.at = "received" /\ source' = [source EXCEPT !.at = "sent"]
              /\ UNCHANGED <<topic, acked, warp10>> /\ sent' = Append(sent, source.msg)
            BY <2>2 DEF broadcast
        <3>2. source'.msg = source.msg
            BY <3>1 DEF SourceOK
        <3>3. CASE i = source.msg
            <4>1. /\ Len(sent') = Len(sent) + 1 /\ Len(sent) \in Nat
                  /\ sent'[Len(sent')] = i
                BY <1>2, <3>1, <3>3 DEF SourceOK
            <4>2. Len(sent') \in warp10'.next .. Len(sent')
                BY <3>1, <4>1 DEF Warp10OK
            <4> QED BY <4>1, <4>2 DEF Accounted, Underway
        <3> QED BY <3>1, <3>2, <3>3 DEF Told
    <2>3. CASE ack
        <3>1. source.at = "sent" /\ source'.at = "idle" /\ Acknowledge(source.msg)
            BY <2>3 DEF ack
        <3>2. acked' \subseteq acked \cup {source.msg}
            BY <1>2, <3>1, AcknowledgeKeeps
        <3> QED BY <1>2, <3>1, <3>2 DEF Told
    <2>4. CASE restart \/ subscription_ends
        <3>1. source'.at \in {"idle", "ended"} /\ acked' = acked
            BY <2>4 DEF restart, subscription_ends, SourceOK
        <3> QED BY <1>5, <3>1 DEF Told
    <2>5. CASE UNCHANGED <<source, acked>>
        BY <1>2, <2>5 DEF Told
    <2> QED
        BY <2>1, <2>2, <2>3, <2>4, <2>5
        DEF Next, SourceStep, AggregatorStep, Warp10Step, to_message, reconnect,
            aggregator_recv, aggregator_lagged, aggregator_send,
            warp10_recv, warp10_lagged, warp10_send, sourceVars
<1>6. AccountedSoFar'
    <2> HIDE DEF Told, Accounted
    <2> SUFFICES ASSUME NEW i \in Told', topic'[i].valid PROVE Accounted(i)'
        BY DEF AccountedSoFar
    <2>1. CASE i \in Told
        BY <1>3, <1>4, <2>1 DEF AccountedSoFar
    <2> QED BY <1>5, <2>1
<1> QED BY <1>1, <1>6 DEF AccountsInv

----------------------------------------------------------------------------
(* The aggregator.                                                         *)

\* The agents that answered for check c among the first n broadcast samples.
Responders(c, n) ==
    {topic[sent[k]].agent : k \in {j \in 1 .. n : topic[sent[j]].check = c}}

\* A buffer has heard all of them; it counts an agent once.
BufferOK(b, c, n) ==
    /\ b \in Buffers
    /\ \A s \in Classes : b.status_codes[s] <= Cardinality(b.responded)
    /\ b.responded = Responders(c, n)
    /\ IsAggregateOf(b, c, n)

AggregatorOK ==
    /\ aggregator = [at |-> aggregator.at, next |-> aggregator.next,
                     buffer |-> aggregator.buffer]
    /\ aggregator.at \in {"running", "sending", "stopped"}
    /\ aggregator.next \in 1 .. Len(sent) + 1
    /\ DOMAIN aggregator.buffer \subseteq Checks
    /\ \A c \in DOMAIN aggregator.buffer :
            BufferOK(aggregator.buffer[c], c, aggregator.next - 1)
    /\ aggregator.at # "stopped" =>
            \A k \in 1 .. aggregator.next - 1 :
                topic[sent[k]].check \in DOMAIN aggregator.buffer
    /\ aggregator.at = "sending" => aggregator.next > 1
    /\ \A p \in published :
            /\ p.check \in Checks /\ p.buffer \in Buffers /\ p.after \in 0 .. Len(sent)
            /\ IsAggregateOf(p.buffer, p.check, p.after)

\* What was broadcast before does not change.
LEMMA AnswersKept ==
    ASSUME SourceOK, TopicGrows, SentGrows, NEW n \in 0 .. Len(sent)
    PROVE  /\ \A k \in 1 .. n : sent'[k] = sent[k] /\ topic'[sent[k]] = topic[sent[k]]
           /\ \A c : FirstAnswers(c, n)' = FirstAnswers(c, n)
           /\ \A c : Responders(c, n)' = Responders(c, n)
<1>1. \A k \in 1 .. n : sent'[k] = sent[k] /\ topic'[sent[k]] = topic[sent[k]]
    <2>1. Len(sent) \in Nat /\ DOMAIN topic = 1 .. Len(topic)
          /\ \A k \in 1 .. Len(sent) : sent[k] \in DOMAIN topic
        BY DEF SourceOK
    <2> QED BY <2>1 DEF TopicGrows, SentGrows
<1>2. n \in Nat
    BY DEF SourceOK
<1>3. ASSUME NEW c
      PROVE  FirstAnswers(c, n)' = FirstAnswers(c, n)
    <2>1. \A k \in 1 .. n : \A j \in 1 .. k - 1 : j \in 1 .. n
        BY <1>2
    <2>2. \A k \in 1 .. n :
            /\ topic'[sent'[k]].check = topic[sent[k]].check
            /\ topic'[sent'[k]].agent = topic[sent[k]].agent
        BY <1>1
    <2> QED BY <2>1, <2>2 DEF FirstAnswers
<1>4. ASSUME NEW c
      PROVE  Responders(c, n)' = Responders(c, n)
    BY <1>1, <1>2 DEF Responders
<1> QED BY <1>1, <1>3, <1>4

\* The match of AggregateValues::aggregate counts a code where it belongs, at the
\* bounds of the classes and above them, too.
LEMMA ClassOfCode ==
    ASSUME NEW code \in Nat, NEW s \in Classes
    PROVE  StatusClass(code) = s <=> code \in ClassCodes(s)
<1>1. CASE s = "_200"
    BY <1>1 DEF StatusClass, ClassCodes
<1>2. CASE s = "_300"
    BY <1>2 DEF StatusClass, ClassCodes
<1>3. CASE s = "_400"
    BY <1>3 DEF StatusClass, ClassCodes
<1>4. CASE s = "_500"
    BY <1>4 DEF StatusClass, ClassCodes
<1> QED BY <1>1, <1>2, <1>3, <1>4 DEF Classes

LEMMA AggregatesKept ==
    ASSUME SourceOK, TopicGrows, SentGrows, NEW n \in 0 .. Len(sent), NEW b, NEW c,
           IsAggregateOf(b, c, n)
    PROVE  IsAggregateOf(b, c, n)'
<1>1. /\ \A k \in 1 .. n : sent'[k] = sent[k] /\ topic'[sent[k]] = topic[sent[k]]
      /\ FirstAnswers(c, n)' = FirstAnswers(c, n)
    BY AnswersKept
<1> DEFINE firsts == FirstAnswers(c, n)
<1>2. firsts \subseteq 1 .. n
    BY DEF FirstAnswers
<1> HIDE DEF firsts
<1>3. \A s : {k \in firsts : topic'[sent'[k]].status \in ClassCodes(s)}
           = {k \in firsts : topic[sent[k]].status \in ClassCodes(s)}
    BY <1>1, <1>2
<1>4. {topic'[sent'[k]].agent : k \in firsts} = {topic[sent[k]].agent : k \in firsts}
    BY <1>1, <1>2
<1>5. FirstAnswers(c, n)' = firsts
    BY <1>1 DEF firsts
<1>6. \A k \in firsts : /\ topic'[sent'[k]].latency = topic[sent[k]].latency
                        /\ sent'[k] = sent[k]
    BY <1>1, <1>2
<1>7. /\ b.responded = {topic[sent[k]].agent : k \in firsts}
      /\ \A k \in firsts : topic[sent[k]].latency <= b.latency
      /\ \E k \in firsts : topic[sent[k]].latency = b.latency
      /\ \A s \in Classes : b.status_codes[s] =
            Cardinality({k \in firsts : topic[sent[k]].status \in ClassCodes(s)})
      /\ \E k \in firsts : b.timestamp = sent[k] /\ \A j \in firsts : k <= j
    BY DEF IsAggregateOf, firsts
<1>8. /\ b.responded = {topic'[sent'[k]].agent : k \in firsts}
      /\ \A k \in firsts : topic'[sent'[k]].latency <= b.latency
      /\ \E k \in firsts : topic'[sent'[k]].latency = b.latency
      /\ \A s \in Classes : b.status_codes[s] =
            Cardinality({k \in firsts : topic'[sent'[k]].status \in ClassCodes(s)})
      /\ \E k \in firsts : b.timestamp = sent'[k] /\ \A j \in firsts : k <= j
    BY <1>3, <1>4, <1>6, <1>7
<1> QED BY <1>5, <1>8 DEF IsAggregateOf

\* The next sample is a first answer if its agent did not answer before.
LEMMA NextAnswer ==
    ASSUME NEW n \in Nat, NEW c
    PROVE  LET m == topic[sent[n + 1]]
           IN  /\ Responders(c, n + 1) = Responders(c, n) \cup
                    (IF m.check = c THEN {m.agent} ELSE {})
               /\ FirstAnswers(c, n + 1) = FirstAnswers(c, n) \cup
                    (IF m.check = c /\ m.agent \notin Responders(c, n)
                     THEN {n + 1} ELSE {})
<1>1. \A k : k \in 1 .. n + 1 <=> k \in 1 .. n \/ k = n + 1
    OBVIOUS
<1>2. \A j : j \in 1 .. (n + 1) - 1 <=> j \in 1 .. n
    OBVIOUS
<1>3. Responders(c, n + 1) = Responders(c, n) \cup
            (IF topic[sent[n + 1]].check = c THEN {topic[sent[n + 1]].agent} ELSE {})
    BY <1>1 DEF Responders
<1>4. ASSUME NEW k
      PROVE  k \in FirstAnswers(c, n + 1) <=>
                \/ k \in FirstAnswers(c, n)
                \/ /\ k = n + 1 /\ topic[sent[n + 1]].check = c
                   /\ topic[sent[n + 1]].agent \notin Responders(c, n)
    <2>1. CASE k \in 1 .. n
        BY <2>1, <1>1 DEF FirstAnswers
    <2>2. CASE k = n + 1
        BY <2>2, <1>1, <1>2 DEF FirstAnswers, Responders
    <2> QED BY <2>1, <2>2, <1>1 DEF FirstAnswers
<1> QED BY <1>3, <1>4

\* A first answer is added to what the buffer has of the earlier ones.
LEMMA AggregateAdds ==
    ASSUME SourceOK, NEW n \in Nat, n + 1 \in 1 .. Len(sent), NEW b \in Buffers,
           LET m == topic[sent[n + 1]] IN
               /\ m.agent \notin Responders(m.check, n)
               /\ \/ BufferOK(b, m.check, n)
                  \/ b = NewBuffer(sent[n + 1]) /\ Responders(m.check, n) = {}
    PROVE  BufferOK(AddToBuffer(b, topic[sent[n + 1]]), topic[sent[n + 1]].check, n + 1)
<1> DEFINE m == topic[sent[n + 1]]
           new == AddToBuffer(b, m)
           old == FirstAnswers(m.check, n)
           firsts == old \cup {n + 1}
           answer(k) == topic[sent[k]]
<1>1. /\ m \in Samples /\ m.latency \in Nat /\ m.agent \in AgentIds
      /\ sent[n + 1] \in 1 .. MaxSamples
    <2>1. sent[n + 1] \in DOMAIN topic
        BY DEF SourceOK
    <2> QED BY SMTT(30), <2>1 DEF SourceOK, AgentIds
<1>2. /\ Responders(m.check, n + 1) = Responders(m.check, n) \cup {m.agent}
      /\ FirstAnswers(m.check, n + 1) = firsts
    BY NextAnswer
<1>3. old \subseteq 1 .. n /\ n + 1 \notin old /\ IsFiniteSet(1 .. n)
    <2>1. old \subseteq 1 .. n
        BY DEF FirstAnswers
    <2>2. n + 1 \notin 1 .. n
        OBVIOUS
    <2>3. IsFiniteSet(1 .. n)
        <3>1. 1 \in Int /\ n \in Int
            OBVIOUS
        <3> QED BY <3>1, FS_Interval
    <2> QED BY <2>1, <2>2, <2>3
<1>4. /\ new.responded = b.responded \cup {m.agent}
      /\ new.latency = IF m.latency > b.latency THEN m.latency ELSE b.latency
      /\ new.timestamp = b.timestamp
      /\ new.status_codes = [k \in Classes |->
            IF StatusClass(m.status) = k THEN b.status_codes[k] + 1 ELSE b.status_codes[k]]
      /\ new = [timestamp |-> new.timestamp, responded |-> new.responded,
                latency |-> new.latency, status_codes |-> new.status_codes]
    <2>1. b = [timestamp |-> b.timestamp, responded |-> b.responded,
               latency |-> b.latency, status_codes |-> b.status_codes]
        BY DEF Buffers
    <2>2. /\ new.responded = b.responded \cup {m.agent}
          /\ new.latency = IF m.latency > b.latency THEN m.latency ELSE b.latency
          /\ new.timestamp = b.timestamp
          /\ new.status_codes = [k \in Classes |->
                IF StatusClass(m.status) = k THEN b.status_codes[k] + 1
                ELSE b.status_codes[k]]
        BY <2>1 DEF AddToBuffer
    <2>3. new = [timestamp |-> new.timestamp, responded |-> new.responded,
                 latency |-> new.latency, status_codes |-> new.status_codes]
        <3> DEFINE responded == b.responded \cup {m.agent}
                   latency == IF m.latency > b.latency THEN m.latency ELSE b.latency
                   codes == [k \in Classes |->
                        IF StatusClass(m.status) = k THEN b.status_codes[k] + 1
                        ELSE b.status_codes[k]]
        <3>1. new = [[[b EXCEPT !.responded = responded]
                        EXCEPT !.latency = latency] EXCEPT !.status_codes = codes]
            BY <2>1 DEF AddToBuffer
        <3> HIDE DEF responded, latency, codes, new
        <3> QED BY <2>1, <3>1
    <2> QED BY <2>2, <2>3
<1>5. /\ b.responded = Responders(m.check, n)
      /\ b.responded = {answer(k).agent : k \in old}
      /\ \A k \in old : answer(k).latency <= b.latency
      /\ \/ old = {} /\ b.latency = 0
         \/ \E k \in old : answer(k).latency = b.latency
      /\ \A s \in Classes :
            b.status_codes[s] = Cardinality({k \in old : answer(k).status \in ClassCodes(s)})
      /\ \/ old = {} /\ b.timestamp = sent[n + 1]
         \/ \E k \in old : b.timestamp = sent[k] /\ \A j \in old : k <= j
      /\ \A s \in Classes : b.status_codes[s] <= Cardinality(b.responded)
    <2>1. CASE BufferOK(b, m.check, n)
        BY <2>1 DEF BufferOK, IsAggregateOf
    <2>2. CASE b = NewBuffer(sent[n + 1]) /\ Responders(m.check, n) = {}
        <3>1. old = {}
            BY ZenonT(40), <2>2 DEF Responders, FirstAnswers
        <3>2. \A s \in Classes : {k \in old : answer(k).status \in ClassCodes(s)} = {}
            BY <3>1
        <3>3. \A s \in Classes : b.status_codes[s] = 0
            BY <2>2 DEF NewBuffer
        <3>4. b.responded = {} /\ b.latency = 0 /\ b.timestamp = sent[n + 1]
            BY <2>2 DEF NewBuffer
        <3> HIDE DEF old
        <3> QED BY <2>2, <3>1, <3>2, <3>3, <3>4, FS_EmptySet
    <2> QED BY <2>1, <2>2
<1>6. /\ IsFiniteSet(b.responded) /\ b.responded \subseteq AgentIds
      /\ Cardinality(new.responded) = Cardinality(b.responded) + 1
      /\ Cardinality(b.responded) \in Nat
      /\ new.responded \subseteq AgentIds
      /\ Cardinality(new.responded) <= Cardinality(AgentIds)
      /\ Cardinality(AgentIds) \in Nat
    <2>1. b.responded \subseteq AgentIds /\ IsFiniteSet(b.responded)
        BY FS_Subset DEF Buffers
    <2>2. m.agent \notin b.responded
        BY <1>5
    <2>3. Cardinality(new.responded) = Cardinality(b.responded) + 1
        <3>1. Cardinality(b.responded \cup {m.agent}) = Cardinality(b.responded) + 1
            <4> HIDE DEF m
            <4> QED BY <2>1, <2>2, FS_AddElement
        <3> QED BY <1>4, <3>1
    <2>4. new.responded \subseteq AgentIds
        BY <1>1, <1>4, <2>1
    <2> QED BY <2>1, <2>3, <2>4, FS_Subset, FS_CardinalityType
<1>7. \A s \in Classes :
        /\ new.status_codes[s] =
                Cardinality({k \in firsts : answer(k).status \in ClassCodes(s)})
        /\ new.status_codes[s] <= Cardinality(new.responded)
        /\ new.status_codes[s] \in Nat
    <2> SUFFICES ASSUME NEW s \in Classes
                 PROVE  /\ new.status_codes[s] =
                            Cardinality({k \in firsts : answer(k).status \in ClassCodes(s)})
                        /\ new.status_codes[s] <= Cardinality(new.responded)
                        /\ new.status_codes[s] \in Nat
        OBVIOUS
    <2> DEFINE counted == {k \in old : answer(k).status \in ClassCodes(s)}
    <2>1. counted \subseteq 1 .. n /\ IsFiniteSet(counted) /\ n + 1 \notin counted
          /\ Cardinality(counted) \in Nat
        BY <1>3, FS_Subset, FS_CardinalityType
    <2>2. {k \in firsts : answer(k).status \in ClassCodes(s)} =
            IF m.status \in ClassCodes(s) THEN counted \cup {n + 1} ELSE counted
        OBVIOUS
    <2>3. Cardinality(counted \cup {n + 1}) = Cardinality(counted) + 1
        BY <2>1, FS_AddElement
    <2>4. /\ b.status_codes[s] = Cardinality(counted)
          /\ b.status_codes[s] <= Cardinality(b.responded)
        BY <1>5
    <2>5. new.status_codes[s] =
            IF m.status \in ClassCodes(s) THEN b.status_codes[s] + 1 ELSE b.status_codes[s]
        <3>1. m.status \in Nat
            BY <1>1, OffloaderAssumption
        <3>2. StatusClass(m.status) = s <=> m.status \in ClassCodes(s)
            BY <3>1, ClassOfCode
        <3> HIDE DEF m, new
        <3> QED BY <1>4, <3>2
    <2> DEFINE size == Cardinality(b.responded)
    <2>6. new.status_codes[s] =
            Cardinality({k \in firsts : answer(k).status \in ClassCodes(s)})
        <3> HIDE DEF new, m, counted, firsts, answer
        <3> QED BY <2>2, <2>3, <2>4, <2>5 DEF counted
    <2>7. new.status_codes[s] <= size + 1 /\ new.status_codes[s] \in Nat
        <3>1. size \in Nat BY <1>6
        <3> HIDE DEF counted, new, m, size
        <3>2. new.status_codes[s] = Cardinality(counted) + 1
              \/ new.status_codes[s] = Cardinality(counted)
            BY <2>4, <2>5
        <3> QED BY <2>1, <2>4, <3>1, <3>2 DEF size
    <2>8. Cardinality(new.responded) = size + 1
        BY <1>6
    <2> QED BY <2>6, <2>7, <2>8
<1>8. new \in Buffers
    <2>1. b.latency \in Nat /\ b.timestamp \in 1 .. MaxSamples
        BY DEF Buffers
    <2>2. new.latency \in Nat /\ new.timestamp \in 1 .. MaxSamples
        BY <1>1, <1>4, <2>1
    <2>3. new.status_codes \in [Classes -> 0 .. Cardinality(AgentIds)]
        <3>1. \A s \in Classes : new.status_codes[s] \in 0 .. Cardinality(AgentIds)
            <4> SUFFICES ASSUME NEW s \in Classes
                         PROVE  new.status_codes[s] \in 0 .. Cardinality(AgentIds)
                OBVIOUS
            <4>1. new.status_codes[s] \in Nat
                  /\ new.status_codes[s] <= Cardinality(new.responded)
                BY <1>7
            <4>2. Cardinality(new.responded) \in Nat
                BY <1>6
            <4> HIDE DEF new, m
            <4> QED BY <1>6, <4>1, <4>2
        <3>2. new.status_codes = [s \in Classes |-> new.status_codes[s]]
            BY <1>4
        <3> HIDE DEF new, m
        <3> QED BY <3>1, <3>2
    <2>4. new.responded \in SUBSET AgentIds
        BY <1>6
    <2> HIDE DEF new, m
    <2> QED BY <1>4, <2>2, <2>3, <2>4 DEF Buffers
<1>9. IsAggregateOf(new, m.check, n + 1)
    <2>1. answer(n + 1) = m
        OBVIOUS
    <2> HIDE DEF new, m, old
    <2>2. new.responded = {answer(k).agent : k \in firsts}
        BY <1>4, <1>5, <2>1
    <2>3. b.latency \in Nat /\ \A k \in old : answer(k).latency \in Nat
        <3>1. \A k \in old : answer(k) \in Samples
            <4>1. \A k \in old : k \in 1 .. Len(sent)
                BY <1>3 DEF SourceOK
            <4>2. \A k \in 1 .. Len(sent) : sent[k] \in DOMAIN topic
                BY DEF SourceOK
            <4> QED BY SMTT(30), <4>1, <4>2 DEF SourceOK
        <3> QED BY <3>1 DEF Buffers
    <2>4. /\ \A k \in firsts : answer(k).latency <= new.latency
          /\ \E k \in firsts : answer(k).latency = new.latency
        BY SMTT(30), <1>1, <1>4, <1>5, <2>1, <2>3
    <2>5. \E k \in firsts : new.timestamp = sent[k] /\ \A j \in firsts : k <= j
        <3>1. CASE old = {}
            BY <1>4, <1>5, <3>1
        <3>2. CASE old # {}
            <4>1. PICK k \in old : b.timestamp = sent[k] /\ \A j \in old : k <= j
                BY <1>5, <3>2
            <4>2. k <= n + 1
                BY <1>3
            <4> QED BY <1>4, <4>1, <4>2
        <3> QED BY <3>1, <3>2
    <2> HIDE DEF firsts
    <2> QED BY <1>2, <1>7, <2>2, <2>4, <2>5 DEF IsAggregateOf
<1> HIDE DEF new, firsts, old
<1> QED BY <1>2, <1>4, <1>5, <1>7, <1>8, <1>9 DEF BufferOK, new

\* A sample of another check, or of an agent heard before, leaves the buffer right.
LEMMA BufferStays ==
    ASSUME NEW n \in Nat, NEW b, NEW c, BufferOK(b, c, n),
           \/ topic[sent[n + 1]].check # c
           \/ topic[sent[n + 1]].agent \in Responders(c, n)
    PROVE  BufferOK(b, c, n + 1)
<1> DEFINE m == topic[sent[n + 1]]
<1>1. /\ Responders(c, n + 1) = Responders(c, n) \cup (IF m.check = c THEN {m.agent} ELSE {})
      /\ FirstAnswers(c, n + 1) = FirstAnswers(c, n) \cup
            (IF m.check = c /\ m.agent \notin Responders(c, n) THEN {n + 1} ELSE {})
    BY NextAnswer
<1>2. m.check # c \/ m.agent \in Responders(c, n)
    OBVIOUS
<1> HIDE DEF m
<1>3. /\ FirstAnswers(c, n + 1) = FirstAnswers(c, n)
      /\ Responders(c, n + 1) = Responders(c, n)
    BY <1>1, <1>2
<1> QED BY <1>3 DEF BufferOK, IsAggregateOf

LEMMA BuffersKept ==
    ASSUME SourceOK, TopicGrows, SentGrows, NEW n \in 0 .. Len(sent), NEW b, NEW c,
           BufferOK(b, c, n)
    PROVE  BufferOK(b, c, n)'
<1>1. IsAggregateOf(b, c, n)'
    BY AggregatesKept DEF BufferOK
<1>2. Responders(c, n)' = Responders(c, n)
    BY AnswersKept
<1> QED BY <1>1, <1>2 DEF BufferOK, Buffers

\* Without a step of its own or a restart, the aggregator stays as it is.
LEMMA AggregatorKept ==
    ASSUME SourceOK, AggregatorOK, TopicGrows, SentGrows, SourceOK',
           UNCHANGED <<aggregator, published>>
    PROVE  AggregatorOK'
<1>1. Len(sent) \in Nat /\ Len(sent') \in Nat /\ Len(sent) <= Len(sent')
    BY DEF SourceOK, SentGrows
<1>2. aggregator.next - 1 \in 0 .. Len(sent) /\ aggregator.next \in 1 .. Len(sent') + 1
    BY <1>1 DEF AggregatorOK
<1>3. \A c \in DOMAIN aggregator.buffer :
            BufferOK(aggregator.buffer[c], c, aggregator.next - 1)'
    BY <1>2, BuffersKept DEF AggregatorOK
<1>4. \A k \in 1 .. aggregator.next - 1 : topic'[sent'[k]] = topic[sent[k]]
    BY <1>2, AnswersKept
<1>5. \A p \in published :
            p.after \in 0 .. Len(sent') /\ IsAggregateOf(p.buffer, p.check, p.after)'
    BY <1>1, AggregatesKept DEF AggregatorOK
<1> QED BY <1>1, <1>2, <1>3, <1>4, <1>5 DEF AggregatorOK, Buffers

\* What has to be shown of a step of the aggregator.
LEMMA AggregatorSet ==
    ASSUME SourceOK, SourceOK', topic' = topic, sent' = sent,
           NEW at \in {"running", "sending", "stopped"},
           NEW next \in 1 .. Len(sent) + 1, NEW buffer,
           aggregator' = [at |-> at, next |-> next, buffer |-> buffer],
           DOMAIN buffer \subseteq Checks,
           \A c \in DOMAIN buffer : BufferOK(buffer[c], c, next - 1),
           at # "stopped" => \A k \in 1 .. next - 1 : topic[sent[k]].check \in DOMAIN buffer,
           at = "sending" => next > 1,
           \A p \in published' :
                /\ p.check \in Checks /\ p.buffer \in Buffers /\ p.after \in 0 .. Len(sent)
                /\ IsAggregateOf(p.buffer, p.check, p.after)
    PROVE  AggregatorOK'
<1>1. SentGrows /\ TopicGrows /\ next - 1 \in 0 .. Len(sent)
    BY DEF SentGrows, TopicGrows, SourceOK
<1>2. \A c \in DOMAIN buffer : BufferOK(buffer[c], c, next - 1)'
    BY <1>1, BuffersKept
<1>3. \A p \in published' : IsAggregateOf(p.buffer, p.check, p.after)'
    BY <1>1, AggregatesKept
<1> QED BY <1>2, <1>3 DEF AggregatorOK, Buffers

LEMMA AggregatorStays ==
    ASSUME SourceOK, AggregatorOK, Next
    PROVE  AggregatorOK'
<1>1. SourceOK' /\ TopicGrows /\ (SentGrows \/ restart)
    BY SourceKept
<1>2. CASE ~ restart /\ UNCHANGED <<aggregator, published>>
    BY <1>1, <1>2, AggregatorKept
<1>3. CASE restart
    <2>1. /\ aggregator' = [at |-> "running", next |-> 1, buffer |-> EmptyBuffer]
          /\ published' = {} /\ sent' = <<>>
        BY <1>3 DEF restart, StartAggregator
    <2>2. DOMAIN EmptyBuffer = {}
        BY DEF EmptyBuffer
    <2>3. Len(sent') = 0
        BY <2>1, EmptySeq
    <2> QED BY <2>1, <2>2, <2>3 DEF AggregatorOK
<1> DEFINE next == aggregator.next
           n == aggregator.next - 1
           old == aggregator.buffer
           m == topic[sent[next]]
<1>4. /\ next \in 1 .. Len(sent) + 1 /\ Len(sent) \in Nat
      /\ n \in 0 .. Len(sent) /\ n + 1 = next
      /\ DOMAIN old \subseteq Checks
      /\ \A c \in DOMAIN old : BufferOK(old[c], c, n)
      /\ \A p \in published :
            /\ p.check \in Checks /\ p.buffer \in Buffers /\ p.after \in 0 .. Len(sent)
            /\ IsAggregateOf(p.buffer, p.check, p.after)
    BY DEF AggregatorOK, SourceOK
<1>5. CASE aggregator_lagged
    <2>1. /\ aggregator' = [at |-> "stopped", next |-> next, buffer |-> EmptyBuffer]
          /\ UNCHANGED <<topic, sent, published>>
        BY <1>5 DEF aggregator_lagged, AggregatorOK, sourceVars
    <2>2. DOMAIN EmptyBuffer = {}
        BY DEF EmptyBuffer
    <2> HIDE DEF next
    <2> QED BY <1>1, <1>4, <2>1, <2>2, AggregatorSet
<1>6. CASE aggregator_send
    <2> DEFINE c == topic[sent[n]].check
    <2>1. /\ aggregator.at = "sending" /\ aggregator' = [aggregator EXCEPT !.at = "running"]
          /\ published' \in {published, {[check |-> c, after |-> n, buffer |-> old[c]]}}
          /\ topic' = topic /\ sent' = sent
        BY <1>6 DEF aggregator_send, sourceVars
    <2>2. aggregator' = [at |-> "running", next |-> next, buffer |-> old]
        BY <2>1 DEF AggregatorOK
    <2>3. c \in DOMAIN old
        BY <1>4, <2>1 DEF AggregatorOK
    <2>4. c \in Checks /\ old[c] \in Buffers /\ IsAggregateOf(old[c], c, n)
        BY <1>4, <2>3 DEF BufferOK
    <2>5. \A p \in published' :
            /\ p.check \in Checks /\ p.buffer \in Buffers /\ p.after \in 0 .. Len(sent)
            /\ IsAggregateOf(p.buffer, p.check, p.after)
        <3>1. CASE published' = published
            BY <1>4, <3>1
        <3>2. CASE published' = {[check |-> c, after |-> n, buffer |-> old[c]]}
            <4> HIDE DEF c, n, old
            <4> QED BY <1>4, <2>4, <3>2
        <3> QED BY <2>1, <3>1, <3>2
    <2>6. /\ \A k \in 1 .. next - 1 : topic[sent[k]].check \in DOMAIN old
          /\ \A d \in DOMAIN old : BufferOK(old[d], d, next - 1)
        BY <1>4, <2>1 DEF AggregatorOK
    <2> HIDE DEF c, n, old, next
    <2> QED BY <1>1, <1>4, <2>1, <2>2, <2>5, <2>6, AggregatorSet
<1>7. CASE aggregator_recv
    <2> DEFINE b == IF m.check \in DOMAIN old THEN old[m.check] ELSE NewBuffer(sent[next])
               new == [d \in DOMAIN old \cup {m.check} |->
                            IF d = m.check THEN AddToBuffer(b, m) ELSE old[d]]
    <2>0. /\ aggregator.at = "running" /\ next <= Len(sent)
          /\ UNCHANGED <<topic, sent, published>>
        BY <1>7 DEF aggregator_recv, Available, sourceVars
    <2>1. /\ aggregator.at = "running" /\ next \in 1 .. Len(sent)
          /\ UNCHANGED <<topic, sent, published>>
          /\ aggregator' = IF m.agent \in b.responded
                           THEN [aggregator EXCEPT !.at = "sending", !.next = @ + 1]
                           ELSE [aggregator EXCEPT !.next = @ + 1, !.buffer = new]
        <3>1. next \in 1 .. Len(sent)
            BY <1>4, <2>0
        <3>2. aggregator' = IF m.agent \in b.responded
                            THEN [aggregator EXCEPT !.at = "sending", !.next = @ + 1]
                            ELSE [aggregator EXCEPT !.next = @ + 1, !.buffer = new]
            BY <1>7 DEF aggregator_recv
        <3> QED BY <2>0, <3>1, <3>2
    <2>2. /\ m \in Samples /\ m.check \in Checks /\ sent[next] \in 1 .. MaxSamples
        <3>1. sent \in Seq(DOMAIN topic)
            BY DEF SourceOK
        <3>2. sent[next] \in DOMAIN topic
            <4>1. next \in 1 .. Len(sent)
                BY <2>1
            <4> HIDE DEF next, m, old, n, b, new
            <4> QED BY <3>1, <4>1, ElementOfSeq
        <3>3. /\ topic \in Seq(Samples) /\ DOMAIN topic = 1 .. Len(topic)
              /\ Len(topic) \in 0 .. MaxSamples
            BY DEF SourceOK
        <3>4. sent[next] \in 1 .. Len(topic)
            BY <3>2, <3>3
        <3>5. sent[next] \in 1 .. MaxSamples /\ m \in Samples
            <4> HIDE DEF next
            <4> QED BY <3>3, <3>4, ElementOfSeq
        <3> QED BY <3>5 DEF Checks
    <2>3. aggregator = [at |-> "running", next |-> next, buffer |-> old]
        BY <2>1 DEF AggregatorOK
    <2>4. /\ n \in Nat /\ n + 1 = next /\ m = topic[sent[n + 1]]
          /\ next + 1 \in 1 .. Len(sent) + 1 /\ next + 1 > 1 /\ (next + 1) - 1 = n + 1
        <3> HIDE DEF n, next
        <3> QED BY <1>4, <2>1
    <2>5. \A k \in 1 .. n : topic[sent[k]].check \in DOMAIN old
        BY <2>1 DEF AggregatorOK
    <2>6. m.check \in DOMAIN old => b = old[m.check] /\ BufferOK(b, m.check, n)
        BY <1>4
    <2>7. m.check \notin DOMAIN old =>
            b = NewBuffer(sent[next]) /\ Responders(m.check, n) = {}
        BY <2>5 DEF Responders
    <2>8. b.responded = Responders(m.check, n)
        BY <2>6, <2>7 DEF BufferOK, NewBuffer
    <2>9. \A d \in DOMAIN old :
            d # m.check \/ m.agent \in Responders(d, n) => BufferOK(old[d], d, n + 1)
        <3> HIDE DEF n, next, m, old
        <3> QED BY <1>4, <2>4, BufferStays
    <2>10. ASSUME NEW at \in {"running", "sending"}, NEW buffer,
                  aggregator' = [at |-> at, next |-> next + 1, buffer |-> buffer],
                  DOMAIN buffer = DOMAIN old \cup {m.check},
                  \A d \in DOMAIN buffer : BufferOK(buffer[d], d, n + 1)
           PROVE  AggregatorOK'
        <3>1. \A k \in 1 .. n + 1 : topic[sent[k]].check \in DOMAIN buffer
            <4>1. \A k \in 1 .. n + 1 : k \in 1 .. n \/ k = n + 1
                BY <2>4
            <4> QED BY <2>4, <2>5, <2>10, <4>1
        <3>2. DOMAIN buffer \subseteq Checks
            BY <1>4, <2>2, <2>10
        <3> HIDE DEF n, next, m, old
        <3> QED BY <1>1, <1>4, <2>1, <2>4, <2>10, <3>1, <3>2, AggregatorSet
    <2>11. CASE m.agent \in b.responded
        <3>1. aggregator' = [at |-> "sending", next |-> next + 1, buffer |-> old]
            BY <2>1, <2>3, <2>11
        <3>2. m.check \in DOMAIN old
            BY <2>7, <2>8, <2>11
        <3>3. \A d \in DOMAIN old : BufferOK(old[d], d, n + 1)
            BY <2>8, <2>9, <2>11
        <3>4. DOMAIN old = DOMAIN old \cup {m.check}
            BY <3>2
        <3> HIDE DEF n, next, m, old
        <3> QED BY <2>10, <3>1, <3>3, <3>4
    <2>12. CASE m.agent \notin b.responded
        <3>1. aggregator' = [at |-> "running", next |-> next + 1, buffer |-> new]
            BY <2>1, <2>3, <2>12
        <3>2. b \in Buffers
            <4>1. CASE m.check \in DOMAIN old
                BY <2>6, <4>1 DEF BufferOK
            <4>2. CASE m.check \notin DOMAIN old
                <5>1. Cardinality(AgentIds) \in Nat
                    BY FS_CardinalityType
                <5> QED BY <2>2, <2>7, <4>2, <5>1 DEF NewBuffer, Buffers
            <4> QED BY <4>1, <4>2
        <3>3. BufferOK(AddToBuffer(b, m), m.check, n + 1)
            <4>1. n + 1 \in 1 .. Len(sent)
                BY <2>1, <2>4
            <4> HIDE DEF n, next, b, m, old
            <4> QED BY <2>4, <2>6, <2>7, <2>8, <2>12, <3>2, <4>1, AggregateAdds
        <3>4. /\ DOMAIN new = DOMAIN old \cup {m.check}
              /\ \A d \in DOMAIN new :
                    new[d] = IF d = m.check THEN AddToBuffer(b, m) ELSE old[d]
            OBVIOUS
        <3>5. \A d \in DOMAIN new : BufferOK(new[d], d, n + 1)
            <4> HIDE DEF new, b, m, old, n
            <4> QED BY <2>9, <3>3, <3>4
        <3> HIDE DEF new, n, next, m, old
        <3> QED BY <2>10, <3>1, <3>4, <3>5
    <2> QED BY <2>11, <2>12
<1>8. \/ ~ restart /\ UNCHANGED <<aggregator, published>>
      \/ restart \/ aggregator_recv \/ aggregator_lagged \/ aggregator_send
    BY DEF Next, SourceStep, AggregatorStep, Warp10Step, to_message, try_next,
           broadcast, ack, reconnect, subscription_ends, warp10_recv, warp10_lagged, warp10_send
<1> QED BY <1>2, <1>3, <1>5, <1>6, <1>7, <1>8

----------------------------------------------------------------------------
OffloaderInv == AccountsInv /\ AggregatorOK

LEMMA InitInv == Init => OffloaderInv
<1> SUFFICES ASSUME Init PROVE OffloaderInv
    OBVIOUS
<1>1. /\ <<>> \in Seq(Samples) /\ Len(<<>>) = 0 /\ DOMAIN <<>> = {}
      /\ sent \in Seq(DOMAIN topic)
    BY EmptySeq DEF Init
<1>2. SourceOK
    BY <1>1 DEF Init, SourceOK
<1>3. Warp10OK
    BY <1>1 DEF Init, Warp10OK, StartWarp10
<1>4. AccountedSoFar
    BY <1>1 DEF Init, AccountedSoFar, Told
<1>5. AggregatorOK
    <2>1. DOMAIN EmptyBuffer = {}
        BY DEF EmptyBuffer
    <2> QED BY <1>1, <2>1 DEF Init, AggregatorOK, StartAggregator
<1> QED BY <1>2, <1>3, <1>4, <1>5 DEF OffloaderInv, AccountsInv

LEMMA OffloaderInvariant == Spec => []OffloaderInv
<1>1. OffloaderInv /\ [Next]_vars => OffloaderInv'
    <2> SUFFICES ASSUME OffloaderInv, [Next]_vars PROVE OffloaderInv'
        OBVIOUS
    <2>1. CASE Next
        BY <2>1, AccountsStep, AggregatorStays DEF OffloaderInv, AccountsInv
    <2>2. CASE UNCHANGED vars
        <3>1. AccountsInv'
            BY <2>2 DEF vars, OffloaderInv, AccountsInv, SourceOK, Warp10OK,
                        AccountedSoFar, Told, Accounted, Underway
        <3>2. AggregatorOK'
            <4>1. SourceOK' BY <3>1 DEF AccountsInv
            <4>2. TopicGrows /\ SentGrows
                BY <2>2 DEF vars, TopicGrows, SentGrows, OffloaderInv, AccountsInv, SourceOK
            <4> QED BY <2>2, <4>1, <4>2, AggregatorKept DEF vars, OffloaderInv, AccountsInv
        <3> QED BY <3>1, <3>2 DEF OffloaderInv
    <2> QED BY <2>1, <2>2
<1> QED BY InitInv, <1>1, PTL DEF Spec

\* The types; no count of an aggregate exceeds the number of agents.
THEOREM OffloaderTypes == Spec => []TypeOK
<1>1. OffloaderInv => TypeOK
    BY DEF OffloaderInv, AccountsInv, SourceOK, Warp10OK, AggregatorOK, BufferOK, TypeOK
<1> QED BY OffloaderInvariant, <1>1, PTL

\* What the aggregator keeps and sends is the aggregate of the first answer of each
\* agent since the process started, without a gap.
THEOREM AggregatesCorrect == Spec => []AggregatesAreFirstAnswers
<1>1. OffloaderInv => AggregatesAreFirstAnswers
    BY DEF OffloaderInv, AggregatorOK, BufferOK, AggregatesAreFirstAnswers
<1> QED BY OffloaderInvariant, <1>1, PTL

\* A sample the broker was told is done with has come to one of its ends, or is on its
\* way to warp10.
THEOREM NothingAcknowledgedIsForgotten == Spec => []AcknowledgedSamplesAccounted
<1>1. OffloaderInv => AcknowledgedSamplesAccounted
    BY DEF OffloaderInv, AccountsInv, AccountedSoFar, Told, Accounted,
           AcknowledgedSamplesAccounted
<1> QED BY OffloaderInvariant, <1>1, PTL

----------------------------------------------------------------------------
(* The promise: what is ahead of warp10.                                   *)

\* The sample the source holds can be read, and the broker has not heard of it.
SourceHolds ==
    source.at \in {"received", "sent"} =>
        /\ source.msg \in DOMAIN topic \ acked
        /\ Readable(source.msg)

\* The position of the first sample warp10 has not seen the end of.
From == IF warp10.at = "posting" THEN warp10.next - 1 ELSE warp10.next

\* What is left of a sequence from some position on.
LEMMA SuffixIs ==
    ASSUME NEW S, NEW s \in Seq(S), NEW m \in 1 .. Len(s) + 1
    PROVE  /\ SubSeq(s, m, Len(s)) \in Seq(S)
           /\ Len(SubSeq(s, m, Len(s))) = Len(s) - m + 1
           /\ \A k \in 1 .. Len(s) - m + 1 : SubSeq(s, m, Len(s))[k] = s[m + k - 1]
<1>1. Len(s) \in Nat /\ \A k \in 1 .. Len(s) : s[k] \in S
    OBVIOUS
<1>2. m \in Int /\ Len(s) \in Int /\ \A k \in m .. Len(s) : s[k] \in S
    BY <1>1
<1> DEFINE t == SubSeq(s, m, Len(s))
<1>3. /\ t \in Seq(S) /\ Len(t) = IF m <= Len(s) THEN Len(s) - m + 1 ELSE 0
      /\ \A k \in 1 .. Len(s) - m + 1 : t[k] = s[m + k - 1]
    BY <1>2, SubSeqProperties
<1> HIDE DEF t
<1>4. Len(t) = Len(s) - m + 1
    BY <1>1, <1>3
<1> QED BY <1>3, <1>4 DEF t

\* An element put at the end of a sequence is put at the end of what is left.
LEMMA SuffixOfAppend ==
    ASSUME NEW S, NEW s \in Seq(S), NEW e \in S, NEW m \in 1 .. Len(s) + 1
    PROVE  SubSeq(Append(s, e), m, Len(Append(s, e))) = Append(SubSeq(s, m, Len(s)), e)
<1> DEFINE long == Append(s, e)
           t == SubSeq(s, m, Len(s))
           u == SubSeq(long, m, Len(long))
           v == Append(t, e)
<1>1. /\ long \in Seq(S) /\ Len(long) = Len(s) + 1 /\ long[Len(s) + 1] = e
      /\ \A k \in 1 .. Len(s) : long[k] = s[k]
    BY AppendProperties
<1>2. Len(s) \in Nat
    OBVIOUS
<1>3. /\ t \in Seq(S) /\ Len(t) = Len(s) - m + 1
      /\ \A k \in 1 .. Len(s) - m + 1 : t[k] = s[m + k - 1]
    BY SuffixIs
<1> HIDE DEF t, long
<1>4. /\ v \in Seq(S) /\ Len(v) = Len(t) + 1 /\ v[Len(t) + 1] = e
      /\ \A k \in 1 .. Len(t) : v[k] = t[k]
    BY <1>3, AppendProperties
<1>5. m \in 1 .. Len(long) + 1
    BY <1>1, <1>2
<1>6. /\ u \in Seq(S) /\ Len(u) = Len(long) - m + 1
      /\ \A k \in 1 .. Len(long) - m + 1 : u[k] = long[m + k - 1]
    BY <1>1, <1>5, SuffixIs
<1> HIDE DEF u, v
<1>7. Len(u) = Len(v) /\ Len(u) = Len(t) + 1 /\ Len(t) \in Nat
    BY <1>1, <1>2, <1>3, <1>4, <1>6
<1>8. ASSUME NEW k \in 1 .. Len(u) PROVE u[k] = v[k]
    <2>1. CASE k = Len(t) + 1
        <3>1. m + k - 1 = Len(s) + 1 /\ k \in 1 .. Len(long) - m + 1
            BY <1>1, <1>2, <1>3, <2>1
        <3> QED BY <1>1, <1>4, <1>6, <2>1, <3>1
    <2>2. CASE k \in 1 .. Len(t)
        <3>1. /\ m + k - 1 \in 1 .. Len(s) /\ k \in 1 .. Len(s) - m + 1
              /\ k \in 1 .. Len(long) - m + 1
            BY <1>1, <1>2, <1>3, <2>2
        <3> QED BY <1>1, <1>3, <1>4, <1>6, <2>2, <3>1
    <2> QED BY <1>7, <2>1, <2>2
<1>9. u = v
    BY <1>4, <1>6, <1>7, <1>8, SeqEqual
<1> QED BY <1>9 DEF u, v, t, long

\* Of what is left, the first n elements are left out.
LEMMA SuffixOfSuffix ==
    ASSUME NEW S, NEW s \in Seq(S), NEW m \in 1 .. Len(s) + 1, NEW n \in 0 .. Len(s) - m + 1,
           NEW t, t = SubSeq(s, m, Len(s))
    PROVE  SubSeq(t, n + 1, Len(t)) = SubSeq(s, m + n, Len(s))
<1> DEFINE u == SubSeq(t, n + 1, Len(t))
           v == SubSeq(s, m + n, Len(s))
<1>1. Len(s) \in Nat /\ m + n \in 1 .. Len(s) + 1
    OBVIOUS
<1>2. /\ t \in Seq(S) /\ Len(t) = Len(s) - m + 1
      /\ \A k \in 1 .. Len(s) - m + 1 : t[k] = s[m + k - 1]
    BY SuffixIs
<1>3. /\ v \in Seq(S) /\ Len(v) = Len(s) - (m + n) + 1
      /\ \A k \in 1 .. Len(s) - (m + n) + 1 : v[k] = s[(m + n) + k - 1]
    <2> DEFINE p == m + n
    <2> HIDE DEF p
    <2>1. p \in 1 .. Len(s) + 1
        BY <1>1 DEF p
    <2>2. /\ SubSeq(s, p, Len(s)) \in Seq(S) /\ Len(SubSeq(s, p, Len(s))) = Len(s) - p + 1
          /\ \A k \in 1 .. Len(s) - p + 1 : SubSeq(s, p, Len(s))[k] = s[p + k - 1]
        BY <2>1, SuffixIs
    <2> QED BY <2>2 DEF p
<1>4. n + 1 \in 1 .. Len(t) + 1
    BY <1>1, <1>2
<1>5. /\ u \in Seq(S) /\ Len(u) = Len(t) - (n + 1) + 1
      /\ \A k \in 1 .. Len(t) - (n + 1) + 1 : u[k] = t[(n + 1) + k - 1]
    <2> DEFINE p == n + 1
    <2> HIDE DEF p
    <2>1. p \in 1 .. Len(t) + 1
        BY <1>4 DEF p
    <2>2. /\ SubSeq(t, p, Len(t)) \in Seq(S) /\ Len(SubSeq(t, p, Len(t))) = Len(t) - p + 1
          /\ \A k \in 1 .. Len(t) - p + 1 : SubSeq(t, p, Len(t))[k] = t[p + k - 1]
        BY <1>2, <2>1, SuffixIs
    <2> QED BY <2>2 DEF p
<1> HIDE DEF u, v
<1>6. Len(u) = Len(v)
    BY <1>1, <1>2, <1>3, <1>5
<1>7. ASSUME NEW k \in 1 .. Len(u) PROVE u[k] = v[k]
    <2>1. /\ Len(t) = Len(s) - m + 1 /\ Len(u) = Len(t) - (n + 1) + 1
          /\ Len(s) \in Nat /\ m \in Nat /\ n \in Nat
        BY <1>1, <1>2, <1>5
    <2> DEFINE lenS == Len(s)
               lenT == Len(t)
               lenU == Len(u)
    <2> HIDE DEF lenS, lenT, lenU
    <2>2. lenT = lenS - m + 1 /\ lenU = lenT - (n + 1) + 1 /\ k \in 1 .. lenU
          /\ lenS \in Nat
        BY <2>1 DEF lenS, lenT, lenU
    <2>3. /\ k \in 1 .. lenT - (n + 1) + 1 /\ k \in 1 .. lenS - (m + n) + 1
          /\ (n + 1) + k - 1 \in 1 .. lenS - m + 1
          /\ m + ((n + 1) + k - 1) - 1 = (m + n) + k - 1
        BY <2>1, <2>2
    <2>4. /\ u[k] = t[(n + 1) + k - 1]
          /\ t[(n + 1) + k - 1] = s[m + ((n + 1) + k - 1) - 1]
          /\ v[k] = s[(m + n) + k - 1]
        BY <1>2, <1>3, <1>5, <2>3 DEF lenS, lenT, lenU
    <2> QED BY <2>3, <2>4
<1> QED BY <1>3, <1>5, <1>6, <1>7, SeqEqual DEF u, v

LEMMA SourceHoldsStep ==
    ASSUME SourceOK, SourceHolds, Next
    PROVE  SourceHolds'
<1>1. /\ DOMAIN topic \subseteq DOMAIN topic'
      /\ \A i \in DOMAIN topic : topic'[i] = topic[i]
    <2>1. /\ DOMAIN topic = 1 .. Len(topic) /\ Len(topic) \in Nat
          /\ DOMAIN topic' = 1 .. Len(topic') /\ Len(topic') \in Nat
        BY SourceKept DEF SourceOK
    <2> QED BY <2>1, SourceKept DEF TopicGrows
<1>2. CASE try_next
    BY <1>1, <1>2 DEF try_next, SourceHolds, Readable
<1>3. CASE broadcast
    <2>1. source'.msg = source.msg /\ acked' = acked /\ source.at = "received"
        BY <1>3 DEF broadcast, SourceOK
    <2> QED BY <1>1, <2>1 DEF SourceHolds, Readable
<1>4. CASE ack \/ restart \/ subscription_ends
    <2>1. source'.at \in {"idle", "ended"}
        BY <1>4 DEF ack, restart, subscription_ends, SourceOK
    <2> QED BY <2>1 DEF SourceHolds
<1>5. CASE UNCHANGED <<source, acked>>
    BY <1>1, <1>5 DEF SourceHolds, Readable
<1> QED
    BY <1>2, <1>3, <1>4, <1>5
    DEF Next, SourceStep, AggregatorStep, Warp10Step, to_message, reconnect,
        aggregator_recv, aggregator_lagged, aggregator_send,
        warp10_recv, warp10_lagged, warp10_send, sourceVars

LEMMA AheadIs ==
    ASSUME SourceOK, Warp10OK
    PROVE  /\ From \in 1 .. Len(sent) + 1 /\ Len(sent) \in Nat
           /\ Ahead = SubSeq(sent, From, Len(sent)) /\ Ahead \in Seq(DOMAIN topic)
           /\ Len(Ahead) = Len(sent) - From + 1
           /\ \A k \in 1 .. Len(Ahead) : Ahead[k] = sent[From + k - 1]
           /\ DOMAIN Ahead = 1 .. Len(Ahead)
<1>1. Len(sent) \in Nat /\ sent \in Seq(DOMAIN topic)
    BY DEF SourceOK
<1>2. From \in 1 .. Len(sent) + 1
    BY <1>1 DEF Warp10OK, From
<1>3. Ahead = SubSeq(sent, From, Len(sent))
    BY DEF Ahead, From
<1> HIDE DEF From
<1>4. /\ Ahead \in Seq(DOMAIN topic) /\ Len(Ahead) = Len(sent) - From + 1
      /\ \A k \in 1 .. Len(sent) - From + 1 : Ahead[k] = sent[From + k - 1]
    BY <1>1, <1>2, <1>3, SuffixIs
<1> QED BY <1>1, <1>2, <1>3, <1>4, LenProperties

LEMMA UnderwayIsAhead ==
    ASSUME SourceOK, Warp10OK
    PROVE  Underway = {Ahead[k] : k \in DOMAIN Ahead}
<1>1. Underway = {sent[k] : k \in From .. Len(sent)}
    <2>1. Len(sent) \in Nat /\ warp10.next \in 1 .. Len(sent) + 1
        BY DEF SourceOK, Warp10OK
    <2>2. CASE warp10.at = "posting"
        <3>1. From = warp10.next - 1 /\ warp10.next > 1
            BY <2>2 DEF From, Warp10OK
        <3>2. From .. Len(sent) = (warp10.next .. Len(sent)) \cup {warp10.next - 1}
            BY <2>1, <3>1
        <3> QED BY <2>2, <3>2 DEF Underway
    <2>3. CASE warp10.at # "posting"
        BY <2>3 DEF Underway, From
    <2> QED BY <2>2, <2>3
<1> HIDE DEF From
<1>2. \A k \in From .. Len(sent) :
        k - From + 1 \in DOMAIN Ahead /\ Ahead[k - From + 1] = sent[k]
    BY AheadIs
<1>3. \A k \in DOMAIN Ahead :
        From + k - 1 \in From .. Len(sent) /\ Ahead[k] = sent[From + k - 1]
    BY AheadIs
<1> QED BY <1>1, <1>2, <1>3

DeliveryInv == SourceOK /\ Warp10OK /\ AccountedSoFar /\ SourceHolds

\* What agents sent that can be read, and of that, what the broker heard of.
Produced == {i \in DOMAIN topic : Readable(i)}
Done == {i \in acked : Readable(i)}

LEMMA SameDelivery ==
    ASSUME UNCHANGED <<topic, acked, Ahead, fates>>
    PROVE  UNCHANGED Delivery!vars
    BY DEF Delivery!vars, Readable

LEMMA Accounting ==
    ASSUME SourceOK, Warp10OK, NEW i
    PROVE  Accounted(i) <=> Delivery!Ahead(i) \/ Delivery!Ended(i)
    BY UnderwayIsAhead DEF Accounted, Delivery!Ahead, Delivery!Ended

\* An agent sends a sample: one that can be read is produced.
LEMMA SendPromise ==
    ASSUME DeliveryInv, NEW m \in Samples, to_message(m)
    PROVE  Delivery!Next \/ UNCHANGED Delivery!vars
<1> DEFINE n == Len(topic) + 1
<1>1. /\ acked \subseteq DOMAIN topic /\ DOMAIN topic = 1 .. Len(topic)
      /\ Len(topic) \in Nat
    BY DEF DeliveryInv, SourceOK
<1>2. /\ n \in 1 .. MaxSamples /\ n \notin DOMAIN topic
      /\ topic' = Append(topic, m)
      /\ UNCHANGED <<acked, sent, warp10, fates>>
    BY <1>1 DEF to_message
<1>3. /\ DOMAIN topic' = DOMAIN topic \cup {n} /\ topic'[n] = m
      /\ \A i \in DOMAIN topic : topic'[i] = topic[i]
    <2>1. topic \in Seq(Samples)
        BY DEF DeliveryInv, SourceOK
    <2> QED BY <1>1, <1>2, <2>1
<1>4. UNCHANGED <<Ahead, fates>>
    BY <1>2 DEF Ahead
<1> HIDE DEF n
<1>5. Done' = Done
    BY <1>1, <1>2, <1>3 DEF Done, Readable
<1>6. CASE m.valid
    <2>1. Produced' = Produced \cup {n} /\ n \notin Produced
        BY <1>2, <1>3, <1>6 DEF Produced, Readable
    <2>2. Delivery!Produce(n)
        BY <1>4, <1>5, <2>1 DEF Delivery!Produce, Produced, Done
    <2> QED BY <1>2, <2>2 DEF Delivery!Next
<1>7. CASE ~ m.valid
    <2>1. Produced' = Produced
        BY <1>2, <1>3, <1>7 DEF Produced, Readable
    <2> QED BY <1>4, <1>5, <2>1 DEF Delivery!vars, Produced, Done
<1> QED BY <1>6, <1>7 DEF DeliveryInv, SourceOK

\* The source takes a sample: one that cannot be read was never produced.
LEMMA TakePromise ==
    ASSUME DeliveryInv, try_next
    PROVE  UNCHANGED Delivery!vars
<1>1. PICK i \in DOMAIN topic \ (acked \cup delivered) :
        IF topic[i].valid THEN acked' = acked ELSE Acknowledge(i)
    BY DEF try_next
<1>2. UNCHANGED <<topic, sent, warp10, fates>>
    BY DEF try_next
<1>3. Produced' = Produced /\ UNCHANGED <<Ahead, fates>>
    BY <1>2 DEF Produced, Readable, Ahead
<1>4. acked \subseteq acked' /\ acked' \subseteq acked \cup {j \in {i} : ~ Readable(j)}
    BY <1>1 DEF Acknowledge, Readable
<1>5. Done' = Done
    BY <1>2, <1>4 DEF Done, Readable
<1> QED BY <1>3, <1>5 DEF Delivery!vars, Produced, Done

\* The source broadcasts it: it is taken.
LEMMA BroadcastPromise ==
    ASSUME DeliveryInv, broadcast
    PROVE  Delivery!Next
<1> DEFINE i == source.msg
<1>1. /\ i \in DOMAIN topic \ acked /\ Readable(i) /\ sent' = Append(sent, i)
      /\ UNCHANGED <<topic, acked, warp10, fates>>
    BY DEF DeliveryInv, SourceHolds, broadcast
<1>2. i \in Produced \ Done
    BY <1>1 DEF Produced, Done
<1>3. i \in 1 .. MaxSamples
    BY <1>1 DEF DeliveryInv, SourceOK
<1>4. Produced' = Produced /\ Done' = Done
    BY <1>1 DEF Produced, Done, Readable
<1> HIDE DEF i
<1>5. From' = From
    BY <1>1 DEF From
<1>6. Ahead' = SubSeq(sent', From, Len(sent'))
    BY <1>1, <1>5 DEF Ahead, From
<1>7. Ahead' = Append(Ahead, i)
    <2>1. /\ From \in 1 .. Len(sent) + 1 /\ Ahead = SubSeq(sent, From, Len(sent))
          /\ sent \in Seq(DOMAIN topic) /\ i \in DOMAIN topic /\ sent' = Append(sent, i)
        BY <1>1, AheadIs DEF DeliveryInv, SourceOK
    <2> HIDE DEF From, Ahead
    <2>2. SubSeq(Append(sent, i), From, Len(Append(sent, i)))
            = Append(SubSeq(sent, From, Len(sent)), i)
        BY <2>1, SuffixOfAppend
    <2> QED BY <1>6, <2>1, <2>2
<1>8. Delivery!Take(i)
    BY <1>1, <1>2, <1>4, <1>7 DEF Delivery!Take, Produced, Done
<1> QED BY <1>3, <1>8 DEF Delivery!Next

\* The source tells the broker: of a sample ahead of warp10, or one that ended.
LEMMA AckPromise ==
    ASSUME DeliveryInv, ack
    PROVE  Delivery!Next \/ UNCHANGED Delivery!vars
<1> DEFINE i == source.msg
<1>1. /\ i \in DOMAIN topic \ acked /\ Readable(i) /\ source.at = "sent"
      /\ UNCHANGED <<topic, sent, warp10, fates>>
      /\ acked' = acked \cup {i} \/ acked' = acked
    BY DEF DeliveryInv, SourceHolds, ack, Acknowledge
<1>2. UNCHANGED <<Ahead, fates>> /\ Produced' = Produced
    BY <1>1 DEF Ahead, Produced, Readable
<1>3. Accounted(i)
    BY <1>1 DEF DeliveryInv, AccountedSoFar, Told, Readable
<1>4. i \in Produced \ Done /\ i \in 1 .. MaxSamples
    BY <1>1 DEF Produced, Done, DeliveryInv, SourceOK
<1>5. Delivery!Ahead(i) \/ Delivery!Ended(i)
    BY <1>3, Accounting DEF DeliveryInv
<1> HIDE DEF i
<1>6. CASE acked' = acked \cup {i}
    <2>1. Done' = Done \cup {i}
        BY <1>1, <1>6 DEF Done, Readable
    <2>2. Delivery!Forget(i)
        BY <1>2, <1>4, <1>5, <2>1 DEF Delivery!Forget, Produced, Done
    <2> QED BY <1>4, <2>2 DEF Delivery!Next
<1>7. CASE acked' = acked
    BY <1>1, <1>2, <1>7, SameDelivery
<1> QED BY <1>1, <1>6, <1>7

\* Warp10 takes what is next, and it stays ahead until it is posted.
LEMMA ReceiveKeeps ==
    ASSUME DeliveryInv, warp10_recv
    PROVE  UNCHANGED Delivery!vars
<1>1. /\ warp10.at = "running" /\ warp10'.at = "posting"
      /\ warp10'.next = warp10.next + 1 /\ warp10.next \in Nat
      /\ UNCHANGED <<topic, acked, sent, fates>>
    BY DEF DeliveryInv, SourceOK, Warp10OK, warp10_recv, sourceVars
<1>2. From' = From
    BY <1>1 DEF From
<1>3. Ahead = SubSeq(sent, From, Len(sent)) /\ Ahead' = SubSeq(sent, From, Len(sent))
    BY <1>1, <1>2 DEF Ahead, From
<1> QED BY <1>1, <1>3, SameDelivery

\* Warp10 lags: all but the last Capacity samples are overwritten.
LEMMA LagPromise ==
    ASSUME DeliveryInv, warp10_lagged
    PROVE  Delivery!Next
<1> DEFINE n == Len(Ahead) - Capacity
<1>1. /\ warp10.at = "running" /\ warp10.next < Oldest
      /\ warp10' = [warp10 EXCEPT !.next = Oldest]
      /\ fates' = fates \cup
            {Fate(sent[k], "overwritten") : k \in warp10.next .. Oldest - 1}
      /\ UNCHANGED <<topic, acked, sent>>
    BY DEF warp10_lagged, Lagged, sourceVars
<1>2. /\ From = warp10.next /\ From' = Oldest
      /\ Ahead' = SubSeq(sent, Oldest, Len(sent))
      /\ sent \in Seq(DOMAIN topic) /\ Capacity \in Nat \ {0}
    BY <1>1 DEF DeliveryInv, SourceOK, Warp10OK, From, Ahead
<1> HIDE DEF From, Ahead, n
<1>3. /\ From \in 1 .. Len(sent) + 1 /\ Len(sent) \in Nat
      /\ Len(Ahead) = Len(sent) - From + 1
    BY AheadIs DEF DeliveryInv
<1>4. /\ Ahead = SubSeq(sent, From, Len(sent))
      /\ \A k \in 1 .. Len(Ahead) : Ahead[k] = sent[From + k - 1]
    BY AheadIs DEF DeliveryInv
<1>5. Len(sent) > Capacity /\ Oldest = Len(sent) - Capacity + 1 /\ From < Oldest
    BY <1>1, <1>2, <1>3 DEF Oldest
<1> HIDE DEF Oldest
<1>6. n = Oldest - From /\ n \in 1 .. Len(Ahead) /\ From + n = Oldest
    <2>1. Capacity \in Nat \ {0}
        BY <1>2
    <2>2. n = Oldest - From
        BY <1>3, <1>5, <2>1 DEF n
    <2> QED BY <1>3, <1>5, <2>1, <2>2
<1>7. {Fate(sent[k], "overwritten") : k \in From .. Oldest - 1}
        = {Delivery!End(Ahead[k], "overwritten") : k \in 1 .. n}
    <2>1. ASSUME NEW k \in From .. Oldest - 1
          PROVE  k - From + 1 \in 1 .. n /\ Ahead[k - From + 1] = sent[k]
        <3>1. /\ k - From + 1 \in 1 .. n /\ k - From + 1 \in 1 .. Len(Ahead)
              /\ From + (k - From + 1) - 1 = k
            BY <1>3, <1>5, <1>6
        <3> QED BY <1>4, <3>1
    <2>2. ASSUME NEW k \in 1 .. n
          PROVE  From + k - 1 \in From .. Oldest - 1 /\ sent[From + k - 1] = Ahead[k]
        <3>1. From + k - 1 \in From .. Oldest - 1 /\ k \in 1 .. Len(Ahead)
            BY <1>3, <1>5, <1>6
        <3> QED BY <1>4, <3>1
    <2> QED BY <2>1, <2>2 DEF Fate, Delivery!End
<1>8. SubSeq(Ahead, n + 1, Len(Ahead)) = Ahead'
    <2>1. n \in 0 .. Len(sent) - From + 1
        BY <1>3, <1>6
    <2>2. /\ sent \in Seq(DOMAIN topic) /\ From \in 1 .. Len(sent) + 1
          /\ Ahead = SubSeq(sent, From, Len(sent))
        BY <1>2, <1>3, <1>4
    <2>3. SubSeq(Ahead, n + 1, Len(Ahead)) = SubSeq(sent, From + n, Len(sent))
        BY <2>1, <2>2, SuffixOfSuffix
    <2> QED BY <1>2, <1>6, <2>3
<1>9. Produced' = Produced /\ Done' = Done
    BY <1>1 DEF Produced, Done, Readable
<1>10. Delivery!Overwrite
    <2>1. /\ n > 0
          /\ fates' = fates \cup {Delivery!End(Ahead[k], "overwritten") : k \in 1 .. n}
        <3>1. n > 0
            BY <1>3, <1>6
        <3> QED BY <1>1, <1>2, <1>7, <3>1
    <2> QED BY <1>8, <1>9, <2>1 DEF Delivery!Overwrite, Produced, Done, n
<1> QED BY <1>10 DEF Delivery!Next

\* Warp10 posts what it has: it is stored or refused.
LEMMA PostPromise ==
    ASSUME DeliveryInv, warp10_send
    PROVE  Delivery!Next
<1>1. PICK how \in {"stored", "refused"} :
        fates' = fates \cup {Fate(sent[warp10.next - 1], how)}
    BY DEF warp10_send
<1>2. /\ warp10.at = "posting" /\ warp10' = [warp10 EXCEPT !.at = "running"]
      /\ UNCHANGED <<topic, acked, sent>>
    BY DEF warp10_send, sourceVars
<1>3. /\ From = warp10.next - 1 /\ From' = warp10.next /\ From + 1 = warp10.next
      /\ From \in 1 .. Len(sent) /\ Len(sent) \in From .. Len(sent)
      /\ sent \in Seq(DOMAIN topic)
    BY <1>2 DEF DeliveryInv, SourceOK, Warp10OK, From
<1>4. Ahead' = SubSeq(sent, From + 1, Len(sent))
    BY <1>2, <1>3 DEF Ahead, From
<1> HIDE DEF From, Ahead
<1>5. Head(Ahead) = sent[From] /\ Tail(Ahead) = Ahead'
    <2>1. Ahead = SubSeq(sent, From, Len(sent))
        BY AheadIs DEF DeliveryInv
    <2> QED BY <1>3, <1>4, <2>1, HeadTailOfSubSeq
<1>6. Ahead # <<>>
    <2>1. Len(Ahead) = Len(sent) - From + 1 /\ Len(<<>>) = 0
        BY AheadIs, EmptySeq DEF DeliveryInv
    <2>2. Len(Ahead) # 0
        BY <1>3, <2>1
    <2> QED BY <2>1, <2>2
<1>7. Produced' = Produced /\ Done' = Done
    BY <1>2 DEF Produced, Done, Readable
<1>8. fates' = fates \cup {Delivery!End(Head(Ahead), how)}
    BY <1>1, <1>3, <1>5 DEF Fate, Delivery!End
<1>9. Delivery!Post(how)
    BY <1>5, <1>6, <1>7, <1>8 DEF Delivery!Post, Produced, Done
<1> QED BY <1>9 DEF Delivery!Next

\* The process ends: all that was ahead of warp10 is lost.
LEMMA RestartCrashes ==
    ASSUME DeliveryInv, restart
    PROVE  Delivery!Next
<1>1. /\ fates' = fates \cup {Fate(i, "crashed") : i \in Underway}
      /\ sent' = <<>> /\ warp10' = [at |-> "running", next |-> 1]
      /\ UNCHANGED <<topic, acked>>
    BY DEF restart, StartWarp10
<1>2. {Fate(i, "crashed") : i \in Underway}
        = {Delivery!End(Ahead[k], "crashed") : k \in DOMAIN Ahead}
    BY UnderwayIsAhead DEF DeliveryInv, Fate, Delivery!End
<1>3. Ahead' = <<>>
    <2>1. Ahead' = SubSeq(<<>>, 1, 0)
        BY <1>1, EmptySeq DEF Ahead
    <2> QED BY <2>1, SubSeqEmpty
<1>4. Produced' = Produced /\ Done' = Done
    BY <1>1 DEF Produced, Done, Readable
<1>5. Delivery!Crash
    BY <1>1, <1>2, <1>3, <1>4 DEF Delivery!Crash, Produced, Done
<1> QED BY <1>5 DEF Delivery!Next

LEMMA DeliveryInvariant == Spec => []DeliveryInv
<1>1. Init => DeliveryInv
    BY InitInv DEF OffloaderInv, AccountsInv, DeliveryInv, SourceHolds, Init
<1>2. DeliveryInv /\ [Next]_vars => DeliveryInv'
    <2> SUFFICES ASSUME DeliveryInv, [Next]_vars PROVE DeliveryInv'
        OBVIOUS
    <2>1. CASE Next
        BY <2>1, AccountsStep, SourceHoldsStep DEF AccountsInv, DeliveryInv
    <2>2. CASE UNCHANGED vars
        BY <2>2 DEF vars, DeliveryInv, SourceOK, Warp10OK, AccountedSoFar, Told,
                    Accounted, Underway, SourceHolds, Readable
    <2> QED BY <2>1, <2>2
<1> QED BY <1>1, <1>2, PTL DEF Spec

\* Every step of the offloader is one the promise allows: warp10 gets the samples in
\* the order they were broadcast, and none is forgotten on the way.
THEOREM DeliveryKept == Spec => KeepsDelivery
<1>1. Init => Delivery!Init
    <2> SUFFICES ASSUME Init PROVE Delivery!Init
        OBVIOUS
    <2>1. Ahead = SubSeq(<<>>, 1, 0)
        BY EmptySeq DEF Init, StartWarp10, Ahead
    <2>2. Ahead = <<>>
        BY <2>1, SubSeqEmpty
    <2>3. DOMAIN topic = {} /\ acked = {} /\ fates = {}
        BY DEF Init
    <2> QED BY <2>2, <2>3 DEF Delivery!Init
<1>2. DeliveryInv /\ DeliveryInv' /\ [Next]_vars => [Delivery!Next]_(Delivery!vars)
    <2> SUFFICES ASSUME DeliveryInv, DeliveryInv', [Next]_vars
                 PROVE  Delivery!Next \/ UNCHANGED Delivery!vars
        OBVIOUS
    <2>1. CASE \E m \in Samples : to_message(m)
        BY <2>1, SendPromise
    <2>2. CASE SourceStep
        BY <2>2, TakePromise, BroadcastPromise, AckPromise DEF SourceStep, DeliveryInv
    <2>3. CASE Warp10Step
        BY <2>3, ReceiveKeeps, LagPromise, PostPromise DEF Warp10Step
    <2>4. CASE restart
        BY <2>4, RestartCrashes
    <2>5. CASE UNCHANGED <<topic, acked, sent, warp10, fates>>
        BY <2>5, SameDelivery DEF Ahead
    <2> QED
        BY <2>1, <2>2, <2>3, <2>4, <2>5
        DEF Next, reconnect, subscription_ends, AggregatorStep, aggregator_recv, aggregator_lagged,
            aggregator_send, sourceVars, vars
<1> QED BY DeliveryInvariant, <1>1, <1>2, PTL DEF Spec, KeepsDelivery, Delivery!Spec
==============================================================================
