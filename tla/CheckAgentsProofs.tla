------------------------- MODULE CheckAgentsProofs --------------------------
(***************************************************************************)
(* What an agent that has read the topic runs, for every set of requests   *)
(* and agents and any number of restarts.                                  *)
(*                                                                         *)
(* CheckCommandsProofs shows what the topic says of a check: one Add, then *)
(* one Remove.  An agent acknowledges before it handles, so between the    *)
(* two the broker believes more than the agent has done; the invariant     *)
(* relates the broker's record of one agent to that agent's table, for     *)
(* every check none of whose acknowledgements was lost.                    *)
(***************************************************************************)
EXTENDS CheckCommandsProofs

Tables == UNION {[D -> Nat] : D \in SUBSET Checks}

Jobs == [id: Checks, interval: Nat]

AgentStates ==
    [cursor: Nat, acked: SUBSET Nat, inflight: Nat, panicked: BOOLEAN, tracked: Tables,
     orphans: SUBSET Jobs, poisoned: BOOLEAN, lost: Seq(Checks), starts: Nat]

AgentsTypeOK ==
    /\ holder \in Requests \cup {None}
    /\ horizon \in 0 .. Len(topic)
    /\ agents \in [Agents -> AgentStates]
    /\ \A a \in Agents :
        /\ agents[a].cursor \in 1 .. Len(topic) + 1
        /\ agents[a].acked \subseteq 1 .. Len(topic)
        /\ agents[a].inflight \in 0 .. Len(topic)
        /\ agents[a].panicked => agents[a].inflight # 0

\* Command k of the topic is one of check c.
Of(k, c) == k \in DOMAIN topic /\ topic[k].check = c

Gone(a, k) == k \in agents[a].acked \/ Superseded(k)

\* Acknowledged, and handled too.
Handled(a, k) == k \in agents[a].acked /\ k # agents[a].inflight

\* What the broker will not deliver to the agent again is acknowledged or compacted
\* away; an Add is never handled after the Remove; and the table has what was handled.
Knows(a, c) ==
    /\ \A k \in 1 .. agents[a].cursor - 1 : Of(k, c) => Gone(a, k)
    /\ Of(agents[a].inflight, c) => agents[a].inflight \in agents[a].acked
    /\ \A i, j \in DOMAIN topic :
        /\ Of(i, c) /\ Of(j, c) /\ i < j /\ j \in agents[a].acked => Gone(a, i)
        /\ Of(i, c) /\ Of(j, c) /\ i < j /\ agents[a].inflight = i =>
                j \notin agents[a].acked
    /\ c \in DOMAIN agents[a].tracked <=>
        /\ \E k \in DOMAIN topic : Of(k, c) /\ topic[k].kind = "Add" /\ Handled(a, k)
        /\ \A k \in DOMAIN topic : Of(k, c) /\ topic[k].kind = "Remove" => ~Handled(a, k)
    /\ c \in DOMAIN agents[a].tracked =>
        \E k \in DOMAIN topic :
            /\ Of(k, c) /\ topic[k].kind = "Add"
            /\ agents[a].tracked[c] = topic[k].interval
    /\ \A j \in agents[a].orphans : j.id # c

AgentsInv ==
    /\ StoryInv
    /\ AgentsTypeOK
    /\ \A a \in Agents : \A c \in Checks : AcksLost(a, c) \/ Knows(a, c)

----------------------------------------------------------------------------
(* The table of an agent.                                                  *)

LEMMA TableIs ==
    ASSUME NEW t
    PROVE  t \in Tables <=> \E D \in SUBSET Checks : t \in [D -> Nat]
BY DEF Tables

LEMMA TableAdd ==
    ASSUME NEW t \in Tables, NEW c \in Checks, NEW n \in Nat, NEW u,
           u = [d \in DOMAIN t \cup {c} |-> IF d = c THEN n ELSE t[d]]
    PROVE  u \in Tables
<1>1. PICK D \in SUBSET Checks : t \in [D -> Nat]
  BY TableIs
<1>2. D \cup {c} \in SUBSET Checks /\ u \in [D \cup {c} -> Nat]
  BY <1>1
<1> QED
  BY <1>2, TableIs

LEMMA TableRemove ==
    ASSUME NEW t \in Tables, NEW c \in Checks, NEW u,
           u = [d \in DOMAIN t \ {c} |-> t[d]]
    PROVE  u \in Tables
<1>1. PICK D \in SUBSET Checks : t \in [D -> Nat]
  BY TableIs
<1>2. D \ {c} \in SUBSET Checks /\ u \in [D \ {c} -> Nat]
  BY <1>1
<1> QED
  BY <1>2, TableIs

LEMMA TrackedJob ==
    ASSUME NEW t \in Tables, NEW c \in DOMAIN t
    PROVE  Job(c, t[c]) \in Jobs
<1>1. PICK D \in SUBSET Checks : t \in [D -> Nat]
  BY TableIs
<1> QED
  BY <1>1 DEF Job, Jobs

LEMMA TableDomain ==
    ASSUME NEW t \in Tables
    PROVE  DOMAIN t \subseteq Checks
BY TableIs

LEMMA CommandTypes ==
    ASSUME topic \in Seq(Commands)
    PROVE  /\ Len(topic) \in Nat
           /\ DOMAIN topic = 1 .. Len(topic)
           /\ \A k \in DOMAIN topic : /\ topic[k].check \in Checks
                                      /\ topic[k].kind \in {"Add", "Remove"}
                                      /\ topic[k].interval \in Nat
<1>1. \A r \in Requests : r.interval \in Nat
  BY RequestsAssumption
<1>2. \A m \in Commands : /\ m.check \in Checks /\ m.kind \in {"Add", "Remove"}
                          /\ m.interval \in Nat
  BY <1>1 DEF Commands
<1> QED
  BY <1>2

----------------------------------------------------------------------------
(* Every agent starts, and starts again, with an empty table.              *)

LEMMA StartedAgent ==
    ASSUME NEW n \in Nat
    PROVE  /\ StartAgent(n) \in AgentStates
           /\ StartAgent(n).cursor = 1 /\ StartAgent(n).acked = {}
           /\ StartAgent(n).inflight = 0 /\ DOMAIN StartAgent(n).tracked = {}
           /\ StartAgent(n).orphans = {} /\ ~ StartAgent(n).panicked
           /\ ~ StartAgent(n).poisoned /\ StartAgent(n).starts = n
<1>1. [c \in {} |-> 0] \in [{} -> Nat] /\ {} \in SUBSET Checks
  OBVIOUS
<1>2. [c \in {} |-> 0] \in Tables
  BY <1>1, TableIs
<1>3. << >> \in Seq(Checks)
  OBVIOUS
<1> QED
  BY <1>2, <1>3 DEF StartAgent, AgentStates

LEMMA NothingKnown ==
    ASSUME NEW a \in Agents, NEW c \in Checks, topic \in Seq(Commands),
           agents[a].cursor = 1, agents[a].acked = {}, agents[a].inflight = 0,
           DOMAIN agents[a].tracked = {}, agents[a].orphans = {}
    PROVE  Knows(a, c)
BY CommandTypes DEF Knows, Of, Handled

LEMMA InitAgents == Init => AgentsInv
<1> SUFFICES ASSUME Init PROVE AgentsInv
  OBVIOUS
<1>1. Inv
  BY InitInv
<1>2. Story
  <2>1. /\ DOMAIN topic = {} /\ dropped = {}
        /\ \A r \in Requests : pc[r] = "called"
        /\ \A c \in Checks : rows[c].state = "absent"
    BY DEF Init
  <2>2. \A r \in Requests : ~ Told(r)
    BY <2>1 DEF Told
  <2> QED
    BY <2>1, <2>2 DEF Story
<1>3. \A a \in Agents : agents[a] = StartAgent(0)
  BY DEF Init
<1>4. AgentsTypeOK
  <2>1. topic = << >> /\ Len(topic) = 0 /\ horizon = 0 /\ holder = None
    BY DEF Init
  <2>2. agents \in [Agents -> AgentStates]
    BY StartedAgent DEF Init
  <2> QED
    BY <1>3, <2>1, <2>2, StartedAgent DEF AgentsTypeOK
<1>5. topic \in Seq(Commands)
  BY <1>1 DEF Inv, HandlersTypeOK
<1>6. \A a \in Agents : \A c \in Checks : Knows(a, c)
  BY <1>3, <1>5, StartedAgent, NothingKnown
<1> QED
  BY <1>1, <1>2, <1>4, <1>6 DEF AgentsInv, StoryInv

----------------------------------------------------------------------------
(* The topic grows, or the broker compacts it, and no agent moves.         *)

LEMMA TopicGrows ==
    ASSUME AgentsTypeOK, topic \in Seq(Commands), topic' \in Seq(Commands),
           agents' = agents, horizon' \in Nat, horizon <= horizon',
           Len(topic) <= Len(topic'),
           \A k \in DOMAIN topic : topic'[k] = topic[k],
           NEW a \in Agents, NEW c \in Checks, Knows(a, c)
    PROVE  Knows(a, c)'
<1>1. /\ Len(topic) \in Nat /\ Len(topic') \in Nat /\ horizon \in 0 .. Len(topic)
      /\ DOMAIN topic = 1 .. Len(topic) /\ DOMAIN topic' = 1 .. Len(topic')
  BY DEF AgentsTypeOK
<1>2. \A k \in DOMAIN topic : (Of(k, c)' <=> Of(k, c)) /\ topic'[k] = topic[k]
  BY <1>1 DEF Of
<1>3. \A k \in DOMAIN topic : Gone(a, k) => Gone(a, k)'
  <2>1. ASSUME NEW k \in DOMAIN topic, Superseded(k)
        PROVE  Superseded(k)'
    <3>1. PICK j \in k + 1 .. horizon : topic[j].check = topic[k].check
      BY <2>1 DEF Superseded
    <3>2. j \in DOMAIN topic /\ j \in k + 1 .. horizon'
      BY <1>1, <3>1
    <3> QED
      BY <3>1, <3>2 DEF Superseded
  <2> QED
    BY <2>1 DEF Gone
<1>4. /\ agents[a].cursor \in 1 .. Len(topic) + 1
      /\ agents[a].acked \subseteq DOMAIN topic
      /\ agents[a].inflight \in 0 .. Len(topic)
  BY <1>1 DEF AgentsTypeOK
<1>5. \A k : Handled(a, k)' <=> Handled(a, k)
  BY DEF Handled
<1>6. \A k : Handled(a, k) => k \in DOMAIN topic
  BY <1>4 DEF Handled
<1>7. \A k \in 1 .. agents'[a].cursor - 1 : Of(k, c)' => Gone(a, k)'
  <2>1. \A k \in 1 .. agents[a].cursor - 1 : k \in DOMAIN topic
    BY <1>1, <1>4
  <2> QED
    BY <1>2, <1>3, <2>1 DEF Knows
<1>8. Of(agents[a].inflight, c)' => agents'[a].inflight \in agents'[a].acked
  <2>1. CASE agents[a].inflight = 0
    BY <1>1, <2>1 DEF Of
  <2>2. CASE agents[a].inflight \in DOMAIN topic
    BY <1>2, <2>2 DEF Knows
  <2> QED
    BY <1>1, <1>4, <2>1, <2>2
<1>9. ASSUME NEW i \in DOMAIN topic', NEW j \in DOMAIN topic',
             Of(i, c)', Of(j, c)', i < j, j \in agents'[a].acked
      PROVE  Gone(a, i)' /\ agents'[a].inflight # i
  <2>1. i \in DOMAIN topic /\ j \in DOMAIN topic
    BY <1>1, <1>4, <1>9
  <2> QED
    BY <1>2, <1>3, <1>9, <2>1 DEF Knows
<1>10. c \in DOMAIN agents'[a].tracked <=>
        /\ \E k \in DOMAIN topic' : Of(k, c)' /\ topic'[k].kind = "Add" /\ Handled(a, k)'
        /\ \A k \in DOMAIN topic' :
                Of(k, c)' /\ topic'[k].kind = "Remove" => ~ Handled(a, k)'
  <2>1. \A k \in DOMAIN topic : k \in DOMAIN topic'
    BY <1>1
  <2> QED
    BY <1>2, <1>5, <1>6, <2>1 DEF Knows
<1>11. c \in DOMAIN agents'[a].tracked =>
        \E k \in DOMAIN topic' :
            /\ Of(k, c)' /\ topic'[k].kind = "Add"
            /\ agents'[a].tracked[c] = topic'[k].interval
  <2>1. \A k \in DOMAIN topic : k \in DOMAIN topic'
    BY <1>1
  <2> QED
    BY <1>2, <2>1 DEF Knows
<1> QED
  BY <1>7, <1>8, <1>9, <1>10, <1>11 DEF Knows

----------------------------------------------------------------------------
(* The next command is acknowledged.                                       *)

\* The commands of the check that are before it are gone already, and so it is not
\* an Add whose Remove was acknowledged.
LEMMA ReceiveKnows ==
    ASSUME AgentsTypeOK, topic \in Seq(Commands), UNCHANGED <<topic, horizon>>,
           NEW a \in Agents, NEW c \in Checks, Knows(a, c),
           agents[a].inflight = 0,
           NEW i \in Deliverable(a), \A j \in Deliverable(a) : i <= j,
           agents'[a].cursor = i + 1, agents'[a].inflight = i,
           agents'[a].tracked = agents[a].tracked,
           agents'[a].orphans = agents[a].orphans,
           \/ agents'[a].acked = agents[a].acked \cup {i}
           \/ agents'[a].acked = agents[a].acked /\ topic[i].check # c
    PROVE  Knows(a, c)'
<1>1. /\ Len(topic) \in Nat /\ DOMAIN topic = 1 .. Len(topic)
      /\ agents[a].cursor \in 1 .. Len(topic) + 1
      /\ agents[a].acked \subseteq DOMAIN topic
  BY DEF AgentsTypeOK
<1>2. /\ i \in DOMAIN topic /\ agents[a].cursor <= i
      /\ i \notin agents[a].acked /\ ~ Superseded(i)
  BY <1>1 DEF Deliverable
<1>3. \A k : (Of(k, c)' <=> Of(k, c)) /\ (Superseded(k)' <=> Superseded(k))
  BY DEF Of, Superseded
<1>4. \A k \in DOMAIN topic : Of(k, c) /\ k < i => Gone(a, k)
  <2>1. ASSUME NEW k \in DOMAIN topic, Of(k, c), k < i
        PROVE  Gone(a, k)
    <3>1. CASE k < agents[a].cursor
      BY <1>1, <2>1, <3>1 DEF Knows
    <3>2. CASE agents[a].cursor <= k
      <4>1. k \in agents[a].cursor .. Len(topic) /\ k \notin Deliverable(a)
        BY <1>1, <1>2, <2>1, <3>2
      <4> QED
        BY <4>1 DEF Deliverable, Gone
    <3> QED
      BY <1>1, <3>1, <3>2
  <2> QED
    BY <2>1
<1>5. \A k \in DOMAIN topic : Of(k, c) /\ i < k => k \notin agents[a].acked \/ ~ Of(i, c)
  BY <1>2 DEF Knows, Gone
<1>6. \A k : Gone(a, k) => Gone(a, k)'
  BY <1>3 DEF Gone
<1>7. \A k : Of(k, c) => (Handled(a, k)' <=> Handled(a, k))
  <2>1. 0 \notin DOMAIN topic
    BY <1>1
  <2> QED
    BY <1>2, <2>1 DEF Handled, Of
<1>8. Of(i, c) => i \in agents'[a].acked /\ Gone(a, i)'
  BY DEF Of, Gone
<1>9. \A k \in 1 .. agents'[a].cursor - 1 : Of(k, c)' => Gone(a, k)'
  <2>1. \A k \in 1 .. agents'[a].cursor - 1 : k \in DOMAIN topic /\ (k < i \/ k = i)
    BY <1>1, <1>2
  <2> QED
    BY <1>3, <1>4, <1>6, <1>8, <2>1
<1>10. ASSUME NEW k \in DOMAIN topic, NEW j \in DOMAIN topic,
              Of(k, c), Of(j, c), k < j, j \in agents'[a].acked
       PROVE  Gone(a, k)' /\ agents'[a].inflight # k
  <2>1. CASE j = i
    BY <1>1, <1>4, <1>6, <1>10, <2>1
  <2>2. CASE j \in agents[a].acked
    <3>1. Gone(a, k)
      BY <1>10, <2>2 DEF Knows
    <3> QED
      BY <1>5, <1>6, <1>10, <2>2, <3>1
  <2> QED
    BY <1>10, <2>1, <2>2
<1>11. c \in DOMAIN agents'[a].tracked <=>
        /\ \E k \in DOMAIN topic' : Of(k, c)' /\ topic'[k].kind = "Add" /\ Handled(a, k)'
        /\ \A k \in DOMAIN topic' :
                Of(k, c)' /\ topic'[k].kind = "Remove" => ~ Handled(a, k)'
  BY <1>3, <1>7 DEF Knows
<1>12. c \in DOMAIN agents'[a].tracked =>
        \E k \in DOMAIN topic' :
            /\ Of(k, c)' /\ topic'[k].kind = "Add"
            /\ agents'[a].tracked[c] = topic'[k].interval
  BY <1>3 DEF Knows
<1>13. Of(agents[a].inflight, c)' => agents'[a].inflight \in agents'[a].acked
  BY <1>3, <1>8
<1>14. \A j \in agents'[a].orphans : j.id # c
  BY DEF Knows
<1> QED
  BY <1>3, <1>9, <1>10, <1>11, <1>12, <1>13, <1>14 DEF Knows

----------------------------------------------------------------------------
(* The command that was acknowledged is handled.                           *)

LEMMA HandleKnows ==
    ASSUME AgentsTypeOK, topic \in Seq(Commands), TopicTellsOneLife,
           UNCHANGED <<topic, horizon>>,
           NEW a \in Agents, NEW c \in Checks, Knows(a, c),
           NEW i \in DOMAIN topic, agents[a].inflight = i,
           agents'[a].cursor = agents[a].cursor, agents'[a].inflight = 0,
           agents'[a].acked = agents[a].acked,
           agents'[a].tracked =
                IF topic[i].kind = "Add"
                THEN [d \in DOMAIN agents[a].tracked \cup {topic[i].check} |->
                        IF d = topic[i].check THEN topic[i].interval
                        ELSE agents[a].tracked[d]]
                ELSE [d \in DOMAIN agents[a].tracked \ {topic[i].check} |->
                        agents[a].tracked[d]],
           \A j \in agents'[a].orphans :
                \/ j \in agents[a].orphans
                \/ /\ topic[i].kind = "Add" /\ topic[i].check \in DOMAIN agents[a].tracked
                   /\ j.id = topic[i].check
    PROVE  Knows(a, c)'
<1>1. /\ Len(topic) \in Nat /\ DOMAIN topic = 1 .. Len(topic) /\ 0 \notin DOMAIN topic
      /\ topic[i].kind \in {"Add", "Remove"}
  BY CommandTypes
<1>2. \A k : (Of(k, c)' <=> Of(k, c)) /\ (Gone(a, k)' <=> Gone(a, k))
  BY DEF Of, Gone, Superseded
<1>3. /\ \A k : Of(k, c) /\ k # i => (Handled(a, k)' <=> Handled(a, k))
      /\ ~ Handled(a, i)
      /\ Of(i, c) => Handled(a, i)'
  BY <1>1 DEF Handled, Of, Knows
<1>4. /\ \A k \in 1 .. agents'[a].cursor - 1 : Of(k, c)' => Gone(a, k)'
      /\ ~ Of(agents[a].inflight, c)'
      /\ \A k, j \in DOMAIN topic :
            Of(k, c) /\ Of(j, c) /\ k < j /\ j \in agents'[a].acked =>
                Gone(a, k)' /\ agents'[a].inflight # k
  BY <1>1, <1>2 DEF Knows, Of
<1>5. CASE ~ Of(i, c)
  <2>1. topic[i].check # c
    BY <1>5 DEF Of
  <2>2. /\ c \in DOMAIN agents'[a].tracked <=> c \in DOMAIN agents[a].tracked
        /\ c \in DOMAIN agents[a].tracked =>
                agents'[a].tracked[c] = agents[a].tracked[c]
        /\ \A j \in agents'[a].orphans : j.id # c
    BY <2>1 DEF Knows
  <2>3. \A k : Of(k, c) => (Handled(a, k)' <=> Handled(a, k))
    BY <1>3, <1>5
  <2>4. c \in DOMAIN agents'[a].tracked <=>
        /\ \E k \in DOMAIN topic' : Of(k, c)' /\ topic'[k].kind = "Add" /\ Handled(a, k)'
        /\ \A k \in DOMAIN topic' :
                Of(k, c)' /\ topic'[k].kind = "Remove" => ~ Handled(a, k)'
    BY <1>2, <2>2, <2>3 DEF Knows
  <2>5. c \in DOMAIN agents'[a].tracked =>
        \E k \in DOMAIN topic' :
            /\ Of(k, c)' /\ topic'[k].kind = "Add"
            /\ agents'[a].tracked[c] = topic'[k].interval
    BY <1>2, <2>2 DEF Knows
  <2> QED
    BY <1>2, <1>4, <2>2, <2>4, <2>5 DEF Knows
<1>6. CASE Of(i, c) /\ topic[i].kind = "Add"
  \* Its Remove, if it was sent, is after it and not acknowledged.
  <2>1. \A k \in DOMAIN topic : Of(k, c) /\ k # i => k > i /\ topic[k].kind = "Remove"
    BY <1>1, <1>6 DEF TopicTellsOneLife, Of
  <2>2. \A k \in DOMAIN topic : Of(k, c) /\ k # i => ~ Handled(a, k)
    BY <1>6, <2>1 DEF Knows, Handled
  <2>3. c \notin DOMAIN agents[a].tracked
    BY <1>3, <2>2 DEF Knows
  <2>4. /\ c \in DOMAIN agents'[a].tracked
        /\ agents'[a].tracked[c] = topic[i].interval
        /\ \A j \in agents'[a].orphans : j.id # c
    BY <1>6, <2>3 DEF Knows, Of
  <2>5. /\ \E k \in DOMAIN topic' : Of(k, c)' /\ topic'[k].kind = "Add" /\ Handled(a, k)'
        /\ \A k \in DOMAIN topic' :
                Of(k, c)' /\ topic'[k].kind = "Remove" => ~ Handled(a, k)'
    BY <1>2, <1>3, <1>6, <2>2
  <2> QED
    BY <1>2, <1>4, <1>6, <2>4, <2>5 DEF Knows
<1>7. CASE Of(i, c) /\ topic[i].kind = "Remove"
  <2>1. /\ c \notin DOMAIN agents'[a].tracked
        /\ \A j \in agents'[a].orphans : j.id # c
    BY <1>7 DEF Knows, Of
  <2>2. Of(i, c)' /\ topic'[i].kind = "Remove" /\ Handled(a, i)'
    BY <1>2, <1>3, <1>7
  <2> QED
    BY <1>2, <1>4, <2>1, <2>2 DEF Knows
<1> QED
  BY <1>1, <1>5, <1>6, <1>7

----------------------------------------------------------------------------
(* The steps of the agents.                                                *)

\* AgentsInv of one agent, the topic and the handlers being as they were.
LEMMA OneAgentMoves ==
    ASSUME AgentsInv, UNCHANGED <<holder, topic, horizon>>, NEW a \in Agents,
           agents' \in [Agents -> AgentStates],
           \A b \in Agents \ {a} : agents'[b] = agents[b],
           agents'[a].cursor \in 1 .. Len(topic) + 1,
           agents'[a].acked \subseteq 1 .. Len(topic),
           agents'[a].inflight \in 0 .. Len(topic),
           agents'[a].panicked => agents'[a].inflight # 0,
           \A c \in Checks : AcksLost(a, c)' \/ Knows(a, c)'
    PROVE  /\ AgentsTypeOK'
           /\ \A b \in Agents : \A c \in Checks : AcksLost(b, c)' \/ Knows(b, c)'
<1>1. AgentsTypeOK'
  BY DEF AgentsInv, AgentsTypeOK
<1>2. ASSUME NEW b \in Agents \ {a}, NEW c \in Checks
      PROVE  AcksLost(b, c)' \/ Knows(b, c)'
  <2>1. agents'[b] = agents[b] /\ topic' = topic /\ horizon' = horizon
    BY <1>2
  <2>2. AcksLost(b, c)' <=> AcksLost(b, c)
    BY <2>1 DEF AcksLost
  <2>3. \A k : (Of(k, c)' <=> Of(k, c)) /\ (Gone(b, k)' <=> Gone(b, k))
                /\ (Handled(b, k)' <=> Handled(b, k))
    BY <2>1 DEF Of, Gone, Handled, Superseded
  <2>4. Of(agents[b].inflight, c)' <=> Of(agents[b].inflight, c)
    BY <2>1 DEF Of
  <2>5. Knows(b, c) => Knows(b, c)'
    BY <2>1, <2>3, <2>4 DEF Knows
  <2> QED
    BY <2>2, <2>5 DEF AgentsInv
<1> QED
  BY <1>1, <1>2

LEMMA AgentSteps ==
    ASSUME AgentsInv, NEW a \in Agents, AgentStep(a) \/ reconnect(a) \/ restart(a)
    PROVE  /\ AgentsTypeOK'
           /\ \A b \in Agents : \A c \in Checks : AcksLost(b, c)' \/ Knows(b, c)'
<1> topic \in Seq(Commands) /\ TopicTellsOneLife
  BY DEF AgentsInv, StoryInv, Inv, HandlersTypeOK
<1> DEFINE A == agents[a]
<1>1. /\ A \in AgentStates /\ agents \in [Agents -> AgentStates]
      /\ A.cursor \in 1 .. Len(topic) + 1 /\ A.acked \subseteq 1 .. Len(topic)
      /\ A.inflight \in 0 .. Len(topic) /\ (A.panicked => A.inflight # 0)
      /\ Len(topic) \in Nat /\ DOMAIN topic = 1 .. Len(topic)
      /\ \A c \in Checks : AcksLost(a, c) \/ Knows(a, c)
  BY DEF AgentsInv, AgentsTypeOK
<1>2. UNCHANGED <<holder, topic, horizon>>
  BY DEF AgentStep, receive, handle_command, panic, reconnect, restart
<1>3. CASE receive(a)
  <2>1. PICK i \in Deliverable(a) :
            /\ \A j \in Deliverable(a) : i <= j
            /\ \/ agents' = [agents EXCEPT ![a].cursor = i + 1,
                                           ![a].inflight = i,
                                           ![a].acked = @ \cup {i}]
               \/ agents' = [agents EXCEPT ![a].cursor = i + 1,
                                           ![a].inflight = i,
                                           ![a].lost = Append(@, topic[i].check)]
    BY <1>3 DEF receive
  <2>2. i \in DOMAIN topic /\ topic[i].check \in Checks /\ i \in Nat /\ i + 1 \in Nat
    BY <1>1, CommandTypes DEF Deliverable
  <2>3. A.inflight = 0
    BY <1>3 DEF receive
  <2>4. CASE agents' = [agents EXCEPT ![a].cursor = i + 1, ![a].inflight = i,
                                      ![a].acked = @ \cup {i}]
    <3>1. /\ agents' = [agents EXCEPT ![a] =
                            [A EXCEPT !.cursor = i + 1, !.inflight = i,
                                      !.acked = A.acked \cup {i}]]
          /\ A.acked \cup {i} \in SUBSET Nat
      BY <1>1, <2>2, <2>4 DEF AgentStates
    <3>2. /\ agents'[a] = [A EXCEPT !.cursor = i + 1, !.inflight = i,
                                    !.acked = A.acked \cup {i}]
          /\ \A b \in Agents \ {a} : agents'[b] = agents[b]
          /\ DOMAIN agents' = Agents
      BY <1>1, <3>1
    <3>3. /\ agents'[a] \in AgentStates
          /\ agents'[a].cursor = i + 1 /\ agents'[a].inflight = i
          /\ agents'[a].acked = A.acked \cup {i}
          /\ agents'[a].tracked = A.tracked /\ agents'[a].orphans = A.orphans
          /\ agents'[a].lost = A.lost
      BY <1>1, <2>2, <3>1, <3>2 DEF AgentStates
    <3>4. agents' \in [Agents -> AgentStates]
      BY <1>1, <3>1, <3>2, <3>3
    <3>5. \A c \in Checks : AcksLost(a, c)' \/ Knows(a, c)'
      BY <1>1, <1>2, <2>1, <2>3, <3>3, ReceiveKnows DEF AgentsInv, AcksLost
    <3>6. /\ agents'[a].cursor \in 1 .. Len(topic) + 1
          /\ agents'[a].acked \subseteq 1 .. Len(topic)
          /\ agents'[a].inflight \in 0 .. Len(topic)
          /\ agents'[a].panicked => agents'[a].inflight # 0
      BY <1>1, <2>2, <3>3
    <3> QED
      BY <1>2, <3>2, <3>4, <3>5, <3>6, OneAgentMoves
  <2>5. CASE agents' = [agents EXCEPT ![a].cursor = i + 1, ![a].inflight = i,
                                      ![a].lost = Append(@, topic[i].check)]
    <3>1. /\ agents' = [agents EXCEPT ![a] =
                            [A EXCEPT !.cursor = i + 1, !.inflight = i,
                                      !.lost = Append(A.lost, topic[i].check)]]
          /\ Append(A.lost, topic[i].check) \in Seq(Checks)
      <4>1. A.lost \in Seq(Checks)
        BY <1>1 DEF AgentStates
      <4>2. Append(A.lost, topic[i].check) \in Seq(Checks)
        BY <2>2, <4>1
      <4> QED
        BY <1>1, <2>5, <4>2 DEF AgentStates
    <3>2. /\ agents'[a] = [A EXCEPT !.cursor = i + 1, !.inflight = i,
                                    !.lost = Append(A.lost, topic[i].check)]
          /\ \A b \in Agents \ {a} : agents'[b] = agents[b]
          /\ DOMAIN agents' = Agents
      BY <1>1, <3>1
    <3>3. /\ agents'[a] \in AgentStates
          /\ agents'[a].cursor = i + 1 /\ agents'[a].inflight = i
          /\ agents'[a].acked = A.acked
          /\ agents'[a].tracked = A.tracked /\ agents'[a].orphans = A.orphans
          /\ agents'[a].lost = Append(A.lost, topic[i].check)
      BY <1>1, <2>2, <3>1, <3>2 DEF AgentStates
    <3>4. agents' \in [Agents -> AgentStates]
      BY <1>1, <3>1, <3>2, <3>3
    <3>5. ASSUME NEW c \in Checks
          PROVE  AcksLost(a, c)' \/ Knows(a, c)'
      <4>1. A.lost \in Seq(Checks)
        BY <1>1 DEF AgentStates
      <4> DEFINE lost == Append(A.lost, topic[i].check)
      <4>2. CASE topic[i].check = c \/ AcksLost(a, c)
        <5>1. /\ DOMAIN A.lost = 1 .. Len(A.lost) /\ Len(A.lost) \in Nat
              /\ DOMAIN lost = 1 .. Len(A.lost) + 1
              /\ lost[Len(A.lost) + 1] = topic[i].check
              /\ \A k \in DOMAIN A.lost : k \in DOMAIN lost /\ lost[k] = A.lost[k]
          BY SMTT(30), <2>2, <4>1
        <5>2. \E k \in DOMAIN lost : lost[k] = c
          BY <4>2, <5>1 DEF AcksLost
        <5> QED
          BY <3>3, <5>2 DEF AcksLost
      <4>3. CASE topic[i].check # c /\ Knows(a, c)
        BY <1>1, <1>2, <2>1, <2>3, <3>3, <4>3, ReceiveKnows DEF AgentsInv
      <4> QED
        BY <1>1, <4>2, <4>3
    <3>6. /\ agents'[a].cursor \in 1 .. Len(topic) + 1
          /\ agents'[a].acked \subseteq 1 .. Len(topic)
          /\ agents'[a].inflight \in 0 .. Len(topic)
          /\ agents'[a].panicked => agents'[a].inflight # 0
      BY <1>1, <2>2, <3>3
    <3> QED
      BY <1>2, <3>2, <3>4, <3>5, <3>6, OneAgentMoves
  <2> QED
    BY <2>1, <2>4, <2>5
<1>4. CASE handle_command(a)
  <2> DEFINE i == A.inflight
             m == topic[i]
             T == IF m.kind = "Add"
                  THEN [d \in DOMAIN A.tracked \cup {m.check} |->
                            IF d = m.check THEN m.interval ELSE A.tracked[d]]
                  ELSE [d \in DOMAIN A.tracked \ {m.check} |-> A.tracked[d]]
             O == A.orphans \cup {Job(d, A.tracked[d]) : d \in {e \in DOMAIN A.tracked :
                                m.kind = "Add" /\ e = m.check /\ A.tracked[e] > 0}}
             P == A.poisoned \/ (m.kind = "Add" /\ m.interval = 0)
  <2>1. /\ i \in DOMAIN topic /\ m.check \in Checks /\ m.interval \in Nat
        /\ A.tracked \in Tables /\ A.orphans \in SUBSET Jobs
    <3>1. i # 0
      BY <1>4 DEF handle_command
    <3>2. i \in DOMAIN topic
      BY <1>1, <3>1
    <3> HIDE DEF i
    <3>3. m.check \in Checks /\ m.interval \in Nat
      BY <3>2, CommandTypes
    <3>4. A.tracked \in Tables /\ A.orphans \in SUBSET Jobs
      BY <1>1 DEF AgentStates
    <3> QED
      BY <3>2, <3>3, <3>4
  <2>2. /\ agents' = [agents EXCEPT ![a] = [A EXCEPT !.inflight = 0, !.tracked = T,
                                                    !.orphans = O, !.poisoned = P]]
    BY <1>1, <1>4 DEF handle_command, AgentStates
  <2>3. T \in Tables
    BY ZenonT(40), <2>1, TableAdd, TableRemove
  <2>4. /\ O \in SUBSET Jobs /\ P \in BOOLEAN
        /\ \A j \in O : \/ j \in A.orphans
                        \/ /\ m.kind = "Add" /\ m.check \in DOMAIN A.tracked
                           /\ j.id = m.check
    <3>1. \A d \in DOMAIN A.tracked : Job(d, A.tracked[d]) \in Jobs
      BY <2>1, TrackedJob
    <3>2. P \in BOOLEAN
      BY <1>1 DEF AgentStates
    <3> QED
      BY <2>1, <3>1, <3>2 DEF Job
  <2>5. /\ agents'[a] = [A EXCEPT !.inflight = 0, !.tracked = T, !.orphans = O,
                                !.poisoned = P]
        /\ \A b \in Agents \ {a} : agents'[b] = agents[b]
        /\ DOMAIN agents' = Agents
    BY <1>1, <2>2
  <2> HIDE DEF T, O, P
  <2>6. /\ agents'[a] \in AgentStates
        /\ agents'[a].cursor = A.cursor /\ agents'[a].inflight = 0
        /\ agents'[a].acked = A.acked
        /\ agents'[a].tracked = T /\ agents'[a].orphans = O
        /\ agents'[a].lost = A.lost /\ agents'[a].panicked = A.panicked
    <3>1. A \in AgentStates
      BY <1>1
    <3>2. agents'[a] = [A EXCEPT !.inflight = 0, !.tracked = T, !.orphans = O,
                                !.poisoned = P]
      BY <2>5
    <3> HIDE DEF A
    <3>3. agents'[a] = [cursor |-> A.cursor, acked |-> A.acked, inflight |-> 0,
                        panicked |-> A.panicked, tracked |-> T, orphans |-> O,
                        poisoned |-> P, lost |-> A.lost, starts |-> A.starts]
      BY <3>1, <3>2 DEF AgentStates
    <3>4. /\ A.cursor \in Nat /\ A.acked \in SUBSET Nat /\ A.lost \in Seq(Checks)
          /\ A.starts \in Nat /\ A.panicked \in BOOLEAN
      BY <3>1 DEF AgentStates
    <3>5. agents'[a] \in AgentStates
      BY <2>3, <2>4, <3>3, <3>4 DEF AgentStates
    <3> QED
      BY <3>3, <3>5
  <2>7. agents' \in [Agents -> AgentStates]
    BY <1>1, <2>2, <2>5, <2>6
  <2>8. \A c \in Checks : Knows(a, c) => Knows(a, c)'
    <3>1. /\ A.inflight = i /\ i \in DOMAIN topic
          /\ agents'[a].tracked =
                IF topic[i].kind = "Add"
                THEN [d \in DOMAIN A.tracked \cup {topic[i].check} |->
                        IF d = topic[i].check THEN topic[i].interval ELSE A.tracked[d]]
                ELSE [d \in DOMAIN A.tracked \ {topic[i].check} |-> A.tracked[d]]
      BY <2>1, <2>6 DEF T
    <3>2. \A j \in agents'[a].orphans :
                \/ j \in A.orphans
                \/ /\ topic[i].kind = "Add" /\ topic[i].check \in DOMAIN A.tracked
                   /\ j.id = topic[i].check
      BY <2>4, <2>6
    <3> QED
      BY <1>2, <2>6, <3>1, <3>2, HandleKnows DEF AgentsInv
  <2>9. \A c \in Checks : AcksLost(a, c)' \/ Knows(a, c)'
    BY <1>1, <2>6, <2>8 DEF AcksLost
  <2>10. /\ agents'[a].cursor \in 1 .. Len(topic) + 1
         /\ agents'[a].acked \subseteq 1 .. Len(topic)
         /\ agents'[a].inflight \in 0 .. Len(topic)
         /\ agents'[a].panicked => agents'[a].inflight # 0
    <3>1. ~ A.panicked
      BY <1>4 DEF handle_command
    <3>2. agents'[a].panicked = A.panicked /\ agents'[a].inflight = 0
      BY <2>6
    <3>3. /\ A.cursor \in 1 .. Len(topic) + 1 /\ A.acked \subseteq 1 .. Len(topic)
          /\ Len(topic) \in Nat
      BY <1>1
    <3> QED
      BY <2>6, <3>1, <3>2, <3>3
  <2> QED
    BY <1>2, <2>5, <2>7, <2>9, <2>10, OneAgentMoves
<1>7. CASE panic(a)
  <2>1. agents' = [agents EXCEPT ![a] = [A EXCEPT !.panicked = TRUE]]
    BY <1>1, <1>7 DEF panic, AgentStates
  <2>2. /\ agents'[a] = [A EXCEPT !.panicked = TRUE]
        /\ \A b \in Agents \ {a} : agents'[b] = agents[b]
        /\ DOMAIN agents' = Agents /\ A.inflight # 0
    BY <1>1, <1>7, <2>1 DEF panic
  <2>3. /\ agents'[a] \in AgentStates
        /\ agents'[a].cursor = A.cursor /\ agents'[a].inflight = A.inflight
        /\ agents'[a].acked = A.acked /\ agents'[a].lost = A.lost
        /\ agents'[a].tracked = A.tracked /\ agents'[a].orphans = A.orphans
    <3>1. A \in AgentStates
      BY <1>1
    <3>2. agents'[a] = [A EXCEPT !.panicked = TRUE]
      BY <2>2
    <3> HIDE DEF A
    <3>3. agents'[a] = [cursor |-> A.cursor, acked |-> A.acked, inflight |-> A.inflight,
                        panicked |-> TRUE, tracked |-> A.tracked,
                        orphans |-> A.orphans, poisoned |-> A.poisoned,
                        lost |-> A.lost, starts |-> A.starts]
      BY <3>1, <3>2 DEF AgentStates
    <3>4. agents'[a] \in AgentStates
      BY <3>1, <3>3 DEF AgentStates
    <3> QED
      BY <3>3, <3>4
  <2>4. agents' \in [Agents -> AgentStates]
    BY <1>1, <2>1, <2>2, <2>3
  <2>5. \A c, k : (Of(k, c)' <=> Of(k, c)) /\ (Gone(a, k)' <=> Gone(a, k))
                  /\ (Handled(a, k)' <=> Handled(a, k))
    BY <1>2, <2>3 DEF Of, Gone, Handled, Superseded
  <2>6. \A c : Of(agents[a].inflight, c)' <=> Of(agents[a].inflight, c)
    BY <1>2, <2>3 DEF Of
  <2>7. \A c \in Checks : Knows(a, c) => Knows(a, c)'
    BY <1>2, <2>3, <2>5, <2>6 DEF Knows
  <2>8. \A c \in Checks : AcksLost(a, c)' \/ Knows(a, c)'
    BY <1>1, <2>3, <2>7 DEF AcksLost
  <2>9. /\ agents'[a].cursor \in 1 .. Len(topic) + 1
        /\ agents'[a].acked \subseteq 1 .. Len(topic)
        /\ agents'[a].inflight \in 0 .. Len(topic)
        /\ agents'[a].panicked => agents'[a].inflight # 0
    BY <1>1, <2>2, <2>3
  <2> QED
    BY <1>2, <2>2, <2>4, <2>8, <2>9, OneAgentMoves
<1>5. CASE reconnect(a)
  <2>1. agents' = [agents EXCEPT ![a] = [A EXCEPT !.cursor = 1]]
    BY <1>1, <1>5 DEF reconnect, AgentStates
  <2>2. /\ agents'[a] = [A EXCEPT !.cursor = 1]
        /\ \A b \in Agents \ {a} : agents'[b] = agents[b]
        /\ DOMAIN agents' = Agents
    BY <1>1, <2>1
  <2>3. /\ agents'[a] \in AgentStates
        /\ agents'[a].cursor = 1 /\ agents'[a].inflight = A.inflight
        /\ agents'[a].acked = A.acked /\ agents'[a].lost = A.lost
        /\ agents'[a].panicked = A.panicked
        /\ agents'[a].tracked = A.tracked /\ agents'[a].orphans = A.orphans
    <3>1. A \in AgentStates
      BY <1>1
    <3>2. agents'[a] = [A EXCEPT !.cursor = 1]
      BY <2>2
    <3> HIDE DEF A
    <3>3. agents'[a] = [cursor |-> 1, acked |-> A.acked, inflight |-> A.inflight,
                        panicked |-> A.panicked, tracked |-> A.tracked,
                        orphans |-> A.orphans, poisoned |-> A.poisoned,
                        lost |-> A.lost, starts |-> A.starts]
      BY <3>1, <3>2 DEF AgentStates
    <3>4. agents'[a] \in AgentStates
      BY <3>1, <3>3 DEF AgentStates
    <3> QED
      BY <3>3, <3>4
  <2>4. agents' \in [Agents -> AgentStates]
    BY <1>1, <2>1, <2>2, <2>3
  <2>5. \A c, k : (Of(k, c)' <=> Of(k, c)) /\ (Gone(a, k)' <=> Gone(a, k))
                  /\ (Handled(a, k)' <=> Handled(a, k))
    BY <1>2, <2>3 DEF Of, Gone, Handled, Superseded
  <2>6. \A c : Of(agents[a].inflight, c)' <=> Of(agents[a].inflight, c)
    BY <1>2, <2>3 DEF Of
  <2>7. \A c \in Checks : Knows(a, c) => Knows(a, c)'
    BY <1>2, <2>3, <2>5, <2>6 DEF Knows
  <2>8. \A c \in Checks : AcksLost(a, c)' \/ Knows(a, c)'
    BY <1>1, <2>3, <2>7 DEF AcksLost
  <2>9. /\ agents'[a].cursor \in 1 .. Len(topic) + 1
        /\ agents'[a].acked \subseteq 1 .. Len(topic)
        /\ agents'[a].inflight \in 0 .. Len(topic)
        /\ agents'[a].panicked => agents'[a].inflight # 0
    BY <1>1, <1>5, <2>3 DEF reconnect
  <2> QED
    BY <1>2, <2>2, <2>4, <2>8, <2>9, OneAgentMoves
<1>6. CASE restart(a)
  <2> DEFINE n == A.starts + 1
  <2>1. n \in Nat /\ agents' = [agents EXCEPT ![a] = StartAgent(n)]
    BY <1>1, <1>6 DEF restart, AgentStates
  <2> HIDE DEF n
  <2>2. /\ agents'[a] = StartAgent(n)
        /\ \A b \in Agents \ {a} : agents'[b] = agents[b]
        /\ DOMAIN agents' = Agents
    BY <1>1, <2>1
  <2>3. /\ agents'[a] \in AgentStates
        /\ agents'[a].cursor = 1 /\ agents'[a].inflight = 0
        /\ agents'[a].acked = {} /\ DOMAIN agents'[a].tracked = {}
        /\ agents'[a].orphans = {} /\ ~ agents'[a].panicked
    BY <2>1, <2>2, StartedAgent
  <2>4. agents' \in [Agents -> AgentStates]
    BY <1>1, <2>1, <2>2, <2>3
  <2>5. 0 \notin DOMAIN topic' /\ topic' = topic
    BY <1>1, <1>2
  <2>6. ~ \E k : Handled(a, k)'
    BY <2>3 DEF Handled
  <2>7. \A c \in Checks : Knows(a, c)'
    BY <2>3, <2>5, <2>6 DEF Knows, Of
  <2>8. /\ agents'[a].cursor \in 1 .. Len(topic) + 1
        /\ agents'[a].acked \subseteq 1 .. Len(topic)
        /\ agents'[a].inflight \in 0 .. Len(topic)
        /\ agents'[a].panicked => agents'[a].inflight # 0
    BY <1>1, <2>3
  <2> QED
    BY <1>2, <2>2, <2>4, <2>7, <2>8, OneAgentMoves
<1> QED
  BY <1>3, <1>4, <1>5, <1>6, <1>7 DEF AgentStep

----------------------------------------------------------------------------
(* The other steps leave the agents alone.                                 *)

LEMMA HandlersLeaveAgents ==
    ASSUME AgentsInv, StoryInv',
           \/ \E r \in Requests : HandlerStep(r) \/ lose_command(r) \/ abandon(r)
           \/ compact
           \/ UNCHANGED vars
    PROVE  /\ AgentsTypeOK'
           /\ \A a \in Agents : \A c \in Checks : AcksLost(a, c)' \/ Knows(a, c)'
<1>1. topic \in Seq(Commands) /\ topic' \in Seq(Commands)
  BY DEF AgentsInv, StoryInv, Inv, HandlersTypeOK
<1>2. agents' = agents
  BY DEF HandlerStep, lock_pulsar_client, insert_check, delete_check,
         change_check_interval, send_command, lose_command, abandon, compact, vars
<1>3. /\ Len(topic) \in Nat /\ Len(topic') \in Nat /\ DOMAIN topic = 1 .. Len(topic)
      /\ horizon \in 0 .. Len(topic) /\ holder \in Requests \cup {None}
  BY <1>1 DEF AgentsInv, AgentsTypeOK
<1>4. holder' \in Requests \cup {None}
  BY <1>3 DEF HandlerStep, lock_pulsar_client, insert_check, delete_check,
         change_check_interval, send_command, lose_command, abandon, compact, vars
<1>5. \/ topic' = topic
      \/ \E m \in Commands : topic' = Append(topic, m)
  BY CommandIsOne
  DEF HandlerStep, lock_pulsar_client, insert_check, delete_check,
      change_check_interval, send_command, lose_command, abandon, compact, vars
<1>6. Len(topic) <= Len(topic') /\ \A k \in DOMAIN topic : topic'[k] = topic[k]
  BY <1>1, <1>3, <1>5
<1>7. horizon' = horizon \/ (topic' = topic /\ horizon' = Len(topic))
  BY DEF HandlerStep, lock_pulsar_client, insert_check, delete_check,
         change_check_interval, send_command, lose_command, abandon, compact, vars
<1>8. horizon' \in Nat /\ horizon <= horizon' /\ horizon' \in 0 .. Len(topic')
  BY <1>3, <1>6, <1>7
<1>9. AgentsTypeOK'
  <2>1. \A a \in Agents : /\ agents[a].cursor \in 1 .. Len(topic) + 1
                           /\ agents[a].acked \subseteq 1 .. Len(topic)
                           /\ agents[a].inflight \in 0 .. Len(topic)
    BY DEF AgentsInv, AgentsTypeOK
  <2>2. \A a \in Agents : /\ agents[a].cursor \in 1 .. Len(topic') + 1
                           /\ agents[a].acked \subseteq 1 .. Len(topic')
                           /\ agents[a].inflight \in 0 .. Len(topic')
    BY <1>3, <1>6, <2>1
  <2> QED
    BY <1>2, <1>4, <1>8, <2>2 DEF AgentsInv, AgentsTypeOK
<1>10. ASSUME NEW a \in Agents, NEW c \in Checks
       PROVE  AcksLost(a, c)' \/ Knows(a, c)'
  <2>1. CASE AcksLost(a, c)
    BY <1>2, <2>1 DEF AcksLost
  <2>2. CASE Knows(a, c)
    BY <1>1, <1>2, <1>6, <1>8, <2>2, TopicGrows DEF AgentsInv
  <2> QED
    BY <2>1, <2>2 DEF AgentsInv
<1> QED
  BY <1>9, <1>10

LEMMA NextAgents ==
    ASSUME AgentsInv, [Next]_vars
    PROVE  AgentsInv'
<1>1. StoryInv'
  BY StoryStep DEF AgentsInv
<1>2. CASE \E a \in Agents : AgentStep(a) \/ reconnect(a) \/ restart(a)
  BY <1>1, <1>2, AgentSteps DEF AgentsInv
<1>3. CASE \/ \E r \in Requests : HandlerStep(r) \/ lose_command(r) \/ abandon(r)
           \/ compact
           \/ UNCHANGED vars
  BY <1>1, <1>3, HandlersLeaveAgents DEF AgentsInv
<1> QED
  BY <1>2, <1>3 DEF Next

----------------------------------------------------------------------------
(* What an agent that is caught up runs.                                   *)

LEMMA CaughtUpRuns ==
    ASSUME AgentsInv, NEW a \in Agents, CaughtUp(a), NEW c \in Checks, ~ AcksLost(a, c)
    PROVE  /\ c \in DOMAIN agents[a].tracked <=> Announced(c)
           /\ c \in DOMAIN agents[a].tracked =>
                    agents[a].tracked[c] = CreationInterval(c)
           /\ \A j \in agents[a].orphans : j.id # c
<1>1. /\ StoryInv /\ Knows(a, c) /\ TopicTellsOneLife /\ topic \in Seq(Commands)
      /\ agents[a].cursor \in 1 .. Len(topic) + 1 /\ horizon \in 0 .. Len(topic)
      /\ agents[a].inflight = 0 /\ Deliverable(a) = {}
      /\ Len(topic) \in Nat /\ DOMAIN topic = 1 .. Len(topic)
  BY DEF AgentsInv, AgentsTypeOK, StoryInv, Inv, HandlersTypeOK, CaughtUp
<1>2. \A k \in DOMAIN topic : Of(k, c) => Gone(a, k)
  <2>1. ASSUME NEW k \in DOMAIN topic, Of(k, c)
        PROVE  Gone(a, k)
    <3>1. CASE k < agents[a].cursor
      BY <1>1, <2>1, <3>1 DEF Knows
    <3>2. CASE agents[a].cursor <= k
      <4>1. k \in agents[a].cursor .. Len(topic) /\ k \notin Deliverable(a)
        BY <1>1, <3>2
      <4> QED
        BY <4>1 DEF Deliverable, Gone
    <3> QED
      BY <1>1, <3>1, <3>2
  <2> QED
    BY <2>1
<1>3. \A k \in DOMAIN topic : Of(k, c) =>
        Handled(a, k) \/ \E j \in DOMAIN topic : Of(j, c) /\ k < j
  <2>1. ASSUME NEW k \in DOMAIN topic, Of(k, c)
        PROVE  Handled(a, k) \/ \E j \in DOMAIN topic : Of(j, c) /\ k < j
    <3>1. CASE k \in agents[a].acked
      BY <1>1, <3>1 DEF Handled
    <3>2. CASE Superseded(k)
      <4>1. PICK j \in k + 1 .. horizon : topic[j].check = topic[k].check
        BY <3>2 DEF Superseded
      <4>2. j \in DOMAIN topic /\ Of(j, c) /\ k < j
        BY <1>1, <2>1, <4>1 DEF Of
      <4> QED
        BY <4>2
    <3> QED
      BY <1>2, <2>1, <3>1, <3>2 DEF Gone
  <2> QED
    BY <2>1
<1>4. \A k, j \in DOMAIN topic : Of(k, c) /\ Of(j, c) /\ k < j =>
        topic[k].kind = "Add" /\ topic[j].kind = "Remove"
  BY <1>1 DEF TopicTellsOneLife, Of
<1>5. \A k : Sent(c, k) <=> \E i \in DOMAIN topic : Of(i, c) /\ topic[i].kind = k
  BY DEF Sent, Of
<1>6. ASSUME Sent(c, "Add"), ~ Sent(c, "Remove")
      PROVE  c \in DOMAIN agents[a].tracked
  BY <1>1, <1>3, <1>4, <1>5, <1>6 DEF Knows
<1>7. ASSUME c \in DOMAIN agents[a].tracked
      PROVE  Sent(c, "Add") /\ ~ Sent(c, "Remove")
  <2>1. \A k \in DOMAIN topic : Of(k, c) /\ topic[k].kind = "Remove" => Handled(a, k)
    BY <1>3, <1>4
  <2> QED
    BY <1>1, <1>5, <1>7, <2>1 DEF Knows
<1>8. c \in DOMAIN agents[a].tracked <=> Announced(c)
  BY <1>1, <1>6, <1>7, AnnouncedIsSent
<1>9. ASSUME c \in DOMAIN agents[a].tracked
      PROVE  agents[a].tracked[c] = CreationInterval(c)
  <2>1. PICK k \in DOMAIN topic : /\ Of(k, c) /\ topic[k].kind = "Add"
                                  /\ agents[a].tracked[c] = topic[k].interval
    BY <1>1, <1>9 DEF Knows
  <2>2. PICK r \in Requests : /\ r.op = "create" /\ r.check = c
                              /\ r.interval = topic[k].interval
    BY <1>1, <2>1 DEF StoryInv, Story, Of
  <2>3. \A s \in Requests : s.op = "create" /\ s.check = c => s = r
    BY <2>2, RequestsAssumption
  <2>4. (CHOOSE s \in Requests : s.op = "create" /\ s.check = c) = r
    BY <2>2, <2>3
  <2> QED
    BY <2>1, <2>2, <2>4 DEF CreationInterval
<1> QED
  BY <1>1, <1>8, <1>9 DEF Knows

LEMMA SpecAgents == Spec => []AgentsInv
<1>1. AgentsInv /\ [Next]_vars => AgentsInv'
  BY NextAgents
<1> QED
  BY InitAgents, <1>1, PTL DEF Spec

\* TypeOK.  A handler is between its lock and its command exactly while it holds the
\* lock (create_check, delete_check), whatever handlers are dropped and wherever, and
\* the broker's record of an agent never runs ahead of the topic.
THEOREM CommandTypesCorrect == Spec => []TypeOK
<1>1. AgentsInv => TypeOK
  <2> SUFFICES ASSUME AgentsInv PROVE TypeOK
    OBVIOUS
  <2>1. \A a \in Agents : /\ DOMAIN agents[a].tracked \subseteq Checks
                           /\ agents[a].orphans \subseteq [id: Checks, interval: Nat]
    BY TableDomain DEF AgentsInv, AgentsTypeOK, AgentStates, Jobs
  <2> QED
    BY <2>1 DEF AgentsInv, AgentsTypeOK, StoryInv, Story, Inv, HandlersTypeOK, Stages,
                TypeOK
<1> QED
  BY SpecAgents, <1>1, PTL

\* AgentsRunWhatIsAnnounced.  However often an agent restarts or reconnects and
\* wherever the topic was compacted, once it has read what there is it runs a check
\* exactly if the API announced it, once, at the interval the check was created with
\* (main_process, JobsHandler); commands that were not sent and acknowledgements that
\* were lost are the only exceptions.
THEOREM AgentsCorrect == Spec => []AgentsRunWhatIsAnnounced
<1>1. AgentsInv => AgentsRunWhatIsAnnounced
  BY CaughtUpRuns DEF AgentsRunWhatIsAnnounced
<1> QED
  BY SpecAgents, <1>1, PTL

----------------------------------------------------------------------------
(* What an agent promises.                                                 *)

LEMMA JobsAre ==
    ASSUME NEW t, NEW k
    PROVE  k \in JobsIn(t) <=>
                \E c \in DOMAIN t : t[c] > 0 /\ k = Job(c, t[c])
BY DEF JobsIn

LEMMA JobsOfCheck ==
    ASSUME NEW t, NEW c
    PROVE  {k \in JobsIn(t) : k.id = c} =
                {Job(d, t[d]) : d \in {e \in DOMAIN t : e = c /\ t[e] > 0}}
BY JobsAre DEF Job

LEMMA JobsWithAdd ==
    ASSUME NEW t \in Tables, NEW c, NEW n \in Nat, NEW u,
           u = [d \in DOMAIN t \cup {c} |-> IF d = c THEN n ELSE t[d]]
    PROVE  JobsIn(u) = (JobsIn(t) \ {k \in JobsIn(t) : k.id = c})
                            \cup (IF n > 0 THEN {Job(c, n)} ELSE {})
<1>1. ASSUME NEW k
      PROVE  k \in JobsIn(u) <=>
                \/ k \in JobsIn(t) /\ k.id # c
                \/ n > 0 /\ k = Job(c, n)
  <2>1. k \in JobsIn(u) <=> \E d \in DOMAIN u : u[d] > 0 /\ k = Job(d, u[d])
    BY JobsAre
  <2>2. k \in JobsIn(t) <=> \E d \in DOMAIN t : t[d] > 0 /\ k = Job(d, t[d])
    BY JobsAre
  <2>3. /\ DOMAIN u = DOMAIN t \cup {c} /\ u[c] = n
        /\ \A d \in DOMAIN t : d # c => u[d] = t[d]
    OBVIOUS
  <2> QED
    BY <2>1, <2>2, <2>3 DEF Job
<1> QED
  BY <1>1

LEMMA JobsWithout ==
    ASSUME NEW t \in Tables, NEW c, NEW u, u = [d \in DOMAIN t \ {c} |-> t[d]]
    PROVE  JobsIn(u) = JobsIn(t) \ {k \in JobsIn(t) : k.id = c}
<1>1. ASSUME NEW k
      PROVE  k \in JobsIn(u) <=> k \in JobsIn(t) /\ k.id # c
  <2>1. k \in JobsIn(u) <=> \E d \in DOMAIN u : u[d] > 0 /\ k = Job(d, u[d])
    BY JobsAre
  <2>2. k \in JobsIn(t) <=> \E d \in DOMAIN t : t[d] > 0 /\ k = Job(d, t[d])
    BY JobsAre
  <2>3. DOMAIN u = DOMAIN t \ {c} /\ \A d \in DOMAIN u : u[d] = t[d]
    OBVIOUS
  <2> QED
    BY <2>1, <2>2, <2>3 DEF Job
<1> QED
  BY <1>1

LEMMA HandlePromise ==
    ASSUME AgentsInv, NEW a \in Agents, handle_command(a)
    PROVE  /\ agents[a].inflight \in DOMAIN topic
           /\ HandledAsPromised(a, topic[agents[a].inflight])
<1> DEFINE A == agents[a]
           B == agents'[a]
           m == topic[agents[a].inflight]
           t == agents[a].tracked
           u == agents'[a].tracked
<1>1. /\ A.inflight \in DOMAIN topic /\ m.check \in Checks /\ m.interval \in Nat
      /\ m.kind \in {"Add", "Remove"} /\ t \in Tables /\ A.poisoned \in BOOLEAN
      /\ A \in AgentStates
  <2>1. /\ A \in AgentStates /\ A.inflight \in 0 .. Len(topic)
        /\ topic \in Seq(Commands)
    BY DEF AgentsInv, AgentsTypeOK, StoryInv, Inv, HandlersTypeOK
  <2>2. A.inflight \in DOMAIN topic
    <3>1. A.inflight # 0
      BY DEF handle_command
    <3> HIDE DEF A
    <3>2. Len(topic) \in Nat /\ DOMAIN topic = 1 .. Len(topic)
      BY <2>1
    <3> QED
      BY <2>1, <3>1, <3>2
  <2> HIDE DEF A
  <2>3. m.check \in Checks /\ m.interval \in Nat /\ m.kind \in {"Add", "Remove"}
    BY <2>1, <2>2, CommandTypes DEF A
  <2> QED
    BY <2>1, <2>2, <2>3 DEF AgentStates, A
<1>2. ~ A.panicked
  BY DEF handle_command
<1>3. agents' = [agents EXCEPT
            ![a].inflight = 0,
            ![a].tracked = IF m.kind = "Add"
                           THEN [c \in DOMAIN t \cup {m.check} |->
                                    IF c = m.check THEN m.interval ELSE t[c]]
                           ELSE [c \in DOMAIN t \ {m.check} |-> t[c]],
            ![a].orphans = @ \cup {Job(c, t[c]) : c \in {d \in DOMAIN t :
                                m.kind = "Add" /\ d = m.check /\ t[d] > 0}},
            ![a].poisoned = @ \/ (m.kind = "Add" /\ m.interval = 0)]
  BY DEF handle_command
<1>4. /\ B.panicked = A.panicked
      /\ u = IF m.kind = "Add"
             THEN [d \in DOMAIN t \cup {m.check} |->
                        IF d = m.check THEN m.interval ELSE t[d]]
             ELSE [d \in DOMAIN t \ {m.check} |-> t[d]]
      /\ B.orphans = A.orphans \cup {Job(d, t[d]) : d \in {e \in DOMAIN t :
                                m.kind = "Add" /\ e = m.check /\ t[e] > 0}}
      /\ B.poisoned <=> A.poisoned \/ (m.kind = "Add" /\ m.interval = 0)
  <2>1. agents \in [Agents -> AgentStates]
    BY DEF AgentsInv, AgentsTypeOK
  <2> QED
    BY <1>1, <1>3, <2>1 DEF AgentStates
<1>5. CASE m.kind = "Remove"
  <2>1. DOMAIN u = DOMAIN t \ {m.check}
    BY <1>4, <1>5
  <2>2. JobsIn(u) = JobsIn(t) \ {k \in JobsIn(t) : k.id = m.check}
    BY <1>1, <1>4, <1>5, JobsWithout
  <2>3. B.orphans = A.orphans /\ (B.poisoned <=> A.poisoned)
    BY <1>4, <1>5
  <2>4. Table(a)!Remove(m.check)
    BY <1>2, <1>4, <2>1, <2>2, <2>3 DEF Table!Remove, Table!JobsOf
  <2> QED
    BY <1>1, <1>5, <2>4 DEF HandledAsPromised
<1>6. CASE m.kind = "Add"
  <2> DEFINE j == Job(m.check, m.interval)
             n == m.interval
  <2>1. j.id = m.check /\ j.interval = n
    BY DEF Job
  <2>2. DOMAIN u = DOMAIN t \cup {m.check}
    BY <1>4, <1>6
  <2>3. JobsIn(u) = (JobsIn(t) \ {k \in JobsIn(t) : k.id = m.check})
                        \cup (IF n > 0 THEN {j} ELSE {})
    BY <1>1, <1>4, <1>6, JobsWithAdd
  <2>4. B.orphans = A.orphans \cup {k \in JobsIn(t) : k.id = m.check}
    <3>1. {Job(d, t[d]) : d \in {e \in DOMAIN t : e = m.check /\ t[e] > 0}} =
          {Job(d, t[d]) : d \in {e \in DOMAIN t :
                                m.kind = "Add" /\ e = m.check /\ t[e] > 0}}
      BY <1>6
    <3> QED
      <4>1. {k \in JobsIn(t) : k.id = m.check} =
            {Job(d, t[d]) : d \in {e \in DOMAIN t : e = m.check /\ t[e] > 0}}
        BY JobsOfCheck
      <4>2. B.orphans = A.orphans \cup {Job(d, t[d]) : d \in {e \in DOMAIN t :
                                m.kind = "Add" /\ e = m.check /\ t[e] > 0}}
        BY <1>4
      <4> QED
        BY Zenon, <3>1, <4>1, <4>2
  <2> HIDE DEF j, m, t, u
  <2>5. CASE n > 0
    <3>1. B.poisoned <=> A.poisoned
      BY <1>4, <2>5
    <3>2. Table(a)!Add(j)
      BY <1>2, <1>4, <2>1, <2>2, <2>3, <2>4, <2>5, <3>1
      DEF Table!Add, Table!JobsOf, t, u
    <3> QED
      BY <1>1, <1>6, <3>2 DEF HandledAsPromised, j, m
  <2>6. CASE n = 0
    <3>1. B.poisoned
      BY <1>4, <1>6, <2>6
    <3>2. /\ (IF B.poisoned THEN {0} ELSE {}) =
             (IF A.poisoned THEN {0} ELSE {}) \cup {0}
          /\ JobsIn(u) = JobsIn(t) \ {k \in JobsIn(t) : k.id = m.check}
      BY <2>3, <2>6, <3>1
    <3>3. Table(a)!Refuse(j)
      BY <1>2, <1>4, <2>1, <2>2, <2>4, <2>6, <3>2
      DEF Table!Refuse, Table!JobsOf, t, u
    <3> QED
      BY <1>1, <1>6, <3>3 DEF HandledAsPromised, j, m
  <2> QED
    BY <1>1, <2>5, <2>6
<1> QED
  BY <1>1, <1>5, <1>6

\* The check of a command is one that was created, also if its Add was not sent.
Created(c) == \E r \in Requests : r.op = "create" /\ r.check = c

CreatedInv ==
    /\ \A c \in Checks : rows[c].state # "absent" => Created(c)
    /\ \A i \in DOMAIN topic : Created(topic[i].check)

LEMMA InitCreated == Init => CreatedInv
BY DEF Init, CreatedInv

LEMMA NextCreated ==
    ASSUME Inv, CreatedInv, [Next]_vars
    PROVE  CreatedInv'
<1>1. /\ rows \in [Checks -> [state: {"absent", "live", "deleted"}, interval: Nat]]
      /\ topic \in Seq(Commands)
      /\ \A r \in Requests : r.check \in Checks
  BY RequestHasCheck DEF Inv, HandlersTypeOK
<1>2. ASSUME NEW r \in Requests, insert_check(r)
      PROVE  CreatedInv'
  BY <1>1, <1>2 DEF insert_check, CreatedInv, Created
<1>3. ASSUME NEW r \in Requests, delete_check(r)
      PROVE  CreatedInv'
  BY <1>1, <1>3 DEF delete_check, Deletable, CreatedInv, Created
<1>4. ASSUME NEW r \in Requests, change_check_interval(r)
      PROVE  CreatedInv'
  BY <1>1, <1>4 DEF change_check_interval, CreatedInv, Created
<1>5. ASSUME NEW r \in Requests, send_command(r)
      PROVE  CreatedInv'
  <2>1. r.op \in {"create", "delete"} /\ rows[r.check].state # "absent"
    BY <1>5 DEF send_command, Inv, LifeSoFar
  <2>2. Created(r.check) /\ CommandOf(r).check = r.check /\ CommandOf(r) \in Commands
    BY <1>1, <2>1, CommandIsOne DEF CreatedInv
  <2>3. /\ DOMAIN topic' = DOMAIN topic \cup {Len(topic) + 1}
        /\ topic'[Len(topic) + 1] = CommandOf(r)
        /\ \A i \in DOMAIN topic : topic'[i] = topic[i]
    BY <1>1, <1>5, <2>2, AppendedCommand DEF send_command
  <2>4. rows' = rows
    BY <1>5 DEF send_command
  <2> QED
    BY <2>2, <2>3, <2>4 DEF CreatedInv, Created
<1>6. CASE UNCHANGED <<rows, topic>>
  BY <1>6 DEF CreatedInv, Created
<1>7. \/ \E r \in Requests : \/ insert_check(r) \/ delete_check(r)
                            \/ change_check_interval(r) \/ send_command(r)
      \/ UNCHANGED <<rows, topic>>
  BY DEF Next, HandlerStep, AgentStep, lock_pulsar_client, lose_command, abandon,
         receive, handle_command, panic, reconnect, restart, compact, vars
<1> QED
  BY <1>2, <1>3, <1>4, <1>5, <1>6, <1>7

LEMMA PanicPromise ==
    ASSUME AgentsInv, NEW a \in Agents, panic(a)
    PROVE  /\ agents[a].inflight \in DOMAIN topic
           /\ HandledAsPromised(a, topic[agents[a].inflight])
           /\ LET m == topic[agents[a].inflight]
              IN  m.kind = "Add" /\ Table(a)!Panic(Job(m.check, m.interval))
<1> DEFINE A == agents[a]
           m == topic[agents[a].inflight]
           j == Job(m.check, m.interval)
<1>1. A.inflight \in DOMAIN topic
  <2>1. A.inflight # 0
    BY DEF panic
  <2>2. A.inflight \in 0 .. Len(topic) /\ topic \in Seq(Commands)
    BY DEF AgentsInv, AgentsTypeOK, StoryInv, Inv, HandlersTypeOK
  <2> HIDE DEF A
  <2>3. Len(topic) \in Nat /\ DOMAIN topic = 1 .. Len(topic)
    BY <2>2
  <2> QED
    BY <2>1, <2>2, <2>3
<1>2. /\ ~ A.panicked /\ m.kind = "Add"
      /\ m.check \in Malformed \/ m.interval = 0
      /\ agents' = [agents EXCEPT ![a].panicked = TRUE]
  BY DEF panic
<1>3. /\ agents'[a].panicked = TRUE /\ agents'[a].tracked = A.tracked
      /\ agents'[a].orphans = A.orphans /\ agents'[a].poisoned = A.poisoned
  BY <1>2 DEF AgentsInv, AgentsTypeOK, AgentStates
<1>4. PICK r \in Requests : /\ r.op = "create" /\ r.check = m.check
                            /\ r.interval = m.interval
  BY <1>1, <1>2 DEF AgentsInv, StoryInv, Story
<1>5. \/ j.interval = 0
      \/ j \in {Job(q.check, q.interval) : q \in {p \in Requests :
                                p.op = "create" /\ p.check \in Malformed}}
  BY <1>2, <1>4 DEF Job
<1> HIDE DEF j
<1>6. Table(a)!Panic(j)
  BY <1>2, <1>3, <1>5 DEF Table!Panic
<1> QED
  BY <1>1, <1>2, <1>6 DEF HandledAsPromised, j

\* What a command asks for is something an agent can be asked for.
LEMMA PromisedIsNext ==
    ASSUME AgentsInv, CreatedInv, NEW a \in Agents, agents[a].inflight \in DOMAIN topic,
           HandledAsPromised(a, topic[agents[a].inflight]),
           LET m == topic[agents[a].inflight]
           IN  m.kind = "Add" =>
                \/ m.check \notin Malformed
                \/ Table(a)!Panic(Job(m.check, m.interval))
    PROVE  Table(a)!Next
<1> DEFINE m == topic[agents[a].inflight]
           j == Job(m.check, m.interval)
           Good == {Job(r.check, r.interval) : r \in {q \in Requests :
                            q.op = "create" /\ q.check \notin Malformed}}
           Bad == {Job(r.check, r.interval) : r \in {q \in Requests :
                            q.op = "create" /\ q.check \in Malformed}}
<1>1. CASE m.kind = "Add"
  <2>1. PICK r \in Requests : /\ r.op = "create" /\ r.check = m.check
                              /\ r.interval = m.interval
    BY <1>1 DEF AgentsInv, StoryInv, Story
  <2>2. j \in Good \cup Bad
    BY <2>1
  <2>3. Table(a)!Add(j) \/ Table(a)!Refuse(j) \/ Table(a)!Panic(j)
    BY <1>1 DEF HandledAsPromised
  <2>4. j \in Good \/ Table(a)!Panic(j)
    BY <1>1, <2>1
  <2> HIDE DEF j, Good, Bad
  <2> QED
    BY <2>2, <2>3, <2>4 DEF Table!Next, Good, Bad
<1>2. CASE m.kind = "Remove"
  <2>1. PICK r \in Requests : r.op = "create" /\ r.check = m.check
    BY DEF CreatedInv, Created
  <2>2. m.check \in {k.id : k \in Good \cup Bad}
    <3>1. Job(r.check, r.interval) \in Good \cup Bad
      BY <2>1
    <3>2. Job(r.check, r.interval).id = m.check
      BY <2>1 DEF Job
    <3> HIDE DEF Good, Bad
    <3> QED
      BY <3>1, <3>2
  <2>3. Table(a)!Remove(m.check)
    BY <1>2 DEF HandledAsPromised
  <2> QED
    BY <2>2, <2>3 DEF Table!Next
<1> QED
  BY <1>1, <1>2 DEF HandledAsPromised

\* An agent that starts has promised nothing yet.
LEMMA StartPromise ==
    ASSUME NEW a \in Agents, NEW n \in Nat, agents[a] = StartAgent(n)
    PROVE  Table(a)!Init
<1>1. /\ DOMAIN agents[a].tracked = {} /\ agents[a].orphans = {}
      /\ ~ agents[a].panicked /\ ~ agents[a].poisoned
  BY StartedAgent
<1>2. JobsIn(agents[a].tracked) = {}
  BY <1>1, JobsAre
<1> QED
  BY <1>1, <1>2 DEF Table!Init

LEMMA RestartPromise ==
    ASSUME AgentsInv, NEW a \in Agents, restart(a)
    PROVE  agents'[a].starts # agents[a].starts /\ Table(a)!Init'
<1>1. agents \in [Agents -> AgentStates] /\ agents[a].starts \in Nat
  BY DEF AgentsInv, AgentsTypeOK, AgentStates
<1> DEFINE n == agents[a].starts + 1
<1>2. n \in Nat /\ n # agents[a].starts
  BY <1>1
<1>3. agents'[a] = StartAgent(n)
  BY <1>1 DEF restart
<1> HIDE DEF n
<1>4. /\ DOMAIN agents'[a].tracked = {} /\ agents'[a].orphans = {}
      /\ ~ agents'[a].panicked /\ ~ agents'[a].poisoned /\ agents'[a].starts = n
  BY <1>2, <1>3, StartedAgent
<1>5. JobsIn(agents'[a].tracked) = {}
  BY <1>4, JobsAre
<1> QED
  BY <1>2, <1>4, <1>5 DEF Table!Init

\* A command is acknowledged or delivered again, and nothing comes of it yet.
LEMMA ReceivePromise ==
    ASSUME AgentsInv, NEW a \in Agents, receive(a) \/ reconnect(a)
    PROVE  /\ agents[a].inflight \in {0, agents'[a].inflight}
           /\ UNCHANGED Table(a)!vars
<1>1. agents \in [Agents -> AgentStates]
  BY DEF AgentsInv, AgentsTypeOK
<1>2. /\ agents'[a].tracked = agents[a].tracked
      /\ agents'[a].orphans = agents[a].orphans
      /\ agents'[a].panicked = agents[a].panicked
      /\ agents'[a].poisoned = agents[a].poisoned
      /\ agents[a].inflight \in {0, agents'[a].inflight}
  <2>1. CASE reconnect(a)
    BY <1>1, <2>1 DEF reconnect, AgentStates
  <2>2. CASE receive(a)
    <3>1. PICK i : \/ agents' = [agents EXCEPT ![a].cursor = i + 1,
                                              ![a].inflight = i,
                                              ![a].acked = @ \cup {i}]
                   \/ agents' = [agents EXCEPT ![a].cursor = i + 1,
                                              ![a].inflight = i,
                                              ![a].lost = Append(@, topic[i].check)]
      BY <2>2 DEF receive
    <3>2. CASE agents' = [agents EXCEPT ![a].cursor = i + 1, ![a].inflight = i,
                                        ![a].acked = @ \cup {i}]
      BY <1>1, <3>2 DEF AgentStates
    <3>3. CASE agents' = [agents EXCEPT ![a].cursor = i + 1, ![a].inflight = i,
                                        ![a].lost = Append(@, topic[i].check)]
      BY <1>1, <3>3 DEF AgentStates
    <3> QED
      BY <3>1, <3>2, <3>3
  <2> QED
    BY <2>1, <2>2
<1> QED
  BY <1>2 DEF Table!vars

\* AgentsKeepPromise.  Between two starts, what an agent does to its table, to its
\* orphans and to itself is what ActiveChecks allows for the command in its hands
\* (main_process, JobsHandler::handle_command): the promise that JobsHandlerProofs
\* shows the handler to keep is the one the commands are modelled with.
THEOREM AgentsArePromised == Spec => AgentsKeepPromise
<1> DEFINE Kept(a) ==
        \/ /\ agents[a].inflight \in {0, agents'[a].inflight}
           /\ UNCHANGED Table(a)!vars
        \/ /\ agents[a].inflight \in DOMAIN topic
           /\ HandledAsPromised(a, topic[agents[a].inflight])
           /\ Table(a)!Next
        \/ agents'[a].starts # agents[a].starts /\ Table(a)!Init'
<1>1. Init => \A a \in Agents : Table(a)!Init
  BY StartPromise DEF Init
<1>2. Init => CreatedInv
  BY InitCreated
<1>3. AgentsInv /\ CreatedInv /\ [Next]_vars => CreatedInv'
  BY NextCreated DEF AgentsInv, StoryInv
<1>4. AgentsInv /\ CreatedInv /\ [Next]_vars => [\A a \in Agents : Kept(a)]_vars
  <2> SUFFICES ASSUME AgentsInv, CreatedInv, Next, NEW a \in Agents
               PROVE  Kept(a)
    OBVIOUS
  <2>1. CASE agents'[a] = agents[a]
    BY <2>1 DEF Table!vars
  <2>2. CASE handle_command(a)
    <3>1. LET m == topic[agents[a].inflight]
          IN  m.kind = "Add" => m.check \notin Malformed
      BY <2>2 DEF handle_command
    <3> QED
      BY <2>2, <3>1, HandlePromise, PromisedIsNext
  <2>3. CASE panic(a)
    BY <2>3, PanicPromise, PromisedIsNext
  <2>4. CASE receive(a) \/ reconnect(a)
    BY <2>4, ReceivePromise
  <2>5. CASE restart(a)
    BY <2>5, RestartPromise
  <2>6. \/ agents'[a] = agents[a]
        \/ AgentStep(a) \/ reconnect(a) \/ restart(a)
    <3>1. CASE \E b \in Agents : AgentStep(b) \/ reconnect(b) \/ restart(b)
      <4>1. PICK b \in Agents : AgentStep(b) \/ reconnect(b) \/ restart(b)
        BY <3>1
      <4>2. b # a => agents'[a] = agents[a]
        BY <4>1 DEF AgentStep, receive, handle_command, panic, reconnect, restart,
                    AgentsInv, AgentsTypeOK
      <4> QED
        BY <4>1, <4>2
    <3>2. CASE ~ \E b \in Agents : AgentStep(b) \/ reconnect(b) \/ restart(b)
      <4>1. agents' = agents
        BY <3>2 DEF Next, HandlerStep, lock_pulsar_client, insert_check, delete_check,
                    change_check_interval, send_command, lose_command, abandon, compact
      <4> QED
        BY <4>1
    <3> QED
      BY <3>1, <3>2
  <2> QED
    BY <2>1, <2>2, <2>3, <2>4, <2>5, <2>6 DEF AgentStep
<1> QED
  BY SpecAgents, <1>1, <1>2, <1>3, <1>4, PTL DEF Spec, AgentsKeepPromise

----------------------------------------------------------------------------
(* What is behind a malformed command.                                     *)

\* A command that adds a malformed check, which the agent has met or the broker
\* believes it has, is compacted away or in the agent's hands; and what the agent
\* runs, or has in its hands, was not announced behind one that is there still.
HeldUp(a) ==
    /\ \A c \in DOMAIN agents[a].tracked : Sent(c, "Add")
    /\ \A i \in DOMAIN topic :
        AddsMalformed(i) /\ (i < agents[a].cursor \/ i \in agents[a].acked) =>
            i = agents[a].inflight \/ Superseded(i)
    /\ \A i, k \in DOMAIN topic :
        /\ i < k /\ AddsMalformed(i) /\ topic[k].kind = "Add"
        /\ k = agents[a].inflight \/ topic[k].check \in DOMAIN agents[a].tracked
        => Superseded(i)

HeldUpInv == AgentsInv /\ \A a \in Agents : HeldUp(a)

LEMMA HeldUpAtStart ==
    ASSUME NEW a \in Agents, agents[a].cursor = 1, agents[a].acked = {},
           agents[a].inflight = 0, DOMAIN agents[a].tracked = {},
           topic \in Seq(Commands)
    PROVE  HeldUp(a)
<1>1. DOMAIN topic = 1 .. Len(topic) /\ Len(topic) \in Nat
  BY CommandTypes
<1> QED
  BY <1>1 DEF HeldUp

\* The topic grows and is compacted, the agent stays as it is.
LEMMA HeldUpWhileTopicGrows ==
    ASSUME topic \in Seq(Commands), topic' \in Seq(Commands),
           Len(topic) <= Len(topic'),
           \A k \in DOMAIN topic : topic'[k] = topic[k],
           horizon \in 0 .. Len(topic), horizon' \in Nat, horizon <= horizon',
           TopicTellsOneLife', AgentsTypeOK,
           NEW a \in Agents, agents' = agents, HeldUp(a)
    PROVE  HeldUp(a)'
<1>1. /\ Len(topic) \in Nat /\ Len(topic') \in Nat
      /\ DOMAIN topic = 1 .. Len(topic) /\ DOMAIN topic' = 1 .. Len(topic')
      /\ DOMAIN topic \subseteq DOMAIN topic'
      /\ \A i \in DOMAIN topic' \ DOMAIN topic : i > Len(topic)
  OBVIOUS
<1>2. /\ agents[a].cursor \in 1 .. Len(topic) + 1
      /\ agents[a].acked \subseteq 1 .. Len(topic)
      /\ agents[a].inflight \in 0 .. Len(topic)
  BY DEF AgentsTypeOK
<1>3. ASSUME NEW i \in DOMAIN topic, Superseded(i) PROVE Superseded(i)'
  <2>1. PICK j \in i + 1 .. horizon : topic[j].check = topic[i].check
    BY <1>3 DEF Superseded
  <2>2. j \in i + 1 .. horizon' /\ j \in DOMAIN topic
    BY <1>1, <2>1
  <2> QED
    BY <2>1, <2>2 DEF Superseded
<1>4. \A c \in DOMAIN agents[a].tracked : Sent(c, "Add") /\ Sent(c, "Add")'
  BY <1>1 DEF HeldUp, Sent
<1>5. ASSUME NEW i \in DOMAIN topic', AddsMalformed(i)',
             i < agents[a].cursor \/ i \in agents[a].acked
      PROVE  i = agents[a].inflight \/ Superseded(i)'
  <2>1. i \in DOMAIN topic
    BY <1>1, <1>2, <1>5
  <2>2. AddsMalformed(i)
    BY <1>5, <2>1 DEF AddsMalformed
  <2> QED
    BY <1>3, <1>5, <2>1, <2>2 DEF HeldUp
<1>6. ASSUME NEW i \in DOMAIN topic', NEW k \in DOMAIN topic',
             i < k, AddsMalformed(i)', topic'[k].kind = "Add",
             k = agents[a].inflight \/ topic'[k].check \in DOMAIN agents[a].tracked
      PROVE  Superseded(i)'
  <2>1. k \in DOMAIN topic
    <3>1. CASE k = agents[a].inflight
      BY <1>1, <1>2, <3>1
    <3>2. CASE topic'[k].check \in DOMAIN agents[a].tracked
      <4>1. PICK n \in DOMAIN topic : topic[n].check = topic'[k].check /\ topic[n].kind = "Add"
        BY <1>4, <3>2 DEF Sent
      <4>2. n \in DOMAIN topic' /\ topic'[n].check = topic'[k].check
            /\ topic'[n].kind = "Add"
        BY <1>1, <4>1
      <4>3. ~ (n < k) /\ ~ (k < n)
        BY <1>6, <4>2 DEF TopicTellsOneLife
      <4> QED
        BY <1>1, <4>1, <4>3
    <3> QED
      BY <1>6, <3>1, <3>2
  <2>2. i \in DOMAIN topic
    BY <1>1, <1>6, <2>1
  <2>3. AddsMalformed(i) /\ topic[k] = topic'[k]
    BY <1>6, <2>1, <2>2 DEF AddsMalformed
  <2> QED
    BY <1>3, <1>6, <2>1, <2>2, <2>3 DEF HeldUp
<1> QED
  BY <1>4, <1>5, <1>6 DEF HeldUp

\* What the agent is given is the first command it can be given: one that adds a
\* malformed check before it is compacted away.
LEMMA HeldUpAfterReceive ==
    ASSUME AgentsInv, NEW a \in Agents, HeldUp(a), receive(a)
    PROVE  HeldUp(a)'
<1>1. /\ topic \in Seq(Commands) /\ agents \in [Agents -> AgentStates]
      /\ agents[a].cursor \in 1 .. Len(topic) + 1
      /\ UNCHANGED <<topic, horizon>>
  BY DEF AgentsInv, StoryInv, Inv, HandlersTypeOK, AgentsTypeOK, receive
<1>2. DOMAIN topic = 1 .. Len(topic) /\ Len(topic) \in Nat
  BY <1>1, CommandTypes
<1>3. agents[a].inflight = 0
  BY DEF receive
<1>4. PICK n \in Deliverable(a) :
        /\ \A j \in Deliverable(a) : n <= j
        /\ agents'[a].cursor = n + 1 /\ agents'[a].inflight = n
        /\ agents'[a].acked \in {agents[a].acked, agents[a].acked \cup {n}}
        /\ agents'[a].tracked = agents[a].tracked
  <2>1. PICK n \in Deliverable(a) :
          /\ \A j \in Deliverable(a) : n <= j
          /\ \/ agents' = [agents EXCEPT ![a].cursor = n + 1,
                                         ![a].inflight = n,
                                         ![a].acked = @ \cup {n}]
             \/ agents' = [agents EXCEPT ![a].cursor = n + 1,
                                         ![a].inflight = n,
                                         ![a].lost = Append(@, topic[n].check)]
    BY DEF receive
  <2>2. agents[a] \in AgentStates
    BY <1>1
  <2>3. /\ agents'[a].cursor = n + 1 /\ agents'[a].inflight = n
        /\ agents'[a].acked \in {agents[a].acked, agents[a].acked \cup {n}}
        /\ agents'[a].tracked = agents[a].tracked
    BY <1>1, <2>1, <2>2 DEF AgentStates
  <2> QED
    BY <2>1, <2>3
<1>5. n \in DOMAIN topic
  BY <1>1, <1>2, <1>4 DEF Deliverable
<1>6. ASSUME NEW i \in DOMAIN topic, AddsMalformed(i), i < n PROVE Superseded(i)
  <2>1. CASE i < agents[a].cursor \/ i \in agents[a].acked
    BY <1>2, <1>3, <1>6, <2>1 DEF HeldUp
  <2>2. CASE ~ (i < agents[a].cursor) /\ i \notin agents[a].acked
    <3>1. i \in agents[a].cursor .. Len(topic) /\ i \notin Deliverable(a)
      BY <1>1, <1>2, <1>4, <1>5, <1>6, <2>2
    <3> QED
      BY <2>2, <3>1 DEF Deliverable
  <2> QED
    BY <2>1, <2>2
<1>7. \A i : (Superseded(i)' <=> Superseded(i)) /\ (AddsMalformed(i)' <=> AddsMalformed(i))
  BY <1>1 DEF Superseded, AddsMalformed
<1>8. ASSUME NEW i \in DOMAIN topic, AddsMalformed(i), i \in agents[a].acked
      PROVE  Superseded(i)
  BY <1>2, <1>3, <1>8 DEF HeldUp
<1>9. ASSUME NEW i \in DOMAIN topic, AddsMalformed(i),
             i < agents'[a].cursor \/ i \in agents'[a].acked
      PROVE  i = agents'[a].inflight \/ Superseded(i)
  <2>1. i < n \/ i = n \/ i \in agents[a].acked
    BY <1>2, <1>4, <1>5, <1>9
  <2> QED
    BY <1>4, <1>6, <1>8, <1>9, <2>1
<1>10. ASSUME NEW i \in DOMAIN topic, NEW k \in DOMAIN topic,
              i < k, AddsMalformed(i), topic[k].kind = "Add",
              k = agents'[a].inflight \/ topic[k].check \in DOMAIN agents'[a].tracked
       PROVE  Superseded(i)
  BY <1>4, <1>6, <1>10 DEF HeldUp
<1>11. \A c \in DOMAIN agents'[a].tracked : Sent(c, "Add")'
  BY <1>1, <1>4 DEF HeldUp, Sent
<1> QED
  BY <1>1, <1>7, <1>9, <1>10, <1>11 DEF HeldUp

\* The command that is handled was not announced behind a malformed one.
LEMMA HeldUpAfterHandling ==
    ASSUME AgentsInv, NEW a \in Agents, HeldUp(a), handle_command(a)
    PROVE  HeldUp(a)'
<1>1. /\ topic \in Seq(Commands) /\ agents \in [Agents -> AgentStates]
      /\ TopicTellsOneLife
      /\ agents[a].inflight \in 0 .. Len(topic) /\ agents[a].inflight # 0
      /\ UNCHANGED <<topic, horizon>>
  BY DEF AgentsInv, StoryInv, Inv, HandlersTypeOK, AgentsTypeOK, handle_command
<1>2. DOMAIN topic = 1 .. Len(topic) /\ Len(topic) \in Nat
  BY <1>1, CommandTypes
<1> DEFINE n == agents[a].inflight
           m == topic[n]
<1>3. n \in DOMAIN topic /\ ~ AddsMalformed(n)
  <2>1. n \in DOMAIN topic
    BY <1>1, <1>2
  <2>2. ~ (m.kind = "Add" /\ m.check \in Malformed)
    BY DEF handle_command
  <2> QED
    BY <2>1, <2>2 DEF AddsMalformed
<1>4. /\ agents'[a].cursor = agents[a].cursor /\ agents'[a].acked = agents[a].acked
      /\ agents'[a].inflight = 0
      /\ DOMAIN agents'[a].tracked \subseteq
            IF m.kind = "Add" THEN DOMAIN agents[a].tracked \cup {m.check}
            ELSE DOMAIN agents[a].tracked
  <2> DEFINE t == agents[a].tracked
             u == IF m.kind = "Add"
                  THEN [c \in DOMAIN t \cup {m.check} |->
                          IF c = m.check THEN m.interval ELSE t[c]]
                  ELSE [c \in DOMAIN t \ {m.check} |-> t[c]]
             o == agents[a].orphans \cup {Job(c, t[c]) : c \in {d \in DOMAIN t :
                                m.kind = "Add" /\ d = m.check /\ t[d] > 0}}
             p == agents[a].poisoned \/ (m.kind = "Add" /\ m.interval = 0)
  <2>1. agents' = [agents EXCEPT ![a].inflight = 0, ![a].tracked = u,
                                 ![a].orphans = o, ![a].poisoned = p]
    BY DEF handle_command
  <2>2. agents[a] \in AgentStates
    BY <1>1
  <2> HIDE DEF u, o, p
  <2>3. /\ agents'[a].cursor = agents[a].cursor /\ agents'[a].acked = agents[a].acked
        /\ agents'[a].inflight = 0 /\ agents'[a].tracked = u
    BY <1>1, <2>1, <2>2 DEF AgentStates
  <2>4. DOMAIN u \subseteq IF m.kind = "Add" THEN DOMAIN t \cup {m.check} ELSE DOMAIN t
    BY DEF u
  <2> QED
    BY <2>3, <2>4
<1>5. \A i : (Superseded(i)' <=> Superseded(i)) /\ (AddsMalformed(i)' <=> AddsMalformed(i))
  BY <1>1 DEF Superseded, AddsMalformed
<1>6. \A c \in DOMAIN agents'[a].tracked : Sent(c, "Add")'
  BY <1>1, <1>3, <1>4 DEF HeldUp, Sent
<1>7. ASSUME NEW i \in DOMAIN topic, AddsMalformed(i),
             i < agents'[a].cursor \/ i \in agents'[a].acked
      PROVE  Superseded(i)
  BY <1>3, <1>4, <1>7 DEF HeldUp
<1>8. ASSUME NEW i \in DOMAIN topic, NEW k \in DOMAIN topic,
             i < k, AddsMalformed(i), topic[k].kind = "Add",
             k = agents'[a].inflight \/ topic[k].check \in DOMAIN agents'[a].tracked
      PROVE  Superseded(i)
  <2>1. topic[k].check \in DOMAIN agents'[a].tracked
    BY <1>2, <1>4, <1>8
  <2>2. CASE topic[k].check \in DOMAIN agents[a].tracked
    BY <1>8, <2>2 DEF HeldUp
  <2>3. CASE m.kind = "Add" /\ topic[k].check = m.check
    <3>1. ~ (n < k) /\ ~ (k < n)
      BY <1>1, <1>3, <1>8, <2>3 DEF TopicTellsOneLife
    <3>2. k = n
      BY <1>2, <1>3, <3>1
    <3> QED
      BY <1>8, <3>2 DEF HeldUp
  <2> QED
    BY <1>4, <2>1, <2>2, <2>3
<1> QED
  BY <1>1, <1>5, <1>6, <1>7, <1>8 DEF HeldUp

LEMMA HeldUpStep ==
    ASSUME HeldUpInv, [Next]_vars
    PROVE  HeldUpInv'
<1>1. AgentsInv /\ AgentsInv'
  BY NextAgents DEF HeldUpInv
<1>2. /\ topic \in Seq(Commands) /\ topic' \in Seq(Commands) /\ TopicTellsOneLife'
      /\ AgentsTypeOK /\ agents \in [Agents -> AgentStates]
  BY <1>1 DEF AgentsInv, StoryInv, Inv, HandlersTypeOK, AgentsTypeOK
<1>3. SUFFICES ASSUME NEW a \in Agents PROVE HeldUp(a)'
  BY <1>1 DEF HeldUpInv
<1>4. HeldUp(a)
  BY DEF HeldUpInv
<1>5. CASE agents' = agents
  <2>1. \/ topic' = topic
        \/ \E m \in Commands : topic' = Append(topic, m)
    BY <1>1, <1>5, CommandIsOne
    DEF Next, AgentStep, receive, handle_command, panic, reconnect, restart,
        HandlerStep, lock_pulsar_client, insert_check, delete_check,
        change_check_interval, send_command, lose_command, abandon, compact, vars,
        AgentsInv, StoryInv, Inv
  <2>2. horizon \in 0 .. Len(topic) /\ horizon' \in 0 .. Len(topic')
    BY <1>1 DEF AgentsInv, AgentsTypeOK
  <2>3. horizon' = horizon \/ horizon' = Len(topic)
    BY DEF Next, AgentStep, receive, handle_command, panic, reconnect, restart,
        HandlerStep, lock_pulsar_client, insert_check, delete_check,
        change_check_interval, send_command, lose_command, abandon, compact, vars
  <2>4. Len(topic) <= Len(topic') /\ \A k \in DOMAIN topic : topic'[k] = topic[k]
    BY <1>2, <2>1
  <2>5. horizon' \in Nat /\ horizon <= horizon'
    BY <1>2, <2>2, <2>3
  <2> QED
    BY <1>2, <1>4, <1>5, <2>2, <2>4, <2>5, HeldUpWhileTopicGrows
<1>6. ASSUME NEW b \in Agents, AgentStep(b) \/ reconnect(b) \/ restart(b) PROVE HeldUp(a)'
  <2>1. topic' = topic /\ horizon' = horizon
    BY <1>6 DEF AgentStep, receive, handle_command, panic, reconnect, restart
  <2>2. \A i : (Superseded(i)' <=> Superseded(i)) /\ (AddsMalformed(i)' <=> AddsMalformed(i))
    BY <2>1 DEF Superseded, AddsMalformed
  <2>3. CASE b # a
    <3>1. agents'[a] = agents[a]
      BY <1>2, <1>6, <2>3
      DEF AgentStep, receive, handle_command, panic, reconnect, restart
    <3> QED
      BY <1>4, <2>1, <2>2, <3>1 DEF HeldUp, Sent
  <2>4. CASE receive(a)
    BY <1>1, <1>4, <2>4, HeldUpAfterReceive
  <2>5. CASE handle_command(a)
    BY <1>1, <1>4, <2>5, HeldUpAfterHandling
  <2>6. CASE panic(a)
    <3>1. /\ agents'[a].cursor = agents[a].cursor /\ agents'[a].acked = agents[a].acked
          /\ agents'[a].inflight = agents[a].inflight
          /\ agents'[a].tracked = agents[a].tracked
      BY <1>2, <2>6 DEF panic, AgentStates
    <3> QED
      BY <1>4, <2>1, <2>2, <3>1 DEF HeldUp, Sent
  <2>7. CASE reconnect(a)
    <3>1. /\ agents'[a].cursor = 1 /\ agents'[a].acked = agents[a].acked
          /\ agents'[a].inflight = agents[a].inflight
          /\ agents'[a].tracked = agents[a].tracked
      BY <1>2, <2>7 DEF reconnect, AgentStates
    <3>2. DOMAIN topic = 1 .. Len(topic) /\ Len(topic) \in Nat
      BY <1>2, CommandTypes
    <3> QED
      BY <1>4, <2>1, <2>2, <3>1, <3>2 DEF HeldUp, Sent
  <2>8. CASE restart(a)
    <3>1. agents'[a] = StartAgent(agents[a].starts + 1) /\ agents[a].starts + 1 \in Nat
      BY <1>2, <2>8 DEF restart, AgentStates
    <3>2. /\ agents'[a].cursor = 1 /\ agents'[a].acked = {} /\ agents'[a].inflight = 0
          /\ DOMAIN agents'[a].tracked = {}
      BY <3>1, StartedAgent
    <3>3. DOMAIN topic = 1 .. Len(topic) /\ Len(topic) \in Nat
      BY <1>2, CommandTypes
    <3> QED
      BY <2>1, <3>2, <3>3 DEF HeldUp
  <2> QED
    BY <1>6, <2>3, <2>4, <2>5, <2>6, <2>7, <2>8 DEF AgentStep
<1>7. agents' = agents \/ \E b \in Agents : AgentStep(b) \/ reconnect(b) \/ restart(b)
  BY DEF Next, HandlerStep, lock_pulsar_client, insert_check, delete_check,
         change_check_interval, send_command, lose_command, abandon, compact, vars
<1> QED
  BY <1>5, <1>6, <1>7

\* NothingBehindMalformed.  An agent that runs a check announced behind a malformed
\* one (HttpContext::new unwraps Url::parse) was given it only because the malformed
\* one had been deleted and compacted away, however the agent was restarted and
\* reconnected, and whatever acknowledgements were lost.
THEOREM MalformedHides == Spec => []NothingBehindMalformed
<1>1. Init => HeldUpInv
  <2> SUFFICES ASSUME Init, NEW a \in Agents PROVE HeldUp(a)
    BY InitAgents DEF HeldUpInv
  <2>1. topic \in Seq(Commands) /\ 0 \in Nat /\ agents[a] = StartAgent(0)
    BY DEF Init
  <2> QED
    BY <2>1, StartedAgent, HeldUpAtStart
<1>2. HeldUpInv /\ [Next]_vars => HeldUpInv'
  BY HeldUpStep
<1>3. HeldUpInv => NothingBehindMalformed
  <2> SUFFICES ASSUME HeldUpInv, NEW i \in DOMAIN topic, NEW k \in DOMAIN topic,
                      i < k, AddsMalformed(i), topic[k].kind = "Add",
                      NEW a \in Agents, topic[k].check \in DOMAIN agents[a].tracked
               PROVE  \E j \in i + 1 .. horizon :
                        topic[j].kind = "Remove" /\ topic[j].check = topic[i].check
    BY DEF NothingBehindMalformed
  <2>1. /\ topic \in Seq(Commands) /\ TopicTellsOneLife /\ horizon \in 0 .. Len(topic)
    BY DEF HeldUpInv, AgentsInv, StoryInv, Inv, HandlersTypeOK, AgentsTypeOK
  <2>2. Superseded(i)
    BY DEF HeldUpInv, HeldUp
  <2>3. PICK j \in i + 1 .. horizon : topic[j].check = topic[i].check
    BY <2>2 DEF Superseded
  <2>4. j \in DOMAIN topic /\ i < j
    BY <2>1, <2>3, CommandTypes
  <2>5. topic[j].kind = "Remove"
    BY <2>1, <2>3, <2>4 DEF TopicTellsOneLife
  <2> QED
    BY <2>3, <2>5
<1> QED
  BY <1>1, <1>2, <1>3, PTL DEF Spec
============================================================================
