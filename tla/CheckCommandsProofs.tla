------------------------ MODULE CheckCommandsProofs -------------------------
(***************************************************************************)
(* The order of the commands of a check on the topic, for every set of     *)
(* requests and agents.                                                    *)
(*                                                                         *)
(* TopicTellsOneLife is not inductive: it says nothing of the handlers     *)
(* whose command is still to come.  What it rests on is that one handler   *)
(* at most is between its lock and its command (OneHandlerAtATime), and    *)
(* that its row and the topic agree on what it is about to say (LifeSoFar).*)
(***************************************************************************)
EXTENDS CheckCommands, TLAPS

Stages == {"called", "locked", "stored", "ok", "not_found", "abandoned"}

\* What the proof needs of TypeOK.
HandlersTypeOK ==
    /\ pc \in [Requests -> Stages]
    /\ rows \in [Checks -> [state: {"absent", "live", "deleted"}, interval: Nat]]
    /\ topic \in Seq(Commands)

\* Command k of check c is on the topic.
Sent(c, k) == \E i \in DOMAIN topic : topic[i].check = c /\ topic[i].kind = k

\* What has been said of a check, and what its row and its handlers still allow
\* to be said.
LifeSoFar ==
    /\ \A r \in Requests :
        /\ pc[r] \in {"locked", "stored"} => r.op \in {"create", "delete"}
        /\ r.op = "create" /\ pc[r] \in {"called", "locked", "abandoned"} =>
                rows[r.check].state = "absent"
        /\ r.op = "create" /\ pc[r] = "stored" =>
                /\ rows[r.check].state = "live"
                /\ ~Sent(r.check, "Add")
        /\ r.op = "delete" /\ pc[r] = "stored" =>
                /\ rows[r.check].state = "deleted"
                /\ ~Sent(r.check, "Remove")
    /\ \A c \in Checks :
        /\ rows[c].state = "absent" => ~Sent(c, "Add")
        /\ rows[c].state # "deleted" => ~Sent(c, "Remove")

Inv == HandlersTypeOK /\ OneHandlerAtATime /\ LifeSoFar /\ TopicTellsOneLife

----------------------------------------------------------------------------
LEMMA RequestHasCheck ==
    ASSUME NEW r \in Requests
    PROVE  r.check \in Checks
BY DEF Checks

\* A command appended to the topic, and nothing else of it changed.
LEMMA AppendedCommand ==
    ASSUME topic \in Seq(Commands), NEW m \in Commands, topic' = Append(topic, m)
    PROVE  /\ topic' \in Seq(Commands)
           /\ DOMAIN topic' = DOMAIN topic \cup {Len(topic) + 1}
           /\ Len(topic) + 1 \notin DOMAIN topic
           /\ topic'[Len(topic) + 1] = m
           /\ \A i \in DOMAIN topic : topic'[i] = topic[i] /\ i < Len(topic) + 1
           /\ \A c, k : Sent(c, k)' <=> Sent(c, k) \/ (m.check = c /\ m.kind = k)
<1>1. /\ topic' \in Seq(Commands)
      /\ Len(topic) \in Nat
      /\ DOMAIN topic = 1 .. Len(topic)
      /\ DOMAIN topic' = 1 .. Len(topic) + 1
      /\ topic'[Len(topic) + 1] = m
      /\ \A i \in 1 .. Len(topic) : topic'[i] = topic[i]
  OBVIOUS
<1>2. DOMAIN topic' = DOMAIN topic \cup {Len(topic) + 1}
  BY <1>1
<1>3. \A c, k : Sent(c, k)' <=> Sent(c, k) \/ (m.check = c /\ m.kind = k)
  BY <1>1, <1>2 DEF Sent
<1> QED
  BY <1>1, <1>2, <1>3

LEMMA CommandIsOne ==
    ASSUME NEW r \in Requests
    PROVE  /\ CommandOf(r) \in Commands
           /\ CommandOf(r).check = r.check
           /\ CommandOf(r).kind = IF r.op = "create" THEN "Add" ELSE "Remove"
BY RequestHasCheck DEF CommandOf, Commands, Add, Remove

----------------------------------------------------------------------------
LEMMA InitInv == Init => Inv
<1> SUFFICES ASSUME Init PROVE Inv
  OBVIOUS
<1>1. DOMAIN topic = {} /\ topic \in Seq(Commands)
  BY DEF Init
<1>2. \A c, k : ~Sent(c, k)
  BY <1>1 DEF Sent
<1>3. HandlersTypeOK
  BY <1>1 DEF Init, HandlersTypeOK, Stages
<1>4. OneHandlerAtATime
  BY RequestsAssumption DEF Init, OneHandlerAtATime
<1>5. LifeSoFar
  BY <1>2, RequestHasCheck DEF Init, LifeSoFar
<1>6. TopicTellsOneLife
  BY <1>1 DEF TopicTellsOneLife
<1> QED
  BY <1>3, <1>4, <1>5, <1>6 DEF Inv

\* Steps that touch neither rows nor topic, and move a handler that is not then
\* between its write and its command.
LEMMA QuietStep ==
    ASSUME Inv, UNCHANGED <<rows, topic>>, NEW r \in Requests, NEW s \in Stages,
           pc' = [pc EXCEPT ![r] = s], OneHandlerAtATime',
           s # "stored", s = "locked" => r.op \in {"create", "delete"},
           r.op = "create" /\ s \in {"called", "locked", "abandoned"} =>
                pc[r] \in {"called", "locked", "abandoned"}
    PROVE  Inv'
<1>1. \A c, k : Sent(c, k)' <=> Sent(c, k)
  BY DEF Sent
<1>2. HandlersTypeOK'
  BY DEF Inv, HandlersTypeOK
<1>3. pc'[r] = s /\ \A q \in Requests \ {r} : pc'[q] = pc[q]
  BY DEF Inv, HandlersTypeOK
<1>4. LifeSoFar'
  BY <1>1, <1>3 DEF Inv, LifeSoFar
<1>5. TopicTellsOneLife'
  BY DEF Inv, TopicTellsOneLife
<1> QED
  BY <1>2, <1>4, <1>5 DEF Inv

LEMMA LockStep ==
    ASSUME Inv, NEW r \in Requests, lock_pulsar_client(r)
    PROVE  Inv'
<1>1. OneHandlerAtATime'
  BY RequestsAssumption
     DEF lock_pulsar_client, Inv, HandlersTypeOK, OneHandlerAtATime, Stages
<1> QED
  BY <1>1, QuietStep DEF lock_pulsar_client, Stages

LEMMA ChangeStep ==
    ASSUME Inv, NEW r \in Requests, change_check_interval(r)
    PROVE  Inv'
<1> USE DEF change_check_interval
<1>1. \A c \in Checks : rows'[c].state = rows[c].state
  BY DEF Inv, HandlersTypeOK
<1>2. HandlersTypeOK'
  BY RequestsAssumption, RequestHasCheck DEF Inv, HandlersTypeOK, Stages
<1>3. OneHandlerAtATime'
  BY DEF Inv, HandlersTypeOK, OneHandlerAtATime
<1>4. \A c, k : Sent(c, k)' <=> Sent(c, k)
  BY DEF Sent
<1>5. pc'[r] = "ok" /\ \A q \in Requests \ {r} : pc'[q] = pc[q]
  BY DEF Inv, HandlersTypeOK
<1>6. LifeSoFar'
  BY <1>1, <1>4, <1>5, RequestHasCheck DEF Inv, LifeSoFar
<1> QED
  BY <1>2, <1>3, <1>6 DEF Inv, TopicTellsOneLife

LEMMA InsertStep ==
    ASSUME Inv, NEW r \in Requests, insert_check(r)
    PROVE  Inv'
<1> USE DEF insert_check
<1>1. r.check \in Checks
  BY RequestHasCheck
<1>2. HandlersTypeOK'
  BY <1>1, RequestsAssumption DEF Inv, HandlersTypeOK, Stages
<1>3. OneHandlerAtATime'
  BY DEF Inv, HandlersTypeOK, OneHandlerAtATime
<1>4. \A c, k : Sent(c, k)' <=> Sent(c, k)
  BY DEF Sent
<1>5. pc'[r] = "stored" /\ \A q \in Requests \ {r} : pc'[q] = pc[q]
  BY DEF Inv, HandlersTypeOK
<1>6. /\ rows'[r.check].state = "live"
      /\ \A c \in Checks \ {r.check} : rows'[c] = rows[c]
  BY <1>1 DEF Inv, HandlersTypeOK
<1>7. /\ rows[r.check].state = "absent"
      /\ ~Sent(r.check, "Add")
      /\ ~Sent(r.check, "Remove")
  BY <1>1 DEF Inv, LifeSoFar
<1>8. \A q \in Requests \ {r} : pc[q] \notin {"locked", "stored"}
  BY DEF Inv, OneHandlerAtATime
<1>9. \A q \in Requests \ {r} : q.op = "create" => q.check # r.check
  BY RequestsAssumption
<1>10. LifeSoFar'
  <2>1. ASSUME NEW q \in Requests
        PROVE  /\ pc'[q] \in {"locked", "stored"} => q.op \in {"create", "delete"}
               /\ q.op = "create" /\ pc'[q] \in {"called", "locked", "abandoned"} =>
                        rows'[q.check].state = "absent"
               /\ q.op = "create" /\ pc'[q] = "stored" =>
                        rows'[q.check].state = "live" /\ ~Sent(q.check, "Add")'
               /\ q.op = "delete" /\ pc'[q] = "stored" =>
                        rows'[q.check].state = "deleted" /\ ~Sent(q.check, "Remove")'
    <3>1. CASE q = r
      BY <3>1, <1>4, <1>5, <1>6, <1>7
    <3>2. CASE q # r
      BY <3>2, <1>5, <1>6, <1>8, <1>9, RequestHasCheck DEF Inv, LifeSoFar
    <3> QED
      BY <3>1, <3>2
  <2>2. ASSUME NEW c \in Checks
        PROVE  /\ rows'[c].state = "absent" => ~Sent(c, "Add")'
               /\ rows'[c].state # "deleted" => ~Sent(c, "Remove")'
    <3>1. CASE c = r.check
      BY <3>1, <1>4, <1>6, <1>7
    <3>2. CASE c # r.check
      BY <3>2, <1>4, <1>6 DEF Inv, LifeSoFar
    <3> QED
      BY <3>1, <3>2
  <2> QED
    BY <2>1, <2>2 DEF LifeSoFar
<1> QED
  BY <1>2, <1>3, <1>10 DEF Inv, TopicTellsOneLife

LEMMA DeleteStep ==
    ASSUME Inv, NEW r \in Requests, delete_check(r)
    PROVE  Inv'
<1>1. CASE ~Deletable(r)
  <2>1. OneHandlerAtATime'
    BY <1>1, RequestsAssumption
       DEF delete_check, Inv, HandlersTypeOK, OneHandlerAtATime
  <2> QED
    BY <1>1, <2>1, QuietStep DEF delete_check, Stages
<1>2. CASE Deletable(r)
  <2>1. /\ r.check \in Checks
        /\ rows[r.check].state = "live"
        /\ rows' = [rows EXCEPT ![r.check].state = "deleted"]
        /\ pc' = [pc EXCEPT ![r] = "stored"]
        /\ pc[r] = "locked" /\ r.op = "delete"
        /\ UNCHANGED <<holder, topic>>
    BY <1>2, RequestHasCheck DEF delete_check, Deletable
  <2>2. HandlersTypeOK'
    BY <2>1 DEF Inv, HandlersTypeOK, Stages
  <2>3. OneHandlerAtATime'
    BY <2>1 DEF Inv, HandlersTypeOK, OneHandlerAtATime
  <2>4. \A c, k : Sent(c, k)' <=> Sent(c, k)
    BY <2>1 DEF Sent
  <2>5. pc'[r] = "stored" /\ \A q \in Requests \ {r} : pc'[q] = pc[q]
    BY <2>1 DEF Inv, HandlersTypeOK
  <2>6. /\ rows'[r.check].state = "deleted"
        /\ \A c \in Checks \ {r.check} : rows'[c] = rows[c]
    BY <2>1 DEF Inv, HandlersTypeOK
  <2>7. ~Sent(r.check, "Remove")
    BY <2>1 DEF Inv, LifeSoFar
  <2>8. \A q \in Requests \ {r} : pc[q] \notin {"locked", "stored"}
    BY <2>1 DEF Inv, OneHandlerAtATime
  <2>9. LifeSoFar'
    <3>1. ASSUME NEW q \in Requests
          PROVE  /\ pc'[q] \in {"locked", "stored"} => q.op \in {"create", "delete"}
                 /\ q.op = "create" /\ pc'[q] \in {"called", "locked", "abandoned"} =>
                          rows'[q.check].state = "absent"
                 /\ q.op = "create" /\ pc'[q] = "stored" =>
                          rows'[q.check].state = "live" /\ ~Sent(q.check, "Add")'
                 /\ q.op = "delete" /\ pc'[q] = "stored" =>
                          rows'[q.check].state = "deleted" /\ ~Sent(q.check, "Remove")'
      <4>1. CASE q = r
        BY <4>1, <2>1, <2>4, <2>5, <2>6, <2>7
      <4>2. CASE q # r
        BY <4>2, <2>1, <2>5, <2>6, <2>8, RequestHasCheck DEF Inv, LifeSoFar
      <4> QED
        BY <4>1, <4>2
    <3>2. ASSUME NEW c \in Checks
          PROVE  /\ rows'[c].state = "absent" => ~Sent(c, "Add")'
                 /\ rows'[c].state # "deleted" => ~Sent(c, "Remove")'
      BY <2>4, <2>6 DEF Inv, LifeSoFar
    <3> QED
      BY <3>1, <3>2 DEF LifeSoFar
  <2> QED
    BY <2>1, <2>2, <2>3, <2>9 DEF Inv, TopicTellsOneLife
<1> QED
  BY <1>1, <1>2

LEMMA SendStep ==
    ASSUME Inv, NEW r \in Requests, send_command(r)
    PROVE  Inv'
<1> DEFINE m == CommandOf(r)
<1>1. /\ r.check \in Checks
      /\ pc[r] = "stored"
      /\ r.op \in {"create", "delete"}
      /\ pc' = [pc EXCEPT ![r] = "ok"]
      /\ holder' = None
      /\ UNCHANGED rows
  BY RequestHasCheck DEF send_command, Inv, LifeSoFar
<1>2. /\ m \in Commands
      /\ m.check = r.check
      /\ m.kind = IF r.op = "create" THEN "Add" ELSE "Remove"
  BY CommandIsOne
<1>3. topic \in Seq(Commands) /\ topic' = Append(topic, m)
  BY DEF send_command, Inv, HandlersTypeOK
<1> HIDE DEF m
<1>4. /\ topic' \in Seq(Commands)
      /\ DOMAIN topic' = DOMAIN topic \cup {Len(topic) + 1}
      /\ Len(topic) + 1 \notin DOMAIN topic
      /\ topic'[Len(topic) + 1] = m
      /\ \A i \in DOMAIN topic : topic'[i] = topic[i] /\ i < Len(topic) + 1
      /\ \A c, k : Sent(c, k)' <=> Sent(c, k) \/ (m.check = c /\ m.kind = k)
  BY <1>2, <1>3, AppendedCommand
<1>5. HandlersTypeOK'
  BY <1>1, <1>4 DEF Inv, HandlersTypeOK, Stages
<1>6. pc'[r] = "ok" /\ \A q \in Requests \ {r} : pc'[q] = pc[q]
  BY <1>1 DEF Inv, HandlersTypeOK
<1>7. \A q \in Requests \ {r} : pc[q] \notin {"locked", "stored"}
  BY <1>1 DEF Inv, OneHandlerAtATime
<1>8. OneHandlerAtATime'
  BY <1>1, <1>6, <1>7, RequestsAssumption DEF OneHandlerAtATime
<1>9. LifeSoFar'
  <2>1. ASSUME NEW q \in Requests
        PROVE  /\ pc'[q] \notin {"locked", "stored"}
               /\ q.op = "create" /\ pc'[q] \in {"called", "locked", "abandoned"} =>
                        rows'[q.check].state = "absent"
    BY <1>1, <1>6, <1>7 DEF Inv, LifeSoFar
  <2>2. ASSUME NEW c \in Checks
        PROVE  /\ rows'[c].state = "absent" => ~Sent(c, "Add")'
               /\ rows'[c].state # "deleted" => ~Sent(c, "Remove")'
    BY <1>1, <1>2, <1>4 DEF Inv, LifeSoFar
  <2> QED
    BY <2>1, <2>2 DEF LifeSoFar
<1>10. TopicTellsOneLife'
  <2> SUFFICES ASSUME NEW i \in DOMAIN topic', NEW j \in DOMAIN topic',
                      topic'[i].check = topic'[j].check, i < j
               PROVE  topic'[i].kind = "Add" /\ topic'[j].kind = "Remove"
    BY DEF TopicTellsOneLife
  <2>1. i \in DOMAIN topic
    BY <1>3, <1>4
  <2>2. CASE j \in DOMAIN topic
    BY <2>1, <2>2, <1>4 DEF Inv, TopicTellsOneLife
  <2>3. CASE j = Len(topic) + 1
    <3>1. topic[i].check = r.check /\ topic'[i] = topic[i] /\ topic'[j] = m
      BY <2>1, <2>3, <1>2, <1>4
    <3>2. topic[i].kind \in {"Add", "Remove"}
      <4>1. topic[i] \in Commands
        BY <2>1, <1>3
      <4> QED
        BY <4>1 DEF Commands
    <3>3. ~(r.op = "create" /\ topic[i].kind = "Add")
      BY <2>1, <3>1, <1>1 DEF Inv, LifeSoFar, Sent
    <3>4. ~(r.op = "create" /\ topic[i].kind = "Remove")
      BY <2>1, <3>1, <1>1 DEF Inv, LifeSoFar, Sent
    <3>5. ~(r.op = "delete" /\ topic[i].kind = "Remove")
      BY <2>1, <3>1, <1>1 DEF Inv, LifeSoFar, Sent
    <3> QED
      BY <3>1, <3>2, <3>3, <3>4, <3>5, <1>1, <1>2
  <2> QED
    BY <2>2, <2>3, <1>4
<1> QED
  BY <1>5, <1>8, <1>9, <1>10 DEF Inv

LEMMA FaultSteps ==
    ASSUME Inv, NEW r \in Requests, lose_command(r) \/ abandon(r)
    PROVE  Inv'
<1>1. OneHandlerAtATime'
  BY RequestsAssumption
     DEF lose_command, abandon, Inv, HandlersTypeOK, OneHandlerAtATime
<1> QED
  BY <1>1, QuietStep DEF lose_command, abandon, Stages

LEMMA OtherSteps ==
    ASSUME Inv, UNCHANGED <<pc, holder, rows, topic>>
    PROVE  Inv'
BY DEF Inv, HandlersTypeOK, OneHandlerAtATime, LifeSoFar, Sent, TopicTellsOneLife

LEMMA NextInv == Inv /\ [Next]_vars => Inv'
<1> SUFFICES ASSUME Inv, [Next]_vars PROVE Inv'
  OBVIOUS
<1>1. ASSUME NEW r \in Requests, HandlerStep(r) \/ lose_command(r) \/ abandon(r)
      PROVE  Inv'
  BY <1>1, LockStep, InsertStep, DeleteStep, ChangeStep, SendStep, FaultSteps
     DEF HandlerStep
<1>2. ASSUME NEW a \in Agents, AgentStep(a) \/ reconnect(a) \/ restart(a)
      PROVE  Inv'
  BY <1>2, OtherSteps DEF AgentStep, receive, handle_command, panic, reconnect, restart
<1>3. CASE compact \/ UNCHANGED vars
  BY <1>3, OtherSteps DEF compact, vars
<1> QED
  BY <1>1, <1>2, <1>3 DEF Next

\* However many handlers create and delete checks, are dropped or fail to send,
\* the topic has at most one Add and one Remove of a check, the Add first.
THEOREM TopicOrder == Spec => []TopicTellsOneLife
<1>1. Inv => TopicTellsOneLife
  BY DEF Inv
<1> QED
  BY <1>1, InitInv, NextInv, PTL DEF Spec

----------------------------------------------------------------------------
(* What the topic says of a check, and its row.                            *)

Told(r) == pc[r] \in {"stored", "ok"}

\* The Add of a check that was stored is either sent or Unsent, and so is the Remove
\* of one that was deleted, by one request only.
Story ==
    /\ dropped \subseteq Requests
    /\ \A r \in dropped : pc[r] = "ok"
    /\ \A r \in Requests : r.op = "delete" /\ Told(r) =>
        /\ rows[r.check].state = "deleted"
        /\ \A s \in Requests :
            s.op = "delete" /\ Told(s) /\ s.check = r.check => s = r
    /\ \A c \in Checks :
        /\ rows[c].state # "absent" => (Sent(c, "Add") <=> ~ Unsent(c, "create"))
        /\ rows[c].state = "deleted" => (Sent(c, "Remove") <=> ~ Unsent(c, "delete"))
    /\ \A i \in DOMAIN topic : topic[i].kind = "Add" =>
        \E r \in Requests : /\ r.op = "create" /\ r.check = topic[i].check
                            /\ r.interval = topic[i].interval

StoryInv == Inv /\ Story

LEMMA AnnouncedIsSent ==
    ASSUME StoryInv, NEW c \in Checks
    PROVE  Announced(c) <=> Sent(c, "Add") /\ ~ Sent(c, "Remove")
<1>1. rows[c].state \in {"absent", "live", "deleted"}
  BY DEF StoryInv, Inv, HandlersTypeOK
<1>2. /\ rows[c].state = "absent" => ~ Sent(c, "Add")
      /\ rows[c].state # "deleted" => ~ Sent(c, "Remove")
      /\ rows[c].state # "absent" => (Sent(c, "Add") <=> ~ Unsent(c, "create"))
      /\ rows[c].state = "deleted" => (Sent(c, "Remove") <=> ~ Unsent(c, "delete"))
  BY DEF StoryInv, Inv, LifeSoFar, Story
<1> QED
  BY <1>1, <1>2 DEF Announced

\* Steps that say nothing of a check, and leave what is to be said.
LEMMA QuietStory ==
    ASSUME StoryInv, UNCHANGED <<topic, dropped>>,
           \A c \in Checks : rows'[c].state = rows[c].state,
           \A q \in Requests : /\ pc'[q] = "stored" <=> pc[q] = "stored"
                               /\ pc[q] = "ok" => pc'[q] = "ok"
                               /\ q.op = "delete" /\ pc'[q] = "ok" => pc[q] = "ok"
    PROVE  Story'
<1>1. \A c, k : Sent(c, k)' <=> Sent(c, k)
  BY DEF Sent
<1>2. dropped \subseteq Requests
  BY DEF StoryInv, Story
<1>3. \A c, k : Unsent(c, k)' <=> Unsent(c, k)
  BY DEF Unsent
<1>4. \A q \in Requests : q.op = "delete" => (Told(q)' <=> Told(q))
  BY DEF Told
<1>5. \A q \in Requests : q.check \in Checks
  BY RequestHasCheck
<1> HIDE DEF Told
<1> QED
  BY <1>1, <1>2, <1>3, <1>4, <1>5 DEF StoryInv, Story

LEMMA StoryStep ==
    ASSUME StoryInv, [Next]_vars
    PROVE  StoryInv'
<1> Inv /\ Inv' /\ Story
  BY NextInv DEF StoryInv
<1> SUFFICES Story'
  BY DEF StoryInv
<1> pc \in [Requests -> Stages]
  BY DEF Inv, HandlersTypeOK
<1> \A q \in Requests : q.check \in Checks
  BY RequestHasCheck
<1>1. ASSUME NEW r \in Requests, lock_pulsar_client(r) \/ abandon(r)
      PROVE  Story'
  BY <1>1, QuietStory DEF lock_pulsar_client, abandon
<1>2. ASSUME NEW r \in Requests, change_check_interval(r)
      PROVE  Story'
  <2>1. \A c \in Checks : rows'[c].state = rows[c].state
    BY <1>2 DEF change_check_interval, Inv, HandlersTypeOK
  <2> QED
    BY <1>2, <2>1, QuietStory DEF change_check_interval
<1>3. ASSUME NEW r \in Requests, insert_check(r)
      PROVE  Story'
  <2>1. /\ pc' = [pc EXCEPT ![r] = "stored"] /\ r.op = "create" /\ pc[r] = "locked"
        /\ UNCHANGED <<topic, dropped>>
        /\ rows'[r.check].state = "live"
        /\ \A c \in Checks \ {r.check} : rows'[c] = rows[c]
    BY <1>3 DEF insert_check, Inv, HandlersTypeOK
  <2>2. rows[r.check].state = "absent" /\ ~ Sent(r.check, "Add")
    BY <2>1 DEF Inv, LifeSoFar
  <2>3. \A c, k : Sent(c, k)' <=> Sent(c, k)
    BY <2>1 DEF Sent
  <2>4. pc'[r] = "stored" /\ \A q \in Requests \ {r} : pc'[q] = pc[q]
    BY <2>1
  <2>5. Unsent(r.check, "create")'
    BY <2>1, <2>4 DEF Unsent
  <2>6. \A c \in Checks \ {r.check} : \A k : Unsent(c, k)' <=> Unsent(c, k)
    BY <2>1, <2>4 DEF Unsent
  <2>7. \A q \in Requests : q.op = "delete" =>
            /\ Told(q)' <=> Told(q)
            /\ Told(q) => q.check # r.check
    BY <2>1, <2>2, <2>4 DEF Story, Told
  <2>8. r \notin dropped
    BY <2>1 DEF Story
  <2> QED
    BY <2>1, <2>2, <2>3, <2>4, <2>5, <2>6, <2>7, <2>8 DEF Story
<1>4. ASSUME NEW r \in Requests, delete_check(r)
      PROVE  Story'
  <2>1. CASE ~ Deletable(r)
    BY <1>4, <2>1, QuietStory DEF delete_check
  <2>2. CASE Deletable(r)
    <3>1. /\ pc' = [pc EXCEPT ![r] = "stored"] /\ r.op = "delete" /\ pc[r] = "locked"
          /\ UNCHANGED <<topic, dropped>>
          /\ rows'[r.check].state = "deleted" /\ rows[r.check].state = "live"
          /\ \A c \in Checks \ {r.check} : rows'[c] = rows[c]
      BY <1>4, <2>2 DEF delete_check, Deletable, Inv, HandlersTypeOK
    <3>2. ~ Sent(r.check, "Remove")
      BY <3>1 DEF Inv, LifeSoFar
    <3>3. \A c, k : Sent(c, k)' <=> Sent(c, k)
      BY <3>1 DEF Sent
    <3>4. pc'[r] = "stored" /\ \A q \in Requests \ {r} : pc'[q] = pc[q]
      BY <3>1
    <3>5. Unsent(r.check, "delete")'
      BY <3>1, <3>4 DEF Unsent
    <3>6. /\ \A c \in Checks \ {r.check} : \A k : Unsent(c, k)' <=> Unsent(c, k)
          /\ Unsent(r.check, "create")' <=> Unsent(r.check, "create")
      BY <3>1, <3>4 DEF Unsent
    <3>7. \A q \in Requests : q.op = "delete" /\ q # r =>
            /\ Told(q)' <=> Told(q)
            /\ Told(q) => q.check # r.check
      BY <3>1, <3>4 DEF Story, Told
    <3>8. r \notin dropped
      BY <3>1 DEF Story
    <3> QED
      BY <3>1, <3>2, <3>3, <3>4, <3>5, <3>6, <3>7, <3>8 DEF Story
  <2> QED
    BY <2>1, <2>2
<1>5. ASSUME NEW r \in Requests, send_command(r)
      PROVE  Story'
  <2> DEFINE m == CommandOf(r)
  <2>1. /\ pc' = [pc EXCEPT ![r] = "ok"] /\ pc[r] = "stored"
        /\ r.op \in {"create", "delete"}
        /\ topic' = Append(topic, m)
        /\ UNCHANGED <<rows, dropped>>
    BY <1>5 DEF send_command, Inv, LifeSoFar
  <2>2. /\ m \in Commands /\ m.check = r.check
        /\ m.kind = IF r.op = "create" THEN "Add" ELSE "Remove"
        /\ r.op = "create" => m.interval = r.interval
    BY CommandIsOne DEF CommandOf, Add
  <2>3. topic \in Seq(Commands)
    BY DEF Inv, HandlersTypeOK
  <2> HIDE DEF m
  <2>4. /\ DOMAIN topic' = DOMAIN topic \cup {Len(topic) + 1}
        /\ topic'[Len(topic) + 1] = m
        /\ \A i \in DOMAIN topic : topic'[i] = topic[i]
        /\ \A c, k : Sent(c, k)' <=> Sent(c, k) \/ (m.check = c /\ m.kind = k)
    BY <2>1, <2>2, <2>3, AppendedCommand
  <2>5. pc'[r] = "ok" /\ \A q \in Requests \ {r} : pc'[q] = pc[q]
    BY <2>1
  <2>6. r \notin dropped
    BY <2>1 DEF Story
  <2>7. \A q \in Requests : Told(q)' <=> Told(q)
    BY <2>1, <2>5 DEF Told
  <2>8. ~ Unsent(r.check, r.op)'
    <3>1. ASSUME NEW q \in Requests, q.check = r.check, q.op = r.op,
                 pc'[q] = "stored" \/ q \in dropped
          PROVE  FALSE
      <4>1. q # r
        BY <2>5, <2>6, <3>1
      <4>2. pc[q] \in {"stored", "ok"}
        BY <2>5, <3>1, <4>1 DEF Story
      <4>3. CASE r.op = "create"
        BY <3>1, <4>1, <4>3, RequestsAssumption
      <4>4. CASE r.op = "delete"
        BY <2>1, <3>1, <4>1, <4>2, <4>4 DEF Story, Told
      <4> QED
        BY <2>1, <4>3, <4>4
    <3> QED
      BY <2>1, <3>1 DEF Unsent
  <2>9. \A c, k : c # r.check \/ k # r.op => (Unsent(c, k)' <=> Unsent(c, k))
    BY <2>1, <2>5 DEF Unsent
  <2>10. ASSUME NEW c \in Checks
         PROVE  /\ rows'[c].state # "absent" => (Sent(c, "Add")' <=> ~ Unsent(c, "create")')
                /\ rows'[c].state = "deleted" =>
                        (Sent(c, "Remove")' <=> ~ Unsent(c, "delete")')
    BY <2>1, <2>2, <2>4, <2>8, <2>9 DEF Story
  <2>11. \A i \in DOMAIN topic' : topic'[i].kind = "Add" =>
            \E q \in Requests : /\ q.op = "create" /\ q.check = topic'[i].check
                                /\ q.interval = topic'[i].interval
    BY <2>1, <2>2, <2>4 DEF Story
  <2> HIDE DEF Told
  <2> QED
    BY <2>1, <2>5, <2>7, <2>10, <2>11 DEF Story
<1>6. ASSUME NEW r \in Requests, lose_command(r)
      PROVE  Story'
  <2>1. /\ pc' = [pc EXCEPT ![r] = "ok"] /\ pc[r] = "stored"
        /\ dropped' = dropped \cup {r}
        /\ UNCHANGED <<rows, topic>>
    BY <1>6 DEF lose_command
  <2>2. pc'[r] = "ok" /\ \A q \in Requests \ {r} : pc'[q] = pc[q]
    BY <2>1
  <2>3. \A c, k : Sent(c, k)' <=> Sent(c, k)
    BY <2>1 DEF Sent
  <2>4. \A c, k : Unsent(c, k)' <=> Unsent(c, k)
    BY <2>1, <2>2 DEF Unsent
  <2>5. \A q \in Requests : Told(q)' <=> Told(q)
    BY <2>1, <2>2 DEF Told
  <2> HIDE DEF Told
  <2> QED
    BY <2>1, <2>2, <2>3, <2>4, <2>5 DEF Story
<1>7. ASSUME UNCHANGED <<pc, rows, topic, dropped>>
      PROVE  Story'
  <2>1. /\ \A c \in Checks : rows'[c].state = rows[c].state
        /\ \A q \in Requests : pc'[q] = pc[q]
    BY <1>7
  <2> QED
    BY <1>7, <2>1, QuietStory
<1>8. CASE \E r \in Requests : HandlerStep(r) \/ lose_command(r) \/ abandon(r)
  BY <1>1, <1>2, <1>3, <1>4, <1>5, <1>6, <1>8 DEF HandlerStep
<1>9. CASE \E a \in Agents : AgentStep(a) \/ reconnect(a) \/ restart(a)
  <2>1. UNCHANGED <<pc, rows, topic, dropped>>
    BY <1>9 DEF AgentStep, receive, handle_command, panic, reconnect, restart
  <2> QED
    BY <1>7, <2>1
<1>10. CASE compact \/ UNCHANGED vars
  BY <1>7, <1>10 DEF compact, vars
<1> QED
  BY <1>8, <1>9, <1>10 DEF Next
=============================================================================
