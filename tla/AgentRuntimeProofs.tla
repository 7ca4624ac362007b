------------------------- MODULE AgentRuntimeProofs -------------------------
(***************************************************************************)
(* What an agent's threads do, for any number of workers, intervals,       *)
(* commands and runs of jobs.                                              *)
(*                                                                         *)
(* OneWorkerSendsNothing is not inductive: it rests on a process holding   *)
(* the only worker whenever there is a sample, as only processes start     *)
(* jobs and nothing but a panic or a restart, which drops the samples,     *)
(* stops them.                                                             *)
(***************************************************************************)
EXTENDS AgentRuntime, FiniteSetTheorems, TLAPS

\* While one worker is all there is, samples come with a process that holds it.
SamplesNeedProcess ==
    workers = 1 /\ ~overran =>
        /\ \A r \in Runs : stage[r] \in {"request", "answered", "queued"} =>
                               RunningProcesses /= {}
        /\ \A r \in Runs : stage[r] \notin {"sinking", "sent"}

RuntimeInv ==
    /\ TypeOK
    /\ SamplesInOnePlace
    /\ ClientsSuffice
    /\ SamplesNeedProcess

----------------------------------------------------------------------------
(* Types.                                                                  *)

LEMMA InitTypes == Init => TypeOK
<1> SUFFICES ASSUME Init PROVE TypeOK
  OBVIOUS
<1>1. topic \in Topics /\ Len(topic) \in Nat
  BY RuntimeAssumption DEF Init
<1>2. fetched \in 0 .. Len(topic) /\ handled \in 0 .. fetched /\ restarts \in 0 .. MaxRestarts
  BY <1>1, RuntimeAssumption DEF Init
<1>3. process \in [Intervals -> {"none", "spawned", "running", "panicked", "dropped"}]
      /\ stage \in [Runs -> Stages]
  BY DEF Init, Stages
<1>4. wheel \in Seq(Intervals) /\ channel \in Seq(Runs)
  BY DEF Init
<1> QED
  BY <1>1, <1>2, <1>3, <1>4, RuntimeAssumption DEF Init, TypeOK

LEMMA TopicLength ==
    ASSUME TypeOK
    PROVE  /\ topic \in Seq([interval: Intervals, valid: BOOLEAN])
           /\ Len(topic) \in Nat
           /\ fetched \in Nat /\ handled \in Nat
<1>1. topic \in Seq([interval: Intervals, valid: BOOLEAN])
  BY RuntimeAssumption DEF TypeOK
<1>2. Len(topic) \in Nat
  BY <1>1
<1>3. fetched \in 0 .. Len(topic) /\ handled \in 0 .. fetched
  BY DEF TypeOK
<1> QED
  BY <1>1, <1>2, <1>3

LEMMA NextTypes == TypeOK /\ [Next]_vars => TypeOK'
<1> SUFFICES ASSUME TypeOK, [Next]_vars PROVE TypeOK'
  OBVIOUS
<1>0. /\ Len(topic) \in Nat /\ fetched \in Nat /\ handled \in Nat
      /\ topic \in Seq([interval: Intervals, valid: BOOLEAN])
  BY TopicLength
<1> USE RuntimeAssumption
<1>1. CASE receive
  BY <1>0, <1>1 DEF TypeOK, receive
<1>2. CASE handle_command
  <2>1. handled' \in 0 .. fetched' /\ fetched' \in 0 .. Len(topic')
    BY <1>0, <1>2 DEF TypeOK, handle_command
  <2>2. process' \in [Intervals -> {"none", "spawned", "running", "panicked", "dropped"}]
        /\ main' \in {"running", "ended", "exited"}
    BY <1>0, <1>2 DEF TypeOK, handle_command
  <2> QED
    BY <1>2, <2>1, <2>2 DEF TypeOK, handle_command
<1>3. CASE subscription_fails
  BY <1>3 DEF TypeOK, subscription_fails
<1>4. ASSUME NEW i \in Intervals, process_start(i) PROVE TypeOK'
  BY <1>4 DEF TypeOK, process_start
<1>5. ASSUME NEW i \in Intervals, overrun(i) PROVE TypeOK'
  <2>1. stage' \in [Runs -> Stages]
    BY <1>5 DEF TypeOK, overrun, Stages
  <2> QED
    BY <1>5, <2>1 DEF TypeOK, overrun
<1>6. ASSUME NEW i \in Intervals, NEW r \in Runs, execute_http(i, r) PROVE TypeOK'
  <2>1. wheel' \in Seq(Intervals)
    BY <1>6 DEF TypeOK, execute_http
  <2>2. capacity' \in Nat
    BY <1>6 DEF TypeOK, execute_http, CapacityForGet
  <2> QED
    BY <1>6, <2>1, <2>2 DEF TypeOK, execute_http, Stages
<1>7. ASSUME NEW r \in Runs, run(r) PROVE TypeOK'
  BY <1>7 DEF TypeOK, run, Stages
<1>8. ASSUME NEW r \in Runs, send(r) PROVE TypeOK'
  <2>1. stage' \in [Runs -> Stages]
    BY <1>8 DEF TypeOK, send, Stages
  <2>2. channel' = Append(channel, r) \/ channel' = channel
    BY <1>8 DEF send
  <2>3. channel' \in Seq(Runs)
    <3>1. channel \in Seq(Runs)
      BY DEF TypeOK
    <3>2. Append(channel, r) \in Seq(Runs)
      BY <3>1
    <3> QED
      BY <2>2, <3>1, <3>2
  <2> QED
    BY <1>8, <2>1, <2>3 DEF TypeOK, send
<1>9. ASSUME NEW r \in Runs, send_non_blocking(r) PROVE TypeOK'
  BY <1>9 DEF TypeOK, send_non_blocking, Stages
<1>10. CASE recv
  <2>1. Head(channel) \in Runs /\ channel' \in Seq(Runs)
    BY <1>10 DEF TypeOK, recv
  <2> QED
    BY <1>10, <2>1 DEF TypeOK, recv, Stages
<1>11. CASE shutdown
  <2>1. stage' \in [Runs -> Stages]
    BY <1>11 DEF TypeOK, shutdown, Drop, Stages
  <2> QED
    BY <1>11, <2>1 DEF TypeOK, shutdown
<1>12. CASE exit
  BY <1>12 DEF TypeOK, exit
<1>13. CASE restart
  <2>1. stage' \in [Runs -> Stages]
    BY <1>13 DEF TypeOK, restart, Stages
  <2>2. restarts' \in 0 .. MaxRestarts
    BY <1>13 DEF TypeOK, restart
  <2> QED
    BY <1>0, <1>13, <2>1, <2>2 DEF TypeOK, restart
<1>14. CASE UNCHANGED vars
  BY <1>14 DEF TypeOK, vars
<1> QED
  BY <1>1, <1>2, <1>3, <1>4, <1>5, <1>6, <1>7, <1>8, <1>9, <1>10, <1>11, <1>12,
     <1>13, <1>14 DEF Next

----------------------------------------------------------------------------
(* The samples.                                                            *)

\* The runs that are the same as before, and the channel with them.
LEMMA SamePlaces ==
    ASSUME SamplesInOnePlace,
           UNCHANGED <<channel, wheel>>,
           \A r \in Runs : \/ stage'[r] = stage[r]
                           \/ /\ stage[r] \in {"request", "answered", "sinking"}
                              /\ stage'[r] \in {"request", "answered", "sent", "lost", "cancelled"}
    PROVE  SamplesInOnePlace'
<1>1. \A r \in Runs : /\ stage'[r] = "none" <=> stage[r] = "none"
                      /\ stage'[r] = "queued" <=> stage[r] = "queued"
                      /\ stage'[r] = "sinking" => stage[r] = "sinking"
  OBVIOUS
<1> QED
  BY <1>1 DEF SamplesInOnePlace

LEMMA EmptySequence == Len(<<>>) = 0 /\ DOMAIN <<>> = {}
  OBVIOUS

\* A channel without samples, and none in the sink's hands.
LEMMA EmptyPlaces ==
    ASSUME SamplesInOnePlace,
           channel' = <<>>,
           wheel' = wheel,
           \A r \in Runs : /\ stage'[r] = "none" <=> stage[r] = "none"
                           /\ stage'[r] \notin {"queued", "sinking"}
    PROVE  SamplesInOnePlace'
<1>1. Len(<<>>) = 0 /\ DOMAIN <<>> = {}
  BY EmptySequence
<1>2. Len(channel') = 0 /\ DOMAIN channel' = {}
  BY <1>1
<1>3. Len(channel') <= ChannelSize
  BY <1>2, RuntimeAssumption
<1> QED
  BY <1>2, <1>3 DEF SamplesInOnePlace

LEMMA NextPlaces ==
    TypeOK /\ SamplesInOnePlace /\ [Next]_vars => SamplesInOnePlace'
<1> SUFFICES ASSUME TypeOK, SamplesInOnePlace, [Next]_vars PROVE SamplesInOnePlace'
  OBVIOUS
<1>1. CASE receive \/ handle_command \/ subscription_fails \/ exit \/ UNCHANGED vars
  BY <1>1, SamePlaces DEF receive, handle_command, subscription_fails, exit, vars
<1>2. ASSUME NEW i \in Intervals, process_start(i) PROVE SamplesInOnePlace'
  BY <1>2, SamePlaces DEF process_start
<1>3. ASSUME NEW i \in Intervals, overrun(i) PROVE SamplesInOnePlace'
  <2>1. \A r \in Runs : \/ stage'[r] = stage[r]
                        \/ stage[r] \in {"request", "answered"} /\ stage'[r] = "cancelled"
    <3> SUFFICES ASSUME NEW r \in Runs
                 PROVE  \/ stage'[r] = stage[r]
                        \/ stage[r] \in {"request", "answered"} /\ stage'[r] = "cancelled"
      OBVIOUS
    <3>2. stage'[r] = IF r \in UnderWay /\ wheel[r] = i THEN "cancelled" ELSE stage[r]
      BY <1>3 DEF overrun
    <3> QED
      BY <3>2 DEF UnderWay
  <2> QED
    BY <1>3, <2>1, SamePlaces DEF overrun
<1>4. ASSUME NEW i \in Intervals, NEW r \in Runs, execute_http(i, r)
      PROVE SamplesInOnePlace'
  <2>1. /\ r = Len(wheel) + 1 /\ Len(wheel) \in Nat /\ Len(wheel') = Len(wheel) + 1
        /\ stage' = [stage EXCEPT ![r] = "request"] /\ channel' = channel
    BY <1>4 DEF execute_http, TypeOK
  <2>2. stage[r] = "none"
    BY <2>1 DEF SamplesInOnePlace, Runs
  <2>3. \A q \in Runs : stage'[q] = "none" <=> q > Len(wheel')
    BY <2>1 DEF SamplesInOnePlace, TypeOK, Runs
  <2>4. \A q \in Runs : /\ stage'[q] = "queued" <=> stage[q] = "queued"
                        /\ stage'[q] = "sinking" <=> stage[q] = "sinking"
    BY <2>1, <2>2 DEF TypeOK
  <2> QED
    BY <2>1, <2>3, <2>4 DEF SamplesInOnePlace
<1>5. ASSUME NEW r \in Runs, run(r) PROVE SamplesInOnePlace'
  BY <1>5, SamePlaces DEF run, TypeOK
<1>6. ASSUME NEW r \in Runs, send(r) PROVE SamplesInOnePlace'
  <2>1. stage[r] = "answered" /\ wheel' = wheel
    BY <1>6 DEF send
  <2>2. CASE sink /= "running"
    BY <1>6, <2>2, SamePlaces DEF send, TypeOK
  <2>3. CASE sink = "running"
    <3>1. /\ Len(channel) < ChannelSize /\ channel' = Append(channel, r)
          /\ stage' = [stage EXCEPT ![r] = "queued"]
      BY <1>6, <2>3 DEF send
    <3>2. channel \in Seq(Runs) /\ Len(channel) \in Nat
      BY DEF TypeOK
    <3>3. /\ Len(channel') = Len(channel) + 1
          /\ DOMAIN channel = 1 .. Len(channel)
          /\ DOMAIN channel' = 1 .. Len(channel) + 1
          /\ channel'[Len(channel) + 1] = r
          /\ \A k \in DOMAIN channel : channel'[k] = channel[k]
      BY <3>1, <3>2
    <3>4. \A k \in DOMAIN channel : channel[k] /= r
      BY <2>1 DEF SamplesInOnePlace
    <3>5. \A q \in Runs : stage'[q] = "queued" <=> \E k \in DOMAIN channel' : channel'[k] = q
      BY <3>1, <3>2, <3>3 DEF SamplesInOnePlace, TypeOK
    <3>6. \A j, k \in DOMAIN channel' : channel'[j] = channel'[k] => j = k
      BY <3>2, <3>3, <3>4 DEF SamplesInOnePlace
    <3>7. Len(channel') <= ChannelSize
      BY <3>1, <3>2, <3>3, RuntimeAssumption
    <3>8. \A q \in Runs : (stage'[q] = "none" <=> stage[q] = "none")
                         /\ (stage'[q] = "sinking" <=> stage[q] = "sinking")
      BY <2>1, <3>1 DEF TypeOK
    <3>9. \A p, q \in Runs : stage'[p] = "sinking" /\ stage'[q] = "sinking" => p = q
      BY <3>8 DEF SamplesInOnePlace
    <3>10. \A q \in Runs : stage'[q] = "none" <=> q > Len(wheel')
      BY <2>1, <3>8 DEF SamplesInOnePlace
    <3> QED
      BY <3>5, <3>6, <3>7, <3>9, <3>10 DEF SamplesInOnePlace
  <2> QED
    BY <2>2, <2>3
<1>7. ASSUME NEW r \in Runs, send_non_blocking(r) PROVE SamplesInOnePlace'
  BY <1>7, SamePlaces DEF send_non_blocking, TypeOK
<1>8. CASE recv
  <2>1. /\ channel /= <<>> /\ channel' = Tail(channel) /\ wheel' = wheel
        /\ stage' = [stage EXCEPT ![Head(channel)] = "sinking"]
        /\ \A r \in Runs : stage[r] /= "sinking"
    BY <1>8 DEF recv, At
  <2>2. channel \in Seq(Runs) /\ Len(channel) \in Nat
    BY DEF TypeOK
  <2>3. /\ Len(channel) > 0
        /\ Len(channel') = Len(channel) - 1
        /\ DOMAIN channel = 1 .. Len(channel)
        /\ DOMAIN channel' = 1 .. Len(channel) - 1
        /\ Head(channel) = channel[1]
        /\ channel[1] \in Runs
        /\ \A k \in DOMAIN channel' : channel'[k] = channel[k + 1]
    BY <2>1, <2>2
  <2>4. stage[channel[1]] = "queued"
    BY <2>3 DEF SamplesInOnePlace
  <2>5. \A q \in Runs : stage'[q] = "queued" <=> \E k \in DOMAIN channel' : channel'[k] = q
    <3>1. SUFFICES ASSUME NEW q \in Runs
                   PROVE  stage'[q] = "queued" <=> \E k \in DOMAIN channel' : channel'[k] = q
      OBVIOUS
    <3>2. CASE q = channel[1]
      <4>1. stage'[q] = "sinking"
        BY <2>1, <2>3, <3>2 DEF TypeOK
      <4>2. \A k \in DOMAIN channel' : channel'[k] /= q
        BY SMTT(30), <2>2, <2>3, <3>2 DEF SamplesInOnePlace
      <4> QED
        BY <4>1, <4>2
    <3>3. CASE q /= channel[1]
      <4>1. stage'[q] = stage[q]
        BY <2>1, <2>3, <3>3 DEF TypeOK
      <4>2. ASSUME NEW k \in DOMAIN channel, channel[k] = q
            PROVE  \E j \in DOMAIN channel' : channel'[j] = q
        <5>1. k - 1 \in DOMAIN channel' /\ k = (k - 1) + 1
          BY <2>2, <2>3, <3>3, <4>2
        <5> QED
          BY <2>3, <4>2, <5>1
      <4>3. ASSUME NEW k \in DOMAIN channel', channel'[k] = q
            PROVE  \E j \in DOMAIN channel : channel[j] = q
        <5>1. k + 1 \in DOMAIN channel /\ channel[k + 1] = q
          BY <2>2, <2>3, <4>3
        <5> QED
          BY <5>1
      <4> QED
        BY <4>1, <4>2, <4>3 DEF SamplesInOnePlace
    <3> QED
      BY <3>2, <3>3
  <2>6. \A j, k \in DOMAIN channel' : channel'[j] = channel'[k] => j = k
    <3>1. SUFFICES ASSUME NEW j \in DOMAIN channel', NEW k \in DOMAIN channel',
                          channel'[j] = channel'[k]
                   PROVE  j = k
      OBVIOUS
    <3>2. j + 1 \in DOMAIN channel /\ k + 1 \in DOMAIN channel /\ j \in Nat /\ k \in Nat
      BY <2>2, <2>3
    <3>3. j + 1 = k + 1
      BY <2>3, <3>1, <3>2 DEF SamplesInOnePlace
    <3> QED
      BY <3>2, <3>3
  <2>7. Len(channel') <= ChannelSize
    BY <2>2, <2>3, RuntimeAssumption DEF SamplesInOnePlace
  <2>8. \A q \in Runs : stage'[q] = "none" <=> stage[q] = "none"
    BY <2>1, <2>3, <2>4 DEF TypeOK
  <2>9. \A q \in Runs : stage'[q] = "sinking" => q = channel[1]
    BY <2>1, <2>3 DEF TypeOK
  <2> QED
    BY <2>1, <2>5, <2>6, <2>7, <2>8, <2>9 DEF SamplesInOnePlace
<1>9. CASE shutdown
  <2>1. \A r \in Runs : /\ stage'[r] = "none" <=> stage[r] = "none"
                        /\ stage'[r] \notin {"queued", "sinking"}
    BY <1>9 DEF shutdown, Drop
  <2> QED
    BY <1>9, <2>1, EmptyPlaces DEF shutdown
<1>10. CASE restart
  <2>1. \A r \in Runs : /\ stage'[r] = "none" <=> stage[r] = "none"
                        /\ stage'[r] \notin {"queued", "sinking"}
    BY <1>10 DEF restart
  <2> QED
    BY <1>10, <2>1, EmptyPlaces DEF restart
<1> QED
  BY <1>1, <1>2, <1>3, <1>4, <1>5, <1>6, <1>7, <1>8, <1>9, <1>10 DEF Next

----------------------------------------------------------------------------
(* The clients.                                                            *)

LEMMA RunsFinite ==
    /\ IsFiniteSet(Runs)
    /\ IsFiniteSet(UnderWay) /\ Cardinality(UnderWay) \in Nat
    /\ IsFiniteSet(UnderWay') /\ Cardinality(UnderWay') \in Nat
<1>1. IsFiniteSet(Runs)
  BY FS_Interval, RuntimeAssumption DEF Runs
<1>2. UnderWay \subseteq Runs /\ UnderWay' \subseteq Runs
  BY DEF UnderWay
<1>3. IsFiniteSet(UnderWay) /\ IsFiniteSet(UnderWay')
  BY <1>1, <1>2, FS_Subset
<1> QED
  BY <1>1, <1>3, FS_CardinalityType

\* A step that starts no job and takes no client away.
LEMMA FewerUnderWay ==
    ASSUME ClientsSuffice, TypeOK, UnderWay' \subseteq UnderWay, capacity' = capacity
    PROVE  ClientsSuffice'
<1>1. Cardinality(UnderWay') <= Cardinality(UnderWay)
  BY RunsFinite, FS_Subset
<1> QED
  BY <1>1, RunsFinite DEF ClientsSuffice, TypeOK

LEMMA NextClients == TypeOK /\ ClientsSuffice /\ [Next]_vars => ClientsSuffice'
<1> SUFFICES ASSUME TypeOK, ClientsSuffice, [Next]_vars PROVE ClientsSuffice'
  OBVIOUS
<1>1. CASE receive \/ handle_command \/ subscription_fails \/ exit \/ UNCHANGED vars
  BY <1>1, FewerUnderWay
     DEF receive, handle_command, subscription_fails, exit, vars, UnderWay
<1>2. ASSUME NEW i \in Intervals, process_start(i) PROVE ClientsSuffice'
  BY <1>2, FewerUnderWay DEF process_start, UnderWay
<1>3. ASSUME NEW i \in Intervals, overrun(i) PROVE ClientsSuffice'
  <2>1. \A r \in Runs : stage'[r] = stage[r] \/ stage'[r] = "cancelled"
    BY <1>3 DEF overrun
  <2>2. UnderWay' \subseteq UnderWay
    BY <2>1 DEF UnderWay
  <2> QED
    BY <1>3, <2>2, FewerUnderWay DEF overrun
<1>4. ASSUME NEW i \in Intervals, NEW r \in Runs, execute_http(i, r)
      PROVE ClientsSuffice'
  <2>1. UnderWay' \subseteq UnderWay \cup {r}
    BY <1>4 DEF execute_http, UnderWay, TypeOK
  <2>2. /\ IsFiniteSet(UnderWay \cup {r})
        /\ Cardinality(UnderWay \cup {r}) <= Cardinality(UnderWay) + 1
    <3>1. /\ IsFiniteSet(UnderWay \cup {r})
          /\ Cardinality(UnderWay \cup {r}) = IF r \in UnderWay THEN Cardinality(UnderWay)
                                               ELSE Cardinality(UnderWay) + 1
      BY RunsFinite, FS_AddElement
    <3> QED
      BY <3>1, RunsFinite
  <2>3. /\ Cardinality(UnderWay') <= Cardinality(UnderWay \cup {r})
        /\ Cardinality(UnderWay \cup {r}) \in Nat
    BY <2>1, <2>2, FS_Subset, FS_CardinalityType
  <2>4. capacity' = IF Cardinality(UnderWay) = capacity THEN capacity + GrowFactor ELSE capacity
    BY <1>4 DEF execute_http, CapacityForGet
  <2>5. capacity \in Nat /\ Cardinality(UnderWay) <= capacity
    BY DEF TypeOK, ClientsSuffice
  <2>6. Cardinality(UnderWay') <= capacity'
    BY <2>2, <2>3, <2>4, <2>5, RunsFinite, RuntimeAssumption
  <2> QED
    BY <2>6 DEF ClientsSuffice
<1>5. ASSUME NEW r \in Runs, run(r) PROVE ClientsSuffice'
  BY <1>5, FewerUnderWay DEF run, UnderWay, TypeOK
<1>6. ASSUME NEW r \in Runs, send(r) PROVE ClientsSuffice'
  BY <1>6, FewerUnderWay DEF send, UnderWay, TypeOK
<1>7. ASSUME NEW r \in Runs, send_non_blocking(r) PROVE ClientsSuffice'
  BY <1>7, FewerUnderWay DEF send_non_blocking, UnderWay, TypeOK
<1>8. CASE recv
  BY <1>8, FewerUnderWay DEF recv, UnderWay, TypeOK
<1>9. CASE shutdown
  BY <1>9, FewerUnderWay DEF shutdown, Drop, UnderWay
<1>10. CASE restart
  <2>1. UnderWay' = {}
    BY <1>10 DEF restart, UnderWay
  <2>2. Cardinality(UnderWay') = 0
    BY <2>1, FS_EmptySet
  <2> QED
    BY <1>10, <2>2, RuntimeAssumption DEF restart, ClientsSuffice
<1> QED
  BY <1>1, <1>2, <1>3, <1>4, <1>5, <1>6, <1>7, <1>8, <1>9, <1>10 DEF Next

----------------------------------------------------------------------------
(* The one worker.                                                         *)

LEMMA OneWorkerHeld ==
    ASSUME TypeOK, workers = 1, RunningProcesses /= {}
    PROVE  ~FreeWorker
<1>1. IsFiniteSet(RunningProcesses)
  BY FS_Subset, RuntimeAssumption DEF RunningProcesses
<1>2. Cardinality(RunningProcesses) \in Nat /\ Cardinality(RunningProcesses) /= 0
  BY <1>1, FS_CardinalityType, FS_EmptySet
<1> QED
  BY <1>2 DEF FreeWorker

\* A step after which no more samples are on their way, and no fewer processes run.
LEMMA ProcessesStay ==
    ASSUME SamplesNeedProcess, workers' = workers, overran' = overran,
           RunningProcesses \subseteq RunningProcesses',
           \A r \in Runs : \/ stage'[r] = stage[r]
                           \/ /\ stage'[r] \in {"request", "answered", "queued"}
                              /\ RunningProcesses /= {}
                           \/ stage'[r] \in {"lost", "cancelled"}
    PROVE  SamplesNeedProcess'
  BY DEF SamplesNeedProcess

LEMMA NextSamples ==
    TypeOK /\ SamplesInOnePlace /\ SamplesNeedProcess /\ [Next]_vars => SamplesNeedProcess'
<1> SUFFICES ASSUME TypeOK, SamplesInOnePlace, SamplesNeedProcess, [Next]_vars
             PROVE  SamplesNeedProcess'
  OBVIOUS
<1>1. CASE receive \/ subscription_fails \/ exit \/ UNCHANGED vars
  BY <1>1, ProcessesStay DEF receive, subscription_fails, exit, vars, RunningProcesses
<1>2. CASE handle_command
  <2>1. RunningProcesses \subseteq RunningProcesses'
    BY <1>2 DEF handle_command, RunningProcesses, TypeOK
  <2> QED
    BY <1>2, <2>1, ProcessesStay DEF handle_command
<1>3. ASSUME NEW i \in Intervals, process_start(i) PROVE SamplesNeedProcess'
  <2>1. RunningProcesses \subseteq RunningProcesses'
    BY <1>3 DEF process_start, RunningProcesses, TypeOK
  <2> QED
    BY <1>3, <2>1, ProcessesStay DEF process_start
<1>4. ASSUME NEW i \in Intervals, overrun(i) PROVE SamplesNeedProcess'
  BY <1>4 DEF overrun, SamplesNeedProcess
<1>5. ASSUME NEW i \in Intervals, NEW r \in Runs, execute_http(i, r)
      PROVE SamplesNeedProcess'
  <2>1. RunningProcesses /= {} /\ RunningProcesses' = RunningProcesses
    BY <1>5 DEF execute_http, RunningProcesses
  <2>2. \A q \in Runs : stage'[q] = stage[q] \/ stage'[q] = "request"
    BY <1>5 DEF execute_http, TypeOK
  <2> QED
    BY <1>5, <2>1, <2>2, ProcessesStay DEF execute_http
<1>6. ASSUME NEW r \in Runs, run(r) \/ send(r) PROVE SamplesNeedProcess'
  <2>1. /\ stage[r] \in {"request", "answered"}
        /\ stage'[r] \in {"answered", "queued", "lost"}
        /\ \A q \in Runs \ {r} : stage'[q] = stage[q]
        /\ UNCHANGED <<workers, overran, process>>
    BY <1>6 DEF run, send, TypeOK
  <2>2. RunningProcesses' = RunningProcesses
    BY <2>1 DEF RunningProcesses
  <2> QED
    BY <2>1, <2>2 DEF SamplesNeedProcess
<1>7. ASSUME FreeWorker, workers = 1, ~overran
      PROVE  \A r \in Runs : stage[r] \in {"none", "lost", "cancelled"}
  <2>1. RunningProcesses = {}
    BY <1>7, OneWorkerHeld
  <2>2. \A r \in Runs : stage[r] \in Stages
    BY DEF TypeOK
  <2> QED
    BY <1>7, <2>1, <2>2 DEF SamplesNeedProcess, Stages
<1>8. ASSUME NEW r \in Runs, send_non_blocking(r) PROVE SamplesNeedProcess'
  BY <1>7, <1>8 DEF send_non_blocking, SamplesNeedProcess
<1>9. CASE recv
  <2>1. channel \in Seq(Runs) /\ channel /= <<>> /\ FreeWorker
        /\ UNCHANGED <<workers, overran>>
    BY <1>9 DEF TypeOK, recv
  <2>2. 1 \in DOMAIN channel /\ channel[1] \in Runs
    BY <2>1
  <2>3. stage[channel[1]] = "queued"
    BY <2>2 DEF SamplesInOnePlace
  <2>4. ~(workers = 1 /\ ~overran)
    BY <1>7, <2>1, <2>2, <2>3
  <2> QED
    BY <2>1, <2>4 DEF SamplesNeedProcess
<1>10. CASE shutdown
  <2>1. FreeWorker /\ UNCHANGED <<workers, overran>>
        /\ \A r \in Runs : stage'[r] = stage[r] \/ stage'[r] = "lost"
    BY <1>10 DEF shutdown, Drop
  <2> QED
    BY <1>7, <2>1 DEF SamplesNeedProcess
<1>11. CASE restart
  <2>1. UNCHANGED <<workers, overran>>
        /\ \A r \in Runs : \/ stage'[r] = stage[r] /\ stage[r] \in {"none", "sent"}
                           \/ stage'[r] = "lost"
    BY <1>11 DEF restart
  <2> QED
    BY <2>1 DEF SamplesNeedProcess
<1> QED
  BY <1>1, <1>2, <1>3, <1>4, <1>5, <1>6, <1>8, <1>9, <1>10, <1>11 DEF Next

----------------------------------------------------------------------------
LEMMA RuntimeInductive == Spec => []RuntimeInv
<1>1. Init => RuntimeInv
  <2> SUFFICES ASSUME Init PROVE RuntimeInv
    OBVIOUS
  <2>1. TypeOK
    BY InitTypes
  <2>2. Len(<<>>) = 0 /\ DOMAIN <<>> = {}
    BY EmptySequence
  <2>3. \A r \in Runs : stage[r] = "none" /\ r > Len(wheel)
    BY <2>2, RuntimeAssumption DEF Init, Runs
  <2>4. Len(channel) <= ChannelSize /\ DOMAIN channel = {}
    BY <2>2, RuntimeAssumption DEF Init
  <2>5. SamplesInOnePlace
    BY <2>3, <2>4 DEF SamplesInOnePlace
  <2>6. ClientsSuffice
    <3>1. UnderWay = {}
      BY <2>3 DEF UnderWay
    <3>2. Cardinality(UnderWay) = 0
      BY <3>1, FS_EmptySet
    <3> QED
      BY <3>2, RuntimeAssumption DEF Init, ClientsSuffice
  <2>7. SamplesNeedProcess
    BY <2>3 DEF SamplesNeedProcess
  <2> QED
    BY <2>1, <2>5, <2>6, <2>7 DEF RuntimeInv
<1>2. RuntimeInv /\ [Next]_vars => RuntimeInv'
  BY NextTypes, NextPlaces, NextClients, NextSamples DEF RuntimeInv
<1> QED
  BY <1>1, <1>2, PTL DEF Spec

\* The types, the places of the samples and the number of http clients are right
\* however many jobs there are and however long their requests take.
THEOREM RuntimeCorrect == Spec => [](TypeOK /\ SamplesInOnePlace /\ ClientsSuffice)
<1>1. RuntimeInv => TypeOK /\ SamplesInOnePlace /\ ClientsSuffice
  BY DEF RuntimeInv
<1> QED
  BY <1>1, RuntimeInductive, PTL

\* The default of one worker thread keeps every sample in the agent, whatever
\* the checks, the intervals and the size of the channel.
THEOREM OneWorkerIsMute == Spec => []OneWorkerSendsNothing
<1>1. RuntimeInv => OneWorkerSendsNothing
  BY DEF RuntimeInv, SamplesNeedProcess, OneWorkerSendsNothing
<1> QED
  BY <1>1, RuntimeInductive, PTL

\* Processes that hold all workers cut the agent off.
THEOREM StarvedStays == Spec => StarvedForGood
<1>1. RuntimeInv /\ RuntimeInv' /\ [Next]_vars =>
        [~FreeWorker =>
          \/ restarts' > restarts
          \/ \E i \in Intervals : process[i] = "running" /\ process'[i] = "panicked"
          \/ /\ ~FreeWorker'
             /\ fetched' = fetched
             /\ At("sent")' = At("sent")
             /\ \A r \in At("queued") : stage'[r] = "queued"]_vars
  <2> SUFFICES ASSUME RuntimeInv, [Next]_vars, ~FreeWorker,
                      ~(restarts' > restarts),
                      ~\E i \in Intervals : process[i] = "running" /\ process'[i] = "panicked"
               PROVE  /\ ~FreeWorker'
                      /\ fetched' = fetched
                      /\ At("sent")' = At("sent")
                      /\ \A r \in At("queued") : stage'[r] = "queued"
    OBVIOUS
  <2> USE DEF RuntimeInv
  <2>1. ASSUME workers' = workers, RunningProcesses' = RunningProcesses PROVE ~FreeWorker'
    BY <2>1 DEF FreeWorker
  <2>2. CASE handle_command
    <3>1. RunningProcesses' = RunningProcesses
      BY <2>2 DEF handle_command, RunningProcesses, TypeOK
    <3> QED
      BY <2>1, <2>2, <3>1 DEF handle_command, At
  <2>3. CASE subscription_fails \/ exit \/ UNCHANGED vars
    BY <2>1, <2>3 DEF subscription_fails, exit, vars, RunningProcesses, At
  <2>4. ASSUME NEW i \in Intervals, overrun(i) PROVE FALSE
    BY <2>4 DEF overrun, TypeOK
  <2>5. ASSUME NEW i \in Intervals, NEW r \in Runs, execute_http(i, r)
        PROVE  UNCHANGED <<workers, process, fetched>>
               /\ stage[r] = "none" /\ stage'[r] = "request"
               /\ \A q \in Runs \ {r} : stage'[q] = stage[q]
    <3>1. r = Len(wheel) + 1 /\ Len(wheel) \in Nat
      BY <2>5 DEF execute_http, TypeOK
    <3>2. stage[r] = "none"
      BY <3>1 DEF SamplesInOnePlace, Runs
    <3> QED
      BY <2>5, <3>2 DEF execute_http, TypeOK
  <2>6. ASSUME NEW r \in Runs, run(r) \/ send(r)
        PROVE  UNCHANGED <<workers, process, fetched>>
               /\ stage[r] \in {"request", "answered"}
               /\ stage'[r] \in {"answered", "queued", "lost"}
               /\ \A q \in Runs \ {r} : stage'[q] = stage[q]
    BY <2>6 DEF run, send, TypeOK
  <2>7. ASSUME NEW r \in Runs, UNCHANGED <<workers, process, fetched>>,
               stage[r] \in {"none", "request", "answered"},
               stage'[r] \in {"request", "answered", "queued", "lost"},
               \A q \in Runs \ {r} : stage'[q] = stage[q]
        PROVE  /\ ~FreeWorker'
               /\ fetched' = fetched
               /\ At("sent")' = At("sent")
               /\ \A q \in At("queued") : stage'[q] = "queued"
    BY <2>1, <2>7 DEF RunningProcesses, At
  <2>8. CASE restart
    BY <2>8 DEF restart, TypeOK
  <2> QED
    BY <2>2, <2>3, <2>4, <2>5, <2>6, <2>7, <2>8
       DEF Next, receive, process_start, send_non_blocking, recv, shutdown
<1> QED
  BY <1>1, RuntimeInductive, PTL DEF Spec, StarvedForGood
============================================================================
