-------------------------- MODULE CheckRoutingProofs --------------------------
(***************************************************************************)
(* Proofs about the proxy's search for the region of a check.              *)
(***************************************************************************)
EXTENDS CheckRouting, FiniteSetTheorems, TLAPS

USE RoutingAssumption

Statuses == {"ok", "not_found", "error"}

AsksTypeOK ==
    asks \in [Requests -> [at: {"idle", "asking", "done"},
                           turn: 1 .. Cardinality(Regions),
                           reply: Statuses \cup {"none"},
                           answer: Statuses \cup {"none"},
                           by: Regions \cup {"none"},
                           late: SUBSET Regions, refused: SUBSET Regions]]

\* A request is underway to regions that have had their turn, and a create to its own.
InTurn(r) ==
    /\ asks[r].at = "idle" => \A g \in Regions : <<r, g>> \notin underway
    /\ asks[r].at = "asking" =>
        /\ asks[r].reply = "none" <=> <<r, Asked(r)>> \in underway
        /\ \A g \in Regions : <<r, g>> \in underway =>
                \E t \in 1 .. asks[r].turn : Region(r, t) = g
    /\ asks[r].reply # "none" => asks[r].at = "asking"
    /\ asks[r].answer # "none" => asks[r].at = "done"
    /\ r.op = "create" =>
        /\ asks[r].turn = 1
        /\ \A g \in Regions : <<r, g>> \in underway => g = r.region

TurnsInv == TypeOK /\ AsksTypeOK /\ \A r \in Requests : InTurn(r)

\* A row is made once, by the one create of its check, and its region does not change;
\* all other requests come after it.
MadeOnce ==
    /\ \A c \in Checks : rows[c].state # "absent" => rows[c].region \in Regions
    /\ \A r \in Requests :
        /\ r.op = "create" =>
            /\ asks[r].at = "idle" \/ <<r, r.region>> \in underway =>
                    rows[r.check].state = "absent"
            /\ r \in effects => Home(r) = r.region /\ rows[r.check].state # "absent"
        /\ r.op # "create" /\ asks[r].at # "idle" => rows[r.check].state # "absent"
        /\ asks[r].at = "idle" => r \notin effects

\* One delete at most wrote the row of a check, and it is deleted then.
DeletedOnce ==
    \A r \in Requests : r.op = "delete" /\ r \in effects =>
        /\ rows[r.check].state = "deleted"
        /\ \A s \in Requests :
            s.op = "delete" /\ s \in effects /\ s.check = r.check => s = r

\* A create or delete that a region replied Ok to was made.
OkIsMade ==
    \A r \in Requests :
        r.op \in {"create", "delete"} /\ (asks[r].reply = "ok" \/ asks[r].answer = "ok")
        => r \in effects

MadeInv == TurnsInv /\ MadeOnce /\ DeletedOnce /\ OkIsMade

Excused(r) == rows[r.check].state = "deleted" \/ Home(r) \in asks[r].late \cup asks[r].refused

\* A delete or read that got past the own region of its check did not find it live
\* there, or was not served.
Found(r) ==
    /\ asks[r].at = "asking" =>
        /\ asks[r].reply = "not_found" /\ Asked(r) = Home(r) => Excused(r)
        /\ \A t \in 1 .. asks[r].turn - 1 : apis[t] = Home(r) => Excused(r)
    /\ asks[r].answer = "not_found" => Excused(r)

\* A change that was made or may still be made by the own region of its check is
\* waiting for that region, or has given it up or got an error from it.
Changed(r) ==
    /\ asks[r].at = "asking" =>
        /\ r \in effects \/ <<r, Home(r)>> \in underway =>
            \/ Home(r) \in asks[r].late \cup asks[r].refused
            \/ Asked(r) = Home(r) /\ (r \in effects => asks[r].reply \in {"ok", "error"})
        /\ /\ asks[r].reply = "ok"
           /\ Asked(r) = Home(r)
           /\ rows[r.check].state = "live"
           => r \in effects
    /\ asks[r].answer = "ok" =>
        /\ r \in effects \/ <<r, Home(r)>> \in underway =>
            asks[r].by = Home(r) \/ Home(r) \in asks[r].late \cup asks[r].refused
        /\ asks[r].by = Home(r) /\ rows[r.check].state = "live" => r \in effects

RoutingInv ==
    /\ MadeInv
    /\ \A r \in Requests : r.op \in {"delete", "get"} => Found(r)
    /\ \A r \in Requests : r.op = "update" => Changed(r)

----------------------------------------------------------------------------
(* What the steps change.                                                  *)

\* The loop over the regions gets to each.
LEMMA OrdersCover ==
    ASSUME NEW s \in Orders
    PROVE  /\ Len(s) = Cardinality(Regions)
           /\ Cardinality(Regions) \in Nat \ {0}
           /\ s \in [1 .. Cardinality(Regions) -> Regions]
           /\ \A i, j \in 1 .. Cardinality(Regions) : s[i] = s[j] => i = j
           /\ \A g \in Regions : \E t \in 1 .. Cardinality(Regions) : s[t] = g
<1> DEFINE n == Cardinality(Regions)
<1>1. n \in Nat /\ n # 0
    BY FS_CardinalityType, FS_EmptySet
<1>2. s \in [1 .. n -> Regions] /\ \A i, j \in 1 .. n : s[i] = s[j] => i = j
    BY DEF Orders
<1>3. Len(s) = n
    <2>1. s \in Seq(Regions) /\ DOMAIN s = 1 .. n
        BY <1>1, <1>2
    <2> QED BY <1>1, <2>1
<1>4. s \in Surjection(1 .. n, Regions)
    <2>1. s \in Injection(1 .. n, Regions)
        BY <1>2 DEF Injection, IsInjective
    <2>2. Cardinality(1 .. n) = n
        BY <1>1, FS_Interval
    <2> QED BY <2>1, <2>2, FS_Injection
<1> QED BY <1>1, <1>2, <1>3, <1>4 DEF Surjection

\* A handler starts on the first region.
Started(r) ==
    /\ \A q \in Requests \ {r} : asks'[q] = asks[q]
    /\ asks[r] = Unasked
    /\ asks'[r] = [Unasked EXCEPT !.at = "asking"]
    /\ r.op # "create" => rows[r.check].state # "absent"
    /\ Region(r, 1) \in Regions
    /\ underway' = underway \cup {<<r, Region(r, 1)>>}
    /\ UNCHANGED <<apis, rows, effects>>

LEMMA StartMoves ==
    ASSUME TurnsInv, NEW r \in Requests, start(r)
    PROVE  Started(r) /\ AsksTypeOK'
<1>1. Cardinality(Regions) \in Nat \ {0} /\ apis \in [1 .. Cardinality(Regions) -> Regions]
    BY OrdersCover DEF TurnsInv, TypeOK
<1> QED
    BY SMTT(30), <1>1 DEF start, Started, TurnsInv, AsksTypeOK, Unasked, Region, Statuses

\* A handler is dropped.
HungUp(r) ==
    /\ \A q \in Requests \ {r} : asks'[q] = asks[q]
    /\ asks[r].at = "asking"
    /\ asks'[r].at = "done" /\ asks'[r].turn = 1 /\ asks'[r].reply = "none"
    /\ asks'[r].answer = asks[r].answer /\ asks'[r].by = asks[r].by
    /\ asks'[r].late = asks[r].late /\ asks'[r].refused = asks[r].refused
    /\ UNCHANGED <<apis, rows, underway, effects>>

LEMMA HangUpMoves ==
    ASSUME TurnsInv, NEW r \in Requests, hang_up(r)
    PROVE  HungUp(r) /\ AsksTypeOK'
<1>1. Cardinality(Regions) \in Nat \ {0}
    BY OrdersCover DEF TurnsInv, TypeOK
<1>2. asks' = [asks EXCEPT ![r] =
                [asks[r] EXCEPT !.at = "done", !.turn = 1, !.reply = "none"]]
    BY DEF hang_up, TurnsInv, AsksTypeOK
<1> QED
    BY <1>1, <1>2 DEF hang_up, HungUp, TurnsInv, AsksTypeOK, Statuses

\* How a reply changes the handlers.
ReplyTaken(r, g, status) ==
    /\ \A q \in Requests \ {r} : asks'[q] = asks[q]
    /\ asks'[r].at = asks[r].at
    /\ asks'[r].turn = asks[r].turn
    /\ asks'[r].answer = asks[r].answer
    /\ asks'[r].by = asks[r].by
    /\ asks'[r].late = asks[r].late
    /\ asks'[r].refused = asks[r].refused
    /\ asks'[r].reply = IF asks[r].at = "asking" /\ Asked(r) = g
                        THEN status ELSE asks[r].reply

LEMMA ReplyMoves ==
    ASSUME TurnsInv, NEW r \in Requests, NEW g \in Regions, NEW status \in Statuses,
           asks' = Replied(r, g, status)
    PROVE  ReplyTaken(r, g, status) /\ AsksTypeOK'
<1>1. asks[r] \in [at: {"idle", "asking", "done"},
                   turn: 1 .. Cardinality(Regions),
                   reply: Statuses \cup {"none"},
                   answer: Statuses \cup {"none"},
                   by: Regions \cup {"none"},
                   late: SUBSET Regions, refused: SUBSET Regions]
    BY DEF TurnsInv, AsksTypeOK
<1>2. CASE asks[r].at = "asking" /\ Asked(r) = g
    <2>1. asks' = [asks EXCEPT ![r].reply = status]
        BY <1>2 DEF Replied, Asked
    <2>2. asks'[r] = [asks[r] EXCEPT !.reply = status]
        BY <2>1 DEF TurnsInv, AsksTypeOK
    <2> QED BY <1>1, <1>2, <2>1, <2>2 DEF ReplyTaken, TurnsInv, AsksTypeOK
<1>3. CASE ~ (asks[r].at = "asking" /\ Asked(r) = g)
    BY <1>3 DEF Replied, ReplyTaken, Asked, TurnsInv, AsksTypeOK
<1> QED BY <1>2, <1>3

\* A region writes the row of a check.
RowWritten(r, g) ==
    /\ effects' = effects \cup {r}
    /\ \/ /\ r.op = "create"
          /\ rows' = [rows EXCEPT ![r.check] = [region |-> g, state |-> "live"]]
       \/ /\ r.op = "update" /\ Hit(r, g)
          /\ rows' = rows
       \/ /\ r.op = "delete" /\ Hit(r, g)
          /\ rows' = [rows EXCEPT ![r.check] = [rows[r.check] EXCEPT !.state = "deleted"]]

\* A region does what it was asked.
RegionDid(r, g, status) ==
    /\ <<r, g>> \in underway
    /\ underway' = underway \ {<<r, g>>}
    /\ apis' = apis
    /\ ReplyTaken(r, g, status)
    /\ \/ status \in {"ok", "error"} /\ RowWritten(r, g)
       \/ /\ status = "ok" => (r.op = "update" /\ ~ Hit(r, g)) \/ r.op = "get"
          /\ status = "not_found" => ~ Hit(r, g)
          /\ rows' = rows
          /\ effects' = effects

LEMMA RegionMoves ==
    ASSUME TurnsInv, NEW r \in Requests, NEW g \in Regions, RegionStep(r, g)
    PROVE  AsksTypeOK' /\ \E status \in Statuses : RegionDid(r, g, status)
<1>1. rows \in [Checks -> [region: Regions \cup {"none"},
                           state: {"absent", "live", "deleted"}]] /\ r.check \in Checks
    BY DEF TurnsInv, TypeOK, Checks
<1>2. [rows EXCEPT ![r.check] = rows[r.check]] = rows
    BY <1>1
<1>3. CASE insert_check(r, g)
    BY <1>3, ReplyMoves DEF RegionStep, insert_check, Wrote, Replies, RegionDid, RowWritten, Statuses
<1>4. CASE change_check(r, g)
    BY <1>2, <1>4, ReplyMoves DEF RegionStep, change_check, Wrote, Replies, RegionDid, RowWritten, Statuses
<1>5. CASE delete_check(r, g)
    BY <1>5, ReplyMoves DEF RegionStep, delete_check, Wrote, Replies, RegionDid, RowWritten, Statuses
<1>6. CASE get_check(r, g)
    BY <1>6, ReplyMoves DEF RegionStep, get_check, Replies, RegionDid, RowWritten, Statuses
<1>7. CASE refuse(r, g)
    BY <1>7, ReplyMoves DEF RegionStep, refuse, RegionDid, RowWritten, Statuses
<1> QED BY <1>3, <1>4, <1>5, <1>6, <1>7 DEF RegionStep

\* The proxy goes on with a reply, or with the error of a timeout.
ProxyDid(r, status) ==
    /\ \A q \in Requests \ {r} : asks'[q] = asks[q]
    /\ asks[r].at = "asking"
    /\ UNCHANGED <<apis, rows, effects>>
    /\ asks[r].late \subseteq asks'[r].late
    /\ asks[r].refused \subseteq asks'[r].refused
    /\ status # "error" => asks[r].reply = status
    /\ status = "error" =>
        \/ Asked(r) \in asks'[r].late
        \/ asks[r].reply = "error" /\ Asked(r) \in asks'[r].refused
    /\ asks'[r].reply = "none"
    /\ \/ /\ Final(r, status)
          /\ asks'[r].at = "done" /\ asks'[r].turn = 1
          /\ asks'[r].answer = Answer(r, status)
          /\ asks'[r].by = Asked(r)
          /\ underway' = underway
       \/ /\ ~ Final(r, status)
          /\ asks'[r].at = "asking" /\ asks'[r].turn = asks[r].turn + 1
          /\ asks'[r].answer = asks[r].answer
          /\ underway' = underway \cup {<<r, Region(r, asks[r].turn + 1)>>}

LEMMA ProxyMoves ==
    ASSUME TurnsInv, NEW r \in Requests, ProxyStep(r)
    PROVE  AsksTypeOK' /\ \E status \in Statuses : ProxyDid(r, status)
<1> DEFINE n == Cardinality(Regions)
           Ask == [at: {"idle", "asking", "done"}, turn: 1 .. n,
                   reply: Statuses \cup {"none"}, answer: Statuses \cup {"none"},
                   by: Regions \cup {"none"},
                   late: SUBSET Regions, refused: SUBSET Regions]
<1>1. /\ n \in Nat \ {0} /\ Len(apis) = n /\ apis \in [1 .. n -> Regions]
    BY OrdersCover DEF TurnsInv, TypeOK
<1>2. asks \in [Requests -> Ask] /\ asks[r] \in Ask
    BY DEF TurnsInv, AsksTypeOK
<1>3. asks[r].at = "asking" /\ asks[r].turn \in 1 .. n /\ Asked(r) \in Regions
      /\ UNCHANGED <<apis, rows, effects>>
    BY <1>1, <1>2 DEF ProxyStep, receive, timeout, Asked, Region
<1>4. ASSUME NEW status \in Statuses, NEW asked \in Ask, Settle(r, status, asked),
             asked.turn = asks[r].turn, asked.at = "asking",
             asked.answer = asks[r].answer
      PROVE  /\ AsksTypeOK'
             /\ \A q \in Requests \ {r} : asks'[q] = asks[q]
             /\ asks'[r].late = asked.late /\ asks'[r].refused = asked.refused
             /\ asks'[r].reply = "none"
             /\ \/ /\ Final(r, status)
                   /\ asks'[r].at = "done" /\ asks'[r].turn = 1
                   /\ asks'[r].answer = Answer(r, status)
                   /\ asks'[r].by = Asked(r)
                   /\ underway' = underway
                \/ /\ ~ Final(r, status)
                   /\ asks'[r].at = "asking" /\ asks'[r].turn = asks[r].turn + 1
                   /\ asks'[r].answer = asks[r].answer
                   /\ underway' = underway \cup {<<r, Region(r, asks[r].turn + 1)>>}
    <2>1. CASE Final(r, status)
        <3> DEFINE new == [asked EXCEPT !.at = "done", !.turn = 1, !.reply = "none",
                                        !.answer = Answer(r, status), !.by = Asked(r)]
        <3>1. asks' = [asks EXCEPT ![r] = new] /\ underway' = underway
            BY <2>1, <1>4 DEF Settle, Asked
        <3>2. new \in Ask
            <4>1. Answer(r, status) \in Statuses \cup {"none"} /\ 1 \in 1 .. n
                BY <1>1 DEF Answer, Statuses
            <4> HIDE DEF n
            <4> QED BY <4>1, <1>3
        <3>3. asks'[r] = new
            BY <1>2, <3>1
        <3> QED BY <1>2, <2>1, <3>1, <3>2, <3>3 DEF AsksTypeOK
    <2>2. CASE ~ Final(r, status)
        <3> DEFINE new == [asked EXCEPT !.turn = @ + 1, !.reply = "none"]
        <3>1. /\ asks' = [asks EXCEPT ![r] = new]
              /\ underway' = underway \cup {<<r, Region(r, asks[r].turn + 1)>>}
            BY <2>2, <1>4 DEF Settle
        <3>2. new \in Ask
            <4>1. r.op # "create"
                BY <2>2, <1>3 DEF Final, LastTurn, TurnsInv, InTurn
            <4>2. asks[r].turn # n
                BY <2>2, <4>1, <1>1 DEF Final, LastTurn
            <4>3. asks[r].turn + 1 \in 1 .. n
                BY <4>2, <1>1, <1>3
            <4> HIDE DEF n
            <4> QED BY <4>3, <1>4
        <3>3. asks'[r] = new
            BY <1>2, <3>1
        <3> QED BY <1>2, <1>4, <2>2, <3>1, <3>2, <3>3 DEF AsksTypeOK
    <2> QED BY <2>1, <2>2
<1>5. CASE receive(r)
    <2> DEFINE status == asks[r].reply
               asked == IF status = "error"
                        THEN [asks[r] EXCEPT !.refused = @ \cup {Asked(r)}] ELSE asks[r]
    <2>1. status \in Statuses /\ Settle(r, status, asked)
        BY <1>2, <1>5 DEF receive
    <2>2. /\ asked \in Ask /\ asked.turn = asks[r].turn /\ asked.at = "asking"
          /\ asked.answer = asks[r].answer
          /\ asked.late = asks[r].late /\ asks[r].refused \subseteq asked.refused
          /\ status = "error" => Asked(r) \in asked.refused
        BY <1>2, <1>3
    <2> HIDE DEF Ask, asked
    <2>3. ProxyDid(r, status)
        BY <1>3, <1>4, <2>1, <2>2 DEF ProxyDid
    <2> QED BY <2>1, <2>2, <2>3, <1>4
<1>6. CASE timeout(r)
    <2> DEFINE asked == [asks[r] EXCEPT !.late = @ \cup {Asked(r)}]
    <2>1. "error" \in Statuses /\ Settle(r, "error", asked)
        BY <1>6 DEF timeout, Statuses
    <2>2. /\ asked \in Ask /\ asked.turn = asks[r].turn /\ asked.at = "asking"
          /\ asked.answer = asks[r].answer
          /\ asked.refused = asks[r].refused /\ asks[r].late \subseteq asked.late
          /\ Asked(r) \in asked.late
        BY <1>2, <1>3
    <2> HIDE DEF Ask, asked
    <2>3. ProxyDid(r, "error")
        BY <1>3, <1>4, <2>1, <2>2 DEF ProxyDid
    <2> QED BY <2>1, <2>2, <2>3, <1>4
<1> QED BY <1>5, <1>6 DEF ProxyStep

\* Every step is one of these.
LEMMA NextMoves ==
    ASSUME TurnsInv, Next
    PROVE  /\ AsksTypeOK'
           /\ \E r \in Requests :
                \/ Started(r) \/ HungUp(r)
                \/ \E status \in Statuses : ProxyDid(r, status)
                \/ \E g \in Regions, status \in Statuses : RegionDid(r, g, status)
<1> PICK r \in Requests :
        \/ start(r) \/ ProxyStep(r) \/ hang_up(r)
        \/ \E g \in Regions : RegionStep(r, g)
    BY DEF Next
<1> QED BY StartMoves, HangUpMoves, ProxyMoves, RegionMoves

----------------------------------------------------------------------------
(* The invariants.                                                         *)

LEMMA InitInv == Init => RoutingInv
<1> SUFFICES ASSUME Init PROVE RoutingInv
    OBVIOUS
<1>1. Cardinality(Regions) \in Nat \ {0}
    BY OrdersCover DEF Init
<1>2. asks = [r \in Requests |-> Unasked]
    BY DEF Init
<1>3. TypeOK
    BY <1>1, <1>2 DEF Init, TypeOK, Unasked
<1>4. AsksTypeOK
    BY <1>1, <1>2 DEF AsksTypeOK, Unasked
<1>5. \A r \in Requests : InTurn(r)
    BY <1>2 DEF Init, InTurn, Unasked
<1>6. MadeOnce
    BY <1>2 DEF Init, MadeOnce, Unasked, Checks
<1>7. DeletedOnce /\ OkIsMade /\ \A r \in Requests : Found(r) /\ Changed(r)
    BY <1>2 DEF Init, DeletedOnce, OkIsMade, Found, Changed, Unasked
<1> QED BY <1>3, <1>4, <1>5, <1>6, <1>7 DEF RoutingInv, MadeInv, TurnsInv

LEMMA TurnsStep ==
    ASSUME TurnsInv, Next
    PROVE  TurnsInv'
<1> DEFINE n == Cardinality(Regions)
<1>1. /\ n \in Nat \ {0} /\ Len(apis) = n /\ apis \in [1 .. n -> Regions]
      /\ \A i, j \in 1 .. n : apis[i] = apis[j] => i = j
    BY OrdersCover DEF TurnsInv, TypeOK
<1>2. AsksTypeOK' BY NextMoves
<1>3. PICK r \in Requests :
        \/ Started(r) \/ HungUp(r)
        \/ \E status \in Statuses : ProxyDid(r, status)
        \/ \E g \in Regions, status \in Statuses : RegionDid(r, g, status)
    BY NextMoves
<1> HIDE DEF n
<1>4. apis' = apis
    BY <1>3 DEF Started, HungUp, ProxyDid, RegionDid
<1>5. \A q \in Requests : \A t \in 1 .. n : Region(q, t) \in Regions /\ Region(q, t)' = Region(q, t)
    BY <1>1, <1>4 DEF Region
<1>6. \A q \in Requests : asks[q].turn \in 1 .. n /\ asks[q].turn + 1 \in Nat
    BY <1>1 DEF TurnsInv, AsksTypeOK, n
<1>7. \A q \in Requests : asks'[q].turn \in 1 .. n
    BY <1>2 DEF AsksTypeOK, n
<1>8. ASSUME NEW q \in Requests
      PROVE  InTurn(q)'
    <2>1. InTurn(q) BY DEF TurnsInv
    <2>2. CASE q # r
        <3>1. asks'[q] = asks[q] /\ \A g \in Regions : <<q, g>> \in underway' <=> <<q, g>> \in underway
            BY <1>3, <2>2 DEF Started, HungUp, ProxyDid, RegionDid, ReplyTaken
        <3>2. Asked(q)' = Asked(q) /\ Asked(q) \in Regions
            BY <1>5, <1>6, <3>1 DEF Asked
        <3>3. \A t \in 1 .. asks[q].turn : Region(q, t)' = Region(q, t)
            BY <1>4 DEF Region
        <3> QED BY <2>1, <3>1, <3>2, <3>3 DEF InTurn
    <2>3. CASE q = r /\ Started(r)
        BY <1>1, <1>4, <2>1, <2>3 DEF Started, Unasked, InTurn, Asked, Region
    <2>4. CASE q = r /\ HungUp(r)
        BY <1>6, <2>1, <2>4 DEF HungUp, InTurn, TurnsInv, AsksTypeOK
    <2>5. ASSUME NEW status \in Statuses, ProxyDid(r, status), q = r
          PROVE  InTurn(q)'
        <3>1. CASE Final(r, status)
            BY <2>1, <2>5, <3>1 DEF ProxyDid, InTurn
        <3>2. CASE ~ Final(r, status)
            <4> DEFINE t == asks[r].turn
            <4>1. r.op # "create"
                BY <2>1, <2>5, <3>2 DEF InTurn, Final, LastTurn, ProxyDid
            <4>2. /\ asks'[r].at = "asking" /\ asks'[r].turn = t + 1 /\ asks'[r].reply = "none"
                  /\ asks[r].at = "asking" /\ asks'[r].answer = asks[r].answer
                  /\ underway' = underway \cup {<<r, apis[t + 1]>>}
                BY <2>5, <3>2, <4>1 DEF ProxyDid, Region
            <4>3. \A k \in 1 .. n : Region(r, k) = apis[k] /\ Region(r, k)' = apis[k]
                BY <1>4, <4>1 DEF Region
            <4>4. t \in 1 .. n /\ t + 1 \in 1 .. n
                BY <1>6, <1>7, <4>2
            <4>5. Asked(r)' = apis[t + 1]
                BY <1>4, <4>1, <4>2 DEF Asked, Region
            <4> HIDE DEF t
            <4>6. ASSUME NEW g \in Regions, <<r, g>> \in underway'
                  PROVE  \E k \in 1 .. t + 1 : Region(r, k)' = g
                <5>1. CASE <<r, g>> \in underway
                    <6>1. PICK k \in 1 .. t : Region(r, k) = g
                        BY <2>1, <2>5, <4>2, <5>1 DEF InTurn, t
                    <6>2. k \in 1 .. n /\ k \in 1 .. t + 1
                        BY <1>1, <4>4
                    <6> QED BY <4>3, <6>1, <6>2
                <5>2. CASE g = apis[t + 1]
                    <6>1. t + 1 \in 1 .. t + 1
                        BY <1>1, <4>4
                    <6> QED BY <4>3, <4>4, <5>2, <6>1
                <5> QED BY <4>2, <4>6, <5>1, <5>2
            <4> QED BY <2>1, <2>5, <4>1, <4>2, <4>5, <4>6 DEF InTurn
        <3> QED BY <3>1, <3>2
    <2>6. ASSUME NEW g \in Regions, NEW status \in Statuses, RegionDid(r, g, status), q = r
          PROVE  InTurn(q)'
        <3>1. Asked(q)' = Asked(q) /\ \A t : Region(q, t)' = Region(q, t)
            BY <1>4, <2>6 DEF Asked, Region, RegionDid, ReplyTaken
        <3>2. status # "none"
            BY DEF Statuses
        <3> QED BY <2>1, <2>6, <3>1, <3>2 DEF RegionDid, ReplyTaken, InTurn
    <2> QED BY <1>3, <2>2, <2>3, <2>4, <2>5, <2>6
<1>9. /\ underway' \subseteq Requests \X Regions
      /\ effects' \subseteq Requests
      /\ rows' \in [Checks -> [region: Regions \cup {"none"},
                               state: {"absent", "live", "deleted"}]]
    <2> r.check \in Checks BY DEF Checks
    <2>1. CASE Started(r)
        BY <2>1 DEF Started, TurnsInv, TypeOK
    <2>2. CASE HungUp(r)
        BY <2>2 DEF HungUp, TurnsInv, TypeOK
    <2>3. ASSUME NEW status \in Statuses, ProxyDid(r, status)
          PROVE  /\ underway' \subseteq Requests \X Regions
                 /\ UNCHANGED <<rows, effects>>
        <3>1. asks'[r].at = "asking" => Region(r, asks[r].turn + 1) \in Regions
            BY <1>1, <1>5, <1>7, <2>3 DEF ProxyDid, Final
        <3> QED BY <3>1, <2>3 DEF ProxyDid, TurnsInv, TypeOK
    <2>4. ASSUME NEW g \in Regions, NEW status \in Statuses, RegionDid(r, g, status)
          PROVE  /\ underway' \subseteq Requests \X Regions
                 /\ effects' \subseteq Requests
                 /\ rows' \in [Checks -> [region: Regions \cup {"none"},
                                          state: {"absent", "live", "deleted"}]]
        BY <2>4 DEF RegionDid, RowWritten, TurnsInv, TypeOK
    <2> QED BY <1>3, <2>1, <2>2, <2>3, <2>4 DEF TurnsInv, TypeOK
<1>10. TypeOK'
    BY <1>2, <1>4, <1>8, <1>9 DEF TypeOK, AsksTypeOK, InTurn, Statuses, TurnsInv
<1> QED BY <1>2, <1>8, <1>10 DEF TurnsInv

\* A row is not made twice, and what is deleted stays so.
LEMMA RowsKept ==
    ASSUME TurnsInv, MadeOnce, Next
    PROVE  /\ \A c \in Checks : rows[c].state # "absent" =>
                /\ rows'[c].state # "absent" /\ rows'[c].region = rows[c].region
                /\ rows'[c].state = "live" => rows[c].state = "live"
           /\ effects \subseteq effects'
<1>1. PICK r \in Requests :
        \/ Started(r) \/ HungUp(r)
        \/ \E status \in Statuses : ProxyDid(r, status)
        \/ \E g \in Regions, status \in Statuses : RegionDid(r, g, status)
    BY NextMoves
<1>2. CASE rows' = rows /\ effects' = effects
    BY <1>2
<1>3. ASSUME NEW g \in Regions, NEW status \in Statuses, RegionDid(r, g, status)
      PROVE  /\ \A c \in Checks : rows[c].state # "absent" =>
                    /\ rows'[c].state # "absent" /\ rows'[c].region = rows[c].region
                    /\ rows'[c].state = "live" => rows[c].state = "live"
             /\ effects \subseteq effects'
    <2>1. r.check \in Checks /\ rows \in [Checks -> [region: Regions \cup {"none"},
                                     state: {"absent", "live", "deleted"}]]
        BY DEF Checks, TurnsInv, TypeOK
    <2>2. r.op = "create" => rows[r.check].state = "absent"
        BY <1>3 DEF RegionDid, TurnsInv, InTurn, MadeOnce
    <2> QED BY <1>3, <2>1, <2>2 DEF RegionDid, RowWritten
<1> QED BY <1>1, <1>2, <1>3 DEF Started, HungUp, ProxyDid

LEMMA MadeStep ==
    ASSUME MadeInv, Next
    PROVE  MadeInv'
<1> USE DEF MadeInv
<1>1. TurnsInv' BY TurnsStep
<1>2. PICK r \in Requests :
        \/ Started(r) \/ HungUp(r)
        \/ \E status \in Statuses : ProxyDid(r, status)
        \/ \E g \in Regions, status \in Statuses : RegionDid(r, g, status)
    BY NextMoves DEF TurnsInv
<1>3. /\ \A q \in Requests : q.check \in Checks
      /\ rows \in [Checks -> [region: Regions \cup {"none"},
                              state: {"absent", "live", "deleted"}]]
    BY DEF Checks, TurnsInv, TypeOK
<1>4. /\ \A c \in Checks : rows[c].state # "absent" =>
            /\ rows'[c].state # "absent" /\ rows'[c].region = rows[c].region
            /\ rows'[c].state = "live" => rows[c].state = "live"
      /\ effects \subseteq effects'
    BY RowsKept
<1>5. \A q \in Requests : InTurn(q) /\ InTurn(q)'
    BY <1>1 DEF TurnsInv
<1>6. CASE rows' = rows /\ effects' = effects
    <2>1. \A q \in Requests :
            /\ asks'[q].at = "idle" => asks[q].at = "idle"
            /\ asks[q].at = "idle" /\ asks'[q].at # "idle" /\ q.op # "create" =>
                    rows[q.check].state # "absent"
            /\ <<q, q.region>> \in underway' =>
                    <<q, q.region>> \in underway \/ asks[q].at = "idle" \/ q.op # "create"
        <3>1. CASE Started(r)
            BY <3>1, <1>3 DEF Started, Unasked
        <3>2. CASE HungUp(r)
            BY <3>2, <1>3 DEF HungUp
        <3>3. ASSUME NEW status \in Statuses, ProxyDid(r, status)
              PROVE  \A q \in Requests :
                        /\ asks'[q].at = "idle" => asks[q].at = "idle"
                        /\ asks[q].at = "idle" => asks'[q].at = "idle"
                        /\ <<q, q.region>> \in underway' =>
                                <<q, q.region>> \in underway \/ q.op # "create"
            <4>1. asks'[r].at = "asking" => r.op # "create"
                BY <3>3, <1>5 DEF ProxyDid, InTurn, Final, LastTurn
            <4>2. underway' \subseteq underway
                    \cup (IF r.op # "create" THEN {<<r, Region(r, asks[r].turn + 1)>>} ELSE {})
                BY <3>3, <4>1 DEF ProxyDid
            <4>3. \A q \in Requests : asks'[q].at = "idle" <=> asks[q].at = "idle"
                BY <3>3 DEF ProxyDid
            <4> QED BY <4>2, <4>3
        <3>4. ASSUME NEW g \in Regions, NEW status \in Statuses, RegionDid(r, g, status)
              PROVE  \A q \in Requests :
                        /\ asks'[q].at = asks[q].at
                        /\ <<q, q.region>> \in underway' => <<q, q.region>> \in underway
            BY <3>4 DEF RegionDid, ReplyTaken
        <3> QED BY <1>2, <3>1, <3>2, <3>3, <3>4
    <2>2. MadeOnce'
        BY <2>1, <1>6 DEF MadeOnce, Home
    <2>3. DeletedOnce'
        BY <1>6 DEF DeletedOnce
    <2>4. \A q \in Requests : q.op \in {"create", "delete"} =>
            /\ asks'[q].reply = "ok" => asks[q].reply = "ok" \/ q \in effects
            /\ asks'[q].answer = "ok" => asks[q].answer = "ok" \/ asks[q].reply = "ok"
        <3>1. CASE Started(r)
            BY <3>1 DEF Started, Unasked
        <3>2. CASE HungUp(r)
            BY <3>2 DEF HungUp, TurnsInv, AsksTypeOK
        <3>3. ASSUME NEW status \in Statuses, ProxyDid(r, status)
              PROVE  \A q \in Requests : q.op \in {"create", "delete"} =>
                    /\ asks'[q].reply = "ok" => asks[q].reply = "ok"
                    /\ asks'[q].answer = "ok" => asks[q].answer = "ok" \/ asks[q].reply = "ok"
            BY <3>3 DEF ProxyDid, Answer, Statuses
        <3>4. ASSUME NEW g \in Regions, NEW status \in Statuses, RegionDid(r, g, status)
              PROVE  \A q \in Requests : q.op \in {"create", "delete"} =>
                    /\ asks'[q].reply = "ok" => asks[q].reply = "ok" \/ q \in effects
                    /\ asks'[q].answer = asks[q].answer
            BY <3>4, <1>6 DEF RegionDid, RowWritten, ReplyTaken
        <3> QED BY <1>2, <3>1, <3>2, <3>3, <3>4
    <2>5. OkIsMade'
        BY <2>4, <1>6 DEF OkIsMade
    <2> QED BY <1>1, <2>2, <2>3, <2>5
<1>7. ASSUME NEW g \in Regions, NEW status \in Statuses, RegionDid(r, g, status),
             RowWritten(r, g)
      PROVE  MadeInv'
    <2>1. asks[r].at # "idle" /\ (r.op = "create" => g = r.region)
        BY <1>5, <1>7 DEF RegionDid, InTurn
    <2>2. \A q \in Requests : asks'[q].at = asks[q].at /\ asks'[q].answer = asks[q].answer
                              /\ (q # r => asks'[q].reply = asks[q].reply)
        BY <1>7 DEF RegionDid, ReplyTaken
    <2>3. \A q \in Requests : <<q, q.region>> \in underway' =>
                <<q, q.region>> \in underway /\ (r.op = "create" => q # r)
        BY <1>7, <2>1 DEF RegionDid
    <2>4. \A c \in Checks : c # r.check \/ r.op = "update" => rows'[c] = rows[c]
        BY <1>7, <1>3 DEF RowWritten
    <2>5. r.op = "create" => rows'[r.check] = [region |-> g, state |-> "live"]
                             /\ rows[r.check].state = "absent"
        BY <1>7, <1>3, <2>1 DEF RegionDid, RowWritten, MadeOnce
    <2>6. r.op = "delete" => rows[r.check].state = "live" /\ rows'[r.check].state = "deleted"
        BY <1>7, <1>3 DEF RowWritten, Hit
    <2>7. r.op # "get" BY <1>7, <1>3 DEF RowWritten
    <2>8. MadeOnce'
        <3>1. ASSUME NEW c \in Checks, rows'[c].state # "absent"
              PROVE  rows'[c].region \in Regions
            <4>1. CASE rows[c].state # "absent"
                BY <1>4, <4>1 DEF MadeOnce
            <4>2. CASE rows[c].state = "absent"
                <5>1. rows'[c] # rows[c]
                    BY <3>1, <4>2
                <5>2. c = r.check /\ r.op # "update" /\ r.op # "delete"
                    BY <5>1, <2>4, <2>6, <4>2
                <5> QED BY <5>2, <2>5, <2>7
            <4> QED BY <4>1, <4>2
        <3>2. ASSUME NEW q \in Requests, q.op = "create",
                     asks'[q].at = "idle" \/ <<q, q.region>> \in underway'
              PROVE  rows'[q.check].state = "absent"
            <4>1. rows[q.check].state = "absent"
                BY <3>2, <2>2, <2>3 DEF MadeOnce
            <4>2. q.check # r.check \/ r.op = "update"
                BY <3>2, <4>1, <2>1, <2>2, <2>3, <2>6, <2>7
            <4> QED BY <4>1, <4>2, <2>4, <1>3
        <3>3. ASSUME NEW q \in Requests, q.op = "create", q \in effects'
              PROVE  Home(q)' = q.region /\ rows'[q.check].state # "absent"
            <4>1. CASE q = r
                BY <3>3, <4>1, <2>1, <2>5 DEF Home
            <4>2. CASE q # r
                BY <3>3, <4>2, <1>3, <1>4, <1>7 DEF RowWritten, MadeOnce, Home
            <4> QED BY <4>1, <4>2
        <3>4. \A q \in Requests : q.op # "create" /\ asks'[q].at # "idle" =>
                    rows'[q.check].state # "absent"
            BY ZenonT(40), <2>2, <1>3, <1>4 DEF MadeOnce
        <3>5. \A q \in Requests : asks'[q].at = "idle" => q \notin effects'
            BY <2>1, <2>2, <1>7 DEF RowWritten, MadeOnce
        <3> QED BY <3>1, <3>2, <3>3, <3>4, <3>5 DEF MadeOnce
    <2>9. DeletedOnce'
        <3>1. ASSUME NEW q \in Requests, q.op = "delete", q \in effects'
              PROVE  rows'[q.check].state = "deleted"
            BY <3>1, <1>3, <1>4, <1>7, <2>6, <1>1 DEF RowWritten, DeletedOnce, TurnsInv, TypeOK
        <3>2. ASSUME NEW q \in Requests, q.op = "delete", q \in effects',
                     NEW s \in Requests, s.op = "delete", s \in effects', s.check = q.check
              PROVE  s = q
            BY <3>2, <1>7, <2>6 DEF RowWritten, DeletedOnce
        <3> QED BY <3>1, <3>2 DEF DeletedOnce
    <2>10. OkIsMade'
        BY <2>2, <1>7 DEF RowWritten, OkIsMade
    <2> QED BY <1>1, <2>8, <2>9, <2>10
<1>8. QED
    BY <1>2, <1>6, <1>7 DEF Started, HungUp, ProxyDid, RegionDid

\* What is known of a request that has been started, and the rows it is about.
LEMMA StartedKept ==
    ASSUME MadeInv, Next, NEW q \in Requests, q.op # "create", asks[q].at # "idle"
    PROVE  /\ Home(q) \in Regions /\ Home(q)' = Home(q)
           /\ rows'[q.check].state = "live" => rows[q.check].state = "live"
           /\ rows'[q.check].state \in {"live", "deleted"}
           /\ rows[q.check].state \in {"live", "deleted"}
<1>1. q.check \in Checks BY DEF Checks
<1>2. rows[q.check].state # "absent"
    BY DEF MadeInv, MadeOnce
<1>3. TurnsInv' BY TurnsStep DEF MadeInv
<1> QED
    BY <1>1, <1>2, <1>3, RowsKept DEF MadeInv, TurnsInv, TypeOK, MadeOnce, Home

LEMMA FoundStep ==
    ASSUME MadeInv, Next, NEW q \in Requests, q.op \in {"delete", "get"}, Found(q)
    PROVE  Found(q)'
<1>1. PICK r \in Requests :
        \/ Started(r) \/ HungUp(r)
        \/ \E status \in Statuses : ProxyDid(r, status)
        \/ \E g \in Regions, status \in Statuses : RegionDid(r, g, status)
    BY NextMoves DEF MadeInv
<1>2. MadeInv' BY MadeStep
<1>3. InTurn(q) /\ InTurn(q)' BY <1>2 DEF MadeInv, TurnsInv
<1>4. apis' = apis /\ \A p \in Requests : Asked(p) = apis[asks[p].turn] \/ p.op = "create"
    BY <1>1 DEF Started, HungUp, ProxyDid, RegionDid, Asked, Region
<1>5. ASSUME asks[q].at # "idle", asks[q].late \subseteq asks'[q].late,
             asks[q].refused \subseteq asks'[q].refused, Excused(q)
      PROVE  Excused(q)'
    BY <1>5, StartedKept DEF Excused
<1>6. CASE q # r
    <2>1. asks'[q] = asks[q]
        BY <1>1, <1>6 DEF Started, HungUp, ProxyDid, RegionDid, ReplyTaken
    <2>2. CASE asks[q].at = "idle"
        BY <1>3, <2>1, <2>2 DEF Found, InTurn
    <2>3. CASE asks[q].at # "idle"
        <3>1. Home(q)' = Home(q) /\ Asked(q)' = Asked(q) /\ (Excused(q) => Excused(q)')
            BY <1>4, <1>5, <2>1, <2>3, StartedKept DEF Asked, Region
        <3> QED BY <1>4, <2>1, <3>1 DEF Found
    <2> QED BY <2>2, <2>3
<1>7. CASE q = r /\ Started(r)
    BY <1>7 DEF Started, Unasked, Found
<1>8. CASE q = r /\ HungUp(r)
    <2>1. asks'[q].late = asks[q].late /\ asks'[q].refused = asks[q].refused
        BY <1>8 DEF HungUp
    <2>2. asks[q].at # "idle" BY <1>8 DEF HungUp
    <2> QED BY <1>5, <1>8, <2>1, <2>2 DEF HungUp, Found
<1>9. ASSUME NEW status \in Statuses, ProxyDid(r, status), q = r
      PROVE  Found(q)'
    <2>1. asks[q].at = "asking" /\ asks[q].answer # "not_found"
        BY <1>3, <1>9 DEF ProxyDid, InTurn
    <2>2. Home(q)' = Home(q) /\ Home(q) \in Regions /\ (Excused(q) => Excused(q)')
        BY <1>5, <1>9, <2>1, StartedKept DEF ProxyDid
    <2>3. Asked(q) = Home(q) /\ status # "ok" => Excused(q)'
        <3>1. CASE status = "not_found"
            BY <1>9, <2>1, <2>2, <3>1 DEF ProxyDid, Found
        <3>2. CASE status = "error"
            BY <1>9, <2>2, <3>2 DEF ProxyDid, Excused
        <3> QED BY <3>1, <3>2 DEF Statuses
    <2>4. asks[q].turn \in 1 .. Cardinality(Regions) /\ Asked(q) = apis[asks[q].turn]
        BY <1>4 DEF MadeInv, TurnsInv, AsksTypeOK
    <2>5. status # "ok" => \A t \in 1 .. asks[q].turn : apis[t] = Home(q) => Excused(q)'
        <3>1. Cardinality(Regions) \in Nat
            BY OrdersCover DEF MadeInv, TurnsInv, TypeOK
        <3> QED BY <2>1, <2>2, <2>3, <2>4, <3>1 DEF Found
    <2>6. CASE Final(r, status)
        <3>1. status = "ok" => asks'[q].answer = "ok"
            BY <1>9, <2>6 DEF ProxyDid, Final, Answer
        <3>2. status # "ok" => \E t \in 1 .. asks[q].turn : apis[t] = Home(q)
            <4>1. status # "ok" => asks[q].turn = Cardinality(Regions)
                BY <1>9, <2>6, OrdersCover
                DEF Final, LastTurn, MadeInv, TurnsInv, TypeOK
            <4> QED BY <2>2, <4>1, OrdersCover DEF MadeInv, TurnsInv, TypeOK
        <3>3. asks'[q].at = "done"
            BY <1>9, <2>6 DEF ProxyDid
        <3> QED BY <2>5, <3>1, <3>2, <3>3 DEF Found
    <2>7. CASE ~ Final(r, status)
        <3>1. status # "ok" BY <2>7 DEF Final
        <3>2. /\ asks'[q].turn = asks[q].turn + 1 /\ asks'[q].reply = "none"
              /\ asks'[q].answer = asks[q].answer
            BY <1>9, <2>7 DEF ProxyDid
        <3>3. asks'[q].turn - 1 = asks[q].turn
            BY <2>4, <3>2, OrdersCover DEF MadeInv, TurnsInv, TypeOK
        <3> QED BY <1>4, <2>1, <2>2, <2>5, <3>1, <3>2, <3>3 DEF Found
    <2> QED BY <2>6, <2>7
<1>10. ASSUME NEW g \in Regions, NEW status \in Statuses, RegionDid(r, g, status), q = r
       PROVE  Found(q)'
    <2>1. asks[q].at # "idle"
        BY <1>3, <1>10 DEF RegionDid, InTurn
    <2>2. /\ Home(q)' = Home(q) /\ Home(q) \in Regions /\ (Excused(q) => Excused(q)')
          /\ Asked(q)' = Asked(q)
        BY <1>4, <1>5, <1>10, <2>1, StartedKept
        DEF RegionDid, ReplyTaken, Asked, Region
    <2>3. status = "not_found" /\ g = Home(q) => Excused(q)'
        <3>1. status = "not_found" => ~ Hit(q, g)
            BY <1>10 DEF RegionDid
        <3>2. status = "not_found" /\ g = Home(q) => rows[q.check].state = "deleted"
            BY <2>1, <3>1, StartedKept DEF Hit, Home
        <3> QED BY <2>1, <2>2, <3>2 DEF Excused
    <2> QED
        BY <1>4, <1>10, <2>2, <2>3 DEF Found, RegionDid, ReplyTaken
<1> QED BY <1>1, <1>6, <1>7, <1>8, <1>9, <1>10

LEMMA ChangedStep ==
    ASSUME MadeInv, Next, NEW q \in Requests, q.op = "update", Changed(q)
    PROVE  Changed(q)'
<1>1. PICK r \in Requests :
        \/ Started(r) \/ HungUp(r)
        \/ \E status \in Statuses : ProxyDid(r, status)
        \/ \E g \in Regions, status \in Statuses : RegionDid(r, g, status)
    BY NextMoves DEF MadeInv
<1>2. MadeInv' BY MadeStep
<1>3. InTurn(q) /\ InTurn(q)' BY <1>2 DEF MadeInv, TurnsInv
<1>4. apis' = apis
    BY <1>1 DEF Started, HungUp, ProxyDid, RegionDid
<1>5. asks[q].at # "idle" =>
        /\ Home(q) \in Regions /\ Home(q)' = Home(q)
        /\ rows'[q.check].state = "live" => rows[q.check].state = "live"
    BY StartedKept
<1>6. CASE q # r
    <2>1. asks'[q] = asks[q] /\ (q \in effects' <=> q \in effects)
          /\ \A g \in Regions : <<q, g>> \in underway' <=> <<q, g>> \in underway
        BY <1>1, <1>6
        DEF Started, HungUp, ProxyDid, RegionDid, RowWritten, ReplyTaken
    <2>2. CASE asks[q].at = "idle"
        BY <1>3, <2>1, <2>2 DEF Changed, InTurn
    <2>3. CASE asks[q].at # "idle"
        <3>1. Asked(q)' = Asked(q)
            BY <1>4, <2>1 DEF Asked, Region
        <3> QED BY <1>5, <2>1, <2>3, <3>1 DEF Changed
    <2> QED BY <2>2, <2>3
<1>7. CASE q = r /\ Started(r)
    <2>1. q \notin effects /\ rows' = rows /\ effects' = effects
        <3>1. asks[q].at = "idle"
            BY <1>7 DEF Started, Unasked
        <3>2. q \notin effects
            BY <3>1 DEF MadeInv, MadeOnce
        <3> QED BY <1>7, <3>2 DEF Started
    <2>2. Home(q) \in Regions
        BY <1>7 DEF Started, MadeInv, MadeOnce, Home, Checks
    <2>3. <<q, Home(q)>> \in underway' => Home(q) = apis[1]
        BY <1>3, <1>7, <2>2 DEF Started, Unasked, InTurn, Region
    <2>4. Asked(q)' = apis[1]
        BY <1>4, <1>7 DEF Asked, Region, Started, Unasked
    <2> QED BY <1>7, <2>1, <2>3, <2>4 DEF Started, Unasked, Changed, Home
<1>8. CASE q = r /\ HungUp(r)
    <2>1. asks[q].answer = "none"
        BY <1>3, <1>8 DEF HungUp, InTurn
    <2> QED BY <1>8, <2>1 DEF HungUp, Changed
<1>9. ASSUME NEW status \in Statuses, ProxyDid(r, status), q = r
      PROVE  Changed(q)'
    <2>1. /\ asks[q].at = "asking" /\ rows' = rows /\ effects' = effects
          /\ asks[q].late \cup asks[q].refused \subseteq asks'[q].late \cup asks'[q].refused
          /\ asks'[q].reply = "none"
          /\ asks[q].answer = "none"
        BY <1>3, <1>9 DEF ProxyDid, InTurn
    <2>2. Home(q)' = Home(q) /\ Home(q) \in Regions
        BY <1>5, <2>1
    <2>3. CASE Final(r, status)
        <3>1. /\ asks'[q].at = "done" /\ asks'[q].answer = status
              /\ asks'[q].by = Asked(q) /\ underway' = underway
              /\ status = "ok" => asks[q].reply = "ok"
            BY <1>9, <2>3 DEF ProxyDid, Final, Answer
        <3> QED BY <2>1, <2>2, <3>1 DEF Changed
    <2>4. CASE ~ Final(r, status)
        <3> DEFINE t == asks[q].turn
        <3>1. /\ status # "ok" /\ asks'[q].at = "asking" /\ asks'[q].turn = t + 1
              /\ asks'[q].answer = "none"
              /\ underway' = underway \cup {<<q, apis[t + 1]>>}
            BY <1>9, <2>1, <2>4 DEF ProxyDid, Final, Region
        <3>2. /\ Asked(q) = apis[t] /\ Asked(q)' = apis[t + 1] /\ apis[t] # apis[t + 1]
            <4>1. t \in 1 .. Cardinality(Regions) /\ t + 1 \in 1 .. Cardinality(Regions)
                BY <1>2, <3>1 DEF MadeInv, TurnsInv, AsksTypeOK
            <4>2. apis[t] # apis[t + 1]
                <5> HIDE DEF t
                <5>1. apis \in Orders /\ t \in Nat
                    BY <4>1 DEF MadeInv, TurnsInv, TypeOK
                <5>2. t # t + 1
                    BY <5>1
                <5> QED BY <4>1, <5>1, <5>2, OrdersCover
            <4> QED BY <1>4, <3>1, <4>2 DEF Asked, Region
        <3>3. Asked(q) = Home(q) =>
                \/ Home(q) \in asks'[q].late \cup asks'[q].refused
                \/ q \notin effects /\ <<q, Home(q)>> \notin underway'
            <4>1. \/ Asked(q) \in asks'[q].late \cup asks'[q].refused
                  \/ asks[q].reply = "not_found"
                BY <1>9, <3>1 DEF ProxyDid, Statuses
            <4>2. Asked(q) = Home(q) /\ asks[q].reply = "not_found" =>
                    <<q, Home(q)>> \notin underway
                BY <1>3, <2>1 DEF InTurn
            <4> QED BY <2>1, <3>1, <3>2, <4>1, <4>2 DEF Changed
        <3>4. CASE Asked(q) # Home(q)
            BY <2>1, <2>2, <3>1, <3>2, <3>4 DEF Changed
        <3> QED BY <2>1, <2>2, <3>1, <3>2, <3>3, <3>4 DEF Changed
    <2> QED BY <2>3, <2>4
<1>10. ASSUME NEW g \in Regions, NEW status \in Statuses, RegionDid(r, g, status), q = r
       PROVE  Changed(q)'
    <2>1. asks[q].at # "idle" /\ <<q, g>> \in underway
          /\ underway' = underway \ {<<q, g>>}
        BY <1>3, <1>10 DEF RegionDid, InTurn
    <2>2. Home(q)' = Home(q) /\ Home(q) \in Regions /\ Asked(q)' = Asked(q)
        BY <1>4, <1>5, <1>10, <2>1 DEF RegionDid, ReplyTaken, Asked, Region
    <2>3. \/ status \in {"ok", "error"} /\ g = Home(q) /\ q \in effects'
          \/ /\ effects' = effects
             /\ status = "ok" /\ g = Home(q) => rows[q.check].state # "live"
        BY <1>10 DEF RegionDid, RowWritten, Hit, Home
    <2>4. /\ asks'[q].at = asks[q].at
          /\ asks'[q].late = asks[q].late /\ asks'[q].refused = asks[q].refused
          /\ asks'[q].by = asks[q].by /\ asks'[q].answer = asks[q].answer
          /\ asks'[q].reply = IF asks[q].at = "asking" /\ Asked(q) = g
                              THEN status ELSE asks[q].reply
        BY <1>10 DEF RegionDid, ReplyTaken
    <2>5. asks[q].at = "asking" /\ Asked(q) = g => asks[q].reply = "none"
        BY <1>3, <2>1 DEF InTurn
    <2>6. effects \subseteq effects'
        BY RowsKept DEF MadeInv
    <2>7. q \in effects' => q \in effects \/ <<q, Home(q)>> \in underway
        BY <2>1, <1>10, <2>3 DEF RegionDid, RowWritten, Hit, Home
    <2>8. asks[q].at = "asking" => Changed(q)'
        BY <1>5, <2>1, <2>2, <2>3, <2>4, <2>5, <2>6, <2>7, <1>3 DEF Changed, InTurn
    <2>9. asks[q].at # "asking" => Changed(q)'
        BY <1>5, <2>1, <2>2, <2>3, <2>4, <2>6, <2>7 DEF Changed
    <2> QED BY <2>8, <2>9
<1> QED BY <1>1, <1>6, <1>7, <1>8, <1>9, <1>10

----------------------------------------------------------------------------
\* The invariant of the proxy's search.
LEMMA RoutingInvariant == Spec => []RoutingInv
<1>1. RoutingInv /\ [Next]_vars => RoutingInv'
    <2> SUFFICES ASSUME RoutingInv, [Next]_vars PROVE RoutingInv'
        OBVIOUS
    <2>1. CASE Next
        BY <2>1, MadeStep, FoundStep, ChangedStep DEF RoutingInv
    <2>2. CASE UNCHANGED vars
        BY <2>2 DEF vars, RoutingInv, MadeInv, TurnsInv, TypeOK, AsksTypeOK, InTurn,
                    MadeOnce, DeletedOnce, OkIsMade, Found, Changed, Excused, Home,
                    Asked, Region
    <2> QED BY <2>1, <2>2
<1> QED BY InitInv, <1>1, PTL DEF Spec

\* The types, and that a handler waits for the region it asks now and no other: a late
\* reply of an earlier region is never taken for its answer.
THEOREM HandlersAskInTurn == Spec => []TypeOK
<1>1. RoutingInv => TypeOK
    BY DEF RoutingInv, MadeInv, TurnsInv
<1> QED BY RoutingInvariant, <1>1, PTL

\* A create or delete answered Ok was made, by that request alone.
THEOREM OkIsBelieved == Spec => []OkIsDone
<1>1. RoutingInv => OkIsDone
    BY DEF RoutingInv, MadeInv, OkIsMade, DeletedOnce, MadeOnce, OkIsDone, Answered, Home
<1> QED BY RoutingInvariant, <1>1, PTL

\* NotFound is true of a check whose own region neither was given up nor refused.
THEOREM NotFoundIsBelieved == Spec => []NotFoundIsTrue
<1>1. RoutingInv => NotFoundIsTrue
    BY DEF RoutingInv, Found, Excused, NotFoundIsTrue, Answered
<1> QED BY RoutingInvariant, <1>1, PTL

\* What a change answered Ok has done is told by which region answered.
THEOREM ChangesAreWhereAnswered == Spec => []ChangesMadeWhereAnswered
<1>1. RoutingInv => ChangesMadeWhereAnswered
    <2> SUFFICES ASSUME RoutingInv, NEW r \in Requests, Answered(r, "update", "ok")
                 PROVE  /\ asks[r].by = Home(r) /\ rows[r.check].state = "live" => r \in effects
                        /\ r \in effects =>
                            \/ asks[r].by = Home(r)
                            \/ Home(r) \in asks[r].late \cup asks[r].refused
        BY DEF ChangesMadeWhereAnswered
    <2> QED BY DEF RoutingInv, Changed, Answered
<1> QED BY RoutingInvariant, <1>1, PTL
=============================================================================
