---------------------- MODULE ProxyOrganizationsProofs ----------------------
(***************************************************************************)
(* Who can be a member of what, for any users, organizations and number of *)
(* handlers under way.                                                     *)
(*                                                                         *)
(* NoMembersOfSelfOrganizations is not inductive: the writes do not look   *)
(* at the organization any more.  What it rests on is that a handler only  *)
(* gets to its write through get_user_organization, which wants a row of   *)
(* the caller, and that there is none in an organization of type user.     *)
(***************************************************************************)
EXTENDS ProxyOrganizations, TLAPS

Ops == {"create_organization", "delete_organization", "add_member", "change_role",
        "delete_member", "delete_user"}

\* What a handler under way has made sure of.
Sure(h) ==
    handlers[h] # Idle =>
        LET c == handlers[h].call
        IN  /\ users[c.caller] # "absent"
            /\ handlers[h].at \in {"found", "allowed", "checked"} /\ c.op # "delete_user"
               => c.organization \in Organizations
            /\ /\ handlers[h].at \in {"found", "allowed", "checked"}
               /\ c.op \notin {"delete_user", "create_organization"}
               => organizations[c.organization] # "absent"
            /\ handlers[h].at = "user_deleted" => c.op = "delete_user"

ReadSoFar == \A h \in Handlers : Sure(h)

Inv == TypeOK /\ NoMembersOfSelfOrganizations /\ ReadSoFar

----------------------------------------------------------------------------
LEMMA CallFields ==
    ASSUME NEW c \in Calls
    PROVE  /\ c.caller \in Users
           /\ c.target \in Users
           /\ c.op \in Ops
           /\ c.organization \in AllOrganizations
           /\ c.op \in {"add_member", "change_role", "create_organization"}
                => c.role \in Roles
           /\ c.op = "create_organization" => c.organization \in Organizations
           /\ c.op = "delete_user" => c.organization = SelfOrganization(c.caller)
<1>1. PICK u \in Users : c \in CallsOf(u)
  BY DEF Calls
<1>2. \A o \in Organizations : o \in AllOrganizations
  BY DEF AllOrganizations
<1>3. SelfOrganization(u) \in AllOrganizations
  BY DEF AllOrganizations, SelfOrganizations
<1>4. CASE \E o \in Organizations : c = Call("create_organization", u, o, u, "owner")
  BY <1>2, <1>4 DEF Call, Ops, Roles
<1>5. CASE c = Call("delete_user", u, SelfOrganization(u), u, "none")
  BY <1>3, <1>5 DEF Call, Ops
<1>6. CASE \E o \in AllOrganizations : c = Call("delete_organization", u, o, u, "none")
  BY <1>6 DEF Call, Ops
<1>7. CASE \E o \in AllOrganizations, t \in Users :
                c = Call("delete_member", u, o, t, "none")
  BY <1>7 DEF Call, Ops
<1>8. CASE \E o \in AllOrganizations, t \in Users, r \in Roles,
              op \in {"add_member", "change_role"} : c = Call(op, u, o, t, r)
  BY <1>8 DEF Call, Ops
<1> QED
  BY <1>1, <1>4, <1>5, <1>6, <1>7, <1>8 DEF CallsOf

\* A handler under way, and one that is not.
LEMMA HandlerFields ==
    ASSUME TypeOK, NEW h \in Handlers, handlers[h] # Idle
    PROVE  /\ handlers[h].at \in Stages
           /\ handlers[h].call \in Calls
           /\ handlers[h].at # "idle"
BY DEF TypeOK, Stages, Idle

\* A step of a handler moves no other one.
LEMMA MoveOne ==
    ASSUME TypeOK, NEW h \in Handlers, NEW state, Move(h, state),
           state = Idle \/ \E s \in Stages, c \in Calls : state = At(s, c)
    PROVE  /\ handlers' \in [Handlers -> {Idle} \cup [at: Stages, call: Calls]]
           /\ handlers'[h] = state
           /\ \A g \in Handlers \ {h} : handlers'[g] = handlers[g]
<1>1. state \in {Idle} \cup [at: Stages, call: Calls]
  BY DEF At
<1> QED
  BY <1>1 DEF TypeOK, Move

LEMMA SelfIsNotNormal == \A o \in SelfOrganizations : o \notin Organizations
BY OrganizationsAssumption

\* The tables as the steps leave them: nothing that was there becomes absent.
Tables ==
    /\ users' \in [Users -> {"absent", "live", "deleted"}]
    /\ organizations' \in [AllOrganizations -> {"absent", "live", "deleted"}]
    /\ members' \in [AllOrganizations -> [Users -> Roles \cup {"none"}]]
    /\ \A u \in Users : users[u] # "absent" => users'[u] # "absent"
    /\ \A o \in AllOrganizations :
        organizations[o] # "absent" => organizations'[o] # "absent"

\* A new row is one of a user and an organization that exist, and is never in an
\* organization of type user.
Rows ==
    \A o \in AllOrganizations, u \in Users :
        members[o][u] = "none" /\ members'[o][u] # "none" =>
            /\ users'[u] # "absent"
            /\ organizations'[o] # "absent"
            /\ o \in Organizations

\* A step with such tables, in which handler h at most moves, to a state as sure
\* as before.
LEMMA StepInv ==
    ASSUME Inv, Tables, Rows,
           handlers' \in [Handlers -> {Idle} \cup [at: Stages, call: Calls]],
           \A g \in Handlers : handlers'[g] = handlers[g] \/ Sure(g)'
    PROVE  Inv'
<1>1. TypeOK'
  BY DEF Inv, TypeOK, Tables, Rows
<1>2. NoMembersOfSelfOrganizations'
  BY SelfIsNotNormal DEF Inv, NoMembersOfSelfOrganizations, Rows, AllOrganizations
<1>3. ASSUME NEW g \in Handlers
      PROVE  Sure(g)'
  <2>1. CASE handlers'[g] = handlers[g] /\ handlers[g] # Idle
    <3>1. handlers[g].call \in Calls
      BY <2>1, HandlerFields DEF Inv
    <3>2. /\ handlers[g].call.caller \in Users
          /\ handlers[g].call.organization \in AllOrganizations
      BY <3>1, CallFields
    <3> QED
      BY <2>1, <3>2 DEF Inv, ReadSoFar, Sure, Tables
  <2>2. CASE handlers'[g] = handlers[g] /\ handlers[g] = Idle
    BY <2>2 DEF Sure
  <2>3. CASE Sure(g)'
    BY <2>3
  <2> QED
    BY <2>1, <2>2, <2>3
<1>4. ReadSoFar'
  BY <1>3 DEF ReadSoFar
<1> QED
  BY <1>1, <1>2, <1>4 DEF Inv

\* Tables that did not change are such tables.
LEMMA SameTables ==
    ASSUME Inv, UNCHANGED <<users, organizations, members>>
    PROVE  Tables /\ Rows
BY DEF Inv, TypeOK, Tables, Rows

----------------------------------------------------------------------------
LEMMA InitInv == Init => Inv
<1> SUFFICES ASSUME Init PROVE Inv
  OBVIOUS
<1>1. TypeOK
  BY DEF Init, TypeOK
<1>2. NoMembersOfSelfOrganizations
  BY DEF Init, NoMembersOfSelfOrganizations, AllOrganizations
<1>3. ReadSoFar
  BY DEF Init, ReadSoFar, Sure
<1> QED
  BY <1>1, <1>2, <1>3 DEF Inv

LEMMA InsertUserInv ==
    ASSUME Inv, NEW u \in Users, insert_user(u)
    PROVE  Inv'
<1>1. SelfOrganization(u) \in AllOrganizations
  BY DEF AllOrganizations, SelfOrganizations
<1>2. Tables /\ Rows
  BY <1>1 DEF Inv, TypeOK, insert_user, Tables, Rows
<1>3. /\ handlers' \in [Handlers -> {Idle} \cup [at: Stages, call: Calls]]
      /\ \A g \in Handlers : handlers'[g] = handlers[g]
  BY DEF Inv, TypeOK, insert_user
<1> QED
  BY <1>2, <1>3, StepInv

\* A handler that is done is sure of nothing.
LEMMA DoneInv ==
    ASSUME Inv, NEW h \in Handlers, Move(h, Idle), Tables, Rows
    PROVE  Inv'
<1>1. /\ handlers' \in [Handlers -> {Idle} \cup [at: Stages, call: Calls]]
      /\ handlers'[h] = Idle
      /\ \A g \in Handlers \ {h} : handlers'[g] = handlers[g]
  BY MoveOne DEF Inv
<1>2. Sure(h)'
  BY <1>1 DEF Sure
<1> QED
  BY <1>1, <1>2, StepInv

\* A handler that goes on with its call is as sure as that call's stage asks for.
LEMMA OnInv ==
    ASSUME Inv, NEW h \in Handlers, NEW s \in Stages, NEW c \in Calls,
           Move(h, At(s, c)), Tables, Rows,
           users'[c.caller] # "absent",
           s \in {"found", "allowed", "checked"} /\ c.op # "delete_user" =>
                c.organization \in Organizations,
           /\ s \in {"found", "allowed", "checked"}
           /\ c.op \notin {"delete_user", "create_organization"}
           => organizations'[c.organization] # "absent",
           s = "user_deleted" => c.op = "delete_user"
    PROVE  Inv'
<1>1. /\ handlers' \in [Handlers -> {Idle} \cup [at: Stages, call: Calls]]
      /\ handlers'[h] = At(s, c)
      /\ \A g \in Handlers \ {h} : handlers'[g] = handlers[g]
  BY MoveOne DEF Inv
<1>2. At(s, c).at = s /\ At(s, c).call = c
  BY DEF At
<1>3. Sure(h)'
  BY <1>1, <1>2 DEF Sure
<1> QED
  BY <1>1, <1>3, StepInv

\* The reads.
LEMMA ReadInv ==
    ASSUME Inv, NEW h \in Handlers,
           authenticate(h) \/ get_user_organization(h) \/ is_owner(h)
               \/ is_user_in_organization(h)
    PROVE  Inv'
<1>0. Tables /\ Rows
  BY SameTables DEF authenticate, get_user_organization, is_owner,
                    is_user_in_organization
<1>1. CASE authenticate(h)
  <2>1. PICK c \in Calls :
          /\ users[c.caller] = "live"
          /\ Move(h, At(IF c.op \in {"create_organization", "delete_user"}
                        THEN "checked" ELSE "called", c))
    BY <1>1 DEF authenticate
  <2>2. users'[c.caller] # "absent"
    BY <1>1, <2>1 DEF authenticate
  <2>3. CASE c.op \in {"create_organization", "delete_user"}
    <3>1. Move(h, At("checked", c))
      BY <2>1, <2>3
    <3> QED
      BY <1>0, <2>2, <2>3, <3>1, CallFields, OnInv DEF Stages
  <2>4. CASE c.op \notin {"create_organization", "delete_user"}
    <3>1. Move(h, At("called", c))
      BY <2>1, <2>4
    <3> QED
      BY <1>0, <2>2, <3>1, OnInv DEF Stages
  <2> QED
    BY <2>3, <2>4
<1>2. ASSUME ~authenticate(h)
      PROVE  Inv'
  <2> DEFINE c == handlers[h].call
  <2>1. handlers[h] # Idle
    BY <1>2 DEF get_user_organization, is_owner, is_user_in_organization, Idle
  <2>2. /\ c \in Calls
        /\ users[c.caller] # "absent"
        /\ c.caller \in Users
        /\ c.organization \in AllOrganizations
    BY <2>1, HandlerFields, CallFields DEF Inv, ReadSoFar, Sure
  <2>3. UNCHANGED <<users, organizations, members>>
    BY <1>2 DEF get_user_organization, is_owner, is_user_in_organization
  <2>4. CASE Move(h, Idle)
    BY <1>0, <2>4, DoneInv
  <2>5. CASE get_user_organization(h) /\ ~Move(h, Idle)
    <3>1. /\ members[c.organization][c.caller] # "none"
          /\ organizations[c.organization] = "live"
          /\ Move(h, At("found", c))
      BY <2>5 DEF get_user_organization
    <3>2. c.organization \in Organizations
      BY <2>2, <3>1 DEF Inv, NoMembersOfSelfOrganizations, AllOrganizations
    <3> QED
      BY <1>0, <2>2, <2>3, <3>1, <3>2, OnInv DEF Stages
  <2>6. CASE (is_owner(h) \/ is_user_in_organization(h)) /\ ~Move(h, Idle)
    <3>1. PICK s \in {"allowed", "checked"} : Move(h, At(s, c))
      BY <2>6 DEF is_owner, is_user_in_organization
    <3>2. handlers[h].at \in {"found", "allowed"}
      BY <2>6 DEF is_owner, is_user_in_organization
    <3>3. /\ c.op # "delete_user" => c.organization \in Organizations
          /\ c.op \notin {"delete_user", "create_organization"} =>
                organizations[c.organization] # "absent"
      BY <2>1, <3>2 DEF Inv, ReadSoFar, Sure
    <3> QED
      BY <1>0, <2>2, <2>3, <3>1, <3>3, OnInv DEF Stages
  <2> QED
    BY <1>2, <2>4, <2>5, <2>6
<1> QED
  BY <1>1, <1>2

\* What a handler about to write is sure of.
LEMMA WriterIsSure ==
    ASSUME Inv, NEW h \in Handlers, NEW op, Writes(h, op)
    PROVE  LET c == handlers[h].call
           IN  /\ c \in Calls
               /\ c.op = op
               /\ c.caller \in Users /\ users[c.caller] # "absent"
               /\ c.target \in Users
               /\ c.organization \in AllOrganizations
               /\ op # "delete_user" => c.organization \in Organizations
               /\ op \notin {"delete_user", "create_organization"} =>
                    organizations[c.organization] # "absent"
               /\ op \in {"add_member", "change_role", "create_organization"} =>
                    c.role \in Roles
<1>1. handlers[h] # Idle /\ handlers[h].at = "checked" /\ handlers[h].call.op = op
  BY DEF Writes, Idle
<1>2. handlers[h].call \in Calls
  BY <1>1, HandlerFields DEF Inv
<1> QED
  BY <1>1, <1>2, CallFields DEF Inv, ReadSoFar, Sure

\* The writes to memberships and organizations.
LEMMA WriteInv ==
    ASSUME Inv, NEW h \in Handlers,
           insert_organization(h) \/ add_user_in_organization(h)
               \/ change_user_role_in_organization(h)
               \/ delete_user_in_organization(h) \/ delete_organization(h)
    PROVE  Inv'
<1> DEFINE c == handlers[h].call
<1>1. Move(h, Idle)
  BY DEF insert_organization, add_user_in_organization,
         change_user_role_in_organization, delete_user_in_organization,
         delete_organization
<1>2. CASE insert_organization(h)
  <2>1. /\ c.organization \in Organizations
        /\ c.organization \in AllOrganizations
        /\ c.caller \in Users /\ users[c.caller] # "absent"
    BY <1>2, WriterIsSure DEF insert_organization
  <2>2. Tables /\ Rows
    BY <1>2, <2>1 DEF Inv, TypeOK, insert_organization, Tables, Rows, Roles
  <2> QED
    BY <1>1, <2>2, DoneInv
<1>3. CASE add_user_in_organization(h)
  <2>1. /\ c.organization \in Organizations
        /\ c.organization \in AllOrganizations
        /\ organizations[c.organization] # "absent"
        /\ c.target \in Users
        /\ c.role \in Roles
    BY <1>3, WriterIsSure DEF add_user_in_organization
  <2>2. Tables /\ Rows
    BY <1>3, <2>1 DEF Inv, TypeOK, add_user_in_organization, Tables, Rows
  <2> QED
    BY <1>1, <2>2, DoneInv
<1>4. CASE change_user_role_in_organization(h)
  <2>1. /\ c.organization \in AllOrganizations
        /\ c.target \in Users
        /\ c.role \in Roles
    BY <1>4, WriterIsSure DEF change_user_role_in_organization
  <2>2. Tables /\ Rows
    BY <1>4, <2>1 DEF Inv, TypeOK, change_user_role_in_organization, Tables, Rows
  <2> QED
    BY <1>1, <2>2, DoneInv
<1>5. CASE delete_user_in_organization(h)
  <2>1. c.organization \in AllOrganizations /\ c.target \in Users
    BY <1>5, WriterIsSure DEF delete_user_in_organization
  <2>2. Tables /\ Rows
    BY <1>5, <2>1 DEF Inv, TypeOK, delete_user_in_organization, Tables, Rows
  <2> QED
    BY <1>1, <2>2, DoneInv
<1>6. CASE delete_organization(h)
  <2>1. Tables /\ Rows
    BY <1>6 DEF Inv, TypeOK, delete_organization, Tables, Rows
  <2> QED
    BY <1>1, <2>1, DoneInv
<1> QED
  BY <1>2, <1>3, <1>4, <1>5, <1>6

\* The two statements of delete_user.
LEMMA DeleteUserInv ==
    ASSUME Inv, NEW h \in Handlers, delete_user(h) \/ delete_self_organization(h)
    PROVE  Inv'
<1>1. CASE delete_user(h)
  <2> DEFINE c == handlers[h].call
  <2>1. c \in Calls /\ c.op = "delete_user" /\ c.caller \in Users
    BY <1>1, WriterIsSure DEF delete_user
  <2>2. Tables /\ Rows /\ users'[c.caller] # "absent"
    BY <1>1, <2>1 DEF Inv, TypeOK, delete_user, Tables, Rows
  <2>3. Move(h, At("user_deleted", c))
    BY <1>1 DEF delete_user
  <2> QED
    BY <2>1, <2>2, <2>3, OnInv DEF Stages
<1>2. CASE delete_self_organization(h)
  <2>1. Tables /\ Rows
    BY <1>2 DEF Inv, TypeOK, delete_self_organization, Tables, Rows
  <2> QED
    BY <1>2, <2>1, DoneInv DEF delete_self_organization
<1> QED
  BY <1>1, <1>2

LEMMA NextInv == Inv /\ [Next]_vars => Inv'
<1> SUFFICES ASSUME Inv, [Next]_vars
             PROVE  Inv'
  OBVIOUS
<1>1. ASSUME NEW u \in Users, insert_user(u)
      PROVE  Inv'
  BY <1>1, InsertUserInv
<1>2. ASSUME NEW h \in Handlers, HandlerStep(h)
      PROVE  Inv'
  <2>1. CASE give_up(h)
    BY <2>1, SameTables, DoneInv DEF give_up
  <2> QED
    BY <1>2, <2>1, ReadInv, WriteInv, DeleteUserInv DEF HandlerStep
<1>3. CASE UNCHANGED vars
  <2>1. Tables /\ Rows
    BY <1>3, SameTables DEF vars
  <2>2. /\ handlers' \in [Handlers -> {Idle} \cup [at: Stages, call: Calls]]
        /\ \A g \in Handlers : handlers'[g] = handlers[g]
    BY <1>3 DEF vars, Inv, TypeOK
  <2> QED
    BY <2>1, <2>2, StepInv
<1> QED
  BY <1>1, <1>2, <1>3 DEF Next

----------------------------------------------------------------------------
\* The tables keep their types and references, and no organization of type user
\* ever has a member: is_owner, which is true of all of those, never decides on a
\* call for one.
THEOREM MembersCorrect == Spec => [](TypeOK /\ NoMembersOfSelfOrganizations)
<1>1. Inv => TypeOK /\ NoMembersOfSelfOrganizations
  BY DEF Inv
<1> QED
  BY InitInv, NextInv, <1>1, PTL DEF Spec

----------------------------------------------------------------------------
(* What steps do to the memberships.                                       *)

\* The steps that write memberships, and what they write.
LEMMA MembersWritten ==
    ASSUME Inv, Next, NEW o \in AllOrganizations, NEW u \in Users,
           members'[o][u] # members[o][u]
    PROVE  \E h \in Handlers :
            LET c == handlers[h].call
            IN  /\ handlers[h] # Idle
                /\ handlers[h].at = "checked"
                /\ c.organization = o
                /\ \/ insert_organization(h) /\ c.op = "create_organization"
                   \/ add_user_in_organization(h) /\ c.op = "add_member"
                   \/ /\ change_user_role_in_organization(h)
                      /\ c.op = "change_role"
                      /\ members[o][u] # "none"
                   \/ /\ delete_user_in_organization(h)
                      /\ members'[o][u] = "none"
<1>1. members # members'
  OBVIOUS
<1>2. PICK h \in Handlers : HandlerStep(h)
  BY <1>1 DEF Next, insert_user
<1>3. \/ insert_organization(h) \/ add_user_in_organization(h)
      \/ change_user_role_in_organization(h) \/ delete_user_in_organization(h)
  BY <1>1, <1>2 DEF HandlerStep, authenticate, get_user_organization, is_owner,
     is_user_in_organization, delete_organization, delete_user,
     delete_self_organization, give_up
<1>4. \E op : Writes(h, op)
  BY <1>3 DEF insert_organization, add_user_in_organization,
     change_user_role_in_organization, delete_user_in_organization
<1>5. handlers[h] # Idle /\ handlers[h].at = "checked"
  BY <1>4 DEF Writes, Idle
<1>6. /\ handlers[h].call.organization \in AllOrganizations
      /\ handlers[h].call.target \in Users
      /\ handlers[h].call.caller \in Users
  BY <1>4, WriterIsSure
<1>7. members \in [AllOrganizations -> [Users -> Roles \cup {"none"}]]
  BY DEF Inv, TypeOK
<1>8. CASE insert_organization(h)
  BY <1>5, <1>6, <1>7, <1>8 DEF insert_organization, Writes
<1>9. CASE add_user_in_organization(h)
  BY <1>5, <1>6, <1>7, <1>9 DEF add_user_in_organization, Writes
<1>10. CASE change_user_role_in_organization(h)
  BY <1>5, <1>6, <1>7, <1>10 DEF change_user_role_in_organization, Writes
<1>11. CASE delete_user_in_organization(h)
  BY <1>5, <1>6, <1>7, <1>11 DEF delete_user_in_organization, Writes
<1> QED
  BY <1>3, <1>8, <1>9, <1>10, <1>11

\* Only an invitation, or the creation of the organization, makes a member: a role
\* that is changed while the member leaves does not bring the row back.
THEOREM MembersAreInvited == Spec => OnlyInvitationsAdd
<1> DEFINE Step ==
        \A o \in AllOrganizations, u \in Users :
            members[o][u] = "none" /\ members'[o][u] # "none" =>
                UnderWay(o, {"add_member", "create_organization"})
<1>1. ASSUME Inv, [Next]_vars
      PROVE  [Step]_vars
  <2>1. CASE Next
    BY <1>1, <2>1, MembersWritten DEF UnderWay
  <2> QED
    BY <1>1, <2>1
<1> QED
  BY <1>1, InitInv, NextInv, PTL DEF Spec, OnlyInvitationsAdd

----------------------------------------------------------------------------
(* The two dead ends.                                                      *)

\* A live organization ends only by one of these calls.
LEMMA OrganizationsEnd ==
    ASSUME Inv, Next, NEW o \in AllOrganizations,
           organizations[o] = "live", organizations'[o] # "live"
    PROVE  \/ o \in Organizations /\ UnderWay(o, {"delete_organization"})
           \/ \E h \in Handlers :
                /\ handlers[h] # Idle
                /\ handlers[h].call.op = "delete_user"
                /\ SelfOrganization(handlers[h].call.caller) = o
<1>1. organizations \in [AllOrganizations -> {"absent", "live", "deleted"}]
  BY DEF Inv, TypeOK
<1>2. PICK h \in Handlers : delete_organization(h) \/ delete_self_organization(h)
  <2>1. ~\E u \in Users : insert_user(u)
    BY <1>1 DEF insert_user
  <2>2. PICK h \in Handlers : HandlerStep(h)
    BY <2>1 DEF Next
  <2>3. ~insert_organization(h)
    BY <1>1, WriterIsSure DEF insert_organization
  <2> QED
    BY <2>2, <2>3 DEF HandlerStep, authenticate, get_user_organization, is_owner,
       is_user_in_organization, add_user_in_organization,
       change_user_role_in_organization, delete_user_in_organization, delete_user,
       give_up
<1>3. CASE delete_organization(h)
  <2>1. Writes(h, "delete_organization") /\ handlers[h].call.organization = o
    BY <1>1, <1>3 DEF delete_organization
  <2>2. o \in Organizations
    BY <2>1, WriterIsSure
  <2> QED
    BY <2>1, <2>2 DEF UnderWay, Writes, Idle
<1>4. CASE delete_self_organization(h)
  <2>1. handlers[h].at = "user_deleted" /\ handlers[h].call.organization = o
    BY <1>1, <1>4 DEF delete_self_organization
  <2>2. handlers[h] # Idle
    BY <2>1 DEF Idle
  <2>3. handlers[h].call.op = "delete_user" /\ handlers[h].call \in Calls
    BY <2>1, <2>2, HandlerFields DEF Inv, ReadSoFar, Sure
  <2> QED
    BY <2>1, <2>2, <2>3, CallFields
<1> QED
  BY <1>2, <1>3, <1>4

\* A user comes to life only once, and then only dies.
LEMMA UsersLive ==
    ASSUME Inv, Next, NEW u \in Users, users'[u] # users[u]
    PROVE  \/ users[u] = "absent" /\ users'[u] = "live"
           \/ users'[u] = "deleted"
<1>1. users \in [Users -> {"absent", "live", "deleted"}]
  BY DEF Inv, TypeOK
<1>2. CASE \E v \in Users : insert_user(v)
  BY <1>1, <1>2 DEF insert_user
<1>3. ASSUME NEW h \in Handlers, HandlerStep(h)
      PROVE  users'[u] = "deleted"
  <2>1. delete_user(h)
    BY <1>3 DEF HandlerStep, authenticate, get_user_organization, is_owner,
       is_user_in_organization, insert_organization, add_user_in_organization,
       change_user_role_in_organization, delete_user_in_organization,
       delete_organization, delete_self_organization, give_up
  <2> QED
    BY <1>1, <2>1 DEF delete_user
<1> QED
  BY <1>2, <1>3 DEF Next

\* A handler is in a call it was in before, or has just let its caller in.
LEMMA HandlersMove ==
    ASSUME Inv, Next, NEW h \in Handlers, handlers'[h] # Idle
    PROVE  \/ /\ handlers[h] # Idle
              /\ handlers'[h].call = handlers[h].call
              /\ \/ handlers'[h].at = handlers[h].at
                 \/ handlers[h].at = "called" /\ handlers'[h].at = "found"
                 \/ is_owner(h)
                 \/ handlers[h].at = "allowed" /\ handlers'[h].at = "checked"
                 \/ handlers'[h].at = "user_deleted"
           \/ /\ handlers'[h].call \in Calls
              /\ users[handlers'[h].call.caller] = "live"
              /\ handlers'[h].at = IF handlers'[h].call.op \in
                                        {"create_organization", "delete_user"}
                                   THEN "checked" ELSE "called"
<1>1. handlers \in [Handlers -> {Idle} \cup [at: Stages, call: Calls]]
  BY DEF Inv, TypeOK
<1>2. CASE handlers'[h] = handlers[h]
  BY <1>2
<1>3. CASE handlers'[h] # handlers[h]
  <2>1. HandlerStep(h)
    <3>1. PICK g \in Handlers : HandlerStep(g)
      BY <1>3 DEF Next, insert_user
    <3>2. \E state : Move(g, state)
      BY <3>1 DEF HandlerStep, authenticate, get_user_organization, is_owner,
         is_user_in_organization, insert_organization, add_user_in_organization,
         change_user_role_in_organization, delete_user_in_organization,
         delete_organization, delete_user, delete_self_organization, give_up
    <3>3. g = h
      BY <1>1, <1>3, <3>2 DEF Move
    <3> QED
      BY <3>1, <3>3
  <2>2. ~Move(h, Idle)
    BY <1>1 DEF Move
  <2>3. \/ authenticate(h) \/ get_user_organization(h) \/ is_owner(h)
        \/ is_user_in_organization(h) \/ delete_user(h)
    BY <2>1, <2>2 DEF HandlerStep, insert_organization, add_user_in_organization,
       change_user_role_in_organization, delete_user_in_organization,
       delete_organization, delete_self_organization, give_up
  <2>4. ASSUME NEW s, NEW c, Move(h, At(s, c))
        PROVE  handlers'[h].at = s /\ handlers'[h].call = c
    BY <1>1, <2>4 DEF Move, At
  <2>5. CASE authenticate(h)
    BY <2>4, <2>5 DEF authenticate
  <2>6. CASE get_user_organization(h)
    BY <2>2, <2>4, <2>6 DEF get_user_organization, Idle
  <2>7. CASE is_owner(h)
    <3>1. Move(h, At("allowed", handlers[h].call)) \/
          Move(h, At("checked", handlers[h].call))
      BY <2>2, <2>7 DEF is_owner
    <3> QED
      BY <2>4, <2>7, <3>1 DEF is_owner, Idle
  <2>8. CASE is_user_in_organization(h)
    BY <2>2, <2>4, <2>8 DEF is_user_in_organization, Idle
  <2>9. CASE delete_user(h)
    BY <2>4, <2>9 DEF delete_user, Writes, Idle
  <2> QED
    BY <2>3, <2>5, <2>6, <2>7, <2>8, <2>9
<1> QED
  BY <1>2, <1>3

\* A user whose deletion stopped half way stays half deleted: the middleware lets
\* no call of that user in that could complete it.
THEOREM HalfDeletedStays == Spec => HalfDeletedForGood
<1> DEFINE Step == \A u \in Users : HalfDeleted(u) => HalfDeleted(u)'
<1>1. ASSUME Inv, Next, NEW u \in Users, HalfDeleted(u)
      PROVE  HalfDeleted(u)'
  <2>1. users'[u] = "deleted"
    BY <1>1, UsersLive DEF HalfDeleted
  <2>2. organizations'[SelfOrganization(u)] = "live"
    <3>1. /\ SelfOrganization(u) \in SelfOrganizations
          /\ SelfOrganization(u) \in AllOrganizations
      BY DEF AllOrganizations, SelfOrganizations
    <3>2. \A v \in Users : SelfOrganization(v) = SelfOrganization(u) => v = u
      BY DEF SelfOrganization
    <3>3. \A h \in Handlers : handlers[h] # Idle => handlers[h].call.caller \in Users
      BY <1>1, HandlerFields, CallFields DEF Inv
    <3> QED
      BY <1>1, <3>1, <3>2, <3>3, OrganizationsEnd, SelfIsNotNormal DEF HalfDeleted
  <2>3. ASSUME NEW h \in Handlers, handlers'[h] # Idle,
               handlers'[h].call.op = "delete_user", handlers'[h].call.caller = u
        PROVE  FALSE
    BY <1>1, <2>3, HandlersMove DEF HalfDeleted
  <2> QED
    BY <2>1, <2>2, <2>3 DEF HalfDeleted
<1>2. ASSUME Inv, [Next]_vars
      PROVE  [Step]_vars
  BY <1>1, <1>2
<1> QED
  BY <1>2, InitInv, NextInv, PTL DEF Spec, HalfDeletedForGood

\* An organization without an owner, and without a call under way that an owner
\* was allowed to make, is stuck for good: members can only leave it.
THEOREM StuckStays == Spec => StuckForGood
<1> DEFINE Allowing == {"add_member", "change_role", "delete_organization"}
           Step == \A o \in Organizations : Stuck(o) =>
                    /\ Stuck(o)'
                    /\ \A u \in Users : members'[o][u] \in {members[o][u], "none"}
<1>1. ASSUME Inv, Next, NEW o \in Organizations, Stuck(o)
      PROVE  /\ Stuck(o)'
             /\ \A u \in Users : members'[o][u] \in {members[o][u], "none"}
  <2>0. o \in AllOrganizations
    BY DEF AllOrganizations
  <2>1. ASSUME NEW u \in Users
        PROVE  members'[o][u] \in {members[o][u], "none"}
    <3>1. SUFFICES ASSUME members'[o][u] # members[o][u]
                   PROVE  members'[o][u] = "none"
      OBVIOUS
    <3>2. PICK h \in Handlers :
            LET c == handlers[h].call
            IN  /\ handlers[h] # Idle
                /\ handlers[h].at = "checked"
                /\ c.organization = o
                /\ \/ insert_organization(h) /\ c.op = "create_organization"
                   \/ add_user_in_organization(h) /\ c.op = "add_member"
                   \/ /\ change_user_role_in_organization(h)
                      /\ c.op = "change_role"
                      /\ members[o][u] # "none"
                   \/ /\ delete_user_in_organization(h)
                      /\ members'[o][u] = "none"
      BY <1>1, <2>0, <3>1, MembersWritten
    <3>3. ~insert_organization(h)
      BY <1>1, <3>2 DEF insert_organization, Stuck
    <3>4. handlers[h].call.op \notin Allowing
      BY <1>1, <3>2 DEF Stuck, UnderWay
    <3> QED
      BY <3>2, <3>3, <3>4
  <2>2. organizations'[o] = "live"
    <3>1. \A h \in Handlers : handlers[h] # Idle =>
                SelfOrganization(handlers[h].call.caller) # o
      <4>1. \A h \in Handlers : handlers[h] # Idle => handlers[h].call.caller \in Users
        BY <1>1, HandlerFields, CallFields DEF Inv
      <4>2. \A u \in Users : SelfOrganization(u) # o
        BY SelfIsNotNormal DEF SelfOrganizations
      <4> QED
        BY <4>1, <4>2
    <3>2. ~UnderWay(o, {"delete_organization"})
      BY <1>1 DEF Stuck, UnderWay
    <3> QED
      BY <1>1, <2>0, <3>1, <3>2, OrganizationsEnd DEF Stuck
  <2>3. ASSUME NEW u \in Users
        PROVE  ~IsOwner(u, o)'
    <3>1. SUFFICES ASSUME members'[o][u] = "owner", users'[u] = "live"
                   PROVE  FALSE
      BY DEF IsOwner
    <3>2. members[o][u] = "owner"
      BY <2>1, <3>1
    <3>3. users[u] # "absent"
      BY <1>1, <2>0, <3>2 DEF Inv, TypeOK
    <3>4. users[u] = "live"
      BY <1>1, <3>1, <3>3, UsersLive
    <3> QED
      BY <1>1, <3>2, <3>4 DEF Stuck, IsOwner
  <2>4. ASSUME UnderWay(o, Allowing)'
        PROVE  FALSE
    <3>1. PICK h \in Handlers :
            /\ handlers'[h] # Idle
            /\ handlers'[h].call.organization = o
            /\ handlers'[h].call.op \in Allowing
            /\ handlers'[h].at \in {"allowed", "checked"}
      BY <2>4 DEF UnderWay
    <3>2. /\ handlers[h] # Idle
          /\ handlers'[h].call = handlers[h].call
          /\ \/ handlers[h].at \in {"allowed", "checked"}
             \/ is_owner(h)
      BY <1>1, <3>1, HandlersMove
    <3>3. CASE handlers[h].at \in {"allowed", "checked"}
      BY <1>1, <3>1, <3>2, <3>3 DEF Stuck, UnderWay
    <3>4. CASE is_owner(h)
      <4>1. handlers[h].call.caller \in Users
        BY <1>1, <3>2, HandlerFields, CallFields DEF Inv
      <4>2. ~IsOwner(handlers[h].call.caller, o)
        BY <1>1, <4>1 DEF Stuck
      <4>3. Move(h, Idle)
        <5>1. /\ handlers[h].call.organization = o
              /\ handlers[h].call.op # "delete_member"
          BY <3>1, <3>2
        <5>2. ~IsOwner(handlers[h].call.caller, handlers[h].call.organization)
          BY <4>2, <5>1
        <5> QED
          BY <3>4, <5>1, <5>2 DEF is_owner
      <4> QED
        BY <1>1, <3>1, <4>3 DEF Move, Inv, TypeOK
    <3> QED
      BY <3>2, <3>3, <3>4
  <2>5. Stuck(o)'
    BY <2>2, <2>3, <2>4 DEF Stuck
  <2> QED
    BY <2>1, <2>5
<1>2. ASSUME Inv, [Next]_vars
      PROVE  [Step]_vars
  BY <1>1, <1>2
<1> QED
  BY <1>2, InitInv, NextInv, PTL DEF Spec, StuckForGood
=============================================================================
