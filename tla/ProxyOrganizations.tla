------------------------- MODULE ProxyOrganizations -------------------------
(***************************************************************************)
(* Users and organizations of isok-proxy: the handlers of                  *)
(* src/isok-proxy/src/api/{users,organizations}.rs over the tables of      *)
(* src/isok-proxy/src/db.rs.                                               *)
(*                                                                         *)
(* A handler is a chain of statements, each a transaction of its own       *)
(* unless said otherwise: the middleware reads the user, the handler reads *)
(* the organization, then its members, checks that the caller is an owner  *)
(* and the target a member, and writes.  Other handlers run between any    *)
(* two of them, and a handler may be dropped there.                        *)
(*                                                                         *)
(* A user is known by the email address, which is unique among all users,  *)
(* the deleted ones included.                                              *)
(***************************************************************************)
EXTENDS Integers, FiniteSets

CONSTANTS
    Users,
    Organizations,    \* the normal ones
    Handlers          \* requests that can be under way at a time

\* Every user has an organization of type user of its own.
SelfOrganization(u) == <<"user", u>>
SelfOrganizations == {SelfOrganization(u) : u \in Users}
AllOrganizations == Organizations \cup SelfOrganizations

ASSUME OrganizationsAssumption == Organizations \cap SelfOrganizations = {}

Roles == {"owner", "member"}

VARIABLES
    users,            \* user -> "absent", "live" or "deleted"
    organizations,    \* organization -> the same
    members,          \* users_organizations: organization -> user -> role or "none"
    handlers          \* handler -> where it is, and in which call

vars == <<users, organizations, members, handlers>>

Call(op, caller, organization, target, role) ==
    [op |-> op, caller |-> caller, organization |-> organization,
     target |-> target, role |-> role]

\* The calls of user u; the identifier in the path can be that of any organization.
CallsOf(u) ==
    {Call("create_organization", u, o, u, "owner") : o \in Organizations} \cup
    {Call("delete_user", u, SelfOrganization(u), u, "none")} \cup
    UNION {{Call("delete_organization", u, o, u, "none")} \cup
           UNION {{Call("delete_member", u, o, t, "none")} \cup
                  {Call(op, u, o, t, r) :
                    op \in {"add_member", "change_role"}, r \in Roles}
                  : t \in Users}
           : o \in AllOrganizations}

Calls == UNION {CallsOf(u) : u \in Users}

Idle == [at |-> "idle"]

At(stage, c) == [at |-> stage, call |-> c]

Init ==
    /\ users = [u \in Users |-> "absent"]
    /\ organizations = [o \in AllOrganizations |-> "absent"]
    /\ members = [o \in AllOrganizations |-> [u \in Users |-> "none"]]
    /\ handlers = [h \in Handlers |-> Idle]

Move(h, state) == handlers' = [handlers EXCEPT ![h] = state]

\* MUTANT: the new user is made a member of its own organization.
insert_user_as_owner(u) ==
    /\ users[u] = "absent"
    /\ users' = [users EXCEPT ![u] = "live"]
    /\ organizations' = [organizations EXCEPT ![SelfOrganization(u)] = "live"]
    /\ members' = [members EXCEPT ![SelfOrganization(u)][u] = "owner"]
    /\ UNCHANGED handlers

\* create_user: the organization and the user, in one transaction.
insert_user(u) ==
    /\ users[u] = "absent"
    /\ users' = [users EXCEPT ![u] = "live"]
    /\ organizations' = [organizations EXCEPT ![SelfOrganization(u)] = "live"]
    /\ UNCHANGED <<members, handlers>>

----------------------------------------------------------------------------
(* The reads of a handler.                                                 *)

\* MUTANT: the middleware lets a deleted user through.
authenticate_deleted(h) ==
    /\ handlers[h] = Idle
    /\ \E c \in Calls :
        /\ users[c.caller] # "absent"
        /\ Move(h, At(IF c.op \in {"create_organization", "delete_user"}
                      THEN "checked" ELSE "called", c))
    /\ UNCHANGED <<users, organizations, members>>

\* The middleware finds the user of the token, who is not deleted.  Creating an
\* organization and deleting oneself read nothing else.
authenticate(h) ==
    /\ handlers[h] = Idle
    /\ \E c \in Calls :
        /\ users[c.caller] = "live"
        /\ Move(h, At(IF c.op \in {"create_organization", "delete_user"}
                      THEN "checked" ELSE "called", c))
    /\ UNCHANGED <<users, organizations, members>>

\* The organization, if it is not deleted and the caller has a row in it.
get_user_organization(h) ==
    /\ handlers[h].at = "called"
    /\ LET c == handlers[h].call
       IN  Move(h, IF /\ members[c.organization][c.caller] # "none"
                      /\ organizations[c.organization] = "live"
                   THEN At("found", c) ELSE Idle)
    /\ UNCHANGED <<users, organizations, members>>

IsOwner(u, o) ==
    o \in Organizations => members[o][u] = "owner" /\ users[u] = "live"

\* MUTANT: any member counts as an owner.
is_owner_any_member(h) ==
    /\ handlers[h].at = "found"
    /\ LET c == handlers[h].call
       IN  Move(h, At(IF c.op \in {"change_role", "delete_member"}
                      THEN "allowed" ELSE "checked", c))
    /\ UNCHANGED <<users, organizations, members>>

\* parse_organization reads the members that are not deleted, and is_owner looks
\* for the caller among their owners; it holds of every organization of type
\* user.  One may always take oneself out.
is_owner(h) ==
    /\ handlers[h].at = "found"
    /\ LET c == handlers[h].call
           leaves == c.op = "delete_member" /\ c.target = c.caller
       IN  Move(h, IF IsOwner(c.caller, c.organization) \/ leaves
                   THEN At(IF c.op \in {"change_role", "delete_member"}
                           THEN "allowed" ELSE "checked", c)
                   ELSE Idle)
    /\ UNCHANGED <<users, organizations, members>>

is_user_in_organization(h) ==
    /\ handlers[h].at = "allowed"
    /\ LET c == handlers[h].call
       IN  Move(h, IF /\ members[c.organization][c.target] # "none"
                      /\ organizations[c.organization] = "live"
                   THEN At("checked", c) ELSE Idle)
    /\ UNCHANGED <<users, organizations, members>>

----------------------------------------------------------------------------
(* The writes.                                                             *)

Writes(h, op) == handlers[h].at = "checked" /\ handlers[h].call.op = op

\* One transaction; the database picks the identifier.
insert_organization(h) ==
    /\ Writes(h, "create_organization")
    /\ LET c == handlers[h].call
       IN  /\ organizations[c.organization] = "absent"
           /\ organizations' = [organizations EXCEPT ![c.organization] = "live"]
           /\ members' = [members EXCEPT ![c.organization][c.caller] = "owner"]
    /\ Move(h, Idle)
    /\ UNCHANGED users

\* MUTANT: the row is inserted without a look at the users.
add_user_unknown(h) ==
    /\ Writes(h, "add_member")
    /\ LET c == handlers[h].call
       IN  members' = IF members[c.organization][c.target] = "none"
                      THEN [members EXCEPT ![c.organization][c.target] = c.role]
                      ELSE members
    /\ Move(h, Idle)
    /\ UNCHANGED <<users, organizations>>

\* Whoever has the address gets a row, deleted or not; an address nobody has
\* adds none, and a second row is an error of the primary key.
add_user_in_organization(h) ==
    /\ Writes(h, "add_member")
    /\ LET c == handlers[h].call
       IN  members' = IF /\ users[c.target] # "absent"
                         /\ members[c.organization][c.target] = "none"
                      THEN [members EXCEPT ![c.organization][c.target] = c.role]
                      ELSE members
    /\ Move(h, Idle)
    /\ UNCHANGED <<users, organizations>>

\* MUTANT: the role is set whether or not there is a row.
change_user_role_upsert(h) ==
    /\ Writes(h, "change_role")
    /\ LET c == handlers[h].call
       IN  members' = [members EXCEPT ![c.organization][c.target] = c.role]
    /\ Move(h, Idle)
    /\ UNCHANGED <<users, organizations>>

change_user_role_in_organization(h) ==
    /\ Writes(h, "change_role")
    /\ LET c == handlers[h].call
       IN  members' = [members EXCEPT ![c.organization][c.target] =
                            IF @ = "none" THEN "none" ELSE c.role]
    /\ Move(h, Idle)
    /\ UNCHANGED <<users, organizations>>

delete_user_in_organization(h) ==
    /\ Writes(h, "delete_member")
    /\ LET c == handlers[h].call
       IN  members' = [members EXCEPT ![c.organization][c.target] = "none"]
    /\ Move(h, Idle)
    /\ UNCHANGED <<users, organizations>>

delete_organization(h) ==
    /\ Writes(h, "delete_organization")
    /\ organizations' =
        [organizations EXCEPT ![handlers[h].call.organization] = "deleted"]
    /\ Move(h, Idle)
    /\ UNCHANGED <<users, members>>

\* delete_user is two statements without a transaction: the user first ...
delete_user(h) ==
    /\ Writes(h, "delete_user")
    /\ users' = [users EXCEPT ![handlers[h].call.caller] = "deleted"]
    /\ Move(h, At("user_deleted", handlers[h].call))
    /\ UNCHANGED <<organizations, members>>

\* ... then the user's own organization.
delete_self_organization(h) ==
    /\ handlers[h].at = "user_deleted"
    /\ organizations' =
        [organizations EXCEPT ![handlers[h].call.organization] = "deleted"]
    /\ Move(h, Idle)
    /\ UNCHANGED <<users, members>>

\* The handler is dropped, or a statement fails.
give_up(h) ==
    /\ handlers[h] # Idle
    /\ Move(h, Idle)
    /\ UNCHANGED <<users, organizations, members>>

----------------------------------------------------------------------------
HandlerStep(h) ==
    \/ authenticate(h) \/ get_user_organization(h) \/ is_owner(h)
    \/ is_user_in_organization(h)
    \/ insert_organization(h) \/ add_user_in_organization(h)
    \/ change_user_role_in_organization(h) \/ delete_user_in_organization(h)
    \/ delete_organization(h) \/ delete_user(h) \/ delete_self_organization(h)
    \/ give_up(h)

Next ==
    \/ \E u \in Users : insert_user(u)
    \/ \E h \in Handlers : HandlerStep(h)

Spec == Init /\ [][Next]_vars

----------------------------------------------------------------------------
(* Properties.                                                             *)

Stages == {"called", "found", "allowed", "checked", "user_deleted"}

\* A row of users_organizations refers to a user that exists.
TypeOK ==
    /\ users \in [Users -> {"absent", "live", "deleted"}]
    /\ organizations \in [AllOrganizations -> {"absent", "live", "deleted"}]
    /\ members \in [AllOrganizations -> [Users -> Roles \cup {"none"}]]
    /\ handlers \in [Handlers -> {Idle} \cup [at: Stages, call: Calls]]
    /\ \A o \in AllOrganizations, u \in Users :
        members[o][u] # "none" => users[u] # "absent" /\ organizations[o] # "absent"

\* Nobody is ever a member of an organization of type user: is_owner is true of
\* all of those, and only this keeps add_member and delete_organization away from
\* them.
NoMembersOfSelfOrganizations ==
    \A o \in SelfOrganizations, u \in Users : members[o][u] = "none"

UnderWay(o, ops) ==
    \E h \in Handlers :
        /\ handlers[h] # Idle
        /\ handlers[h].call.organization = o
        /\ handlers[h].call.op \in ops
        /\ handlers[h].at \in {"allowed", "checked"}

\* A live organization without an owner who is not deleted, and no call under way
\* that an owner was allowed to make while there was one.
Stuck(o) ==
    /\ organizations[o] = "live"
    /\ \A u \in Users : ~IsOwner(u, o)
    /\ ~UnderWay(o, {"add_member", "change_role", "delete_organization"})

\* An organization can lose its last owner, by two owners that take each other
\* out, among other ways.  After that it is stuck for good: it gets no member, no
\* role and no end; members can only leave it.
StuckForGood ==
    [][\A o \in Organizations : Stuck(o) =>
        /\ Stuck(o)'
        /\ \A u \in Users : members'[o][u] \in {members[o][u], "none"}]_vars

\* Only an invitation makes a member: a role changed while another handler takes
\* the member out does not bring the row back.
OnlyInvitationsAdd ==
    [][\A o \in AllOrganizations, u \in Users :
        members[o][u] = "none" /\ members'[o][u] # "none" =>
            UnderWay(o, {"add_member", "create_organization"})]_vars

HalfDeleted(u) ==
    /\ users[u] = "deleted"
    /\ organizations[SelfOrganization(u)] = "live"
    /\ ~\E h \in Handlers :
            handlers[h] # Idle /\ handlers[h].call.op = "delete_user" /\
            handlers[h].call.caller = u

\* A user whose deletion stopped between its two statements, with no other one of
\* the same user under way, stays half deleted: no call can complete it.
HalfDeletedForGood == [][\A u \in Users : HalfDeleted(u) => HalfDeleted(u)']_vars
============================================================================
