---------------------------- MODULE ProxyAccounts ----------------------------
(***************************************************************************)
(* The accounts of isok-proxy, and the process that serves them            *)
(* (src/isok-proxy/src: main.rs, api/{users,auth,middlewares}.rs, db.rs,   *)
(* utils.rs).                                                              *)
(*                                                                         *)
(* A login reads the row of an address, and then compares the password     *)
(* with what it has read.  Any other request but the creation of a user    *)
(* passes the middleware, which reads the row of the user of the token;    *)
(* its handler then looks at what it was sent and executes one statement.  *)
(* Other handlers run between the two, and the process may be stopped      *)
(* there.  Rows and tokens outlive the process, and a new one may have     *)
(* another configuration.                                                  *)
(*                                                                         *)
(* A hash stands for the password it was made of.  The end of a user's own *)
(* organization is in ProxyOrganizations.                                  *)
(***************************************************************************)
EXTENDS ProxyConfig, FiniteSets

CONSTANTS
    Users,          \* identifiers
    Usernames, ValidUsernames,
    Passwords, ValidPasswords,
    Emails, ValidEmails,
    Keys,           \* values of setting "token" that are private keys
    Launches,       \* the ways the program is started
    Handlers        \* requests that can be under way at a time

ASSUME AccountsAssumption ==
    /\ ValidUsernames \subseteq Usernames
    /\ ValidPasswords \subseteq Passwords
    /\ ValidEmails \subseteq Emails
    /\ Launches \subseteq AllLaunches
    /\ Keys \subseteq Values
    /\ "token" \in Required

VARIABLES
    rows,       \* table users: user -> row
    tokens,     \* pairs of a user and the key that signed it, ever handed out
    proxy,      \* the process: down, starting or serving
    handlers,   \* handler -> where it is
    answer      \* history: the Ok that the last step has answered, if any

vars == <<rows, tokens, proxy, handlers, answer>>

NoRow == [status |-> "absent"]

Rows ==
    [status: {"live", "deleted"}, username: Usernames, password: Passwords,
     email: Emails]

Idle == [at |-> "idle"]

\* What a handler has read of a user.  Field "since" is a history: the passwords
\* that the user has had since.
Read(stage, u) ==
    [at |-> stage, user |-> u, password |-> rows[u].password,
     since |-> {rows[u].password}]

Reads ==
    [at: {"found", "authenticated"}, user: Users, password: Passwords,
     since: SUBSET Passwords]

NoAnswer == [op |-> "none"]

\* Ok, to a call that set a field of user u to a value; "with" is the password
\* that the call had to bring along.
Ok(op, u, value, with) == [op |-> op, user |-> u, value |-> value, with |-> with]

Down == [at |-> "down"]

Present(u) == rows[u] # NoRow

\* Columns email_address is unique, and a row stays when its user is deleted.
Taken(email) == \E u \in Users : Present(u) /\ rows[u].email = email

Init ==
    /\ rows = [u \in Users |-> NoRow]
    /\ tokens = {}
    /\ proxy = Down
    /\ handlers = [h \in Handlers |-> Idle]
    /\ answer = NoAnswer
----------------------------------------------------------------------------
(* The process.                                                            *)

start ==
    /\ proxy = Down
    /\ \E launch \in Launches : proxy' = [at |-> "starting", launch |-> launch]
    /\ answer' = NoAnswer
    /\ UNCHANGED <<rows, tokens, handlers>>

\* main, up to axum::serve.  The token has to be a key; the parameters of the
\* hash, the database and the address may be refused, whatever the token.
serve ==
    /\ proxy.at = "starting"
    /\ LET config == Resolve(proxy.launch)
       IN  \/ proxy' = Down
           \/ /\ config # None
              /\ config.settings["token"] \in Keys
              /\ proxy' = [at |-> "serving", settings |-> config.settings,
                           apis |-> config.apis]
    /\ answer' = NoAnswer
    /\ UNCHANGED <<rows, tokens, handlers>>

\* MUTANT: the requests under way survive the process.
stop_gracefully ==
    /\ proxy.at = "serving"
    /\ proxy' = Down
    /\ answer' = NoAnswer
    /\ UNCHANGED <<rows, tokens, handlers>>

\* The process is killed, and its requests with it.
stop ==
    /\ proxy.at = "serving"
    /\ proxy' = Down
    /\ handlers' = [h \in Handlers |-> Idle]
    /\ answer' = NoAnswer
    /\ UNCHANGED <<rows, tokens>>

Serving == proxy.at = "serving"

Key == proxy.settings["token"]
----------------------------------------------------------------------------
(* Creation of users and logins.                                           *)

valid_user_input(username, password, email) ==
    /\ username \in ValidUsernames
    /\ password \in ValidPasswords
    /\ email \in ValidEmails

\* create_user: one transaction, after the checks.
insert_user(u) ==
    /\ Serving
    /\ ~Present(u)
    /\ \E username \in Usernames, password \in Passwords, email \in Emails :
        /\ valid_user_input(username, password, email)
        /\ ~Taken(email)
        /\ rows' = [rows EXCEPT ![u] =
            [status |-> "live", username |-> username, password |-> password,
             email |-> email]]
    /\ answer' = NoAnswer
    /\ UNCHANGED <<tokens, proxy, handlers>>

\* The first half of login_handler: the live user who has the address.
get_user_password(h) ==
    /\ Serving
    /\ handlers[h] = Idle
    /\ \E email \in ValidEmails, u \in Users :
        /\ Present(u)
        /\ rows[u].email = email
        /\ rows[u].status = "live"
        /\ handlers' = [handlers EXCEPT ![h] = Read("found", u)]
    /\ answer' = NoAnswer
    /\ UNCHANGED <<rows, tokens, proxy>>

Finish(h) == handlers' = [handlers EXCEPT ![h] = Idle]

\* MUTANT: the login compares nothing.
login_unverified(h) ==
    /\ handlers[h].at = "found"
    /\ \E password \in ValidPasswords :
        LET u == handlers[h].user
        IN  /\ tokens' = tokens \cup {<<u, Key>>}
            /\ answer' = Ok("login", u, Key, password)
    /\ Finish(h)
    /\ UNCHANGED <<rows, proxy>>

\* The second half: verify_password and build_token.  The length of the password
\* was looked at before the first half, to the same effect.
login(h) ==
    /\ handlers[h].at = "found"
    /\ \E password \in ValidPasswords :
        LET u == handlers[h].user
        IN  IF password = handlers[h].password
            THEN /\ tokens' = tokens \cup {<<u, Key>>}
                 /\ answer' = Ok("login", u, Key, password)
            ELSE /\ tokens' = tokens
                 /\ answer' = NoAnswer
    /\ Finish(h)
    /\ UNCHANGED <<rows, proxy>>
----------------------------------------------------------------------------
(* Requests of users.                                                      *)

\* MUTANT: the middleware does not look at deleted_at.
authenticate_deleted(h) ==
    /\ Serving
    /\ handlers[h] = Idle
    /\ \E u \in Users :
        /\ <<u, Key>> \in tokens
        /\ Present(u)
        /\ handlers' = [handlers EXCEPT ![h] = Read("authenticated", u)]
    /\ answer' = NoAnswer
    /\ UNCHANGED <<rows, tokens, proxy>>

\* The middleware: a token that the key of this process has signed, of a user who
\* is live.  A token has no end, and outlives a change of the password.
authenticate(h) ==
    /\ Serving
    /\ handlers[h] = Idle
    /\ \E u \in Users :
        /\ <<u, Key>> \in tokens
        /\ Present(u)
        /\ rows[u].status = "live"
        /\ handlers' = [handlers EXCEPT ![h] = Read("authenticated", u)]
    /\ answer' = NoAnswer
    /\ UNCHANGED <<rows, tokens, proxy>>

Refuse(h) ==
    /\ Finish(h)
    /\ answer' = NoAnswer
    /\ UNCHANGED rows

\* A statement that finds no row that is live changes nothing, and is no error.
update_user_username(id, username) ==
    rows' = IF rows[id].status = "live"
            THEN [rows EXCEPT ![id].username = username] ELSE rows

rename_user(h) ==
    /\ handlers[h].at = "authenticated"
    /\ \E id \in Users, username \in Usernames :
        IF id = handlers[h].user /\ username \in ValidUsernames
        THEN /\ update_user_username(id, username)
             /\ answer' = Ok("username", id, username, None)
             /\ Finish(h)
        ELSE Refuse(h)
    /\ UNCHANGED <<tokens, proxy>>

\* MUTANT: the statement does not look at deleted_at.
update_user_email_of_any(id, email) ==
    rows' = [rows EXCEPT ![id].email = email]

update_user_email(id, email) ==
    rows' = IF rows[id].status = "live"
            THEN [rows EXCEPT ![id].email = email] ELSE rows

\* The address has to be free, if there is a row to update.
Violates(id, email) ==
    rows[id].status = "live" /\ Taken(email) /\ rows[id].email # email

\* MUTANT: an address that is taken is left alone, and no error.
change_user_email_if_free(h) ==
    /\ handlers[h].at = "authenticated"
    /\ \E id \in Users, email \in Emails :
        IF id = handlers[h].user /\ email \in ValidEmails
        THEN /\ IF Violates(id, email) THEN UNCHANGED rows
                ELSE update_user_email(id, email)
             /\ answer' = Ok("email", id, email, None)
             /\ Finish(h)
        ELSE Refuse(h)
    /\ UNCHANGED <<tokens, proxy>>

change_user_email(h) ==
    /\ handlers[h].at = "authenticated"
    /\ \E id \in Users, email \in Emails :
        IF id = handlers[h].user /\ email \in ValidEmails /\ ~Violates(id, email)
        THEN /\ update_user_email(id, email)
             /\ answer' = Ok("email", id, email, None)
             /\ Finish(h)
        ELSE Refuse(h)
    /\ UNCHANGED <<tokens, proxy>>

\* What becomes of the handlers when h has set the password of user id.
FinishAndTell(h, id, password) ==
    handlers' = [g \in Handlers |->
        IF g = h THEN Idle
        ELSE IF handlers[g] # Idle /\ handlers[g].user = id
        THEN [handlers[g] EXCEPT !.since = @ \cup {password}]
        ELSE handlers[g]]

\* The statement does not look whether the user is deleted.
update_user_password(id, password) ==
    rows' = [rows EXCEPT ![id].password = password]

\* MUTANT: the new password is not looked at.
change_user_password_to_any(h) ==
    /\ handlers[h].at = "authenticated"
    /\ \E id \in Users, old, new, confirm \in Passwords :
        IF /\ id = handlers[h].user
           /\ old \in ValidPasswords /\ old = handlers[h].password
           /\ new = confirm
        THEN /\ update_user_password(id, new)
             /\ answer' = Ok("password", id, new, old)
             /\ FinishAndTell(h, id, new)
        ELSE Refuse(h)
    /\ UNCHANGED <<tokens, proxy>>

\* The old password is compared with what the middleware has read.
change_user_password(h) ==
    /\ handlers[h].at = "authenticated"
    /\ \E id \in Users, old, new, confirm \in Passwords :
        IF /\ id = handlers[h].user
           /\ old \in ValidPasswords /\ old = handlers[h].password
           /\ new \in ValidPasswords /\ new = confirm
        THEN /\ update_user_password(id, new)
             /\ answer' = Ok("password", id, new, old)
             /\ FinishAndTell(h, id, new)
        ELSE Refuse(h)
    /\ UNCHANGED <<tokens, proxy>>

\* The first statement of delete_user.
delete_user(h) ==
    /\ handlers[h].at = "authenticated"
    /\ \E id \in Users :
        IF id = handlers[h].user
        THEN /\ rows' = [rows EXCEPT ![id].status = "deleted"]
             /\ answer' = NoAnswer
             /\ Finish(h)
        ELSE Refuse(h)
    /\ UNCHANGED <<tokens, proxy>>

\* The caller hangs up, or the statement fails.
give_up(h) ==
    /\ handlers[h] # Idle
    /\ Refuse(h)
    /\ UNCHANGED <<tokens, proxy>>
----------------------------------------------------------------------------
HandlerStep(h) ==
    \/ get_user_password(h) \/ login(h)
    \/ authenticate(h)
    \/ rename_user(h) \/ change_user_email(h)
    \/ change_user_password(h) \/ delete_user(h)
    \/ give_up(h)

Next ==
    \/ start \/ serve \/ stop
    \/ \E u \in Users : insert_user(u)
    \/ \E h \in Handlers : HandlerStep(h)

Spec == Init /\ [][Next]_vars
----------------------------------------------------------------------------
(* Correctness.                                                            *)

\* Requests are under way only while a process serves, and a user has a row from
\* the first time that it is read.
TypeOK ==
    /\ rows \in [Users -> Rows \cup {NoRow}]
    /\ tokens \subseteq Users \X Keys
    /\ \/ proxy = Down
       \/ proxy \in [at: {"starting"}, launch: Launches]
       \/ /\ proxy.at = "serving"
          /\ proxy.settings \in [Settings -> Values \cup {None}]
          /\ Key \in Keys
    /\ handlers \in [Handlers -> Reads \cup {Idle}]
    /\ \A h \in Handlers : handlers[h] # Idle =>
        /\ Serving
        /\ Present(handlers[h].user)

\* Whoever has an account can log in, whatever has been changed since it was
\* created: the login takes the address and the password for valid, and the
\* address leads to this row and to no other.
OwnersCanLogIn ==
    \A u \in Users : Present(u) =>
        /\ rows[u].email \in ValidEmails
        /\ rows[u].password \in ValidPasswords
        /\ \A v \in Users \ {u} : Present(v) => rows[v].email # rows[u].email

\* An Ok to a change means that it was made, or that the user was deleted while
\* the request was under way: a statement that finds no row is no error.
OkIsDoneOrGone ==
    answer.op \in {"username", "email", "password"} =>
        \/ rows[answer.user][answer.op] = answer.value
        \/ rows[answer.user].status = "deleted"

\* A password opens something only if the user has had it since the request read
\* it: one that was replaced before is worth nothing, and neither a token nor a
\* new password is had without one.
OnlyHeldPasswordsCount ==
    [][/\ answer'.op \in {"login", "password"} =>
            \E h \in Handlers :
                /\ handlers[h] # Idle
                /\ handlers'[h] = Idle
                /\ handlers[h].user = answer'.user
                /\ answer'.with \in handlers[h].since
       /\ tokens' # tokens =>
            answer'.op = "login" /\ tokens' = tokens \cup {<<answer'.user, Key>>}
       /\ \A u \in Users :
            Present(u) /\ rows'[u].password # rows[u].password =>
                answer' = Ok("password", u, rows'[u].password, answer'.with)]_vars

\* A deleted user is deleted for good, and its address spent: nobody can have it
\* again.  Name and address stay as they are, the password unless a request was
\* under way; and no request of the user begins.
DeletedIsFinal ==
    [][\A u \in Users : Present(u) /\ rows[u].status = "deleted" =>
        /\ rows'[u].status = "deleted"
        /\ rows'[u].username = rows[u].username
        /\ rows'[u].email = rows[u].email
        /\ \A v \in Users \ {u} : rows'[v] # NoRow => rows'[v].email # rows[u].email
        /\ rows'[u].password # rows[u].password =>
            \E h \in Handlers : handlers[h] # Idle /\ handlers[h].user = u
        /\ \A h \in Handlers : handlers'[h] # Idle /\ handlers'[h].user = u =>
            handlers[h] # Idle]_vars

\* A process serves with what the strongest of its sources say, with all that is
\* required, and with every region that one of them names.
ServesStrongest ==
    [][~Serving /\ Serving' =>
        /\ \A s \in Settings : SettingIsStrongest(proxy', proxy.launch, s)
        /\ RegionsAreStrongest(proxy', proxy.launch)
        /\ DOMAIN proxy'.apis # {}]_vars
==============================================================================
