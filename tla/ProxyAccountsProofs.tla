------------------------- MODULE ProxyAccountsProofs -------------------------
(***************************************************************************)
(* Proofs about the configuration and the accounts of isok-proxy.          *)
(***************************************************************************)
EXTENDS ProxyAccounts, TLAPS

USE ConfigAssumption, AccountsAssumption

----------------------------------------------------------------------------
(* The configuration.                                                      *)

\* What merge makes of two configurations.
LEMMA MergeResult ==
    ASSUME NEW a, NEW b
    PROVE  /\ \A s \in Settings : merge(a, b).settings[s] =
                IF b.settings[s] # None THEN b.settings[s] ELSE a.settings[s]
           /\ DOMAIN merge(a, b).apis = DOMAIN a.apis \cup DOMAIN b.apis
           /\ \A name \in DOMAIN merge(a, b).apis : merge(a, b).apis[name] =
                IF name \in DOMAIN b.apis THEN b.apis[name] ELSE a.apis[name]
    BY DEF merge, merge_apis_config

\* What to_config makes of a configuration that it does not refuse.
LEMMA ConfigResult ==
    ASSUME NEW settings, NEW apis,
           to_config([settings |-> settings, apis |-> apis]) # None
    PROVE  LET config == to_config([settings |-> settings, apis |-> apis])
           IN  /\ config.apis = apis
               /\ DOMAIN apis # {}
               /\ config.settings = [s \in Settings |->
                    IF settings[s] = None THEN Default[s] ELSE settings[s]]
               /\ \A s \in Required : settings[s] # None
    BY DEF to_config

\* What is read of the environment.
LEMMA EnvResult ==
    ASSUME NEW env \in Sources
    PROVE  /\ env # None /\ env # Unreadable
           /\ from_env(env).settings = env.settings
           /\ DOMAIN from_env(env).apis = Names(env)
           /\ \A name \in Names(env) : from_env(env).apis[name] = env.apis[name]
    BY DEF Sources, from_env, Names, NoApis

\* What is read of a file that can be read.
LEMMA FileResult ==
    ASSUME NEW file \in Sources, from_file(file) # Unreadable
    PROVE  /\ file # None
           /\ from_file(file) = file
           /\ DOMAIN file.apis = Names(file)
    BY DEF Sources, from_file, Names

\* What is read of the command line.
LEMMA CliResult ==
    ASSUME NEW cli \in Arguments
    PROVE  /\ cli # None /\ cli # Unreadable
           /\ from_cli(cli).settings = cli.settings
           /\ DOMAIN from_cli(cli).apis = {UriString(uri) : uri \in cli.uris}
           /\ \A uri \in cli.uris : from_cli(cli).apis[UriString(uri)] = uri
    BY DEF Arguments, from_cli, UriString

\* The merge of two or three sources is a record that to_config can look at.
LEMMA MergeIsRecord ==
    ASSUME NEW a, NEW b
    PROVE  merge(a, b) = [settings |-> merge(a, b).settings, apis |-> merge(a, b).apis]
    BY DEF merge

\* A launch that is not refused gives a configuration of the strongest values.
LEMMA ResolveCorrect ==
    ASSUME NEW launch \in AllLaunches, Resolve(launch) # None
    PROVE  /\ Resolve(launch).settings \in [Settings -> Values \cup {None}]
           /\ \A s \in Settings : SettingIsStrongest(Resolve(launch), launch, s)
           /\ RegionsAreStrongest(Resolve(launch), launch)
           /\ DOMAIN Resolve(launch).apis # {}
<1> DEFINE file == from_file(launch.file)
           env == from_env(launch.env)
           cli == from_cli(launch.cli)
           merged == IF launch.file = None THEN merge(env, cli)
                     ELSE merge(merge(file, env), cli)
           config == Resolve(launch)
<1>1. Unreadable \notin {file, env, cli} /\ config = to_config(merged)
    BY DEF Resolve
<1>2. launch.env \in Sources /\ launch.cli \in Arguments
    BY <1>1 DEF AllLaunches, from_env, from_cli
<1>3. launch.file = None \/ launch.file \in Sources
    BY <1>1 DEF AllLaunches, from_file
<1>4. config = to_config([settings |-> merged.settings, apis |-> merged.apis])
    BY <1>1, MergeIsRecord
<1>5. /\ config.apis = merged.apis
      /\ DOMAIN merged.apis # {}
      /\ config.settings = [s \in Settings |->
            IF merged.settings[s] = None THEN Default[s] ELSE merged.settings[s]]
      /\ \A s \in Required : merged.settings[s] # None
    <2> HIDE DEF merged, config
    <2>1. to_config([settings |-> merged.settings, apis |-> merged.apis]) # None
        BY <1>4 DEF config
    <2> QED BY <2>1, <1>4, ConfigResult
<1>6. /\ \A s \in Settings : merged.settings[s] =
            IF launch.cli.settings[s] # None THEN launch.cli.settings[s]
            ELSE IF launch.env.settings[s] # None THEN launch.env.settings[s]
            ELSE IF launch.file # None THEN launch.file.settings[s] ELSE None
      /\ DOMAIN merged.apis = Names(launch.file) \cup Names(launch.env) \cup
                            {UriString(uri) : uri \in launch.cli.uris}
      /\ \A name \in DOMAIN merged.apis : merged.apis[name] =
            IF name \in DOMAIN cli.apis THEN cli.apis[name]
            ELSE IF name \in Names(launch.env) THEN launch.env.apis[name]
            ELSE launch.file.apis[name]
    <2>1. CASE launch.file = None
        <3>1. merged = merge(env, cli) BY <2>1
        <3>2. Names(launch.file) = {} BY <2>1 DEF Names
        <3> HIDE DEF merged, env, cli
        <3>3. \A s \in Settings : merged.settings[s] =
                IF cli.settings[s] # None THEN cli.settings[s] ELSE env.settings[s]
            BY <3>1, MergeResult
        <3>4. /\ DOMAIN merged.apis = DOMAIN env.apis \cup DOMAIN cli.apis
              /\ \A name \in DOMAIN merged.apis : merged.apis[name] =
                    IF name \in DOMAIN cli.apis THEN cli.apis[name] ELSE env.apis[name]
            BY <3>1, MergeResult
        <3> QED
            BY <1>2, <2>1, <3>2, <3>3, <3>4, EnvResult, CliResult DEF env, cli
    <2>2. CASE launch.file # None
        <3>1. launch.file \in Sources BY <1>3, <2>2
        <3>2. file = launch.file /\ DOMAIN file.apis = Names(launch.file)
            BY <1>1, <3>1, FileResult
        <3> DEFINE both == merge(file, env)
        <3>3. merged = merge(both, cli) BY <2>2
        <3> HIDE DEF merged, both, file, env, cli
        <3>4. /\ \A s \in Settings : merged.settings[s] =
                    IF cli.settings[s] # None THEN cli.settings[s] ELSE both.settings[s]
              /\ \A s \in Settings : both.settings[s] =
                    IF env.settings[s] # None THEN env.settings[s] ELSE file.settings[s]
            BY <3>3, MergeResult DEF both
        <3>5. /\ DOMAIN merged.apis = DOMAIN both.apis \cup DOMAIN cli.apis
              /\ \A name \in DOMAIN merged.apis : merged.apis[name] =
                    IF name \in DOMAIN cli.apis THEN cli.apis[name] ELSE both.apis[name]
              /\ DOMAIN both.apis = DOMAIN file.apis \cup DOMAIN env.apis
              /\ \A name \in DOMAIN both.apis : both.apis[name] =
                    IF name \in DOMAIN env.apis THEN env.apis[name] ELSE file.apis[name]
            BY <3>3, MergeResult DEF both
        <3>6. /\ env.settings = launch.env.settings
              /\ DOMAIN env.apis = Names(launch.env)
              /\ \A name \in Names(launch.env) : env.apis[name] = launch.env.apis[name]
              /\ cli.settings = launch.cli.settings
              /\ DOMAIN cli.apis = {UriString(uri) : uri \in launch.cli.uris}
            BY <1>2, EnvResult, CliResult DEF env, cli
        <3>7. \A s \in Settings : merged.settings[s] =
                IF launch.cli.settings[s] # None THEN launch.cli.settings[s]
                ELSE IF launch.env.settings[s] # None THEN launch.env.settings[s]
                ELSE launch.file.settings[s]
            BY <3>2, <3>4, <3>6
        <3> QED BY <2>2, <3>2, <3>5, <3>6, <3>7
    <2> QED BY <2>1, <2>2
<1>7. config.settings \in [Settings -> Values \cup {None}]
    <2> HIDE DEF merged, config
    <2>1. SUFFICES ASSUME NEW s \in Settings
                   PROVE  (IF merged.settings[s] = None THEN Default[s]
                           ELSE merged.settings[s]) \in Values \cup {None}
        BY <1>5
    <2>2. CASE merged.settings[s] = None
        BY <1>5, <2>2
    <2>3. CASE merged.settings[s] # None
        BY <1>2, <1>3, <1>6, <2>3 DEF Sources, Arguments
    <2> QED BY <2>2, <2>3
<1>8. ASSUME NEW s \in Settings PROVE SettingIsStrongest(config, launch, s)
    <2> HIDE DEF merged, config
    <2>1. launch.cli # None /\ launch.env # None
        BY <1>2
    <2>2. config.settings[s] =
            IF merged.settings[s] = None THEN Default[s] ELSE merged.settings[s]
        BY <1>5
    <2>3. /\ Gives(Layers(launch)[1], s) <=> launch.cli.settings[s] # None
          /\ Gives(Layers(launch)[2], s) <=> launch.env.settings[s] # None
          /\ Gives(Layers(launch)[3], s) <=>
                launch.file # None /\ launch.file.settings[s] # None
        BY <2>1 DEF Gives, Layers
    <2>4. CASE Gives(Layers(launch)[1], s)
        BY <1>6, <2>2, <2>3, <2>4 DEF SettingIsStrongest, Layers
    <2>5. CASE ~Gives(Layers(launch)[1], s) /\ Gives(Layers(launch)[2], s)
        BY <1>6, <2>2, <2>3, <2>5 DEF SettingIsStrongest, Layers
    <2>6. CASE /\ ~Gives(Layers(launch)[1], s) /\ ~Gives(Layers(launch)[2], s)
               /\ Gives(Layers(launch)[3], s)
        BY <1>6, <2>2, <2>3, <2>6 DEF SettingIsStrongest, Layers
    <2>7. CASE \A k \in 1 .. 3 : ~Gives(Layers(launch)[k], s)
        BY <1>5, <1>6, <2>2, <2>3, <2>7 DEF SettingIsStrongest, Layers
    <2> QED BY <2>4, <2>5, <2>6, <2>7
<1>9. RegionsAreStrongest(config, launch)
    <2>1. \A uri \in launch.cli.uris : /\ UriString(uri) \in DOMAIN cli.apis
                                       /\ cli.apis[UriString(uri)] = uri
        BY <1>2, CliResult
    <2>2. DOMAIN cli.apis = CliNames(launch)
        BY <1>2, CliResult DEF CliNames
    <2> HIDE DEF merged, config, cli
    <2> QED BY <1>5, <1>6, <2>1, <2>2 DEF RegionsAreStrongest, CliNames
<1> QED BY <1>5, <1>7, <1>8, <1>9

----------------------------------------------------------------------------
(* The accounts.                                                           *)

\* The password that a handler has read is one the user has had since.
SnapshotsHeld ==
    \A h \in Handlers : handlers[h] # Idle =>
        handlers[h].password \in handlers[h].since

AccountsInv == TypeOK /\ OwnersCanLogIn /\ SnapshotsHeld

\* What the invariant says of a handler that is not idle.
LEMMA Reading ==
    ASSUME AccountsInv, NEW h \in Handlers, handlers[h].at # "idle"
    PROVE  /\ handlers[h] # Idle
           /\ handlers[h] \in Reads
           /\ handlers[h].user \in Users
           /\ rows[handlers[h].user] \in Rows
           /\ rows[handlers[h].user] # NoRow
           /\ Serving
           /\ Key \in Keys
           /\ handlers[h].password \in handlers[h].since
<1>1. handlers[h] # Idle
    BY DEF Idle
<1>2. handlers[h] \in Reads /\ handlers[h].user \in Users
    BY <1>1 DEF AccountsInv, TypeOK, Reads
<1>3. Serving /\ Present(handlers[h].user)
    BY <1>1 DEF AccountsInv, TypeOK
<1>4. rows[handlers[h].user] \in Rows /\ rows[handlers[h].user] # NoRow
    BY <1>2, <1>3 DEF AccountsInv, TypeOK, Present
<1>5. Key \in Keys
    BY <1>3 DEF AccountsInv, TypeOK, Serving, Down
<1> QED BY <1>1, <1>2, <1>3, <1>4, <1>5 DEF AccountsInv, SnapshotsHeld

\* Making a handler idle and leaving the others keeps what is known of handlers.
LEMMA FinishKeeps ==
    ASSUME AccountsInv, NEW h \in Handlers, Finish(h), UNCHANGED proxy,
           \A u \in Users : Present(u) => rows'[u] # NoRow
    PROVE  /\ handlers' \in [Handlers -> Reads \cup {Idle}]
           /\ \A g \in Handlers : handlers'[g] # Idle =>
                Serving' /\ rows'[handlers'[g].user] # NoRow
           /\ SnapshotsHeld'
    BY DEF AccountsInv, TypeOK, SnapshotsHeld, Finish, Serving, Present, Reads

\* A handler that reads the row of a present user knows what it may know.
LEMMA ReadKeeps ==
    ASSUME AccountsInv, NEW h \in Handlers, NEW u \in Users, Present(u), Serving,
           NEW stage \in {"found", "authenticated"},
           handlers' = [handlers EXCEPT ![h] = Read(stage, u)],
           UNCHANGED <<rows, tokens, proxy>>
    PROVE  AccountsInv'
<1>1. rows[u] \in Rows
    BY DEF AccountsInv, TypeOK, Present
<1>2. Read(stage, u) \in Reads /\ Read(stage, u).user = u
    BY <1>1 DEF Read, Reads, Rows
<1>3. Read(stage, u).password \in Read(stage, u).since
    BY DEF Read
<1>4. TypeOK'
    BY <1>2 DEF AccountsInv, TypeOK, Serving, Present, Key
<1>5. OwnersCanLogIn'
    BY DEF AccountsInv, OwnersCanLogIn, Present
<1>6. SnapshotsHeld'
    BY <1>3 DEF AccountsInv, TypeOK, SnapshotsHeld
<1> QED BY <1>4, <1>5, <1>6 DEF AccountsInv

\* A change of a field of a present row to a valid value keeps the rows right.
LEMMA RowKeeps ==
    ASSUME AccountsInv, NEW id \in Users, Present(id), NEW row \in Rows,
           row.email \in ValidEmails, row.password \in ValidPasswords,
           \A v \in Users \ {id} : Present(v) => rows[v].email # row.email,
           rows' = [rows EXCEPT ![id] = row]
    PROVE  /\ rows' \in [Users -> Rows \cup {NoRow}]
           /\ \A u \in Users : Present(u) => rows'[u] # NoRow
           /\ OwnersCanLogIn'
<1>1. row # NoRow
    BY DEF Rows, NoRow
<1>2. \A u \in Users : rows'[u] = IF u = id THEN row ELSE rows[u]
    BY DEF AccountsInv, TypeOK
<1>3. rows' \in [Users -> Rows \cup {NoRow}]
    BY DEF AccountsInv, TypeOK
<1> QED BY <1>1, <1>2, <1>3 DEF AccountsInv, OwnersCanLogIn, Present

LEMMA InitAccounts == Init => AccountsInv
    BY DEF Init, AccountsInv, TypeOK, OwnersCanLogIn, SnapshotsHeld, Present, NoRow

LEMMA StepStart == AccountsInv /\ start => AccountsInv'
    BY DEF AccountsInv, TypeOK, OwnersCanLogIn, SnapshotsHeld, Present, start,
           Serving, Down

LEMMA StepServe == AccountsInv /\ serve => AccountsInv'
<1> SUFFICES ASSUME AccountsInv, serve PROVE AccountsInv'
    OBVIOUS
<1>1. \A h \in Handlers : handlers[h] = Idle
    BY DEF AccountsInv, TypeOK, serve, Serving
<1>2. proxy.launch \in AllLaunches
    BY DEF AccountsInv, TypeOK, serve, Down
<1>3. \/ proxy' = Down
      \/ /\ proxy'.at = "serving"
         /\ proxy'.settings \in [Settings -> Values \cup {None}]
         /\ proxy'.settings["token"] \in Keys
    BY <1>2, ResolveCorrect DEF serve
<1> QED
    BY <1>1, <1>3 DEF serve, AccountsInv, TypeOK, OwnersCanLogIn, SnapshotsHeld,
       Present, Key

LEMMA StepStop == AccountsInv /\ stop => AccountsInv'
    BY DEF AccountsInv, TypeOK, OwnersCanLogIn, SnapshotsHeld, Present, stop

LEMMA StepInsert ==
    ASSUME AccountsInv, NEW u \in Users, insert_user(u)
    PROVE  AccountsInv'
<1>1. PICK username \in ValidUsernames, password \in ValidPasswords,
           email \in ValidEmails :
        /\ ~Taken(email)
        /\ rows' = [rows EXCEPT ![u] =
            [status |-> "live", username |-> username, password |-> password,
             email |-> email]]
    BY DEF insert_user, valid_user_input
<1> DEFINE row == [status |-> "live", username |-> username,
                   password |-> password, email |-> email]
<1>2. row \in Rows /\ row # NoRow
    BY DEF Rows, NoRow
<1>3. rows' \in [Users -> Rows \cup {NoRow}]
    BY <1>1, <1>2 DEF AccountsInv, TypeOK
<1>4. \A v \in Users : rows'[v] = IF v = u THEN row ELSE rows[v]
    BY <1>1 DEF AccountsInv, TypeOK
<1>5. OwnersCanLogIn'
    <2>1. \A v \in Users : Present(v) => rows[v].email # email
        BY <1>1 DEF Taken
    <2>2. row.email = email /\ row.password = password
        OBVIOUS
    <2> QED
        BY <1>2, <1>4, <2>1, <2>2 DEF AccountsInv, OwnersCanLogIn, Present
<1>6. TypeOK'
    BY <1>2, <1>3, <1>4 DEF insert_user, AccountsInv, TypeOK, Present, Reads,
       Serving, Key
<1> QED BY <1>5, <1>6 DEF AccountsInv, SnapshotsHeld, insert_user

LEMMA StepRead ==
    ASSUME AccountsInv, NEW h \in Handlers, get_user_password(h) \/ authenticate(h)
    PROVE  AccountsInv'
<1>1. CASE get_user_password(h)
    BY <1>1, ReadKeeps DEF get_user_password
<1>2. CASE authenticate(h)
    BY <1>2, ReadKeeps DEF authenticate
<1> QED BY <1>1, <1>2

\* A handler that ends and leaves rows, tokens and process alone.
LEMMA IdleKeeps ==
    ASSUME AccountsInv, NEW h \in Handlers, Finish(h), UNCHANGED <<rows, tokens, proxy>>
    PROVE  AccountsInv'
<1>1. /\ handlers' \in [Handlers -> Reads \cup {Idle}]
      /\ \A g \in Handlers : handlers'[g] # Idle =>
            Serving' /\ rows'[handlers'[g].user] # NoRow
      /\ SnapshotsHeld'
    BY FinishKeeps DEF Present
<1> QED
    BY <1>1 DEF AccountsInv, TypeOK, OwnersCanLogIn, Present, Key

LEMMA StepLogin ==
    ASSUME AccountsInv, NEW h \in Handlers, login(h)
    PROVE  AccountsInv'
<1>1. /\ handlers' \in [Handlers -> Reads \cup {Idle}]
      /\ \A g \in Handlers : handlers'[g] # Idle =>
            Serving' /\ rows'[handlers'[g].user] # NoRow
      /\ SnapshotsHeld'
    BY FinishKeeps DEF Present, login
<1>2. handlers[h].user \in Users /\ Key \in Keys
    BY Reading DEF login
<1>3. tokens' \subseteq Users \X Keys
    BY <1>2 DEF login, AccountsInv, TypeOK
<1> QED
    BY <1>1, <1>3 DEF login, AccountsInv, TypeOK, OwnersCanLogIn, Present, Key

\* A handler that ends with a change of a present row.
LEMMA WriteKeeps ==
    ASSUME AccountsInv, NEW h \in Handlers, NEW id \in Users, Present(id),
           NEW row \in Rows,
           row.email \in ValidEmails, row.password \in ValidPasswords,
           \A v \in Users \ {id} : Present(v) => rows[v].email # row.email,
           rows' = [rows EXCEPT ![id] = row], Finish(h), UNCHANGED <<tokens, proxy>>
    PROVE  AccountsInv'
<1>1. /\ rows' \in [Users -> Rows \cup {NoRow}]
      /\ \A u \in Users : Present(u) => rows'[u] # NoRow
      /\ OwnersCanLogIn'
    BY RowKeeps
<1>2. /\ handlers' \in [Handlers -> Reads \cup {Idle}]
      /\ \A g \in Handlers : handlers'[g] # Idle =>
            Serving' /\ rows'[handlers'[g].user] # NoRow
      /\ SnapshotsHeld'
    BY <1>1, FinishKeeps
<1> QED BY <1>1, <1>2 DEF AccountsInv, TypeOK, Present, Key

\* The row of the user of a handler satisfies the conditions on rows.
LEMMA OwnRow ==
    ASSUME AccountsInv, NEW h \in Handlers, handlers[h].at = "authenticated"
    PROVE  LET u == handlers[h].user
           IN  /\ u \in Users /\ Present(u) /\ rows[u] \in Rows
               /\ rows[u].email \in ValidEmails /\ rows[u].password \in ValidPasswords
               /\ \A v \in Users \ {u} : Present(v) => rows[v].email # rows[u].email
    BY Reading DEF AccountsInv, OwnersCanLogIn, Present

LEMMA StepUsername ==
    ASSUME AccountsInv, NEW h \in Handlers, rename_user(h)
    PROVE  AccountsInv'
<1>1. PICK id \in Users, username \in Usernames :
        IF id = handlers[h].user /\ username \in ValidUsernames
        THEN /\ rows' = IF rows[id].status = "live"
                        THEN [rows EXCEPT ![id].username = username] ELSE rows
             /\ answer' = Ok("username", id, username, None)
             /\ Finish(h)
        ELSE Refuse(h)
    BY DEF rename_user, update_user_username
<1>2. CASE rows' = rows
    BY <1>1, <1>2, IdleKeeps DEF Refuse, rename_user
<1>3. CASE rows' # rows
    <2>1. id = handlers[h].user /\ Finish(h)
        BY <1>1, <1>3 DEF Refuse
    <2> DEFINE row == [rows[id] EXCEPT !.username = username]
    <2>2. rows' = [rows EXCEPT ![id] = row]
        BY <1>1, <1>3 DEF Refuse
    <2>3. /\ rows[id] \in Rows /\ Present(id)
          /\ rows[id].email \in ValidEmails /\ rows[id].password \in ValidPasswords
          /\ \A v \in Users \ {id} : Present(v) => rows[v].email # rows[id].email
        BY <2>1, OwnRow DEF rename_user
    <2>4. row \in Rows /\ row.email = rows[id].email /\ row.password = rows[id].password
        BY <2>3 DEF Rows
    <2> HIDE DEF row
    <2>5. /\ row.email \in ValidEmails /\ row.password \in ValidPasswords
          /\ \A v \in Users \ {id} : Present(v) => rows[v].email # row.email
        BY <2>3, <2>4
    <2>6. UNCHANGED <<tokens, proxy>>
        BY DEF rename_user
    <2> QED BY <2>1, <2>2, <2>3, <2>4, <2>5, <2>6, WriteKeeps
<1> QED BY <1>2, <1>3

LEMMA StepEmail ==
    ASSUME AccountsInv, NEW h \in Handlers, change_user_email(h)
    PROVE  AccountsInv'
<1>1. PICK id \in Users, email \in Emails :
        IF /\ id = handlers[h].user
           /\ email \in ValidEmails
           /\ rows[id].status = "live" /\ Taken(email) => rows[id].email = email
        THEN /\ rows' = IF rows[id].status = "live"
                        THEN [rows EXCEPT ![id].email = email] ELSE rows
             /\ answer' = Ok("email", id, email, None)
             /\ Finish(h)
        ELSE Refuse(h)
    BY DEF change_user_email, update_user_email, Violates
<1>2. CASE rows' = rows
    BY <1>1, <1>2, IdleKeeps DEF Refuse, change_user_email
<1>3. CASE rows' # rows
    <2>1. /\ id = handlers[h].user /\ Finish(h) /\ email \in ValidEmails
          /\ Taken(email) => rows[id].email = email
        BY <1>1, <1>3 DEF Refuse
    <2> DEFINE row == [rows[id] EXCEPT !.email = email]
    <2>2. rows' = [rows EXCEPT ![id] = row]
        BY <1>1, <1>3 DEF Refuse
    <2>3. /\ rows[id] \in Rows /\ Present(id)
          /\ rows[id].password \in ValidPasswords
          /\ \A v \in Users \ {id} : Present(v) => rows[v].email # rows[id].email
        BY <2>1, OwnRow DEF change_user_email
    <2>4. row \in Rows /\ row.email = email /\ row.password = rows[id].password
        BY <2>3 DEF Rows
    <2>5. \A v \in Users \ {id} : Present(v) => rows[v].email # email
        BY <2>1, <2>3 DEF Taken
    <2> HIDE DEF row
    <2> QED BY <2>1, <2>2, <2>3, <2>4, <2>5, WriteKeeps DEF change_user_email
<1> QED BY <1>2, <1>3

LEMMA StepPassword ==
    ASSUME AccountsInv, NEW h \in Handlers, change_user_password(h)
    PROVE  AccountsInv'
<1>1. PICK id \in Users, old \in Passwords, new \in Passwords, confirm \in Passwords :
        IF /\ id = handlers[h].user
           /\ old \in ValidPasswords /\ old = handlers[h].password
           /\ new \in ValidPasswords /\ new = confirm
        THEN /\ rows' = [rows EXCEPT ![id].password = new]
             /\ answer' = Ok("password", id, new, old)
             /\ FinishAndTell(h, id, new)
        ELSE Refuse(h)
    BY DEF change_user_password, update_user_password
<1>2. CASE Refuse(h)
    BY <1>2, IdleKeeps DEF Refuse, change_user_password
<1>3. CASE ~Refuse(h)
    <2>1. /\ id = handlers[h].user /\ new \in ValidPasswords
          /\ FinishAndTell(h, id, new)
        BY <1>1, <1>3
    <2> DEFINE row == [rows[id] EXCEPT !.password = new]
    <2>2. rows' = [rows EXCEPT ![id] = row]
        BY <1>1, <1>3
    <2>3. /\ rows[id] \in Rows /\ Present(id)
          /\ rows[id].email \in ValidEmails
          /\ \A v \in Users \ {id} : Present(v) => rows[v].email # rows[id].email
        BY <2>1, OwnRow DEF change_user_password
    <2>4. row \in Rows /\ row.email = rows[id].email /\ row.password = new
        BY <2>3 DEF Rows
    <2>5. /\ rows' \in [Users -> Rows \cup {NoRow}]
          /\ \A u \in Users : Present(u) => rows'[u] # NoRow
          /\ OwnersCanLogIn'
        <3> HIDE DEF row
        <3> QED BY <2>1, <2>2, <2>3, <2>4, RowKeeps
    <2>6. ASSUME NEW g \in Handlers
          PROVE  /\ handlers'[g] \in Reads \cup {Idle}
                 /\ handlers'[g] # Idle =>
                        /\ handlers[g] # Idle
                        /\ handlers'[g].user = handlers[g].user
                        /\ handlers'[g].password = handlers[g].password
                        /\ handlers[g].since \subseteq handlers'[g].since
        <3>1. handlers'[g] = IF g = h THEN Idle
                ELSE IF handlers[g] # Idle /\ handlers[g].user = id
                THEN [handlers[g] EXCEPT !.since = @ \cup {new}]
                ELSE handlers[g]
            BY <2>1 DEF FinishAndTell
        <3>2. handlers[g] \in Reads \cup {Idle}
            BY DEF AccountsInv, TypeOK
        <3> QED BY <3>1, <3>2 DEF Reads
    <2>7. handlers' = [g \in Handlers |-> handlers'[g]]
        BY <2>1 DEF FinishAndTell
    <2>8. /\ handlers' \in [Handlers -> Reads \cup {Idle}]
          /\ \A g \in Handlers : handlers'[g] # Idle =>
                Serving' /\ rows'[handlers'[g].user] # NoRow
        BY <2>5, <2>6, <2>7 DEF AccountsInv, TypeOK, Reads, Serving, Present,
           change_user_password
    <2>9. SnapshotsHeld'
        BY <2>6 DEF AccountsInv, SnapshotsHeld
    <2> QED BY <2>5, <2>8, <2>9 DEF AccountsInv, TypeOK, Present, Key,
            change_user_password
<1> QED BY <1>2, <1>3

LEMMA StepDelete ==
    ASSUME AccountsInv, NEW h \in Handlers, delete_user(h)
    PROVE  AccountsInv'
<1>1. PICK id \in Users :
        IF id = handlers[h].user
        THEN /\ rows' = [rows EXCEPT ![id].status = "deleted"]
             /\ answer' = NoAnswer
             /\ Finish(h)
        ELSE Refuse(h)
    BY DEF delete_user
<1>2. CASE Refuse(h)
    BY <1>2, IdleKeeps DEF Refuse, delete_user
<1>3. CASE ~Refuse(h)
    <2>1. id = handlers[h].user /\ Finish(h)
        BY <1>1, <1>3
    <2> DEFINE row == [rows[id] EXCEPT !.status = "deleted"]
    <2>2. rows' = [rows EXCEPT ![id] = row]
        BY <1>1, <1>3
    <2>3. /\ rows[id] \in Rows /\ Present(id)
          /\ rows[id].email \in ValidEmails /\ rows[id].password \in ValidPasswords
          /\ \A v \in Users \ {id} : Present(v) => rows[v].email # rows[id].email
        BY <2>1, OwnRow DEF delete_user
    <2>4. row \in Rows /\ row.email = rows[id].email /\ row.password = rows[id].password
        BY <2>3 DEF Rows
    <2> HIDE DEF row
    <2>5. /\ row.email \in ValidEmails /\ row.password \in ValidPasswords
          /\ \A v \in Users \ {id} : Present(v) => rows[v].email # row.email
        BY <2>3, <2>4
    <2>6. UNCHANGED <<tokens, proxy>>
        BY DEF delete_user
    <2> QED BY <2>1, <2>2, <2>3, <2>4, <2>5, <2>6, WriteKeeps
<1> QED BY <1>2, <1>3

LEMMA NextAccounts == AccountsInv /\ [Next]_vars => AccountsInv'
<1> SUFFICES ASSUME AccountsInv, [Next]_vars PROVE AccountsInv'
    OBVIOUS
<1>1. CASE start \/ serve \/ stop
    BY <1>1, StepStart, StepServe, StepStop
<1>2. ASSUME NEW u \in Users, insert_user(u) PROVE AccountsInv'
    BY <1>2, StepInsert
<1>3. ASSUME NEW h \in Handlers, HandlerStep(h) PROVE AccountsInv'
    <2>1. CASE get_user_password(h) \/ authenticate(h) BY <2>1, StepRead
    <2>2. CASE login(h) BY <2>2, StepLogin
    <2>3. CASE rename_user(h) BY <2>3, StepUsername
    <2>4. CASE change_user_email(h) BY <2>4, StepEmail
    <2>5. CASE change_user_password(h) BY <2>5, StepPassword
    <2>6. CASE delete_user(h) BY <2>6, StepDelete
    <2>7. CASE give_up(h) BY <2>7, IdleKeeps DEF give_up, Refuse
    <2> QED BY <1>3, <2>1, <2>2, <2>3, <2>4, <2>5, <2>6, <2>7 DEF HandlerStep
<1>4. CASE UNCHANGED vars
    BY <1>4 DEF vars, AccountsInv, TypeOK, OwnersCanLogIn, SnapshotsHeld, Present,
       Serving, Key
<1> QED BY <1>1, <1>2, <1>3, <1>4 DEF Next

\* Types, requests under way only while a process serves; and an account that
\* can be used, whatever was changed by handlers that interleave.
THEOREM AccountsCorrect == Spec => [](TypeOK /\ OwnersCanLogIn)
<1>1. Init => AccountsInv
    BY InitAccounts
<1>2. AccountsInv /\ [Next]_vars => AccountsInv'
    BY NextAccounts
<1>3. AccountsInv => TypeOK /\ OwnersCanLogIn
    BY DEF AccountsInv
<1> QED BY <1>1, <1>2, <1>3, PTL DEF Spec

LEMMA InvariantAccounts == Spec => []AccountsInv
    BY InitAccounts, NextAccounts, PTL DEF Spec

----------------------------------------------------------------------------
(* What a step may do.                                                     *)

\* What the statements of a handler do to the rows, and when they answer Ok.
LEMMA Statements ==
    ASSUME AccountsInv, NEW h \in Handlers,
           \/ rename_user(h) \/ change_user_email(h)
           \/ change_user_password(h) \/ delete_user(h)
    PROVE  LET u == handlers[h].user
           IN  \/ rows' = rows /\ answer' = NoAnswer
               \/ /\ rows[u].status # "live"
                  /\ rows' = rows
                  /\ \E op \in {"username", "email"}, value \in Usernames \cup Emails :
                        answer' = Ok(op, u, value, None)
               \/ /\ rows[u].status = "live"
                  /\ \E username \in Usernames :
                        /\ rows' = [rows EXCEPT ![u].username = username]
                        /\ answer' = Ok("username", u, username, None)
               \/ /\ rows[u].status = "live"
                  /\ \E email \in Emails :
                        /\ Taken(email) => rows[u].email = email
                        /\ rows' = [rows EXCEPT ![u].email = email]
                        /\ answer' = Ok("email", u, email, None)
               \/ \E password \in Passwords :
                        /\ rows' = [rows EXCEPT ![u].password = password]
                        /\ answer' = Ok("password", u, password, handlers[h].password)
                        /\ handlers'[h] = Idle
               \/ /\ rows' = [rows EXCEPT ![u].status = "deleted"]
                  /\ answer' = NoAnswer
<1>1. CASE rename_user(h)
    BY <1>1 DEF rename_user, update_user_username, Refuse
<1>2. CASE change_user_email(h)
    BY <1>2 DEF change_user_email, update_user_email, Violates, Refuse
<1>3. CASE change_user_password(h)
    BY <1>3 DEF change_user_password, update_user_password, Refuse, FinishAndTell
<1>4. CASE delete_user(h)
    BY <1>4 DEF delete_user, Refuse
<1> QED BY <1>1, <1>2, <1>3, <1>4

\* The steps that are no statements of handlers leave the rows that there are.
LEMMA OtherSteps ==
    ASSUME AccountsInv, [Next]_vars,
           ~\E h \in Handlers :
                \/ rename_user(h) \/ change_user_email(h)
                \/ change_user_password(h) \/ delete_user(h)
    PROVE  /\ \A u \in Users : Present(u) => rows'[u] = rows[u]
           /\ \/ UNCHANGED vars
              \/ answer' = NoAnswer
              \/ \E h \in Handlers : login(h)
<1>1. CASE start \/ serve \/ stop
    BY <1>1 DEF start, serve, stop
<1>2. ASSUME NEW u \in Users, insert_user(u)
      PROVE  /\ \A v \in Users : Present(v) => rows'[v] = rows[v]
             /\ answer' = NoAnswer
    BY <1>2 DEF insert_user, AccountsInv, TypeOK
<1>3. ASSUME NEW h \in Handlers,
             \/ get_user_password(h) \/ login(h) \/ authenticate(h) \/ give_up(h)
      PROVE  rows' = rows /\ (answer' = NoAnswer \/ login(h))
    BY <1>3 DEF get_user_password, login, authenticate, give_up, Refuse
<1> QED BY <1>1, <1>2, <1>3 DEF Next, HandlerStep, vars

\* An Ok to a change is true, unless the user was deleted meanwhile.
THEOREM OkIsTrue == Spec => []OkIsDoneOrGone
<1>1. Init => OkIsDoneOrGone
    BY DEF Init, OkIsDoneOrGone, NoAnswer
<1>2. ASSUME AccountsInv, OkIsDoneOrGone, [Next]_vars PROVE OkIsDoneOrGone'
    <2>1. ASSUME NEW h \in Handlers,
                 \/ rename_user(h) \/ change_user_email(h)
                 \/ change_user_password(h) \/ delete_user(h)
          PROVE  OkIsDoneOrGone'
        <3> DEFINE u == handlers[h].user
        <3>1. u \in Users /\ rows[u] \in Rows /\ rows \in [Users -> Rows \cup {NoRow}]
            BY <1>2, <2>1, Reading DEF AccountsInv, TypeOK, rename_user,
               change_user_email, change_user_password, delete_user
        <3>2. CASE answer' = NoAnswer
            BY <3>2 DEF OkIsDoneOrGone, NoAnswer
        <3>3. ASSUME rows[u].status # "live", rows' = rows,
                     NEW op \in {"username", "email"},
                     NEW value \in Usernames \cup Emails,
                     answer' = Ok(op, u, value, None)
              PROVE  OkIsDoneOrGone'
            BY <3>1, <3>3 DEF OkIsDoneOrGone, Rows, Ok
        <3>4. ASSUME NEW username \in Usernames,
                     rows' = [rows EXCEPT ![u].username = username],
                     answer' = Ok("username", u, username, None)
              PROVE  OkIsDoneOrGone'
            BY <3>1, <3>4 DEF OkIsDoneOrGone, Rows, Ok
        <3>5. ASSUME NEW email \in Emails,
                     rows' = [rows EXCEPT ![u].email = email],
                     answer' = Ok("email", u, email, None)
              PROVE  OkIsDoneOrGone'
            BY <3>1, <3>5 DEF OkIsDoneOrGone, Rows, Ok
        <3>6. ASSUME NEW password \in Passwords,
                     rows' = [rows EXCEPT ![u].password = password],
                     answer' = Ok("password", u, password, handlers[h].password)
              PROVE  OkIsDoneOrGone'
            BY <3>1, <3>6 DEF OkIsDoneOrGone, Rows, Ok
        <3> QED
            BY <1>2, <2>1, <3>2, <3>3, <3>4, <3>5, <3>6, Statements
    <2>2. CASE ~\E h \in Handlers :
                    \/ rename_user(h) \/ change_user_email(h)
                    \/ change_user_password(h) \/ delete_user(h)
        <3>1. CASE UNCHANGED vars
            BY <1>2, <3>1 DEF vars, OkIsDoneOrGone
        <3>2. CASE answer' = NoAnswer \/ \E h \in Handlers : login(h)
            BY <3>2 DEF OkIsDoneOrGone, NoAnswer, login, Ok
        <3> QED BY <1>2, <2>2, <3>1, <3>2, OtherSteps
    <2> QED BY <2>1, <2>2
<1> QED BY <1>1, <1>2, InvariantAccounts, PTL DEF Spec

\* No token and no new password without a password that the user has had since
\* the request read it.
THEOREM CredentialsCount == Spec => OnlyHeldPasswordsCount
<1> DEFINE Step ==
        /\ answer'.op \in {"login", "password"} =>
                \E h \in Handlers :
                    /\ handlers[h] # Idle
                    /\ handlers'[h] = Idle
                    /\ handlers[h].user = answer'.user
                    /\ answer'.with \in handlers[h].since
        /\ tokens' # tokens =>
                answer'.op = "login" /\ tokens' = tokens \cup {<<answer'.user, Key>>}
        /\ \A u \in Users :
                Present(u) /\ rows'[u].password # rows[u].password =>
                    answer' = Ok("password", u, rows'[u].password, answer'.with)
<1>1. ASSUME AccountsInv, Next PROVE Step \/ UNCHANGED vars
    <2>1. ASSUME NEW h \in Handlers,
                 \/ rename_user(h) \/ change_user_email(h)
                 \/ change_user_password(h) \/ delete_user(h)
          PROVE  Step
        <3> DEFINE u == handlers[h].user
        <3>1. /\ u \in Users /\ rows[u] \in Rows /\ rows \in [Users -> Rows \cup {NoRow}]
              /\ handlers[h] # Idle /\ handlers[h].password \in handlers[h].since
              /\ tokens' = tokens
            BY <1>1, <2>1, Reading DEF AccountsInv, TypeOK, rename_user,
               change_user_email, change_user_password, delete_user
        <3>2. CASE rows' = rows /\ answer' = NoAnswer
            BY <3>1, <3>2 DEF NoAnswer
        <3>3. ASSUME rows' = rows, NEW op \in {"username", "email"},
                     NEW value \in Usernames \cup Emails,
                     answer' = Ok(op, u, value, None)
              PROVE  Step
            BY <3>1, <3>3 DEF Ok
        <3>4. ASSUME NEW username \in Usernames,
                     rows' = [rows EXCEPT ![u].username = username],
                     answer' = Ok("username", u, username, None)
              PROVE  Step
            BY <3>1, <3>4 DEF Rows, Ok
        <3>5. ASSUME NEW email \in Emails,
                     rows' = [rows EXCEPT ![u].email = email],
                     answer' = Ok("email", u, email, None)
              PROVE  Step
            BY <3>1, <3>5 DEF Rows, Ok
        <3>6. ASSUME NEW password \in Passwords, handlers'[h] = Idle,
                     rows' = [rows EXCEPT ![u].password = password],
                     answer' = Ok("password", u, password, handlers[h].password)
              PROVE  Step
            <4>1. \A v \in Users : rows'[v].password =
                    IF v = u THEN password ELSE rows[v].password
                BY <3>1, <3>6 DEF Rows
            <4> QED BY <3>1, <3>6, <4>1 DEF Ok
        <3>7. CASE rows' = [rows EXCEPT ![u].status = "deleted"] /\ answer' = NoAnswer
            BY <3>1, <3>7 DEF Rows, NoAnswer
        <3> HIDE DEF Step
        <3> QED
            BY <1>1, <2>1, <3>2, <3>3, <3>4, <3>5, <3>6, <3>7, Statements
    <2>2. ASSUME NEW h \in Handlers, login(h) PROVE Step
        BY <1>1, <2>2, Reading DEF login, Finish, Ok, NoAnswer, AccountsInv, TypeOK
    <2>3. CASE /\ ~\E h \in Handlers :
                    \/ rename_user(h) \/ change_user_email(h)
                    \/ change_user_password(h) \/ delete_user(h)
               /\ ~\E h \in Handlers : login(h)
        <3>1. CASE UNCHANGED vars
            BY <3>1
        <3>2. CASE answer' = NoAnswer
            <4>1. \A u \in Users : Present(u) => rows'[u] = rows[u]
                BY <1>1, <2>3, OtherSteps
            <4>2. tokens' = tokens
                BY <1>1, <2>3 DEF Next, HandlerStep, start, serve, stop, insert_user,
                   get_user_password, authenticate, give_up
            <4> QED BY <3>2, <4>1, <4>2 DEF NoAnswer
        <3> QED BY <1>1, <2>3, <3>1, <3>2, OtherSteps
    <2> QED BY <2>1, <2>2, <2>3
<1>2. AccountsInv /\ [Next]_vars => [Step]_vars
    BY <1>1 DEF vars
<1> QED BY <1>2, InvariantAccounts, PTL DEF Spec, OnlyHeldPasswordsCount

\* A deleted user stays as it is, and its address with it.
THEOREM DeletedStays == Spec => DeletedIsFinal
<1> DEFINE Step ==
        \A u \in Users : Present(u) /\ rows[u].status = "deleted" =>
            /\ rows'[u].status = "deleted"
            /\ rows'[u].username = rows[u].username
            /\ rows'[u].email = rows[u].email
            /\ \A v \in Users \ {u} : rows'[v] # NoRow => rows'[v].email # rows[u].email
            /\ rows'[u].password # rows[u].password =>
                \E h \in Handlers : handlers[h] # Idle /\ handlers[h].user = u
            /\ \A h \in Handlers : handlers'[h] # Idle /\ handlers'[h].user = u =>
                handlers[h] # Idle
<1>1. ASSUME AccountsInv, [Next]_vars, AccountsInv' PROVE Step
    <2> SUFFICES ASSUME NEW u \in Users, Present(u), rows[u].status = "deleted"
                 PROVE  /\ rows'[u].status = "deleted"
                        /\ rows'[u].username = rows[u].username
                        /\ rows'[u].email = rows[u].email
                        /\ rows'[u] # NoRow
                        /\ rows'[u].password # rows[u].password =>
                            \E h \in Handlers : handlers[h] # Idle /\ handlers[h].user = u
                        /\ \A h \in Handlers :
                            handlers'[h] # Idle /\ handlers'[h].user = u =>
                                handlers[h] # Idle
        BY <1>1 DEF AccountsInv, OwnersCanLogIn, Present
    <2>1. \A h \in Handlers : handlers'[h] # Idle /\ handlers'[h].user = u =>
            handlers[h] # Idle
        <3> SUFFICES ASSUME NEW h \in Handlers, handlers'[h] # Idle,
                            handlers'[h].user = u, handlers[h] = Idle
                     PROVE  FALSE
            OBVIOUS
        <3>1. \A g \in Handlers : handlers[g] \in Reads \cup {Idle}
            BY <1>1 DEF AccountsInv, TypeOK
        <3>2. ASSUME NEW g \in Handlers, get_user_password(g) \/ authenticate(g)
              PROVE  FALSE
            <4>1. PICK v \in Users, stage \in {"found", "authenticated"} :
                    /\ rows[v].status = "live"
                    /\ handlers' = [handlers EXCEPT ![g] = Read(stage, v)]
                BY <3>2 DEF get_user_password, authenticate
            <4>2. Read(stage, v).user = v
                BY DEF Read
            <4>3. h = g
                BY <1>1, <4>1 DEF AccountsInv, TypeOK
            <4>4. handlers'[h] = Read(stage, v)
                BY <1>1, <4>1, <4>3 DEF AccountsInv, TypeOK
            <4> QED BY <4>1, <4>2, <4>4
        <3>3. ASSUME NEW g \in Handlers, Finish(g) PROVE FALSE
            BY <1>1, <3>3 DEF Finish, AccountsInv, TypeOK
        <3>4. ASSUME NEW g \in Handlers, change_user_password(g) PROVE FALSE
            BY <3>3, <3>4 DEF change_user_password, FinishAndTell, Refuse
        <3>5. CASE start \/ serve \/ stop \/ UNCHANGED vars
            BY <3>5 DEF start, serve, stop, vars
        <3>6. CASE \E v \in Users : insert_user(v)
            BY <3>6 DEF insert_user
        <3> QED
            BY <1>1, <3>2, <3>3, <3>4, <3>5, <3>6 DEF Next, HandlerStep, login,
               rename_user, change_user_email, delete_user, give_up, Refuse
    <2>2. rows[u] \in Rows /\ rows[u] # NoRow /\ rows \in [Users -> Rows \cup {NoRow}]
        BY <1>1 DEF AccountsInv, TypeOK, Present
    <2>3. CASE ~\E h \in Handlers :
                    \/ rename_user(h) \/ change_user_email(h)
                    \/ change_user_password(h) \/ delete_user(h)
        BY <1>1, <2>1, <2>2, <2>3, OtherSteps DEF Present
    <2>4. ASSUME NEW h \in Handlers,
                 \/ rename_user(h) \/ change_user_email(h)
                 \/ change_user_password(h) \/ delete_user(h)
          PROVE  /\ rows'[u].status = "deleted"
                 /\ rows'[u].username = rows[u].username
                 /\ rows'[u].email = rows[u].email
                 /\ rows'[u].password # rows[u].password =>
                        handlers[h] # Idle /\ handlers[h].user = u
        <3> DEFINE w == handlers[h].user
        <3>1. handlers[h] # Idle /\ w \in Users /\ rows[w] \in Rows
            BY <1>1, <2>4, Reading DEF rename_user, change_user_email,
               change_user_password, delete_user
        <3>2. \/ rows' = rows
              \/ /\ rows[w].status = "live"
                 /\ \E row \in Rows : rows' = [rows EXCEPT ![w] = row]
              \/ \E password \in Passwords :
                    rows' = [rows EXCEPT ![w].password = password]
              \/ rows' = [rows EXCEPT ![w].status = "deleted"]
            <4>1. \A username \in Usernames :
                    [rows[w] EXCEPT !.username = username] \in Rows
                BY <3>1 DEF Rows
            <4>2. \A email \in Emails : [rows[w] EXCEPT !.email = email] \in Rows
                BY <3>1 DEF Rows
            <4> QED BY <1>1, <2>4, <4>1, <4>2, Statements
        <3>3. CASE rows' = rows
            BY <2>2, <3>3
        <3>4. ASSUME rows[w].status = "live", NEW row \in Rows,
                     rows' = [rows EXCEPT ![w] = row]
              PROVE  rows'[u] = rows[u]
            BY <2>2, <3>4
        <3>5. ASSUME NEW password \in Passwords,
                     rows' = [rows EXCEPT ![w].password = password]
              PROVE  /\ rows'[u].status = "deleted"
                     /\ rows'[u].username = rows[u].username
                     /\ rows'[u].email = rows[u].email
                     /\ rows'[u].password # rows[u].password => w = u
            BY <2>2, <3>1, <3>5 DEF Rows
        <3>6. ASSUME rows' = [rows EXCEPT ![w].status = "deleted"]
              PROVE  /\ rows'[u].status = "deleted"
                     /\ rows'[u].username = rows[u].username
                     /\ rows'[u].email = rows[u].email
                     /\ rows'[u].password = rows[u].password
            BY <2>2, <3>1, <3>6 DEF Rows
        <3> QED BY <3>1, <3>2, <3>3, <3>4, <3>5, <3>6
    <2>5. rows'[u].status = "deleted" => rows'[u] # NoRow
        BY DEF NoRow
    <2> QED BY <2>1, <2>3, <2>4, <2>5, <1>1, <2>2, OtherSteps
<1>2. Spec => []AccountsInv
    BY InvariantAccounts
<1> QED BY <1>1, <1>2, PTL DEF Spec, DeletedIsFinal

\* A process serves with what the strongest of its sources say.
THEOREM ServedIsStrongest == Spec => ServesStrongest
<1> DEFINE Step ==
        ~Serving /\ Serving' =>
            /\ \A s \in Settings : SettingIsStrongest(proxy', proxy.launch, s)
            /\ RegionsAreStrongest(proxy', proxy.launch)
            /\ DOMAIN proxy'.apis # {}
<1>1. ASSUME AccountsInv, [Next]_vars PROVE Step
    <2>1. CASE serve
        <3> SUFFICES ASSUME Serving'
                     PROVE  /\ \A s \in Settings :
                                SettingIsStrongest(proxy', proxy.launch, s)
                            /\ RegionsAreStrongest(proxy', proxy.launch)
                            /\ DOMAIN proxy'.apis # {}
            OBVIOUS
        <3> DEFINE config == Resolve(proxy.launch)
        <3>1. /\ config # None
              /\ proxy' = [at |-> "serving", settings |-> config.settings,
                           apis |-> config.apis]
            BY <2>1 DEF serve, Serving, Down
        <3>2. proxy.launch \in AllLaunches
            BY <1>1, <2>1 DEF AccountsInv, TypeOK, serve, Down
        <3>3. proxy'.settings = config.settings /\ proxy'.apis = config.apis
            BY <3>1
        <3>4. /\ \A s \in Settings : SettingIsStrongest(config, proxy.launch, s)
              /\ RegionsAreStrongest(config, proxy.launch)
              /\ DOMAIN config.apis # {}
            BY <3>1, <3>2, ResolveCorrect
        <3> HIDE DEF config
        <3> QED BY <3>3, <3>4 DEF SettingIsStrongest, RegionsAreStrongest
    <2>2. CASE start
        BY <2>2 DEF start, Serving
    <2>3. CASE stop
        BY <2>3 DEF stop, Serving
    <2>4. CASE UNCHANGED proxy
        BY <2>4 DEF Serving
    <2> QED
        BY <1>1, <2>1, <2>2, <2>3, <2>4 DEF Next, HandlerStep, vars, insert_user,
           get_user_password, login, authenticate, rename_user,
           change_user_email, change_user_password, delete_user, give_up
<1> QED BY <1>1, InvariantAccounts, PTL DEF Spec, ServesStrongest
==============================================================================
