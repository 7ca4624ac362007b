--------------------------- MODULE MCProxyAccounts ---------------------------
(* Small instances of ProxyAccounts.                                         *)
EXTENDS ProxyAccounts, TLC

HandlerSymmetry == Permutations(Handlers)

MCSettings == {"db", "token", "port", "hash_len"}
MCRequired == {"db", "token"}
MCValues == {"db", "key 1", "key 2", "no key", "8080", "80", "32"}
MCKeys == {"key 1", "key 2"}
MCDefault == "port" :> "8080" @@ "hash_len" :> None
EU == <<"region", "eu">>
MCUris == {"a", "b"}
LikeA == UriString("a")
MCRegions == {EU, LikeA}

Given(db, token, port, hash_len) ==
    "db" :> db @@ "token" :> token @@ "port" :> port @@ "hash_len" :> hash_len

\* A file with everything and a region that is named like a URI, one without a token
\* that gives a region, one without APIs, one that cannot be read, none.
MCFiles ==
    {[settings |-> Given("db", "key 1", "80", "32"), apis |-> EU :> "a" @@ LikeA :> "b"],
     [settings |-> Given("db", None, None, None), apis |-> EU :> "a"],
     [settings |-> Given("db", "key 1", None, None), apis |-> None],
     Unreadable, None}

MCEnvs ==
    {[settings |-> Given(None, None, None, None), apis |-> None],
     [settings |-> Given("db", "key 2", None, None), apis |-> EU :> "b"],
     Unreadable}

MCArguments ==
    {[settings |-> Given(None, None, None, None), uris |-> {}],
     [settings |-> Given(None, "key 1", None, None), uris |-> {"a"}],
     [settings |-> Given(None, "no key", "80", None), uris |-> {}],
     Unreadable}

MCLaunches == [file: MCFiles, env: MCEnvs, cli: MCArguments]
=============================================================================
