----------------------------- MODULE ProxyConfig -----------------------------
(***************************************************************************)
(* How isok-proxy makes its configuration from a file, the environment and *)
(* the command line (src/isok-proxy/src/config.rs, main.rs).               *)
(*                                                                         *)
(* A source gives values to some of the settings and URIs to some regions. *)
(* The tokens of a region's API are read and never used, and left out.  A  *)
(* build with the feature env_config has no file and no command line: it   *)
(* is started as one with neither.                                         *)
(***************************************************************************)
EXTENDS Naturals

CONSTANTS
    Settings,       \* names of the settings: "db", "token", "address", ...
    Required,       \* those without a default
    Values,
    Default,        \* setting that is not required -> value, or None
    Regions,        \* names that files and environments give to regions, a URI's too
    Uris,
    None,           \* what is not given
    Unreadable      \* a source that cannot be opened or parsed

\* Display of Uri: the names of the regions of the command line.
UriString(uri) == <<"uri", uri>>

Apis == UNION {[names -> Uris] : names \in SUBSET Regions}

\* Files and environments, and command lines.
Sources == [settings: [Settings -> Values \cup {None}], apis: Apis \cup {None}]
Arguments == [settings: [Settings -> Values \cup {None}], uris: SUBSET Uris]

ASSUME ConfigAssumption ==
    /\ Required \subseteq Settings
    /\ None \notin Values
    /\ None \notin Sources \cup Arguments
    /\ Unreadable \notin Sources \cup Arguments \cup {None}
    /\ Default \in [Settings \ Required -> Values \cup {None}]

\* A launch of the program.  The file is optional.
AllLaunches ==
    [file: Sources \cup {None, Unreadable}, env: Sources \cup {Unreadable},
     cli: Arguments \cup {Unreadable}]

NoApis == [name \in {} |-> None]

\* Toml: a file has to name its APIs; their number may be zero.
from_file(file) ==
    IF file \notin {None, Unreadable} /\ file.apis = None THEN Unreadable
    ELSE file

from_env(env) ==
    IF env # Unreadable /\ env.apis = None THEN [env EXCEPT !.apis = NoApis]
    ELSE env

\* The APIs of the command line have no names: their URIs serve as such.
from_cli(cli) ==
    IF cli = Unreadable THEN cli
    ELSE [settings |-> cli.settings,
          apis |-> [name \in {UriString(uri) : uri \in cli.uris} |-> name[2]]]

merge_apis_config(a, b) ==
    [name \in DOMAIN a \cup DOMAIN b |->
        IF name \in DOMAIN b THEN b[name] ELSE a[name]]

\* MUTANT: the configuration that is merged in does not win.
merge_behind(a, b) ==
    [settings |-> [s \in Settings |->
        IF a.settings[s] # None THEN a.settings[s] ELSE b.settings[s]],
     apis |-> merge_apis_config(a.apis, b.apis)]

\* What b gives wins over what a gives.
merge(a, b) ==
    [settings |-> [s \in Settings |->
        IF b.settings[s] # None THEN b.settings[s] ELSE a.settings[s]],
     apis |-> merge_apis_config(a.apis, b.apis)]

\* The program exits when it has no API, or not what is required.
to_config(c) ==
    IF \/ DOMAIN c.apis = {}
       \/ \E s \in Required : c.settings[s] = None
    THEN None
    ELSE [c EXCEPT !.settings = [s \in Settings |->
            IF @[s] = None THEN Default[s] ELSE @[s]]]

\* main: None when the program exits.
Resolve(launch) ==
    LET file == from_file(launch.file)
        env == from_env(launch.env)
        cli == from_cli(launch.cli)
    IN  IF Unreadable \in {file, env, cli} THEN None
        ELSE IF launch.file = None THEN to_config(merge(env, cli))
        ELSE to_config(merge(merge(file, env), cli))
----------------------------------------------------------------------------
(* What a configuration should be, in terms of its sources.                *)

\* The sources of a launch, strongest first.
Layers(launch) == <<launch.cli, launch.env, launch.file>>

Gives(layer, s) == layer # None /\ layer.settings[s] # None

\* Setting s has the value of the strongest source that gives one, or its default.
SettingIsStrongest(config, launch, s) ==
    \/ \E k \in 1 .. 3 :
        /\ Gives(Layers(launch)[k], s)
        /\ \A j \in 1 .. k - 1 : ~Gives(Layers(launch)[j], s)
        /\ config.settings[s] = Layers(launch)[k].settings[s]
    \/ /\ \A k \in 1 .. 3 : ~Gives(Layers(launch)[k], s)
       /\ s \notin Required
       /\ config.settings[s] = Default[s]

Names(source) ==
    IF source = None \/ source.apis = None THEN {} ELSE DOMAIN source.apis

CliNames(launch) == {UriString(uri) : uri \in launch.cli.uris}

\* A region has the URI of the environment, or else of the file; the command line
\* adds regions that are named like their URIs, and changes none but one that the
\* other sources name like that, too.
RegionsAreStrongest(config, launch) ==
    /\ DOMAIN config.apis = Names(launch.file) \cup Names(launch.env) \cup CliNames(launch)
    /\ \A name \in Names(launch.env) \ CliNames(launch) :
        config.apis[name] = launch.env.apis[name]
    /\ \A name \in Names(launch.file) \ (Names(launch.env) \cup CliNames(launch)) :
        config.apis[name] = launch.file.apis[name]
    /\ \A uri \in launch.cli.uris : config.apis[UriString(uri)] = uri
==============================================================================
