----------------------------- MODULE Containers -----------------------------
(***************************************************************************)
(* What the suites that handle containers see of Docker, PostgreSQL and    *)
(* the application, all external: the containers, networks and volumes of  *)
(* their namespaces, the databases, and who is connected to which network. *)
(* An operation is possible or not, and has one effect; that a command     *)
(* fails, with or without its effect, is up to its caller.                 *)
(***************************************************************************)
EXTENDS Naturals

VARIABLE docker

\* A namespace has applications, one database, one network and one volume.
Sites == {"release", "upgrade", "source", "restore", "compose"}

AppsOf(site) ==
    CASE site = "release" -> {"app"}
      [] site = "upgrade" -> {"old", "new"}
      [] site = "source" -> {"sourceApp"}
      [] site = "restore" -> {"restoreApp"}
      [] site = "compose" -> {"composeApp"}

Apps == UNION {AppsOf(s) : s \in Sites}
SiteOf(app) == CHOOSE s \in Sites : app \in AppsOf(s)

\* A database has a schema and so many rows: none, the fixture's, or more.
NoData == [schema |-> "none", rows |-> 0]
Blank == [schema |-> "blank", rows |-> 0]

NewDocker ==
    [app |-> [a \in Apps |-> IF a = "app" THEN "up" ELSE "absent"],
     db |-> [s \in Sites |-> IF s = "release" THEN "up" ELSE "absent"],
     data |-> [s \in Sites |-> IF s = "release" THEN [schema |-> "new", rows |-> 1] ELSE NoData],
     nets |-> {"release"},
     vols |-> {"release"},
     joined |-> {"release"},     \* the networks the QA center is connected to
     dump |-> NoData,            \* what pg_dump has written
     counts |-> 0]               \* the row counts taken before

\* The application answers, and does so to the QA center.
Serves(a) ==
    LET s == SiteOf(a)
    IN  /\ docker.app[a] = "up"
        /\ docker.db[s] = "up"
        /\ docker.data[s].schema \notin {"none", "blank"}
        /\ s \in docker.joined

\* The application migrates the database when it boots.
Booted(a, data) ==
    IF data.schema \in {"none", "mixed"} THEN data
    ELSE [data EXCEPT !.schema = IF a = "old" THEN "old" ELSE "new"]

\* pg_restore --clean replaces what the dump has, not what is there besides.
Restored(data) ==
    IF data.schema = "blank" THEN docker.dump
    ELSE [docker.dump EXCEPT !.schema = IF data.schema = @ THEN @ ELSE "mixed"]

Can(op, x) ==
    CASE op \in {"stop", "restart"} -> docker.app[x] \in {"up", "down", "paused"}
      [] op = "pause" -> docker.app[x] = "up"
      [] op = "start" -> docker.app[x] \in {"up", "down"}
      [] op = "unpause" -> docker.app[x] = "paused"
      [] op = "cut" -> docker.app[x] = "up"
      [] op = "reconnect" -> docker.app[x] = "cut"
      [] op = "run" -> docker.app[x] = "absent" /\ SiteOf(x) \in docker.nets
      [] op = "run_db" -> x \in docker.nets \cap docker.vols /\ docker.db[x] = "absent"
      [] op \in {"restart_db", "seed", "inspect_db"} -> docker.db[x] = "up"
      [] op \in {"dump", "drop"} ->
            /\ docker.db[x] = "up"
            /\ docker.data[x] # NoData
            /\ op = "drop" => \A a \in AppsOf(x) : docker.app[a] # "up"
      [] op = "create" -> docker.db[x] = "up" /\ docker.data[x] = NoData
      [] op = "restore" -> docker.db[x] = "up" /\ docker.data[x] # NoData
      [] op = "join" -> x \in docker.nets \ docker.joined
      [] op = "leave" -> x \in docker.joined
      [] op = "rm_net" ->
            /\ x \in docker.nets \ docker.joined
            /\ docker.db[x] = "absent"
            /\ \A a \in AppsOf(x) : docker.app[a] = "absent"
      [] op = "rm_vol" -> x \in docker.vols /\ docker.db[x] = "absent"
      [] op = "exec" -> docker.app[x] \in {"up", "cut"} /\ docker.db[SiteOf(x)] = "up"
      [] OTHER -> TRUE

\* Something of a namespace is there.
Present(s) == s \in docker.nets \/ s \in docker.vols \/ docker.db[s] # "absent"
                \/ \E a \in AppsOf(s) : docker.app[a] # "absent"

Deployed(s, joined) ==
    [docker EXCEPT !.nets = @ \cup {s}, !.vols = @ \cup {s}, !.db[s] = "up",
                   !.data[s] = [schema |-> "new", rows |-> 0],
                   !.app = [a \in Apps |-> IF a \in AppsOf(s) THEN "up" ELSE @[a]],
                   !.joined = IF joined THEN @ \cup {s} ELSE @]

\* docker compose down -v: a network that is still in use stays.
Removed(s) ==
    [docker EXCEPT !.nets = IF s \in docker.joined THEN @ ELSE @ \ {s}, !.vols = @ \ {s},
                   !.db[s] = "absent", !.data[s] = NoData,
                   !.app = [a \in Apps |-> IF a \in AppsOf(s) THEN "absent" ELSE @[a]]]

After(op, x) ==
    CASE op = "stop" -> [docker EXCEPT !.app[x] = "down"]
      [] op = "pause" -> [docker EXCEPT !.app[x] = "paused"]
      [] op \in {"unpause", "reconnect"} -> [docker EXCEPT !.app[x] = "up"]
      [] op = "cut" -> [docker EXCEPT !.app[x] = "cut"]
      [] op \in {"start", "restart", "run"} ->
            [docker EXCEPT !.app[x] = "up", !.data[SiteOf(x)] = Booted(x, @)]
      [] op = "rm" -> [docker EXCEPT !.app[x] = "absent"]
      [] op = "run_db" -> [docker EXCEPT !.db[x] = "up", !.data[x] = Blank]
      [] op = "rm_db" -> [docker EXCEPT !.db[x] = "absent"]
      [] op = "create_net" -> [docker EXCEPT !.nets = @ \cup {x}]
      [] op = "create_vol" -> [docker EXCEPT !.vols = @ \cup {x}]
      [] op = "rm_net" -> [docker EXCEPT !.nets = @ \ {x}]
      [] op = "rm_vol" -> [docker EXCEPT !.vols = @ \ {x}, !.data[x] = NoData]
      [] op = "join" -> [docker EXCEPT !.joined = @ \cup {x}]
      [] op = "leave" -> [docker EXCEPT !.joined = @ \ {x}]
      [] op = "seed" -> [docker EXCEPT !.data[x].rows = 1]
      [] op = "work" -> [docker EXCEPT !.data[x].rows = 2]
      [] op = "dump" -> [docker EXCEPT !.dump = docker.data[x]]
      [] op = "count" -> [docker EXCEPT !.counts = docker.data[x].rows]
      [] op = "drop" -> [docker EXCEPT !.data[x] = NoData]
      [] op = "create" -> [docker EXCEPT !.data[x] = Blank]
      [] op = "restore" -> [docker EXCEPT !.data[x] = Restored(@)]
      [] op = "deploy" -> Deployed(x, TRUE)
      [] op = "compose_up" -> Deployed(x, FALSE)
      [] op = "compose_down" -> Removed(x)
      [] op = "destroy" -> [Removed(x) EXCEPT !.nets = @ \ {x}, !.joined = @ \ {x}]
      [] op = "stop_db" -> [docker EXCEPT !.db[x] = "down"]
      [] OTHER -> docker           \* "restart_db", and what changes nothing here

=============================================================================
