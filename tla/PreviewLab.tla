----------------------------- MODULE PreviewLab -----------------------------
(***************************************************************************)
(* The UI Preview Lab of engine/preview_manager.py, with the requests of   *)
(* agent.py that call it and the coverage run that reads it: the table     *)
(* preview_environments and the Docker objects of each environment.        *)
(* create, start, reset and coverage go on in a background thread after    *)
(* the request has answered; stop and delete run in the request.  Nothing  *)
(* locks an environment during an operation.                               *)
(***************************************************************************)
EXTENDS Integers

CONSTANTS
    Threads,
    Envs,           \* environments that may be created, each once
    Ports,          \* the range of host ports
    Presets

ASSUME PreviewLabAssumption == Ports \subseteq Nat \ {0} /\ Envs # {}

VARIABLES
    status,     \* env -> the status column of its row
    port,       \* env -> the port column
    preset,     \* env -> the preset column
    manifest,   \* env -> the preset manifest_json describes
    app,        \* env -> its application container
    db,         \* env -> its database container
    net,        \* env -> its network exists
    joined,     \* env -> the QA Center is connected to that network
    vol,        \* env -> its data volume exists
    data,       \* env -> the preset the runtime tables hold
    blamed,     \* environments a coverage run has recorded a bug about
    call        \* thread -> its operation in progress

rows  == <<status, port, preset, manifest>>
boxes == <<app, db, net, joined, vol, data>>
vars  == <<rows, boxes, blamed, call>>

NoRow    == "NONE"
NoData   == "none"
Statuses == {"CREATING", "SEEDING", "READY", "FAILED", "STOPPED", "STARTING",
             "DELETED"}

Containers == {"gone", "up", "stopped"}

Steps == {"idle", "insert", "network", "volume", "runDb", "join", "runApp",
          "seeding", "seed", "ready", "failed", "guard", "stopApp", "stopDb",
          "stopped", "starting", "startDb", "startApp", "started", "reseeding",
          "wipe", "rmApp", "rmDb", "leave", "rmNet", "rmVol", "deleted", "read",
          "checks"}

\* preset: what a create, a reset or a coverage run works with
Call == [op: {"none", "create", "stop", "start", "reset", "delete", "coverage"},
         pc: Steps, env: Envs, port: Ports \cup {0},
         preset: Presets \cup {NoData}]

Idle == [op |-> "none", pc |-> "idle", env |-> CHOOSE n \in Envs : TRUE,
         port |-> 0, preset |-> NoData]

TypeOK ==
    /\ status \in [Envs -> Statuses \cup {NoRow}]
    /\ port \in [Envs -> Ports \cup {0}]
    /\ preset \in [Envs -> Presets \cup {NoData}]
    /\ manifest \in [Envs -> Presets \cup {NoData}]
    /\ app \in [Envs -> Containers] /\ db \in [Envs -> Containers]
    /\ net \in [Envs -> BOOLEAN] /\ joined \in [Envs -> BOOLEAN]
    /\ vol \in [Envs -> BOOLEAN]
    /\ data \in [Envs -> Presets \cup {NoData}]
    /\ blamed \subseteq Envs
    /\ call \in [Threads -> Call]

All(v) == [n \in Envs |-> v]

Init ==
    /\ status = All(NoRow) /\ port = All(0)
    /\ preset = All(NoData) /\ manifest = All(NoData)
    /\ app = All("gone") /\ db = All("gone")
    /\ net = All(FALSE) /\ joined = All(FALSE) /\ vol = All(FALSE)
    /\ data = All(NoData)
    /\ blamed = {}
    /\ call = [t \in Threads |-> Idle]

Exists(n)   == status[n] # NoRow
Env(t)      == call[t].env
At(t, pc)   == call[t].pc = pc
Goto(t, pc) == call' = [call EXCEPT ![t].pc = pc]
Return(t)   == call' = [call EXCEPT ![t] = Idle]
Set(n, s)   == status' = [status EXCEPT ![n] = s]

\* Another running container publishes the port.
PortTaken(n) == \E m \in Envs \ {n} : app[m] = "up" /\ port[m] = port[n]

Answers(n) == app[n] = "up" /\ db[n] = "up" /\ joined[n]

Begin(t, op, n, pc, p) ==
    /\ At(t, "idle")
    /\ call' = [call EXCEPT ![t] =
                   [Idle EXCEPT !.op = op, !.pc = pc, !.env = n, !.preset = p]]
    /\ UNCHANGED <<rows, boxes, blamed>>

----------------------------------------------------------------------------

UsedPorts == {port[n] : n \in {m \in Envs : status[m] \notin {NoRow, "DELETED"}}}

\* begin_create: a fresh id, and the first port no live row has.
Create(t, n, p) ==
    /\ At(t, "idle")
    /\ ~Exists(n) /\ \A u \in Threads : Env(u) = n => At(u, "idle")
    /\ \E free \in Ports \ UsedPorts :
          /\ \A other \in Ports \ UsedPorts : free <= other
          /\ call' = [call EXCEPT ![t] = [op |-> "create", pc |-> "insert", env |-> n,
                                          port |-> free, preset |-> p]]
    /\ UNCHANGED <<rows, boxes, blamed>>

Insert(t) ==
    /\ At(t, "insert")
    /\ Set(Env(t), "CREATING")
    /\ port' = [port EXCEPT ![Env(t)] = call[t].port]
    /\ preset' = [preset EXCEPT ![Env(t)] = call[t].preset]
    /\ Goto(t, "network")
    /\ UNCHANGED <<manifest, boxes, blamed>>

\* mutant: the failure leaves the operation without its except clause
FailsUncaught(t, pc) ==
    /\ At(t, pc)
    /\ Return(t)
    /\ UNCHANGED <<rows, boxes, blamed>>

\* Any command of a try block may fail, and each wait runs out of time when
\* what it waits for is not there: the except clause is next.
Fails(t, pc) ==
    /\ At(t, pc)
    /\ Goto(t, "failed")
    /\ UNCHANGED <<rows, boxes, blamed>>

Tried == {"network", "volume", "runDb", "join", "runApp", "seeding", "seed",
          "startDb", "startApp", "wipe"}

MarkFailed(t) ==
    /\ At(t, "failed")
    /\ Set(Env(t), "FAILED")
    /\ Return(t)
    /\ UNCHANGED <<port, preset, manifest, boxes, blamed>>

CreateNetwork(t) ==
    /\ At(t, "network")
    /\ net' = [net EXCEPT ![Env(t)] = TRUE]
    /\ Goto(t, "volume")
    /\ UNCHANGED <<rows, app, db, joined, vol, data, blamed>>

CreateVolume(t) ==
    /\ At(t, "volume")
    /\ vol' = [vol EXCEPT ![Env(t)] = TRUE]
    /\ Goto(t, "runDb")
    /\ UNCHANGED <<rows, app, db, net, joined, data, blamed>>

RunDb(t) ==
    /\ At(t, "runDb")
    /\ net[Env(t)]
    /\ db' = [db EXCEPT ![Env(t)] = "up"]
    /\ Goto(t, "join")
    /\ UNCHANGED <<rows, app, net, joined, vol, data, blamed>>

\* The database accepts connections and the QA Center joins the network.
Join(t) ==
    /\ At(t, "join")
    /\ db[Env(t)] = "up" /\ net[Env(t)]
    /\ joined' = [joined EXCEPT ![Env(t)] = TRUE]
    /\ Goto(t, "runApp")
    /\ UNCHANGED <<rows, app, db, net, vol, data, blamed>>

\* docker run leaves a container it created and could not start, because its
\* port is published by another one, and fails.
RunApp(t) ==
    LET n == Env(t) IN
    /\ At(t, "runApp")
    /\ net[n]
    /\ app' = [app EXCEPT ![n] = IF PortTaken(n) THEN "stopped" ELSE "up"]
    /\ Goto(t, IF PortTaken(n) THEN "failed" ELSE "seeding")
    /\ UNCHANGED <<rows, db, net, joined, vol, data, blamed>>

\* The application is ready.
MarkSeeding(t) ==
    /\ At(t, "seeding")
    /\ Answers(Env(t))
    /\ Set(Env(t), "SEEDING")
    /\ Goto(t, "seed")
    /\ UNCHANGED <<port, preset, manifest, boxes, blamed>>

\* run_seed: one transaction.  Its names are unique, so it fails on a database
\* that is seeded already.
Seed(t) ==
    LET n == Env(t) IN
    /\ At(t, "seed")
    /\ db[n] = "up" /\ joined[n] /\ data[n] = NoData
    /\ data' = [data EXCEPT ![n] = call[t].preset]
    /\ Goto(t, "ready")
    /\ UNCHANGED <<rows, app, db, net, joined, vol, blamed>>

\* mutant: a reset keeps the manifest of the data it has wiped
MarkReadyOnce(t) ==
    /\ At(t, "ready")
    /\ Set(Env(t), "READY")
    /\ manifest' = [manifest EXCEPT ![Env(t)] =
                       IF call[t].op = "create" THEN call[t].preset ELSE @]
    /\ Return(t)
    /\ UNCHANGED <<port, preset, boxes, blamed>>

MarkReady(t) ==
    /\ At(t, "ready")
    /\ Set(Env(t), "READY")
    /\ manifest' = [manifest EXCEPT ![Env(t)] = call[t].preset]
    /\ Return(t)
    /\ UNCHANGED <<port, preset, boxes, blamed>>

----------------------------------------------------------------------------
Stop(t, n)   == Exists(n) /\ Begin(t, "stop", n, "guard", NoData)
Delete(t, n) == Exists(n) /\ Begin(t, "delete", n, "guard", NoData)

\* The request is refused unless the row is READY; the thread does not look
\* at the status again.
Reset(t, n, p) == status[n] = "READY" /\ Begin(t, "reset", n, "guard", p)

\* _guard_destructive reads the environment and labels of the application
\* container: without one, or when docker fails, it refuses, and the operation ends.
Guard(t) ==
    /\ At(t, "guard")
    /\ \/ Return(t)
       \/ /\ app[Env(t)] # "gone"
          /\ Goto(t, CASE call[t].op = "stop"   -> "stopApp"
                       [] call[t].op = "delete" -> "rmApp"
                       [] call[t].op = "reset"  -> "reseeding")
    /\ UNCHANGED <<rows, boxes, blamed>>

\* docker stop may fail, as it does without the container, and the operation ends
\* where it is.
StopApp(t) ==
    /\ At(t, "stopApp")
    /\ \/ Return(t) /\ UNCHANGED app
       \/ /\ app[Env(t)] # "gone"
          /\ app' = [app EXCEPT ![Env(t)] = "stopped"]
          /\ Goto(t, "stopDb")
    /\ UNCHANGED <<rows, db, net, joined, vol, data, blamed>>

StopDb(t) ==
    /\ At(t, "stopDb")
    /\ \/ Return(t) /\ UNCHANGED db
       \/ /\ db[Env(t)] # "gone"
          /\ db' = [db EXCEPT ![Env(t)] = "stopped"]
          /\ Goto(t, "stopped")
    /\ UNCHANGED <<rows, app, net, joined, vol, data, blamed>>

MarkStopped(t) ==
    /\ At(t, "stopped")
    /\ Set(Env(t), "STOPPED")
    /\ Return(t)
    /\ UNCHANGED <<port, preset, manifest, boxes, blamed>>

\* begin_start looks at no status, then the thread starts both containers.
Start(t, n) == Exists(n) /\ Begin(t, "start", n, "starting", NoData)

MarkStarting(t) ==
    /\ At(t, "starting")
    /\ Set(Env(t), "STARTING")
    /\ Goto(t, "startDb")
    /\ UNCHANGED <<port, preset, manifest, boxes, blamed>>

StartDb(t) ==
    /\ At(t, "startDb")
    /\ db[Env(t)] # "gone" /\ net[Env(t)]
    /\ db' = [db EXCEPT ![Env(t)] = "up"]
    /\ Goto(t, "startApp")
    /\ UNCHANGED <<rows, app, net, joined, vol, data, blamed>>

StartApp(t) ==
    LET n == Env(t) IN
    /\ At(t, "startApp")
    /\ app[n] # "gone" /\ net[n] /\ ~PortTaken(n)
    /\ app' = [app EXCEPT ![n] = "up"]
    /\ Goto(t, "started")
    /\ UNCHANGED <<rows, db, net, joined, vol, data, blamed>>

\* The application is ready, or has not been when the time is up.
MarkStarted(t) ==
    /\ At(t, "started")
    /\ \/ Answers(Env(t)) /\ Set(Env(t), "READY")
       \/ Set(Env(t), "FAILED")
    /\ Return(t)
    /\ UNCHANGED <<port, preset, manifest, boxes, blamed>>

----------------------------------------------------------------------------
\* mutant: the row keeps the preset it had
MarkReseedingOnly(t) ==
    /\ At(t, "reseeding")
    /\ Set(Env(t), "SEEDING")
    /\ Goto(t, "wipe")
    /\ UNCHANGED <<port, preset, manifest, boxes, blamed>>

\* reset_reseed: the row is SEEDING with the new preset, the tables are
\* truncated in one transaction and seeded in another.
MarkReseeding(t) ==
    /\ At(t, "reseeding")
    /\ Set(Env(t), "SEEDING")
    /\ preset' = [preset EXCEPT ![Env(t)] = call[t].preset]
    /\ Goto(t, "wipe")
    /\ UNCHANGED <<port, manifest, boxes, blamed>>

Wipe(t) ==
    LET n == Env(t) IN
    /\ At(t, "wipe")
    /\ db[n] = "up" /\ joined[n]
    /\ data' = [data EXCEPT ![n] = NoData]
    /\ Goto(t, "seed")
    /\ UNCHANGED <<rows, app, db, net, joined, vol, blamed>>

----------------------------------------------------------------------------
\* delete runs one command after the other.  Each may fail, and a DockerError is
\* passed over; the TimeoutExpired of one that does not end is not, and ends the
\* operation, whether that command had its effect or not.
PassOn(t, next) == Goto(t, next) \/ Return(t)

RemoveApp(t) ==
    /\ At(t, "rmApp")
    /\ UNCHANGED app \/ app' = [app EXCEPT ![Env(t)] = "gone"]
    /\ PassOn(t, "rmDb")
    /\ UNCHANGED <<rows, db, net, joined, vol, data, blamed>>

\* mutant: the QA Center does not leave the network
RemoveDbStays(t) ==
    /\ At(t, "rmDb")
    /\ UNCHANGED db \/ db' = [db EXCEPT ![Env(t)] = "gone"]
    /\ PassOn(t, "rmNet")
    /\ UNCHANGED <<rows, app, net, joined, vol, data, blamed>>

RemoveDb(t) ==
    /\ At(t, "rmDb")
    /\ UNCHANGED db \/ db' = [db EXCEPT ![Env(t)] = "gone"]
    /\ PassOn(t, "leave")
    /\ UNCHANGED <<rows, app, net, joined, vol, data, blamed>>

Leave(t) ==
    /\ At(t, "leave")
    /\ UNCHANGED joined \/ joined' = [joined EXCEPT ![Env(t)] = FALSE]
    /\ PassOn(t, "rmNet")
    /\ UNCHANGED <<rows, app, db, net, vol, data, blamed>>

\* docker network rm always fails while a running container is connected.
RemoveNetwork(t) ==
    LET n == Env(t) IN
    /\ At(t, "rmNet")
    /\ \/ UNCHANGED net
       \/ /\ ~joined[n] /\ app[n] # "up" /\ db[n] # "up"
          /\ net' = [net EXCEPT ![n] = FALSE]
    /\ PassOn(t, "rmVol")
    /\ UNCHANGED <<rows, app, db, joined, vol, data, blamed>>

\* docker volume rm always fails while the database container exists.
RemoveVolume(t) ==
    LET n == Env(t) IN
    /\ At(t, "rmVol")
    /\ \/ UNCHANGED <<vol, data>>
       \/ /\ db[n] = "gone"
          /\ vol' = [vol EXCEPT ![n] = FALSE]
          /\ data' = [data EXCEPT ![n] = NoData]
    /\ PassOn(t, "deleted")
    /\ UNCHANGED <<rows, app, db, net, joined, blamed>>

MarkDeleted(t) ==
    /\ At(t, "deleted")
    /\ Set(Env(t), "DELETED")
    /\ Return(t)
    /\ UNCHANGED <<port, preset, manifest, boxes, blamed>>

----------------------------------------------------------------------------
\* A coverage run: the request and its thread both ask for READY, the thread
\* reads the manifest, and compares later what the application shows with it.
Coverage(t, n) == status[n] = "READY" /\ Begin(t, "coverage", n, "read", NoData)

ReadManifest(t) ==
    /\ At(t, "read")
    /\ IF status[Env(t)] = "READY"
       THEN call' = [call EXCEPT ![t].pc = "checks", ![t].preset = manifest[Env(t)]]
       ELSE Return(t)
    /\ UNCHANGED <<rows, boxes, blamed>>

\* Data that is not what the manifest says is a bug of the product to it; an
\* application that does not answer raises.
Checks(t) ==
    LET n == Env(t) IN
    /\ At(t, "checks")
    /\ blamed' = IF Answers(n) /\ data[n] # call[t].preset THEN blamed \cup {n}
                 ELSE blamed
    /\ Return(t)
    /\ UNCHANGED <<rows, boxes>>

\* The QA Center is restarted: its threads are gone.
Restart ==
    /\ call # [t \in Threads |-> Idle]
    /\ call' = [t \in Threads |-> Idle]
    /\ UNCHANGED <<rows, boxes, blamed>>

----------------------------------------------------------------------------
Work(t) ==
    \/ Insert(t)
    \/ CreateNetwork(t)
    \/ CreateVolume(t)
    \/ RunDb(t)
    \/ Join(t)
    \/ RunApp(t)
    \/ MarkSeeding(t)
    \/ Seed(t)
    \/ MarkReady(t)
    \/ \E pc \in Tried : Fails(t, pc)
    \/ MarkFailed(t)
    \/ Guard(t)
    \/ StopApp(t)
    \/ StopDb(t)
    \/ MarkStopped(t)
    \/ MarkStarting(t)
    \/ StartDb(t)
    \/ StartApp(t)
    \/ MarkStarted(t)
    \/ MarkReseeding(t)
    \/ Wipe(t)
    \/ RemoveApp(t)
    \/ RemoveDb(t)
    \/ Leave(t)
    \/ RemoveNetwork(t)
    \/ RemoveVolume(t)
    \/ MarkDeleted(t)
    \/ ReadManifest(t)
    \/ Checks(t)

Operate ==
    \E t \in Threads :
        \/ \E n \in Envs :
            \/ \E p \in Presets : Create(t, n, p) \/ Reset(t, n, p)
            \/ Stop(t, n)
            \/ Start(t, n)
            \/ Delete(t, n)
            \/ Coverage(t, n)
        \/ Work(t)

Next == Operate \/ Restart

Spec == Init /\ [][Next]_vars

\* Every docker command and every wait has a timeout here, and the two transactions
\* of the seed meet no lock that is kept: an operation goes on.
FairSpec == Spec /\ \A t \in Threads : WF_vars(Work(t))
=============================================================================
