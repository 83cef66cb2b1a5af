------------------------------ MODULE Sandboxes ------------------------------
(***************************************************************************)
(* The Sandbox Manager of qualification/deployment.py: the qa_deployments  *)
(* table and the Docker objects it is about.  A namespace is derived from  *)
(* the qualification run and UNIQUE in the table, so rows are indexed by   *)
(* namespace.  Threads (HTTP requests and qualification processes) run the *)
(* operations, each a series of docker commands and database statements,   *)
(* one per step; nothing locks a sandbox during an operation.              *)
(***************************************************************************)
EXTENDS Integers

CONSTANTS
    Threads,
    Namespaces,
    Ops,            \* the operations that are called
    Faults          \* subset of {"remove", "exit", "kill", "hang"}: what goes wrong

ASSUME SandboxesAssumption ==
    /\ Namespaces # {}
    /\ Ops \subseteq {"deploy", "destroy", "cleanup", "stop", "start", "reap", "reset"}
    /\ Faults \subseteq {"remove", "exit", "kill", "hang"}

VARIABLES
    status,     \* namespace -> the status column of its row
    kept,       \* namespace -> sandbox_type is PERSISTENT
    app,        \* namespace -> its application container
    db,         \* namespace -> its database container
    net,        \* namespace -> its network and volume exist
    call        \* thread -> its operation in progress

vars == <<status, kept, app, db, net, call>>

NoRow    == "NONE"
Statuses == {"DEPLOYING", "READY", "FAILED", "STOPPED", "DESTROYED"}

Containers == {"gone", "up", "stopped"}

Steps == {"idle", "insert", "network", "runDb", "runApp", "probe", "ready",
          "failed", "rmApp", "rmDb", "rmNet", "destroyed", "stopApp", "stopDb",
          "stopped", "startDb", "startApp", "reprobe", "startOk",
          "startFailed", "inspect", "orphan", "hung"}

\* todo: the sandboxes that reap_orphans has listed and not yet probed
Call == [op: {"none"} \cup Ops, pc: Steps, ns: Namespaces,
         todo: SUBSET Namespaces]

Idle == [op |-> "none", pc |-> "idle", ns |-> CHOOSE n \in Namespaces : TRUE,
         todo |-> {}]

TypeOK ==
    /\ status \in [Namespaces -> Statuses \cup {NoRow}]
    /\ kept \in [Namespaces -> BOOLEAN]
    /\ app \in [Namespaces -> Containers]
    /\ db \in [Namespaces -> Containers]
    /\ net \in [Namespaces -> BOOLEAN]
    /\ call \in [Threads -> Call]

Init ==
    /\ status = [n \in Namespaces |-> NoRow]
    /\ kept = [n \in Namespaces |-> FALSE]
    /\ app = [n \in Namespaces |-> "gone"]
    /\ db = [n \in Namespaces |-> "gone"]
    /\ net = [n \in Namespaces |-> FALSE]
    /\ call = [t \in Threads |-> Idle]

Exists(n) == status[n] # NoRow
Answers(n) == app[n] = "up" /\ db[n] = "up"

Ns(t) == call[t].ns
At(t, pc) == call[t].pc = pc
Goto(t, pc) == call' = [call EXCEPT ![t].pc = pc]
Return(t) == call' = [call EXCEPT ![t] = Idle]
Set(n, s) == status' = [status EXCEPT ![n] = s]

Begin(t, op, n, pc) ==
    /\ op \in Ops
    /\ At(t, "idle")
    /\ call' = [call EXCEPT ![t] = [Idle EXCEPT !.op = op, !.pc = pc, !.ns = n]]
    /\ UNCHANGED <<status, kept, app, db, net>>

----------------------------------------------------------------------------
\* deploy, called once per run by the process that qualifies an artifact.
Deploy(t, n) == Begin(t, "deploy", n, "insert")

\* INSERT ... 'DEPLOYING': the UNIQUE namespace raises if it has a row.
Insert(t) ==
    /\ At(t, "insert")
    /\ IF Exists(Ns(t))
       THEN Return(t) /\ UNCHANGED <<status, kept>>
       ELSE /\ Goto(t, "network")
            /\ Set(Ns(t), "DEPLOYING")
            /\ kept' = [kept EXCEPT ![Ns(t)] = FALSE]
    /\ UNCHANGED <<app, db, net>>

\* mutant: the failure leaves deploy without its except clause
FailsUncaught(t, pc) ==
    /\ At(t, pc)
    /\ Return(t)
    /\ UNCHANGED <<status, kept, app, db, net>>

\* Any command of the try block may fail: its except clause is next.
Fails(t, pc) ==
    /\ At(t, pc)
    /\ Goto(t, "failed")
    /\ UNCHANGED <<status, kept, app, db, net>>

\* The package is inspected and loaded, its network and volume created.
CreateNetwork(t) ==
    /\ At(t, "network")
    /\ ~net[Ns(t)]
    /\ net' = [net EXCEPT ![Ns(t)] = TRUE]
    /\ Goto(t, "runDb")
    /\ UNCHANGED <<status, kept, app, db>>

\* docker run needs the network and a free container name.
RunDb(t) ==
    /\ At(t, "runDb")
    /\ net[Ns(t)] /\ db[Ns(t)] = "gone"
    /\ db' = [db EXCEPT ![Ns(t)] = "up"]
    /\ Goto(t, "runApp")
    /\ UNCHANGED <<status, kept, app, net>>

RunApp(t) ==
    /\ At(t, "runApp")
    /\ net[Ns(t)] /\ app[Ns(t)] = "gone"
    /\ app' = [app EXCEPT ![Ns(t)] = "up"]
    /\ Goto(t, "probe")
    /\ UNCHANGED <<status, kept, db, net>>

\* The application answers /api/system/ready.
Probe(t) ==
    /\ At(t, "probe")
    /\ Answers(Ns(t))
    /\ Goto(t, "ready")
    /\ UNCHANGED <<status, kept, app, db, net>>

MarkReady(t) ==
    /\ At(t, "ready")
    /\ Set(Ns(t), "READY")
    /\ Return(t)
    /\ UNCHANGED <<kept, app, db, net>>

\* except: the row is FAILED, then everything is removed.
MarkFailed(t) ==
    /\ At(t, "failed")
    /\ Set(Ns(t), "FAILED")
    /\ Goto(t, "rmApp")
    /\ UNCHANGED <<kept, app, db, net>>

----------------------------------------------------------------------------
\* destroy by POST /sandboxes/<id>/destroy, and as the first half of reset
Destroy(t, n) == Exists(n) /\ Begin(t, "destroy", n, "rmApp")
Reset(t, n)   == Exists(n) /\ Begin(t, "reset", n, "rmApp")

\* destroy by the finally clause of the process that deployed the sandbox, so
\* after its deploy.
Cleanup(t, n) ==
    /\ Exists(n)
    /\ \A u \in Threads : call[u].op = "deploy" => Ns(u) # n
    /\ Begin(t, "cleanup", n, "rmApp")

\* mutant: no docker rm -f is run for the database container
RemoveAppAlone(t) ==
    /\ At(t, "rmApp")
    /\ app' = [app EXCEPT ![Ns(t)] = "gone"]
    /\ Goto(t, "rmNet")
    /\ UNCHANGED <<status, kept, db, net>>

\* docker rm -f: it may fail, and nobody looks at its result.
RemoveApp(t) ==
    /\ At(t, "rmApp")
    /\ \/ app' = [app EXCEPT ![Ns(t)] = "gone"]
       \/ UNCHANGED app
    /\ Goto(t, "rmDb")
    /\ UNCHANGED <<status, kept, db, net>>

RemoveDb(t) ==
    /\ At(t, "rmDb")
    /\ \/ db' = [db EXCEPT ![Ns(t)] = "gone"]
       \/ UNCHANGED db
    /\ Goto(t, "rmNet")
    /\ UNCHANGED <<status, kept, app, net>>

\* docker network rm and volume rm fail while a container uses them, or otherwise.
RemoveNetwork(t) ==
    LET n == Ns(t) IN
    /\ At(t, "rmNet")
    /\ \/ app[n] = "gone" /\ db[n] = "gone" /\ net' = [net EXCEPT ![n] = FALSE]
       \/ UNCHANGED net
    /\ Goto(t, "destroyed")
    /\ UNCHANGED <<status, kept, app, db>>

\* UPDATE ... 'DESTROYED' WHERE namespace=? AND status!='FAILED'
MarkDestroyed(t) ==
    /\ At(t, "destroyed")
    /\ Set(Ns(t), IF status[Ns(t)] = "FAILED" THEN "FAILED" ELSE "DESTROYED")
    /\ IF call[t].op = "reset" THEN Goto(t, "insert") ELSE Return(t)
    /\ UNCHANGED <<kept, app, db, net>>

----------------------------------------------------------------------------
\* stop and start: of any sandbox that has a row, whatever its status.
Stop(t, n)  == Exists(n) /\ Begin(t, "stop", n, "stopApp")
Start(t, n) == Exists(n) /\ Begin(t, "start", n, "startDb")

Stopped(c) == IF c = "gone" THEN "gone" ELSE "stopped"

\* docker stop: it may fail, and nobody looks at its result.
StopApp(t) ==
    /\ At(t, "stopApp")
    /\ \/ app' = [app EXCEPT ![Ns(t)] = Stopped(@)]
       \/ UNCHANGED app
    /\ Goto(t, "stopDb")
    /\ UNCHANGED <<status, kept, db, net>>

StopDb(t) ==
    /\ At(t, "stopDb")
    /\ \/ db' = [db EXCEPT ![Ns(t)] = Stopped(@)]
       \/ UNCHANGED db
    /\ Goto(t, "stopped")
    /\ UNCHANGED <<status, kept, app, net>>

MarkStopped(t) ==
    /\ At(t, "stopped")
    /\ Set(Ns(t), "STOPPED")
    /\ Return(t)
    /\ UNCHANGED <<kept, app, db, net>>

\* docker start raises when the container is gone, or otherwise, and start with it.
StartDb(t) ==
    /\ At(t, "startDb")
    /\ \/ Return(t) /\ UNCHANGED db
       \/ /\ db[Ns(t)] # "gone"
          /\ db' = [db EXCEPT ![Ns(t)] = "up"]
          /\ Goto(t, "startApp")
    /\ UNCHANGED <<status, kept, app, net>>

StartApp(t) ==
    /\ At(t, "startApp")
    /\ \/ Return(t) /\ UNCHANGED app
       \/ /\ app[Ns(t)] # "gone"
          /\ app' = [app EXCEPT ![Ns(t)] = "up"]
          /\ Goto(t, "reprobe")
    /\ UNCHANGED <<status, kept, db, net>>

\* The probe succeeds, or has not when the time is up.
Reprobe(t) ==
    /\ At(t, "reprobe")
    /\ \/ Answers(Ns(t)) /\ Goto(t, "startOk")
       \/ Goto(t, "startFailed")
    /\ UNCHANGED <<status, kept, app, db, net>>

MarkStarted(t) ==
    /\ call[t].pc \in {"startOk", "startFailed"}
    /\ Set(Ns(t), IF At(t, "startOk") THEN "READY" ELSE "FAILED")
    /\ Return(t)
    /\ UNCHANGED <<kept, app, db, net>>

\* retain: one statement
Retain(t, n) ==
    /\ At(t, "idle")
    /\ Exists(n)
    /\ kept' = [kept EXCEPT ![n] = TRUE]
    /\ UNCHANGED <<status, app, db, net, call>>

----------------------------------------------------------------------------
\* mutant: a sandbox that is still deploying is not looked at
ReadyOrStopped == {n \in Namespaces : status[n] \in {"READY", "STOPPED"}}

\* list_sandboxes, without those reap_orphans passes over
Listed == {n \in Namespaces : status[n] \in {"DEPLOYING", "READY", "STOPPED"}}

\* reap_orphans: the list is read once.
Reap(t) ==
    /\ "reap" \in Ops
    /\ At(t, "idle")
    /\ call' = [call EXCEPT ![t] =
                   [Idle EXCEPT !.op = "reap", !.pc = "inspect", !.todo = Listed]]
    /\ UNCHANGED <<status, kept, app, db, net>>

\* docker inspect of each application container listed: a container that is there
\* counts as gone, too, when the command fails otherwise.
Inspect(t) ==
    /\ At(t, "inspect")
    /\ \E n \in call[t].todo, pc \in {"inspect", "orphan"} :
          /\ app[n] = "gone" => pc = "orphan"
          /\ call' = [call EXCEPT ![t].todo = @ \ {n}, ![t].ns = n, ![t].pc = pc]
    /\ UNCHANGED <<status, kept, app, db, net>>

\* An orphan's row is DESTROYED, by id alone.
MarkOrphan(t) ==
    /\ At(t, "orphan")
    /\ Set(Ns(t), "DESTROYED")
    /\ Goto(t, "inspect")
    /\ UNCHANGED <<kept, app, db, net>>

ReapDone(t) ==
    /\ At(t, "inspect")
    /\ call[t].todo = {}
    /\ Return(t)
    /\ UNCHANGED <<status, kept, app, db, net>>

----------------------------------------------------------------------------
\* Containers are removed behind the manager's back, or the application exits.
Remove(n) ==
    /\ "remove" \in Faults
    /\ app[n] # "gone" \/ db[n] # "gone"
    /\ app' = [app EXCEPT ![n] = "gone"]
    /\ db' = [db EXCEPT ![n] = "gone"]
    /\ UNCHANGED <<status, kept, net, call>>

AppExits(n) ==
    /\ "exit" \in Faults
    /\ app[n] = "up"
    /\ app' = [app EXCEPT ![n] = "stopped"]
    /\ UNCHANGED <<status, kept, db, net, call>>

\* The process of an operation is killed between two steps.
Kill(t) ==
    /\ "kill" \in Faults
    /\ ~At(t, "idle")
    /\ Return(t)
    /\ UNCHANGED <<status, kept, app, db, net>>

\* The docker commands that are run without a timeout: pg_isready, logs, rm, network
\* and volume, stop and inspect.  They hang with the docker daemon.
Untimed == {"runApp", "probe", "failed", "rmApp", "rmDb", "rmNet", "stopApp", "stopDb",
            "inspect"}

Hang(t) ==
    /\ "hang" \in Faults
    /\ call[t].pc \in Untimed
    /\ Goto(t, "hung")
    /\ UNCHANGED <<status, kept, app, db, net>>

Work(t) ==
    \/ Insert(t)
    \/ CreateNetwork(t)
    \/ RunDb(t)
    \/ RunApp(t)
    \/ Probe(t)
    \/ MarkReady(t)
    \/ \E pc \in {"network", "runDb", "runApp", "probe"} : Fails(t, pc)
    \/ MarkFailed(t)
    \/ RemoveApp(t)
    \/ RemoveDb(t)
    \/ RemoveNetwork(t)
    \/ MarkDestroyed(t)
    \/ StopApp(t)
    \/ StopDb(t)
    \/ MarkStopped(t)
    \/ StartDb(t)
    \/ StartApp(t)
    \/ Reprobe(t)
    \/ MarkStarted(t)
    \/ Inspect(t)
    \/ MarkOrphan(t)
    \/ ReapDone(t)

Operate ==
    \E t \in Threads :
        \/ \E n \in Namespaces :
            \/ Deploy(t, n)
            \/ Destroy(t, n)
            \/ Cleanup(t, n)
            \/ Reset(t, n)
            \/ Stop(t, n)
            \/ Start(t, n)
            \/ Retain(t, n)
        \/ Reap(t)
        \/ Work(t)

Tamper == \E n \in Namespaces : Remove(n)
Exits  == \E n \in Namespaces : AppExits(n)
Killed == \E t \in Threads : Kill(t)
Hangs  == \E t \in Threads : Hang(t)

Next == Operate \/ Tamper \/ Exits \/ Killed \/ Hangs

Spec == Init /\ [][Next]_vars

\* An operation goes on: the loops and the commands of _run have timeouts, and a
\* command without one that never ends is Hang, after which there is no Work.
FairSpec == Spec /\ \A t \in Threads : WF_vars(Work(t))

----------------------------------------------------------------------------
\* No sandbox listed as usable lacks its application container.
NothingStale ==
    \A n \in Namespaces :
        status[n] \in {"DEPLOYING", "READY", "STOPPED"} => app[n] # "gone"
=============================================================================
