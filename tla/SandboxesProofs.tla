--------------------------- MODULE SandboxesProofs ---------------------------
(***************************************************************************)
(* Proofs of the safety properties of Sandboxes, for any number of threads *)
(* and sandboxes, any operations and any faults.  Nothing locks a sandbox; *)
(* what keeps its containers apart from its row is that the namespace is   *)
(* UNIQUE: one deploy gets past its INSERT, and no reset.                  *)
(***************************************************************************)
EXTENDS MCSandboxes, TLAPS

Creating == {"network", "runDb", "runApp", "probe", "ready"}
Removing == {"rmApp", "rmDb", "rmNet", "destroyed"}
Stopping == {"stopApp", "stopDb", "stopped"}
Starting == {"startDb", "startApp", "reprobe", "startOk", "startFailed"}

\* Where an operation can be.
PlacesOf(op) ==
    CASE op = "none"   -> {"idle"}
      [] op = "deploy" -> {"insert", "failed", "hung"} \cup Creating \cup Removing
      [] op = "reset"  -> {"insert", "hung"} \cup Removing
      [] op = "stop"   -> {"hung"} \cup Stopping
      [] op = "start"  -> Starting
      [] op = "reap"   -> {"inspect", "orphan", "hung"}
      [] OTHER         -> {"hung"} \cup Removing

\* An operation is where it can be, and works on a sandbox that has a row, except
\* for a deploy before its INSERT.
ThreadInv(t) ==
    /\ call[t].pc \in PlacesOf(call[t].op)
    /\ call[t].op \in {"deploy", "reset", "destroy", "cleanup", "stop", "start"} =>
          Exists(Ns(t)) \/ (call[t].op = "deploy" /\ At(t, "insert"))
    /\ \A n \in call[t].todo : Exists(n)
    /\ At(t, "orphan") => Exists(Ns(t))

\* The deploy that has inserted the row of n.
Deploying(t, n) == call[t].op = "deploy" /\ Ns(t) = n /\ ~At(t, "insert")

OneDeploys ==
    \A n \in Namespaces, t, u \in Threads : Deploying(t, n) /\ Deploying(u, n) => t = u

Creates(t, n) == Ns(t) = n /\ call[t].pc \in Creating
Removes(t, n) == Ns(t) = n /\ call[t].pc \in Removing

\* As long as nothing raced, a sandbox is not removed while it is created, what an
\* operation has removed is gone or spared, and so is what is DESTROYED.
SandboxInv(n) ==
    ~raced[n] =>
        /\ \A t, u \in Threads : ~(Creates(t, n) /\ Removes(u, n))
        /\ \A u \in Threads : Ns(u) = n =>
              /\ At(u, "rmDb") => AppDone(n)
              /\ call[u].pc \in {"rmNet", "destroyed"} => AppDone(n) /\ DbDone(n)
        /\ status[n] = "DESTROYED" =>
              /\ AppDone(n) /\ DbDone(n)
              /\ \A t \in Threads : ~Creates(t, n)

HistoryTyped ==
    /\ raced \in [Namespaces -> BOOLEAN]
    /\ spared \in [Namespaces -> SUBSET {"app", "db"}]
    /\ lost \in [Namespaces -> BOOLEAN]
    /\ alone \in BOOLEAN

\* A reap that is alone has found, or has still to look at, what has lost its application.
ReapInv ==
    alone => \E t \in Threads :
        /\ Busy = {t} /\ call[t].op = "reap"
        /\ \A n \in Listed : app[n] = "gone" => n \in call[t].todo \/ (At(t, "orphan") /\ Ns(t) = n)

IInv ==
    /\ TypeOK
    /\ HistoryTyped
    /\ \A t \in Threads : ThreadInv(t)
    /\ OneDeploys
    /\ \A n \in Namespaces : SandboxInv(n)
-----------------------------------------------------------------------------

\* What a step of t does to a sandbox: only a deploy past its INSERT brings containers
\* back, and a removal goes through its commands in order.
Effect(t, n) ==
    /\ Exists(n) => Exists(n)'
    /\ Deploying(t, n)' => Deploying(t, n) \/ ~Exists(n)
    /\ Creates(t, n)' => Creates(t, n) \/ ~Exists(n)
    /\ Removes(t, n)' =>
          \/ Removes(t, n) \/ Deploying(t, n)
          \/ call'[t].op \in {"destroy", "reset"}
          \/ \A u \in Threads : ~Deploying(u, n)
    /\ app[n] = "gone" => app'[n] = "gone" \/ Creates(t, n)
    /\ db[n] = "gone" => db'[n] = "gone" \/ Creates(t, n)
    /\ Ns(t)' = n /\ At(t, "rmDb")' => Ns(t) = n /\ At(t, "rmApp")
    /\ Ns(t)' = n /\ At(t, "rmNet")' => Ns(t) = n /\ At(t, "rmDb") /\ app'[n] = app[n]
    /\ Ns(t)' = n /\ At(t, "destroyed")' =>
          Ns(t) = n /\ At(t, "rmNet") /\ UNCHANGED <<app, db>>
    /\ status'[n] = "DESTROYED" =>
          \/ status[n] = "DESTROYED" 
          \/ Ns(t) = n /\ At(t, "destroyed") /\ UNCHANGED <<app, db>>
          \/ Ns(t) = n /\ At(t, "orphan")

Works(t) ==
    /\ TypeOK'
    /\ ThreadInv(t)'
    /\ \A u \in Threads \ {t} : call'[u] = call[u]
    /\ \A n \in Namespaces : Effect(t, n)

\* A thread without an operation.
LEMMA IdleIsCall == Idle \in Call /\ Idle.op = "none" /\ Idle.pc = "idle" /\ Idle.todo = {}
  BY SandboxesAssumption DEF Idle, Call, Steps

\* A thread that goes on with its operation.
LEMMA Going ==
    ASSUME TypeOK, NEW t \in Threads, NEW pc \in Steps, Goto(t, pc)
    PROVE  /\ call' \in [Threads -> Call]
           /\ At(t, pc)' /\ Ns(t)' = Ns(t)
           /\ call'[t].op = call[t].op /\ call'[t].todo = call[t].todo
           /\ \A u \in Threads \ {t} : call'[u] = call[u]
<1>1. call[t] \in Call /\ call' = [call EXCEPT ![t] = [call[t] EXCEPT !.pc = pc]]
  BY DEF TypeOK, Goto
<1> QED
  BY <1>1 DEF TypeOK, Call, At, Ns

\* A thread that returns.
LEMMA Returning ==
    ASSUME TypeOK, NEW t \in Threads, Return(t)
    PROVE  /\ call' \in [Threads -> Call]
           /\ At(t, "idle")' /\ call'[t].op = "none" /\ call'[t].todo = {}
           /\ \A u \in Threads \ {t} : call'[u] = call[u]
  BY IdleIsCall DEF TypeOK, Return, At

\* A reap that looks at the next sandbox of its list.
LEMMA Inspecting ==
    ASSUME TypeOK, NEW t \in Threads, Inspect(t)
    PROVE  /\ call' \in [Threads -> Call]
           /\ call'[t].op = call[t].op
           /\ Ns(t)' \in call[t].todo /\ call'[t].todo = call[t].todo \ {Ns(t)'}
           /\ call'[t].pc \in {"inspect", "orphan"}
           /\ app[Ns(t)'] = "gone" => At(t, "orphan")'
           /\ \A u \in Threads \ {t} : call'[u] = call[u]
<1>1. PICK n \in call[t].todo, pc \in {"inspect", "orphan"} :
         /\ app[n] = "gone" => pc = "orphan"
         /\ call' = [call EXCEPT ![t].todo = @ \ {n}, ![t].ns = n, ![t].pc = pc]
  BY DEF Inspect
<1>2. call[t] \in Call /\ n \in Namespaces /\ pc \in Steps
  BY DEF TypeOK, Call, Steps
<1>3. call' = [call EXCEPT ![t] = [call[t] EXCEPT !.todo = call[t].todo \ {n}, !.ns = n, !.pc = pc]]
  BY <1>1, <1>2 DEF TypeOK
<1> QED
  BY <1>1, <1>2, <1>3 DEF TypeOK, Call, Ns, At

LEMMA WorkTyped ==
    ASSUME TypeOK, NEW t \in Threads, Work(t)
    PROVE  TypeOK'
<1> USE DEF TypeOK, Set, Containers, Statuses, Steps, Stopped, NoRow, Ns, Call
<1>1. CASE CreateNetwork(t)
  BY <1>1, Going DEF CreateNetwork
<1>2. CASE RunDb(t)
  BY <1>2, Going DEF RunDb
<1>3. CASE RunApp(t)
  BY <1>3, Going DEF RunApp
<1>4. CASE Probe(t)
  BY <1>4, Going DEF Probe
<1>5. CASE MarkFailed(t)
  BY <1>5, Going DEF MarkFailed
<1>6. CASE RemoveApp(t)
  BY <1>6, Going DEF RemoveApp
<1>7. CASE RemoveDb(t)
  BY <1>7, Going DEF RemoveDb
<1>8. CASE RemoveNetwork(t)
  BY <1>8, Going DEF RemoveNetwork
<1>9. CASE StopApp(t)
  BY <1>9, Going DEF StopApp
<1>10. CASE StopDb(t)
  BY <1>10, Going DEF StopDb
<1>11. CASE Reprobe(t)
  BY <1>11, Going DEF Reprobe
<1>12. CASE MarkOrphan(t)
  BY <1>12, Going DEF MarkOrphan
<1>13. CASE MarkReady(t)
  BY <1>13, Returning DEF MarkReady
<1>14. CASE MarkStopped(t)
  BY <1>14, Returning DEF MarkStopped
<1>15. CASE MarkStarted(t)
  BY <1>15, Returning DEF MarkStarted
<1>16. CASE ReapDone(t)
  BY <1>16, Returning DEF ReapDone
<1>17. CASE Insert(t)
  BY <1>17, Going, Returning DEF Insert
<1>18. CASE MarkDestroyed(t)
  BY <1>18, Going, Returning DEF MarkDestroyed
<1>19. CASE StartDb(t)
  BY <1>19, Going, Returning DEF StartDb
<1>20. CASE StartApp(t)
  BY <1>20, Going, Returning DEF StartApp
<1>21. CASE \E pc \in {"network", "runDb", "runApp", "probe"} : Fails(t, pc)
  BY <1>21, Going DEF Fails
<1>22. CASE Inspect(t)
  BY <1>22, Inspecting DEF Inspect
<1> QED
  BY <1>1, <1>2, <1>3, <1>4, <1>5, <1>6, <1>7, <1>8, <1>9, <1>10, <1>11, <1>12, <1>13,
     <1>14, <1>15, <1>16, <1>17, <1>18, <1>19, <1>20, <1>21, <1>22 DEF Work

\* An operation keeps to its places, and to a sandbox with a row.
LEMMA WorkInPlace ==
    ASSUME TypeOK, NEW t \in Threads, ThreadInv(t), Work(t)
    PROVE  ThreadInv(t)' /\ \A u \in Threads \ {t} : call'[u] = call[u]
<1> USE DEF TypeOK, At, Set, Exists, Statuses, NoRow, Steps, ThreadInv, PlacesOf,
        Creating, Removing, Stopping, Starting
<1>1. CASE CreateNetwork(t)
  BY <1>1, Going DEF CreateNetwork
<1>2. CASE RunDb(t)
  BY <1>2, Going DEF RunDb
<1>3. CASE RunApp(t)
  BY <1>3, Going DEF RunApp
<1>4. CASE Probe(t)
  BY <1>4, Going DEF Probe
<1>5. CASE MarkFailed(t)
  BY <1>5, Going DEF MarkFailed
<1>6. CASE RemoveApp(t)
  BY <1>6, Going DEF RemoveApp
<1>7. CASE RemoveDb(t)
  BY <1>7, Going DEF RemoveDb
<1>8. CASE RemoveNetwork(t)
  BY <1>8, Going DEF RemoveNetwork
<1>9. CASE StopApp(t)
  BY <1>9, Going DEF StopApp
<1>10. CASE StopDb(t)
  BY <1>10, Going DEF StopDb
<1>11. CASE Reprobe(t)
  BY <1>11, Going DEF Reprobe
<1>12. CASE MarkOrphan(t)
  BY <1>12, Going DEF MarkOrphan
<1>13. CASE MarkReady(t)
  BY <1>13, Returning DEF MarkReady
<1>14. CASE MarkStopped(t)
  BY <1>14, Returning DEF MarkStopped
<1>15. CASE MarkStarted(t)
  BY <1>15, Returning DEF MarkStarted
<1>16. CASE ReapDone(t)
  BY <1>16, Returning DEF ReapDone
<1>17. CASE Insert(t)
  <2>1. CASE Exists(Ns(t))
    BY <1>17, <2>1, Returning DEF Insert
  <2>2. CASE ~Exists(Ns(t))
    <3>1. call[t].op = "deploy"
      BY <1>17, <2>2 DEF Insert, Call
    <3>2. Goto(t, "network") /\ status' = [status EXCEPT ![Ns(t)] = "DEPLOYING"]
      BY <1>17, <2>2 DEF Insert
    <3>3. Ns(t) \in Namespaces /\ call[t].todo \subseteq Namespaces
      BY DEF Call, Ns
    <3>4. Exists(Ns(t))' /\ \A n \in Namespaces : Exists(n) => Exists(n)'
      <4>1. Ns(t)' = Ns(t)
        BY <3>2, Going
      <4> QED
        BY <3>2, <3>3, <4>1
    <3> QED
      BY <3>1, <3>2, <3>3, <3>4, Going
  <2> QED
    BY <2>1, <2>2
<1>18. CASE MarkDestroyed(t)
  BY <1>18, Going, Returning DEF MarkDestroyed
<1>19. CASE StartDb(t)
  BY <1>19, Going, Returning DEF StartDb
<1>20. CASE StartApp(t)
  BY <1>20, Going, Returning DEF StartApp
<1>21. CASE \E pc \in {"network", "runDb", "runApp", "probe"} : Fails(t, pc)
  BY <1>21, Going DEF Fails
<1>22. CASE Inspect(t)
  BY <1>22, Inspecting DEF Inspect
<1> QED
  BY <1>1, <1>2, <1>3, <1>4, <1>5, <1>6, <1>7, <1>8, <1>9, <1>10, <1>11, <1>12, <1>13,
     <1>14, <1>15, <1>16, <1>17, <1>18, <1>19, <1>20, <1>21, <1>22 DEF Work

LEMMA WorkEffect ==
    ASSUME TypeOK, NEW t \in Threads, ThreadInv(t), Work(t), NEW n \in Namespaces
    PROVE  Effect(t, n)
<1> USE DEF TypeOK, At, Set, Exists, Statuses, NoRow, Steps, ThreadInv, PlacesOf,
        Effect, Deploying, Creates, Removes,
        Creating, Removing, Stopping, Starting, Stopped, Containers
<1>1. CASE CreateNetwork(t)
  BY <1>1, Going DEF CreateNetwork
<1>2. CASE RunDb(t)
  BY <1>2, Going DEF RunDb
<1>3. CASE RunApp(t)
  BY <1>3, Going DEF RunApp
<1>4. CASE Probe(t)
  BY <1>4, Going DEF Probe
<1>5. CASE MarkFailed(t)
  BY <1>5, Going DEF MarkFailed
<1>6. CASE RemoveApp(t)
  BY <1>6, Going DEF RemoveApp
<1>7. CASE RemoveDb(t)
  BY <1>7, Going DEF RemoveDb
<1>8. CASE RemoveNetwork(t)
  BY <1>8, Going DEF RemoveNetwork
<1>9. CASE StopApp(t)
  BY <1>9, Going DEF StopApp
<1>10. CASE StopDb(t)
  BY <1>10, Going DEF StopDb
<1>11. CASE Reprobe(t)
  BY <1>11, Going DEF Reprobe
<1>12. CASE MarkOrphan(t)
  BY <1>12, Going DEF MarkOrphan
<1>13. CASE MarkReady(t)
  BY <1>13, Returning DEF MarkReady
<1>14. CASE MarkStopped(t)
  BY <1>14, Returning DEF MarkStopped
<1>15. CASE MarkStarted(t)
  BY <1>15, Returning DEF MarkStarted
<1>16. CASE ReapDone(t)
  BY <1>16, Returning DEF ReapDone
<1>17. CASE Insert(t)
  BY <1>17, Going, Returning DEF Insert
<1>18. CASE MarkDestroyed(t)
  BY <1>18, Going, Returning DEF MarkDestroyed
<1>19. CASE StartDb(t)
  BY <1>19, Going, Returning DEF StartDb
<1>20. CASE StartApp(t)
  BY <1>20, Going, Returning DEF StartApp
<1>21. CASE \E pc \in {"network", "runDb", "runApp", "probe"} : Fails(t, pc)
  BY <1>21, Going DEF Fails
<1>22. CASE Inspect(t)
  BY <1>22, Inspecting DEF Inspect
<1> QED
  BY <1>1, <1>2, <1>3, <1>4, <1>5, <1>6, <1>7, <1>8, <1>9, <1>10, <1>11, <1>12, <1>13,
     <1>14, <1>15, <1>16, <1>17, <1>18, <1>19, <1>20, <1>21, <1>22 DEF Work

-----------------------------------------------------------------------------

\* An operation that is called.
LEMMA Beginning ==
    ASSUME TypeOK, NEW t \in Threads, NEW op \in Ops, NEW n \in Namespaces, NEW pc \in Steps,
           Begin(t, op, n, pc)
    PROVE  /\ call' \in [Threads -> Call]
           /\ At(t, pc)' /\ Ns(t)' = n /\ call'[t].op = op /\ call'[t].todo = {}
           /\ \A u \in Threads \ {t} : call'[u] = call[u]
<1> DEFINE new == [Idle EXCEPT !.op = op, !.pc = pc, !.ns = n]
<1>1. new \in Call /\ new.op = op /\ new.pc = pc /\ new.ns = n /\ new.todo = {}
  BY IdleIsCall DEF Call
<1>2. call' = [call EXCEPT ![t] = new]
  BY DEF Begin
<1> HIDE DEF new
<1> QED
  BY <1>1, <1>2 DEF TypeOK, At, Ns

LEMMA BeginWorks ==
    ASSUME TypeOK, NEW t \in Threads, NEW n \in Namespaces,
           \/ Deploy(t, n) \/ Destroy(t, n) \/ Cleanup(t, n) \/ Reset(t, n)
           \/ Stop(t, n) \/ Start(t, n)
    PROVE  Works(t)
<1>1. PICK op \in Ops, pc \in Steps :
         /\ Begin(t, op, n, pc)
         /\ \/ op = "deploy" /\ pc = "insert"
            \/ Exists(n) /\ op \in {"destroy", "reset"} /\ pc = "rmApp"
            \/ /\ Exists(n) /\ op = "cleanup" /\ pc = "rmApp"
               /\ \A u \in Threads : call[u].op = "deploy" => Ns(u) # n
            \/ Exists(n) /\ op = "stop" /\ pc = "stopApp"
            \/ Exists(n) /\ op = "start" /\ pc = "startDb"
  BY DEF Deploy, Destroy, Cleanup, Reset, Stop, Start, Begin, Steps
<1>2. /\ call' \in [Threads -> Call]
      /\ At(t, pc)' /\ Ns(t)' = n /\ call'[t].op = op /\ call'[t].todo = {}
      /\ \A u \in Threads \ {t} : call'[u] = call[u]
  BY <1>1, Beginning
<1>3. UNCHANGED <<status, kept, app, db, net>>
  BY <1>1 DEF Begin
<1>4. TypeOK'
  BY <1>2, <1>3 DEF TypeOK
<1>5. ThreadInv(t)'
  BY <1>1, <1>2, <1>3 DEF ThreadInv, PlacesOf, Removing, Stopping, Starting, At, Exists
<1>6. ASSUME NEW m \in Namespaces
      PROVE  Effect(t, m)
  BY <1>1, <1>2, <1>3 DEF Effect, Deploying, Creates, Removes, Creating, Removing, At,
     Exists
<1> QED
  BY <1>2, <1>4, <1>5, <1>6 DEF Works

\* The list of a reap are sandboxes with rows.
LEMMA Reaping ==
    ASSUME TypeOK, NEW t \in Threads, Reap(t)
    PROVE  /\ call' \in [Threads -> Call]
           /\ At(t, "inspect")' /\ call'[t].op = "reap" /\ call'[t].todo = Listed
           /\ \A u \in Threads \ {t} : call'[u] = call[u]
<1> DEFINE new == [Idle EXCEPT !.op = "reap", !.pc = "inspect", !.todo = Listed]
<1>1. Listed \subseteq Namespaces /\ "inspect" \in Steps /\ "reap" \in Ops
  BY DEF Listed, Steps, Reap
<1>2. new \in Call /\ new.op = "reap" /\ new.pc = "inspect" /\ new.todo = Listed
  BY <1>1, IdleIsCall DEF Call
<1>3. call' = [call EXCEPT ![t] = new]
  BY DEF Reap
<1> HIDE DEF new
<1> QED
  BY <1>2, <1>3 DEF TypeOK, At

LEMMA ReapWorks ==
    ASSUME TypeOK, NEW t \in Threads, Reap(t)
    PROVE  Works(t)
<1>1. UNCHANGED <<status, kept, app, db, net>>
  BY DEF Reap
<1>2. TypeOK'
  BY <1>1, Reaping DEF TypeOK
<1>3. ThreadInv(t)'
  BY <1>1, Reaping DEF ThreadInv, PlacesOf, At, Exists, Listed, NoRow
<1>4. ASSUME NEW n \in Namespaces
      PROVE  Effect(t, n)
  BY <1>1, Reaping DEF Effect, Deploying, Creates, Removes, Creating, Removing, At, Exists
<1> QED
  BY <1>2, <1>3, <1>4, Reaping DEF Works

LEMMA KillWorks ==
    ASSUME TypeOK, NEW t \in Threads, Kill(t)
    PROVE  Works(t)
<1>1. Return(t) /\ UNCHANGED <<status, kept, app, db, net>>
  BY DEF Kill
<1>2. TypeOK'
  BY <1>1, Returning DEF TypeOK
<1>3. ThreadInv(t)'
  BY <1>1, Returning DEF ThreadInv, PlacesOf, At
<1>4. ASSUME NEW n \in Namespaces
      PROVE  Effect(t, n)
  BY <1>1, Returning DEF Effect, Deploying, Creates, Removes, Creating, Removing, At, Exists
<1> QED
  BY <1>1, <1>2, <1>3, <1>4, Returning DEF Works

LEMMA HangWorks ==
    ASSUME TypeOK, NEW t \in Threads, ThreadInv(t), Hang(t)
    PROVE  Works(t)
<1>1. Goto(t, "hung") /\ UNCHANGED <<status, kept, app, db, net>>
  BY DEF Hang
<1>2. "hung" \in Steps
  BY DEF Steps
<1>3. TypeOK'
  BY <1>1, <1>2, Going DEF TypeOK
<1>4. call[t].pc \in Untimed /\ call[t].pc \in PlacesOf(call[t].op)
  BY DEF Hang, ThreadInv
<1>5. call[t].op \notin {"none", "start"}
  BY <1>4 DEF PlacesOf, Untimed, Starting
<1>6. ThreadInv(t)'
  BY <1>1, <1>2, <1>4, <1>5, Going DEF ThreadInv, PlacesOf, Untimed, At, Exists
<1>7. ASSUME NEW n \in Namespaces
      PROVE  Effect(t, n)
  BY <1>1, <1>2, <1>4, Going DEF Effect, Deploying, Creates, Removes, Creating, Removing,
     Untimed, At, Exists
<1> QED
  BY <1>1, <1>2, <1>3, <1>6, <1>7, Going DEF Works

\* Containers only go, and no thread has moved.
Loses ==
    /\ TypeOK'
    /\ UNCHANGED <<status, call>>
    /\ \A n \in Namespaces : /\ app[n] = "gone" => app'[n] = "gone"
                             /\ db[n] = "gone" => db'[n] = "gone"

LEMMA FaultLoses ==
    ASSUME TypeOK, NEW n \in Namespaces,
           Remove(n) \/ AppExits(n) \/ \E t \in Threads : Retain(t, n)
    PROVE  Loses
<1> USE DEF TypeOK, Loses, Containers
<1>1. CASE Remove(n)
  BY <1>1 DEF Remove
<1>2. CASE AppExits(n)
  BY <1>2 DEF AppExits
<1>3. CASE \E t \in Threads : Retain(t, n)
  BY <1>3 DEF Retain
<1> QED
  BY <1>1, <1>2, <1>3

-----------------------------------------------------------------------------

\* What MCNext remembers of races and of removals that fail.
Remembers ==
    /\ raced' = [n \in Namespaces |->
                    raced[n] \/ Races(n)' \/ \E t \in Threads : At(t, "orphan") /\ Ns(t) = n]
    /\ spared' = [n \in Namespaces |-> SparedNow(n)]

\* A sandbox that has not raced had not before, and what excludes a race holds of it.
LEMMA NotRaced ==
    ASSUME Remembers, NEW n \in Namespaces, ~raced'[n]
    PROVE  /\ ~raced[n] /\ ~Races(n)'
           /\ \A t \in Threads : ~(At(t, "orphan") /\ Ns(t) = n)
  BY DEF Remembers

\* What is gone or spared stays so until it is created, and docker rm -f makes it so.
LEMMA DoneStays ==
    ASSUME Remembers, NEW n \in Namespaces, ~raced'[n]
    PROVE  /\ AppDone(n) /\ (app[n] = "gone" => app'[n] = "gone") => AppDone(n)'
           /\ DbDone(n) /\ (db[n] = "gone" => db'[n] = "gone") => DbDone(n)'
           /\ RunsRmApp(n) => AppDone(n)'
           /\ RunsRmDb(n) => DbDone(n)'
<1>1. ~raced[n] /\ spared'[n] = SparedNow(n)
  BY NotRaced DEF Remembers
<1> QED
  BY <1>1 DEF SparedNow, AppDone, DbDone

LEMMA DeployingHasRow ==
    ASSUME NEW t, NEW n, ThreadInv(t), Deploying(t, n)
    PROVE  Exists(n)
  BY DEF ThreadInv, Deploying

LEMMA CreatesIsDeploying ==
    ASSUME TypeOK, NEW t \in Threads, NEW n, ThreadInv(t), Creates(t, n)
    PROVE  Deploying(t, n)
  BY SandboxesAssumption DEF ThreadInv, Creates, Deploying, PlacesOf, Creating,
     Removing, Stopping, Starting,
     At, TypeOK, Call

LEMMA RemovesHasRow ==
    ASSUME TypeOK, NEW t \in Threads, NEW n, ThreadInv(t), Removes(t, n)
    PROVE  Exists(n)
  BY SandboxesAssumption DEF ThreadInv, Removes, PlacesOf, Creating, Removing, Stopping,
     Starting, At, TypeOK, Call

\* A step of an operation keeps what is invariant, of every thread and sandbox.
LEMMA WorksKeeps ==
    ASSUME IInv, NEW t \in Threads, Works(t), Remembers, HistoryTyped'
    PROVE  IInv'
<1>1. TypeOK' /\ ThreadInv(t)' /\ (\A u \in Threads \ {t} : call'[u] = call[u])
      /\ \A n \in Namespaces : Effect(t, n)
  BY DEF Works
<1>2. TypeOK /\ OneDeploys /\ (\A u \in Threads : ThreadInv(u)) /\ \A n \in Namespaces : SandboxInv(n)
  BY DEF IInv
<1>3. \A n \in Namespaces : Exists(n) => Exists(n)'
  BY <1>1 DEF Effect
<1>4. ASSUME NEW u \in Threads
      PROVE  ThreadInv(u)'
  <2>1. CASE u # t
    <3>1. Ns(u) \in Namespaces /\ call[u].todo \subseteq Namespaces
      BY <1>2 DEF TypeOK, Call, Ns
    <3> QED
      BY <1>1, <1>2, <1>3, <2>1, <3>1 DEF ThreadInv, At, Ns
  <2> QED
    BY <1>1, <2>1
<1>5. ASSUME NEW n \in Namespaces, NEW u \in Threads \ {t}
      PROVE  /\ Deploying(u, n)' <=> Deploying(u, n)
             /\ Creates(u, n)' <=> Creates(u, n)
             /\ Removes(u, n)' <=> Removes(u, n)
             /\ Ns(u)' = Ns(u) /\ call'[u].pc = call[u].pc
  BY <1>1 DEF Deploying, Creates, Removes, At, Ns
<1>6. ASSUME NEW n \in Namespaces, NEW u \in Threads \ {t}, Deploying(t, n)', Deploying(u, n)'
      PROVE  FALSE
  <2>1. Deploying(u, n) /\ Exists(n)
    BY <1>2, <1>5, <1>6, DeployingHasRow
  <2>2. Deploying(t, n)
    BY <1>1, <1>6, <2>1 DEF Effect
  <2> QED
    BY <1>2, <2>1, <2>2 DEF OneDeploys
<1>7. OneDeploys'
  BY <1>2, <1>5, <1>6 DEF OneDeploys
<1>8. ASSUME NEW n \in Namespaces
      PROVE  SandboxInv(n)'
  <2> SUFFICES ASSUME ~raced'[n]
               PROVE  SandboxInv(n)'
    BY DEF SandboxInv
  <2>1. ~raced[n] /\ ~Races(n)' /\ \A u \in Threads : ~(At(u, "orphan") /\ Ns(u) = n)
    BY NotRaced
  <2>2. Effect(t, n) /\ SandboxInv(n)
    BY <1>1, <1>2
  <2>3. \A u, v \in Threads : ~(Creates(u, n) /\ Removes(v, n))
    BY <2>1, <2>2 DEF SandboxInv
  \* Nobody removes what another creates.
  <2>4. \A u \in Threads \ {t} : ~(Creates(t, n)' /\ Removes(u, n)')
    <3>1. ASSUME NEW u \in Threads \ {t}, Creates(t, n)', Removes(u, n)
          PROVE  FALSE
      <4>1. Exists(n)
        BY <1>2, <3>1, RemovesHasRow
      <4> QED
        BY <2>2, <2>3, <3>1, <4>1 DEF Effect
    <3> QED
      BY <1>5, <3>1
  <2>5. \A u \in Threads \ {t} : ~(Creates(u, n)' /\ Removes(t, n)')
    <3>1. ASSUME NEW u \in Threads \ {t}, Creates(u, n), Removes(t, n)'
          PROVE  FALSE
      <4>1. Deploying(u, n)
        BY <1>2, <3>1, CreatesIsDeploying
      <4>2. ~Deploying(t, n)
        BY <1>2, <4>1 DEF OneDeploys
      <4>3. call'[u].op = "deploy" /\ Ns(u)' = n
        BY <1>1, <1>5, <4>1 DEF Deploying
      <4>4. Ns(t)' = n
        BY <3>1 DEF Removes
      <4>5. call'[t].op \notin {"destroy", "reset"}
        BY <2>1, <4>3, <4>4 DEF Races
      <4> QED
        BY <2>2, <2>3, <3>1, <4>1, <4>2, <4>5 DEF Effect
    <3> QED
      BY <1>5, <3>1
  <2>6. ~(Creates(t, n)' /\ Removes(t, n)')
    BY DEF Creates, Removes, Creating, Removing
  <2>7. \A u, v \in Threads : ~(Creates(u, n)' /\ Removes(v, n)')
    BY <1>5, <2>3, <2>4, <2>5, <2>6
  <2>8. ASSUME NEW u \in Threads, Ns(u)' = n
        PROVE  /\ At(u, "rmDb")' => AppDone(n)'
               /\ call'[u].pc \in {"rmNet", "destroyed"} => AppDone(n)' /\ DbDone(n)'
    <3>1. CASE u = t
      <4>1. At(t, "rmDb")' => RunsRmApp(n)
        BY <2>2, <2>8, <3>1 DEF Effect, RunsRmApp
      <4>2. At(t, "rmNet")' => RunsRmDb(n) /\ AppDone(n) /\ app'[n] = app[n]
        BY <2>1, <2>2, <2>8, <3>1 DEF Effect, RunsRmDb, SandboxInv
      <4>3. At(t, "destroyed")' => AppDone(n) /\ DbDone(n) /\ UNCHANGED <<app, db>>
        BY <2>1, <2>2, <2>8, <3>1 DEF Effect, SandboxInv, At
      <4> QED
        BY <3>1, <4>1, <4>2, <4>3, DoneStays DEF At
    <3>2. CASE u # t /\ call'[u].pc \in {"rmDb", "rmNet", "destroyed"}
      <4>1. Removes(u, n) /\ ~Creates(t, n)
        BY <1>5, <2>3, <2>8, <3>2 DEF Removes, Removing
      <4>2. /\ app[n] = "gone" => app'[n] = "gone"
            /\ db[n] = "gone" => db'[n] = "gone"
        BY <2>2, <4>1 DEF Effect
      <4>3. /\ At(u, "rmDb")' => AppDone(n)
            /\ call'[u].pc \in {"rmNet", "destroyed"} => AppDone(n) /\ DbDone(n)
        BY <1>5, <2>1, <2>2, <2>8, <3>2 DEF SandboxInv, At
      <4> QED
        BY <4>2, <4>3, DoneStays
    <3> QED
      BY <3>1, <3>2 DEF At
  <2>9. ASSUME status'[n] = "DESTROYED"
        PROVE  AppDone(n)' /\ DbDone(n)' /\ \A u \in Threads : ~Creates(u, n)'
    <3>1. CASE status[n] = "DESTROYED"
      <4>1. Exists(n) /\ AppDone(n) /\ DbDone(n) /\ \A u \in Threads : ~Creates(u, n)
        BY <2>1, <2>2, <3>1 DEF SandboxInv, Exists, NoRow
      <4>2. \A u \in Threads : ~Creates(u, n)'
        BY <1>5, <2>2, <4>1 DEF Effect
      <4>3. /\ app[n] = "gone" => app'[n] = "gone"
            /\ db[n] = "gone" => db'[n] = "gone"
        BY <2>2, <4>1 DEF Effect
      <4> QED
        BY <4>1, <4>2, <4>3, DoneStays
    <3>2. CASE Ns(t) = n /\ At(t, "destroyed") /\ UNCHANGED <<app, db>>
      <4>1. AppDone(n) /\ DbDone(n)
        BY <2>1, <2>2, <3>2 DEF SandboxInv, At
      <4>2. Removes(t, n)
        BY <3>2 DEF Removes, Removing, At
      <4>3. Exists(n) /\ \A u \in Threads : ~Creates(u, n)
        BY <1>2, <2>3, <4>2, RemovesHasRow
      <4>4. \A u \in Threads : ~Creates(u, n)'
        BY <1>5, <2>2, <4>3 DEF Effect
      <4> QED
        BY <3>2, <4>1, <4>4, DoneStays
    <3> QED
      BY <2>1, <2>2, <2>9, <3>1, <3>2 DEF Effect
  <2> QED
    BY <2>7, <2>8, <2>9 DEF SandboxInv
<1> QED
  BY <1>1, <1>4, <1>7, <1>8 DEF IInv

\* What the machine does to containers keeps it too.
LEMMA LosesKeeps ==
    ASSUME IInv, Loses, Remembers, HistoryTyped'
    PROVE  IInv'
<1>1. TypeOK' /\ status' = status /\ call' = call
  BY DEF Loses
<1>2. \A u \in Threads : ThreadInv(u)'
  BY <1>1 DEF IInv, ThreadInv, At, Ns, Exists
<1>3. OneDeploys'
  BY <1>1 DEF IInv, OneDeploys, Deploying, At, Ns
<1>4. ASSUME NEW n \in Namespaces
      PROVE  SandboxInv(n)'
  <2>1. raced[n] => raced'[n]
    BY NotRaced
  <2> SUFFICES ASSUME ~raced'[n]
               PROVE  SandboxInv(n)'
    BY DEF SandboxInv
  <2>2. SandboxInv(n)
    BY DEF IInv
  <2>3. /\ app[n] = "gone" => app'[n] = "gone"
        /\ db[n] = "gone" => db'[n] = "gone"
    BY DEF Loses
  <2>4. (AppDone(n) => AppDone(n)') /\ (DbDone(n) => DbDone(n)')
    BY <2>3, DoneStays
  <2> QED
    BY <1>1, <2>1, <2>2, <2>4 DEF SandboxInv, Creates, Removes, At, Ns
<1> QED
  BY <1>1, <1>2, <1>3, <1>4 DEF IInv

LEMMA Begins == MCInit => IInv /\ ReapInv
<1> SUFFICES ASSUME MCInit PROVE IInv /\ ReapInv
  OBVIOUS
<1>1. TypeOK /\ \A t \in Threads : call[t] \in Call /\ call[t] = Idle
  BY IdleIsCall DEF MCInit, Init, TypeOK, Containers
<1>2. \A t \in Threads : ThreadInv(t) /\ \A n : ~Deploying(t, n)
  BY <1>1, IdleIsCall DEF ThreadInv, Deploying, PlacesOf, At
<1>3. \A n \in Namespaces : SandboxInv(n)
  BY <1>1, IdleIsCall DEF MCInit, Init, SandboxInv, Creates, Creating, Removes,
     Removing, At, NoRow
<1> QED
  BY <1>1, <1>2, <1>3 DEF MCInit, IInv, HistoryTyped, OneDeploys, ReapInv

\* What a step of MCNext is.
LEMMA StepIs ==
    ASSUME TypeOK, MCNext
    PROVE  \/ Loses
           \/ \E t \in Threads :
                 \/ Work(t) \/ Reap(t) \/ Kill(t) \/ Hang(t)
                 \/ \E n \in Namespaces : \/ Deploy(t, n) \/ Destroy(t, n) \/ Cleanup(t, n)
                                          \/ Reset(t, n) \/ Stop(t, n) \/ Start(t, n)
<1>1. CASE Operate
  BY <1>1, FaultLoses DEF Operate
<1>2. CASE Tamper \/ Exits
  BY <1>2, FaultLoses DEF Tamper, Exits
<1>3. CASE \E t \in Threads : Kill(t) \/ Hang(t)
  BY <1>3
<1> QED
  BY <1>1, <1>2, <1>3 DEF MCNext

LEMMA StepKeeps == IInv /\ [MCNext]_MCvars => IInv'
<1> SUFFICES ASSUME IInv, [MCNext]_MCvars PROVE IInv'
  OBVIOUS
<1>1. CASE UNCHANGED MCvars
  <2>1. TypeOK' /\ HistoryTyped' /\ OneDeploys'
    BY <1>1 DEF MCvars, vars, IInv, TypeOK, HistoryTyped, OneDeploys, Deploying, At, Ns
  <2>2. \A t \in Threads : ThreadInv(t)'
    BY <1>1 DEF MCvars, vars, IInv, ThreadInv, At, Ns, Exists
  <2>3. \A n \in Namespaces : SandboxInv(n)'
    BY <1>1 DEF MCvars, vars, IInv, SandboxInv, AppDone, DbDone, Creates, Removes, At, Ns
  <2> QED
    BY <2>1, <2>2, <2>3 DEF IInv
<1>2. CASE MCNext
  <2>1. Remembers /\ HistoryTyped'
    BY <1>2 DEF MCNext, Remembers, IInv, HistoryTyped, SparedNow, TypeOK, Call, Ns
  <2>2. CASE Loses
    BY <2>1, <2>2, LosesKeeps
  <2>3. CASE \E t \in Threads : Works(t)
    BY <2>1, <2>3, WorksKeeps
  <2>4. ASSUME NEW t \in Threads, Work(t)
        PROVE  Works(t)
    BY <2>4, WorkTyped, WorkInPlace, WorkEffect DEF IInv, Works
  <2> QED
    BY <1>2, <2>2, <2>3, <2>4, StepIs, BeginWorks, ReapWorks, KillWorks, HangWorks
       DEF IInv
<1> QED
  BY <1>1, <1>2

\* A thread is idle exactly without an operation.
LEMMA IdleIsNone ==
    ASSUME TypeOK, NEW t \in Threads, ThreadInv(t)
    PROVE  At(t, "idle") <=> call[t].op = "none"
  BY SandboxesAssumption DEF ThreadInv, PlacesOf, Creating, Removing, Stopping,
     Starting, At, TypeOK, Call

\* What a reap does next.
LEMMA ReapStep ==
    ASSUME TypeOK, NEW t \in Threads, ThreadInv(t), call[t].op = "reap", Work(t)
    PROVE  Inspect(t) \/ MarkOrphan(t) \/ ReapDone(t)
<1>1. call[t].pc \in {"inspect", "orphan", "hung"}
  BY DEF ThreadInv, PlacesOf
<1> QED
  BY <1>1 DEF Work, Insert, CreateNetwork, RunDb, RunApp, Probe, MarkReady, Fails,
     MarkFailed,
     RemoveApp, RemoveDb, RemoveNetwork, MarkDestroyed, StopApp, StopDb, MarkStopped, StartDb,
     StartApp, Reprobe, MarkStarted, At

LEMMA WorkIsBusy ==
    ASSUME NEW t, Work(t)
    PROVE  ~At(t, "idle")
  BY DEF Work, Insert, CreateNetwork, RunDb, RunApp, Probe, MarkReady, Fails, MarkFailed,
     RemoveApp, RemoveDb, RemoveNetwork, MarkDestroyed, StopApp, StopDb, MarkStopped, StartDb,
     StartApp, Reprobe, MarkStarted, Inspect, MarkOrphan, ReapDone, At

\* A reap that is alone keeps what it has looked at.
LEMMA LoneReapKeeps == IInv /\ ReapInv /\ [MCNext]_MCvars => ReapInv'
<1> SUFFICES ASSUME IInv, ReapInv, [MCNext]_MCvars, alone'
             PROVE  ReapInv'
  BY DEF ReapInv
<1> DEFINE Left(t) == \A n \in Listed : app[n] = "gone" => n \in call[t].todo \/ (At(t, "orphan") /\ Ns(t) = n)
<1>1. CASE UNCHANGED MCvars
  BY <1>1 DEF MCvars, vars, ReapInv, Busy, Listed, At, Ns
<1>2. CASE MCNext
  <2>1. PICK t \in Threads : /\ call'[t].op = "reap" /\ Busy' = {t}
                             /\ alone \/ Busy = {}
                             /\ ~\E n \in Namespaces : app[n] # "gone" /\ app'[n] = "gone"
    BY <1>2 DEF MCNext
  <2>2. ASSUME NEW u \in Threads, u # t
        PROVE  At(u, "idle")'
    BY <2>1, <2>2 DEF Busy
  <2>3. ~At(t, "idle")'
    BY <2>1 DEF Busy
  <2>4. \A n \in Namespaces : app'[n] = "gone" => app[n] = "gone"
    BY <2>1
  <2>5. SUFFICES Left(t)'
    BY <2>1 DEF ReapInv
  <2>6. TypeOK /\ \A u \in Threads : ThreadInv(u)
    BY DEF IInv
  \* It has begun with this step,
  <2>7. CASE Busy = {}
    <3>1. \A u \in Threads : At(u, "idle") /\ call[u].op = "none"
      BY <2>6, <2>7, IdleIsNone DEF Busy
    <3>2. ~Loses
      BY <2>1, <3>1 DEF Loses
    <3>3. \A u \in Threads : ~Work(u) /\ ~Kill(u) /\ ~Hang(u)
      BY <3>1, WorkIsBusy DEF Kill, Hang, Untimed, At
    <3>4. ASSUME NEW u \in Threads, NEW n \in Namespaces,
                 \/ Deploy(u, n) \/ Destroy(u, n) \/ Cleanup(u, n)
                 \/ Reset(u, n) \/ Stop(u, n) \/ Start(u, n)
          PROVE  FALSE
      <4>1. PICK op \in Ops, pc \in Steps : op # "reap" /\ Begin(u, op, n, pc)
        BY <3>4 DEF Deploy, Destroy, Cleanup, Reset, Stop, Start, Begin, Steps
      <4> QED
        BY <2>1, <2>6, <3>1, <4>1, Beginning
    <3>5. PICK u \in Threads : Reap(u)
      BY <1>2, <2>6, <3>2, <3>3, <3>4, StepIs
    <3>6. u = t
      BY <2>1, <2>6, <3>1, <3>5, Reaping
    <3>7. call'[t].todo = Listed /\ status' = status /\ app' = app
      BY <2>6, <3>5, <3>6, Reaping DEF Reap
    <3> QED
      BY <3>7 DEF Listed
  \* or before: then only the reap itself has moved, if any thread has.
  <2>8. CASE alone
    <3>1. PICK u \in Threads : Busy = {u} /\ call[u].op = "reap" /\ Left(u)
      BY <2>8 DEF ReapInv
    <3>2. ~At(u, "idle") /\ \A v \in Threads \ {u} : At(v, "idle")
      BY <3>1 DEF Busy
    <3>3. CASE Loses
      <4>1. u = t
        BY <2>2, <3>2, <3>3 DEF Loses, At
      <4> QED
        BY <2>4, <3>1, <3>3, <4>1 DEF Loses, Listed, At, Ns
    <3>4. CASE Work(u)
      <4>1. Inspect(u) \/ MarkOrphan(u) \/ ReapDone(u)
        BY <2>6, <3>1, <3>4, ReapStep
      <4>2. u = t
        <5>1. \A v \in Threads \ {u} : call'[v] = call[v]
          BY <2>6, <3>4, WorkInPlace
        <5> QED
          BY <2>3, <3>2, <5>1 DEF At
      <4>3. CASE Inspect(t)
        <5>1. /\ Ns(t)' \in call[t].todo /\ call'[t].todo = call[t].todo \ {Ns(t)'}
              /\ app[Ns(t)'] = "gone" => At(t, "orphan")'
          BY <2>6, <4>3, Inspecting
        <5>2. status' = status /\ app' = app /\ ~At(t, "orphan")
          BY <4>3 DEF Inspect, At
        <5> QED
          BY <3>1, <4>2, <5>1, <5>2 DEF Listed, At
      <4>4. CASE MarkOrphan(t)
        <5>1. /\ call'[t].todo = call[t].todo
              /\ status' = [status EXCEPT ![Ns(t)] = "DESTROYED"] /\ app' = app
          BY <2>6, <4>4, Going DEF MarkOrphan, Steps, Set
        <5>2. \A n \in Listed' : n \in Listed /\ n # Ns(t)
          BY <2>6, <5>1 DEF Listed, TypeOK
        <5> QED
          BY <3>1, <4>2, <5>1, <5>2
      <4>5. ~ReapDone(t)
        BY <2>3, <2>6, Returning DEF ReapDone
      <4> QED
        BY <4>1, <4>2, <4>3, <4>4, <4>5
    <3>5. \A v \in Threads : v # u => ~Work(v) /\ ~Kill(v) /\ ~Hang(v)
      BY <3>2, WorkIsBusy DEF Kill, Hang, Untimed, At
    <3>6. ~Kill(u)
      <4>1. ASSUME Kill(u)
            PROVE  FALSE
        <5>1. At(u, "idle")' /\ \A v \in Threads \ {u} : call'[v] = call[v]
          BY <2>6, <4>1, Returning DEF Kill
        <5> QED
          BY <2>3, <3>2, <5>1 DEF At
      <4> QED
        BY <4>1
    <3>7. ASSUME NEW v \in Threads, At(v, "idle"), ~At(v, "idle")',
                 \A w \in Threads \ {v} : call'[w] = call[w]
          PROVE  FALSE
      BY <2>2, <3>2, <3>7 DEF At
    <3>8. ASSUME NEW v \in Threads, NEW n \in Namespaces,
                 \/ Deploy(v, n) \/ Destroy(v, n) \/ Cleanup(v, n)
                 \/ Reset(v, n) \/ Stop(v, n) \/ Start(v, n)
          PROVE  FALSE
      <4>1. PICK op \in Ops, pc \in Steps \ {"idle"} : Begin(v, op, n, pc)
        BY <3>8 DEF Deploy, Destroy, Cleanup, Reset, Stop, Start, Begin, Steps
      <4>2. At(v, pc)' /\ \A w \in Threads \ {v} : call'[w] = call[w]
        BY <2>6, <4>1, Beginning
      <4> QED
        BY <3>7, <4>1, <4>2 DEF Begin, At
    <3>9. ASSUME NEW v \in Threads, Reap(v)
          PROVE  FALSE
      BY <2>6, <3>7, <3>9, Reaping DEF Reap, At
    <3>10. CASE Hang(u)
      <4>1. Goto(u, "hung") /\ status' = status /\ app' = app /\ ~At(u, "orphan")
        BY <3>10 DEF Hang, Untimed, At
      <4>2. call'[u].todo = call[u].todo /\ \A v \in Threads \ {u} : call'[v] = call[v]
        BY <2>6, <4>1, Going DEF Steps
      <4>3. u = t
        BY <2>3, <3>2, <4>2 DEF At
      <4> QED
        BY <3>1, <4>1, <4>2, <4>3 DEF Listed
    <3> QED
      BY <1>2, <2>6, <3>3, <3>4, <3>5, <3>6, <3>8, <3>9, <3>10, StepIs
  <2> QED
    BY <2>1, <2>7, <2>8
<1> QED
  BY <1>1, <1>2

LEMMA Invariant == MCSpec => [](IInv /\ ReapInv)
  BY Begins, StepKeeps, LoneReapKeeps, PTL DEF MCSpec

-----------------------------------------------------------------------------

\* No operation leaves its range, whichever overlap and are killed.
THEOREM TypeCorrect == MCSpec => []TypeOK
<1>1. IInv => TypeOK
  BY DEF IInv
<1> QED
  BY <1>1, Invariant, PTL

\* A container under a DESTROYED row is there because its docker rm -f failed: a stop, a
\* start, a second deploy or a cleanup of it, at whatever step they are, hang or were
\* killed, brings none back; only a request that destroys it while it is being deployed,
\* or a reap, leaves others.
THEOREM DestroyedIsGone == MCSpec => []HiddenWasSpared
<1>1. IInv => HiddenWasSpared
  BY DEF IInv, SandboxInv, HiddenWasSpared
<1> QED
  BY <1>1, Invariant, PTL

\* reap_orphans, alone, leaves no row that is listed as usable without its application.
THEOREM ReapFindsAll == MCSpec => ReapIsComplete
<1>1. IInv /\ ReapInv =>
         \A t \in Threads : alone /\ call[t].op = "reap" /\ ReapDone(t) => NothingStale
  <2> SUFFICES ASSUME IInv, ReapInv, NEW t \in Threads, alone, call[t].op = "reap", ReapDone(t)
               PROVE  NothingStale
    OBVIOUS
  <2>1. At(t, "inspect") /\ call[t].todo = {}
    BY DEF ReapDone
  <2>2. PICK u \in Threads :
           /\ Busy = {u}
           /\ \A n \in Listed : app[n] = "gone" => n \in call[u].todo \/ (At(u, "orphan") /\ Ns(u) = n)
    BY DEF ReapInv
  <2>3. u = t
    BY <2>1, <2>2 DEF Busy, At
  <2> QED
    BY <2>1, <2>2, <2>3 DEF NothingStale, Listed, At
<1> QED
  BY <1>1, Invariant, PTL DEF MCSpec, ReapIsComplete

=============================================================================
