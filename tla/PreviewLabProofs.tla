-------------------------- MODULE PreviewLabProofs --------------------------
(***************************************************************************)
(* Proofs about the UI Preview Lab of engine/preview_manager.py, for any   *)
(* threads, environments, ports and presets.                               *)
(***************************************************************************)
EXTENDS MCPreviewLab, TLAPS

USE PreviewLabAssumption

Creating == {"network", "volume", "runDb", "join", "runApp"}
Removing == {"rmApp", "rmDb", "leave", "rmNet", "rmVol", "deleted"}

\* The application container of n is not to be created any more.
NoneCreating(n) == \A u \in Threads : call[u].pc \in Creating => Env(u) # n

NothingLeft(n) ==
    /\ app[n] = "gone" /\ db[n] = "gone"
    /\ ~net[n] /\ ~joined[n] /\ ~vol[n]

\* What each operation goes through.
PlaceInv(t) ==
    LET op == call[t].op  pc == call[t].pc IN
    /\ pc \in Creating \cup {"insert", "seeding"} => op = "create"
    /\ pc \in {"seed", "ready"} => op \in {"create", "reset"}
    /\ pc \in {"reseeding", "wipe"} => op = "reset"
    /\ pc \in {"starting", "startDb", "startApp", "started"} => op = "start"
    /\ pc \in {"stopApp", "stopDb", "stopped"} => op = "stop"
    /\ pc \in Removing => op = "delete"
    /\ pc \in {"read", "checks"} => op = "coverage"
    /\ pc = "guard" => op \in {"stop", "delete", "reset"}
    /\ pc = "failed" => op \in {"create", "start", "reset"}

\* Who is to create the application container is alone in that, and there is
\* none yet; an environment has its row before its id is known to others.
CreateInv(t) ==
    /\ ~At(t, "idle") => (Exists(Env(t)) <=> ~At(t, "insert"))
    /\ call[t].pc \in Creating => app[Env(t)] = "gone"

PairInv(t, u) ==
    Env(t) = Env(u) =>
        /\ At(t, "insert") => At(u, "idle")
        /\ call[t].pc \in Creating => call[u].pc \notin Creating

\* delete is past _guard_destructive, which has seen the container: nobody is
\* to create it, so what is removed does not come back.
RemoveInv(t) == call[t].pc \in Removing => NoneCreating(Env(t))

RowInv(n) ==
    /\ ~Exists(n) => NothingLeft(n)
    /\ status[n] = "DELETED" => NoneCreating(n)

LabInv ==
    /\ TypeOK
    /\ \A t \in Threads : PlaceInv(t) /\ CreateInv(t) /\ RemoveInv(t)
    /\ \A t \in Threads : \A u \in Threads \ {t} : PairInv(t, u)
    /\ \A n \in Envs : RowInv(n)

-----------------------------------------------------------------------------
\* No operation is in progress.
LEMMA IdleIsCall == Idle \in Call /\ Idle.pc = "idle"
<1>1. (CHOOSE n \in Envs : TRUE) \in Envs
  OBVIOUS
<1> QED
  BY <1>1 DEF Idle, Call, Steps

\* A thread goes on to its next place with what it works on.
LEMMA Going ==
    ASSUME call \in [Threads -> Call], NEW t \in Threads, NEW pc \in Steps, Goto(t, pc)
    PROVE  /\ call' \in [Threads -> Call]
           /\ call'[t].pc = pc /\ call'[t].op = call[t].op
           /\ call'[t].env = call[t].env /\ call'[t].preset = call[t].preset
           /\ \A u \in Threads \ {t} : call'[u] = call[u]
BY DEF Goto, Call

\* A thread is done.
LEMMA Returning ==
    ASSUME call \in [Threads -> Call], NEW t \in Threads, Return(t)
    PROVE  /\ call' \in [Threads -> Call]
           /\ call'[t].pc = "idle"
           /\ \A u \in Threads \ {t} : call'[u] = call[u]
BY IdleIsCall DEF Return

\* A request takes a thread for an environment.
LEMMA Beginning ==
    ASSUME call \in [Threads -> Call], NEW t \in Threads, NEW n \in Envs,
           NEW op \in {"stop", "start", "reset", "delete", "coverage"},
           NEW pc \in Steps, NEW p \in Presets \cup {NoData}, Begin(t, op, n, pc, p)
    PROVE  /\ call' \in [Threads -> Call]
           /\ call'[t].pc = pc /\ call'[t].op = op
           /\ call'[t].env = n /\ call'[t].preset = p
           /\ \A u \in Threads \ {t} : call'[u] = call[u]
<1>1. [Idle EXCEPT !.op = op, !.pc = pc, !.env = n, !.preset = p] \in Call
  BY IdleIsCall DEF Call
<1> QED
  BY <1>1 DEF Begin, Call

\* A coverage run goes on with the manifest it has read.
LEMMA Reading ==
    ASSUME TypeOK, NEW t \in Threads, ReadManifest(t)
    PROVE  \/ status[Env(t)] # "READY" /\ Return(t)
           \/ /\ status[Env(t)] = "READY"
              /\ call' \in [Threads -> Call]
              /\ call'[t].pc = "checks" /\ call'[t].op = call[t].op
              /\ call'[t].env = call[t].env /\ call'[t].preset = manifest[Env(t)]
              /\ \A u \in Threads \ {t} : call'[u] = call[u]
<1>1. call[t] \in Call /\ Env(t) \in Envs
  BY DEF TypeOK, Call, Env
<1> QED
  BY <1>1 DEF ReadManifest, TypeOK, Call, Steps

\* Where _guard_destructive lets an operation pass to.
LEMMA Guarding ==
    ASSUME NEW t \in Threads, PlaceInv(t), Guard(t)
    PROVE  \/ Return(t)
           \/ /\ app[Env(t)] # "gone"
              /\ \/ call[t].op = "stop" /\ Goto(t, "stopApp")
                 \/ call[t].op = "delete" /\ Goto(t, "rmApp")
                 \/ call[t].op = "reset" /\ Goto(t, "reseeding")
BY DEF Guard, PlaceInv, At

\* Nothing exists yet.
LEMMA LabBegins == Init => LabInv
BY IdleIsCall DEF Init, All, LabInv, TypeOK, PlaceInv, CreateInv, PairInv, RemoveInv,
       RowInv, NothingLeft, NoneCreating, Creating, Removing, Containers, Exists, At

Untouched(n) ==
    /\ status'[n] = status[n] /\ preset'[n] = preset[n] /\ manifest'[n] = manifest[n]
    /\ app'[n] = app[n] /\ db'[n] = db[n] /\ joined'[n] = joined[n]
    /\ net'[n] = net[n] /\ vol'[n] = vol[n] /\ data'[n] = data[n]

StaysGone(n) ==
    /\ app[n] = "gone" => app'[n] = "gone"
    /\ db[n] = "gone" => db'[n] = "gone"
    /\ ~net[n] => ~net'[n]
    /\ ~joined[n] => ~joined'[n]
    /\ ~vol[n] => ~vol'[n]

\* The order in which delete removes.
Follows(pc, next) ==
    /\ next = "rmDb" => pc = "rmApp"
    /\ next = "leave" => pc = "rmDb"
    /\ next = "rmNet" => pc = "leave"
    /\ next = "rmVol" => pc = "rmNet"
    /\ next = "deleted" => pc = "rmVol"

\* A thread works on its own environment, and only a create brings back what is
\* gone there.
Effect(t) ==
    LET n == Env(t)  next == call'[t].pc IN
    /\ \A u \in Threads \ {t} : call'[u] = call[u]
    /\ ~At(t, "idle") /\ next # "insert"
    /\ next # "idle" => call'[t].env = n /\ call'[t].op = call[t].op
    /\ \A m \in Envs \ {n} : Untouched(m)
    /\ Exists(n) \/ At(t, "insert") => status'[n] # NoRow
    /\ status'[n] = "DELETED" => status[n] = "DELETED" \/ At(t, "deleted")
    /\ next \in Creating => call[t].pc \in Creating \cup {"insert"} /\ app'[n] = app[n]
    /\ call[t].pc \notin Creating => StaysGone(n)
    /\ next \in Removing => ~At(t, "insert") /\ (app[n] # "gone" \/ call[t].pc \in Removing)
    /\ Follows(call[t].pc, next)
    /\ blamed' \subseteq blamed \cup {n}

\* A step of a thread keeps the types.
LEMMA TypeKept == ASSUME TypeOK, NEW t \in Threads, PlaceInv(t), Work(t) PROVE TypeOK'
<1>0. call[t] \in Call
  BY DEF TypeOK
<1> USE DEF TypeOK, Call, Statuses, Containers, Steps, Set, rows, boxes, Env
<1>1. CASE Insert(t)
  BY <1>1, Going DEF Insert
<1>2. CASE CreateNetwork(t)
  BY <1>2, Going DEF CreateNetwork
<1>3. CASE CreateVolume(t)
  BY <1>3, Going DEF CreateVolume
<1>4. CASE RunDb(t)
  BY <1>4, Going DEF RunDb
<1>5. CASE Join(t)
  BY <1>5, Going DEF Join
<1>6. CASE RunApp(t)
  BY <1>6, Going DEF RunApp
<1>7. CASE MarkSeeding(t)
  BY <1>7, Going DEF MarkSeeding
<1>8. CASE Seed(t)
  BY <1>8, Going DEF Seed
<1>9. CASE MarkReady(t)
  BY <1>9, Returning DEF MarkReady
<1>10. ASSUME NEW pc \in Tried, Fails(t, pc) PROVE TypeOK'
  BY <1>10, Going DEF Fails, Tried
<1>11. CASE MarkFailed(t)
  BY <1>11, Returning DEF MarkFailed
<1>12. CASE Guard(t)
  BY <1>12, Guarding, Going, Returning DEF Guard
<1>13. CASE StopApp(t)
  BY <1>13, Going, Returning DEF StopApp
<1>14. CASE StopDb(t)
  BY SMTT(30), <1>14, Going, Returning DEF StopDb
<1>15. CASE MarkStopped(t)
  BY <1>15, Returning DEF MarkStopped
<1>16. CASE MarkStarting(t)
  BY <1>16, Going DEF MarkStarting
<1>17. CASE StartDb(t)
  BY <1>17, Going DEF StartDb
<1>18. CASE StartApp(t)
  BY <1>18, Going DEF StartApp
<1>19. CASE MarkStarted(t)
  BY <1>19, Returning DEF MarkStarted
<1>20. CASE MarkReseeding(t)
  BY <1>20, Going DEF MarkReseeding
<1>21. CASE Wipe(t)
  BY <1>21, Going DEF Wipe
<1>22. CASE RemoveApp(t)
  BY <1>22, Going, Returning DEF RemoveApp, PassOn
<1>23. CASE RemoveDb(t)
  BY <1>23, Going, Returning DEF RemoveDb, PassOn
<1>24. CASE Leave(t)
  <2>1. call' \in [Threads -> Call]
    BY <1>24, Going, Returning DEF Leave, PassOn
  <2> QED
    BY <1>24, <2>1 DEF Leave
<1>25. CASE RemoveNetwork(t)
  <2>1. call' \in [Threads -> Call]
    BY <1>25, Going, Returning DEF RemoveNetwork, PassOn
  <2> QED
    BY <1>25, <2>1 DEF RemoveNetwork
<1>26. CASE RemoveVolume(t)
  <2>1. call' \in [Threads -> Call]
    BY <1>26, Going, Returning DEF RemoveVolume, PassOn
  <2> QED
    BY <1>26, <2>1 DEF RemoveVolume
<1>27. CASE MarkDeleted(t)
  BY <1>27, Returning DEF MarkDeleted
<1>28. CASE ReadManifest(t)
  BY <1>28, Reading, Returning DEF ReadManifest
<1>29. CASE Checks(t)
  BY <1>29, Returning DEF Checks
<1> QED
  BY <1>1, <1>2, <1>3, <1>4, <1>5, <1>6, <1>7, <1>8, <1>9, <1>10, <1>11, <1>12, <1>13,
     <1>14, <1>15, <1>16, <1>17, <1>18, <1>19, <1>20, <1>21, <1>22, <1>23, <1>24,
     <1>25, <1>26, <1>27, <1>28, <1>29 DEF Work

\* Every step of a thread is an Effect.
LEMMA Effects == ASSUME TypeOK, NEW t \in Threads, PlaceInv(t), Work(t) PROVE Effect(t)
<1>0. Env(t) \in Envs
  BY DEF TypeOK, Call, Env
<1> USE DEF TypeOK, Effect, Untouched, StaysGone, Follows, Creating, Removing, Steps,
            Exists, At, Env, Set, rows, boxes, NoRow
<1>1. CASE Insert(t)
  BY <1>0, <1>1, Going DEF Insert
<1>2. CASE CreateNetwork(t)
  BY <1>2, Going DEF CreateNetwork
<1>3. CASE CreateVolume(t)
  BY <1>3, Going DEF CreateVolume
<1>4. CASE RunDb(t)
  BY <1>4, Going DEF RunDb
<1>5. CASE Join(t)
  BY ZenonT(40), <1>5, Going DEF Join
<1>6. CASE RunApp(t)
  BY <1>6, Going DEF RunApp
<1>7. CASE MarkSeeding(t)
  BY <1>7, Going DEF MarkSeeding
<1>8. CASE Seed(t)
  BY <1>8, Going DEF Seed
<1>9. CASE MarkReady(t)
  BY <1>9, Returning DEF MarkReady
<1>10. ASSUME NEW pc \in Tried, Fails(t, pc) PROVE Effect(t)
  BY <1>10, Going DEF Fails, Tried
<1>11. CASE MarkFailed(t)
  BY <1>11, Returning DEF MarkFailed
<1>12. CASE Guard(t)
  BY ZenonT(40), <1>12, Guarding, Going, Returning DEF Guard
<1>13. CASE StopApp(t)
  BY <1>13, Going, Returning DEF StopApp
<1>14. CASE StopDb(t)
  BY <1>14, Going, Returning DEF StopDb
<1>15. CASE MarkStopped(t)
  BY <1>15, Returning DEF MarkStopped
<1>16. CASE MarkStarting(t)
  BY <1>16, Going DEF MarkStarting
<1>17. CASE StartDb(t)
  BY <1>17, Going DEF StartDb
<1>18. CASE StartApp(t)
  BY <1>18, Going DEF StartApp
<1>19. CASE MarkStarted(t)
  BY <1>19, Returning DEF MarkStarted
<1>20. CASE MarkReseeding(t)
  BY <1>20, Going DEF MarkReseeding
<1>21. CASE Wipe(t)
  BY <1>21, Going DEF Wipe
<1>22. CASE RemoveApp(t)
  BY <1>22, Going, Returning DEF RemoveApp, PassOn
<1>23. CASE RemoveDb(t)
  BY <1>23, Going, Returning DEF RemoveDb, PassOn
<1>24. CASE Leave(t)
  BY <1>0, <1>24, Going, Returning DEF Leave, PassOn
<1>25. CASE RemoveNetwork(t)
  BY <1>25, Going, Returning DEF RemoveNetwork, PassOn
<1>26. CASE RemoveVolume(t)
  BY <1>26, Going, Returning DEF RemoveVolume, PassOn
<1>27. CASE MarkDeleted(t)
  BY <1>27, Returning DEF MarkDeleted
<1>28. CASE ReadManifest(t)
  BY <1>28, Reading, Returning DEF ReadManifest
<1>29. CASE Checks(t)
  BY <1>29, Returning DEF Checks
<1> QED
  BY <1>1, <1>2, <1>3, <1>4, <1>5, <1>6, <1>7, <1>8, <1>9, <1>10, <1>11, <1>12, <1>13,
     <1>14, <1>15, <1>16, <1>17, <1>18, <1>19, <1>20, <1>21, <1>22, <1>23, <1>24,
     <1>25, <1>26, <1>27, <1>28, <1>29 DEF Work

\* A step of a thread stays within its operation.
LEMMA PlaceKept ==
    ASSUME TypeOK, NEW t \in Threads, PlaceInv(t), Work(t) PROVE PlaceInv(t)'
<1> USE DEF TypeOK, PlaceInv, Creating, Removing, Steps, At
<1>1. CASE Insert(t)
  BY <1>1, Going DEF Insert
<1>2. CASE CreateNetwork(t)
  BY <1>2, Going DEF CreateNetwork
<1>3. CASE CreateVolume(t)
  BY <1>3, Going DEF CreateVolume
<1>4. CASE RunDb(t)
  BY <1>4, Going DEF RunDb
<1>5. CASE Join(t)
  BY <1>5, Going DEF Join
<1>6. CASE RunApp(t)
  BY <1>6, Going DEF RunApp
<1>7. CASE MarkSeeding(t)
  BY <1>7, Going DEF MarkSeeding
<1>8. CASE Seed(t)
  BY <1>8, Going DEF Seed
<1>9. CASE MarkReady(t)
  BY <1>9, Returning DEF MarkReady
<1>10. ASSUME NEW pc \in Tried, Fails(t, pc) PROVE PlaceInv(t)'
  BY <1>10, Going DEF Fails, Tried
<1>11. CASE MarkFailed(t)
  BY <1>11, Returning DEF MarkFailed
<1>12. CASE Guard(t)
  BY <1>12, Guarding, Going, Returning DEF Guard
<1>13. CASE StopApp(t)
  BY <1>13, Going, Returning DEF StopApp
<1>14. CASE StopDb(t)
  BY <1>14, Going, Returning DEF StopDb
<1>15. CASE MarkStopped(t)
  BY <1>15, Returning DEF MarkStopped
<1>16. CASE MarkStarting(t)
  BY <1>16, Going DEF MarkStarting
<1>17. CASE StartDb(t)
  BY <1>17, Going DEF StartDb
<1>18. CASE StartApp(t)
  BY <1>18, Going DEF StartApp
<1>19. CASE MarkStarted(t)
  BY <1>19, Returning DEF MarkStarted
<1>20. CASE MarkReseeding(t)
  BY <1>20, Going DEF MarkReseeding
<1>21. CASE Wipe(t)
  BY <1>21, Going DEF Wipe
<1>22. CASE RemoveApp(t)
  BY <1>22, Going, Returning DEF RemoveApp, PassOn
<1>23. CASE RemoveDb(t)
  BY <1>23, Going, Returning DEF RemoveDb, PassOn
<1>24. CASE Leave(t)
  BY <1>24, Going, Returning DEF Leave, PassOn
<1>25. CASE RemoveNetwork(t)
  BY <1>25, Going, Returning DEF RemoveNetwork, PassOn
<1>26. CASE RemoveVolume(t)
  BY <1>26, Going, Returning DEF RemoveVolume, PassOn
<1>27. CASE MarkDeleted(t)
  BY <1>27, Returning DEF MarkDeleted
<1>28. CASE ReadManifest(t)
  BY <1>28, Reading, Returning DEF ReadManifest
<1>29. CASE Checks(t)
  BY <1>29, Returning DEF Checks
<1> QED
  BY <1>1, <1>2, <1>3, <1>4, <1>5, <1>6, <1>7, <1>8, <1>9, <1>10, <1>11, <1>12, <1>13,
     <1>14, <1>15, <1>16, <1>17, <1>18, <1>19, <1>20, <1>21, <1>22, <1>23, <1>24,
     <1>25, <1>26, <1>27, <1>28, <1>29 DEF Work

\* The application container of an environment without a thread that creates
\* it is not to be created.
LEMMA NoneCreatingKept ==
    ASSUME LabInv, NEW t \in Threads, Effect(t), NEW n \in Envs, Exists(n), NoneCreating(n)
    PROVE  NoneCreating(n)'
BY DEF LabInv, Effect, NoneCreating, CreateInv, At, Env, Creating

\* Nobody begins to create what delete removes.
LEMMA RemoveKept ==
    ASSUME LabInv, NEW t \in Threads, Effect(t), NEW u \in Threads
    PROVE  RemoveInv(u)'
<1> USE DEF Creating, Removing, At, Env
<1>1. Env(t) \in Envs /\ Env(u) \in Envs
  BY DEF LabInv, TypeOK, Call
<1>2. CASE u # t
  <2>1. call'[u] = call[u] /\ RemoveInv(u) /\ CreateInv(u)
    BY <1>2 DEF Effect, LabInv
  <2>2. call[u].pc \in Removing => NoneCreating(Env(u))'
    BY <1>1, <2>1, NoneCreatingKept DEF RemoveInv, CreateInv
  <2> QED
    BY <2>1, <2>2 DEF RemoveInv, NoneCreating
<1>3. CASE u = t /\ call'[t].pc \in Removing
  <2>1. /\ Exists(Env(t)) /\ RemoveInv(t) /\ call'[t].env = Env(t)
        /\ app[Env(t)] # "gone" \/ call[t].pc \in Removing
    BY <1>3 DEF Effect, LabInv, CreateInv
  <2>2. NoneCreating(Env(t))
    <3>1. CASE app[Env(t)] # "gone"
      BY <3>1 DEF NoneCreating, LabInv, CreateInv
    <3>2. CASE call[t].pc \in Removing
      BY <2>1, <3>2 DEF RemoveInv
    <3> QED
      BY <2>1, <3>1, <3>2
  <2>3. NoneCreating(Env(t))'
    BY <1>1, <2>1, <2>2, NoneCreatingKept
  <2> QED
    BY <1>3, <2>1, <2>3 DEF RemoveInv, NoneCreating
<1>4. CASE u = t /\ call'[t].pc \notin Removing
  BY <1>4 DEF RemoveInv
<1> QED
  BY <1>2, <1>3, <1>4

\* A step of a thread leaves what the others are about to create alone.
LEMMA CreateKept ==
    ASSUME LabInv, NEW t \in Threads, Effect(t), NEW u \in Threads
    PROVE  /\ CreateInv(u)'
           /\ \A w \in Threads \ {u} : PairInv(u, w)'
<1> USE DEF At, Env
<1>1. Env(t) \in Envs /\ Env(u) \in Envs
  BY DEF LabInv, TypeOK, Call
<1>2. CASE u # t
  <2>1. call'[u] = call[u] /\ CreateInv(u) /\ CreateInv(t) /\ PairInv(u, t) /\ PairInv(t, u)
    BY <1>2 DEF Effect, LabInv
  <2>2. Env(u) # Env(t) => Untouched(Env(u))
    BY <1>1 DEF Effect
  <2>3. CreateInv(u)'
    BY <1>1, <2>1, <2>2 DEF Effect, CreateInv, PairInv, StaysGone, Untouched, Exists
  <2>4. \A w \in Threads \ {u} : PairInv(u, w)'
    BY <2>1 DEF Effect, LabInv, CreateInv, PairInv, Exists, Creating
  <2> QED
    BY <2>3, <2>4
<1>3. CASE u = t
  <2>1. CreateInv(t)'
    BY <1>1 DEF Effect, LabInv, CreateInv, RowInv, NothingLeft, Exists, Creating
  <2>2. \A w \in Threads \ {t} : PairInv(t, w)'
    BY DEF Effect, LabInv, PairInv, Creating
  <2> QED
    BY <1>3, <2>1, <2>2
<1> QED
  BY <1>2, <1>3

\* What a row says is so after a step of a thread.
LEMMA RowKept ==
    ASSUME LabInv, NEW t \in Threads, Effect(t), NEW n \in Envs
    PROVE  RowInv(n)'
<1>1. RowInv(n) /\ CreateInv(t) /\ RemoveInv(t)
  BY DEF LabInv
<1>2. Exists(n) /\ NoneCreating(n) => NoneCreating(n)'
  BY NoneCreatingKept
<1>3. CASE n # Env(t)
  BY <1>1, <1>2, <1>3 DEF Effect, RowInv, NothingLeft, Untouched, Exists, NoRow
<1>4. CASE n = Env(t)
  <2>1. status'[n] # NoRow
    BY <1>1, <1>4 DEF Effect, CreateInv
  <2>2. status'[n] = "DELETED" => Exists(n) /\ NoneCreating(n)
    BY <1>1, <1>4 DEF Effect, RowInv, CreateInv, RemoveInv, Removing, Exists, NoRow, At
  <2> QED
    BY <1>2, <2>1, <2>2 DEF RowInv, Exists
<1> QED
  BY <1>3, <1>4

\* A request takes an idle thread and touches nothing.
LEMMA RequestKept ==
    ASSUME LabInv, NEW t \in Threads, NEW n \in Envs, call' \in [Threads -> Call],
           At(t, "idle"), UNCHANGED <<rows, boxes, blamed>>,
           call'[t].env = n,
           \A u \in Threads \ {t} : call'[u] = call[u],
           \/ call'[t].pc \in {"guard", "starting", "read"} /\ Exists(n) /\ PlaceInv(t)'
           \/ /\ call'[t].pc = "insert" /\ call'[t].op = "create"
              /\ ~Exists(n) /\ \A u \in Threads : Env(u) = n => At(u, "idle")
    PROVE  LabInv'
<1> USE DEF LabInv, At, Env, Exists, Creating, Removing
<1>1. TypeOK'
  BY DEF TypeOK, rows, boxes
<1>2. \A u \in Threads : PlaceInv(u)'
  BY DEF PlaceInv
<1>3. \A u \in Threads : CreateInv(u)'
  BY DEF CreateInv, rows, boxes
<1>4. \A u \in Threads : \A w \in Threads \ {u} : PairInv(u, w)'
  BY DEF PairInv, CreateInv
<1>5. \A m \in Envs : NoneCreating(m) => NoneCreating(m)'
  BY DEF NoneCreating
<1>6. \A u \in Threads : RemoveInv(u)'
  BY <1>5 DEF RemoveInv, TypeOK, Call, rows, boxes
<1>7. \A m \in Envs : RowInv(m)'
  BY <1>5 DEF RowInv, NothingLeft, rows, boxes
<1> QED
  BY <1>1, <1>2, <1>3, <1>4, <1>6, <1>7

\* Every step of an operation and a restart keep LabInv.
LEMMA LabKept == LabInv /\ [Next]_vars => LabInv'
<1> SUFFICES ASSUME LabInv, [Next]_vars PROVE LabInv'
  OBVIOUS
<1>1. ASSUME NEW t \in Threads, Work(t) PROVE LabInv'
  <2>1. TypeOK' /\ PlaceInv(t)' /\ Effect(t)
    BY <1>1, TypeKept, PlaceKept, Effects DEF LabInv
  <2>2. \A u \in Threads : PlaceInv(u)'
    BY <2>1 DEF Effect, LabInv, PlaceInv
  <2> QED
    BY <2>1, <2>2, CreateKept, RemoveKept, RowKept DEF LabInv
<1>2. ASSUME NEW t \in Threads, NEW n \in Envs, NEW p \in Presets, Create(t, n, p)
      PROVE  LabInv'
  <2>1. PICK free \in Ports : call' = [call EXCEPT ![t] =
            [op |-> "create", pc |-> "insert", env |-> n, port |-> free, preset |-> p]]
    BY <1>2 DEF Create
  <2>2. call' \in [Threads -> Call]
    BY <2>1 DEF LabInv, TypeOK, Call, Steps
  <2> QED
    BY <1>2, <2>1, <2>2, RequestKept DEF Create, LabInv, TypeOK
<1>3. ASSUME NEW t \in Threads, NEW n \in Envs,
             NEW op \in {"stop", "start", "reset", "delete", "coverage"},
             NEW pc \in {"guard", "starting", "read"}, NEW p \in Presets \cup {NoData},
             Exists(n), Begin(t, op, n, pc, p),
             \/ pc = "guard" /\ op \in {"stop", "delete", "reset"}
             \/ pc = "starting" /\ op = "start"
             \/ pc = "read" /\ op = "coverage"
      PROVE  LabInv'
  <2>1. pc \in Steps
    BY DEF Steps
  <2>2. /\ call' \in [Threads -> Call]
        /\ call'[t].pc = pc /\ call'[t].op = op
        /\ call'[t].env = n
        /\ \A u \in Threads \ {t} : call'[u] = call[u]
    BY <1>3, <2>1, Beginning DEF LabInv, TypeOK
  <2>3. PlaceInv(t)'
    BY <1>3, <2>2 DEF PlaceInv, Creating, Removing
  <2> QED
    BY <1>3, <2>2, <2>3, RequestKept DEF Begin
<1>4. ASSUME NEW t \in Threads, NEW n \in Envs, NEW p \in Presets, Reset(t, n, p) PROVE LabInv'
  BY <1>3, <1>4 DEF Reset, Exists, NoRow
<1>5. ASSUME NEW t \in Threads, NEW n \in Envs, Stop(t, n) PROVE LabInv'
  BY <1>3, <1>5 DEF Stop
<1>6. ASSUME NEW t \in Threads, NEW n \in Envs, Start(t, n) PROVE LabInv'
  BY <1>3, <1>6 DEF Start
<1>7. ASSUME NEW t \in Threads, NEW n \in Envs, Delete(t, n) PROVE LabInv'
  BY <1>3, <1>7 DEF Delete
<1>8. ASSUME NEW t \in Threads, NEW n \in Envs, Coverage(t, n) PROVE LabInv'
  BY <1>3, <1>8 DEF Coverage, Exists, NoRow
<1>9. CASE Restart
  BY <1>9, IdleIsCall
     DEF Restart, LabInv, TypeOK, PlaceInv, CreateInv, PairInv, RemoveInv, RowInv,
         NothingLeft, NoneCreating, Creating, Removing, Exists, At, rows, boxes
<1>10. CASE UNCHANGED vars
  BY <1>10
     DEF vars, LabInv, TypeOK, PlaceInv, CreateInv, PairInv, RemoveInv, RowInv,
         NothingLeft, NoneCreating, Exists, At, Env, rows, boxes
<1> QED
  BY <1>1, <1>2, <1>4, <1>5, <1>6, <1>7, <1>8, <1>9, <1>10 DEF Next, Operate

\* LabInv holds in every reachable state.
LEMMA LabInductive == Spec => []LabInv
BY LabBegins, LabKept, PTL DEF Spec

\* Every reachable state is well typed.
THEOREM TypeCorrect == Spec => []TypeOK
<1>1. LabInv => TypeOK
  BY DEF LabInv
<1> QED
  BY <1>1, LabInductive, PTL

-----------------------------------------------------------------------------
(* What delete has tried to remove                                         *)

\* What is still there has been tried.
Done(n, o) == o \in There(n) => o \in left[n]

LeftInv(t) ==
    LET n == Env(t)  pc == call[t].pc IN
    /\ pc \in Removing \ {"rmApp"} => Done(n, "app")
    /\ pc \in {"leave", "rmNet", "rmVol", "deleted"} => Done(n, "db")
    /\ pc \in {"rmNet", "rmVol", "deleted"} => Done(n, "joined")
    /\ pc \in {"rmVol", "deleted"} => Done(n, "net")
    /\ pc = "deleted" => Done(n, "vol")

ForgetsNothing ==
    /\ \A t \in Threads : LeftInv(t)
    /\ \A n \in Envs : status[n] = "DELETED" => \A o \in Objects : Done(n, o)

\* What has been tried, with an environment that nobody creates, stays tried.
LEMMA DoneKept ==
    ASSUME LabInv, HistoryNext, NEW n \in Envs, NoneCreating(n), NEW o \in Objects, Done(n, o)
    PROVE  Done(n, o)'
<1>1. o \in There(n)' => o \in There(n)
  <2>1. ASSUME NEW t \in Threads, Work(t)
        PROVE  StaysGone(n)
    <3>1. Effect(t) /\ Env(t) \in Envs
      BY <2>1, Effects DEF LabInv, TypeOK, Call, Env
    <3>2. n # Env(t) => Untouched(n)
      BY <3>1 DEF Effect
    <3> QED
      BY <3>1, <3>2 DEF Effect, NoneCreating, Untouched, StaysGone
  <2>2. CASE boxes' = boxes
    BY <2>2 DEF boxes, There
  <2>3. StaysGone(n) => (o \in There(n)' => o \in There(n))
    BY DEF StaysGone, There
  <2> QED
    BY <2>1, <2>2, <2>3 DEF HistoryNext, Operate, Restart, Create, Reset, Stop, Start, Delete,
       Coverage, Begin
<1>2. left'[n] = {x \in There(n)' : x \in left[n] \/ \E t \in Threads : Env(t) = n /\ Tries(t, x)}
  BY DEF HistoryNext
<1> QED
  BY <1>1, <1>2 DEF Done

\* What a step tries has been tried.
LEMMA TriedDone ==
    ASSUME HistoryNext, NEW t \in Threads, NEW n \in Envs, n = Env(t), NEW o \in Objects, Tries(t, o)
    PROVE  Done(n, o)'
<1>1. left'[n] = {x \in There(n)' : x \in left[n] \/ \E u \in Threads : Env(u) = n /\ Tries(u, x)}
  BY DEF HistoryNext
<1> QED
  BY <1>1 DEF Done

\* One command of delete after the other, the next after what stands in its way.
LEMMA TriesInOrder ==
    ASSUME LabInv, ForgetsNothing, HistoryNext, NEW t \in Threads, Work(t),
           NEW n \in Envs, n = Env(t), call'[t].pc \in Removing
    PROVE  LeftInv(t)'
<1> USE DEF Removing
<1>1. Effect(t)
  BY Effects DEF LabInv
<1>2. Env(t)' = n /\ Follows(call[t].pc, call'[t].pc)
  BY <1>1 DEF Effect, Env
<1>3. CASE call'[t].pc = "rmApp"
  BY <1>3 DEF LeftInv
<1>4. CASE call'[t].pc # "rmApp"
  <2>1. call[t].pc \in Removing /\ NoneCreating(n)
    BY <1>2, <1>4 DEF Follows, LabInv, RemoveInv
  <2>2. LeftInv(t)
    BY DEF ForgetsNothing
  <2>3. \A o \in Objects : Done(n, o) => Done(n, o)'
    BY <2>1, DoneKept
  <2>4. \A o \in Objects : Tries(t, o) => Done(n, o)'
    BY TriedDone
  <2>5. Objects = {"app", "db", "joined", "net", "vol"}
    BY DEF Objects
  <2>6. CASE call'[t].pc = "rmDb"
    <3>1. Tries(t, "app")
      BY <1>2, <2>6 DEF Follows, Tries, Removal, Before, At
    <3> QED
      BY <1>2, <2>4, <2>5, <2>6, <3>1 DEF LeftInv
  <2>7. CASE call'[t].pc = "leave"
    <3>1. Tries(t, "db")
      BY <1>2, <2>7 DEF Follows, Tries, Removal, Before, At
    <3>2. Done(n, "app")
      BY <1>2, <2>2, <2>7 DEF Follows, LeftInv
    <3> QED
      BY <1>2, <2>3, <2>4, <2>5, <2>7, <3>1, <3>2 DEF LeftInv
  <2>8. CASE call'[t].pc = "rmNet"
    <3>1. Tries(t, "joined")
      BY <1>2, <2>8 DEF Follows, Tries, Removal, Before, At
    <3>2. Done(n, "app") /\ Done(n, "db")
      BY <1>2, <2>2, <2>8 DEF Follows, LeftInv
    <3> QED
      BY <1>2, <2>3, <2>4, <2>5, <2>8, <3>1, <3>2 DEF LeftInv
  <2>9. CASE call'[t].pc = "rmVol"
    <3>1. Done(n, "app") /\ Done(n, "db") /\ Done(n, "joined")
      BY <1>2, <2>2, <2>9 DEF Follows, LeftInv
    <3>2. Tries(t, "net")
      BY <1>2, <2>9, <3>1 DEF Follows, Tries, Removal, Before, At, Done
    <3> QED
      BY <1>2, <2>3, <2>4, <2>5, <2>9, <3>1, <3>2 DEF LeftInv
  <2>10. CASE call'[t].pc = "deleted"
    <3>1. Done(n, "app") /\ Done(n, "db") /\ Done(n, "joined") /\ Done(n, "net")
      BY <1>2, <2>2, <2>10 DEF Follows, LeftInv
    <3>2. Tries(t, "vol")
      BY <1>2, <2>10, <3>1 DEF Follows, Tries, Removal, Before, At, Done
    <3> QED
      BY <1>2, <2>3, <2>4, <2>5, <2>10, <3>1, <3>2 DEF LeftInv
  <2> QED
    BY <1>4, <2>6, <2>7, <2>8, <2>9, <2>10
<1> QED
  BY <1>3, <1>4

\* Every step of an operation and a restart keep ForgetsNothing.
LEMMA ForgetsKept == LabInv /\ ForgetsNothing /\ [HistoryNext]_historyVars => ForgetsNothing'
<1> SUFFICES ASSUME LabInv, ForgetsNothing, [HistoryNext]_historyVars PROVE ForgetsNothing'
  OBVIOUS
<1> USE DEF Removing
<1>0. \A t \in Threads : Env(t) \in Envs
  BY DEF LabInv, TypeOK, Call, Env
<1>1. ASSUME HistoryNext, NEW t \in Threads, Work(t)
      PROVE  ForgetsNothing'
  <2>1. Effect(t)
    BY <1>1, Effects DEF LabInv
  <2>2. ASSUME NEW u \in Threads, u # t
        PROVE  LeftInv(u)'
    <3>1. call'[u] = call[u] /\ LeftInv(u) /\ RemoveInv(u)
      BY <2>1, <2>2 DEF Effect, ForgetsNothing, LabInv
    <3>2. PICK n \in Envs : n = Env(u)
      BY <1>0
    <3>3. \A o \in Objects : call[u].pc \in Removing /\ Done(n, o) => Done(n, o)'
      BY <1>1, <3>1, <3>2, DoneKept DEF RemoveInv
    <3>4. Env(u)' = n
      BY <3>1, <3>2 DEF Env
    <3> QED
      BY <3>1, <3>2, <3>3, <3>4 DEF LeftInv, Objects
  <2>3. LeftInv(t)'
    <3>1. CASE call'[t].pc \in Removing
      BY <1>0, <1>1, <3>1, TriesInOrder
    <3>2. CASE call'[t].pc \notin Removing
      BY <3>2 DEF LeftInv
    <3> QED
      BY <3>1, <3>2
  <2>4. ASSUME NEW n \in Envs, status'[n] = "DELETED"
        PROVE  \A o \in Objects : Done(n, o)'
    <3>1. \/ status[n] = "DELETED"
          \/ n = Env(t) /\ call[t].pc = "deleted"
      BY <2>1, <2>4 DEF Effect, Untouched, At
    <3>2. NoneCreating(n) /\ \A o \in Objects : Done(n, o)
      BY <3>1 DEF LabInv, RowInv, RemoveInv, ForgetsNothing, LeftInv, Objects
    <3> QED
      BY <1>1, <3>2, DoneKept
  <2> QED
    BY <2>2, <2>3, <2>4 DEF ForgetsNothing
<1>2. ASSUME HistoryNext, rows' = rows, boxes' = boxes,
             \A u \in Threads : call'[u].pc \notin Removing \/ call'[u] = call[u]
      PROVE  ForgetsNothing'
  <2>1. ASSUME NEW n \in Envs, NEW o \in Objects, Done(n, o)
        PROVE  Done(n, o)'
    <3>1. left'[n] = {x \in There(n)' : x \in left[n] \/ \E u \in Threads : Env(u) = n /\ Tries(u, x)}
      BY <1>2 DEF HistoryNext
    <3>2. There(n)' = There(n)
      BY <1>2 DEF There, boxes
    <3> QED
      BY <2>1, <3>1, <3>2 DEF Done
  <2>2. ASSUME NEW u \in Threads, call'[u] = call[u]
        PROVE  LeftInv(u)'
    <3>1. PICK n \in Envs : n = Env(u)
      BY <1>0
    <3>2. Env(u)' = n
      BY <2>2, <3>1 DEF Env
    <3> QED
      BY <2>1, <2>2, <3>1, <3>2 DEF ForgetsNothing, LeftInv, Objects
  <2>3. \A u \in Threads : call'[u].pc \notin Removing => LeftInv(u)'
    BY DEF LeftInv
  <2>4. \A n \in Envs : status'[n] = "DELETED" => \A o \in Objects : Done(n, o)'
    BY <1>2, <2>1 DEF ForgetsNothing, rows
  <2> QED
    BY <1>2, <2>2, <2>3, <2>4 DEF ForgetsNothing
<1>3. ASSUME HistoryNext, NEW t \in Threads, NEW n \in Envs, NEW p \in Presets, Create(t, n, p)
      PROVE  ForgetsNothing'
  <2>1. \A u \in Threads : call'[u] = call[u] \/ call'[u].pc = "insert"
    BY <1>3 DEF Create, LabInv, TypeOK
  <2> QED
    BY <1>2, <1>3, <2>1 DEF Create
<1>4. ASSUME HistoryNext, NEW t \in Threads, NEW n \in Envs,
             NEW op \in {"stop", "start", "reset", "delete", "coverage"},
             NEW pc \in {"guard", "starting", "read"}, NEW p \in Presets \cup {NoData},
             Begin(t, op, n, pc, p)
      PROVE  ForgetsNothing'
  <2>1. pc \in Steps
    BY DEF Steps
  <2>2. \A u \in Threads : call'[u] = call[u] \/ call'[u].pc = pc
    BY <1>4, <2>1, Beginning DEF LabInv, TypeOK
  <2> QED
    BY <1>2, <1>4, <2>2 DEF Begin
<1>5. ASSUME HistoryNext, NEW t \in Threads, NEW n \in Envs,
             \/ \E p \in Presets : Reset(t, n, p)
             \/ Stop(t, n) \/ Start(t, n) \/ Delete(t, n) \/ Coverage(t, n)
      PROVE  ForgetsNothing'
  BY <1>4, <1>5 DEF Reset, Stop, Start, Delete, Coverage
<1>6. ASSUME HistoryNext, Restart
      PROVE  ForgetsNothing'
  BY <1>2, <1>6, IdleIsCall DEF Restart
<1>7. CASE UNCHANGED historyVars
  BY <1>7 DEF historyVars, vars, rows, boxes, ForgetsNothing, LeftInv, Done, There, Env
<1> QED
  BY <1>1, <1>3, <1>5, <1>6, <1>7 DEF HistoryNext, Operate

-----------------------------------------------------------------------------
(* One operation at a time                                                 *)

\* As long as there are both containers the database holds what the row and the
\* manifest say; between operations a READY environment answers, too.
Kept(n) ==
    app[n] # "gone" /\ db[n] # "gone" => data[n] = preset[n] /\ manifest[n] = preset[n]

Rest(n) ==
    /\ Kept(n)
    /\ status[n] = "READY" => Answers(n)

\* How far an operation has got with its environment.
Midway(t) ==
    LET n == Env(t)  c == call[t] IN
    /\ c.pc \in {"guard", "starting", "stopApp", "reseeding", "rmApp", "read", "checks"} => Rest(n)
    /\ c.pc \in {"stopDb", "stopped", "startDb", "startApp", "started", "failed"}
              \cup (Removing \ {"rmApp"}) => Kept(n)
    /\ c.pc \in {"startDb", "startApp", "started", "failed"} => status[n] # "READY"
    /\ c.pc = "failed" => c.op = "start"
    /\ c.pc \in {"reseeding", "checks"} \/ (c.pc = "guard" /\ c.op = "reset")
          => status[n] = "READY"
    /\ c.pc \in {"wipe", "seed", "ready"} => Answers(n)
    /\ c.pc \in Creating \cup {"seeding", "wipe", "seed", "ready"} => preset[n] = c.preset
    /\ c.pc = "ready" => data[n] = c.preset
    /\ c.pc = "checks" => manifest[n] = c.preset

SerialInv ==
    ~met /\ ~restarted =>
        /\ \A t, u \in Busy : t = u
        /\ blamed \subseteq spoiled
        /\ \A n \in Envs \ spoiled : (\A t \in Busy : Env(t) # n) => Rest(n)
        /\ \A t \in Busy : Env(t) \notin spoiled => Midway(t)

\* An operation that does not spoil its environment leaves it as it should be.
Onward(t, n) ==
    ~Spoils(t) =>
        /\ blamed' = blamed
        /\ IF call'[t].pc = "idle" THEN Rest(n)' ELSE Midway(t)'

\* Every step of an operation brings it where it should be.
LEMMA MidwayKept ==
    ASSUME LabInv, NEW t \in Threads, NEW n \in Envs, n = Env(t), Midway(t), Work(t)
    PROVE  Onward(t, n)
<1>0. TypeOK /\ PlaceInv(t) /\ RemoveInv(t)
  BY DEF LabInv
<1> USE <1>0 DEF TypeOK, PlaceInv, RemoveInv, Onward, Spoils, Midway, Rest, Kept, Answers, Creating,
        Removing, Steps, At, Env, Set, rows, boxes
<1>1. CASE Insert(t)
  BY <1>1, Going DEF Insert
<1>2. CASE CreateNetwork(t)
  BY SMTT(30), <1>2, Going DEF CreateNetwork
<1>3. CASE CreateVolume(t)
  BY <1>3, Going DEF CreateVolume
<1>4. CASE RunDb(t)
  BY <1>4, Going DEF RunDb
<1>5. CASE Join(t)
  BY SMTT(30), <1>5, Going DEF Join
<1>6. CASE RunApp(t)
  BY SMTT(30), <1>6, Going DEF RunApp
<1>7. CASE MarkSeeding(t)
  BY SMTT(30), <1>7, Going DEF MarkSeeding
<1>8. CASE Seed(t)
  BY SMTT(30), <1>8, Going DEF Seed
<1>9. CASE MarkReady(t)
  BY <1>9, Returning DEF MarkReady
<1>10. ASSUME NEW pc \in Tried, Fails(t, pc) PROVE Onward(t, n)
  BY <1>10, Going DEF Fails, Tried
<1>11. CASE MarkFailed(t)
  BY <1>11, Returning DEF MarkFailed
<1>12. CASE Guard(t)
  BY SMTT(30), <1>12, Guarding, Going, Returning DEF Guard
<1>13. CASE StopApp(t)
  BY <1>13, Going, Returning DEF StopApp
<1>14. CASE StopDb(t)
  BY <1>14, Going, Returning DEF StopDb
<1>15. CASE MarkStopped(t)
  BY <1>15, Returning DEF MarkStopped
<1>16. CASE MarkStarting(t)
  BY <1>16, Going DEF MarkStarting
<1>17. CASE StartDb(t)
  BY <1>17, Going DEF StartDb
<1>18. CASE StartApp(t)
  BY <1>18, Going DEF StartApp
<1>19. CASE MarkStarted(t)
  BY <1>19, Returning DEF MarkStarted
<1>20. CASE MarkReseeding(t)
  BY SMTT(30), <1>20, Going DEF MarkReseeding
<1>21. CASE Wipe(t)
  BY SMTT(30), <1>21, Going DEF Wipe
<1>22. CASE RemoveApp(t)
  BY <1>22, Going, Returning DEF RemoveApp, PassOn
<1>23. CASE RemoveDb(t)
  BY <1>23, Going, Returning DEF RemoveDb, PassOn
<1>24. CASE Leave(t)
  BY <1>24, Going, Returning DEF Leave, PassOn
<1>25. CASE RemoveNetwork(t)
  BY <1>25, Going, Returning DEF RemoveNetwork, PassOn
<1>26. CASE RemoveVolume(t)
  BY <1>26, Going, Returning DEF RemoveVolume, PassOn
<1>27. CASE MarkDeleted(t)
  BY <1>27, Returning DEF MarkDeleted
<1>28. CASE ReadManifest(t)
  BY <1>28, Reading, Returning DEF ReadManifest
<1>29. CASE Checks(t)
  BY <1>29, Returning DEF Checks
<1> QED
  BY <1>1, <1>2, <1>3, <1>4, <1>5, <1>6, <1>7, <1>8, <1>9, <1>10, <1>11, <1>12, <1>13,
     <1>14, <1>15, <1>16, <1>17, <1>18, <1>19, <1>20, <1>21, <1>22, <1>23, <1>24,
     <1>25, <1>26, <1>27, <1>28, <1>29 DEF Work

\* Nothing has begun.
LEMMA SerialBegins == HistoryInit => SerialInv
BY IdleIsCall
   DEF HistoryInit, Init, All, SerialInv, Rest, Kept, Busy, At, NoRow

\* What the history variables say of a step.
LEMMA HistoryGrows ==
    ASSUME HistoryNext
    PROVE  /\ met => met'
           /\ restarted => restarted'
           /\ spoiled \subseteq spoiled'
           /\ ~met' => \A t, u \in Busy' : t = u
           /\ \A t \in Threads : Spoils(t) => Env(t) \in spoiled'
<1>1. met' = (met \/ \E t, u \in Busy' : t # u)
  BY DEF HistoryNext
<1>2. restarted => restarted'
  BY DEF HistoryNext
<1>3. spoiled' = spoiled \cup {Env(t) : t \in {u \in Threads : Spoils(u)}}
  BY DEF HistoryNext
<1>4. ASSUME NEW t \in Threads, Spoils(t)
      PROVE  Env(t) \in spoiled'
  BY <1>3, <1>4
<1>5. spoiled \subseteq spoiled'
  BY <1>3
<1> QED
  BY <1>1, <1>2, <1>4, <1>5

\* Every step of an operation and a restart keep SerialInv.
LEMMA SerialKept == LabInv /\ SerialInv /\ [HistoryNext]_historyVars => SerialInv'
<1> SUFFICES ASSUME LabInv, SerialInv, HistoryNext, ~met', ~restarted' PROVE SerialInv'
  <2>1. UNCHANGED historyVars /\ SerialInv => SerialInv'
    BY DEF historyVars, vars, rows, boxes, SerialInv, Rest, Kept, Midway, Answers, Busy,
       At, Env
  <2> QED
    BY <2>1 DEF SerialInv
<1>0. /\ ~met /\ ~restarted
      /\ spoiled \subseteq spoiled'
      /\ \A t, u \in Busy' : t = u
  BY HistoryGrows
<1>1. ASSUME NEW t \in Threads, Work(t), NEW e \in Envs, e = Env(t) PROVE SerialInv'
  <2>1. Effect(t) /\ t \in Busy
    BY <1>1, Effects DEF LabInv, Effect, Busy
  <2>2. Spoils(t) => e \in spoiled'
    BY <1>1, HistoryGrows
  <2>3. Busy = {t} /\ Busy' \subseteq {t}
    BY <1>0, <2>1 DEF SerialInv, Effect, Busy, At
  <2>4. e \notin spoiled' => Midway(t) /\ Onward(t, e)
    BY <1>0, <1>1, <2>1, MidwayKept DEF SerialInv
  <2>5. blamed' \subseteq spoiled'
    BY <1>0, <1>1, <2>1, <2>2, <2>4 DEF SerialInv, Effect, Onward
  <2>6. ASSUME NEW n \in Envs \ spoiled', \A u \in Busy' : Env(u)' # n PROVE Rest(n)'
    <3>1. CASE n = e
      <4>1. call'[t].pc = "idle"
        BY <1>1, <2>1, <2>6, <3>1 DEF Effect, Busy, At, Env
      <4> QED
        BY <2>2, <2>4, <2>6, <3>1, <4>1 DEF Onward
    <3>2. CASE n # e
      <4>1. Rest(n) /\ Untouched(n)
        BY <1>0, <1>1, <2>1, <2>3, <2>6, <3>2 DEF SerialInv, Effect
      <4> QED
        BY <4>1 DEF Rest, Kept, Answers, Untouched
    <3> QED
      BY <3>1, <3>2
  <2>7. ASSUME NEW u \in Busy', Env(u)' \notin spoiled' PROVE Midway(u)'
    <3>1. u = t /\ call'[t].pc # "idle"
      BY <2>3, <2>7 DEF Busy, At
    <3>2. Env(t)' = e
      BY <1>1, <2>1, <3>1 DEF Effect, Env
    <3> QED
      BY <2>2, <2>4, <2>7, <3>1, <3>2 DEF Onward
  <2> QED
    BY <1>0, <2>5, <2>6, <2>7 DEF SerialInv
<1>2. ASSUME NEW t \in Threads, NEW n \in Envs, At(t, "idle"), UNCHANGED <<rows, boxes, blamed>>,
             call'[t].env = n,
             \A u \in Threads \ {t} : call'[u] = call[u],
             \/ call'[t].pc = "insert"
             \/ call'[t].pc \in {"guard", "starting", "read"}
                /\ (call'[t].op = "reset" => status[n] = "READY")
      PROVE  SerialInv'
  <2>1. t \in Busy' /\ Busy = {}
    BY <1>0, <1>2 DEF SerialInv, Busy, At
  <2>2. \A m \in Envs \ spoiled' : Rest(m)'
    BY <1>0, <1>2, <2>1 DEF SerialInv, Rest, Kept, Answers, rows, boxes
  <2>3. n \notin spoiled' => Midway(t)'
    BY <1>2, <2>2 DEF Midway, Env, Creating, Removing, rows
  <2> QED
    BY <1>0, <1>2, <2>1, <2>2, <2>3 DEF SerialInv, Env
<1>3. ASSUME NEW t \in Threads, NEW n \in Envs, NEW p \in Presets, Create(t, n, p) PROVE SerialInv'
  <2>1. PICK free \in Ports : call' = [call EXCEPT ![t] =
            [op |-> "create", pc |-> "insert", env |-> n, port |-> free, preset |-> p]]
    BY <1>3 DEF Create
  <2> QED
    BY <1>2, <1>3, <2>1 DEF Create, LabInv, TypeOK
<1>4. ASSUME NEW t \in Threads, NEW n \in Envs,
             NEW op \in {"stop", "start", "reset", "delete", "coverage"},
             NEW pc \in {"guard", "starting", "read"}, NEW p \in Presets \cup {NoData},
             Begin(t, op, n, pc, p), op = "reset" => status[n] = "READY"
      PROVE  SerialInv'
  <2>1. pc \in Steps
    BY DEF Steps
  <2>2. /\ call'[t].pc = pc /\ call'[t].op = op /\ call'[t].env = n
        /\ \A u \in Threads \ {t} : call'[u] = call[u]
    BY <1>4, <2>1, Beginning DEF LabInv, TypeOK
  <2> QED
    BY <1>2, <1>4, <2>2 DEF Begin
<1>5. ASSUME NEW t \in Threads, NEW n \in Envs, NEW p \in Presets, Reset(t, n, p) PROVE SerialInv'
  BY <1>4, <1>5 DEF Reset
<1>6. ASSUME NEW t \in Threads, NEW n \in Envs, Stop(t, n) PROVE SerialInv'
  BY <1>4, <1>6 DEF Stop
<1>7. ASSUME NEW t \in Threads, NEW n \in Envs, Start(t, n) PROVE SerialInv'
  BY <1>4, <1>7 DEF Start
<1>8. ASSUME NEW t \in Threads, NEW n \in Envs, Delete(t, n) PROVE SerialInv'
  BY <1>4, <1>8 DEF Delete
<1>9. ASSUME NEW t \in Threads, NEW n \in Envs, Coverage(t, n) PROVE SerialInv'
  BY <1>4, <1>9 DEF Coverage
<1>10. \A t \in Threads : Env(t) \in Envs
  BY DEF LabInv, TypeOK, Call, Env
<1> QED
  BY <1>0, <1>1, <1>3, <1>5, <1>6, <1>7, <1>8, <1>9, <1>10 DEF HistoryNext, Operate

\* The history variables add nothing to what the specification allows.
LEMMA HistoryIsSpec == HistorySpec => Spec
<1>1. HistoryInit => Init
  BY DEF HistoryInit
<1>2. [HistoryNext]_historyVars => [Next]_vars
  BY DEF HistoryNext, historyVars, Next
<1> QED
  BY <1>1, <1>2, PTL DEF HistorySpec, Spec

\* Whatever overlaps a delete, fails or was cut short before it: once the row says
\* DELETED, what is left of the environment is what delete has tried to remove, in the
\* order in which docker allows it, and nothing comes back.
THEOREM DeleteIsComplete == HistorySpec => []DeletedForgetsNothing
<1>1. HistoryInit => ForgetsNothing
  BY IdleIsCall DEF HistoryInit, Init, All, ForgetsNothing, LeftInv, Removing, NoRow
<1>2. ForgetsNothing => DeletedForgetsNothing
  BY DEF ForgetsNothing, Done, DeletedForgetsNothing, There
<1> QED
  BY <1>1, <1>2, ForgetsKept, HistoryIsSpec, LabInductive, PTL DEF HistorySpec

\* SerialInv holds in every reachable state.
LEMMA SerialInductive == HistorySpec => []SerialInv
BY SerialBegins, SerialKept, HistoryIsSpec, LabInductive, PTL DEF HistorySpec

\* One operation at a time, none of them cut short: READY is a running
\* environment with the data of its preset and of its manifest, unless an
\* operation on it has ended halfway.
THEOREM ReadyIsSeeded == HistorySpec => []SerialReadyIsSeeded
<1>1. SerialInv => SerialReadyIsSeeded
  BY DEF SerialInv, SerialReadyIsSeeded, Quiet, Rest, Kept, Answers
<1> QED
  BY <1>1, SerialInductive, PTL

\* One operation at a time, none of them cut short: a coverage run blames the
\* product only where an operation has ended halfway.
THEOREM NoFalseBug == HistorySpec => []SerialNoFalseBug
<1>1. SerialInv => SerialNoFalseBug
  BY DEF SerialInv, SerialNoFalseBug
<1> QED
  BY <1>1, SerialInductive, PTL

=============================================================================
