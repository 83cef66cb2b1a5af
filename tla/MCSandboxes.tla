---------------------------- MODULE MCSandboxes ----------------------------
(***************************************************************************)
(* Sandboxes for TLC.  One instance has every operation, every fault and   *)
(* two threads; history variables tell the properties that need it which   *)
(* operations met, and which commands failed.                              *)
(***************************************************************************)
EXTENDS Sandboxes

VARIABLES
    raced,      \* namespace -> destroyed by request while being deployed, or reaped
    spared,     \* namespace -> until it has raced, what is still there of what
                \* docker rm -f failed to remove
    lost,       \* namespace -> a deploy of it has been killed, or hangs, before it ended
    alone       \* the reap in progress has met no other operation

MCvars == <<vars, raced, spared, lost, alone>>

MCInit ==
    /\ Init
    /\ raced = [n \in Namespaces |-> FALSE]
    /\ spared = [n \in Namespaces |-> {}]
    /\ lost = [n \in Namespaces |-> FALSE]
    /\ alone = FALSE

Busy == {t \in Threads : ~At(t, "idle")}

Races(n) ==
    /\ \E t \in Threads : call[t].op = "deploy" /\ Ns(t) = n
    /\ \E t \in Threads : call[t].op \in {"destroy", "reset"} /\ Ns(t) = n

\* This step is the docker rm -f of the application, or of the database, of n.
RunsRmApp(n) == \E t \in Threads : Ns(t) = n /\ At(t, "rmApp") /\ At(t, "rmDb")'
RunsRmDb(n)  == \E t \in Threads : Ns(t) = n /\ At(t, "rmDb") /\ At(t, "rmNet")'

SparedNow(n) ==
    {c \in {"app", "db"} :
        /\ ~raced[n]
        /\ \/ c = "app" /\ app'[n] # "gone" /\ (c \in spared[n] \/ RunsRmApp(n))
           \/ c = "db" /\ db'[n] # "gone" /\ (c \in spared[n] \/ RunsRmDb(n))}

MCNext ==
    /\ \/ (Operate \/ Exits) /\ UNCHANGED lost
       \/ Tamper /\ UNCHANGED lost
       \/ \E t \in Threads :
             /\ Kill(t) \/ Hang(t)
             /\ lost' = [lost EXCEPT ![Ns(t)] =
                             @ \/ (call[t].op = "deploy" /\ status[Ns(t)] = "DEPLOYING")]
    /\ raced' = [n \in Namespaces |->
                    raced[n] \/ Races(n)'
                    \/ \E t \in Threads : At(t, "orphan") /\ Ns(t) = n]
    /\ spared' = [n \in Namespaces |-> SparedNow(n)]
    /\ alone' = (/\ \E t \in Threads : call'[t].op = "reap" /\ Busy' = {t}
                 /\ alone \/ Busy = {}
                 /\ ~\E n \in Namespaces : app[n] # "gone" /\ app'[n] = "gone")

MCSpec == MCInit /\ [][MCNext]_MCvars

MCFairSpec == MCSpec /\ \A t \in Threads : WF_vars(Work(t))

\* The container is gone, or its docker rm -f was run and failed.
AppDone(n) == app[n] = "gone" \/ "app" \in spared[n]
DbDone(n)  == db[n] = "gone" \/ "db" \in spared[n]

\* Whatever container there is under a DESTROYED row has been left there by the failed
\* docker rm -f of that container, whose result destroy does not look at, from the
\* statement that marks the row on (deployment.py:364, "so forgotten containers don't
\* accumulate silently"): true whichever operations overlap, hang or are killed, as long
\* as the sandbox was not destroyed by request while it was deployed, and not reaped.
HiddenWasSpared ==
    \A n \in Namespaces :
        ~raced[n] /\ status[n] = "DESTROYED" => AppDone(n) /\ DbDone(n)

\* After reap_orphans has run alone no sandbox listed as usable lacks its
\* application container, whatever was killed or removed before, and whatever fails.
ReapIsComplete ==
    [][\A t \in Threads :
          alone /\ call[t].op = "reap" /\ ReapDone(t) => NothingStale]_MCvars

\* A deployment does not stay DEPLOYING: it becomes READY or FAILED, or is destroyed,
\* whatever else is done to its sandbox, fails, hangs or is killed, unless it is the
\* deploy itself that is killed, or waits for a docker command without a timeout.
DeployEnds ==
    \A n \in Namespaces :
        status[n] = "DEPLOYING" ~> status[n] # "DEPLOYING" \/ lost[n]
=============================================================================
