---------------------------- MODULE MCPreviewLab ----------------------------
(***************************************************************************)
(* PreviewLab with history variables that tell the properties which        *)
(* operations met, and bounds that keep the instance of TLC small: at most *)
(* MaxBegun operations begin, and as environments share nothing but ports, *)
(* they overlap in one environment while no other exists, and the creation *)
(* of a second environment is the last operation.  Threads, environments   *)
(* and presets that nothing has used yet are alike: one of them is taken.  *)
(* The proofs do without the bounds.                                       *)
(***************************************************************************)
EXTENDS PreviewLab, FiniteSets, TLC

CONSTANT MaxBegun

VARIABLES
    met,        \* two operations have been in progress at once
    spoiled,    \* environments with an operation that ended halfway, other than a start
    left,       \* env -> what is still there of what a delete has tried to remove
    restarted,  \* the QA Center has been restarted during an operation
    begun       \* bound: operations begun

historyVars == <<vars, met, spoiled, left, restarted>>
MCvars      == <<historyVars, begun>>

HistoryInit == Init /\ met = FALSE /\ spoiled = {} /\ restarted = FALSE
               /\ left = All({})

Busy  == {t \in Threads : ~At(t, "idle")}
Quiet == Busy = {}

\* The step ends a create or a reset in its except clause, and a stop or a delete
\* without its last statement.
Spoils(t) ==
    \/ call'[t].pc = "failed" /\ call[t].op \in {"create", "reset"}
    \/ call'[t].pc = "idle" /\ call[t].pc \in {"stopApp", "stopDb", "rmApp", "rmDb", "leave",
                                                "rmNet", "rmVol"}

Objects == {"app", "db", "joined", "net", "vol"}

There(n) ==
    {o \in Objects :
        \/ o = "app" /\ app[n] # "gone"
        \/ o = "db" /\ db[n] # "gone"
        \/ o = "joined" /\ joined[n]
        \/ o = "net" /\ net[n]
        \/ o = "vol" /\ vol[n]}

\* Where delete removes each, and what has to be gone before docker can.
Removal == [app |-> "rmApp", db |-> "rmDb", joined |-> "leave", net |-> "rmNet", vol |-> "rmVol"]
Before  == [app |-> {}, db |-> {}, joined |-> {}, net |-> {"app", "db", "joined"}, vol |-> {"db"}]

\* t has run the command that removes o, which no object stood in the way of but those
\* whose own command has failed, and goes on.
Tries(t, o) ==
    /\ At(t, Removal[o]) /\ call'[t].pc \notin {Removal[o], "idle"}
    /\ There(Env(t)) \cap Before[o] \subseteq left[Env(t)]

HistoryNext ==
    /\ \/ Operate /\ UNCHANGED restarted
       \/ Restart /\ restarted' = TRUE
    /\ met' = (met \/ \E t, u \in Busy' : t # u)
    /\ spoiled' = spoiled \cup {Env(t) : t \in {u \in Threads : Spoils(u)}}
    /\ left' = [n \in Envs |->
                   {o \in There(n)' : o \in left[n] \/ \E t \in Threads : Env(t) = n /\ Tries(t, o)}]

HistorySpec == HistoryInit /\ [][HistoryNext]_historyVars

-----------------------------------------------------------------------------
MCInit == HistoryInit /\ begun = 0

Engaged == {Env(t) : t \in Busy} \cup {n \in Envs : Exists(n)}

\* An operation begins in one idle thread, the first in one environment with one preset.
Canonical(t) ==
    /\ t = CHOOSE u \in Threads : At(u, "idle")
    /\ begun = 0 => /\ call'[t].env = CHOOSE n \in Envs : TRUE
                    /\ call'[t].preset = CHOOSE p \in Presets : TRUE

MCNext ==
    /\ HistoryNext
    /\ begun' = IF Busy' \ Busy # {} THEN begun + 1 ELSE begun
    /\ begun' <= MaxBegun
    /\ \A t \in Busy' \ Busy : Canonical(t)
    /\ begun' # begun => Cardinality({n \in Envs : Exists(n)}) <= 1
    /\ met' => Cardinality(Engaged') <= 1

MCSpec == MCInit /\ [][MCNext]_MCvars

MCFairSpec == MCSpec /\ \A t \in Threads : WF_vars(Work(t))

-----------------------------------------------------------------------------
\* What there still is of an environment whose row says DELETED (containers, the QA
\* Center's place in the network, network, volume) is what delete has tried to remove
\* and docker has refused, for a reason other than an object that delete has not tried
\* to remove before it: whatever overlaps the delete, failed or was cut short before,
\* nothing is forgotten, taken in the wrong order, or comes back.
DeletedForgetsNothing ==
    \A n \in Envs : status[n] = "DELETED" => There(n) \subseteq left[n]

\* With one operation at a time and none cut short, READY means what reset and
\* coverage take it for: both containers run and the database holds the data
\* of the row's preset, which is what the row's manifest describes.  An operation that
\* ended halfway is the exception: start makes READY what a create or a reset left
\* behind, and a stop or a delete whose docker command raises leaves READY as it is.
SerialReadyIsSeeded ==
    Quiet /\ ~met /\ ~restarted =>
        \A n \in Envs \ spoiled :
            status[n] = "READY" =>
                Answers(n) /\ data[n] = preset[n] /\ manifest[n] = preset[n]

\* With one operation at a time a coverage run blames the product for nothing
\* the Preview Lab did itself, unless an operation has ended halfway.
SerialNoFalseBug == ~met /\ ~restarted => blamed \subseteq spoiled

\* Whatever overlaps or fails, an environment does not stay in one of the
\* statuses a thread is working on, unless the QA Center is restarted.
Settles ==
    \A n \in Envs : []<>(status[n] \in {"CREATING", "SEEDING", "STARTING"} => restarted)
=============================================================================
