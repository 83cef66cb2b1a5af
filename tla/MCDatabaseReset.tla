--------------------------- MODULE MCDatabaseReset ---------------------------
(***************************************************************************)
(* Runs and database operations with history variables that tell the       *)
(* properties which of them met, and bounds for TLC: at most MaxBegun runs *)
(* and stops and two database operations are begun; with one of the latter *)
(* at most one run is started and none stopped, and two of them overlap    *)
(* only without any: they meet runs nowhere but in Check.  Runs, and       *)
(* whoever edits the Golden Template, touch a database only while an       *)
(* operation on one is in progress.  The proofs do without the bounds.     *)
(***************************************************************************)
EXTENDS DatabaseReset, FiniteSets, TLC

CONSTANT MaxBegun

VARIABLES
    newest,     \* the soak that was last written to active_run.json
    answered,   \* the runs whose stop has been answered
    hurried,    \* a stop was in progress while a soak was being started
    met,        \* two database operations have been in progress at once
    torn,       \* a prepare ended between two of its truncates
    cut,        \* a QA reset ended after its CREATE without verdict or DROP
    begun,      \* bound: runs and stops begun
    changes     \* bound: database operations begun

history     == <<newest, answered, hurried, met, torn, cut>>
historyVars == <<vars, history>>
MCvars      == <<historyVars, begun, changes>>

HistoryInit ==
    /\ Init
    /\ newest = Nobody /\ answered = {}
    /\ hurried = FALSE /\ met = FALSE
    /\ torn = FALSE /\ cut = FALSE

Busy       == {a \in Admins : ~At(a, "idle")}
Stopped    == {q \in Stoppers : stop[q].pc # "idle"}
Started    == {r \in Runs : kind[r] # "fresh"}

\* Admins whose operation ends at that place, on account of an exception or a
\* restart.
Lost(op, pcs) ==
    {a \in Busy \ Busy' : job[a].op = op /\ job[a].pc \in pcs
                          /\ (DbFails(a) \/ restarts' # restarts)}

HistoryNext ==
    /\ Next
    /\ newest' = IF \E r \in Runs : WriteActive(r) THEN active'.run ELSE newest
    /\ answered' = answered \cup
                       {stop[q].run : q \in {p \in Stopped \ Stopped' : StopSignal(p)}}
    /\ hurried' = (hurried \/ (Stopped' # {} /\ \E r \in Runs : worker'[r] = "file"))
    /\ met' = (met \/ \E a, b \in Busy' : a # b)
    /\ torn' = (torn \/ Lost("prepare", {"truncateRest"}) # {})
    /\ cut' = (cut \/ Lost("qaReset", {"verify", "undo"}) # {})

HistorySpec == HistoryInit /\ [][HistoryNext]_historyVars

----------------------------------------------------------------------------
\* The members of a set that are used up first.
First(set) == CHOOSE x \in set : TRUE

MCInit == HistoryInit /\ begun = 0 /\ changes = 0 /\ qa = "used" /\ demo = "used"

MCNext ==
    /\ HistoryNext
    /\ begun' = begun + Cardinality(Stopped' \ Stopped) + Cardinality(Started' \ Started)
    /\ begun' <= MaxBegun
    /\ changes' = changes + Cardinality(Busy' \ Busy)
    /\ changes' <= 2
    /\ Started' # {} => First(Runs) \in Started'
    /\ Busy = {} => Busy' \subseteq {First(Admins)}
    /\ <<golden, qa, demo>>' # <<golden, qa, demo>> => Busy # {}
    /\ changes' > 0 => begun' <= 1
    /\ met' => Started' = {}

MCFairSpec == MCInit /\ [][MCNext]_MCvars /\ RunsFairness

----------------------------------------------------------------------------
\* A restart resumes the soak that was entered last if it was running, and no
\* soak whose stop has been answered ("so it will not restart unexpectedly"),
\* unless a stop was in progress while a soak was being started.
SerialResumeIsRight ==
    [][restarts' # restarts /\ ~hurried
         => /\ waking' \notin answered
            /\ newest # Nobody => (run[newest] = "RUNNING" /\ ~asked[newest]
                                     => waking' = newest)]_historyVars

\* "Fail closed: never leave an invalid QA target available for testing":
\* whatever resets overlap and whatever happens to the Golden Template, once no
\* operation is in progress the QA database is no incomplete baseline, unless
\* the last steps of a reset were lost.
FailClosed == Busy = {} /\ ~cut => qa # "damaged"

\* With one operation at a time the demo database never holds rows of
\* production, whatever fails and wherever the QA Center is restarted, unless
\* it was between two truncates of a prepare: verify_qa_baseline then takes
\* the template that is left for a baseline.
SerialDemoIsClean == ~met /\ ~torn => demo \notin {"production", "leftovers"}
=============================================================================
