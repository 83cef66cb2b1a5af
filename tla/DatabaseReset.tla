---------------------------- MODULE DatabaseReset ----------------------------
(***************************************************************************)
(* The guarded database operations of agent.py: the reset of the QA        *)
(* database from the Golden Template, and the preparation and reset of the *)
(* demo database from a cleaned clone of the production database.  They    *)
(* run in HTTP threads and are refused while a run is active (AgentRuns);  *)
(* every statement commits by itself.                                      *)
(***************************************************************************)
EXTENDS AgentRuns

CONSTANT Admins     \* the HTTP threads that prepare or reset

VARIABLES
    golden,     \* what the Golden Template holds
    qa,         \* what the QA database holds
    template,   \* what the demo template holds
    demo,       \* what the demo database holds
    job         \* admin -> its call in progress

dbVars == <<golden, qa, template, demo, job>>
vars   == <<runVars, dbVars>>

\* What a database may hold: the baseline, the rows of tests on top of it, a
\* baseline that is not complete, the rows of production, or those of them
\* that are left when only the first of the roots has been truncated.
Contents == {"missing", "baseline", "used", "damaged", "production", "leftovers"}

Ops == {"qaReset", "prepare", "demoReset"}

Job == [op: Ops \cup {"none"},
        pc: {"idle", "check", "drop", "create", "verify", "undo", "dropTemplate",
             "clone", "truncate", "truncateRest", "verifyTemplate",
             "undoTemplate"}]

NoJob == [op |-> "none", pc |-> "idle"]

DatabaseTypeOK ==
    /\ golden \in {"baseline", "damaged"}
    /\ qa \in Contents /\ template \in Contents /\ demo \in Contents
    /\ job \in [Admins -> Job]

Init ==
    /\ RunsInit
    /\ golden = "baseline"
    /\ qa \in {"missing", "used"}
    /\ template \in {"missing", "baseline"}
    /\ demo \in {"missing", "used"}
    /\ job = [a \in Admins |-> NoJob]

\* mutant: only the tables with minimum counts are looked at
VerifiedMinima(db) == db \notin {"missing", "damaged"}

\* verify_qa_baseline: the minimum counts, and production_orders, parts,
\* operations and work_sessions empty; of the other runtime tables it knows
\* nothing.  Where it is used it may also answer no: it could not connect.
Verified(db) == db \in {"baseline", "leftovers"}

At(a, pc)   == job[a].pc = pc
Goto(a, pc) == job' = [job EXCEPT ![a].pc = pc]
Return(a)   == job' = [job EXCEPT ![a] = NoJob]
Doing(a, op) == job[a].op = op

----------------------------------------------------------------------------
\* The previews: the QA reset needs a verified Golden Template, the demo reset
\* a template that exists.
Preview(a, op) ==
    /\ At(a, "idle")
    /\ op = "qaReset" => Verified(golden)
    /\ op = "demoReset" => template # "missing"
    /\ job' = [job EXCEPT ![a] = [op |-> op, pc |-> "check"]]
    /\ UNCHANGED <<runVars, golden, qa, template, demo>>

Checked(a) == Goto(a, IF Doing(a, "demoReset") THEN "verifyTemplate" ELSE "drop")

\* active_runs(): the operation is refused while there is one.
Check(a) ==
    /\ At(a, "check")
    /\ IF activeRuns # {} THEN Return(a) ELSE Checked(a)
    /\ UNCHANGED <<runVars, golden, qa, template, demo>>

\* DROP DATABASE IF EXISTS, after its sessions are terminated.
Drop(a) ==
    /\ At(a, "drop")
    /\ IF Doing(a, "qaReset") THEN qa' = "missing" /\ UNCHANGED demo
       ELSE demo' = "missing" /\ UNCHANGED qa
    /\ Goto(a, IF Doing(a, "prepare") THEN "dropTemplate" ELSE "create")
    /\ UNCHANGED <<runVars, golden, template>>

\* CREATE DATABASE ... TEMPLATE ...; it raises when the name is taken.
Create(a) ==
    /\ At(a, "create")
    /\ \/ /\ Doing(a, "qaReset")
          /\ qa = "missing" /\ qa' = golden
          /\ UNCHANGED demo
       \/ /\ ~Doing(a, "qaReset")
          /\ demo = "missing" /\ template # "missing" /\ demo' = template
          /\ UNCHANGED qa
    /\ Goto(a, "verify")
    /\ UNCHANGED <<runVars, golden, template>>

\* mutant: a QA database that is not verified is left as it is
VerifyOnly(a) ==
    /\ At(a, "verify")
    /\ Return(a)
    /\ UNCHANGED <<runVars, golden, qa, template, demo>>

\* A demo database that is not verified raises and stays as it is.
Verify(a) ==
    /\ At(a, "verify")
    /\ \/ (Doing(a, "qaReset") => Verified(qa)) /\ Return(a)
       \/ Doing(a, "qaReset") /\ Goto(a, "undo")
    /\ UNCHANGED <<runVars, golden, qa, template, demo>>

\* "Fail closed": the QA database is dropped.
Undo(a) ==
    /\ At(a, "undo")
    /\ qa' = "missing"
    /\ Return(a)
    /\ UNCHANGED <<runVars, golden, template, demo>>

----------------------------------------------------------------------------
\* demo_database_prepare_execute: both databases are dropped, the template is
\* cloned from the source, truncated root by root, and verified.
DropTemplate(a) ==
    /\ At(a, "dropTemplate")
    /\ template' = "missing"
    /\ Goto(a, "clone")
    /\ UNCHANGED <<runVars, golden, qa, demo>>

Clone(a) ==
    /\ At(a, "clone")
    /\ template = "missing"
    /\ template' = "production"
    /\ Goto(a, "truncate")
    /\ UNCHANGED <<runVars, golden, qa, demo>>

\* production_orders is the first root; parts, operations and work_sessions go
\* with it.
Truncate(a) ==
    /\ At(a, "truncate")
    /\ template # "missing"
    /\ template' = IF template = "production" THEN "leftovers" ELSE template
    /\ Goto(a, "truncateRest")
    /\ UNCHANGED <<runVars, golden, qa, demo>>

\* audit_logs, exception_records and the other roots, and the test employees.
TruncateRest(a) ==
    /\ At(a, "truncateRest")
    /\ template # "missing"
    /\ template' = IF template = "leftovers" THEN "baseline" ELSE template
    /\ Goto(a, "verifyTemplate")
    /\ UNCHANGED <<runVars, golden, qa, demo>>

\* prepare drops a template that is not verified, the demo reset refuses it.
VerifyTemplate(a) ==
    /\ At(a, "verifyTemplate")
    /\ \/ /\ Verified(template)
          /\ Goto(a, IF Doing(a, "prepare") THEN "create" ELSE "drop")
       \/ IF Doing(a, "prepare") THEN Goto(a, "undoTemplate") ELSE Return(a)
    /\ UNCHANGED <<runVars, golden, qa, template, demo>>

UndoTemplate(a) ==
    /\ At(a, "undoTemplate")
    /\ template' = "missing"
    /\ Return(a)
    /\ UNCHANGED <<runVars, golden, qa, demo>>

\* A connection or a statement fails: the exception ends the request.
DbFails(a) ==
    /\ job[a].pc \notin {"idle", "check", "verify"}
    /\ Return(a)
    /\ UNCHANGED <<runVars, golden, qa, template, demo>>

----------------------------------------------------------------------------
\* A run writes test rows to the databases of its targets.
RunWrites ==
    /\ activeRuns # {}
    /\ qa' = IF qa = "baseline" THEN "used" ELSE qa
    /\ demo' = IF demo = "baseline" THEN "used" ELSE demo
    /\ UNCHANGED <<runVars, golden, template, job>>

\* Somebody edits the Golden Template.
GoldenDamaged ==
    /\ golden = "baseline"
    /\ golden' = "damaged"
    /\ UNCHANGED <<runVars, qa, template, demo, job>>

\* The requests of a QA Center that restarts are gone, like its runs.
Restart ==
    /\ RestartAgent
    /\ job' = [a \in Admins |-> NoJob]
    /\ UNCHANGED <<golden, qa, template, demo>>

JobWork(a) ==
    \/ Check(a)
    \/ Drop(a)
    \/ Create(a)
    \/ Verify(a)
    \/ Undo(a)
    \/ DropTemplate(a)
    \/ Clone(a)
    \/ Truncate(a)
    \/ TruncateRest(a)
    \/ VerifyTemplate(a)
    \/ UndoTemplate(a)
    \/ DbFails(a)

Next ==
    \/ RunActs /\ UNCHANGED dbVars
    \/ \E a \in Admins : JobWork(a) \/ \E op \in Ops : Preview(a, op)
    \/ RunWrites
    \/ GoldenDamaged
    \/ Restart

Spec == Init /\ [][Next]_vars

FairSpec == Spec /\ RunsFairness

TypeOK == RunsTypeOK /\ DatabaseTypeOK
=============================================================================
