------------------------------ MODULE BugStore ------------------------------
(***************************************************************************)
(* The Bug Center, engine/bug_store.py, over the bugs table of             *)
(* engine/qa_store.py.  Its callers are threads: one per HTTP request of   *)
(* agent.py (Flask runs threaded) and one per coverage run.  Every         *)
(* operation SELECTs a row outside any transaction, decides, and then      *)
(* writes by bug_id and commits: a thread is between those statements when *)
(* its pc is not "idle", holding what it read in its own request record.   *)
(***************************************************************************)
EXTENDS Integers, FiniteSets

CONSTANTS
    Threads,        \* the threads that call the store
    Fingerprints,   \* the distinct bugs that can be reported
    MaxBugs,        \* bound: rows of the table
    MaxReports,     \* bound: finished reports per fingerprint
    MaxHistory      \* _MAX_EVIDENCE_HISTORY, 10 in the code

ASSUME BugStoreAssumption ==
    /\ MaxBugs \in Nat \ {0}
    /\ MaxReports \in Nat
    /\ MaxHistory \in Nat \ {0}
    /\ Fingerprints # {}

VARIABLES
    bugs,     \* the bugs table: bug number -> row
    req,      \* thread -> its call in progress
    reports   \* fingerprint -> record_bug calls that returned a bug (history)

vars == <<bugs, req, reports>>

BugIds == 1..MaxBugs

\* the status column
bugStatus == [b \in BugIds |-> bugs[b].status]

Lifecycle == INSTANCE BugLifecycle WITH status <- bugStatus

Statuses   == Lifecycle!Statuses
Unresolved == Lifecycle!Unresolved
NoBug      == Lifecycle!NoBug

\* hist is the number of evidence samples kept; tested, that a regression
\* test case is attached; resolved, that resolved_at is set.
Row == [status: Statuses \cup {NoBug}, fp: Fingerprints, occ: Nat,
        hist: 0..MaxHistory, verify: {"", "PASS", "FAIL"},
        tested: BOOLEAN, resolved: BOOLEAN]

EmptyRow == [status |-> NoBug, fp |-> CHOOSE f \in Fingerprints : TRUE,
             occ |-> 0, hist |-> 0, verify |-> "",
             tested |-> FALSE, resolved |-> FALSE]

Targets == {"FIXING", "READY_FOR_VERIFY", "RESOLVED", "OPEN", "IGNORED"}

\* bug is the row read, or the number _new_bug_id computed; seen and hist,
\* what record_bug read in it; to and test, what a status call will write.
Request == [pc: {"idle", "count", "insert", "update", "write", "failed"},
            fp: Fingerprints, bug: BugIds, seen: Statuses \cup {NoBug},
            hist: 0..MaxHistory, to: Targets, test: BOOLEAN]

Idle == [pc |-> "idle", fp |-> CHOOSE f \in Fingerprints : TRUE, bug |-> 1,
         seen |-> NoBug, hist |-> 0, to |-> "OPEN", test |-> FALSE]

TypeOK ==
    /\ bugs \in [BugIds -> Row]
    /\ req \in [Threads -> Request]
    /\ reports \in [Fingerprints -> Nat]

Init ==
    /\ bugs = [b \in BugIds |-> EmptyRow]
    /\ req = [t \in Threads |-> Idle]
    /\ reports = [f \in Fingerprints |-> 0]

Rows == {b \in BugIds : bugs[b].status # NoBug}

RowsOf(f) == {b \in Rows : bugs[b].fp = f}

Finish(t) == req' = [req EXCEPT ![t] = Idle]

\* SQLite lets one connection write at a time, and a connection whose INSERT
\* failed keeps its transaction open until it is closed.
WriteLockFree == \A u \in Threads : req[u].pc # "failed"

----------------------------------------------------------------------------
\* record_bug: SELECT * FROM bugs WHERE fingerprint = ...
RecordRead(t, f) ==
    /\ req[t].pc = "idle"
    /\ reports[f] < MaxReports
    /\ \/ /\ RowsOf(f) = {}
          /\ req' = [req EXCEPT ![t] = [Idle EXCEPT !.pc = "count", !.fp = f]]
       \/ \E b \in RowsOf(f) :
             req' = [req EXCEPT ![t] =
                        [Idle EXCEPT !.pc = "update", !.fp = f, !.bug = b,
                                     !.seen = bugs[b].status,
                                     !.hist = bugs[b].hist]]
    /\ UNCHANGED <<bugs, reports>>

\* The COUNT(*) of _new_bug_id: the next number is one more than the rows.
RecordCount(t) ==
    /\ req[t].pc = "count"
    /\ Cardinality(Rows) < MaxBugs
    /\ req' = [req EXCEPT ![t].pc = "insert", ![t].bug = Cardinality(Rows) + 1]
    /\ UNCHANGED <<bugs, reports>>

\* A report of f that its thread has finished.
ReportDone(t) ==
    /\ reports' = [reports EXCEPT ![req[t].fp] = @ + 1]
    /\ Finish(t)

NewRow(f) == [status |-> "OPEN", fp |-> f, occ |-> 1, hist |-> 1,
              verify |-> "", tested |-> FALSE, resolved |-> FALSE]

\* The INSERT and commit, when no row has that primary key.
RecordInsert(t) ==
    /\ req[t].pc = "insert"
    /\ WriteLockFree
    /\ bugs[req[t].bug].status = NoBug
    /\ bugs' = [bugs EXCEPT ![req[t].bug] = NewRow(req[t].fp)]
    /\ ReportDone(t)

\* Another report took that bug number: sqlite3.IntegrityError leaves
\* record_bug, and the report is not stored.
RecordCollision(t) ==
    /\ req[t].pc = "insert"
    /\ WriteLockFree
    /\ bugs[req[t].bug].status # NoBug
    /\ req' = [req EXCEPT ![t].pc = "failed"]
    /\ UNCHANGED <<bugs, reports>>

\* The failed thread ends and its connection with it.
ConnectionClosed(t) ==
    /\ req[t].pc = "failed"
    /\ Finish(t)
    /\ UNCHANGED <<bugs, reports>>

\* The status a report writes, from the status it READ.
StatusSeenAgain(seen) == IF seen = "RESOLVED" THEN "REGRESSION" ELSE seen

\* history[-_MAX_EVIDENCE_HISTORY:] after one more sample
Keep(h) == IF h < MaxHistory THEN h + 1 ELSE h

\* mutant: occurrences, too, is computed from what was read
ReportedFromRead(row, seen, h) ==
    [row EXCEPT !.occ = h + 1,
                !.hist = Keep(h),
                !.status = StatusSeenAgain(seen)]

\* The row the UPDATE of record_bug leaves: the counter is incremented by the
\* database; the evidence and the status come from the row that was read.
Reported(row, seen, h) ==
    [row EXCEPT !.occ = @ + 1,
                !.hist = Keep(h),
                !.status = StatusSeenAgain(seen)]

\* UPDATE bugs SET occurrences=occurrences+1, evidence_json, status ... commit
RecordUpdate(t) ==
    /\ req[t].pc = "update"
    /\ WriteLockFree
    /\ bugs' = [bugs EXCEPT ![req[t].bug] =
                   Reported(@, req[t].seen, req[t].hist)]
    /\ ReportDone(t)

----------------------------------------------------------------------------
\* get_bug and _require_status: a call whose bug is unknown or in another
\* status raises BugStateError and changes nothing.
ReadStatus(t, b, allowed, to, test) ==
    /\ req[t].pc = "idle"
    /\ bugs[b].status \in allowed
    /\ req' = [req EXCEPT ![t] =
                  [Idle EXCEPT !.pc = "write", !.bug = b, !.to = to,
                               !.test = test]]
    /\ UNCHANGED <<bugs, reports>>

MarkFixing(t, b) == ReadStatus(t, b, {"OPEN", "REGRESSION"}, "FIXING", FALSE)

MarkReadyForVerify(t, b) ==
    ReadStatus(t, b, {"FIXING"}, "READY_FOR_VERIFY", FALSE)

\* mutant: verify does not ask for READY_FOR_VERIFY
VerifyAnyStatus(t, b, passed, test) ==
    ReadStatus(t, b, Statuses, IF passed THEN "RESOLVED" ELSE "OPEN",
               passed /\ test)

Verify(t, b, passed, test) ==
    ReadStatus(t, b, {"READY_FOR_VERIFY"},
               IF passed THEN "RESOLVED" ELSE "OPEN", passed /\ test)

Ignore(t, b) == ReadStatus(t, b, Statuses, "IGNORED", FALSE)

\* mutant: a passed verify leaves verify_result alone
RowAfterNoVerdict(row, to, test) ==
    [row EXCEPT !.status = to,
                !.tested = @ \/ test,
                !.resolved = @ \/ to = "RESOLVED"]

\* The row each UPDATE leaves: verify(passed=True) also sets resolved_at and
\* verify_result and keeps a test case already there, verify(passed=False)
\* only verify_result.
RowAfter(row, to, test) ==
    [row EXCEPT !.status = to,
                !.tested = @ \/ test,
                !.resolved = @ \/ to = "RESOLVED",
                !.verify = CASE to = "RESOLVED" -> "PASS"
                             [] to = "OPEN"     -> "FAIL"
                             [] OTHER           -> @]

\* UPDATE bugs SET status=... WHERE bug_id=..., with no test of the status.
StatusWrite(t) ==
    /\ req[t].pc = "write"
    /\ WriteLockFree
    /\ bugs' = [bugs EXCEPT ![req[t].bug] = RowAfter(@, req[t].to, req[t].test)]
    /\ Finish(t)
    /\ UNCHANGED reports

----------------------------------------------------------------------------
Next ==
    \E t \in Threads :
        \/ \E f \in Fingerprints : RecordRead(t, f)
        \/ RecordCount(t)
        \/ RecordInsert(t)
        \/ RecordCollision(t)
        \/ ConnectionClosed(t)
        \/ RecordUpdate(t)
        \/ \E b \in BugIds :
              \/ MarkFixing(t, b)
              \/ MarkReadyForVerify(t, b)
              \/ \E passed, test \in BOOLEAN : Verify(t, b, passed, test)
              \/ Ignore(t, b)
        \/ StatusWrite(t)

Spec == Init /\ [][Next]_vars

----------------------------------------------------------------------------
\* A RESOLVED bug carries the PASS that resolved it, whatever calls overlap:
\* no interleaving of record_bug, verify and the status calls writes RESOLVED
\* without verify(passed=True), or leaves a later FAIL on a RESOLVED row.
ResolvedWasVerified ==
    \A b \in BugIds :
        bugs[b].status = "RESOLVED" => bugs[b].verify = "PASS" /\ bugs[b].resolved

\* A bug is called a REGRESSION only if it really was resolved before, even
\* when the report that says so read the row long ago.
RegressionWasResolved ==
    \A b \in BugIds : bugs[b].status = "REGRESSION" => bugs[b].resolved

\* Bug numbers are 1, 2, ... without a gap: _new_bug_id uses COUNT(*) as its
\* sequence, so one gap would make every later report of the day collide.
IdsContiguous == \A b \in Rows : \A c \in 1..b : c \in Rows

\* h[1] + ... + h[n]
Total(h, n) ==
    LET upTo[i \in 0..n] == IF i = 0 THEN 0 ELSE upTo[i - 1] + h[i]
    IN  upTo[n]

\* The counters of the rows of one fingerprint.
Occurrences(f) ==
    [b \in BugIds |-> IF b \in RowsOf(f) THEN bugs[b].occ ELSE 0]

\* No finished report is lost from the counters: over the rows of one
\* fingerprint, occurrences adds up to the calls of record_bug that returned.
OccurrencesExact ==
    \A f \in Fingerprints : Total(Occurrences(f), MaxBugs) = reports[f]

\* Reports of one bug share one row (the dedup of record_bug).
FingerprintUnique ==
    \A b, c \in Rows : bugs[b].fp = bugs[c].fp => b = c

\* With one caller at a time the store moves every bug along the lifecycle
\* its header documents, and nowhere else.
ImplementsLifecycle == Lifecycle!LifecycleSpec
=============================================================================
