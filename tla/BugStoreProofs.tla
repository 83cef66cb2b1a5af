--------------------------- MODULE BugStoreProofs ---------------------------
(***************************************************************************)
(* Proofs about BugStore, for any threads, fingerprints and bounds.        *)
(***************************************************************************)
EXTENDS BugStore, FiniteSetTheorems, WellFoundedInduction, TLAPS

USE BugStoreAssumption

\* What the constants and the initial values of the model are.
LEMMA ConstantFacts ==
    /\ EmptyRow \in Row
    /\ Idle \in Request
    /\ Statuses = {"OPEN", "FIXING", "READY_FOR_VERIFY", "REGRESSION",
                   "RESOLVED", "IGNORED"}
    /\ NoBug = "NONE"
  BY DEF EmptyRow, Row, Idle, Request, Statuses, NoBug, Targets, BugIds,
         Lifecycle!Statuses, Lifecycle!Unresolved, Lifecycle!NoBug

\* What a status write leaves in a row.
LEMMA RowAfterFields ==
    ASSUME NEW row \in Row, NEW to \in Targets, NEW test \in BOOLEAN
    PROVE  /\ RowAfter(row, to, test) \in Row
           /\ RowAfter(row, to, test).status = to
           /\ row.resolved \/ to = "RESOLVED" => RowAfter(row, to, test).resolved
           /\ to = "RESOLVED" => RowAfter(row, to, test).verify = "PASS"
  BY ZenonT(40) DEF RowAfter, Row, Targets, Statuses, NoBug,
         Lifecycle!Statuses, Lifecycle!Unresolved, Lifecycle!NoBug

\* What a report leaves in a row it updates.
LEMMA ReportedFields ==
    ASSUME NEW row \in Row, NEW seen \in Statuses \cup {NoBug},
           NEW h \in 0..MaxHistory
    PROVE  /\ Reported(row, seen, h) \in Row
           /\ Reported(row, seen, h).status = StatusSeenAgain(seen)
           /\ row.resolved => Reported(row, seen, h).resolved
  <1>1. Keep(h) \in 0..MaxHistory
    BY DEF Keep
  <1>2. StatusSeenAgain(seen) \in Statuses \cup {NoBug}
    BY ConstantFacts DEF StatusSeenAgain
  <1>3. row.occ \in Nat
    BY DEF Row
  <1>4. row.occ + 1 \in Nat
    BY <1>3
  <1>5. QED BY <1>1, <1>2, <1>4 DEF Row, Reported

\* The row of a first report is well typed and OPEN.
LEMMA NewRowFields ==
    ASSUME NEW f \in Fingerprints
    PROVE  NewRow(f) \in Row /\ NewRow(f).status = "OPEN"
  <1>1. {0, 1} \subseteq 0..MaxHistory
    BY SMT
  <1>2. "OPEN" \in Statuses \cup {NoBug}
    BY ConstantFacts
  <1>3. NewRow(f) \in Row
    BY <1>1, <1>2, SMT DEF NewRow, Row
  <1>4. QED BY <1>3 DEF NewRow

\* The table is finite: COUNT(*) of it is a number.
LEMMA RowsCounted == Rows \subseteq BugIds /\ IsFiniteSet(Rows) /\ Cardinality(Rows) \in Nat
  <1>1. IsFiniteSet(BugIds)
    BY FS_Interval DEF BugIds
  <1>2. Rows \subseteq BugIds
    BY DEF Rows
  <1>3. QED BY <1>1, <1>2, FS_Subset, FS_CardinalityType

----------------------------------------------------------------------------
\* Every request a step leaves behind is well typed.
LEMMA RequestType ==
    ASSUME TypeOK, Next PROVE req' \in [Threads -> Request]
  <1>1. ASSUME NEW t \in Threads, NEW new \in Request,
               req' = [req EXCEPT ![t] = new]
        PROVE  req' \in [Threads -> Request]
    BY <1>1 DEF TypeOK
  <1>2. ASSUME NEW t \in Threads, Finish(t)
        PROVE  req' \in [Threads -> Request]
    BY <1>1, <1>2, ConstantFacts DEF Finish
  <1>3. ASSUME NEW t \in Threads, NEW f \in Fingerprints, RecordRead(t, f)
        PROVE  req' \in [Threads -> Request]
    <2>1. [Idle EXCEPT !.pc = "count", !.fp = f] \in Request
      BY ConstantFacts DEF Request
    <2>2. ASSUME NEW b \in RowsOf(f)
          PROVE  [Idle EXCEPT !.pc = "update", !.fp = f, !.bug = b,
                              !.seen = bugs[b].status,
                              !.hist = bugs[b].hist] \in Request
      <3>1. /\ b \in BugIds
            /\ bugs[b].status \in Statuses \cup {NoBug}
            /\ bugs[b].hist \in 0..MaxHistory
        BY <2>2 DEF TypeOK, Row, RowsOf, Rows
      <3>2. QED BY <3>1, ConstantFacts DEF Request
    <2>3. QED BY <1>1, <1>3, <2>1, <2>2 DEF RecordRead
  <1>4. ASSUME NEW t \in Threads, RecordCount(t)
        PROVE  req' \in [Threads -> Request]
    <2>1. req[t] \in Request /\ Cardinality(Rows) + 1 \in BugIds
      BY <1>4, RowsCounted DEF TypeOK, RecordCount, BugIds
    <2>2. [req[t] EXCEPT !.pc = "insert", !.bug = Cardinality(Rows) + 1] \in Request
      BY <2>1 DEF Request
    <2>3. QED BY <1>4, <2>2 DEF TypeOK, RecordCount
  <1>5. ASSUME NEW t \in Threads, RecordCollision(t)
        PROVE  req' \in [Threads -> Request]
    <2>1. [req[t] EXCEPT !.pc = "failed"] \in Request
      BY DEF TypeOK, Request
    <2>2. QED BY <1>5, <2>1 DEF TypeOK, RecordCollision
  <1>6. ASSUME NEW t \in Threads, NEW b \in BugIds, NEW allowed,
               NEW to \in Targets, NEW test \in BOOLEAN,
               ReadStatus(t, b, allowed, to, test)
        PROVE  req' \in [Threads -> Request]
    <2>1. [Idle EXCEPT !.pc = "write", !.bug = b, !.to = to, !.test = test]
              \in Request
      BY ConstantFacts DEF Request
    <2>2. QED BY <1>1, <1>6, <2>1 DEF ReadStatus
  <1>7. ASSUME NEW t \in Threads, NEW b \in BugIds, NEW passed \in BOOLEAN,
               NEW test \in BOOLEAN, Verify(t, b, passed, test)
        PROVE  req' \in [Threads -> Request]
    <2>1. (IF passed THEN "RESOLVED" ELSE "OPEN") \in Targets
      BY DEF Targets
    <2>2. (passed /\ test) \in BOOLEAN
      OBVIOUS
    <2>3. QED BY <1>6, <1>7, <2>1, <2>2 DEF Verify
  <1>8. ASSUME NEW t \in Threads, NEW b \in BugIds,
               MarkFixing(t, b) \/ MarkReadyForVerify(t, b) \/ Ignore(t, b)
        PROVE  req' \in [Threads -> Request]
    <2>1. {"FIXING", "READY_FOR_VERIFY", "IGNORED"} \subseteq Targets
      BY DEF Targets
    <2>2. QED BY <1>6, <1>8, <2>1 DEF MarkFixing, MarkReadyForVerify, Ignore
  <1>9. QED
    BY <1>2, <1>3, <1>4, <1>5, <1>7, <1>8
    DEF Next, RecordInsert, ConnectionClosed, RecordUpdate, StatusWrite,
        ReportDone

\* A step changes one row at most, by one of the three writes.
LEMMA RowType ==
    ASSUME TypeOK, Next PROVE bugs' \in [BugIds -> Row]
  <1> USE DEF TypeOK
  <1>1. ASSUME NEW t \in Threads
        PROVE  /\ req[t].fp \in Fingerprints /\ req[t].bug \in BugIds
               /\ req[t].to \in Targets /\ req[t].test \in BOOLEAN
               /\ req[t].seen \in Statuses \cup {NoBug}
               /\ req[t].hist \in 0..MaxHistory
    BY DEF Request
  <1>2. ASSUME NEW t \in Threads, RecordInsert(t)
        PROVE  bugs' \in [BugIds -> Row]
    BY <1>1, <1>2, NewRowFields DEF RecordInsert
  <1>3. ASSUME NEW t \in Threads, RecordUpdate(t)
        PROVE  bugs' \in [BugIds -> Row]
    BY <1>1, <1>3, ReportedFields DEF RecordUpdate
  <1>4. ASSUME NEW t \in Threads, StatusWrite(t)
        PROVE  bugs' \in [BugIds -> Row]
    BY <1>1, <1>4, RowAfterFields DEF StatusWrite
  <1>5. QED
    BY <1>2, <1>3, <1>4
    DEF Next, RecordRead, RecordCount, RecordCollision, ConnectionClosed,
        MarkFixing, MarkReadyForVerify, Verify, Ignore, ReadStatus

\* Every reachable state is well typed.
THEOREM TypeCorrect == Spec => []TypeOK
  <1>1. Init => TypeOK
    BY ConstantFacts DEF Init, TypeOK
  <1>2. TypeOK /\ [Next]_vars => TypeOK'
    <2> SUFFICES ASSUME TypeOK, [Next]_vars PROVE TypeOK'
      OBVIOUS
    <2>1. ASSUME Next PROVE reports' \in [Fingerprints -> Nat]
      <3>1. ASSUME NEW t \in Threads, ReportDone(t)
            PROVE  reports' \in [Fingerprints -> Nat]
        BY <3>1 DEF TypeOK, Request, ReportDone
      <3>2. QED
        BY <2>1, <3>1
        DEF TypeOK, Next, RecordRead, RecordCount, RecordInsert, RecordUpdate,
            RecordCollision, ConnectionClosed, StatusWrite, MarkFixing,
            MarkReadyForVerify, Verify, Ignore, ReadStatus
    <2>2. CASE Next
      BY <2>1, <2>2, RequestType, RowType DEF TypeOK
    <2>3. CASE UNCHANGED vars
      BY <2>3 DEF TypeOK, vars
    <2>4. QED BY <2>2, <2>3
  <1>3. QED BY <1>1, <1>2, PTL DEF Spec

----------------------------------------------------------------------------
\* The strengthening the two verdict invariants need: resolved_at is never
\* taken back, so what a thread read about it stays true while it waits.
SeenIsPast ==
    \A t \in Threads :
        req[t].pc = "update" =>
            /\ req[t].seen # NoBug
            /\ req[t].seen \in {"RESOLVED", "REGRESSION"}
                  => bugs[req[t].bug].resolved

NoRowNotResolved == \A b \in BugIds : bugs[b].status = NoBug => ~bugs[b].resolved

VerdictInv ==
    /\ TypeOK
    /\ SeenIsPast
    /\ NoRowNotResolved
    /\ ResolvedWasVerified
    /\ RegressionWasResolved

\* The fields of a typed request, one by one.
LEMMA RequestFields ==
    ASSUME TypeOK, NEW t \in Threads
    PROVE  /\ req[t].fp \in Fingerprints /\ req[t].bug \in BugIds
           /\ req[t].to \in Targets /\ req[t].test \in BOOLEAN
           /\ req[t].seen \in Statuses \cup {NoBug}
           /\ req[t].hist \in 0..MaxHistory
  BY DEF TypeOK, Request

\* What one row may become in a step that starts in VerdictInv.
RowStepOK(old, new) ==
    /\ old.resolved => new.resolved
    /\ new.status = NoBug => ~new.resolved
    /\ new.status = "RESOLVED" => new.verify = "PASS" /\ new.resolved
    /\ new.status = "REGRESSION" => new.resolved

\* Each write of Next leaves every row in a shape VerdictInv allows.
LEMMA RowStep ==
    ASSUME VerdictInv, Next, NEW b \in BugIds
    PROVE  RowStepOK(bugs[b], bugs'[b])
  <1> USE DEF VerdictInv
  <1>1. bugs[b] \in Row /\ RowStepOK(bugs[b], bugs[b])
    BY DEF TypeOK, RowStepOK, NoRowNotResolved, ResolvedWasVerified,
           RegressionWasResolved
  <1>2. ASSUME NEW t \in Threads, NEW new \in Row,
               bugs' = [bugs EXCEPT ![req[t].bug] = new],
               b = req[t].bug => RowStepOK(bugs[b], new)
        PROVE  RowStepOK(bugs[b], bugs'[b])
    BY <1>1, <1>2 DEF TypeOK
  <1>3. ASSUME NEW t \in Threads, RecordInsert(t)
        PROVE  RowStepOK(bugs[b], bugs'[b])
    <2>1. NewRow(req[t].fp) \in Row
      BY NewRowFields, RequestFields
    <2>2. b = req[t].bug => ~bugs[b].resolved
      BY <1>3 DEF RecordInsert, NoRowNotResolved
    <2>3. b = req[t].bug => RowStepOK(bugs[b], NewRow(req[t].fp))
      BY <2>2, ConstantFacts DEF RowStepOK, NewRow
    <2>4. QED BY <1>2, <1>3, <2>1, <2>3 DEF RecordInsert
  <1>4. ASSUME NEW t \in Threads, RecordUpdate(t)
        PROVE  RowStepOK(bugs[b], bugs'[b])
    <2> DEFINE old == bugs[req[t].bug]
               new == Reported(old, req[t].seen, req[t].hist)
    <2>1. old \in Row
      BY RequestFields DEF TypeOK
    <2>2. /\ new \in Row
          /\ new.status = StatusSeenAgain(req[t].seen)
          /\ old.resolved => new.resolved
      BY <2>1, RequestFields, ReportedFields
    <2>3. /\ new.status # "RESOLVED"
          /\ new.status # NoBug
      BY <1>4, <2>2, ConstantFacts, RequestFields
      DEF StatusSeenAgain, SeenIsPast, RecordUpdate
    <2>4. new.status = "REGRESSION" => new.resolved
      BY <1>4, <2>2, ConstantFacts DEF StatusSeenAgain, SeenIsPast, RecordUpdate
    <2>5. RowStepOK(old, new)
      BY <2>2, <2>3, <2>4 DEF RowStepOK
    <2>6. bugs' = [bugs EXCEPT ![req[t].bug] = new]
      BY <1>4 DEF RecordUpdate
    <2> HIDE DEF new
    <2>7. QED BY <1>2, <2>2, <2>5, <2>6
  <1>5. ASSUME NEW t \in Threads, StatusWrite(t)
        PROVE  RowStepOK(bugs[b], bugs'[b])
    <2> DEFINE old == bugs[req[t].bug]
               new == RowAfter(old, req[t].to, req[t].test)
    <2>1. old \in Row
      BY RequestFields DEF TypeOK
    <2>2. /\ new \in Row
          /\ new.status = req[t].to
          /\ old.resolved \/ req[t].to = "RESOLVED" => new.resolved
          /\ req[t].to = "RESOLVED" => new.verify = "PASS"
      BY <2>1, RequestFields, RowAfterFields
    <2>3. req[t].to # NoBug /\ req[t].to # "REGRESSION"
      BY RequestFields, ConstantFacts DEF Targets
    <2>4. bugs' = [bugs EXCEPT ![req[t].bug] = new]
      BY <1>5 DEF StatusWrite
    <2> HIDE DEF new
    <2>5. RowStepOK(old, new)
      BY <2>2, <2>3 DEF RowStepOK
    <2>6. QED BY <1>2, <2>2, <2>4, <2>5
  <1>6. QED
    BY <1>1, <1>3, <1>4, <1>5
    DEF Next, RecordRead, RecordCount, RecordCollision, ConnectionClosed,
        MarkFixing, MarkReadyForVerify, Verify, Ignore, ReadStatus

\* No thread's request becomes "update" except by reading the row.
LEMMA SeenStep ==
    ASSUME VerdictInv, Next PROVE SeenIsPast'
  <1> USE DEF VerdictInv
  <1> DEFINE Past(r) == r.pc = "update" =>
                           /\ r.seen # NoBug
                           /\ r.seen \in {"RESOLVED", "REGRESSION"}
                                 => bugs[r.bug].resolved
  <1>1. \A u \in Threads : req[u].bug \in BugIds /\ Past(req[u])
    BY RequestFields DEF SeenIsPast
  <1>2. ASSUME NEW t \in Threads, NEW new, new.bug \in BugIds, Past(new),
               req' = [req EXCEPT ![t] = new]
        PROVE  \A u \in Threads : req'[u].bug \in BugIds /\ Past(req'[u])
    BY <1>1, <1>2 DEF TypeOK
  <1>3. \A u \in Threads : req'[u].bug \in BugIds /\ Past(req'[u])
    <2>1. ASSUME NEW t \in Threads, Finish(t)
          PROVE  \A u \in Threads : req'[u].bug \in BugIds /\ Past(req'[u])
      <3>1. Idle.bug \in BugIds /\ Past(Idle)
        BY ConstantFacts DEF Idle, Request
      <3>2. QED BY <1>2, <2>1, <3>1 DEF Finish
    <2>2. ASSUME NEW t \in Threads, NEW f \in Fingerprints, RecordRead(t, f)
          PROVE  \A u \in Threads : req'[u].bug \in BugIds /\ Past(req'[u])
      <3>1. LET new == [Idle EXCEPT !.pc = "count", !.fp = f]
            IN  new.bug \in BugIds /\ Past(new)
        BY ConstantFacts DEF Idle, Request
      <3>2. ASSUME NEW c \in RowsOf(f)
            PROVE  LET new == [Idle EXCEPT !.pc = "update", !.fp = f, !.bug = c,
                                           !.seen = bugs[c].status,
                                           !.hist = bugs[c].hist]
                   IN  new.bug \in BugIds /\ Past(new)
        <4>1. /\ c \in BugIds /\ bugs[c].status # NoBug
              /\ bugs[c].status \in {"RESOLVED", "REGRESSION"} => bugs[c].resolved
          BY <3>2 DEF RowsOf, Rows, ResolvedWasVerified, RegressionWasResolved
        <4>2. QED BY <4>1 DEF Idle
      <3>3. QED BY <1>2, <2>2, <3>1, <3>2 DEF RecordRead
    <2>3. ASSUME NEW t \in Threads, RecordCount(t)
          PROVE  \A u \in Threads : req'[u].bug \in BugIds /\ Past(req'[u])
      <3>1. req[t] \in Request /\ Cardinality(Rows) + 1 \in BugIds
        BY <2>3, RowsCounted DEF TypeOK, RecordCount, BugIds
      <3>2. LET new == [req[t] EXCEPT !.pc = "insert",
                                      !.bug = Cardinality(Rows) + 1]
            IN  new.bug \in BugIds /\ Past(new)
        BY <3>1 DEF Request
      <3>3. QED BY ZenonT(40), <1>2, <2>3, <3>2 DEF RecordCount, TypeOK
    <2>4. ASSUME NEW t \in Threads, RecordCollision(t)
          PROVE  \A u \in Threads : req'[u].bug \in BugIds /\ Past(req'[u])
      <3>1. LET new == [req[t] EXCEPT !.pc = "failed"]
            IN  new.bug \in BugIds /\ Past(new)
        BY <1>1 DEF TypeOK, Request
      <3>2. QED BY <1>2, <2>4, <3>1 DEF RecordCollision, TypeOK
    <2>5. ASSUME NEW t \in Threads, NEW c \in BugIds, NEW allowed, NEW to,
                 NEW test, ReadStatus(t, c, allowed, to, test)
          PROVE  \A u \in Threads : req'[u].bug \in BugIds /\ Past(req'[u])
      <3>1. LET new == [Idle EXCEPT !.pc = "write", !.bug = c, !.to = to,
                                    !.test = test]
            IN  new.bug \in BugIds /\ Past(new)
        BY DEF Idle
      <3>2. QED BY <1>2, <2>5, <3>1 DEF ReadStatus
    <2>6. QED
      BY <2>1, <2>2, <2>3, <2>4, <2>5
      DEF Next, RecordInsert, ConnectionClosed, RecordUpdate, StatusWrite,
          ReportDone, MarkFixing, MarkReadyForVerify, Verify, Ignore
  <1>4. \A b \in BugIds : bugs[b].resolved => bugs'[b].resolved
    BY RowStep DEF RowStepOK
  <1>5. QED BY <1>3, <1>4 DEF SeenIsPast

\* VerdictInv is inductive: it holds initially and every step keeps it.
LEMMA VerdictInductive == Spec => []VerdictInv
  <1>1. Init => VerdictInv
    <2> SUFFICES ASSUME Init PROVE VerdictInv
      OBVIOUS
    <2>1. TypeOK
      BY ConstantFacts DEF Init, TypeOK
    <2>2. \A t \in Threads : req[t].pc = "idle"
      BY DEF Init, Idle
    <2>3. \A b \in BugIds : bugs[b].status = "NONE" /\ bugs[b].resolved = FALSE
      BY ConstantFacts DEF Init, EmptyRow
    <2>4. QED
      BY <2>1, <2>2, <2>3
      DEF VerdictInv, SeenIsPast, NoRowNotResolved, ResolvedWasVerified,
          RegressionWasResolved
  <1>2. VerdictInv /\ [Next]_vars /\ TypeOK' => VerdictInv'
    <2> SUFFICES ASSUME VerdictInv, [Next]_vars, TypeOK' PROVE VerdictInv'
      OBVIOUS
    <2>1. CASE Next
      <3>1. NoRowNotResolved' /\ ResolvedWasVerified' /\ RegressionWasResolved'
        BY <2>1, RowStep
        DEF RowStepOK, NoRowNotResolved, ResolvedWasVerified,
            RegressionWasResolved
      <3>2. QED BY <2>1, <3>1, SeenStep DEF VerdictInv
    <2>2. CASE UNCHANGED vars
      BY <2>2
      DEF vars, VerdictInv, TypeOK, SeenIsPast, NoRowNotResolved,
          ResolvedWasVerified, RegressionWasResolved
    <2>3. QED BY <2>1, <2>2
  <1>3. QED BY <1>1, <1>2, TypeCorrect, PTL DEF Spec

\* Whatever calls overlap, no bug is RESOLVED without the PASS of a verify.
THEOREM ResolvedVerified == Spec => []ResolvedWasVerified
  <1>1. VerdictInv => ResolvedWasVerified
    BY DEF VerdictInv
  <1>2. QED BY <1>1, VerdictInductive, PTL

\* Whatever calls overlap, a bug called REGRESSION was resolved once.
THEOREM RegressionResolved == Spec => []RegressionWasResolved
  <1>1. VerdictInv => RegressionWasResolved
    BY DEF VerdictInv
  <1>2. QED BY <1>1, VerdictInductive, PTL

----------------------------------------------------------------------------
\* A number that was counted stays at most one past the rows, and a row that
\* was read is still there.
PlacesKnown ==
    \A t \in Threads :
        /\ req[t].pc = "insert" => \A c \in 1..(req[t].bug - 1) : c \in Rows
        /\ req[t].pc \in {"update", "write"} => req[t].bug \in Rows

CountInv == VerdictInv /\ IdsContiguous /\ PlacesKnown

\* Without gaps, every number up to the count has a row.
LEMMA CountIsLast ==
    ASSUME IdsContiguous, NEW c \in 1..Cardinality(Rows)
    PROVE  c \in Rows
  <1> SUFFICES ASSUME c \notin Rows PROVE FALSE
    OBVIOUS
  <1>1. Cardinality(Rows) \in Nat /\ Rows \subseteq BugIds
    BY RowsCounted
  <1>2. \A b \in Rows : b < c
    BY <1>1 DEF IdsContiguous, BugIds
  <1>3. Rows \in SUBSET (1..(c - 1))
    BY <1>1, <1>2 DEF BugIds
  <1>4. c \in Int /\ c >= 1
    BY <1>1
  <1>5. IsFiniteSet(1..(c - 1)) /\ Cardinality(1..(c - 1)) = c - 1
    BY <1>4, FS_Interval
  <1>6. Cardinality(Rows) <= c - 1
    BY <1>3, <1>5, FS_Subset
  <1>7. QED BY <1>1, <1>6

\* Rows are never deleted, and a new one is inserted at its thread's number.
LEMMA RowsGrow ==
    ASSUME CountInv, Next
    PROVE  /\ Rows \subseteq Rows'
           /\ \A b \in Rows' \ Rows :
                 \E t \in Threads : req[t].pc = "insert" /\ b = req[t].bug
  <1> USE DEF CountInv, VerdictInv
  <1> DEFINE Grow == /\ Rows \subseteq Rows'
                     /\ \A b \in Rows' \ Rows :
                           \E t \in Threads : req[t].pc = "insert" /\ b = req[t].bug
  <1>1. ASSUME NEW t \in Threads, RecordInsert(t) PROVE Grow
    <2>1. NewRow(req[t].fp).status # NoBug
      BY RequestFields, NewRowFields, ConstantFacts
    <2>2. QED BY <1>1, <2>1, RequestFields DEF RecordInsert, Rows, TypeOK
  <1>2. ASSUME NEW t \in Threads, NEW new, new.status # NoBug,
               req[t].bug \in Rows, bugs' = [bugs EXCEPT ![req[t].bug] = new]
        PROVE  Grow
    BY <1>2 DEF Rows, TypeOK
  <1>3. ASSUME NEW t \in Threads, RecordUpdate(t) PROVE Grow
    <2> DEFINE new == Reported(bugs[req[t].bug], req[t].seen, req[t].hist)
    <2>1. new.status = StatusSeenAgain(req[t].seen)
      BY RequestFields, ReportedFields DEF TypeOK
    <2>4. new.status # NoBug
      BY <1>3, <2>1, ConstantFacts
      DEF RecordUpdate, SeenIsPast, StatusSeenAgain
    <2>2. req[t].bug \in Rows /\ bugs' = [bugs EXCEPT ![req[t].bug] = new]
      BY <1>3 DEF RecordUpdate, PlacesKnown
    <2> HIDE DEF new
    <2>3. QED BY <1>2, <2>4, <2>2
  <1>4. ASSUME NEW t \in Threads, StatusWrite(t) PROVE Grow
    <2> DEFINE new == RowAfter(bugs[req[t].bug], req[t].to, req[t].test)
    <2>1. new.status # NoBug
      BY ZenonT(40), ConstantFacts, RequestFields, RowAfterFields DEF TypeOK, Targets
    <2>2. req[t].bug \in Rows /\ bugs' = [bugs EXCEPT ![req[t].bug] = new]
      BY <1>4 DEF StatusWrite, PlacesKnown
    <2> HIDE DEF new
    <2>3. QED BY <1>2, <2>1, <2>2
  <1>5. ASSUME UNCHANGED bugs PROVE Grow
    BY <1>5 DEF Rows
  <1>6. QED
    BY <1>1, <1>3, <1>4, <1>5
    DEF Next, RecordRead, RecordCount, RecordCollision, ConnectionClosed,
        MarkFixing, MarkReadyForVerify, Verify, Ignore, ReadStatus

\* A thread gets a place by reading or by counting, and keeps it.
LEMMA PlaceStep ==
    ASSUME CountInv, Next PROVE PlacesKnown'
  <1> USE DEF CountInv, VerdictInv
  <1> DEFINE Place(r) ==
                /\ r.pc = "insert" => \A c \in 1..(r.bug - 1) : c \in Rows
                /\ r.pc \in {"update", "write"} => r.bug \in Rows
  <1>1. ASSUME NEW t \in Threads, NEW new, Place(new),
               req' = [req EXCEPT ![t] = new]
        PROVE  \A u \in Threads : Place(req'[u])
    BY <1>1 DEF TypeOK, PlacesKnown
  <1>2. \A u \in Threads : Place(req'[u])
    <2>1. ASSUME NEW t \in Threads, Finish(t)
          PROVE  \A u \in Threads : Place(req'[u])
      <3>1. Place(Idle)
        BY DEF Idle
      <3>2. QED BY <1>1, <2>1, <3>1 DEF Finish
    <2>2. ASSUME NEW t \in Threads, NEW f \in Fingerprints, RecordRead(t, f)
          PROVE  \A u \in Threads : Place(req'[u])
      <3>1. Place([Idle EXCEPT !.pc = "count", !.fp = f])
        BY DEF Idle
      <3>2. ASSUME NEW c \in RowsOf(f)
            PROVE  Place([Idle EXCEPT !.pc = "update", !.fp = f, !.bug = c,
                                      !.seen = bugs[c].status,
                                      !.hist = bugs[c].hist])
        BY <3>2 DEF Idle, RowsOf
      <3>3. QED BY <1>1, <2>2, <3>1, <3>2 DEF RecordRead
    <2>3. ASSUME NEW t \in Threads, RecordCount(t)
          PROVE  \A u \in Threads : Place(req'[u])
      <3> DEFINE n == Cardinality(Rows)
                 new == [req[t] EXCEPT !.pc = "insert", !.bug = n + 1]
      <3>1. n \in Nat /\ \A c \in 1..n : c \in Rows
        BY RowsCounted, CountIsLast
      <3>2. new.pc = "insert" /\ new.bug = n + 1
        BY DEF TypeOK, Request
      <3>3. req' = [req EXCEPT ![t] = new]
        BY <2>3 DEF RecordCount, TypeOK
      <3> HIDE DEF new, n
      <3>4. new.bug - 1 = n
        BY <3>1, <3>2
      <3>5. Place(new)
        BY <3>1, <3>2, <3>4
      <3>6. QED BY <1>1, <3>3, <3>5
    <2>4. ASSUME NEW t \in Threads, RecordCollision(t)
          PROVE  \A u \in Threads : Place(req'[u])
      <3>1. Place([req[t] EXCEPT !.pc = "failed"])
        BY DEF TypeOK, Request
      <3>2. QED BY <1>1, <2>4, <3>1 DEF RecordCollision, TypeOK
    <2>5. ASSUME NEW t \in Threads, NEW b \in BugIds, NEW allowed, NEW to,
                 NEW test, allowed \subseteq Statuses,
                 ReadStatus(t, b, allowed, to, test)
          PROVE  \A u \in Threads : Place(req'[u])
      <3>1. b \in Rows
        BY <2>5, ConstantFacts DEF ReadStatus, Rows
      <3>2. Place([Idle EXCEPT !.pc = "write", !.bug = b, !.to = to, !.test = test])
        BY <3>1 DEF Idle
      <3>3. QED BY <1>1, <2>5, <3>2 DEF ReadStatus
    <2>6. /\ {"OPEN", "REGRESSION"} \subseteq Statuses
          /\ {"FIXING"} \subseteq Statuses
          /\ {"READY_FOR_VERIFY"} \subseteq Statuses
      BY ConstantFacts
    <2>7. QED
      BY <2>1, <2>2, <2>3, <2>4, <2>5, <2>6
      DEF Next, RecordInsert, ConnectionClosed, RecordUpdate, StatusWrite,
          ReportDone, MarkFixing, MarkReadyForVerify, Verify, Ignore
  <1>3. QED BY <1>2, RowsGrow DEF PlacesKnown

\* IdsContiguous with PlacesKnown is inductive.
LEMMA BugIdsContiguousStep == Spec => [](IdsContiguous /\ PlacesKnown)
  <1>1. Init => IdsContiguous /\ PlacesKnown
    <2> SUFFICES ASSUME Init PROVE IdsContiguous /\ PlacesKnown
      OBVIOUS
    <2>1. Rows = {}
      BY ConstantFacts DEF Init, Rows, EmptyRow
    <2>2. \A t \in Threads : req[t].pc = "idle"
      BY DEF Init, Idle
    <2>3. QED BY <2>1, <2>2 DEF IdsContiguous, PlacesKnown
  <1>2. CountInv /\ [Next]_vars => IdsContiguous' /\ PlacesKnown'
    <2> SUFFICES ASSUME CountInv, [Next]_vars PROVE IdsContiguous' /\ PlacesKnown'
      OBVIOUS
    <2>1. CASE Next
      <3>1. ASSUME NEW b \in Rows', NEW c \in 1..b PROVE c \in Rows'
        <4>1. CASE b \in Rows
          BY <2>1, <4>1, RowsGrow DEF CountInv, IdsContiguous
        <4>2. CASE b \notin Rows
          <5>1. b \in Nat
            BY <3>1 DEF Rows, BugIds
          <5>2. c = b \/ c \in 1..(b - 1)
            BY <5>1
          <5>3. c = b \/ c \in Rows
            BY <2>1, <4>2, <5>2, RowsGrow DEF CountInv, PlacesKnown
          <5>4. QED BY <2>1, <5>3, RowsGrow
        <4>3. QED BY <4>1, <4>2
      <3>2. QED BY <2>1, <3>1, PlaceStep DEF IdsContiguous
    <2>2. CASE UNCHANGED vars
      BY <2>2 DEF vars, CountInv, IdsContiguous, PlacesKnown, Rows
    <2>3. QED BY <2>1, <2>2
  <1>3. CountInv <=> VerdictInv /\ IdsContiguous /\ PlacesKnown
    BY DEF CountInv
  <1>4. QED BY <1>1, <1>2, <1>3, VerdictInductive, PTL DEF Spec

\* The parts of CountInv together, for the lemmas that need them all.
LEMMA CountInductive == Spec => []CountInv
  <1>1. CountInv <=> VerdictInv /\ IdsContiguous /\ PlacesKnown
    BY DEF CountInv
  <1>2. QED BY <1>1, VerdictInductive, BugIdsContiguousStep, PTL

----------------------------------------------------------------------------
(***************************************************************************)
(* The sum of the counters.  Total is a recursive function on 0..n; what   *)
(* holds of every prefix is proved by looking at the least one that fails. *)
(***************************************************************************)
IsTotal(g, h, n) == g = [i \in 0..n |-> IF i = 0 THEN 0 ELSE g[i - 1] + h[i]]

LEMMA HasLeast ==
    ASSUME NEW T \in SUBSET Nat, T # {}
    PROVE  \E x \in T : \A y \in T : x <= y
  <1>1. PICK x \in T : \A y \in T : ~(<<y, x>> \in OpToRel(<, Nat))
    BY NatLessThanWellFounded, WFMin
  <1>2. \A y \in T : ~(y < x)
    BY <1>1 DEF OpToRel
  <1>3. QED BY <1>2

LEMMA TotalExists ==
    ASSUME NEW N \in Nat, NEW h
    PROVE  \E g : IsTotal(g, h, N)
  <1> DEFINE T == {n \in Nat : ~\E g : IsTotal(g, h, n)}
  <1>1. SUFFICES ASSUME T # {} PROVE FALSE
    OBVIOUS
  <1>2. PICK n \in T : \A m \in T : n <= m
    BY <1>1, HasLeast
  <1>3. CASE n = 0
    <2>1. IsTotal([i \in 0..0 |-> 0], h, 0)
      BY DEF IsTotal
    <2>2. QED BY <1>3, <2>1
  <1>4. CASE n # 0
    <2>1. n - 1 \in Nat /\ n - 1 \notin T
      BY <1>2, <1>4
    <2>2. PICK g : IsTotal(g, h, n - 1)
      BY <2>1
    <2> DEFINE f == [i \in 0..n |-> IF i = n THEN g[n - 1] + h[n] ELSE g[i]]
    <2>3. \A i \in 0..n : f[i] = IF i = 0 THEN 0 ELSE f[i - 1] + h[i]
      BY <2>2, <1>4 DEF IsTotal
    <2>4. IsTotal(f, h, n)
      BY <2>3 DEF IsTotal
    <2>5. QED BY <2>4
  <1>5. QED BY <1>3, <1>4

LEMMA TotalSum ==
    ASSUME NEW n \in Nat, NEW h
    PROVE  \E g : IsTotal(g, h, n) /\ Total(h, n) = g[n]
  <1> DEFINE g == CHOOSE g : IsTotal(g, h, n)
  <1>1. IsTotal(g, h, n)
    BY TotalExists
  <1>2. Total(h, n) = g[n]
    BY DEF Total, IsTotal
  <1>3. QED BY <1>1, <1>2

\* Nothing but zeros adds up to zero.
LEMMA TotalZero ==
    ASSUME NEW n \in Nat
    PROVE  Total([i \in 1..n |-> 0], n) = 0
  <1>1. PICK g : /\ IsTotal(g, [i \in 1..n |-> 0], n)
                 /\ Total([i \in 1..n |-> 0], n) = g[n]
    BY TotalSum
  <1> DEFINE T == {i \in 0..n : g[i] # 0}
  <1>2. SUFFICES ASSUME T # {} PROVE FALSE
    BY <1>1
  <1>3. PICK i \in T : \A j \in T : i <= j
    <2>1. T \in SUBSET Nat
      OBVIOUS
    <2> HIDE DEF T
    <2>2. QED BY <1>2, <2>1, HasLeast
  <1>4. i # 0 /\ g[i] = g[i - 1] + 0
    BY <1>1, <1>3 DEF IsTotal
  <1>5. i - 1 \in 0..n /\ i - 1 \notin T
    BY <1>3, <1>4
  <1>6. QED BY <1>3, <1>4, <1>5

\* One summand more makes the sum one more.
LEMMA TotalPlusOne ==
    ASSUME NEW n \in Nat, NEW h \in [1..n -> Nat], NEW c \in 1..n
    PROVE  Total([h EXCEPT ![c] = @ + 1], n) = Total(h, n) + 1
  <1> DEFINE k == [h EXCEPT ![c] = @ + 1]
  <1>1. PICK g : IsTotal(g, h, n) /\ Total(h, n) = g[n]
    BY TotalSum
  <1>2. PICK f : IsTotal(f, k, n) /\ Total(k, n) = f[n]
    BY TotalSum
  <1> DEFINE Same(i) == /\ g[i] \in Nat
                        /\ f[i] = g[i] + IF i >= c THEN 1 ELSE 0
             T == {i \in 0..n : ~Same(i)}
  <1>3. T = {}
    <2>1. SUFFICES ASSUME T # {} PROVE FALSE
      OBVIOUS
    <2>2. PICK i \in T : \A j \in T : i <= j
      <3>1. T \in SUBSET Nat
        OBVIOUS
      <3> HIDE DEF T
      <3>2. QED BY <2>1, <3>1, HasLeast
    <2>3. i # 0
      BY <1>1, <1>2, <2>2 DEF IsTotal
    <2>4. i \in 1..n /\ i - 1 \in 0..n /\ i - 1 \notin T
      BY <2>2, <2>3
    <2>5. g[i - 1] \in Nat /\ f[i - 1] = g[i - 1] + IF i - 1 >= c THEN 1 ELSE 0
      BY <2>4
    <2>6. g[i] = g[i - 1] + h[i] /\ f[i] = f[i - 1] + k[i]
      BY SMTT(30), <1>1, <1>2, <2>4 DEF IsTotal
    <2>7. h[i] \in Nat /\ k[i] = h[i] + IF i = c THEN 1 ELSE 0
      BY <2>4
    <2> HIDE DEF k
    <2>8. Same(i)
      BY SMTT(30), <2>4, <2>5, <2>6, <2>7
    <2>9. QED BY <2>2, <2>8
  <1>4. n \in 0..n /\ n >= c
    OBVIOUS
  <1>5. Same(n)
    BY <1>3, <1>4
  <1>6. QED BY <1>1, <1>2, <1>4, <1>5

----------------------------------------------------------------------------
\* A report updates a row of its own bug.
SameBug == \A t \in Threads : req[t].pc = "update" => bugs[req[t].bug].fp = req[t].fp

\* A step that finishes no report leaves the counters and their bugs alone.
CountersStay ==
    /\ Rows' = Rows
    /\ \A b \in Rows : bugs'[b].fp = bugs[b].fp /\ bugs'[b].occ = bugs[b].occ
    /\ UNCHANGED reports

\* A finished report of t adds one to one counter, of a row of its own bug.
OneMore(t) ==
    LET f == req[t].fp
        c == req[t].bug
    IN  /\ reports' = [reports EXCEPT ![f] = @ + 1]
        /\ Rows' = Rows \cup {c}
        /\ bugs'[c].fp = f
        /\ \A b \in Rows \ {c} : bugs'[b] = bugs[b]
        /\ \/ /\ req[t].pc = "update"
              /\ c \in Rows
              /\ bugs[c].fp = f
              /\ bugs'[c].occ = bugs[c].occ + 1
           \/ /\ req[t].pc = "insert"
              /\ c \notin Rows
              /\ bugs'[c].occ = 1

LEMMA CountersStep ==
    ASSUME CountInv, SameBug, Next
    PROVE  CountersStay \/ \E t \in Threads : OneMore(t)
  <1> USE DEF CountInv, VerdictInv
  <1>1. ASSUME NEW t \in Threads, RecordInsert(t) PROVE OneMore(t)
    <2>1. NewRow(req[t].fp).status # NoBug
      BY RequestFields, NewRowFields, ConstantFacts
    <2>2. NewRow(req[t].fp).occ = 1 /\ NewRow(req[t].fp).fp = req[t].fp
      BY DEF NewRow
    <2>3. QED
      BY <1>1, <2>1, <2>2, RequestFields
      DEF RecordInsert, ReportDone, OneMore, Rows, TypeOK
  <1>2. ASSUME NEW t \in Threads, RecordUpdate(t) PROVE OneMore(t)
    <2> DEFINE old == bugs[req[t].bug]
               new == Reported(old, req[t].seen, req[t].hist)
    <2>1. old \in Row
      BY RequestFields DEF TypeOK
    <2>2. new.status = StatusSeenAgain(req[t].seen)
      BY <2>1, RequestFields, ReportedFields
    <2>3. new.status # NoBug
      BY <1>2, <2>2, ConstantFacts DEF RecordUpdate, SeenIsPast, StatusSeenAgain
    <2>4. new.occ = old.occ + 1 /\ new.fp = old.fp
      BY <2>1 DEF Reported, Row
    <2>5. req[t].bug \in Rows /\ bugs' = [bugs EXCEPT ![req[t].bug] = new]
      BY <1>2 DEF RecordUpdate, PlacesKnown
    <2>6. req[t].pc = "update" /\ old.fp = req[t].fp
      BY <1>2 DEF RecordUpdate, SameBug
    <2>7. reports' = [reports EXCEPT ![req[t].fp] = @ + 1]
      BY <1>2 DEF RecordUpdate, ReportDone
    <2> HIDE DEF new
    <2>8. QED BY <2>3, <2>4, <2>5, <2>6, <2>7 DEF OneMore, Rows, TypeOK
  <1>3. ASSUME NEW t \in Threads, StatusWrite(t) PROVE CountersStay
    <2> DEFINE old == bugs[req[t].bug]
               new == RowAfter(old, req[t].to, req[t].test)
    <2>1. old \in Row
      BY RequestFields DEF TypeOK
    <2>2. new.status # NoBug
      BY ZenonT(40), <2>1, ConstantFacts, RequestFields, RowAfterFields DEF Targets
    <2>3. new.occ = old.occ /\ new.fp = old.fp
      BY <2>1 DEF RowAfter, Row
    <2>4. /\ req[t].bug \in Rows /\ UNCHANGED reports
          /\ bugs' = [bugs EXCEPT ![req[t].bug] = new]
      BY <1>3 DEF StatusWrite, PlacesKnown
    <2> HIDE DEF new
    <2>5. QED BY <2>2, <2>3, <2>4 DEF CountersStay, Rows, TypeOK
  <1>4. ASSUME UNCHANGED <<bugs, reports>> PROVE CountersStay
    BY <1>4 DEF CountersStay, Rows
  <1>5. QED
    BY <1>1, <1>2, <1>3, <1>4
    DEF Next, RecordRead, RecordCount, RecordCollision, ConnectionClosed,
        MarkFixing, MarkReadyForVerify, Verify, Ignore, ReadStatus

\* The bug of a row never changes, and a report reads a row of its own bug.
LEMMA SameBugStep ==
    ASSUME CountInv, SameBug, Next PROVE SameBug'
  <1> USE DEF CountInv, VerdictInv
  <1>1. \A b \in Rows : bugs'[b].fp = bugs[b].fp
    BY CountersStep DEF CountersStay, OneMore
  <1> DEFINE Own(r) == r.pc = "update" => r.bug \in Rows /\ bugs[r.bug].fp = r.fp
  <1>2. \A u \in Threads : Own(req[u])
    BY DEF SameBug, PlacesKnown
  <1>3. ASSUME NEW t \in Threads, NEW new, Own(new), req' = [req EXCEPT ![t] = new]
        PROVE  \A u \in Threads : Own(req'[u])
    BY <1>2, <1>3 DEF TypeOK
  <1>4. ASSUME NEW t \in Threads, Finish(t) PROVE \A u \in Threads : Own(req'[u])
    BY <1>3, <1>4 DEF Finish, Idle
  <1>5. ASSUME NEW t \in Threads, NEW f \in Fingerprints, RecordRead(t, f)
        PROVE  \A u \in Threads : Own(req'[u])
    <2>1. Own([Idle EXCEPT !.pc = "count", !.fp = f])
      BY DEF Idle
    <2>2. ASSUME NEW c \in RowsOf(f)
          PROVE  Own([Idle EXCEPT !.pc = "update", !.fp = f, !.bug = c,
                                  !.seen = bugs[c].status, !.hist = bugs[c].hist])
      BY <2>2 DEF Idle, RowsOf
    <2>3. QED BY <1>3, <1>5, <2>1, <2>2 DEF RecordRead
  <1>6. ASSUME NEW t \in Threads, RecordCount(t) \/ RecordCollision(t)
        PROVE  \A u \in Threads : Own(req'[u])
    <2>1. /\ [req[t] EXCEPT !.pc = "insert", !.bug = Cardinality(Rows) + 1].pc = "insert"
          /\ [req[t] EXCEPT !.pc = "failed"].pc = "failed"
      BY DEF TypeOK, Request
    <2>2. QED BY <1>3, <1>6, <2>1 DEF RecordCount, RecordCollision, TypeOK
  <1>7. ASSUME NEW t \in Threads, NEW b, NEW allowed, NEW to, NEW test,
               ReadStatus(t, b, allowed, to, test)
        PROVE  \A u \in Threads : Own(req'[u])
    <2>1. Own([Idle EXCEPT !.pc = "write", !.bug = b, !.to = to, !.test = test])
      BY DEF Idle
    <2>2. QED BY <1>3, <1>7, <2>1 DEF ReadStatus
  <1>8. \A u \in Threads : Own(req'[u])
    BY <1>4, <1>5, <1>6, <1>7
    DEF Next, RecordInsert, ConnectionClosed, RecordUpdate, StatusWrite,
        ReportDone, MarkFixing, MarkReadyForVerify, Verify, Ignore
  <1>9. QED BY <1>1, <1>8 DEF SameBug

LEMMA SameBugInductive == Spec => []SameBug
  <1>1. Init => SameBug
    BY DEF Init, SameBug, Idle
  <1>2. CountInv /\ SameBug /\ [Next]_vars => SameBug'
    <2>1. UNCHANGED vars /\ SameBug => SameBug'
      BY DEF vars, SameBug
    <2>2. QED BY <2>1, SameBugStep
  <1>3. QED BY <1>1, <1>2, CountInductive, PTL DEF Spec

\* A step that finishes a report of f adds one to the sum of f's counters.
LEMMA OccurrencesStep ==
    ASSUME CountInv, SameBug, Next, OccurrencesExact PROVE OccurrencesExact'
  <1> USE DEF CountInv, VerdictInv
  <1>1. Rows \subseteq BugIds /\ \A b \in BugIds : bugs[b].occ \in Nat
    BY DEF Rows, TypeOK, Row
  <1>2. SUFFICES ASSUME NEW f \in Fingerprints
                 PROVE  Total(Occurrences(f)', MaxBugs) = reports'[f]
    BY DEF OccurrencesExact
  <1>3. Total(Occurrences(f), MaxBugs) = reports[f]
    BY DEF OccurrencesExact
  <1>4. ASSUME CountersStay
        PROVE  Occurrences(f)' = Occurrences(f) /\ reports'[f] = reports[f]
    BY <1>4 DEF CountersStay, Occurrences, RowsOf
  <1>5. ASSUME NEW t \in Threads, OneMore(t), f # req[t].fp
        PROVE  Occurrences(f)' = Occurrences(f) /\ reports'[f] = reports[f]
    BY <1>5 DEF OneMore, Occurrences, RowsOf, TypeOK
  <1>6. ASSUME NEW t \in Threads, OneMore(t), f = req[t].fp
        PROVE  Total(Occurrences(f)', MaxBugs) = reports'[f]
    <2> DEFINE c == req[t].bug
    <2>1. c \in BugIds
      BY RequestFields
    <2>2. Occurrences(f) \in [1..MaxBugs -> Nat]
      BY <1>1 DEF Occurrences, BugIds
    <2>3. Occurrences(f)' = [Occurrences(f) EXCEPT ![c] = @ + 1]
      BY <1>1, <1>6, <2>1 DEF OneMore, Occurrences, RowsOf
    <2>4. Total([Occurrences(f) EXCEPT ![c] = @ + 1], MaxBugs)
              = Total(Occurrences(f), MaxBugs) + 1
      BY <2>1, <2>2, TotalPlusOne DEF BugIds
    <2>5. reports'[f] = reports[f] + 1
      BY <1>6 DEF OneMore, TypeOK
    <2>6. QED BY <1>3, <2>3, <2>4, <2>5
  <1>7. QED BY <1>3, <1>4, <1>5, <1>6, CountersStep

\* Whatever calls overlap, the counters add up to the reports that returned.
THEOREM NoReportLost == Spec => []OccurrencesExact
  <1>1. Init => OccurrencesExact
    <2> SUFFICES ASSUME Init, NEW f \in Fingerprints
                 PROVE  Total(Occurrences(f), MaxBugs) = reports[f]
      BY DEF OccurrencesExact
    <2>1. Rows = {}
      BY ConstantFacts DEF Init, Rows, EmptyRow
    <2>2. Occurrences(f) = [i \in 1..MaxBugs |-> 0]
      BY <2>1 DEF Occurrences, RowsOf, BugIds
    <2>3. QED BY <2>2, TotalZero DEF Init
  <1>2. CountInv /\ SameBug /\ OccurrencesExact /\ [Next]_vars => OccurrencesExact'
    <2>1. UNCHANGED vars /\ OccurrencesExact => OccurrencesExact'
      BY DEF vars, OccurrencesExact, Occurrences, RowsOf, Rows
    <2>2. QED BY <2>1, OccurrencesStep
  <1>3. QED BY <1>1, <1>2, CountInductive, SameBugInductive, PTL DEF Spec

----------------------------------------------------------------------------
(***************************************************************************)
(* With one thread, what the thread read is still so when it writes.       *)
(***************************************************************************)
OneThread == \A s, t \in Threads : s = t

\* The statuses a status call may find, by what it will write.
From(to) == CASE to = "FIXING"           -> {"OPEN", "REGRESSION"}
              [] to = "READY_FOR_VERIFY" -> {"FIXING"}
              [] to = "IGNORED"          -> Statuses
              [] OTHER                   -> {"READY_FOR_VERIFY"}

StillAsRead ==
    \A t \in Threads :
        /\ req[t].pc = "update" => req[t].seen = bugs[req[t].bug].status
        /\ req[t].pc = "write" => bugs[req[t].bug].status \in From(req[t].to)

\* With one thread nothing moves between its read and its write.
LEMMA StillStep ==
    ASSUME OneThread, CountInv, StillAsRead, Next PROVE StillAsRead'
  <1> USE DEF CountInv, VerdictInv
  <1>1. ASSUME NEW t \in Threads, NEW new, req' = [req EXCEPT ![t] = new],
               /\ new.pc = "update" => new.seen = bugs'[new.bug].status
               /\ new.pc = "write" => bugs'[new.bug].status \in From(new.to)
        PROVE  StillAsRead'
    BY <1>1 DEF OneThread, TypeOK, StillAsRead
  <1>2. ASSUME NEW t \in Threads, Finish(t) PROVE StillAsRead'
    BY <1>1, <1>2 DEF Finish, Idle
  <1>3. ASSUME NEW t \in Threads, NEW f \in Fingerprints, RecordRead(t, f)
        PROVE  StillAsRead'
    <2>1. LET new == [Idle EXCEPT !.pc = "count", !.fp = f]
          IN  new.pc = "count"
      BY DEF Idle
    <2>2. ASSUME NEW c \in RowsOf(f)
          PROVE  LET new == [Idle EXCEPT !.pc = "update", !.fp = f, !.bug = c,
                                         !.seen = bugs[c].status,
                                         !.hist = bugs[c].hist]
                 IN  new.pc = "update" /\ new.seen = bugs[new.bug].status
      BY DEF Idle
    <2>3. QED BY <1>1, <1>3, <2>1, <2>2 DEF RecordRead
  <1>4. ASSUME NEW t \in Threads, RecordCount(t) \/ RecordCollision(t)
        PROVE  StillAsRead'
    <2>1. /\ [req[t] EXCEPT !.pc = "insert", !.bug = Cardinality(Rows) + 1].pc = "insert"
          /\ [req[t] EXCEPT !.pc = "failed"].pc = "failed"
      BY DEF TypeOK, Request
    <2>2. QED BY <1>1, <1>4, <2>1 DEF RecordCount, RecordCollision, TypeOK
  <1>5. ASSUME NEW t \in Threads, NEW b \in BugIds, NEW to,
               NEW test, ReadStatus(t, b, From(to), to, test)
        PROVE  StillAsRead'
    <2>1. LET new == [Idle EXCEPT !.pc = "write", !.bug = b, !.to = to,
                                  !.test = test]
          IN  new.pc = "write" /\ bugs[new.bug].status \in From(new.to)
      BY <1>5 DEF Idle, ReadStatus
    <2>2. QED BY <1>1, <1>5, <2>1 DEF ReadStatus
  <1>6. /\ From("FIXING") = {"OPEN", "REGRESSION"}
        /\ From("READY_FOR_VERIFY") = {"FIXING"}
        /\ From("IGNORED") = Statuses
        /\ From("RESOLVED") = {"READY_FOR_VERIFY"}
        /\ From("OPEN") = {"READY_FOR_VERIFY"}
    BY DEF From
  <1>7. ASSUME NEW t \in Threads, NEW b \in BugIds, NEW passed \in BOOLEAN,
               NEW test \in BOOLEAN, Verify(t, b, passed, test)
        PROVE  StillAsRead'
    BY <1>5, <1>6, <1>7 DEF Verify
  <1>8. ASSUME NEW t \in Threads, NEW b \in BugIds,
               MarkFixing(t, b) \/ MarkReadyForVerify(t, b) \/ Ignore(t, b)
        PROVE  StillAsRead'
    <2>1. CASE MarkFixing(t, b)
      <3>1. ReadStatus(t, b, From("FIXING"), "FIXING", FALSE)
        BY <1>6, <2>1 DEF MarkFixing
      <3>2. QED BY <1>5, <3>1
    <2>2. CASE MarkReadyForVerify(t, b)
      <3>1. ReadStatus(t, b, From("READY_FOR_VERIFY"), "READY_FOR_VERIFY", FALSE)
        BY <1>6, <2>2 DEF MarkReadyForVerify
      <3>2. QED BY <1>5, <3>1
    <2>3. CASE Ignore(t, b)
      <3>1. ReadStatus(t, b, From("IGNORED"), "IGNORED", FALSE)
        BY <1>6, <2>3 DEF Ignore
      <3>2. QED BY <1>5, <3>1
    <2>4. QED BY <1>8, <2>1, <2>2, <2>3
  <1>9. QED
    BY <1>2, <1>3, <1>4, <1>7, <1>8
    DEF Next, RecordInsert, ConnectionClosed, RecordUpdate, StatusWrite,
        ReportDone

\* A write of one row is a move of one bug.
LEMMA WriteIsMove ==
    ASSUME TypeOK, NEW b \in BugIds, NEW new, NEW from,
           bugs' = [bugs EXCEPT ![b] = new], bugs[b].status \in from
    PROVE  Lifecycle!Move(b, from, new.status)
  BY DEF TypeOK, bugStatus, Lifecycle!Move

\* A write of one row that keeps its status is no move.
LEMMA WriteIsStutter ==
    ASSUME TypeOK, NEW b \in BugIds, NEW new,
           bugs' = [bugs EXCEPT ![b] = new], bugs[b].status = new.status
    PROVE  UNCHANGED bugStatus
  BY DEF TypeOK, bugStatus

\* With one thread every step of the store is a move of the lifecycle or
\* leaves it alone.
LEMMA StepImplements ==
    ASSUME CountInv, StillAsRead, Next
    PROVE  [Lifecycle!LifecycleNext]_bugStatus
  <1> USE DEF CountInv, VerdictInv
  <1>1. ASSUME NEW t \in Threads, RecordInsert(t)
        PROVE  Lifecycle!LifecycleNext
    <2>1. /\ req[t].bug \in BugIds
          /\ bugs[req[t].bug].status \in {Lifecycle!NoBug}
          /\ bugs' = [bugs EXCEPT ![req[t].bug] = NewRow(req[t].fp)]
          /\ NewRow(req[t].fp).status = "OPEN"
      BY <1>1, RequestFields, NewRowFields DEF RecordInsert, NoBug
    <2>2. Lifecycle!Create(req[t].bug)
      BY <2>1, WriteIsMove DEF Lifecycle!Create
    <2>3. QED BY <2>1, <2>2 DEF Lifecycle!LifecycleNext
  <1>2. ASSUME NEW t \in Threads, RecordUpdate(t)
        PROVE  [Lifecycle!LifecycleNext]_bugStatus
    <2> DEFINE new == Reported(bugs[req[t].bug], req[t].seen, req[t].hist)
    <2>1. /\ req[t].bug \in BugIds
          /\ new.status = StatusSeenAgain(bugs[req[t].bug].status)
          /\ bugs' = [bugs EXCEPT ![req[t].bug] = new]
      BY <1>2, RequestFields, ReportedFields DEF RecordUpdate, StillAsRead, TypeOK
    <2> HIDE DEF new
    <2>2. CASE bugs[req[t].bug].status = "RESOLVED"
      <3>1. Lifecycle!Reappear(req[t].bug)
        BY <2>1, <2>2, WriteIsMove
        DEF Lifecycle!Reappear, Lifecycle!Reappears, StatusSeenAgain
      <3>2. QED BY <2>1, <3>1 DEF Lifecycle!LifecycleNext
    <2>3. CASE bugs[req[t].bug].status # "RESOLVED"
      BY <2>1, <2>3, WriteIsStutter DEF StatusSeenAgain
    <2>4. QED BY <2>2, <2>3
  <1>3. ASSUME NEW t \in Threads, StatusWrite(t)
        PROVE  Lifecycle!LifecycleNext
    <2> DEFINE b == req[t].bug
               new == RowAfter(bugs[b], req[t].to, req[t].test)
    <2>1. /\ b \in BugIds /\ req[t].to \in Targets
          /\ bugs[b].status \in From(req[t].to)
          /\ bugs' = [bugs EXCEPT ![b] = new]
          /\ new.status = req[t].to
      BY <1>3, RequestFields, RowAfterFields DEF StatusWrite, StillAsRead, TypeOK
    <2> HIDE DEF new, b
    <2>2. Lifecycle!Move(b, From(req[t].to), req[t].to)
      BY <2>1, WriteIsMove
    <2>3. \/ Lifecycle!StartFixing(b)
          \/ Lifecycle!OfferFix(b)
          \/ Lifecycle!VerifyPass(b)
          \/ Lifecycle!VerifyFail(b)
          \/ Lifecycle!Dismiss(b)
      BY <2>1, <2>2
      DEF From, Targets, Lifecycle!StartFixing, Lifecycle!OfferFix,
          Lifecycle!VerifyPass, Lifecycle!VerifyFail, Lifecycle!Dismiss, Statuses
    <2>4. QED BY <2>1, <2>3 DEF Lifecycle!LifecycleNext
  <1>4. ASSUME UNCHANGED bugs PROVE UNCHANGED bugStatus
    BY <1>4 DEF bugStatus
  <1>5. QED
    BY <1>1, <1>2, <1>3, <1>4
    DEF Next, RecordRead, RecordCount, RecordCollision, ConnectionClosed,
        MarkFixing, MarkReadyForVerify, Verify, Ignore, ReadStatus

\* Whatever reports overlap, bug numbers have no gap.
THEOREM BugIdsContiguous == Spec => []IdsContiguous
  <1>1. QED BY BugIdsContiguousStep, PTL

\* One caller at a time: the store implements the documented lifecycle.
THEOREM SerialStoreImplementsLifecycle ==
    ASSUME OneThread PROVE Spec => ImplementsLifecycle
  <1>1. Init => StillAsRead /\ Lifecycle!LifecycleInit
    <2> SUFFICES ASSUME Init PROVE StillAsRead /\ Lifecycle!LifecycleInit
      OBVIOUS
    <2>1. \A t \in Threads : req[t].pc = "idle"
      BY DEF Init, Idle
    <2>2. \A b \in BugIds : bugs[b].status = Lifecycle!NoBug
      BY DEF Init, EmptyRow, NoBug
    <2>3. QED BY <2>1, <2>2 DEF StillAsRead, bugStatus, Lifecycle!LifecycleInit
  <1>2. CountInv /\ StillAsRead /\ [Next]_vars => StillAsRead'
    <2>1. UNCHANGED vars /\ StillAsRead => StillAsRead'
      BY DEF vars, StillAsRead
    <2>2. QED BY <2>1, StillStep
  <1>3. CountInv /\ StillAsRead /\ [Next]_vars => [Lifecycle!LifecycleNext]_bugStatus
    <2>1. UNCHANGED vars => UNCHANGED bugStatus
      BY DEF vars, bugStatus
    <2>2. QED BY <2>1, StepImplements
  <1>4. QED
    BY <1>1, <1>2, <1>3, CountInductive, PTL
    DEF Spec, ImplementsLifecycle, Lifecycle!LifecycleSpec
----------------------------------------------------------------------------
\* With one thread no row of the bug appears between the SELECT that found
\* none and the INSERT.
FirstReport ==
    \A t \in Threads : req[t].pc \in {"count", "insert"} => RowsOf(req[t].fp) = {}

LEMMA FirstReportStep ==
    ASSUME OneThread, CountInv, FirstReport, Next PROVE FirstReport'
  <1> USE DEF CountInv, VerdictInv
  <1>1. ASSUME NEW t \in Threads, NEW new, req' = [req EXCEPT ![t] = new],
               NEW f, new.fp = f, RowsOf(f)' = {}
        PROVE  FirstReport'
    BY <1>1 DEF OneThread, TypeOK, FirstReport
  <1>2. ASSUME NEW t \in Threads, NEW new, req' = [req EXCEPT ![t] = new],
               new.pc \notin {"count", "insert"}
        PROVE  FirstReport'
    BY <1>2 DEF OneThread, TypeOK, FirstReport
  <1>3. ASSUME NEW t \in Threads, Finish(t) PROVE FirstReport'
    BY <1>2, <1>3 DEF Finish, Idle
  <1>4. ASSUME NEW t \in Threads, NEW f \in Fingerprints, RecordRead(t, f)
        PROVE  FirstReport'
    <2>1. LET new == [Idle EXCEPT !.pc = "count", !.fp = f]
          IN  new.pc = "count" /\ new.fp = f
      BY DEF Idle
    <2>2. ASSUME NEW c \in RowsOf(f)
          PROVE  LET new == [Idle EXCEPT !.pc = "update", !.fp = f, !.bug = c,
                                         !.seen = bugs[c].status,
                                         !.hist = bugs[c].hist]
                 IN  new.pc = "update"
      BY DEF Idle
    <2>3. RowsOf(f)' = RowsOf(f)
      BY <1>4 DEF RecordRead, RowsOf, Rows
    <2>4. QED BY <1>1, <1>2, <1>4, <2>1, <2>2, <2>3 DEF RecordRead
  <1>5. ASSUME NEW t \in Threads, RecordCount(t) PROVE FirstReport'
    <2> DEFINE new == [req[t] EXCEPT !.pc = "insert", !.bug = Cardinality(Rows) + 1]
    <2>1. PICK f : f = req[t].fp
      OBVIOUS
    <2>2. new.fp = f /\ RowsOf(f) = {}
      BY <1>5, <2>1 DEF TypeOK, Request, RecordCount, FirstReport
    <2>3. req' = [req EXCEPT ![t] = new]
      BY <1>5 DEF RecordCount, TypeOK
    <2>4. RowsOf(f)' = {}
      BY <1>5, <2>2 DEF RecordCount, RowsOf, Rows
    <2> HIDE DEF new
    <2>5. QED BY <1>1, <2>2, <2>3, <2>4
  <1>6. ASSUME NEW t \in Threads, RecordCollision(t) PROVE FirstReport'
    <2>1. [req[t] EXCEPT !.pc = "failed"].pc = "failed"
      BY DEF TypeOK, Request
    <2>2. QED BY <1>2, <1>6, <2>1 DEF RecordCollision, TypeOK
  <1>7. ASSUME NEW t \in Threads, NEW b, NEW allowed, NEW to, NEW test,
               ReadStatus(t, b, allowed, to, test)
        PROVE  FirstReport'
    <2>1. [Idle EXCEPT !.pc = "write", !.bug = b, !.to = to, !.test = test].pc = "write"
      BY DEF Idle
    <2>2. QED BY <1>2, <1>7, <2>1 DEF ReadStatus
  <1>8. QED
    BY <1>3, <1>4, <1>5, <1>6, <1>7
    DEF Next, RecordInsert, ConnectionClosed, RecordUpdate, StatusWrite,
        ReportDone, MarkFixing, MarkReadyForVerify, Verify, Ignore

\* One caller at a time: reports of one bug share one row.
THEOREM SerialStoreDedups ==
    ASSUME OneThread PROVE Spec => []FingerprintUnique
  <1>1. Init => FirstReport /\ FingerprintUnique
    <2> SUFFICES ASSUME Init PROVE FirstReport /\ FingerprintUnique
      OBVIOUS
    <2>1. Rows = {} /\ \A t \in Threads : req[t].pc = "idle"
      BY ConstantFacts DEF Init, Rows, EmptyRow, Idle
    <2>2. QED BY <2>1 DEF FirstReport, FingerprintUnique
  <1>2. CountInv /\ FirstReport /\ [Next]_vars => FirstReport'
    <2>1. UNCHANGED vars /\ FirstReport => FirstReport'
      BY DEF vars, FirstReport, RowsOf, Rows
    <2>2. QED BY <2>1, FirstReportStep
  <1>3. CountInv /\ SameBug /\ FirstReport /\ FingerprintUnique /\ [Next]_vars
            => FingerprintUnique'
    <2>1. UNCHANGED vars /\ FingerprintUnique => FingerprintUnique'
      BY DEF vars, FingerprintUnique, Rows
    <2>2. CountersStay /\ FingerprintUnique => FingerprintUnique'
      BY DEF CountersStay, FingerprintUnique
    <2>3. ASSUME NEW t \in Threads, OneMore(t), FirstReport, FingerprintUnique
          PROVE  FingerprintUnique'
      BY <2>3 DEF OneMore, FirstReport, FingerprintUnique, RowsOf
    <2>4. QED BY <2>1, <2>2, <2>3, CountersStep
  <1>4. QED
    BY <1>1, <1>2, <1>3, CountInductive, SameBugInductive, PTL DEF Spec
=============================================================================
