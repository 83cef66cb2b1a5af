----------------------- MODULE QualificationRunsProofs -----------------------
(***************************************************************************)
(* Proofs of the safety properties of QualificationRuns and Certification, *)
(* for any number of processes of any kind, any suites and any signals.  A *)
(* step of a process changes nothing of the others, not even where it adds *)
(* a row to the one table of all runs, so what is invariant is said one    *)
(* process at a time; and what an evaluation read of processes that are    *)
(* over is still so when it writes its certificate.  Then JobLauncher,     *)
(* that starts these processes, for any jobs, requests and restarts.       *)
(***************************************************************************)
EXTENDS Certification, JobLauncher, WellFoundedInduction, TLAPS

RowType == [run: Procs, key: Keys, required: BOOLEAN, status: SuiteEnds \cup {"RUNNING"}]

Typed ==
    /\ kind \in [Procs -> Kinds]
    /\ pc \in [Procs -> Places]
    /\ run \in [Procs -> Terminal \cup {NoRun, "RUNNING"}]
    /\ table \in Seq(RowType)
    /\ broken \in [Procs -> BOOLEAN]
    /\ box \in [Procs -> Boxes]
    /\ held \in [Procs -> BOOLEAN]
    /\ ended \in [Procs -> {"no", "return", "raise", "TERM", "KILL", "hangs"}]

\* A process in a suite has a last row, which is that suite's.
LastRow(p) == \E i \in RowsOf(p) : \A j \in RowsOf(p) : j <= i

\* Where a process is once its run has a result; it starts no suite any more.
Over == {"report", "except", "cancelled", "cleanup", "end"}

\* A result is what finish_run would compute again, or CANCELLED, after which
\* only the sandbox is left to do.
ResultInv(p) ==
    /\ pc[p] = "suite" => LastRow(p)
    /\ run[p] \in Terminal => pc[p] \in Over
    /\ run[p] \in Terminal \ {"CANCELLED"} => run[p] = StatusOf(SuitesOf(p), broken[p])
    /\ run[p] = "CANCELLED" => pc[p] \in {"cleanup", "end"}

\* Containers that nobody has tried to remove are there without the variable deployment
\* only inside deploy(), or when a signal has come; a command without a sandbox has none.
SandboxInv(p) ==
    /\ box[p] = "there" /\ ~held[p] =>
          pc[p] \in {"create", "undeploy"} \/ ended[p] \in {"TERM", "KILL"}
    /\ ended[p] \in {"TERM", "KILL"} => pc[p] \in {"cancelled", "cleanup", "end"}
    /\ kind[p] = "suites" => box[p] # "there" /\ ~held[p] /\ pc[p] \notin InDeploy
    /\ pc[p] \in {"new", "insert", "prepare"} => box[p] # "there" /\ ~held[p]
    /\ pc[p] \in InDeploy => ~held[p]
    /\ pc[p] = "deploy" => box[p] # "there"
    /\ pc[p] = "end" /\ ended[p] \in {"return", "raise"} => box[p] # "there"

ProcInv(p) == ResultInv(p) /\ SandboxInv(p)

IInv == Typed /\ \A p \in Procs : ProcInv(p)

-----------------------------------------------------------------------------
(* The table of all runs                                                   *)

\* finish_run computes a status a run may end with.
LEMMA StatusIsTerminal ==
    ASSUME NEW rows, NEW failures \in BOOLEAN
    PROVE  StatusOf(rows, failures) \in Terminal \ {"CANCELLED"}
  BY DEF StatusOf, Terminal

\* A run that finish_run calls PASSED has suites, all of them PASSED.
LEMMA PassedStatus ==
    ASSUME NEW rows, NEW failures \in BOOLEAN, StatusOf(rows, failures) = "PASSED"
    PROVE  ~failures /\ rows # {} /\ \A r \in rows : r.status = "PASSED"
  BY DEF StatusOf

\* The rows of a process stay what they are.
RowsStay(q) ==
    /\ RowsOf(q)' = RowsOf(q)
    /\ SuitesOf(q)' = SuitesOf(q)
    /\ \A i \in RowsOf(q) : table'[i] = table[i]

\* The INSERT of a row concerns its run only, whose last row it is.
LEMMA Inserted ==
    ASSUME table \in Seq(RowType), NEW r \in RowType, table' = Append(table, r)
    PROVE  /\ table' \in Seq(RowType)
           /\ \A q \in Procs : q # r.run => RowsStay(q)
           /\ LastRow(r.run)'
<1>1. /\ table' \in Seq(RowType)
      /\ Len(table) \in Nat
      /\ Len(table') = Len(table) + 1
      /\ table'[Len(table) + 1] = r
      /\ \A i \in 1..Len(table) : table'[i] = table[i]
  OBVIOUS
<1>2. ASSUME NEW q \in Procs, q # r.run
      PROVE  RowsStay(q)
  <2>1. RowsOf(q)' = RowsOf(q)
    BY <1>1, <1>2 DEF RowsOf
  <2>2. \A i \in RowsOf(q) : table'[i] = table[i]
    BY <1>1 DEF RowsOf
  <2> QED
    BY <2>1, <2>2 DEF RowsStay, SuitesOf
<1>3. LastRow(r.run)'
  <2>1. Len(table) + 1 \in RowsOf(r.run)'
    BY <1>1 DEF RowsOf
  <2>2. \A j \in RowsOf(r.run)' : j <= Len(table) + 1
    BY <1>1 DEF RowsOf
  <2> QED
    BY <2>1, <2>2 DEF LastRow
<1> QED
  BY <1>1, <1>2, <1>3

\* The row of the suite that runs is one of its process.
LEMMA RunningIsOwn ==
    ASSUME NEW p, LastRow(p)
    PROVE  Running(p) \in RowsOf(p)
  BY DEF Running, LastRow

\* A sequence with another element in one place.
LEMMA Put ==
    ASSUME NEW S, NEW s \in Seq(S), NEW n \in 1..Len(s), NEW e \in S
    PROVE  /\ [s EXCEPT ![n] = e] \in Seq(S)
           /\ Len([s EXCEPT ![n] = e]) = Len(s)
           /\ [s EXCEPT ![n] = e][n] = e
           /\ \A i \in 1..Len(s) : i # n => [s EXCEPT ![n] = e][i] = s[i]
  OBVIOUS

\* The UPDATE of that row concerns its run only.
LEMMA Updated ==
    ASSUME table \in Seq(RowType), NEW p \in Procs, LastRow(p), NEW outcome \in SuiteEnds,
           table' = [table EXCEPT ![Running(p)].status = outcome]
    PROVE  /\ table' \in Seq(RowType)
           /\ \A q \in Procs : q # p => RowsStay(q)
<1> DEFINE n == Running(p)
           new == [table[n] EXCEPT !.status = outcome]
<1>1. n \in 1..Len(table) /\ table[n].run = p
  BY RunningIsOwn DEF RowsOf
<1> HIDE DEF n
<1>2. table' = [table EXCEPT ![n] = new]
  BY DEF n
<1>3. table[n] \in RowType
  BY <1>1
<1>4. new \in RowType /\ new.run = p
  BY <1>1, <1>3 DEF RowType
<1> HIDE DEF new
<1>5. /\ table' \in Seq(RowType)
      /\ Len(table') = Len(table)
      /\ table'[n] = new
      /\ \A i \in 1..Len(table) : i # n => table'[i] = table[i]
  <2>1. n \in 1..Len(table) /\ new \in RowType
    BY <1>1, <1>4
  <2>2. /\ [table EXCEPT ![n] = new] \in Seq(RowType)
        /\ Len([table EXCEPT ![n] = new]) = Len(table)
        /\ [table EXCEPT ![n] = new][n] = new
        /\ \A i \in 1..Len(table) : i # n => [table EXCEPT ![n] = new][i] = table[i]
    BY <2>1, table \in Seq(RowType), Put
  <2> QED
    BY <1>2, <2>2, Zenon
<1>6. ASSUME NEW q \in Procs, q # p
      PROVE  RowsStay(q)
  <2>1. RowsOf(q)' = RowsOf(q)
    BY <1>1, <1>4, <1>5, <1>6 DEF RowsOf
  <2>2. \A i \in RowsOf(q) : table'[i] = table[i]
    BY <1>1, <1>5, <1>6 DEF RowsOf
  <2> QED
    BY <2>1, <2>2 DEF RowsStay, SuitesOf
<1> QED
  BY <1>5, <1>6

-----------------------------------------------------------------------------
(* Steps                                                                   *)

\* What of a process its invariant speaks of.
Untouched(q) ==
    /\ kind'[q] = kind[q] /\ pc'[q] = pc[q] /\ run'[q] = run[q] /\ broken'[q] = broken[q]
    /\ box'[q] = box[q] /\ held'[q] = held[q] /\ ended'[q] = ended[q]
    /\ RowsStay(q)

LEMMA UntouchedKeeps ==
    ASSUME NEW q \in Procs, ProcInv(q), Untouched(q)
    PROVE  ProcInv(q)'
<1>1. ResultInv(q)'
  BY DEF Untouched, RowsStay, ProcInv, ResultInv, LastRow
<1>2. SandboxInv(q)'
  BY DEF Untouched, ProcInv, SandboxInv
<1> QED
  BY <1>1, <1>2 DEF ProcInv

\* Without a change to the table no process has other rows.
LEMMA SameTable ==
    ASSUME table' = table
    PROVE  \A q : RowsStay(q)
  BY DEF RowsStay, RowsOf, SuitesOf

\* What a step of a process has to keep.
Kept(p) ==
    /\ Typed'
    /\ ProcInv(p)'
    /\ \A q \in Procs \ {p} : Untouched(q)

\* The statements of a process that insert a row or update the last one.
LEMMA SuiteStepKeeps ==
    ASSUME Typed, NEW p \in Procs, ProcInv(p), kind' = kind,
           SuiteStarts(p) \/ SuiteEnd(p) \/ SuiteRaisedRecorded(p)
    PROVE  Kept(p)
<1>1. CASE SuiteStarts(p)
  <2>1. PICK k \in Keys, required \in BOOLEAN :
           table' = Append(table, Row(p, k, required, "RUNNING"))
    BY <1>1 DEF SuiteStarts
  <2> DEFINE r == Row(p, k, required, "RUNNING")
  <2>2. r \in RowType /\ r.run = p
    BY DEF Row, RowType
  <2> HIDE DEF r
  <2>3. /\ table' \in Seq(RowType)
        /\ \A q \in Procs : q # p => RowsStay(q)
        /\ LastRow(p)'
    BY <2>1, <2>2, Inserted DEF Typed, r
  <2>4. Typed'
    BY <1>1, <2>3 DEF SuiteStarts, Typed, Move, SandboxUnchanged, Places
  <2>5. ProcInv(p)'
    BY <1>1, <2>3 DEF SuiteStarts, Typed, ProcInv, ResultInv, SandboxInv, Over, InDeploy,
       Move, SandboxUnchanged, Terminal
  <2>6. \A q \in Procs \ {p} : Untouched(q)
    BY <1>1, <2>3 DEF SuiteStarts, Typed, Untouched, Move, SandboxUnchanged
  <2> QED
    BY <2>4, <2>5, <2>6 DEF Kept
<1>2. CASE SuiteEnd(p)
  <2>1. PICK outcome \in SuiteEnds : table' = [table EXCEPT ![Running(p)].status = outcome]
    BY <1>2 DEF SuiteEnd
  <2>2. LastRow(p)
    BY <1>2 DEF SuiteEnd, Move, ProcInv, ResultInv
  <2>3. /\ table' \in Seq(RowType)
        /\ \A q \in Procs : q # p => RowsStay(q)
    BY <2>1, <2>2, Updated DEF Typed
  <2>4. /\ Move(p, "suite", "suites")
        /\ broken' = broken \/ broken' = [broken EXCEPT ![p] = TRUE]
        /\ UNCHANGED <<run, ended, box, held>>
    BY <1>2 DEF SuiteEnd, SandboxUnchanged
  <2> HIDE <1>2
  <2>5. Typed'
    BY <2>3, <2>4 DEF Typed, Move, Places
  <2>6. ProcInv(p)'
    BY <2>4 DEF Typed, ProcInv, ResultInv, SandboxInv, Over, InDeploy, Move, Terminal
  <2>7. \A q \in Procs \ {p} : Untouched(q)
    BY <2>3, <2>4 DEF Typed, Untouched, Move
  <2> QED
    BY <2>5, <2>6, <2>7 DEF Kept
<1>3. CASE SuiteRaisedRecorded(p)
  <2> DEFINE r == Row(p, table[Running(p)].key, TRUE, "FAILED")
  <2>1. Running(p) \in RowsOf(p)
    BY <1>3, RunningIsOwn DEF SuiteRaisedRecorded, Move, ProcInv, ResultInv
  <2>2. table[Running(p)] \in RowType
    BY <2>1 DEF RowsOf, Typed
  <2>3. r \in RowType /\ r.run = p
    BY <2>2 DEF Row, RowType, SuiteEnds
  <2>4. table' = Append(table, r)
    BY <1>3 DEF SuiteRaisedRecorded
  <2> HIDE DEF r
  <2>5. /\ table' \in Seq(RowType)
        /\ \A q \in Procs : q # p => RowsStay(q)
    BY <2>3, <2>4, Inserted DEF Typed
  <2>6. Typed'
    BY <1>3, <2>5 DEF SuiteRaisedRecorded, Typed, Move, SandboxUnchanged, Places
  <2>7. ProcInv(p)'
    BY <1>3 DEF SuiteRaisedRecorded, Typed, ProcInv, ResultInv, SandboxInv, Over, InDeploy,
       Move, SandboxUnchanged, Terminal
  <2>8. \A q \in Procs \ {p} : Untouched(q)
    BY <1>3, <2>5 DEF SuiteRaisedRecorded, Typed, Untouched, Move, SandboxUnchanged
  <2> QED
    BY <2>6, <2>7, <2>8 DEF Kept
<1> QED
  BY <1>1, <1>2, <1>3

\* Every other step of the command, and the signals: the table stays as it is.
LEMMA OtherStepKeeps ==
    ASSUME Typed, NEW p \in Procs, ProcInv(p), kind' = kind,
           \/ Check(p) \/ StartRun(p) \/ Enter(p) \/ EnterDeploy(p) \/ DeployCreate(p)
           \/ Deployed(p) \/ DeployFails(p) \/ Undeploy(p) \/ SuiteRaises(p) \/ AllRun(p)
           \/ Finish(p) \/ Report(p) \/ Except(p) \/ MarkCancelled(p) \/ Cleanup(p)
           \/ Terminate(p) \/ Die(p) \/ Hang(p)
    PROVE  Kept(p)
<1> USE DEF Boxes, DestroyBox, Move, Leave, ResultsUnchanged, SandboxUnchanged
<1>1. CASE Check(p)
  <2>1. \A q : RowsStay(q)
    BY <1>1, SameTable DEF Check
  <2>2. Typed'
    BY <1>1 DEF Check, Typed, Places
  <2>3. ProcInv(p)'
    BY <1>1, <2>1 DEF Check, Typed, ProcInv, ResultInv, SandboxInv, RowsStay, LastRow,
       Over, InDeploy,
       Terminal, NoRun, Kinds
  <2>4. \A q \in Procs \ {p} : Untouched(q)
    BY <1>1, <2>1 DEF Check, Typed, Untouched
  <2> QED
    BY <2>2, <2>3, <2>4 DEF Kept
<1>2. CASE StartRun(p)
  <2>1. \A q : RowsStay(q)
    BY <1>2, SameTable DEF StartRun
  <2>2. Typed'
    BY <1>2 DEF StartRun, Typed, Places
  <2>3. ProcInv(p)'
    BY <1>2, <2>1 DEF StartRun, Typed, ProcInv, ResultInv, SandboxInv, RowsStay,
       LastRow, Over, InDeploy,
       Terminal, NoRun, Kinds
  <2>4. \A q \in Procs \ {p} : Untouched(q)
    BY <1>2, <2>1 DEF StartRun, Typed, Untouched
  <2> QED
    BY <2>2, <2>3, <2>4 DEF Kept
<1>3. CASE Enter(p)
  <2>1. \A q : RowsStay(q)
    BY <1>3, SameTable DEF Enter
  <2>2. Typed'
    BY <1>3 DEF Enter, Typed, Places
  <2>3. ProcInv(p)'
    BY <1>3, <2>1 DEF Enter, Typed, ProcInv, ResultInv, SandboxInv, RowsStay, LastRow,
       Over, InDeploy,
       Terminal, NoRun, Kinds
  <2>4. \A q \in Procs \ {p} : Untouched(q)
    BY <1>3, <2>1 DEF Enter, Typed, Untouched
  <2> QED
    BY <2>2, <2>3, <2>4 DEF Kept
<1>4. CASE EnterDeploy(p)
  <2>1. \A q : RowsStay(q)
    BY <1>4, SameTable DEF EnterDeploy
  <2>2. Typed'
    BY <1>4 DEF EnterDeploy, Typed, Places
  <2>3. ProcInv(p)'
    BY <1>4, <2>1 DEF EnterDeploy, Typed, ProcInv, ResultInv, SandboxInv, RowsStay,
       LastRow, Over, InDeploy,
       Terminal, NoRun, Kinds
  <2>4. \A q \in Procs \ {p} : Untouched(q)
    BY <1>4, <2>1 DEF EnterDeploy, Typed, Untouched
  <2> QED
    BY <2>2, <2>3, <2>4 DEF Kept
<1>5. CASE DeployCreate(p)
  <2>1. \A q : RowsStay(q)
    BY <1>5, SameTable DEF DeployCreate
  <2>2. Typed'
    BY <1>5 DEF DeployCreate, Typed, Places
  <2>3. ProcInv(p)'
    BY <1>5, <2>1 DEF DeployCreate, Typed, ProcInv, ResultInv, SandboxInv, RowsStay,
       LastRow, Over, InDeploy,
       Terminal, NoRun, Kinds
  <2>4. \A q \in Procs \ {p} : Untouched(q)
    BY <1>5, <2>1 DEF DeployCreate, Typed, Untouched
  <2> QED
    BY <2>2, <2>3, <2>4 DEF Kept
<1>6. CASE Deployed(p)
  <2>1. \A q : RowsStay(q)
    BY <1>6, SameTable DEF Deployed
  <2>2. Typed'
    BY <1>6 DEF Deployed, Typed, Places
  <2>3. ProcInv(p)'
    BY <1>6, <2>1 DEF Deployed, Typed, ProcInv, ResultInv, SandboxInv, RowsStay,
       LastRow, Over, InDeploy,
       Terminal, NoRun, Kinds
  <2>4. \A q \in Procs \ {p} : Untouched(q)
    BY <1>6, <2>1 DEF Deployed, Typed, Untouched
  <2> QED
    BY <2>2, <2>3, <2>4 DEF Kept
<1>7. CASE DeployFails(p)
  <2>1. \A q : RowsStay(q)
    BY <1>7, SameTable DEF DeployFails
  <2>2. Typed'
    BY <1>7 DEF DeployFails, Typed, Places
  <2>3. ProcInv(p)'
    BY <1>7, <2>1 DEF DeployFails, Typed, ProcInv, ResultInv, SandboxInv, RowsStay,
       LastRow, Over, InDeploy,
       Terminal, NoRun, Kinds
  <2>4. \A q \in Procs \ {p} : Untouched(q)
    BY <1>7, <2>1 DEF DeployFails, Typed, Untouched
  <2> QED
    BY <2>2, <2>3, <2>4 DEF Kept
<1>8. CASE Undeploy(p)
  <2>1. \A q : RowsStay(q)
    BY <1>8, SameTable DEF Undeploy
  <2>2. Typed'
    BY <1>8 DEF Undeploy, Typed, Places, Raise, Raised
  <2>3. ProcInv(p)'
    BY <1>8, <2>1 DEF Undeploy, Typed, ProcInv, ResultInv, SandboxInv, RowsStay,
       LastRow, Over, InDeploy,
       Terminal, NoRun, Kinds, Raise, Raised
  <2>4. \A q \in Procs \ {p} : Untouched(q)
    BY <1>8, <2>1 DEF Undeploy, Typed, Untouched, Raise, Raised
  <2> QED
    BY <2>2, <2>3, <2>4 DEF Kept
<1>9. CASE SuiteRaises(p)
  <2>1. \A q : RowsStay(q)
    BY <1>9, SameTable DEF SuiteRaises
  <2>2. Typed'
    BY <1>9 DEF SuiteRaises, Typed, Places, Raise, Raised
  <2>3. ProcInv(p)'
    BY <1>9, <2>1 DEF SuiteRaises, Typed, ProcInv, ResultInv, SandboxInv, RowsStay,
       LastRow, Over, InDeploy,
       Terminal, NoRun, Kinds, Raise, Raised
  <2>4. \A q \in Procs \ {p} : Untouched(q)
    BY <1>9, <2>1 DEF SuiteRaises, Typed, Untouched, Raise, Raised
  <2> QED
    BY <2>2, <2>3, <2>4 DEF Kept
<1>10. CASE AllRun(p)
  <2>1. \A q : RowsStay(q)
    BY <1>10, SameTable DEF AllRun
  <2>2. Typed'
    BY <1>10 DEF AllRun, Typed, Places
  <2>3. ProcInv(p)'
    BY <1>10, <2>1 DEF AllRun, Typed, ProcInv, ResultInv, SandboxInv, RowsStay, LastRow,
       Over, InDeploy,
       Terminal, NoRun, Kinds
  <2>4. \A q \in Procs \ {p} : Untouched(q)
    BY <1>10, <2>1 DEF AllRun, Typed, Untouched
  <2> QED
    BY <2>2, <2>3, <2>4 DEF Kept
<1>11. CASE Report(p)
  <2>1. \A q : RowsStay(q)
    BY <1>11, SameTable DEF Report
  <2>2. Typed'
    BY <1>11 DEF Report, Typed, Places, Raise, Raised
  <2>3. ProcInv(p)'
    BY <1>11, <2>1 DEF Report, Typed, ProcInv, ResultInv, SandboxInv, RowsStay, LastRow,
       Over, InDeploy,
       Terminal, NoRun, Kinds, Raise, Raised
  <2>4. \A q \in Procs \ {p} : Untouched(q)
    BY <1>11, <2>1 DEF Report, Typed, Untouched, Raise, Raised
  <2> QED
    BY <2>2, <2>3, <2>4 DEF Kept
<1>12. CASE Cleanup(p)
  <2>1. \A q : RowsStay(q)
    BY <1>12, SameTable DEF Cleanup
  <2>2. Typed'
    BY <1>12 DEF Cleanup, Typed, Places
  <2>3. ProcInv(p)'
    BY <1>12, <2>1 DEF Cleanup, Typed, ProcInv, ResultInv, SandboxInv, RowsStay,
       LastRow, Over, InDeploy,
       Terminal, NoRun, Kinds
  <2>4. \A q \in Procs \ {p} : Untouched(q)
    BY <1>12, <2>1 DEF Cleanup, Typed, Untouched
  <2> QED
    BY <2>2, <2>3, <2>4 DEF Kept
<1>13. CASE Terminate(p)
  <2>1. \A q : RowsStay(q)
    BY <1>13, SameTable DEF Terminate
  <2>2. Typed'
    BY <1>13 DEF Terminate, Typed, Places, InTry
  <2>3. ProcInv(p)'
    BY <1>13, <2>1 DEF Terminate, Typed, ProcInv, ResultInv, SandboxInv, RowsStay,
       LastRow, Over, InDeploy,
       Terminal, NoRun, Kinds, InTry
  <2>4. \A q \in Procs \ {p} : Untouched(q)
    BY <1>13, <2>1 DEF Terminate, Typed, Untouched, InTry
  <2> QED
    BY <2>2, <2>3, <2>4 DEF Kept
<1>14. CASE Die(p)
  <2>1. \A q : RowsStay(q)
    BY <1>14, SameTable DEF Die
  <2>2. Typed'
    BY <1>14 DEF Die, Typed, Places
  <2>3. ProcInv(p)'
    BY <1>14, <2>1 DEF Die, Typed, ProcInv, ResultInv, SandboxInv, RowsStay, LastRow,
       Over, InDeploy,
       Terminal, NoRun, Kinds
  <2>4. \A q \in Procs \ {p} : Untouched(q)
    BY <1>14, <2>1 DEF Die, Typed, Untouched
  <2> QED
    BY <2>2, <2>3, <2>4 DEF Kept
<1>15. CASE Finish(p)
  <2>1. \A q : RowsStay(q)
    BY <1>15, SameTable DEF Finish
  <2>2. StatusOf(SuitesOf(p), broken[p]) \in Terminal \ {"CANCELLED"}
    BY StatusIsTerminal DEF Typed
  <2>3. Typed'
    BY <1>15, <2>2 DEF Finish, Typed, Places, Terminal, FinishRun
  <2>4. ProcInv(p)'
    BY <1>15, <2>1, <2>2 DEF Finish, Typed, ProcInv, ResultInv, SandboxInv, RowsStay,
       LastRow,
       Over, InDeploy, Terminal, FinishRun
  <2>5. \A q \in Procs \ {p} : Untouched(q)
    BY <1>15, <2>1 DEF Finish, Typed, Untouched, FinishRun
  <2> QED
    BY <2>3, <2>4, <2>5 DEF Kept
<1>16. CASE Except(p)
  <2>1. \A q : RowsStay(q)
    BY <1>16, SameTable DEF Except
  <2>2. StatusOf(SuitesOf(p), broken[p]) \in Terminal \ {"CANCELLED"}
    BY StatusIsTerminal DEF Typed
  <2>3. Typed'
    BY <1>16, <2>2 DEF Except, Typed, Places, Terminal, FinishRun
  <2>4. ProcInv(p)'
    BY <1>16, <2>1, <2>2 DEF Except, Typed, ProcInv, ResultInv, SandboxInv, RowsStay,
       LastRow,
       Over, InDeploy, Terminal, FinishRun
  <2>5. \A q \in Procs \ {p} : Untouched(q)
    BY <1>16, <2>1 DEF Except, Typed, Untouched, FinishRun
  <2> QED
    BY <2>3, <2>4, <2>5 DEF Kept
<1>17. CASE MarkCancelled(p)
  <2>1. \A q : RowsStay(q)
    BY <1>17, SameTable DEF MarkCancelled
  <2>3. Typed'
    BY <1>17 DEF MarkCancelled, Typed, Places, Terminal
  <2>4. ProcInv(p)'
    BY <1>17, <2>1 DEF MarkCancelled, Typed, ProcInv, ResultInv, SandboxInv, RowsStay,
       LastRow,
       Over, InDeploy, Terminal
  <2>5. \A q \in Procs \ {p} : Untouched(q)
    BY <1>17, <2>1 DEF MarkCancelled, Typed, Untouched
  <2> QED
    BY <2>3, <2>4, <2>5 DEF Kept
<1>18. CASE Hang(p)
  <2>1. \A q : RowsStay(q)
    BY <1>18, SameTable DEF Hang
  <2>2. Typed'
    BY <1>18 DEF Hang, Typed
  <2>3. ProcInv(p)'
    BY <1>18, <2>1 DEF Hang, Typed, ProcInv, ResultInv, SandboxInv, RowsStay, LastRow, Over,
       InDeploy
  <2>4. \A q \in Procs \ {p} : Untouched(q)
    BY <1>18, <2>1 DEF Hang, Typed, Untouched
  <2> QED
    BY <2>2, <2>3, <2>4 DEF Kept
<1> QED
  BY <1>1, <1>2, <1>3, <1>4, <1>5, <1>6, <1>7, <1>8, <1>9, <1>10, <1>11, <1>12, <1>13,
     <1>14, <1>15, <1>16, <1>17, <1>18

LEMMA ProcessKeeps ==
    ASSUME IInv, NEW p \in Procs, Work(p) \/ Signalled(p)
    PROVE  Kept(p)
  BY SuiteStepKeeps, OtherStepKeeps DEF IInv, Work, Signalled, Proceed

\* No process, or one earlier run with the result of its row.
LEMMA Begins == Init => IInv
<1> SUFFICES ASSUME Init PROVE IInv
  OBVIOUS
<1>1. table \in Seq(RowType)
  <2>1. CASE table = <<>>
    BY <2>1
  <2>2. CASE table # <<>>
    <3>1. PICK p \in Earlier, k \in Keys, status \in SuiteEnds \cup {"RUNNING"} :
             table = <<Row(p, k, k \notin Optional, status)>>
      BY <2>2 DEF Init, EarlierRows
    <3>2. Row(p, k, k \notin Optional, status) \in RowType
      BY QualificationRunsAssumption DEF Row, RowType
    <3> QED
      BY <3>1, <3>2
  <2> QED
    BY <2>1, <2>2
<1>2. ASSUME NEW p \in Procs
      PROVE  /\ run[p] \in {NoRun, "RUNNING"} \cup (Terminal \ {"CANCELLED"})
             /\ run[p] \in Terminal => p \in Earlier /\ run[p] = StatusOf(SuitesOf(p), FALSE)
  BY StatusIsTerminal DEF Init, EarlierStatus, Terminal, NoRun
<1>3. Typed
  BY <1>1, <1>2 DEF Init, Typed, Places, Terminal, Kinds, Boxes
<1>4. ASSUME NEW p \in Procs
      PROVE  ProcInv(p)
  <2>1. box[p] = "none" /\ ~held[p] /\ broken[p] = FALSE /\ pc[p] \in {"new", "end"}
        /\ (pc[p] = "end" <=> p \in Earlier)
        /\ (ended[p] \in {"TERM", "KILL"} => p \in Earlier)
    BY DEF Init
  <2>2. ResultInv(p)
    BY <1>2, <2>1 DEF ResultInv, Over, Terminal, NoRun
  <2>3. SandboxInv(p)
    BY <2>1 DEF SandboxInv, InDeploy
  <2> QED
    BY <2>2, <2>3 DEF ProcInv
<1> QED
  BY <1>3, <1>4 DEF IInv

\* A step of one process keeps the invariants of all.
LEMMA StepKeeps == IInv /\ [Next]_vars => IInv'
<1> SUFFICES ASSUME IInv, [Next]_vars PROVE IInv'
  OBVIOUS
<1>1. CASE UNCHANGED vars
  <2>1. Typed'
    BY <1>1 DEF vars, IInv, Typed
  <2>2. \A q \in Procs : Untouched(q)
    BY <1>1, SameTable DEF vars, Untouched
  <2> QED
    BY <2>1, <2>2, UntouchedKeeps DEF IInv
<1>2. ASSUME NEW p \in Procs, Work(p) \/ Signalled(p)
      PROVE  IInv'
  <2>1. Kept(p)
    BY <1>2, ProcessKeeps
  <2>2. \A q \in Procs \ {p} : ProcInv(q)'
    BY <2>1, UntouchedKeeps DEF IInv, Kept
  <2> QED
    BY <2>1, <2>2 DEF IInv, Kept
<1> QED
  BY <1>1, <1>2 DEF Next

\* IInv is invariant.
LEMMA Invariant == Spec => []IInv
  BY Begins, StepKeeps, PTL DEF Spec

-----------------------------------------------------------------------------

\* finish_run of cli.py's commands, the except clauses and mark_cancelled never
\* leave a run PASSED of which a suite is not.
THEOREM PassedEarned == Spec => []PassedWasEarned
<1>1. IInv => PassedWasEarned
  <2> SUFFICES ASSUME IInv, NEW p \in Procs, run[p] = "PASSED"
               PROVE  SuitesOf(p) # {} /\ (\A r \in SuitesOf(p) : r.status = "PASSED") /\ ~broken[p]
    BY DEF PassedWasEarned
  <2>1. StatusOf(SuitesOf(p), broken[p]) = "PASSED"
    BY DEF IInv, ProcInv, ResultInv, Terminal
  <2> QED
    BY <2>1, PassedStatus DEF IInv, Typed
<1> QED
  BY <1>1, Invariant, PTL

\* A process that returns or raises has tried to remove every container it leaves
\* behind, whether docker rm -f fails or not.
THEOREM SandboxCleaned == Spec => []CleanedUp
<1>1. IInv => CleanedUp
  BY DEF IInv, ProcInv, SandboxInv, CleanedUp
<1> QED
  BY <1>1, Invariant, PTL

\* The second finish_run of an except clause computes what the first did, and
\* mark_cancelled touches no run with a result.
THEOREM ResultKept == Spec => ResultStays
<1>1. IInv /\ [Next]_vars => [\A p \in Procs : run[p] \in Terminal => run'[p] = run[p]]_vars
  <2> SUFFICES ASSUME IInv, NEW q \in Procs, Work(q) \/ Signalled(q),
                      NEW p \in Procs, run[p] \in Terminal
               PROVE  run'[p] = run[p]
    BY DEF Next
  <2>1. CASE run' = run
    BY <2>1
  <2>2. CASE StartRun(q)
    BY <2>2 DEF StartRun, Move, IInv, Typed, ProcInv, ResultInv, Over
  <2>3. CASE Finish(q)
    BY <2>3 DEF Finish, FinishRun, Move, IInv, Typed, ProcInv, ResultInv, Over
  <2>4. CASE Except(q)
    <3>1. run' = [run EXCEPT ![q] = StatusOf(SuitesOf(q), broken[q])] /\ pc[q] = "except"
      BY <2>4 DEF Except, FinishRun, Move
    <3>2. run[q] \in Terminal => run[q] = StatusOf(SuitesOf(q), broken[q])
      BY <3>1 DEF IInv, ProcInv, ResultInv
    <3> QED
      BY <3>1, <3>2 DEF IInv, Typed
  <2>5. CASE MarkCancelled(q)
    BY <2>5 DEF MarkCancelled, IInv, Typed, Terminal
  <2> QED
    BY <2>1, <2>2, <2>3, <2>4, <2>5 DEF Work, Signalled, Proceed, Check, Enter, EnterDeploy,
       DeployCreate, Deployed, DeployFails, Undeploy, SuiteStarts, SuiteEnd,
       SuiteRaisedRecorded, SuiteRaises, AllRun, Report, Cleanup, Terminate, Die, Hang
<1> QED
  BY <1>1, Invariant, PTL DEF Spec, ResultStays

-----------------------------------------------------------------------------
(* Certification                                                           *)

\* A suite that no configuration lists has two rows in a run only where its runner
\* raised: the second says FAILED.  The row of a running suite is the only one of its key.
KeyInv(p) ==
  kind[p] # "suites" =>
    /\ \A i \in RowsOf(p) : table[i].required \/ table[i].key \in Optional
    /\ \A i, j \in RowsOf(p) :
          i < j /\ table[i].key = table[j].key => table[j].required /\ table[j].status = "FAILED"
    /\ pc[p] = "suite" =>
          \A i \in RowsOf(p) : i # Running(p) => table[i].key # table[Running(p)].key

\* What _decide finds of suites when it says eligible, in runs that stay as they are.
Proven(runs) ==
    /\ \A p \in runs : pc[p] = "end"
    /\ Missing(runs) = {}
    /\ Failed(runs) = {}

\* What the evaluation in progress has found out of these runs.
Judged(runs) ==
    certifier.runs = runs /\ certifier.settled =>
        /\ \A p \in runs : pc[p] = "end"
        /\ certifier.clean => Proven(runs)
        /\ certifier.clean /\ certifier.at = "write" => NoInvariantFailed(runs)

\* What a certificate of these runs says.
Certified(runs) ==
    certificate.runs = runs /\ certificate.settled /\ certificate.status = "CERTIFIED" =>
        Proven(runs) /\ NoInvariantFailed(runs)

CertTyped ==
    /\ certifier \in Evaluation
    /\ certificate \in [status: {"NONE", "CERTIFIED", "FAILED"}, runs: SUBSET Procs, settled: BOOLEAN]

CertInv ==
    /\ IInv
    /\ \A p \in Procs : KeyInv(p)
    /\ CertTyped
    /\ \A runs \in SUBSET Procs : Judged(runs) /\ Certified(runs)

\* Some element of a nonempty set of positions is the last.
LEMMA HasLast ==
    ASSUME NEW n \in Nat, NEW S \in SUBSET (1..n), S # {}
    PROVE  \E i \in S : \A j \in S : j <= i
<1> DEFINE T == {n - i : i \in S}
<1>1. T \subseteq Nat /\ T # {}
  <2>1. \A i \in S : n - i \in Nat
    OBVIOUS
  <2> QED
    BY <2>1
<1>2. \A i \in S : n - i \in T
  OBVIOUS
<1>3. \A x \in T : \E i \in S : x = n - i
  OBVIOUS
<1> HIDE DEF T
<1>4. PICK x \in T : \A y \in T : ~ (<<y, x>> \in OpToRel(<, Nat))
  BY <1>1, NatLessThanWellFounded, WFMin
<1>5. \A y \in T : ~ (y < x)
  BY <1>1, <1>4 DEF OpToRel
<1>6. PICK i \in S : x = n - i
  BY <1>3
<1>7. \A j \in S : j <= i
  BY <1>2, <1>5, <1>6
<1> QED
  BY <1>7

\* The suite that runs has the last row of its process.
LEMMA RunningIsLast ==
    ASSUME NEW p, LastRow(p)
    PROVE  Running(p) \in RowsOf(p) /\ \A j \in RowsOf(p) : j <= Running(p)
  BY DEF Running, LastRow

\* The suite a process starts is new to it.
LEMMA StartKeepsKeys ==
    ASSUME IInv, NEW p \in Procs, kind[p] # "suites", KeyInv(p), SuiteStarts(p)
    PROVE  KeyInv(p)'
<1>1. PICK k \in Keys :
         /\ \A s \in SuitesOf(p) : s.key # k
         /\ table' = Append(table, Row(p, k, k \notin Optional, "RUNNING"))
  BY DEF SuiteStarts
<1> DEFINE r == Row(p, k, k \notin Optional, "RUNNING")
           n == Len(table) + 1
<1>2. r \in RowType /\ r.run = p /\ r.key = k /\ (r.required \/ r.key \in Optional)
  BY DEF Row, RowType
<1> HIDE DEF r
<1>3. /\ n \in Nat
      /\ table'[n] = r
      /\ Len(table') = n
      /\ \A i \in 1..Len(table) : table'[i] = table[i]
  BY <1>1, <1>2 DEF IInv, Typed, r
<1>4. /\ RowsOf(p)' = RowsOf(p) \cup {n}
      /\ \A i \in RowsOf(p) : i \in Nat /\ i < n /\ table'[i] = table[i] /\ table[i].key # k
  BY <1>1, <1>2, <1>3 DEF RowsOf, SuitesOf, IInv, Typed
<1>5. LastRow(p)'
  BY <1>4, <1>3 DEF LastRow
<1>6. Running(p)' = n
  <2>1. Running(p)' \in RowsOf(p)' /\ \A j \in RowsOf(p)' : j <= Running(p)'
    BY <1>5 DEF Running, LastRow
  <2> QED
    BY <2>1, <1>3, <1>4
<1> HIDE DEF n
<1>7. \A i \in RowsOf(p)' : table'[i].required \/ table'[i].key \in Optional
  BY <1>2, <1>3, <1>4 DEF KeyInv
<1>8. \A i, j \in RowsOf(p)' :
         i < j /\ table'[i].key = table'[j].key => table'[j].required /\ table'[j].status = "FAILED"
  BY <1>2, <1>3, <1>4 DEF KeyInv
<1>9. \A i \in RowsOf(p)' : i # Running(p)' => table'[i].key # table'[Running(p)'].key
  BY <1>2, <1>3, <1>4, <1>6
<1> QED
  BY <1>7, <1>8, <1>9 DEF KeyInv

\* Its outcome changes the status of that row, which is the only one of its key.
LEMMA EndKeepsKeys ==
    ASSUME IInv, NEW p \in Procs, kind[p] # "suites", KeyInv(p), SuiteEnd(p)
    PROVE  KeyInv(p)'
<1> DEFINE n == Running(p)
<1>1. PICK outcome \in SuiteEnds : table' = [table EXCEPT ![n].status = outcome]
  BY DEF SuiteEnd
<1>2. /\ pc[p] = "suite" /\ pc' = [pc EXCEPT ![p] = "suites"]
      /\ LastRow(p)
  BY DEF SuiteEnd, Move, IInv, ProcInv, ResultInv
<1>3. n \in RowsOf(p) /\ \A j \in RowsOf(p) : j <= n
  BY <1>2, RunningIsLast
<1>4. \A i \in RowsOf(p) : i # n => table[i].key # table[n].key
  BY <1>2 DEF KeyInv
<1> HIDE DEF n
<1>5. table \in Seq(RowType) /\ n \in 1..Len(table) /\ RowsOf(p) \subseteq 1..Len(table)
  BY <1>3 DEF IInv, Typed, RowsOf
<1>6. /\ Len(table') = Len(table)
      /\ \A i \in 1..Len(table) : i # n => table'[i] = table[i]
      /\ table'[n] = [table[n] EXCEPT !.status = outcome]
  BY <1>1, <1>5
<1>7. table'[n].run = table[n].run /\ table'[n].key = table[n].key
      /\ table'[n].required = table[n].required
  BY <1>5, <1>6 DEF RowType
<1>8. RowsOf(p)' = RowsOf(p)
  BY <1>5, <1>6, <1>7 DEF RowsOf
<1>9. \A i \in RowsOf(p)' : table'[i].required \/ table'[i].key \in Optional
  BY <1>5, <1>6, <1>7, <1>8 DEF KeyInv
<1>10. \A i, j \in RowsOf(p)' :
         i < j /\ table'[i].key = table'[j].key => table'[j].required /\ table'[j].status = "FAILED"
  <2>1. \A i, j \in RowsOf(p) : i < j /\ table[i].key = table[j].key => j # n
    BY <1>4, <1>5
  <2>2. \A i \in RowsOf(p) : table'[i].key = table[i].key
    BY <1>5, <1>6, <1>7
  <2> QED
    BY <1>5, <1>6, <1>8, <2>1, <2>2 DEF KeyInv
<1>11. pc'[p] # "suite"
  BY <1>2 DEF IInv, Typed
<1> QED
  BY <1>9, <1>10, <1>11 DEF KeyInv

\* The second row of a suite says FAILED; the first was the only one.
LEMMA RaisedKeepsKeys ==
    ASSUME IInv, NEW p \in Procs, kind[p] # "suites", KeyInv(p), SuiteRaisedRecorded(p)
    PROVE  KeyInv(p)'
<1> DEFINE n == Len(table) + 1
           r == Row(p, table[Running(p)].key, TRUE, "FAILED")
<1>1. pc' = [pc EXCEPT ![p] = "suites"] /\ table' = Append(table, r)
  BY DEF SuiteRaisedRecorded, Move
<1>2. r.run = p /\ r.required /\ r.status = "FAILED"
  BY DEF Row
<1> HIDE DEF r
<1>3. /\ Len(table') = n /\ table'[n] = r
      /\ \A i \in 1..Len(table) : table'[i] = table[i]
      /\ n \in Nat
  BY <1>1 DEF IInv, Typed
<1>4. /\ RowsOf(p)' = RowsOf(p) \cup {n}
      /\ \A i \in RowsOf(p) : i \in Nat /\ i < n /\ table'[i] = table[i]
  BY <1>2, <1>3 DEF RowsOf, IInv, Typed
<1> HIDE DEF n
<1>5. \A i \in RowsOf(p)' : table'[i].required \/ table'[i].key \in Optional
  BY <1>2, <1>3, <1>4 DEF KeyInv
<1>6. \A i, j \in RowsOf(p)' :
         i < j /\ table'[i].key = table'[j].key => table'[j].required /\ table'[j].status = "FAILED"
  BY <1>2, <1>3, <1>4 DEF KeyInv
<1>7. pc'[p] # "suite"
  BY <1>1 DEF IInv, Typed
<1> QED
  BY <1>5, <1>6, <1>7 DEF KeyInv

LEMMA SameKeys ==
    ASSUME NEW q \in Procs, ProcInv(q), KeyInv(q), RowsStay(q), kind'[q] = kind[q],
           pc'[q] = pc[q] \/ pc'[q] # "suite"
    PROVE  KeyInv(q)'
<1> SUFFICES ASSUME kind[q] # "suites"
             PROVE  KeyInv(q)'
  BY DEF KeyInv
<1>1. Running(q)' = Running(q)
  BY DEF RowsStay, Running
<1>2. \A i \in RowsOf(q)' : table'[i].required \/ table'[i].key \in Optional
  BY DEF RowsStay, KeyInv
<1>3. \A i, j \in RowsOf(q)' :
         i < j /\ table'[i].key = table'[j].key => table'[j].required /\ table'[j].status = "FAILED"
  BY DEF RowsStay, KeyInv
<1>4. ASSUME pc'[q] = "suite", NEW i \in RowsOf(q)', i # Running(q)'
      PROVE  table'[i].key # table'[Running(q)'].key
  <2>1. pc[q] = "suite" /\ LastRow(q)
    BY <1>4 DEF ProcInv, ResultInv
  <2>2. Running(q) \in RowsOf(q)
    BY <2>1, RunningIsLast
  <2> QED
    BY <1>1, <1>4, <2>1, <2>2 DEF RowsStay, KeyInv
<1> QED
  BY <1>2, <1>3, <1>4 DEF KeyInv

\* A step of a process keeps the rows of all runs in order.
LEMMA KeysKept ==
    ASSUME IInv, \A q \in Procs : KeyInv(q), NEW p \in Procs, Work(p) \/ Signalled(p)
    PROVE  \A q \in Procs : KeyInv(q)'
<1>1. Kept(p)
  BY ProcessKeeps
<1>2. ASSUME NEW q \in Procs, q # p
      PROVE  KeyInv(q)'
  BY <1>1, <1>2, SameKeys DEF Kept, Untouched, IInv
<1>3. KeyInv(p)'
  <2>0. kind' = kind
    BY DEF Work, Signalled
  <2> SUFFICES ASSUME kind[p] # "suites"
               PROVE  KeyInv(p)'
    BY <2>0 DEF KeyInv
  <2>1. CASE SuiteStarts(p) \/ SuiteEnd(p) \/ SuiteRaisedRecorded(p)
    BY <2>1, StartKeepsKeys, EndKeepsKeys, RaisedKeepsKeys
  <2>2. CASE ~(SuiteStarts(p) \/ SuiteEnd(p) \/ SuiteRaisedRecorded(p))
    <3>1. table' = table
      BY <2>2 DEF Work, Signalled, Proceed, Check, StartRun, Enter, EnterDeploy,
         DeployCreate,
         Deployed, DeployFails, Undeploy, SuiteRaises, AllRun, Finish, Report, Except,
         MarkCancelled, Cleanup, Terminate, Die, Hang, ResultsUnchanged
    <3>2. pc'[p] # "suite" \/ pc'[p] = pc[p]
      BY <2>2 DEF IInv, Typed, Work, Signalled, Proceed, Check, StartRun, Enter,
         EnterDeploy, DeployCreate, Deployed, DeployFails, Undeploy, SuiteRaises, AllRun,
         Finish, Report, Except, MarkCancelled, Cleanup, Terminate, Die, Hang, Move, Leave,
         Raise, Raised
    <3> QED
      BY <2>0, <3>1, <3>2, SameTable, SameKeys DEF IInv
  <2> QED
    BY <2>1, <2>2
<1> QED
  BY <1>2, <1>3

\* A process that is over takes no step, and no other changes what it left.
LEMMA OverStays ==
    ASSUME IInv, [Next]_vars, NEW p \in Procs, pc[p] = "end"
    PROVE  Untouched(p)
<1>1. CASE UNCHANGED vars
  BY <1>1, SameTable DEF vars, Untouched
<1>2. ASSUME NEW q \in Procs, Work(q) \/ Signalled(q)
      PROVE  Untouched(p)
  <2>1. q # p
    BY <1>2 DEF Work, Signalled, Proceed, Check, StartRun, Enter, EnterDeploy, DeployCreate,
       Deployed, DeployFails, Undeploy, SuiteStarts, SuiteEnd, SuiteRaisedRecorded,
       SuiteRaises, AllRun, Finish, Report, Except, MarkCancelled, Cleanup, Terminate, Die,
       Hang, Move
  <2> QED
    BY <1>2, <2>1, ProcessKeeps DEF Kept
<1> QED
  BY <1>1, <1>2 DEF Next

\* The latest row of a suite in some runs.
LEMMA LatestIsLast ==
    ASSUME Typed, NEW runs, NEW k, RowsFor(runs, k) # {}
    PROVE  Latest(runs, k) \in RowsFor(runs, k) /\ \A j \in RowsFor(runs, k) : j <= Latest(runs, k)
<1>1. Len(table) \in Nat /\ RowsFor(runs, k) \in SUBSET (1..Len(table))
  BY DEF Typed, RowsFor, Rows
<1>2. \E i \in RowsFor(runs, k) : \A j \in RowsFor(runs, k) : j <= i
  BY <1>1, HasLast
<1> QED
  BY <1>2 DEF Latest

\* What is found of runs that are over remains true of them.
LEMMA ProvenStays ==
    ASSUME IInv, [Next]_vars, NEW runs \in SUBSET Procs, \A p \in runs : pc[p] = "end"
    PROVE  /\ \A p \in runs : pc'[p] = "end"
           /\ Proven(runs) => Proven(runs)'
           /\ NoInvariantFailed(runs) => NoInvariantFailed(runs)'
<1>1. \A p \in runs : Untouched(p)
  BY OverStays
<1>2. \A p \in runs : pc'[p] = pc[p] /\ broken'[p] = broken[p] /\ RowsStay(p)
  BY <1>1 DEF Untouched
<1>3. \A p \in runs : RowsOf(p)' = RowsOf(p) /\ \A i \in RowsOf(p) : table'[i] = table[i]
  BY <1>2 DEF RowsStay
<1>4. Rows(runs)' = Rows(runs) /\ \A i \in Rows(runs) : table'[i] = table[i]
  BY <1>3 DEF Rows, RowsOf
<1>5. ASSUME NEW k
      PROVE  /\ RowsFor(runs, k)' = RowsFor(runs, k)
             /\ Latest(runs, k)' = Latest(runs, k)
             /\ RowsFor(runs, k) # {} => table'[Latest(runs, k)] = table[Latest(runs, k)]
  <2>1. RowsFor(runs, k)' = RowsFor(runs, k)
    BY <1>4 DEF RowsFor
  <2>2. Latest(runs, k)' = Latest(runs, k)
    BY <2>1 DEF Latest
  <2>3. RowsFor(runs, k) # {} => Latest(runs, k) \in Rows(runs)
    BY LatestIsLast DEF IInv, RowsFor
  <2> QED
    BY <1>4, <2>1, <2>2, <2>3
<1>6. \A k : StatusIn(runs, k)' = StatusIn(runs, k)
  BY <1>5 DEF StatusIn
<1>7. Missing(runs)' = Missing(runs)
  BY <1>6 DEF Missing
<1>8. Failed(runs)' = Failed(runs)
  BY <1>5, <1>6 DEF Failed
<1>9. Proven(runs) => Proven(runs)'
  BY <1>2, <1>7, <1>8 DEF Proven
<1> QED
  BY <1>2, <1>9 DEF NoInvariantFailed

\* While processes write the rows of runs that are not over.
LEMMA ProcessesKeepCert ==
    ASSUME CertInv, [Next]_vars, certVars' = certVars
    PROVE  CertInv'
<1>1. IInv'
  BY StepKeeps DEF CertInv
<1>2. \A p \in Procs : KeyInv(p)'
  <2>1. CASE UNCHANGED vars
    BY <2>1, SameTable, SameKeys DEF CertInv, IInv, vars
  <2>2. CASE Next
    BY <2>2, KeysKept DEF CertInv, Next
  <2> QED
    BY <2>1, <2>2
<1>3. certifier' = certifier /\ certificate' = certificate
  BY DEF certVars
<1>4. ASSUME NEW runs \in SUBSET Procs
      PROVE  Judged(runs)' /\ Certified(runs)'
  <2>1. Judged(runs) /\ Certified(runs)
    BY DEF CertInv
  <2>2. (\A p \in runs : pc[p] = "end") =>
           /\ \A p \in runs : pc'[p] = "end"
           /\ Proven(runs) => Proven(runs)'
           /\ NoInvariantFailed(runs) => NoInvariantFailed(runs)'
    BY ProvenStays DEF CertInv
  <2>3. Proven(runs) => \A p \in runs : pc[p] = "end"
    BY DEF Proven
  <2> QED
    BY <1>3, <2>1, <2>2, <2>3 DEF Judged, Certified
<1> QED
  BY <1>1, <1>2, <1>3, <1>4 DEF CertInv, CertTyped

\* While an evaluation reads what is there.
LEMMA EvaluationKeepsCert ==
    ASSUME CertInv, CertSteps, UNCHANGED vars
    PROVE  CertInv'
<1>1. IInv'
  BY StepKeeps DEF CertInv
<1>2. \A p \in Procs : KeyInv(p)'
  BY SameTable, SameKeys DEF CertInv, IInv, vars
<1>3. ASSUME NEW runs \in SUBSET Procs
      PROVE  /\ Proven(runs)' <=> Proven(runs)
             /\ NoInvariantFailed(runs)' <=> NoInvariantFailed(runs)
  BY DEF vars, Proven, Missing, Failed, StatusIn, Latest, RowsFor, Rows, NoInvariantFailed
<1>4. pc' = pc
  BY DEF vars
<1>5. CASE Evaluate \/ EvaluateTier
  <2>1. PICK tier \in BOOLEAN, begun \in SUBSET Procs : Begin(tier, begun)
    BY <1>5 DEF Evaluate, EvaluateTier, Started
  <2>2. /\ certifier' = [at |-> "suites", tier |-> tier, runs |-> begun, clean |-> FALSE,
                         settled |-> \A p \in begun : pc[p] = "end"]
        /\ certificate' = certificate
    BY <2>1 DEF Begin
  <2>3. CertTyped'
    BY <2>2 DEF CertInv, CertTyped, Evaluation
  <2>4. ASSUME NEW runs \in SUBSET Procs
        PROVE  Judged(runs)' /\ Certified(runs)'
    BY <1>3, <1>4, <2>2 DEF CertInv, Judged, Certified
  <2> QED
    BY <1>1, <1>2, <2>3, <2>4 DEF CertInv
<1>6. CASE ReadSuites
  <2>1. PICK configured \in BOOLEAN :
           certifier' = [certifier EXCEPT !.at = "invariants",
                           !.clean = /\ Missing(certifier.runs) = {}
                                     /\ Failed(certifier.runs) = {}
                                     /\ Flaky(certifier.runs) = {}
                                     /\ ~HilMissing(certifier.runs, configured)]
    BY <1>6 DEF ReadSuites
  <2>2. /\ certifier'.at = "invariants"
        /\ certifier'.runs = certifier.runs
        /\ certifier'.settled = certifier.settled
        /\ certifier'.clean => Missing(certifier.runs) = {} /\ Failed(certifier.runs) = {}
        /\ certifier' \in Evaluation
    BY <2>1 DEF CertInv, CertTyped, Evaluation
  <2>3. certificate' = certificate
    BY <1>6 DEF ReadSuites
  <2>4. ASSUME NEW runs \in SUBSET Procs
        PROVE  Judged(runs)' /\ Certified(runs)'
    <3>1. Judged(runs) /\ Certified(runs)
      BY DEF CertInv
    <3>2. certifier.runs = runs /\ certifier'.clean => Missing(runs) = {} /\ Failed(runs) = {}
      BY <2>2
    <3> QED
      BY <1>3, <1>4, <2>2, <2>3, <3>1, <3>2 DEF Judged, Certified, Proven
  <2> QED
    BY <1>1, <1>2, <2>2, <2>3, <2>4 DEF CertInv, CertTyped
<1>7. CASE ReadInvariants
  <2>1. /\ certificate' = certificate
        /\ \/ certifier' = Idle
           \/ certifier' = [certifier EXCEPT !.at = "write",
                               !.clean = @ /\ NoInvariantFailed(certifier.runs)]
    BY <1>7 DEF ReadInvariants
  <2> DEFINE found == NoInvariantFailed(certifier.runs)
             clean == certifier.clean /\ found
  <2>2. certifier \in Evaluation /\ clean \in BOOLEAN /\ (clean => certifier.clean /\ found)
    BY DEF CertInv, CertTyped, Evaluation, NoInvariantFailed
  <2>3. certifier' = Idle \/ certifier' = [certifier EXCEPT !.at = "write", !.clean = clean]
    BY <2>1
  <2> HIDE DEF clean
  <2>4. CASE certifier' = Idle
    <3>1. certifier' \in Evaluation /\ ~certifier'.settled
      BY <2>4 DEF Evaluation, Idle
    <3> QED
      BY <1>1, <1>2, <1>3, <2>1, <3>1 DEF CertInv, CertTyped, Judged, Certified
  <2>5. CASE certifier' = [certifier EXCEPT !.at = "write", !.clean = clean]
    <3>1. /\ certifier'.runs = certifier.runs
          /\ certifier'.settled = certifier.settled
          /\ certifier'.clean = clean
          /\ certifier' \in Evaluation
      BY <2>2, <2>5 DEF Evaluation
    <3>2. ASSUME NEW runs \in SUBSET Procs
          PROVE  Judged(runs)' /\ Certified(runs)'
      <4>1. Judged(runs) /\ Certified(runs)
        BY DEF CertInv
      <4>2. found /\ certifier.runs = runs => NoInvariantFailed(runs)
        OBVIOUS
      <4> QED
        BY <1>3, <1>4, <2>1, <2>2, <3>1, <4>1, <4>2 DEF Judged, Certified
    <3> QED
      BY <1>1, <1>2, <2>1, <3>1, <3>2 DEF CertInv, CertTyped
  <2> QED
    BY <2>3, <2>4, <2>5
<1>8. CASE WriteCertificate
  <2>1. /\ certifier.at = "write"
        /\ certifier' = Idle
        /\ certificate' = IF certifier.clean
                          THEN [status |-> "CERTIFIED", runs |-> certifier.runs,
                                settled |-> certifier.settled]
                          ELSE [NoCertificate EXCEPT !.status = "FAILED"]
    BY <1>8 DEF WriteCertificate
  <2>2. CertTyped'
    BY <2>1 DEF CertInv, CertTyped, Evaluation, Idle, NoCertificate
  <2>3. ASSUME NEW runs \in SUBSET Procs
        PROVE  Judged(runs)' /\ Certified(runs)'
    <3>1. Judged(runs) /\ Certified(runs)
      BY DEF CertInv
    <3> QED
      BY <1>3, <1>4, <2>1, <3>1 DEF Judged, Certified, Idle, NoCertificate
  <2> QED
    BY <1>1, <1>2, <2>2, <2>3 DEF CertInv
<1> QED
  BY <1>5, <1>6, <1>7, <1>8 DEF CertSteps

\* Nothing is certified at first, and no run has two rows.
LEMMA CertBegins == CertInit => CertInv
<1> SUFFICES ASSUME CertInit PROVE CertInv
  OBVIOUS
<1>1. Init /\ IInv
  BY Begins DEF CertInit
<1>2. ASSUME NEW p \in Procs
      PROVE  KeyInv(p)
  <2>1. pc[p] # "suite"
    BY <1>1 DEF Init
  <2>2. CASE table = <<>>
    BY <2>1, <2>2 DEF KeyInv, RowsOf
  <2>3. CASE table # <<>>
    <3>1. PICK q \in Earlier, k \in Keys, status \in SuiteEnds \cup {"RUNNING"} :
             table = <<Row(q, k, k \notin Optional, status)>>
      BY <1>1, <2>3 DEF Init, EarlierRows
    <3> DEFINE r == Row(q, k, k \notin Optional, status)
    <3>2. r.required \/ r.key \in Optional
      BY DEF Row
    <3> HIDE DEF r
    <3>3. Len(table) = 1 /\ table[1] = r
      BY <3>1 DEF r
    <3>4. \A i \in RowsOf(p) : i = 1
      BY <3>3 DEF RowsOf
    <3> QED
      BY <2>1, <3>2, <3>3, <3>4 DEF KeyInv
  <2> QED
    BY <2>2, <2>3
<1>3. CertTyped /\ \A runs : Judged(runs) /\ Certified(runs)
  BY DEF CertInit, CertTyped, Judged, Certified, Idle, NoCertificate, Evaluation
<1> QED
  BY <1>1, <1>2, <1>3 DEF CertInv

LEMMA CertStepKeeps == CertInv /\ [CertNext]_<<vars, certVars>> => CertInv'
<1> SUFFICES ASSUME CertInv, [CertNext]_<<vars, certVars>> PROVE CertInv'
  OBVIOUS
<1>1. CASE [Next]_vars /\ certVars' = certVars
  BY <1>1, ProcessesKeepCert
<1>2. CASE CertSteps /\ UNCHANGED vars
  BY <1>2, EvaluationKeepsCert
<1> QED
  BY <1>1, <1>2 DEF CertNext

\* The last row of a required suite is there; it says PASSED if it says it is required,
\* and those of all commands do.
LEMMA RequiredPassed ==
    ASSUME CertInv, NEW runs \in SUBSET Procs, Proven(runs), NEW k \in Required
    PROVE  /\ Latest(runs, k) \in RowsFor(runs, k)
           /\ table[Latest(runs, k)].required => table[Latest(runs, k)].status = "PASSED"
           /\ kind[table[Latest(runs, k)].run] # "suites" => table[Latest(runs, k)].required
           /\ \A j \in RowsFor(runs, k) : j <= Latest(runs, k)
<1> DEFINE i == Latest(runs, k)
<1>1. RowsFor(runs, k) # {}
  BY DEF Proven, Missing, StatusIn
<1>2. i \in RowsFor(runs, k) /\ \A j \in RowsFor(runs, k) : j <= i
  BY <1>1, LatestIsLast DEF CertInv, IInv
<1>3. k \in Keys /\ k \notin Optional
  BY CertificationAssumption
<1>4. table[i].required => StatusIn(runs, k) = "PASSED"
  BY <1>1, <1>3 DEF Proven, Failed
<1> HIDE DEF i
<1>5. table[i].run \in Procs /\ i \in RowsOf(table[i].run) /\ table[i].key = k
  BY <1>2 DEF RowsFor, Rows, RowsOf
<1>6. kind[table[i].run] # "suites" => table[i].required
  BY <1>3, <1>5 DEF CertInv, KeyInv
<1> QED
  BY <1>1, <1>2, <1>4, <1>6 DEF StatusIn, i

\* In one run the latest row of a suite is its only one, unless it says FAILED or a
\* configuration lists the suite again.
LEMMA AllPassed ==
    ASSUME CertInv, NEW p \in Procs, Proven({p}), \A r \in SuitesOf(p) : r.required,
           NEW i \in RowsOf(p), table[i].status # "PASSED"
    PROVE  kind[p] = "suites" /\ Retried(p)
<1> DEFINE k == table[i].key
           last == Latest({p}, k)
<1>1. \A j : j \in RowsFor({p}, k) <=> j \in RowsOf(p) /\ table[j].key = k
  BY DEF RowsFor, Rows, RowsOf
<1>2. i \in RowsFor({p}, k)
  BY <1>1
<1>3. /\ last \in RowsOf(p) /\ table[last].key = k
      /\ i <= last
  BY <1>1, <1>2, LatestIsLast DEF CertInv, IInv
<1>4. k \in Keys
  <2>1. table \in Seq(RowType) /\ i \in 1..Len(table)
    BY DEF CertInv, IInv, Typed, RowsOf
  <2>2. table[i] \in RowType
    BY <2>1
  <2> QED
    BY <2>2 DEF RowType
<1>5. table[last].required
  BY <1>3 DEF SuitesOf
<1>6. StatusIn({p}, k) = table[last].status
  BY <1>2 DEF StatusIn
<1>7. table[last].status = "PASSED"
  BY <1>2, <1>4, <1>5, <1>6 DEF Proven, Failed
<1> HIDE DEF last
<1>8. i \in Nat /\ last \in Nat
  BY <1>3 DEF RowsOf
<1>9. i < last
  BY <1>3, <1>7, <1>8
<1>10. Retried(p)
  BY <1>3, <1>7, <1>9 DEF Retried
<1>11. kind[p] = "suites"
  BY <1>3, <1>7, <1>9 DEF CertInv, KeyInv
<1> QED
  BY <1>10, <1>11

\* _decide certifies nothing that finish_run, or a required suite, contradicts, when
\* the runs are over before it reads them, save what no one requires and the suites
\* that a configuration lists again.
THEOREM CertifiedEarned == CertSpec => []CertifiedWasEarned
<1>1. CertInv => CertifiedWasEarned
  <2> SUFFICES ASSUME CertInv, certificate.status = "CERTIFIED", certificate.settled
               PROVE  CertifiedWasEarned
    BY DEF CertifiedWasEarned
  <2>1. PICK runs \in SUBSET Procs : runs = certificate.runs
    BY DEF CertInv, CertTyped
  <2>2. Proven(runs) /\ NoInvariantFailed(runs)
    BY <2>1 DEF CertInv, Certified
  <2>3. ASSUME NEW k \in Required
        PROVE  \E i \in RowsFor(runs, k) :
                  /\ table[i].required => table[i].status = "PASSED"
                  /\ kind[table[i].run] # "suites" => table[i].required
                  /\ \A j \in RowsFor(runs, k) : j <= i
    BY <2>2, RequiredPassed
  <2>4. ASSUME NEW p \in Procs, runs = {p}, run[p] \in Terminal \ {"CANCELLED"},
               \A r \in SuitesOf(p) : r.required,
               ~(kind[p] = "suites" /\ Retried(p))
        PROVE  run[p] = "PASSED"
    <3>1. run[p] = StatusOf(SuitesOf(p), broken[p])
      BY <2>4 DEF CertInv, IInv, ProcInv, ResultInv
    <3>2. \A r \in SuitesOf(p) : r.status = "PASSED"
      BY <2>2, <2>4, AllPassed DEF SuitesOf
    <3>3. SuitesOf(p) # {}
      <4>1. PICK k \in Required : TRUE
        BY CertificationAssumption
      <4>2. Latest(runs, k) \in RowsOf(p)
        BY <2>2, <2>4, RequiredPassed DEF RowsFor, Rows, RowsOf
      <4> QED
        BY <4>2 DEF SuitesOf
    <3>4. ~broken[p]
      BY <2>2, <2>4 DEF NoInvariantFailed
    <3> QED
      BY <3>1, <3>2, <3>3, <3>4 DEF StatusOf
  <2> QED
    BY <2>1, <2>3, <2>4 DEF CertifiedWasEarned
<1> QED
  BY <1>1, CertBegins, CertStepKeeps, PTL DEF CertSpec

-----------------------------------------------------------------------------
(* The job launcher, that starts these processes                            *)


USE JobLauncherAssumption

\* A cancel request that does nothing is one, also when no job was named yet.
LEMMA NoCancelType == NoCancel \in Cancel
  BY DEF NoCancel, Cancel

\* Every reachable state is well typed.
THEOREM JobsTypeCorrect == JobsSpec => []JobsTypeOK
  <1>1. JobsInit => JobsTypeOK
    BY NoCancelType DEF JobsInit, JobsTypeOK, Files, NoFile, Workers
  <1>2. JobsTypeOK /\ [JobsNext]_jobsVars => JobsTypeOK'
    <2> SUFFICES ASSUME JobsTypeOK, [JobsNext]_jobsVars PROVE JobsTypeOK'
      OBVIOUS
    <2> USE DEF JobsTypeOK, MoveThread, Update
    <2>1. ASSUME NEW j \in Jobs, StartJob(j) \/ JobRunning(j) PROVE JobsTypeOK'
      BY <2>1 DEF StartJob, JobRunning, Files, Workers
    <2>2. ASSUME NEW j \in Jobs, Popen(j) \/ Register(j) \/ Exit(j) PROVE JobsTypeOK'
      BY <2>2 DEF Popen, Register, Exit, Workers, Ended
    <2>3. ASSUME NEW j \in Jobs, Waited(j) \/ Pop(j) PROVE JobsTypeOK'
      BY <2>3 DEF Waited, Pop, Workers
    <2>4. ASSUME NEW j \in Jobs, Decide(j) PROVE JobsTypeOK'
      <3>1. Outcome(file[j], proc[j]) \in Workers
        BY DEF Outcome, Workers
      <3>2. QED BY <2>4, <3>1 DEF Decide
    <2>5. ASSUME NEW j \in Jobs, WriteOutcome(j) \/ WriteException(j) PROVE JobsTypeOK'
      BY <2>5 DEF WriteOutcome, WriteException, Files, Workers, FinalStatuses
    <2>6. ASSUME NEW r \in Requests, NEW j \in Jobs, CancelLook(r, j) PROVE JobsTypeOK'
      BY <2>6 DEF CancelLook, Cancel
    <2>7. ASSUME NEW r \in Requests, CancelTerminate(r) PROVE JobsTypeOK'
      <3>1. cancel[r] \in Cancel /\ [cancel[r] EXCEPT !.pc = "write"] \in Cancel
        BY DEF Cancel
      <3>2. QED BY <2>7, <3>1 DEF CancelTerminate
    <2>8. ASSUME NEW r \in Requests, CancelWrite(r) PROVE JobsTypeOK'
      BY <2>8, NoCancelType DEF CancelWrite, Files, FinalStatuses
    <2>9. CASE Restart
      BY <2>9, NoCancelType DEF Restart, Workers
    <2>10. CASE UNCHANGED jobsVars
      BY <2>10 DEF jobsVars
    <2>11. QED
      BY <2>1, <2>2, <2>3, <2>4, <2>5, <2>6, <2>7, <2>8, <2>9, <2>10
      DEF JobsNext, JobWork, Cancelling
  <1>3. QED BY <1>1, <1>2, PTL DEF JobsSpec

\* What holds of one job between any two steps: which places of its thread
\* imply that it has a subprocess or that this has ended, and what the file
\* may say by then.
JobOK(j) ==
    /\ worker[j] \in {"start", "popen"} => proc[j] = "none"
    /\ file[j] = NoFile => worker[j] = "none" /\ proc[j] = "none"
    /\ worker[j] \in {"register", "wait"} => proc[j] # "none"
    /\ worker[j] \in {"decide", "SUCCESS", "FAILED", "CANCELLED"}
           => proc[j] \in Ended
    /\ worker[j] = "SUCCESS" => proc[j] = "zero"
    /\ file[j] = "SUCCESS" => proc[j] = "zero"
    /\ file[j] = "CANCELLED" => proc[j] \in {"signalled"} \cup Ended
    /\ j \in cancellable =>
           worker[j] \in {"wait", "decide", "pop"} \cup FinalStatuses /\ proc[j] # "none"

\* What holds of one cancel request: it found its job in the table, so there
\* is a subprocess, which terminate has reached or which had ended before.
CancelOK(r) ==
    /\ cancel[r].pc = "terminate" => proc[cancel[r].job] # "none"
    /\ cancel[r].pc = "write" => proc[cancel[r].job] \in {"signalled"} \cup Ended

JobsInv ==
    /\ JobsTypeOK
    /\ \A j \in Jobs : JobOK(j)
    /\ \A r \in Requests : CancelOK(r)

\* A subprocess that exists goes on existing, and one that was signalled or
\* ended is never again one that runs untouched.
LEMMA ProcStep ==
    ASSUME JobsInv, JobsNext, NEW j \in Jobs
    PROVE  /\ proc[j] # "none" => proc'[j] # "none"
           /\ proc[j] \in {"signalled"} \cup Ended
                  => proc'[j] \in {"signalled"} \cup Ended
  <1> USE DEF JobsInv, JobsTypeOK
  <1>1. ASSUME NEW k \in Jobs, Popen(k)
        PROVE  k # j \/ proc[j] = "none"
    BY <1>1 DEF JobOK, Popen, MoveThread
  <1>2. ASSUME NEW k \in Jobs, Popen(k) \/ Exit(k)
        PROVE  /\ proc[j] # "none" => proc'[j] # "none"
               /\ proc[j] \in {"signalled"} \cup Ended
                      => proc'[j] \in {"signalled"} \cup Ended
    BY <1>1, <1>2 DEF Popen, Exit, Ended
  <1>3. ASSUME NEW r \in Requests, CancelTerminate(r)
        PROVE  /\ proc[j] # "none" => proc'[j] # "none"
               /\ proc[j] \in {"signalled"} \cup Ended
                      => proc'[j] \in {"signalled"} \cup Ended
    BY <1>3 DEF CancelTerminate, Cancel, Ended
  <1>4. QED
    BY <1>2, <1>3
    DEF JobsNext, JobWork, Cancelling, StartJob, JobRunning, Register, Waited, Decide,
        WriteOutcome, WriteException, Pop, CancelLook, CancelWrite, Restart

\* Each action keeps what holds of a cancel request.
LEMMA CancelStep ==
    ASSUME JobsInv, JobsNext, NEW r \in Requests PROVE CancelOK(r)'
  <1> USE DEF JobsInv, JobsTypeOK
  <1>1. cancel[r] \in Cancel /\ cancel[r].job \in Jobs
    BY DEF Cancel
  <1>2. ASSUME cancel'[r] = cancel[r] PROVE CancelOK(r)'
    BY <1>1, <1>2, ProcStep DEF CancelOK
  <1>3. ASSUME cancel'[r] = NoCancel PROVE CancelOK(r)'
    BY <1>3 DEF CancelOK, NoCancel
  <1>4. ASSUME NEW q \in Requests, NEW j \in Jobs, CancelLook(q, j)
        PROVE  CancelOK(r)'
    <2>1. CASE q = r
      BY <1>4, <2>1 DEF CancelLook, CancelOK, JobOK
    <2>2. CASE q # r
      BY <1>2, <1>4, <2>2 DEF CancelLook
    <2>3. QED BY <2>1, <2>2
  <1>5. ASSUME NEW q \in Requests, CancelTerminate(q)
        PROVE  CancelOK(r)'
    <2>1. CASE q = r
      <3>1. proc[cancel[r].job] \in {"running", "signalled"} \cup Ended
        BY <1>1, <1>5, <2>1 DEF CancelTerminate, CancelOK
      <3>2. proc'[cancel[r].job] \in {"signalled"} \cup Ended
        BY <1>1, <1>5, <2>1, <3>1 DEF CancelTerminate, Ended
      <3>3. cancel'[r].job = cancel[r].job /\ cancel'[r].pc = "write"
        BY <1>1, <1>5, <2>1 DEF CancelTerminate, Cancel
      <3>4. QED BY <3>2, <3>3 DEF CancelOK
    <2>2. CASE q # r
      BY <1>2, <1>5, <2>2 DEF CancelTerminate
    <2>3. QED BY <2>1, <2>2
  <1>6. ASSUME NEW q \in Requests, CancelWrite(q)
        PROVE  CancelOK(r)'
    BY <1>2, <1>3, <1>6 DEF CancelWrite
  <1>7. ASSUME Restart PROVE CancelOK(r)'
    BY <1>3, <1>7 DEF Restart
  <1>8. QED
    BY <1>2, <1>4, <1>5, <1>6, <1>7
    DEF JobsNext, JobWork, Cancelling, StartJob, JobRunning, Popen, Register, Exit,
        Waited, Decide, WriteOutcome, WriteException, Pop

\* Each action keeps what holds of a job, whichever job it is about.
LEMMA JobStep ==
    ASSUME JobsInv, JobsNext, NEW j \in Jobs PROVE JobOK(j)'
  <1> USE DEF JobsInv, JobsTypeOK, MoveThread, Update
  <1>1. JobOK(j) /\ worker[j] \in Workers /\ file[j] \in Files
    OBVIOUS
  <1>2. ASSUME file'[j] = file[j], worker'[j] = worker[j], proc'[j] = proc[j],
               j \in cancellable' => j \in cancellable
        PROVE  JobOK(j)'
    BY <1>1, <1>2 DEF JobOK
  <1>3. ASSUME NEW k \in Jobs, k # j, JobWork(k) \/ StartJob(k) \/ Exit(k)
        PROVE  JobOK(j)'
    BY <1>2, <1>3
    DEF JobWork, StartJob, JobRunning, Popen, Register, Exit, Waited, Decide,
        WriteOutcome, WriteException, Pop
  <1>4. ASSUME StartJob(j) \/ JobRunning(j) PROVE JobOK(j)'
    BY <1>1, <1>4 DEF StartJob, JobRunning, JobOK, NoFile, FinalStatuses
  <1>5. ASSUME Popen(j) \/ Register(j) PROVE JobOK(j)'
    BY <1>1, <1>5 DEF Popen, Register, JobOK, NoFile, FinalStatuses, Ended
  <1>6. ASSUME Exit(j) PROVE JobOK(j)'
    BY <1>1, <1>6 DEF Exit, JobOK, Ended
  <1>7. ASSUME Waited(j) \/ Pop(j) PROVE JobOK(j)'
    BY <1>1, <1>7 DEF Waited, Pop, JobOK, FinalStatuses
  <1>8. ASSUME Decide(j) PROVE JobOK(j)'
    <2>1. proc[j] \in Ended
      BY <1>1, <1>8 DEF Decide, JobOK
    <2>2. /\ Outcome(file[j], proc[j]) \in FinalStatuses
          /\ Outcome(file[j], proc[j]) = "SUCCESS" => proc[j] = "zero"
      BY DEF Outcome, FinalStatuses
    <2>3. QED BY <1>1, <1>8, <2>1, <2>2 DEF Decide, JobOK, FinalStatuses
  <1>9. ASSUME WriteOutcome(j) \/ WriteException(j) PROVE JobOK(j)'
    BY <1>1, <1>9 DEF WriteOutcome, WriteException, JobOK, FinalStatuses, NoFile
  <1>10. ASSUME NEW r \in Requests, NEW k \in Jobs, CancelLook(r, k)
         PROVE  JobOK(j)'
    BY <1>2, <1>10 DEF CancelLook
  <1>11. ASSUME NEW r \in Requests, CancelTerminate(r) PROVE JobOK(j)'
    <2>1. CASE proc'[j] = proc[j]
      BY <1>2, <1>11, <2>1 DEF CancelTerminate
    <2>2. CASE proc[j] = "running" /\ proc'[j] = "signalled"
      BY <1>1, <1>11, <2>2 DEF CancelTerminate, JobOK, Ended
    <2>3. QED BY <1>11, <2>1, <2>2 DEF CancelTerminate, Cancel
  <1>12. ASSUME NEW r \in Requests, CancelWrite(r) PROVE JobOK(j)'
    <2>1. CASE cancel[r].job = j
      <3>1. proc[j] \in {"signalled"} \cup Ended
        BY <1>12, <2>1 DEF CancelWrite, CancelOK
      <3>2. file' = [file EXCEPT ![j] = "CANCELLED"]
        BY <1>12, <2>1 DEF CancelWrite
      <3>3. QED BY <1>1, <1>12, <3>1, <3>2 DEF CancelWrite, JobOK, NoFile, Ended
    <2>2. CASE cancel[r].job # j
      BY <1>2, <1>12, <2>2 DEF CancelWrite, Cancel
    <2>3. QED BY <2>1, <2>2
  <1>13. ASSUME Restart PROVE JobOK(j)'
    BY <1>1, <1>13 DEF Restart, JobOK
  <1>14. QED
    BY <1>3, <1>4, <1>5, <1>6, <1>7, <1>8, <1>9, <1>10, <1>11, <1>12, <1>13
    DEF JobsNext, JobWork, Cancelling

\* JobsInv is inductive.
LEMMA JobsInductive == JobsSpec => []JobsInv
  <1>1. JobsInit => JobsInv
    <2> SUFFICES ASSUME JobsInit PROVE JobsInv
      OBVIOUS
    <2>1. JobsTypeOK
      BY NoCancelType DEF JobsInit, JobsTypeOK, Files, NoFile, Workers
    <2>2. \A j \in Jobs : JobOK(j)
      BY DEF JobsInit, JobOK, NoFile
    <2>3. \A r \in Requests : CancelOK(r)
      BY DEF JobsInit, CancelOK, NoCancel
    <2>4. QED BY <2>1, <2>2, <2>3 DEF JobsInv
  <1>2. JobsInv /\ [JobsNext]_jobsVars /\ JobsTypeOK' => JobsInv'
    <2> SUFFICES ASSUME JobsInv, [JobsNext]_jobsVars, JobsTypeOK' PROVE JobsInv'
      OBVIOUS
    <2>1. CASE JobsNext
      BY <2>1, JobStep, CancelStep DEF JobsInv
    <2>2. CASE UNCHANGED jobsVars
      BY <2>2 DEF jobsVars, JobsInv, JobOK, CancelOK
    <2>3. QED BY <2>1, <2>2
  <1>3. QED BY <1>1, <1>2, JobsTypeCorrect, PTL DEF JobsSpec

\* Whatever cancels, exits and restarts interleave with a job's thread, SUCCESS
\* in its file means exit code zero.
THEOREM SuccessEarned == JobsSpec => []SuccessWasEarned
  <1>1. JobsInv => SuccessWasEarned
    BY DEF JobsInv, JobOK, SuccessWasEarned
  <1>2. QED BY <1>1, JobsInductive, PTL

\* Whatever interleaves, no job is CANCELLED while its subprocess runs without
\* having been signalled.
THEOREM CancelledStopped == JobsSpec => []CancelledWasStopped
  <1>1. JobsInv => CancelledWasStopped
    BY DEF JobsInv, JobOK, CancelledWasStopped
  <1>2. QED BY <1>1, JobsInductive, PTL

\* Only jobs with a thread that is past Popen can be cancelled.
THEOREM TableHasThread == JobsSpec => []TableHasThreads
  <1>1. JobsInv => TableHasThreads
    BY DEF JobsInv, JobsTypeOK, JobOK, TableHasThreads
  <1>2. QED BY <1>1, JobsInductive, PTL

=============================================================================
