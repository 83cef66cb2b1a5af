------------------------- MODULE DatabaseResetProofs -------------------------
(***************************************************************************)
(* Proofs about the runs and the database operations of agent.py, for any  *)
(* runs, stopping threads, admins and number of restarts.                  *)
(***************************************************************************)
EXTENDS MCDatabaseReset, TLAPS

\* What a verdict says of its run.
Earned(verdict, r) ==
    /\ verdict = "STOPPED" => asked[r]
    /\ verdict = "PASSED" /\ kind[r] # "inner" => proc[r] = "zero"
    /\ verdict = "STOPPED" /\ kind[r] # "inner" => proc[r] \in Exited

\* A verdict is earned when the thread of the run reaches it and stays so while
\* the thread has yet to write it: who has a thread at work is RUNNING, and its
\* subprocess is replaced by no one else.
RunInv(r) ==
    /\ worker[r] # "none" => run[r] = "RUNNING"
    /\ Earned(worker[r], r)
    /\ Earned(run[r], r)

\* A stop writes back what it has read of its own run.
CallInv(q) ==
    stop[q].pc = "write" => stop[q].entry \in Entry /\ stop[q].entry.run = stop[q].run

VerdictInv ==
    /\ RunsTypeOK
    /\ \A r \in Runs : RunInv(r)
    /\ \A q \in Stoppers : CallInv(q)

USE AgentRunsAssumption

\* No stop is in progress.
LEMMA NoStopIsCall == NoStop \in StopCall /\ NoStop.pc = "idle"
<1>1. (CHOOSE r \in Runs : TRUE) \in Runs
  OBVIOUS
<1> QED
  BY <1>1 DEF NoStop, StopCall

\* The calls that the places of a stop make of one another.
LEMMA CallChanges ==
    ASSUME NEW call \in StopCall
    PROVE  LET signal == [call EXCEPT !.pc = "signal"]
               answer == [call EXCEPT !.pc = "signal", !.entry = NoEntry]
               read   == [pc |-> "write", run |-> call.run, entry |-> active]
           IN  /\ active \in Entry => read \in StopCall
               /\ signal \in StopCall /\ signal.pc = "signal" /\ signal.run = call.run
               /\ answer \in StopCall /\ answer.pc = "signal" /\ answer.run = call.run
BY DEF StopCall

\* The file is about a run, or says so that it is about none.
LEMMA ActiveIsEntry ==
    ASSUME RunsTypeOK
    PROVE  \/ active \in Entry /\ active.run \in Runs
           \/ active = NoEntry /\ active.run = Nobody
<1>1. NoEntry.run = Nobody
  BY DEF NoEntry
<1>2. active \in Entry \/ active = NoEntry
  BY DEF RunsTypeOK
<1> QED
  BY <1>1, <1>2 DEF Entry

\* An entry that is resumed is about a run.
LEMMA ResumedIsRun == ASSUME RunsTypeOK, Resumes(active) PROVE active.run \in Runs
<1>1. NoEntry.status = ""
  BY DEF NoEntry
<1>2. active \in Entry \/ active = NoEntry
  BY DEF RunsTypeOK
<1> QED
  BY <1>1, <1>2 DEF Resumes, Entry

\* Nothing has run yet.
LEMMA VerdictBegins == RunsInit => VerdictInv
BY NoStopIsCall
   DEF RunsInit, VerdictInv, RunsTypeOK, RunInv, CallInv, Earned, RunState, NoRun, Ends

\* Every step of a run, of a stop and of a restart keeps VerdictInv.
LEMMA VerdictKept == VerdictInv /\ (RunActs \/ RestartAgent) => VerdictInv'
<1> SUFFICES ASSUME VerdictInv, RunActs \/ RestartAgent PROVE VerdictInv'
  OBVIOUS
<1> USE DEF VerdictInv, RunsTypeOK, RunInv, CallInv, Earned, RunState, Ends, NoRun,
        Exited, Step
<1>1. ASSUME NEW r \in Runs, Wake(r) PROVE VerdictInv'
  BY <1>1 DEF Wake
<1>2. ASSUME NEW r \in Runs, NEW k \in Kinds, StartRun(r, k) PROVE VerdictInv'
  BY <1>2 DEF StartRun, Kinds
<1>3. ASSUME NEW r \in Runs, WriteActive(r) PROVE VerdictInv'
  BY <1>3 DEF WriteActive, Entry
<1>4. ASSUME NEW r \in Runs, StartProcess(r) PROVE VerdictInv'
  BY <1>4 DEF StartProcess
<1>5. ASSUME NEW r \in Runs, Assign(r) PROVE VerdictInv'
  BY <1>5 DEF Assign
<1>6. ASSUME NEW r \in Runs, SeeStop(r) PROVE VerdictInv'
  BY <1>6 DEF SeeStop, Signal
<1>7. ASSUME NEW r \in Runs, OutputEnds(r) PROVE VerdictInv'
  BY <1>7 DEF OutputEnds
<1>8. ASSUME NEW r \in Runs, Wait(r) PROVE VerdictInv'
  BY <1>8 DEF Wait, Verdict
<1>9. ASSUME NEW r \in Runs, EndInner(r) PROVE VerdictInv'
  BY <1>9 DEF EndInner
<1>10. ASSUME NEW r \in Runs, FinishRun(r) PROVE VerdictInv'
  BY <1>10 DEF FinishRun
<1>11. ASSUME NEW r \in Runs, ProcessEnds(r) PROVE VerdictInv'
  BY <1>11 DEF ProcessEnds
<1>12. ASSUME NEW q \in Stoppers, NEW r \in Runs, StopRun(q, r) PROVE VerdictInv'
  <2>1. /\ [NoStop EXCEPT !.pc = "read", !.run = r] \in StopCall
        /\ [NoStop EXCEPT !.pc = "read", !.run = r].pc = "read"
    BY NoStopIsCall DEF StopCall
  <2> QED
    BY <1>12, <2>1 DEF StopRun
<1>13. ASSUME NEW q \in Stoppers, StopRead(q) PROVE VerdictInv'
  <2>1. stop[q] \in StopCall /\ stop[q].run \in Runs
    BY DEF StopCall
  <2>2. active.run = stop[q].run => active \in Entry
    BY <2>1, ActiveIsEntry
  <2> QED
    BY ZenonT(40), <1>13, <2>1, <2>2, CallChanges DEF StopRead
<1>14. ASSUME NEW q \in Stoppers, StopWrite(q) PROVE VerdictInv'
  <2>1. stop[q] \in StopCall
    OBVIOUS
  <2>2. active' \in Entry
    BY ZenonT(40), <1>14 DEF StopWrite, Entry
  <2>3. UNCHANGED <<run, kind, asked, worker, proc, handle, waking, restarts>>
    BY <1>14 DEF StopWrite
  <2>4. stop' \in [Stoppers -> StopCall] /\ \A p \in Stoppers : CallInv(p)'
    BY ZenonT(40), <1>14, <2>1, CallChanges DEF StopWrite
  <2>5. \A r \in Runs : RunInv(r)'
    BY <2>3
  <2>6. RunsTypeOK'
    BY <2>2, <2>3, <2>4
  <2> QED
    BY <2>4, <2>5, <2>6
<1>15. ASSUME NEW q \in Stoppers, StopSignal(q) PROVE VerdictInv'
  BY <1>15, NoStopIsCall DEF StopSignal, Signal
<1>16. ASSUME RestartAgent PROVE VerdictInv'
  <2>1. waking' \in Runs \cup {Nobody}
    BY <1>16, ResumedIsRun DEF RestartAgent
  <2>2. stop' \in [Stoppers -> StopCall] /\ \A q \in Stoppers : CallInv(q)'
    BY <1>16, NoStopIsCall DEF RestartAgent
  <2>3. \A r \in Runs : RunInv(r)'
    BY <1>16 DEF RestartAgent
  <2>4. RunsTypeOK'
    BY <1>16, <2>1, <2>2 DEF RestartAgent
  <2> QED
    BY <2>2, <2>3, <2>4
<1>17. ASSUME NEW r \in Runs, ThreadDies(r) PROVE VerdictInv'
  BY <1>17 DEF ThreadDies
<1> QED
  BY <1>1, <1>2, <1>3, <1>4, <1>5, <1>6, <1>7, <1>8, <1>9, <1>10, <1>11, <1>12,
     <1>13, <1>14, <1>15, <1>16, <1>17
     DEF RunActs, Starting, WorkRun, Stopping

\* The database operations leave the runs alone.
LEMMA StepsOfRuns == [Next]_vars => RunActs \/ RestartAgent \/ UNCHANGED runVars
BY DEF Next, vars, JobWork, Preview, Check, Drop, Create, Verify, Undo, DropTemplate,
       Clone, Truncate, TruncateRest, VerifyTemplate, UndoTemplate, DbFails,
       RunWrites, GoldenDamaged, Restart

\* VerdictInv holds in every reachable state.
LEMMA VerdictInductive == Spec => []VerdictInv
<1>1. Init => VerdictInv
  BY VerdictBegins DEF Init
<1>2. VerdictInv /\ UNCHANGED runVars => VerdictInv'
  BY DEF VerdictInv, RunsTypeOK, RunInv, CallInv, Earned, runVars
<1> QED
  BY <1>1, <1>2, StepsOfRuns, VerdictKept, PTL DEF Spec

\* However the stop, the thread's reads of the stop_event and the end of the
\* process interleave, a verdict is one the run has earned.
THEOREM VerdictEarned == Spec => []VerdictWasEarned
<1>1. VerdictInv => VerdictWasEarned
  BY DEF VerdictInv, RunInv, Earned, VerdictWasEarned
<1> QED
  BY <1>1, VerdictInductive, PTL

-----------------------------------------------------------------------------
(* The databases                                                           *)

Dirty == {"production", "leftovers"}

\* The places that only one operation comes to.
PlaceInv(a) ==
    /\ job[a].op = "none" => job[a].pc = "idle"
    /\ job[a].pc \in {"dropTemplate", "clone", "truncate", "truncateRest", "undoTemplate"}
          => job[a].op = "prepare"
    /\ job[a].pc = "undo" => job[a].op = "qaReset"

\* An incomplete QA database is in the hands of a reset that has yet to verify
\* it, or to drop it.
QaInv ==
    qa = "damaged" /\ ~cut =>
        \E a \in Admins : job[a].op = "qaReset" /\ job[a].pc \in {"verify", "undo"}

\* Who is about to clone the demo template has verified it, and it was not one
\* of which verify_qa_baseline thinks better than it is: rows of production
\* without orders are there only between two truncates.
DemoInv ==
    ~met /\ ~torn =>
        /\ \A a, b \in Busy : a = b
        /\ demo \notin Dirty
        /\ template = "leftovers" =>
              \E a \in Admins : job[a].op = "prepare" /\ job[a].pc = "truncateRest"
        /\ \A a \in Admins :
              \/ job[a].pc = "create" /\ job[a].op # "qaReset"
              \/ job[a].pc = "drop" /\ job[a].op = "demoReset"
              => template \notin Dirty

DatabaseInv ==
    /\ DatabaseTypeOK
    /\ \A a \in Admins : PlaceInv(a)
    /\ QaInv
    /\ DemoInv

\* No operation has begun.
LEMMA DatabaseBegins == HistoryInit => DatabaseInv
BY DEF HistoryInit, Init, DatabaseInv, DatabaseTypeOK, Contents, Job, NoJob, PlaceInv,
       QaInv, DemoInv, Busy, At, Dirty

\* What the history variables say of a step.
LEMMA HistoryGrows ==
    ASSUME HistoryNext
    PROVE  /\ met => met'
           /\ torn => torn'
           /\ cut => cut'
           /\ ~met' => \A a, b \in Busy' : a = b
BY DEF HistoryNext

\* An operation that was lost where it matters is remembered.
LEMMA HistoryLost ==
    ASSUME HistoryNext, NEW a \in Admins, job[a].pc # "idle", job'[a].pc = "idle",
           DbFails(a) \/ restarts' # restarts
    PROVE  /\ job[a].op = "prepare" /\ job[a].pc = "truncateRest" => torn'
           /\ job[a].op = "qaReset" /\ job[a].pc \in {"verify", "undo"} => cut'
<1>1. a \in Busy \ Busy'
  BY DEF Busy, At
<1>2. job[a].op = "prepare" /\ job[a].pc = "truncateRest" => a \in Lost("prepare", {"truncateRest"})
  BY <1>1 DEF Lost
<1>3. job[a].op = "qaReset" /\ job[a].pc \in {"verify", "undo"}
        => a \in Lost("qaReset", {"verify", "undo"})
  BY <1>1 DEF Lost
<1> QED
  BY <1>2, <1>3 DEF HistoryNext

\* Every step of an operation, of a run and of a restart keeps DatabaseInv.
LEMMA DatabaseKept == DatabaseInv /\ [HistoryNext]_historyVars => DatabaseInv'
<1> SUFFICES ASSUME DatabaseInv, [HistoryNext]_historyVars PROVE DatabaseInv'
  OBVIOUS
<1> USE DEF DatabaseInv, DatabaseTypeOK, Job, NoJob, PlaceInv, QaInv, DemoInv, Busy, At,
            Goto, Return, Doing, Dirty, Contents, Ops
<1>1. ASSUME HistoryNext, NEW a \in Admins, NEW op \in Ops, Preview(a, op) PROVE DatabaseInv'
  BY <1>1, HistoryGrows DEF Preview
<1>2. ASSUME HistoryNext, NEW a \in Admins, Check(a) PROVE DatabaseInv'
  BY <1>2, HistoryGrows DEF Check, Checked
<1>3. ASSUME HistoryNext, NEW a \in Admins, Drop(a) PROVE DatabaseInv'
  BY <1>3, HistoryGrows DEF Drop
<1>4. ASSUME HistoryNext, NEW a \in Admins, Create(a) PROVE DatabaseInv'
  BY <1>4, HistoryGrows DEF Create
<1>5. ASSUME HistoryNext, NEW a \in Admins, Verify(a) PROVE DatabaseInv'
  BY <1>5, HistoryGrows DEF Verify, Verified
<1>6. ASSUME HistoryNext, NEW a \in Admins, Undo(a) PROVE DatabaseInv'
  BY <1>6, HistoryGrows DEF Undo
<1>7. ASSUME HistoryNext, NEW a \in Admins, DropTemplate(a) PROVE DatabaseInv'
  BY <1>7, HistoryGrows DEF DropTemplate
<1>8. ASSUME HistoryNext, NEW a \in Admins, Clone(a) PROVE DatabaseInv'
  BY <1>8, HistoryGrows DEF Clone
<1>9. ASSUME HistoryNext, NEW a \in Admins, Truncate(a) PROVE DatabaseInv'
  BY <1>9, HistoryGrows DEF Truncate
<1>10. ASSUME HistoryNext, NEW a \in Admins, TruncateRest(a) PROVE DatabaseInv'
  BY <1>10, HistoryGrows DEF TruncateRest
<1>11. ASSUME HistoryNext, NEW a \in Admins, VerifyTemplate(a) PROVE DatabaseInv'
  BY <1>11, HistoryGrows DEF VerifyTemplate, Verified
<1>12. ASSUME HistoryNext, NEW a \in Admins, UndoTemplate(a) PROVE DatabaseInv'
  BY <1>12, HistoryGrows DEF UndoTemplate
<1>13. ASSUME HistoryNext, NEW a \in Admins, DbFails(a) PROVE DatabaseInv'
  <2>1. /\ job[a].pc \notin {"idle", "check", "verify"} /\ job' = [job EXCEPT ![a] = NoJob]
        /\ UNCHANGED <<golden, qa, template, demo>>
    BY <1>13 DEF DbFails
  <2>2. /\ job[a].op = "prepare" /\ job[a].pc = "truncateRest" => torn'
        /\ job[a].op = "qaReset" /\ job[a].pc \in {"verify", "undo"} => cut'
    BY <1>13, <2>1, HistoryLost
  <2> QED
    BY <1>13, <2>1, <2>2, HistoryGrows
<1>14. ASSUME HistoryNext, RunWrites PROVE DatabaseInv'
  BY <1>14, HistoryGrows DEF RunWrites
<1>15. ASSUME HistoryNext, GoldenDamaged PROVE DatabaseInv'
  BY <1>15, HistoryGrows DEF GoldenDamaged
<1>16. ASSUME HistoryNext, Restart PROVE DatabaseInv'
  BY <1>16, HistoryGrows, HistoryLost DEF Restart, RestartAgent
<1>17. ASSUME HistoryNext, UNCHANGED dbVars PROVE DatabaseInv'
  BY <1>17, HistoryGrows DEF dbVars
<1>18. ASSUME UNCHANGED historyVars PROVE DatabaseInv'
  BY <1>18 DEF historyVars, history, vars, dbVars
<1> HIDE DEF DatabaseInv, DatabaseTypeOK, Job, NoJob, PlaceInv, QaInv, DemoInv, Busy, At,
             Goto, Return, Doing, Dirty, Contents, Ops
<1>19. ASSUME HistoryNext, NEW a \in Admins, JobWork(a) PROVE DatabaseInv'
  BY <1>2, <1>3, <1>4, <1>5, <1>6, <1>7, <1>8, <1>9, <1>10, <1>11, <1>12, <1>13, <1>19
     DEF JobWork
<1>20. CASE HistoryNext
  BY <1>1, <1>14, <1>15, <1>16, <1>17, <1>19, <1>20 DEF HistoryNext, Next
<1> QED
  BY <1>18, <1>20

\* The history variables add nothing to what the specification allows.
LEMMA HistoryIsSpec == HistorySpec => Spec
<1>1. HistoryInit => Init
  BY DEF HistoryInit
<1>2. [HistoryNext]_historyVars => [Next]_vars
  BY DEF HistoryNext, historyVars
<1> QED
  BY <1>1, <1>2, PTL DEF HistorySpec, Spec

\* DatabaseInv holds in every reachable state.
LEMMA DatabaseInductive == HistorySpec => []DatabaseInv
BY DatabaseBegins, DatabaseKept, PTL DEF HistorySpec

\* Every reachable state is well typed: the runs, the file, the stops, the
\* databases and the operations on them.
THEOREM TypeCorrect == HistorySpec => []TypeOK
<1>1. VerdictInv /\ DatabaseInv => TypeOK
  BY DEF VerdictInv, DatabaseInv, TypeOK
<1> QED
  BY <1>1, VerdictInductive, DatabaseInductive, HistoryIsSpec, PTL

\* Whatever resets overlap, fail or are cut short, and whatever happens to the
\* Golden Template: no incomplete QA database is left behind, unless the last
\* steps of a reset were lost.
THEOREM ResetFailsClosed == HistorySpec => []FailClosed
<1>1. DatabaseInv => FailClosed
  BY DEF DatabaseInv, QaInv, FailClosed, Busy, At
<1> QED
  BY <1>1, DatabaseInductive, PTL

\* One operation at a time: no rows of production reach the demo database.
THEOREM DemoIsClean == HistorySpec => []SerialDemoIsClean
<1>1. DatabaseInv => SerialDemoIsClean
  BY DEF DatabaseInv, DemoInv, SerialDemoIsClean, Dirty
<1> QED
  BY <1>1, DatabaseInductive, PTL

-----------------------------------------------------------------------------
(* The resumed soak                                                        *)

\* Who is being stopped, who may be woken and who the file is about has begun,
\* and is not begun again.
BegunInv ==
    /\ \A q \in Stoppers : stop[q].pc # "idle" => run[stop[q].run] # NoRun /\ asked[stop[q].run]
    /\ waking # Nobody => run[waking] = NoRun /\ worker[waking] = "none" /\ kind[waking] # "fresh"
    /\ active.run \in Runs => kind[active.run] # "fresh"
    /\ \A r \in Runs : run[r] # NoRun \/ worker[r] # "none" => kind[r] # "fresh"

\* A run that will not be resumed: neither from the file as it is, nor from what
\* its own thread has yet to write.
Settled(r) ==
    /\ active.run = r => ~Resumes(active)
    /\ worker[r] # "file"
    /\ kind[r] # "fresh"

\* As long as no stop has met the start of a soak, the file is about the newest
\* soak, a stop that has yet to write is about what it has read, and who is
\* passed over has been asked to stop.
FileInv ==
    ~hurried =>
        /\ newest = active.run
        /\ Stopped # {} => \A r \in Runs : worker[r] # "file"
        /\ \A q \in Stoppers : stop[q].pc = "write" => stop[q].run = active.run
        /\ \A q \in Stoppers : stop[q].pc = "signal" => Settled(stop[q].run)
        /\ \A r \in answered : Settled(r)
        /\ newest # Nobody /\ run[newest] = "RUNNING" /\ ~asked[newest] => Resumes(active)
        /\ waking # Nobody /\ waking = active.run => Resumes(active)

ResumeInv == answered \subseteq Runs /\ BegunInv /\ FileInv

\* Nothing has begun.
LEMMA ResumeBegins == HistoryInit => ResumeInv
<1> SUFFICES ASSUME HistoryInit PROVE ResumeInv
  OBVIOUS
<1>1. active.run = Nobody /\ newest = Nobody /\ waking = Nobody /\ answered = {}
  BY DEF HistoryInit, Init, RunsInit, NoEntry
<1>2. \A q \in Stoppers : stop[q].pc = "idle"
  BY NoStopIsCall DEF HistoryInit, Init, RunsInit
<1>3. \A r \in Runs : run[r] = NoRun /\ worker[r] = "none"
  BY DEF HistoryInit, Init, RunsInit
<1> QED
  BY <1>1, <1>2, <1>3 DEF ResumeInv, BegunInv, FileInv, Stopped

\* What the history variables of the soaks say of a step.
LEMMA HistoryOfFile ==
    ASSUME HistoryNext
    PROVE  /\ hurried => hurried'
           /\ ~hurried' /\ Stopped' # {} => \A r \in Runs : worker'[r] # "file"
           /\ newest' \in {newest, active'.run}
           /\ \A r \in Runs : WriteActive(r) => newest' = active'.run
           /\ \A r \in answered' :
                 r \in answered \/ \E q \in Stoppers : stop[q].pc = "signal" /\ stop[q].run = r
BY DEF HistoryNext, StopSignal, Stopped

\* The fields of a call.
LEMMA CallFields ==
    ASSUME VerdictInv, NEW q \in Stoppers
    PROVE  stop[q] \in StopCall /\ stop[q].run \in Runs
BY DEF VerdictInv, RunsTypeOK, StopCall

\* Every step of a run, of a stop and of a restart keeps ResumeInv.
LEMMA ResumeKept == VerdictInv /\ ResumeInv /\ [HistoryNext]_historyVars => ResumeInv'
<1> SUFFICES ASSUME VerdictInv, ResumeInv, [HistoryNext]_historyVars PROVE ResumeInv'
  OBVIOUS
<1> USE CallFields DEF ResumeInv, BegunInv, FileInv, Settled, Stopped, Step
<1>0. /\ run \in [Runs -> RunState] /\ kind \in [Runs -> Kinds \cup {"fresh"}]
      /\ asked \in [Runs -> BOOLEAN] /\ DOMAIN worker = Runs /\ DOMAIN stop = Stoppers
      /\ waking \in Runs \cup {Nobody}
  BY DEF VerdictInv, RunsTypeOK
<1>1. ASSUME HistoryNext, NEW r \in Runs, Wake(r) PROVE ResumeInv'
  BY <1>0, <1>1, HistoryOfFile DEF Wake, NoRun
<1>2. ASSUME HistoryNext, NEW r \in Runs, NEW k \in Kinds, StartRun(r, k) PROVE ResumeInv'
  BY <1>0, <1>2, HistoryOfFile DEF StartRun, Kinds, NoRun
<1>3. ASSUME HistoryNext, NEW r \in Runs, WriteActive(r) PROVE ResumeInv'
  <2>1. /\ newest' = active'.run /\ active'.run = r
        /\ Resumes(active')
    BY <1>3, HistoryOfFile DEF WriteActive, Resumes
  <2>2. /\ worker[r] = "file" /\ worker' = [worker EXCEPT ![r] = "begin"]
        /\ UNCHANGED <<run, kind, asked, proc, handle, stop, waking, restarts>>
    BY <1>3 DEF WriteActive
  <2> QED
    BY <1>0, <1>3, <2>1, <2>2, HistoryOfFile
<1>4. ASSUME HistoryNext, NEW r \in Runs, StartProcess(r) PROVE ResumeInv'
  BY <1>0, <1>4, HistoryOfFile DEF StartProcess
<1>5. ASSUME HistoryNext, NEW r \in Runs, Assign(r) PROVE ResumeInv'
  BY <1>0, <1>5, HistoryOfFile DEF Assign
<1>6. ASSUME HistoryNext, NEW r \in Runs, SeeStop(r) PROVE ResumeInv'
  BY <1>0, <1>6, HistoryOfFile DEF SeeStop
<1>7. ASSUME HistoryNext, NEW r \in Runs, OutputEnds(r) PROVE ResumeInv'
  BY <1>0, <1>7, HistoryOfFile DEF OutputEnds
<1>8. ASSUME HistoryNext, NEW r \in Runs, Wait(r) PROVE ResumeInv'
  BY <1>0, <1>8, HistoryOfFile DEF Wait, Verdict
<1>9. ASSUME HistoryNext, NEW r \in Runs, EndInner(r) PROVE ResumeInv'
  BY <1>0, <1>9, HistoryOfFile DEF EndInner, Ends
<1>10. ASSUME HistoryNext, NEW r \in Runs, FinishRun(r) PROVE ResumeInv'
  BY <1>0, <1>10, HistoryOfFile DEF FinishRun, Ends, NoRun
<1>11. ASSUME HistoryNext, NEW r \in Runs, ProcessEnds(r) PROVE ResumeInv'
  BY <1>0, <1>11, HistoryOfFile DEF ProcessEnds
<1>12. ASSUME HistoryNext, NEW q \in Stoppers, NEW r \in Runs, StopRun(q, r) PROVE ResumeInv'
  BY <1>0, <1>12, NoStopIsCall, HistoryOfFile DEF StopRun
<1>13. ASSUME HistoryNext, NEW q \in Stoppers, StopRead(q) PROVE ResumeInv'
  <2>1. /\ stop[q].pc = "read"
        /\ \A p \in Stoppers \ {q} : stop'[p] = stop[p]
        /\ UNCHANGED <<run, kind, asked, worker, proc, handle, active, waking, restarts>>
    BY <1>0, <1>13 DEF StopRead
  <2>2. /\ stop'[q].run = stop[q].run
        /\ \/ active.run = stop[q].run /\ stop'[q].pc = "write"
           \/ active.run # stop[q].run /\ stop'[q].pc = "signal"
    BY <1>0, <1>13, CallChanges DEF StopRead
  <2> QED
    BY <1>0, <1>13, <2>1, <2>2, HistoryOfFile
<1>14. ASSUME HistoryNext, NEW q \in Stoppers, StopWrite(q) PROVE ResumeInv'
  <2>1. /\ stop[q].pc = "write"
        /\ \A p \in Stoppers \ {q} : stop'[p] = stop[p]
        /\ UNCHANGED <<run, kind, asked, worker, proc, handle, waking, restarts>>
    BY <1>0, <1>14 DEF StopWrite
  <2>2. stop'[q].run = stop[q].run /\ stop'[q].pc = "signal"
    BY <1>0, <1>14, CallChanges DEF StopWrite
  <2>3. active'.run = stop[q].run /\ ~Resumes(active')
    <3>1. stop[q].entry \in Entry /\ stop[q].entry.run = stop[q].run
      BY <2>1 DEF VerdictInv, CallInv
    <3> QED
      BY <1>14, <3>1 DEF StopWrite, Entry, Resumes
  <2> QED
    BY <1>0, <1>14, <2>1, <2>2, <2>3, HistoryOfFile
<1>15. ASSUME HistoryNext, NEW q \in Stoppers, StopSignal(q) PROVE ResumeInv'
  BY <1>0, <1>15, NoStopIsCall, HistoryOfFile DEF StopSignal
<1>16. ASSUME HistoryNext, RestartAgent PROVE ResumeInv'
  <2>1. /\ \A r \in Runs : run'[r] = NoRun /\ worker'[r] = "none"
        /\ \A q \in Stoppers : stop'[q].pc = "idle"
        /\ UNCHANGED <<kind, active>>
    BY <1>16, NoStopIsCall DEF RestartAgent
  <2>2. waking' # Nobody => waking' = active.run /\ Resumes(active) /\ active.run \in Runs
    BY <1>16, ResumedIsRun DEF RestartAgent, VerdictInv
  <2>3. ~hurried => (newest # Nobody => newest \in Runs)
    BY ActiveIsEntry DEF VerdictInv
  <2> QED
    BY <1>0, <1>16, <2>1, <2>2, <2>3, HistoryOfFile DEF NoRun
<1>17. ASSUME HistoryNext, UNCHANGED runVars PROVE ResumeInv'
  BY <1>0, <1>17, HistoryOfFile DEF runVars
<1>18. ASSUME UNCHANGED historyVars PROVE ResumeInv'
  BY <1>0, <1>18 DEF historyVars, history, vars, runVars
<1>19. ASSUME HistoryNext, NEW r \in Runs, ThreadDies(r) PROVE ResumeInv'
  BY <1>0, <1>19, HistoryOfFile DEF ThreadDies
<1>20. HistoryNext => RunActs \/ RestartAgent \/ UNCHANGED runVars
  BY StepsOfRuns DEF HistoryNext
<1> QED
  BY <1>1, <1>2, <1>3, <1>4, <1>5, <1>6, <1>7, <1>8, <1>9, <1>10, <1>11, <1>12,
     <1>13, <1>14, <1>15, <1>16, <1>17, <1>18, <1>19, <1>20
     DEF RunActs, Starting, WorkRun, Stopping

\* A restart wakes the newest soak if it was at work and nobody had asked it to
\* stop, and no soak whose stop has been answered.
THEOREM ResumeIsRight == HistorySpec => SerialResumeIsRight
<1>1. ASSUME VerdictInv, ResumeInv, [HistoryNext]_historyVars, restarts' # restarts, ~hurried
      PROVE  /\ waking' \notin answered
             /\ newest # Nobody /\ run[newest] = "RUNNING" /\ ~asked[newest] => waking' = newest
  <2>1. RestartAgent
    <3>1. RunActs => UNCHANGED restarts
      BY DEF RunActs, Starting, WorkRun, Stopping, Wake, StartRun, WriteActive,
             ThreadDies, StartProcess, Assign, SeeStop, OutputEnds, Wait, EndInner,
             FinishRun, ProcessEnds, StopRun, StopRead, StopWrite, StopSignal
    <3>2. [Next]_vars
      BY <1>1 DEF HistoryNext, historyVars
    <3> QED
      BY <1>1, <3>1, <3>2, StepsOfRuns DEF runVars
  <2>2. waking' = IF Resumes(active) THEN active.run ELSE Nobody
    BY <2>1 DEF RestartAgent
  <2> QED
    BY <1>1, <2>2 DEF ResumeInv, FileInv, Settled
<1>2. [](VerdictInv /\ ResumeInv) /\ [][HistoryNext]_historyVars => SerialResumeIsRight
  <2>1. VerdictInv /\ ResumeInv /\ [HistoryNext]_historyVars
        => [restarts' # restarts /\ ~hurried
             => /\ waking' \notin answered
                /\ newest # Nobody => (run[newest] = "RUNNING" /\ ~asked[newest]
                                         => waking' = newest)]_historyVars
    BY <1>1
  <2> QED
    BY <2>1, PTL DEF SerialResumeIsRight
<1>3. HistorySpec => []ResumeInv
  BY ResumeBegins, ResumeKept, VerdictInductive, HistoryIsSpec, PTL DEF HistorySpec
<1> QED
  BY <1>2, <1>3, VerdictInductive, HistoryIsSpec, PTL DEF HistorySpec
=============================================================================
