---------------------------- MODULE Certification ----------------------------
(***************************************************************************)
(* The certification of an artifact from the suite rows of its runs:       *)
(* qualification/policy.py.  evaluate, the certify command, takes runs of  *)
(* one environment and stores what it decides; evaluate_tier takes every   *)
(* run of the artifact and only answers.  Both read the runs, their suites *)
(* and their invariant results in statements of their own, while processes *)
(* of QualificationRuns go on writing them.                                *)
(***************************************************************************)
EXTENDS QualificationRuns

CONSTANTS
    Required,       \* the policy's required_suites
    BlockFlaky,     \* keys of the suites in its block_flaky_layers
    Hil,            \* "esp_hil", required when hil_configured
    MaxEvaluations  \* bound

\* Every policy requires some suites, whose rows the commands insert with required=1;
\* that of esp_hil with 0.  (A suite configuration says what it requires.)
ASSUME CertificationAssumption ==
    /\ Required # {} /\ Required \subseteq Keys \ Optional
    /\ BlockFlaky \subseteq Keys
    /\ Hil \in Optional
    /\ MaxEvaluations \in Nat

VARIABLES
    certifier,      \* the evaluation in progress
    certificate,    \* the row in qa_certifications; of a CERTIFIED one also what it certifies
    evaluations     \* counts the evaluations (bound)

certVars == <<certifier, certificate, evaluations>>

\* settled (history): no process of these runs was at work when it began
Evaluation ==
    [at: {"idle", "suites", "invariants", "write"}, tier: BOOLEAN, runs: SUBSET Procs,
     clean: BOOLEAN, settled: BOOLEAN]

Idle == [at |-> "idle", tier |-> FALSE, runs |-> {}, clean |-> FALSE, settled |-> FALSE]
NoCertificate == [status |-> "NONE", runs |-> {}, settled |-> FALSE]

CertTypeOK ==
    /\ TypeOK
    /\ certifier \in Evaluation
    /\ certificate \in [status: {"NONE", "CERTIFIED", "FAILED"}, runs: SUBSET Procs, settled: BOOLEAN]
    /\ evaluations \in 0..MaxEvaluations

CertInit ==
    /\ Init
    /\ certifier = Idle
    /\ certificate = NoCertificate
    /\ evaluations = 0

-----------------------------------------------------------------------------
(* _decide                                                                 *)

\* The rows of these runs.
Rows(runs) == {i \in 1..Len(table) : table[i].run \in runs}
RowsFor(runs, key) == {i \in Rows(runs) : table[i].key = key}

\* mutant: the first attempt counts
LatestFirst(runs, key) == CHOOSE i \in RowsFor(runs, key) : \A j \in RowsFor(runs, key) : i <= j

\* The latest attempt of a suite in any of the runs.
Latest(runs, key) == CHOOSE i \in RowsFor(runs, key) : \A j \in RowsFor(runs, key) : j <= i

StatusIn(runs, key) == IF RowsFor(runs, key) = {} THEN "NONE" ELSE table[Latest(runs, key)].status

Missing(runs) == {k \in Required : StatusIn(runs, k) = "NONE"}

\* Of every suite in the runs, not only of the policy's; FLAKY counts as failed.
Failed(runs) ==
    {k \in Keys : /\ RowsFor(runs, k) # {}
                  /\ table[Latest(runs, k)].required
                  /\ StatusIn(runs, k) # "PASSED"}

Flaky(runs) == {k \in BlockFlaky : StatusIn(runs, k) = "FLAKY"}

HilMissing(runs, configured) == configured /\ StatusIn(runs, Hil) # "PASSED"

NoInvariantFailed(runs) == \A p \in runs : ~broken[p]

-----------------------------------------------------------------------------

Started == {p \in Procs : run[p] # NoRun}

Begin(tier, runs) ==
    /\ certifier.at = "idle"
    /\ evaluations < MaxEvaluations
    /\ evaluations' = evaluations + 1
    /\ certifier' = [at |-> "suites", tier |-> tier, runs |-> runs, clean |-> FALSE,
                     settled |-> \A p \in runs : pc[p] = "end"]
    /\ UNCHANGED certificate

\* evaluate: those of the given runs that are of the given environment.
Evaluate ==
    \E given \in SUBSET Started, p \in Procs : Begin(FALSE, {q \in given : SameEnv(p, q)})

\* evaluate_tier: run_ids_for_artifact
EvaluateTier == Begin(TRUE, Started)

ReadSuites ==
    /\ certifier.at = "suites"
    /\ \E configured \in BOOLEAN :
          certifier' = [certifier EXCEPT !.at = "invariants",
                           !.clean = /\ Missing(certifier.runs) = {}
                                     /\ Failed(certifier.runs) = {}
                                     /\ Flaky(certifier.runs) = {}
                                     /\ ~HilMissing(certifier.runs, configured)]
    /\ UNCHANGED <<certificate, evaluations>>

\* A tier's decision is answered, that of evaluate still has to be written.
ReadInvariants ==
    /\ certifier.at = "invariants"
    /\ certifier' = IF certifier.tier THEN Idle
                    ELSE [certifier EXCEPT !.at = "write", !.clean = @ /\ NoInvariantFailed(certifier.runs)]
    /\ UNCHANGED <<certificate, evaluations>>

\* INSERT ... ON CONFLICT DO UPDATE
WriteCertificate ==
    /\ certifier.at = "write"
    /\ certificate' = IF certifier.clean
                      THEN [status |-> "CERTIFIED", runs |-> certifier.runs, settled |-> certifier.settled]
                      ELSE [NoCertificate EXCEPT !.status = "FAILED"]
    /\ certifier' = Idle
    /\ UNCHANGED evaluations

CertSteps == Evaluate \/ EvaluateTier \/ ReadSuites \/ ReadInvariants \/ WriteCertificate

CertNext ==
    \/ Next /\ UNCHANGED certVars
    \/ CertSteps /\ UNCHANGED vars

CertSpec == CertInit /\ [][CertNext]_<<vars, certVars>>

\* The commands go on as in FairSpec of QualificationRuns; no one has to certify.
FairCertSpec == CertSpec /\ \A p \in Procs : WF_vars(Work(p))

-----------------------------------------------------------------------------

\* A suite of this run has passed at a later attempt, after one that had not.
Retried(p) ==
    \E i, j \in RowsOf(p) :
        /\ i < j /\ table[i].key = table[j].key
        /\ table[i].status # "PASSED" /\ table[j].status = "PASSED"

\* What is certified has passed, as long as the certified runs were over when the
\* evaluation began: every required suite passed at its last attempt in them, if that
\* row says so itself, as those of all commands do; and finish_run and _decide, which
\* derive their verdicts separately, agree: a run that finished FAILED, FLAKY or
\* BLOCKED is not certified alone, except for a suite that no one requires, or one
\* that a suite configuration lists twice, since _decide goes by the latest attempt.
\* (_decide reads neither the runs' statuses nor a snapshot.)
CertifiedWasEarned ==
    certificate.status = "CERTIFIED" /\ certificate.settled =>
        /\ \A k \in Required : \E i \in RowsFor(certificate.runs, k) :
              /\ table[i].required => table[i].status = "PASSED"
              /\ kind[table[i].run] # "suites" => table[i].required
              /\ \A j \in RowsFor(certificate.runs, k) : j <= i
        /\ \A p \in Procs :
              certificate.runs = {p} /\ run[p] \in Terminal \ {"CANCELLED"} =>
                 \/ run[p] = "PASSED"
                 \/ \E r \in SuitesOf(p) : ~r.required
                 \/ kind[p] = "suites" /\ Retried(p)

=============================================================================
