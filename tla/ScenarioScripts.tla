--------------------------- MODULE ScenarioScripts ---------------------------
(***************************************************************************)
(* The scenarios that qualification/live.py (api_contract, integration and *)
(* mes_workflows), browser.py and kiosk_emulator.py run against one         *)
(* deployed product, and those that build_integrity.py runs on the artifact *)
(* alone, as scripts: steps with the answer each one asserts.              *)
(* They share the product, its fixture employees QA-EMP-001 and QA-EMP-002 *)
(* and the quantities of the operation QA-PO-RUN-OP.  Statements and pages  *)
(* read one after the other are one step.                                  *)
(***************************************************************************)
EXTENDS KioskClient

CONSTANTS
    Shared, Other   \* the fixture employees QA-EMP-001 and QA-EMP-002

-----------------------------------------------------------------------------
(* Steps of a scenario.  miss: 0 when a wrong answer ends the scenario,     *)
(* else the steps to go on by while its failure is noted; caught: a call    *)
(* that raises does the same.                                               *)

Q(good, defect, rework) == [good |-> good, defect |-> defect, rework |-> rework]

Step(do, type, arg, want) ==
    [do |-> do, type |-> type, arg |-> arg, want |-> want, qty |-> Q(0, 0, 0),
     miss |-> 0, caught |-> FALSE]

Emp(e, want) == Step("event", "EMP", e, want)
Op(o, want) == Step("event", "OP", o, want)
Qty(q, want) == Step("event", "QTY", q, want)
Garbage == Step("event", "GARBAGE", "NONE", "REJECTED")
Again == Step("again", "NONE", "NONE", "SAME")      \* the same body once more
Boot == Step("boot", "NONE", "NONE", "OK")
New == Step("insert", "NONE", "NONE", "OK")         \* fresh_employee
Db(e, want) == Step("db", "NONE", e, want)
Local(do) == Step(do, "NONE", "NONE", "OK")         \* "offline", "take", "cut", "client"
Replay(want) == Step("replay", "NONE", "NONE", want)
Web(what, e) == Step("web", what, e, "OK")

Look == Step("look", "NONE", "NONE", "OK")           \* at a table, or without a login
Read == Step("read", "NONE", "NONE", "OK")           \* at a page
Login == Step("login", "NONE", "NONE", "OK")
Start(e, op, want) == Step("start", op, e, want)     \* work-sessions/start
End(e, quantity) == [Step("finish", "NONE", e, "OK") EXCEPT !.qty = quantity]
Repeat == Step("repeat", "NONE", "NONE", "OK")       \* with the same request_id
Total(columns) == [Step("total", "NONE", "NONE", "OK") EXCEPT !.qty = columns]

Page == Step("page", "NONE", "NONE", "OK")           \* openPage in the browser
File(use) == Step("artifact", use, "NONE", "OK")     \* what a check has to do with the manifest

Later(step) == [step EXCEPT !.miss = 1]
Caught(step, n) == [step EXCEPT !.miss = n, !.caught = TRUE]

-----------------------------------------------------------------------------
(* The scenarios of LiveMESFlowQualification, which all use the fixture's   *)
(* employees.                                                              *)

\* A session of one employee, from its start to its finish.
Session(e, op, quantity) == <<Start(e, op, "OK"), End(e, quantity)>>

Plain(key, script) == [key |-> key, script |-> script]

\* api_contracts: the first scenario logs in for all that follow.  The pages of
\* the other twelve are read alike.
ApiContracts ==
    << Plain("api_contract", <<Look, Login, Read, Start(Nobody, "NONE", "EMPLOYEE_NOT_FOUND")>>),
       Plain("feature_contracts", <<Read>>) >>

\* integration

DependencyGate == <<Look, New, Look, Start(Other, "GATED", "BUSINESS_CONFLICT"), Look>>

\* mutant: the operation whose totals mes_workflows asserts is used
ReworkIntegrationShared == <<Look>> \o Session(Other, "RUNNING", Q(1, 2, 2)) \o <<Look>>

ReworkIntegration == <<Look>> \o Session(Other, "LATE", Q(1, 2, 2)) \o <<Look>>

LegacyIntegration == <<Look, Web("SCAN", Other), Web("SCAN", Other)>>

OfflineIntegration == <<Boot, Local("offline"), Emp(Shared, "QUEUED"), Replay("FIRST")>>

SessionsIntegration == <<Look, New, Look>> \o Session(Other, "OWN", Q(1, 0, 0)) \o <<Look>>

GroupIntegration ==
    <<Look, New, Look>> \o Session(Shared, "OWN", Q(1, 0, 0))
        \o Session(Other, "OWN", Q(2, 0, 0)) \o <<Look>>

Integration ==
    << Plain("runtime_integration", <<Login, Read, Look>>),
       Plain("counts", <<Look>>),
       Plain("auth_integration", <<Read, Look>>),
       Plain("dependency_gate", DependencyGate),
       Plain("calendar_integration", <<Look, Read>>),
       Plain("rework_integration", ReworkIntegration),
       Plain("kiosk_legacy_integration", LegacyIntegration),
       Plain("offline_integration", OfflineIntegration),
       Plain("exceptions_integration", <<Read, Look>>),
       Plain("health_integration", <<Look>>),
       Plain("exports_integration", <<Read, Look>>),
       Plain("sessions_integration", SessionsIntegration),
       Plain("group_integration", GroupIntegration) >>

\* workflows: QA-PO-RUN-OP has the sum of what those before have reported.

NormalProduction ==
    <<Start(Shared, "RUNNING", "OK"), Read, End(Shared, Q(5, 0, 0)), Total([good |-> 5]), Read>>

ZeroWorkflow == Session(Other, "RUNNING", Q(0, 0, 0))

MultipleWorkers ==
    <<Start(Shared, "RUNNING", "OK"), Start(Other, "RUNNING", "OK"),
      End(Shared, Q(1, 0, 0)), End(Other, Q(2, 0, 0)), Total([good |-> 8])>>

DuplicateProtection ==
    <<Start(Shared, "RUNNING", "OK"), Repeat, End(Shared, Q(4, 0, 0)), Repeat, Look>>

RepairFlow == Session(Other, "RUNNING", Q(2, 3, 2)) \o <<Total([defect |-> 3, rework |-> 2])>>

InvalidInput == <<Look, Start(Nobody, "RUNNING", "EMPLOYEE_NOT_FOUND"), Look>>

AggregateProgress == <<Total(Q(14, 3, 2)), Look>>

DependencySatisfied == <<Look, New, New, Look>> \o Session(Other, "OWN", Q(3, 0, 0))

LegacyWorkflow ==
    <<Look, Web("SCAN", Other), Web("SCAN", Other), Web("START", Other), Web("FINISH", Other)>>

OfflineWorkflow ==
    <<Boot, Local("offline"), Emp(Other, "QUEUED"), Look, Op("LATE", "QUEUED"),
      Emp(Other, "QUEUED"), Qty("GOOD", "QUEUED"), Replay("WAIT_EMPLOYEE"), Db(Other, "FREE")>>

Workflows ==
    << Plain("normal_production", NormalProduction),
       Plain("zero_quantity", ZeroWorkflow),
       Plain("multiple_workers", MultipleWorkers),
       Plain("duplicate_protection", DuplicateProtection),
       Plain("repair_flow", RepairFlow),
       Plain("invalid_input", InvalidInput),
       Plain("historical_integrity", <<Look, Read, Look>>),
       Plain("aggregate_progress", AggregateProgress),
       Plain("dependencies_workflow", DependencySatisfied),
       Plain("calendar_workflow", <<Look, Read>>),
       Plain("kiosk_legacy_workflow", LegacyWorkflow),
       Plain("offline_workflow", OfflineWorkflow),
       Plain("exports_workflow", <<Read>>),
       Plain("exceptions_workflow", <<Read, Read>>) >>

-----------------------------------------------------------------------------
(* The scenarios of KioskEmulatorRunner.run                                *)

\* fresh_employee: one of the scenario's own
Fresh(key, n) == <<key, n>>

\* How most scenarios begin: an employee of their own at an operation.
AtOperation(me, want) == <<New, Boot, Emp(me, "ANY"), Op("RUNNING", want)>>

\* How they end, to leave no session open; the answers are not looked at.
Finish(me) == <<Emp(me, "ANY"), Qty("GOOD", "ANY")>>

ValidEmployee == <<Boot, Emp(Shared, "WAIT_OPERATION")>>

\* mutant: the session is left open
ValidOperationOpen(me) == AtOperation(me, "SESSION_ACTIVE") \o <<Db(me, "OPEN")>>

ValidOperation(me) == AtOperation(me, "SESSION_ACTIVE") \o <<Db(me, "OPEN")>> \o Finish(me)

CloseQuantity(me) ==
    AtOperation(me, "SESSION_ACTIVE")
        \o <<Emp(me, "QUANTITY_INPUT"), Qty("GOOD", "WAIT_EMPLOYEE"), Db(me, "CLOSED")>>

ZeroQuantity(me) ==
    AtOperation(me, "SESSION_ACTIVE")
        \o <<Emp(me, "ANY"), Qty("GOOD", "WAIT_EMPLOYEE"), Db(me, "CLOSED")>>

InvalidEmployee == <<Boot, Emp(Nobody, "EMPLOYEE_NOT_FOUND")>>

InvalidOperation == <<Boot, Emp(Shared, "ANY"), Op("UNKNOWN", "OPERATION_NOT_FOUND")>>

NotWorkable == <<Boot, Emp(Shared, "ANY"), Op("WAITING", "OPERATION_NOT_WORKABLE")>>

DuplicateScan == <<Boot, Later(Emp(Shared, "WAIT_OPERATION")), Again>>

RepeatedCompletion(me) ==
    AtOperation(me, "SESSION_ACTIVE")
        \o <<Emp(me, "ANY"), Later(Qty("GOOD", "WAIT_EMPLOYEE")), Again, Db(me, "ANY")>>

OfflineReplay ==
    <<Boot, Local("offline"), Emp(Shared, "QUEUED"), Replay("WAIT_OPERATION")>>

\* A cut is a call to a port where nothing listens: it has no effect, and the
\* scenario expects it to raise.
BackendUnavailable == <<Local("cut"), Boot>>

LegacyWeb(me) ==
    <<New, Db(me, "ANY"), Db(me, "ANY"), Web("SCAN", me), Web("SCAN", me),
      Web("START", me), Web("FINISH", me)>>

\* Two devices at one operation; a session that is open is closed before the
\* second device begins, whatever the answers.
GroupOne(me) ==
    <<Emp(me, "ANY"), [Op("RUNNING", "SESSION_ACTIVE") EXCEPT !.miss = 3],
      Caught(Emp(me, "ANY"), 2), Caught(Qty("GOOD", "WAIT_EMPLOYEE"), 1)>>
Group(a, b) ==
    <<New, New, Db(a, "ANY"), Boot, Boot>> \o GroupOne(a) \o <<Local("client")>> \o GroupOne(b)
        \o <<Db(a, "CLOSED"), Db(b, "CLOSED")>>

MalformedQr ==
    <<Boot, Garbage, Emp(Nobody, "REJECTED"), Emp(Shared, "WAIT_OPERATION")>>

EmployeeAsOperation ==
    <<Boot, Emp(Shared, "ANY"), Emp(Other, "STATE_INVALID_TRANSITION"),
      Op("RUNNING", "SESSION_ACTIVE")>> \o Finish(Shared)

OperationBeforeEmployee == <<Boot, Op("RUNNING", "STATE_INVALID_TRANSITION")>>

DuplicateOperation(me) ==
    AtOperation(me, "SESSION_ACTIVE")
        \o <<Op("RUNNING", "STATE_INVALID_TRANSITION"), Db(me, "OPEN")>> \o Finish(me)

NegativeQuantity(me) ==
    AtOperation(me, "SESSION_ACTIVE")
        \o <<Emp(me, "ANY"), Qty("BAD", "QUANTITY_INVALID"), Db(me, "OPEN"), Qty("GOOD", "ANY")>>

NonIntegerQuantity(me) ==
    AtOperation(me, "ANY") \o <<Emp(me, "ANY"), Qty("BAD", "QUANTITY_INVALID"), Qty("GOOD", "ANY")>>

LostAck(me) ==
    AtOperation(me, "SESSION_ACTIVE")
        \o <<Emp(me, "ANY"), Later(Qty("GOOD", "WAIT_EMPLOYEE")), Again, Db(me, "CLOSED")>>

NetworkDrop(me) ==
    <<New, Local("cut"), Boot, Emp(me, "WAIT_OPERATION"),
      Local("client"), Boot, Emp(me, "ANY"), Local("cut"), Op("RUNNING", "SESSION_ACTIVE"),
      Db(me, "OPEN"), Emp(me, "ANY"), Local("cut"), Qty("GOOD", "WAIT_EMPLOYEE"),
      Db(me, "CLOSED")>>

OfflineMany(me) ==
    <<New, Boot, Local("offline"), Emp(me, "QUEUED"), Op("RUNNING", "QUEUED"),
      Emp(me, "QUEUED"), Qty("GOOD", "QUEUED"), Replay("WAIT_EMPLOYEE"), Db(me, "CLOSED")>>

\* "take" goes online and takes the queued event out of the queue by hand.
OfflineDuplicate ==
    <<Boot, Local("offline"), Emp(Shared, "QUEUED"), Local("take"),
      Later(Emp(Shared, "WAIT_OPERATION")), Again>>

-----------------------------------------------------------------------------
(* BuildIntegrityRunner and run_browser_suite                               *)

\* One check parses the manifest for the two that follow it; those before it, of the
\* file itself, are one here.
BuildIntegrity ==
    << Plain("artifact_file", <<File("NONE")>>),
       Plain("manifest_and_checksums", <<File("PARSES")>>),
       Plain("filename_manifest_version_agree", <<File("NEEDS")>>),
       Plain("internal_version_declarations_agree", <<File("NEEDS")>>),
       Plain("runtime_image_identity_after_load", <<File("NONE")>>) >>

\* The nine PAGES are opened alike, three stand for them.
Browser ==
    << Plain("auth_browser", <<Look>>),
       Plain("dashboard_browser", <<Page>>),
       Plain("production_orders_browser", <<Page>>),
       Plain("imports_exports_qr_browser", <<Page>>) >>

-----------------------------------------------------------------------------
(* KioskEmulatorRunner                                                      *)

\* In the order in which they run; the name is the end of the scenario_key.
Emulator ==
    LET Own(key, Script(_)) == [key |-> key, script |-> Script(Fresh(key, 1))]
    IN << Plain("valid_employee_scan", ValidEmployee),
          Own("operation_scan_creates_session", ValidOperation),
          Own("session_close_with_quantities", CloseQuantity),
          Own("zero_quantity_close", ZeroQuantity),
          Plain("invalid_employee_rejected", InvalidEmployee),
          Plain("invalid_operation_rejected", InvalidOperation),
          Plain("operation_not_workable_rejected", NotWorkable),
          Plain("duplicate_scan_idempotent", DuplicateScan),
          Own("repeated_completion_idempotent", RepeatedCompletion),
          Plain("queue_reconnect_replay", OfflineReplay),
          Plain("backend_unavailable_then_restored", BackendUnavailable),
          Own("kiosk_web_protocol", LegacyWeb),
          Plain("multiple_kiosks_same_operation",
                Group(Fresh("multiple_kiosks_same_operation", 1),
                      Fresh("multiple_kiosks_same_operation", 2))),
          Plain("malformed_qr_rejected", MalformedQr),
          Plain("employee_qr_as_operation_rejected", EmployeeAsOperation),
          Plain("operation_before_employee_rejected", OperationBeforeEmployee),
          Own("duplicate_operation_scan_single_session", DuplicateOperation),
          Own("negative_quantity_rejected", NegativeQuantity),
          Own("non_integer_quantity_rejected", NonIntegerQuantity),
          Own("response_lost_after_commit_idempotent", LostAck),
          Own("network_drop_per_phase", NetworkDrop),
          Own("offline_queue_many_events", OfflineMany),
          Plain("offline_queue_duplicate_replay_protected", OfflineDuplicate) >>

=============================================================================
