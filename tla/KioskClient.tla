----------------------------- MODULE KioskClient -----------------------------
(***************************************************************************)
(* KioskV2Client of qualification/kiosk_emulator.py, with its offline      *)
(* queue, and the kiosk v2 protocol of the product it talks to, which is   *)
(* external: what the scenarios of the suites expect of it.  Every call    *)
(* may fail in the ways a network fails: the request is lost, the answer   *)
(* is lost after the product has executed it, or the answer is an HTTP     *)
(* error.                                                                  *)
(***************************************************************************)
EXTENDS Naturals, Sequences, Bags, BagsExt

CONSTANTS
    Devices,
    Nobody,         \* an employee the product does not know
    MaxFaults       \* bound on the failed calls

ASSUME FaultsAreCounted == MaxFaults \in Nat

VARIABLES
    client,     \* device -> the KioskV2Client that has its id
    device,     \* device -> the product's record of it
    opened,     \* the product's sessions by employee: a bag of starts ...
    counted,    \* ... and a bag of closings, each with its quantity movement
    faults      \* counts the failed calls (bound)

productVars == <<device, opened, counted>>
clientVars == <<client, productVars, faults>>

States == {"WAIT_EMPLOYEE", "WAIT_OPERATION", "SESSION_ACTIVE", "QUANTITY_INPUT"}
Errors ==
    {"EMPLOYEE_NOT_FOUND", "OPERATION_NOT_FOUND", "OPERATION_NOT_WORKABLE",
     "STATE_INVALID_TRANSITION", "QUANTITY_INVALID", "BUSINESS_CONFLICT", "HTTP_ERROR"}

\* An event is [id, type, arg]: the scan of an employee, of an operation that is
\* RUNNING, WAITING or UNKNOWN or of GARBAGE, or a quantity, GOOD or BAD.

-----------------------------------------------------------------------------
(* The product                                                             *)

NewDevice == [state |-> "WAIT_EMPLOYEE", employee |-> Nobody, event |-> 0, reply |-> "NONE"]

\* How often e is in the bag.
Times(e, bag) == IF BagIn(e, bag) THEN bag[e] ELSE 0

IsOpen(e) == Times(e, opened) > Times(e, counted)

\* The state a new event leads to, or the code of its rejection.
Verdict(d, event) ==
    CASE device[d].state = "WAIT_EMPLOYEE" /\ event.type = "EMP" ->
            IF event.arg = Nobody THEN "EMPLOYEE_NOT_FOUND" ELSE "WAIT_OPERATION"
      [] device[d].state = "WAIT_OPERATION" /\ event.type = "OP" ->
            CASE event.arg = "UNKNOWN" -> "OPERATION_NOT_FOUND"
              [] event.arg = "WAITING" -> "OPERATION_NOT_WORKABLE"
              [] OTHER -> IF IsOpen(device[d].employee) THEN "BUSINESS_CONFLICT" ELSE "SESSION_ACTIVE"
      [] device[d].state = "SESSION_ACTIVE" /\ event.type = "EMP" /\ event.arg = device[d].employee ->
            "QUANTITY_INPUT"
      [] device[d].state = "QUANTITY_INPUT" /\ event.type = "QTY" ->
            IF event.arg = "BAD" THEN "QUANTITY_INVALID" ELSE "WAIT_EMPLOYEE"
      [] OTHER -> "STATE_INVALID_TRANSITION"

\* An event_id seen before is answered from the cache; only the latest event of
\* a device is ever sent again.
Cached(d, event) == device[d].event = event.id
Reply(d, event) == IF Cached(d, event) THEN device[d].reply ELSE Verdict(d, event)

Executed(d, event) ==
    LET v == Verdict(d, event)
        e == device[d].employee
    IN  IF Cached(d, event) THEN UNCHANGED productVars
        ELSE
          /\ device' = [device EXCEPT ![d] =
                [state |-> IF v \in States THEN v ELSE @.state,
                 employee |-> IF v = "WAIT_OPERATION" THEN event.arg ELSE @.employee,
                 event |-> event.id,
                 reply |-> v]]
          /\ opened' = IF v = "SESSION_ACTIVE" THEN BagAdd(opened, e) ELSE opened
          /\ counted' = IF v = "WAIT_EMPLOYEE" THEN BagAdd(counted, e) ELSE counted

-----------------------------------------------------------------------------
(* Calls                                                                   *)

Fault == faults < MaxFaults /\ faults' = faults + 1

\* _post: what it returns, when it returns.
PostAnswered(d, event, reply) ==
    \/ /\ Executed(d, event)
       /\ reply = Reply(d, event)
       /\ UNCHANGED faults
    \/ /\ Fault
       /\ reply = "HTTP_ERROR"
       /\ UNCHANGED productVars

\* _post raises: the request or its answer is lost.
PostRaises(d, event) ==
    /\ Fault
    /\ Executed(d, event) \/ UNCHANGED productVars

-----------------------------------------------------------------------------
(* The client                                                              *)

\* replies are what reconnect_and_replay has collected, or has lost by raising
NewClient ==
    [online |-> TRUE, queue |-> <<>>, sending |-> <<>>, replies |-> <<>>, raised |-> FALSE]

\* _envelope and send, while offline
Queue(d, events) == client' = [client EXCEPT ![d].queue = @ \o events]

GoOffline(d) == client' = [client EXCEPT ![d].online = FALSE]

\* reconnect_and_replay: the queue is empty before its first event is posted.
Reconnect(d) ==
    client' = [client EXCEPT ![d].online = TRUE, ![d].queue = <<>>, ![d].sending = client[d].queue]

ReplayOne(d) ==
    /\ client[d].sending # <<>>
    /\ \/ \E reply \in States \cup Errors :
            /\ PostAnswered(d, Head(client[d].sending), reply)
            /\ client' = [client EXCEPT ![d].sending = Tail(@), ![d].replies = Append(@, reply)]
       \/ /\ PostRaises(d, Head(client[d].sending))
          /\ client' = [client EXCEPT ![d].sending = <<>>, ![d].raised = TRUE]

=============================================================================
