---------------------------- MODULE BugLifecycle ----------------------------
(***************************************************************************)
(* What the Bug Center promises about the status of a bug, as the header   *)
(* of engine/bug_store.py draws it: one bug, one atomic move at a time.    *)
(* BugStore.tla is the code; with one caller at a time it implements this. *)
(***************************************************************************)
CONSTANT BugIds

VARIABLE status

Unresolved == {"OPEN", "FIXING", "READY_FOR_VERIFY", "REGRESSION"}
Statuses   == Unresolved \cup {"RESOLVED", "IGNORED"}
NoBug      == "NONE"

\* A bug reported again is a regression if it was resolved.
Reappears(s) == IF s = "RESOLVED" THEN "REGRESSION" ELSE s

LifecycleInit == status = [b \in BugIds |-> NoBug]

Move(b, from, to) ==
    /\ status[b] \in from
    /\ status' = [status EXCEPT ![b] = to]

Create(b)     == Move(b, {NoBug}, "OPEN")
Reappear(b)   == Move(b, {"RESOLVED"}, Reappears("RESOLVED"))
StartFixing(b)== Move(b, {"OPEN", "REGRESSION"}, "FIXING")
OfferFix(b)   == Move(b, {"FIXING"}, "READY_FOR_VERIFY")
VerifyPass(b) == Move(b, {"READY_FOR_VERIFY"}, "RESOLVED")
VerifyFail(b) == Move(b, {"READY_FOR_VERIFY"}, "OPEN")
Dismiss(b)    == Move(b, Statuses, "IGNORED")

LifecycleNext ==
    \E b \in BugIds :
        \/ Create(b)
        \/ Reappear(b)
        \/ StartFixing(b)
        \/ OfferFix(b)
        \/ VerifyPass(b)
        \/ VerifyFail(b)
        \/ Dismiss(b)

LifecycleSpec == LifecycleInit /\ [][LifecycleNext]_status
=============================================================================
