-------------------------- MODULE FeatureLifecycle --------------------------
(***************************************************************************)
(* What the header of engine/feature_registry.py promises about the status *)
(* of a feature, each recorded result or mark one atomic move.  It leaves  *)
(* out what else STABLE asks for: tests, sources, bugs, gaps, regressions. *)
(* FeatureRegistry.tla is the code; it moves this way while operations do  *)
(* not overlap.                                                            *)
(***************************************************************************)
EXTENDS Naturals

CONSTANTS Features, MinPasses

VARIABLES status, streak

Statuses == {"NEW", "COVERED", "STABLE", "CHANGED", "REGRESSION_RISK", "BROKEN"}
NoRow == "NONE"

LifecycleInit ==
    /\ status \in [Features -> {NoRow, "NEW"}]
    /\ streak = [f \in Features |-> 0]

\* The new status and streak of f, which is in one of the states from.
Move(f, from, s, n) ==
    /\ status[f] \in from
    /\ status' = [status EXCEPT ![f] = s]
    /\ streak' = [streak EXCEPT ![f] = n]

Longer(n) == IF n < MinPasses THEN n + 1 ELSE n

Register(f) == Move(f, {NoRow}, "NEW", 0)

\* A PASS makes the streak longer and never promotes by itself.
FirstPass(f) == Move(f, {"NEW", "BROKEN", "REGRESSION_RISK"}, "COVERED", Longer(streak[f]))
NextPass(f)  == Move(f, {"COVERED", "CHANGED", "STABLE"}, status[f], Longer(streak[f]))

\* Only a whole streak promotes, and only what a PASS has covered.
Promote(f) ==
    /\ streak[f] = MinPasses
    /\ Move(f, {"COVERED", "CHANGED"}, "STABLE", streak[f])

RecordFail(f)  == Move(f, Statuses, "BROKEN", 0)
TouchSource(f) == Move(f, Statuses \ {"BROKEN"}, "CHANGED", 0)
Endanger(f)    == Move(f, Statuses \ {"BROKEN", "CHANGED"}, "REGRESSION_RISK", streak[f])

LifecycleNext ==
    \E f \in Features :
        \/ Register(f)
        \/ FirstPass(f)
        \/ NextPass(f)
        \/ Promote(f)
        \/ RecordFail(f)
        \/ TouchSource(f)
        \/ Endanger(f)

LifecycleSpec == LifecycleInit /\ [][LifecycleNext]_<<status, streak>>
=============================================================================
