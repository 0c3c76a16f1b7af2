------------------------------ MODULE RunStates ------------------------------
(***************************************************************************)
(* The states of a run and the transition table every write of run.yaml    *)
(* goes through (models/run.py, run/manager.py).  "ABSENT" stands for a    *)
(* run whose run.yaml is not written yet: RunManager.create is the one     *)
(* move out of it, on a run id nobody used before.                         *)
(***************************************************************************)

RunState == {"CREATED", "ACQUIRING_SOURCE", "ANALYZING", "WAITING_FOR_USER",
             "READY", "BLOCKED", "FAILED", "CANCELLED"}

TERMINAL_STATES == {"READY", "BLOCKED", "FAILED", "CANCELLED"}

\* The states that do not become last_successful_state when they are entered.
Unsuccessful == {"FAILED", "CANCELLED"}

StateOrAbsent == RunState \cup {"ABSENT"}

\* Edges, as the dictionary of run/manager.py; a state that is no key has none.
ALLOWED_TRANSITIONS ==
    [s \in StateOrAbsent |->
        CASE s = "ABSENT"           -> {"CREATED"}
          [] s = "CREATED"          -> {"ACQUIRING_SOURCE", "FAILED", "CANCELLED"}
          [] s = "ACQUIRING_SOURCE" -> {"ANALYZING", "FAILED", "CANCELLED"}
          [] s = "ANALYZING"        -> {"WAITING_FOR_USER", "READY", "BLOCKED",
                                        "FAILED", "CANCELLED"}
          [] s = "WAITING_FOR_USER" -> {"ANALYZING", "BLOCKED", "CANCELLED"}
          [] OTHER                  -> {}]

\* Mutant of TransitionAllowed: a failure may be recorded whatever the state.
TransitionAllowedToFail(current, target) ==
    \/ target = "FAILED"
    \/ current \notin TERMINAL_STATES /\ target \in ALLOWED_TRANSITIONS[current]

\* _ensure_transition_allowed does not raise RUN-201.
TransitionAllowed(current, target) ==
    /\ current \notin TERMINAL_STATES
    /\ target \in ALLOWED_TRANSITIONS[current]

\* Mutant of LastSuccessful: a failure resets the field to a value of its own.
LastSuccessfulReset(last, target) == IF target \in Unsuccessful THEN "NONE" ELSE target

\* The last_successful_state written with `target`.
LastSuccessful(last, target) == IF target \in Unsuccessful THEN last ELSE target
==============================================================================
