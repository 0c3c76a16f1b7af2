--------------------------- MODULE RunStateMachine ---------------------------
(***************************************************************************)
(* What a run promises to whoever reads run.yaml, whatever the number of   *)
(* agent processes, their order and their deaths: its state moves along    *)
(* the declared edges only, one at a time, a terminal state is final, and  *)
(* last_successful_state follows every move that is no failure.            *)
(*                                                                         *)
(* RunLifecycle, with its processes, lock file and event log, implements   *)
(* this module.                                                            *)
(***************************************************************************)
EXTENDS RunStates

VARIABLES state,    \* run.yaml: state
          last      \* run.yaml: last_successful_state

vars == <<state, last>>

Init == state = "ABSENT" /\ last = "ABSENT"

Move(target) ==
    /\ TransitionAllowed(state, target)
    /\ state' = target
    /\ last' = LastSuccessful(last, target)

Next == \E target \in RunState : Move(target)

Spec == Init /\ [][Next]_vars
==============================================================================
