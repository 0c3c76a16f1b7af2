--------------------------- MODULE SemanticResolver ---------------------------
(***************************************************************************)
(* What the semantic agent promises to whoever takes its answer: after at  *)
(* most MaxAgentTurns questions to the model it ends, once, with no        *)
(* command or with one that the tree states at that moment or that a       *)
(* phase-1 fact of the task states, whatever the model says and however    *)
(* the tree changes meanwhile.                                             *)
(***************************************************************************)
EXTENDS Integers

CONSTANTS Files, Texts, NoCommand, FactCommands, MaxAgentTurns,
          Open          \* no verdict yet

VARIABLES tree,         \* the text each file states
          asked,        \* questions asked
          verdict       \* Open, NoCommand or the command taken

vars == <<tree, asked, verdict>>

Stated(command) ==
    command \in {NoCommand} \cup FactCommands \cup {tree[f] : f \in Files}

Init == tree \in [Files -> Texts] /\ asked = 0 /\ verdict = Open

Edit ==
    /\ verdict = Open
    /\ tree' \in [Files -> Texts]
    /\ UNCHANGED <<asked, verdict>>

Ask ==
    /\ verdict = Open /\ asked < MaxAgentTurns
    /\ asked' = asked + 1
    /\ UNCHANGED <<tree, verdict>>

Conclude(command) ==
    /\ verdict = Open /\ Stated(command)
    /\ verdict' = command
    /\ UNCHANGED <<tree, asked>>

Next == Edit \/ Ask \/ \E command \in Texts : Conclude(command)

Spec == Init /\ [][Next]_vars
==============================================================================
