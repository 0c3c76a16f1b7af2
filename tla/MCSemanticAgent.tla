---------------------------- MODULE MCSemanticAgent ----------------------------
(***************************************************************************)
(* Small instances of SemanticAgent.  Two files, commands 1 and 2 (in the  *)
(* order of their strings), 0 for a text that is no command.  Fact "stated"*)
(* is one of the task and states command 2; "foreign" is not and states 1. *)
(***************************************************************************)
EXTENDS SemanticAgent

mcCommands == {1, 2}
mcFactCommand == [f \in {"stated", "foreign"} |-> IF f = "stated" THEN 2 ELSE 1]

\* One candidate: what it proposes and the one reference it gives.
Propose(id, command, facts, evidence) ==
    [id |-> id, command |-> command, facts |-> facts, evidence |-> evidence, clean |-> TRUE]
Read(file, text) == {[file |-> file, text |-> text]}

\* Grounded in the tree, in a fact of the task, in a fact outside it, in
\* nothing, in a reference that states something else, and one with a secret.
mcProposals ==
    UNION {{Propose(id, 1, {}, Read("main", 1)),
            Propose(id, 2, {}, Read("main", 2)),
            Propose(id, 2, {"stated"}, {}),
            Propose(id, 1, {"foreign"}, {}),
            Propose(id, 1, {"stated"}, Read("main", 1)),
            Propose(id, 2, {}, Read("main", 0))} : id \in {"a", "b"}}
      \cup {Propose("a", 1, {}, {}),
             [Propose("b", 2, {"stated"}, {}) EXCEPT !.clean = FALSE]}

\* Ids that repeat: for "a" a proposal grounded in a fact and one in the tree,
\* for "b" one that is grounded and one that is not.
mcRepeatedIds ==
    {Propose("a", 2, {"stated"}, {}), Propose("a", 1, {}, Read("main", 1)),
     Propose("b", 2, {"stated"}, {}), Propose("b", 1, {"foreign"}, {})}
==============================================================================
