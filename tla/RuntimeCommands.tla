--------------------------- MODULE RuntimeCommands ---------------------------
(***************************************************************************)
(* preanalyzer/analyzer/runtime_command_resolver.py, which turns the       *)
(* stated commands of a component into one command or into gaps, and       *)
(* preanalyzer/semantic/task_builder.py, which turns gaps into tasks for   *)
(* the semantic agent.                                                     *)
(*                                                                         *)
(* A command is [form, tokens].  Two results are the same command when     *)
(* their tokens are; quoting and white space are left out.  A source is    *)
(* the set of the origins its name joins.                                  *)
(***************************************************************************)
EXTENDS RuleInference

CONSTANTS
    ScriptPaths,       \* tokens that end in .sh
    VariableTokens     \* tokens with a $ in them

MaxScriptChainDepth == 5
ShellInterpreters == {"sh", "bash"}
Operators == {"&&", "||", ";", "|"}

-----------------------------------------------------------------------------
(* What a command looks like, and what it resolves to.                     *)

\* _has_compound_shell: in JSON an operator is quoted.
HasCompound(c) == c.form = "shell" /\ \E i \in DOMAIN c.tokens : c.tokens[i] \in Operators

\* _is_shell_script_entrypoint.
IsShellScript(tokens) ==
    \/ Len(tokens) >= 1 /\ tokens[1] \in ScriptPaths
    \/ Len(tokens) >= 2 /\ tokens[1] \in ShellInterpreters /\ tokens[2] \in ScriptPaths

NeedsExpansion(tokens) == \E i \in DOMAIN tokens : tokens[i] \in VariableTokens

\* _package_script_invocation: the package script the tokens run, or None.
Invoked(tokens) ==
    LET Starts(managers, n) == Len(tokens) = n /\ tokens[1] \in managers
    IN  IF Starts({"npm", "yarn", "pnpm", "bun"}, 3) /\ tokens[2] = "run" THEN tokens[3]
        ELSE IF tokens = <<"npm", "start">> THEN "start"
        ELSE IF Starts({"yarn", "pnpm"}, 2) THEN tokens[2]
        ELSE None

Stated(tokens, source, confidence, refs) ==
    [kind |-> "command", tokens |-> tokens, source |-> source, confidence |-> confidence, refs |-> refs]

Gap(status, reason, refs, alternatives) ==
    [kind |-> "gap", status |-> status, reason |-> reason, refs |-> refs, alternatives |-> alternatives]

Unsupported(refs) == Gap("insufficient_evidence", "unsupported_command_form", refs, {})
Compound(refs) == Gap("requires_source_analysis", "compound_shell_command", refs, {})
ShellScript(refs) == Gap("requires_source_analysis", "shell_script_entrypoint", refs, {})
Conflict(commands) ==
    Gap("ambiguous", "conflicting_explicit_commands", UNION {c.refs : c \in commands}, commands)

IsCommand(result) == result.kind = "command"
Tokens(commands) == {c.tokens : c \in commands}

\* _max_confidence.
Surest(confidences) ==
    IF "high" \in confidences THEN "high"
    ELSE IF "medium" \in confidences THEN "medium"
    ELSE "low"

\* _merge_command_results, of commands with the same tokens.
MergedCommand(commands) ==
    Stated((CHOOSE c \in commands : TRUE).tokens, UNION {c.source : c \in commands},
           Surest({c.confidence : c \in commands}), UNION {c.refs : c \in commands})

\* _merge_gap_results: the first gap names the status and the reason.
MergedGap(gaps) ==
    [gaps[1] EXCEPT !.refs = UNION {g.refs : g \in ToSet(gaps)},
                    !.alternatives = UNION {g.alternatives : g \in ToSet(gaps)}]

-----------------------------------------------------------------------------
(* Whose scripts and Dockerfiles.                                          *)

\* analyze_runtime_commands: a tree without components has an implicit root.
Analyzed(components) == IF components = <<>> THEN <<Component(<<"root">>, <<>>, {})>> ELSE components

\* _component_for_artifact: the FIRST component that holds the file.  A
\* component without a root holds the files at the top.
Holder(dir, components) ==
    LET Holds(root) == IF root \in {None, <<>>} THEN dir = <<>> ELSE IsPrefix(root, dir)
        holders == {k \in DOMAIN components : Holds(components[k].root)}
    IN  IF holders = {} THEN None ELSE components[Min(holders)].id

\* _package_scripts_by_component.
ScriptsOf(ev, components, id) ==
    {i \in FactsOf(ev, "package_script") : Holder(ev[i].dir, components) = id}

-----------------------------------------------------------------------------
(* _resolve_package_script and _resolve_script_name.  A call is the name   *)
(* the command starts with, the facts that led to it, and the source and   *)
(* the confidence of what it resolves to.  A path is the scripts followed  *)
(* so far; the next name is what its last command runs, and the results of *)
(* longer paths are in "resolve".                                          *)

ScriptCall(start, leading, source, confidence) ==
    [start |-> start, leading |-> leading, source |-> source, confidence |-> confidence]

ScriptName(ev, i) == ev[i].value.name
ScriptCommand(ev, i) == ev[i].value.command

NextName(ev, call, path) ==
    IF path = <<>> THEN call.start ELSE Invoked(ScriptCommand(ev, Last(path)).tokens)

\* The result of one script of the name.
ResolveScript(resolve, ev, call, path, i) ==
    LET command == ScriptCommand(ev, i)
        refs == call.leading \cup ToSet(path) \cup {i}
    IN  IF command.form = "invalid" THEN Unsupported(refs)
        ELSE IF HasCompound(command) THEN Compound(refs)
        ELSE IF IsShellScript(command.tokens) THEN ShellScript(refs)
        ELSE IF Invoked(command.tokens) # None THEN resolve[Append(path, i)]
        ELSE Stated(command.tokens, call.source, call.confidence, refs)

\* Mutant: the name that is called next counts as visited.
ResolveNameNextVisited(resolve, ev, scripts, call, path) ==
    LET name == NextName(ev, call, path)
        visited == {Invoked(ScriptCommand(ev, i).tokens) : i \in ToSet(path)}
        again == {i \in scripts : ScriptName(ev, i) \in visited}
        matches == InOrder({i \in scripts : ScriptName(ev, i) = name})
        results == [k \in DOMAIN matches |-> ResolveScript(resolve, ev, call, path, matches[k])]
        commands == {r \in ToSet(results) : IsCommand(r)}
    IN  IF name \in visited
        THEN Gap("cycle_detected", "package_script_cycle", call.leading \cup ToSet(path) \cup again, {})
        ELSE IF matches = <<>> THEN Gap("invalid_reference", "unresolved_package_script", call.leading, {})
        ELSE IF Cardinality(Tokens(commands)) > 1 THEN Conflict(commands)
        ELSE IF commands # {} THEN MergedCommand(commands)
        ELSE MergedGap(results)

\* The result of all scripts of the name.
ResolveName(resolve, ev, scripts, call, path) ==
    LET name == NextName(ev, call, path)
        visited == {ScriptName(ev, i) : i \in ToSet(path)}
        refs == call.leading \cup ToSet(path)
        again == {i \in scripts : ScriptName(ev, i) \in visited}
        matches == InOrder({i \in scripts : ScriptName(ev, i) = name})
        results == [k \in DOMAIN matches |-> ResolveScript(resolve, ev, call, path, matches[k])]
        commands == {r \in ToSet(results) : IsCommand(r)}
    IN  IF name \in visited THEN Gap("cycle_detected", "package_script_cycle", refs \cup again, {})
        ELSE IF Len(path) >= MaxScriptChainDepth
        THEN Gap("requires_source_analysis", "unresolved_package_script", refs \cup again, {})
        ELSE IF matches = <<>> THEN Gap("invalid_reference", "unresolved_package_script", refs, {})
        ELSE IF Cardinality(Tokens(commands)) > 1 THEN Conflict(commands)
        ELSE IF commands # {} THEN MergedCommand(commands)
        ELSE MergedGap(results)

PackageScript(ev, scripts, call) ==
    LET resolve[path \in Seq(scripts)] == ResolveName(resolve, ev, scripts, call, path)
    IN  resolve[<<>>]

\* _resolve_parsed_command, from _resolve_standalone_command and
\* _resolve_entrypoint_alone.
Standalone(ev, scripts, command, source, refs) ==
    IF command.form = "invalid" THEN Unsupported(refs)
    ELSE IF HasCompound(command) THEN Compound(refs)
    ELSE IF IsShellScript(command.tokens) THEN ShellScript(refs)
    ELSE IF NeedsExpansion(command.tokens) THEN Unsupported(refs)
    ELSE IF Invoked(command.tokens) # None THEN
            PackageScript(ev, scripts,
                ScriptCall(Invoked(command.tokens), refs, source \cup {"package_script"}, "high"))
    ELSE Stated(command.tokens, source, "high", refs)

\* Mutant: the ENTRYPOINT after the CMD.
CombinedReversed(entrypoint, cmd) == [form |-> "exec", tokens |-> cmd.tokens \o entrypoint.tokens]

\* The exec form of both, the CMD after the ENTRYPOINT.
Combined(entrypoint, cmd) == [form |-> "exec", tokens |-> entrypoint.tokens \o cmd.tokens]

\* _resolve_docker_cmd: the CMD gives the ENTRYPOINT its arguments, when
\* both are lists.
DockerCommand(ev, scripts, candidate, entrypoint) ==
    LET cmd == candidate.command
        first == ev[entrypoint].value
        refs == candidate.refs \cup {entrypoint}
        source == {"dockerfile_entrypoint", "dockerfile_cmd"}
    IN  IF entrypoint = None THEN
                Standalone(ev, scripts, cmd, {"dockerfile_cmd"}, candidate.refs)
        ELSE IF "invalid" \in {first.form, cmd.form} THEN Unsupported(refs)
        ELSE IF {first.form, cmd.form} = {"exec"} THEN
                Standalone(ev, scripts, Combined(first, cmd), source, refs)
        ELSE IF HasCompound(first) \/ HasCompound(cmd) THEN Compound(refs)
        ELSE Unsupported(refs)

\* _resolve_start_script_fallback: the result in a sequence, or none.
StartScript(ev, scripts) ==
    LET starts == {i \in scripts : ev[i].value.name = "start"}
    IN  CASE starts = {} -> <<>>
          [] Cardinality(starts) > 1 ->
                <<Conflict({Stated(ev[i].value.command.tokens, {"package_script"}, "medium", {i}) : i \in starts})>>
          [] OTHER ->
                <<PackageScript(ev, scripts, ScriptCall("start", {}, {"package_script"}, "medium"))>>

-----------------------------------------------------------------------------
(* analyze_runtime_commands.                                               *)

\* entrypoint_by_artifact: the ENTRYPOINTs of files some component holds.
Entrypoints(ev, components) ==
    {i \in FactsOf(ev, "dockerfile_entrypoint") : Holder(ev[i].dir, components) # None}

SameFile(f, g) == f.dir = g.dir /\ f.file = g.file

\* The results of one component, in the order they are appended.
ResultsOf(ev, rules, id) ==
    LET components == Analyzed(rules.components)
        scripts == ScriptsOf(ev, components, id)
        entrypoints == Entrypoints(ev, components)
        EntrypointOf(candidate) ==
            LET same == {i \in entrypoints : SameFile(ev[i], ev[candidate.fact])}
            IN  IF same = {} THEN None ELSE CHOOSE i \in same : TRUE
        candidates == At(rules.commands, {k \in DOMAIN rules.commands : rules.commands[k].id = id})
        \* A file with a CMD was read with it, if its CMD was a candidate.
        WithCmd(i) ==
            \/ \E c \in ToSet(rules.commands) : SameFile(ev[i], ev[c.fact])
            \/ \E j \in FactsOf(ev, "dockerfile_cmd") :
                  SameFile(ev[i], ev[j]) /\ Holder(ev[j].dir, components) # None
        alone == InOrder({i \in entrypoints : ~WithCmd(i) /\ Holder(ev[i].dir, components) = id})
    IN  [k \in DOMAIN candidates |->
            DockerCommand(ev, scripts, candidates[k], EntrypointOf(candidates[k]))]
        \o [k \in DOMAIN alone |->
            Standalone(ev, scripts, ev[alone[k]].value, {"dockerfile_entrypoint"}, {alone[k]})]
        \o (IF rules.commands = <<>> /\ entrypoints = {} THEN StartScript(ev, scripts) ELSE <<>>)

\* Mutant: of different commands one is taken.
SettledAny(results) ==
    LET commands == {r \in ToSet(results) : IsCommand(r)}
    IN  IF commands = {} THEN ToSet(results) ELSE {CHOOSE c \in commands : TRUE}

\* _reconcile_component: one command, or what stands in the way of one.
Settled(results) ==
    LET commands == {r \in ToSet(results) : IsCommand(r)}
        Same(tokens) == {c \in commands : c.tokens = tokens}
    IN  IF commands = {} THEN ToSet(results)
        ELSE IF Cardinality(Tokens(commands)) = 1 THEN {MergedCommand(commands)}
        ELSE {Conflict({MergedCommand(Same(t)) : t \in Tokens(commands)})}

\* The command or the gaps of every component.
RuntimeAnalysis(ev, rules) ==
    [id \in {c.id : c \in ToSet(Analyzed(rules.components))} |-> Settled(ResultsOf(ev, rules, id))]

CommandOf(analysis, id) == {r \in analysis[id] : IsCommand(r)}
GapsOf(analysis, id) == analysis[id] \ CommandOf(analysis, id)

\* _resolved_commands_are_unique_per_component, which raises: two candidates
\* of one id resolve to one command twice.
Duplicated(rules, analysis) ==
    \E j, k \in DOMAIN rules.components :
        /\ j # k
        /\ rules.components[j].id = rules.components[k].id
        /\ CommandOf(analysis, rules.components[j].id) # {}

-----------------------------------------------------------------------------
(* task_builder.                                                           *)

\* _AGENT_ACTIONABLE_REASONS and _TOOL_ALLOWLIST_BY_REASON.
AllowedTools ==
    [shell_script_entrypoint       |-> {"inspect_entrypoint_script", "read_source_range"},
     compound_shell_command        |-> {"read_source_range", "search_code", "find_command_target"},
     missing_runtime_command       |-> {"read_source_range", "search_code", "find_command_target"},
     conflicting_explicit_commands |-> {"read_source_range", "search_code", "find_command_target"}]

\* route_runtime_command_gap_reason.
Disposition(reason) ==
    CASE reason \in DOMAIN AllowedTools -> "task_created"
      [] reason \in {"unresolved_package_script", "package_script_cycle"} -> "not_agent_actionable"
      [] OTHER -> "unsupported_for_mvp"

\* build_runtime_command_semantic_tasks: one task for a component and its
\* command, whatever the number of its gaps.
Actionable(analysis, id) ==
    {g \in GapsOf(analysis, id) : Disposition(g.reason) = "task_created"}

Task(analysis, id) ==
    LET gaps == Actionable(analysis, id)
        reasons == {g.reason : g \in gaps}
    IN  [component  |-> id,
         reasons    |-> reasons,
         refs       |-> UNION {g.refs : g \in gaps},
         candidates |-> {c \in CommandOf(analysis, id) \cup UNION {g.alternatives : g \in gaps} : c.refs # {}},
         tools      |-> UNION {AllowedTools[r] : r \in reasons}]

SemanticTasks(analysis) ==
    {Task(analysis, id) : id \in {i \in DOMAIN analysis : Actionable(analysis, i) # {}}}
=============================================================================
