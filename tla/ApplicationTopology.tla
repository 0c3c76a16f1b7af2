------------------------- MODULE ApplicationTopology -------------------------
(***************************************************************************)
(* k8s_agent/analysis/topology_builder.py: the topology of a repository,   *)
(* from the rule candidates and the reconciliation of phase 1.             *)
(*                                                                         *)
(* A field path is a sequence of names.                                    *)
(***************************************************************************)
EXTENDS Reconciliation

-----------------------------------------------------------------------------
(* The components.                                                         *)

\* _component_ids.
TopologyIds(rules) ==
    {c.id : c \in ToSet(rules.components) \cup ToSet(rules.roles) \cup ToSet(rules.runtimes)
                  \cup ToSet(rules.ports) \cup ToSet(rules.commands) \cup rules.secrets}
    \cup {e.source : e \in rules.edges}

\* The candidates of a sequence that are about a component.
Of(candidates, id) == At(candidates, {k \in DOMAIN candidates : candidates[k].id = id})

RefsOf(candidates) == UNION {c.refs : c \in candidates}

\* Mutant: every candidate is a port of its own.
TopologyPortsAll(rules, id) ==
    LET ports == Of(rules.ports, id)
    IN  {[value |-> ports[k].port, refs |-> ports[k].refs] : k \in DOMAIN ports}

\* The candidates for one port are kept by their first.
TopologyPorts(rules, id) ==
    LET ports == Of(rules.ports, id)
        firsts == {k \in DOMAIN ports : \A j \in 1..(k - 1) : ports[j].port # ports[k].port}
    IN  {[value |-> ports[k].port, refs |-> ports[k].refs] : k \in firsts}

\* Commands of the candidates are compared as they are written.
Written(rules, id) == {c.command : c \in ToSet(Of(rules.commands, id))}
CommandConflict(rules, id) == Cardinality(Written(rules, id)) > 1

\* One command of the candidates, or, where nothing conflicts, what the
\* reconciliation found.
TopologyCommand(rules, reconciliation, id) ==
    LET candidates == Of(rules.commands, id)
        reconciled == IF id \in DOMAIN reconciliation.runtimes
                      THEN reconciliation.runtimes[id].command ELSE None
    IN  IF CommandConflict(rules, id) THEN None
        ELSE IF candidates # <<>> THEN
                [value |-> candidates[1].command, classification |-> "rule_inference", refs |-> candidates[1].refs]
        ELSE IF reconciled # None THEN
                [value |-> reconciled.command, refs |-> reconciled.refs,
                 classification |-> IF reconciled.source = "llm_semantic_inference"
                                    THEN "llm_interpretation" ELSE "rule_inference"]
        ELSE None

\* A secret is kept by its first candidate.
TopologySecrets(rules, id) ==
    LET secrets == {s \in rules.secrets : s.id = id}
    IN  {s \in secrets : \A t \in secrets : t.name = s.name => Min(s.refs) <= Min(t.refs)}

\* build_from_reconciliation, component by component.  The reconciled role
\* replaces the candidate's.
TopologyComponent(rules, reconciliation, id) ==
    LET candidates == Of(rules.components, id)
        runtimes == Of(rules.runtimes, id)
    IN  [root         |-> IF candidates = <<>> THEN None ELSE Last(candidates).root,
         role         |-> IF id \in DOMAIN reconciliation.intent THEN reconciliation.intent[id].role ELSE "application",
         runtime      |-> IF runtimes = <<>> THEN None ELSE runtimes[1],
         ports        |-> TopologyPorts(rules, id),
         command      |-> TopologyCommand(rules, reconciliation, id),
         dependencies |-> {e \in rules.edges : e.source = id},
         secrets      |-> TopologySecrets(rules, id),
         refs         |-> RefsOf(ToSet(candidates) \cup ToSet(Of(rules.roles, id)))]

-----------------------------------------------------------------------------
(* The canonical fields: a path, a state and the evidence cited.  The      *)
(* value of a field is the component's.                                    *)

Present(candidate) == IF candidate = None THEN {} ELSE {candidate}

\* _component_refs.
ComponentRefs(component) ==
    component.refs
    \cup RefsOf(Present(component.runtime) \cup Present(component.command)
                \cup component.ports \cup component.dependencies \cup component.secrets)

Field(path, state, refs) == [path |-> path, state |-> state, refs |-> refs]

\* Mutant: a conflict cites its first candidate.
CommandFieldOfFirst(rules, component, id) ==
    LET path == id \o <<"effective_runtime_command">>
    IN  IF CommandConflict(rules, id) THEN Field(path, "conflict", Of(rules.commands, id)[1].refs)
        ELSE IF component.command # None THEN Field(path, "resolved", component.command.refs)
        ELSE Field(path, "unresolved", ComponentRefs(component))

\* _runtime_command_field.
CommandField(rules, component, id) ==
    LET path == id \o <<"effective_runtime_command">>
    IN  IF CommandConflict(rules, id) THEN
                Field(path, "conflict", RefsOf(ToSet(Of(rules.commands, id))))
        ELSE IF component.command # None THEN
                Field(path, "resolved", component.command.refs)
        ELSE Field(path, "unresolved", ComponentRefs(component))

\* _runtime_port_field.
PortField(component, id) ==
    LET path == id \o <<"runtime_port">>
        values == {p.value : p \in component.ports}
    IN  CASE Cardinality(values) > 1 -> Field(path, "conflict", RefsOf(component.ports))
          [] Cardinality(values) = 1 -> Field(path, "resolved", RefsOf(component.ports))
          [] OTHER -> Field(path, "unresolved", ComponentRefs(component))

\* _secret_classification_field.
SecretField(component, id) ==
    LET path == id \o <<"secret_classification">>
    IN  IF component.secrets # {}
        THEN Field(path, "resolved", RefsOf(component.secrets))
        ELSE Field(path, "not_applicable", ComponentRefs(component))

\* _build_strategy_field.
BuildField(component, id) ==
    LET path == id \o <<"build_strategy">>
    IN  IF component.runtime # None
        THEN Field(path, "resolved", component.runtime.refs)
        ELSE Field(path, "unresolved", ComponentRefs(component))

\* _package_dependency_fields: of the manifests under the component's root.
PackageFields(ev, component) ==
    {Field(IdOfRoot(ev[i].dir) \o <<"package_dependencies", ev[i].value>>, "resolved", {i}) :
        i \in {j \in FactsOf(ev, "package_dependency") :
                  component.root # None /\ RootHolds(component.root, ev[j].dir)}}

\* _with_canonical_fields.
CanonicalFields(ev, rules, component, id) ==
    LET refs == ComponentRefs(component)
    IN  {Field(id \o <<"present">>, "resolved", refs),
         Field(id \o <<"deployment_role">>, "resolved", refs),
         CommandField(rules, component, id), PortField(component, id),
         SecretField(component, id), BuildField(component, id)}
        \cup PackageFields(ev, component)

-----------------------------------------------------------------------------
(* Modules and coverage.                                                   *)

\* _repository_modules: one per directory with a package manifest.
ModuleRefs(ev) == {i \in DOMAIN ev : ev[i].type \in PackageManifestFacts}

RepositoryModules(ev) ==
    [dir \in {ev[i].dir : i \in ModuleRefs(ev)} |->
        [id       |-> IdOfRoot(dir),
         packages |-> {ev[i].value : i \in {j \in ModuleRefs(ev) :
                          ev[j].dir = dir /\ ev[j].type = "package_dependency"}}]]

\* _analysis_coverage: a file is analyzed when a module or a field cites a
\* fact of it.
Coverage(ev, fields) ==
    LET cited == ModuleRefs(ev) \cup UNION {f.refs : f \in fields}
    IN  [i \in FactsOf(ev, "artifact_presence") |->
            IF \E j \in cited : SameFile(ev[i], ev[j]) THEN "analyzed" ELSE "coverage_gap"]

\* build_from_reconciliation.
Topology(ev, rules, reconciliation) ==
    LET component(id) == TopologyComponent(rules, reconciliation, id)
        fields == [id \in TopologyIds(rules) |-> CanonicalFields(ev, rules, component(id), id)]
    IN  [components |-> [id \in TopologyIds(rules) |-> component(id)],
         conflicts  |-> {id \in TopologyIds(rules) : CommandConflict(rules, id)},
         fields     |-> fields,
         modules    |-> RepositoryModules(ev),
         coverage   |-> Coverage(ev, UNION {fields[id] : id \in DOMAIN fields})]
=============================================================================
