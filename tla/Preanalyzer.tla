----------------------------- MODULE Preanalyzer -----------------------------
(***************************************************************************)
(* preanalyzer/pipeline.py, run_analysis: one run of phase 1 over a tree,  *)
(* stage by stage, with the semantic agent asked where a command is        *)
(* missing.                                                                *)
(***************************************************************************)
EXTENDS ApplicationTopology

CONSTANTS
    Trees,            \* the repositories
    Profiles,         \* the deployment profiles, or None for none
    AgentCommands     \* commands the agent may have accepted

ASSUME TreesAssumption == \A t \in Trees : IsTree(t)

VARIABLES
    phase,        \* the stage that runs next
    tree, profile,
    evidence, rules,
    analysis,     \* of the runtime commands
    pending,      \* components whose task has not run
    accepted,     \* AcceptedSemanticCommands
    result,       \* of the reconciliation
    topology,
    merged,       \* [intent, questions, ready]
    rendered,     \* RenderResult
    report

vars == <<phase, tree, profile, evidence, rules, analysis, pending, accepted,
          result, topology, merged, rendered, report>>

Unset == [unset |-> TRUE]

Init ==
    /\ phase = "parse"
    /\ tree \in Trees
    /\ profile = None
    /\ evidence = <<>>
    /\ rules = Unset /\ analysis = <<>> /\ pending = {} /\ accepted = {}
    /\ result = Unset /\ topology = Unset /\ merged = Unset
    /\ rendered = Unset /\ report = Unset

\* build_inventory, _parse_inventory and build_evidence.
BuildEvidence ==
    /\ phase = "parse"
    /\ evidence' = Evidence(tree)
    /\ phase' = "infer"
    /\ UNCHANGED <<tree, profile, rules, analysis, pending, accepted, result, topology, merged, rendered, report>>

\* infer, which raises over an image that still has its merge tag.
InferRules ==
    /\ phase = "infer"
    /\ IF TaggedImages(evidence) # {}
       THEN phase' = "raised" /\ UNCHANGED rules
       ELSE phase' = "analyze" /\ rules' = Infer(evidence)
    /\ UNCHANGED <<tree, profile, evidence, analysis, pending, accepted, result, topology, merged, rendered, report>>

\* analyze_runtime_commands and build_runtime_command_semantic_tasks.
AnalyzeCommands ==
    /\ phase = "analyze"
    /\ analysis' = RuntimeAnalysis(evidence, rules)
    /\ IF Duplicated(rules, analysis')
       THEN phase' = "raised" /\ UNCHANGED pending
       ELSE phase' = "ask" /\ pending' = {t.component : t \in SemanticTasks(analysis')}
    /\ UNCHANGED <<tree, profile, evidence, rules, accepted, result, topology, merged, rendered, report>>

\* _run_semantic_task_for_audit and _extract_accepted_command.  A run that is
\* rejected, out of budget or in error accepts nothing.
RunTask(id) ==
    /\ phase = "ask" /\ id \in pending
    /\ pending' = pending \ {id}
    /\ \/ UNCHANGED accepted
       \/ \E command \in AgentCommands :
             accepted' = accepted \cup {[id |-> id, command |-> command, refs |-> Task(analysis, id).refs]}
    /\ UNCHANGED <<phase, tree, profile, evidence, rules, analysis, result, topology, merged, rendered, report>>

\* With semantic_mode "disabled", or no provider, no task runs.
ReconcileRules ==
    /\ phase = "ask"
    /\ pending = {} \/ (accepted = {} /\ pending = {t.component : t \in SemanticTasks(analysis)})
    /\ result' = Reconcile(rules, accepted)
    /\ topology' = Topology(evidence, rules, result')
    /\ phase' = "merge"
    /\ UNCHANGED <<tree, profile, evidence, rules, analysis, pending, accepted, merged, rendered, report>>

\* The profile is read now.  Without one the intent and the questions stay
\* as they are.
MergeProfile ==
    /\ phase = "merge"
    /\ profile' \in Profiles
    /\ IF profile' = None
       THEN /\ merged' = [intent |-> result.intent, questions |-> result.questions, ready |-> FALSE]
            /\ phase' = "render"
       ELSE IF ProfileRefused(result, profile')
       THEN phase' = "raised" /\ UNCHANGED merged
       ELSE merged' = Merge(result, profile') /\ phase' = "render"
    /\ UNCHANGED <<tree, evidence, rules, analysis, pending, accepted, result, topology, rendered, report>>

RenderManifests ==
    /\ phase = "render"
    /\ rendered' = Render(merged.intent)
    /\ phase' = "validate"
    /\ UNCHANGED <<tree, profile, evidence, rules, analysis, pending, accepted, result, topology, merged, report>>

ValidateManifests ==
    /\ phase = "validate"
    /\ \E kubeconform, dry_run \in ToolOutcomes : report' = ValidationReport(kubeconform, dry_run)
    /\ phase' = "done"
    /\ UNCHANGED <<tree, profile, evidence, rules, analysis, pending, accepted, result, topology, merged, rendered>>

Next ==
    \/ BuildEvidence \/ InferRules \/ AnalyzeCommands
    \/ \E id \in pending : RunTask(id)
    \/ ReconcileRules \/ MergeProfile \/ RenderManifests \/ ValidateManifests

Spec == Init /\ [][Next]_vars

\* The readiness the report states.
ReportedReady == merged.ready /\ rendered.holds = {}

-----------------------------------------------------------------------------
(* Types.                                                                  *)

CommandsAnalyzed == phase \in {"ask", "merge", "render", "validate", "done"}
Reconciled == phase \in {"merge", "render", "validate", "done"}
Rendered == phase \in {"validate", "done"}

\* Every stage leaves what the next one reads: the commands of the
\* components, the tasks still to run among them, and one intent each.
TypeOK ==
    /\ phase \in {"parse", "infer", "analyze", "ask", "merge", "render", "validate", "done", "raised"}
    /\ tree \in Trees /\ profile \in Profiles \cup {None}
    /\ pending \subseteq DOMAIN analysis
    /\ \A a \in accepted : a.id \in DOMAIN analysis /\ a.command \in AgentCommands
    /\ Reconciled => DOMAIN result.intent = {c.id : c \in ToSet(rules.components)}
    /\ Rendered => rendered.holds \subseteq DOMAIN merged.intent
    /\ phase = "done" => report.achieved \in {0, 1}

-----------------------------------------------------------------------------
(* What a tree states, read off the evidence.                              *)

Facts(type) == {i \in DOMAIN evidence : evidence[i].type = type}

CommandTokens(i) ==
    IF evidence[i].type = "package_script" THEN evidence[i].value.command.tokens ELSE evidence[i].value.tokens

\* The facts that are a program's own: a Dockerfile's or a package's.
SourceFacts == UNION {Facts(t) : t \in {"dockerfile_expose", "dockerfile_cmd", "dockerfile_entrypoint",
                                        "maven_packaging", "package_dependency", "package_script"}}

-----------------------------------------------------------------------------
(* The runtime commands.                                                   *)

\* A resolved command is the repository's, never the analyzer's: the words
\* of one CMD, ENTRYPOINT or package script it cites, or of an ENTRYPOINT
\* followed by the CMD of the same Dockerfile.
ResolvedIsStated ==
    \A id \in DOMAIN analysis : \A c \in CommandOf(analysis, id) :
        \/ \E i \in c.refs : c.tokens = CommandTokens(i)
        \/ \E i \in c.refs \cap Facts("dockerfile_entrypoint"), j \in c.refs \cap Facts("dockerfile_cmd") :
              SameFile(evidence[i], evidence[j]) /\ c.tokens = CommandTokens(i) \o CommandTokens(j)

\* A package script is given up as a cycle only over scripts that call each
\* other without end: each one cited there runs another one cited there.
CyclesAreReal ==
    \A id \in DOMAIN analysis : \A g \in GapsOf(analysis, id) :
        g.reason = "package_script_cycle" =>
            \E cycle \in SUBSET (g.refs \cap Facts("package_script")) :
                /\ cycle # {}
                /\ \A i \in cycle : \E j \in cycle : Invoked(CommandTokens(i)) = evidence[j].value.name

\* What the Dockerfile of a CMD runs: the CMD, or its list after the
\* ENTRYPOINT's.  Other pairs have no command that can be written down.
DockerfileCommand(cmd) ==
    LET entries == {i \in Facts("dockerfile_entrypoint") : SameFile(evidence[i], evidence[cmd])}
        first == evidence[CHOOSE i \in entries : TRUE].value
    IN  IF entries = {} THEN evidence[cmd].value
        ELSE IF {first.form, evidence[cmd].value.form} = {"exec"} THEN Combined(first, evidence[cmd].value)
        ELSE [form |-> "invalid", tokens |-> <<>>]

\* Nothing of the command is left to a shell or to a package's scripts.
RunsAsWritten(command) ==
    /\ command.form # "invalid" /\ ~HasCompound(command)
    /\ ~IsShellScript(command.tokens) /\ ~NeedsExpansion(command.tokens) /\ Invoked(command.tokens) = None

\* The words are the component's command, or a known candidate of its task.
KeptFor(id, tokens) ==
    \/ tokens \in Tokens(CommandOf(analysis, id))
    \/ \E t \in SemanticTasks(analysis) : t.component = id /\ tokens \in Tokens(t.candidates)

\* However many Dockerfiles, Compose services and packages share a tree, what
\* a component's Dockerfile runs as it is written is the component's command
\* or stands in its task, ENTRYPOINT and all: it is not lost to another
\* component that holds the file too, to a file read before, or to gaps.
DockerfileCommandsAreKept ==
    (CommandsAnalyzed /\ rules.components # <<>>) =>
        \A i \in Facts("dockerfile_cmd") :
            LET id == Owner(evidence[i].dir, rules.components)
            IN  (id # None /\ RunsAsWritten(DockerfileCommand(i))) => KeptFor(id, DockerfileCommand(i).tokens)

\* The same of a tree without components, whose commands are all the implicit
\* root's.  The code does not keep it: the root holds only the files at the
\* top, so that the CMD of api/Dockerfile becomes its command and the
\* ENTRYPOINT before it is dropped.
ImplicitRootCommandsAreKept ==
    (CommandsAnalyzed /\ rules.components = <<>>) =>
        \A i \in Facts("dockerfile_cmd") :
            RunsAsWritten(DockerfileCommand(i)) => KeptFor(<<"root">>, DockerfileCommand(i).tokens)

\* A component with a start script has a command or a gap.  The code does not
\* keep it: one CMD or ENTRYPOINT anywhere in the tree takes the start scripts
\* of all components out of the analysis.
StartScriptsAreRead ==
    CommandsAnalyzed =>
        \A id \in DOMAIN analysis :
            (\E i \in ScriptsOf(evidence, Analyzed(rules.components), id) : evidence[i].value.name = "start")
                => analysis[id] # {}

\* A service that only names an image is given no port, command or runtime
\* of a Dockerfile or a package.
ImageOnlyOwnsNothing ==
    rules # Unset =>
        \A component \in ToSet(rules.components) :
            component.root = None =>
                \A c \in ToSet(rules.ports) \cup ToSet(rules.commands) \cup ToSet(rules.runtimes) :
                    c.id = component.id => c.refs \cap SourceFacts = {}

\* The same of the commands the resolver attributes.
ImageOnlyResolvesNothing ==
    CommandsAnalyzed =>
        \A component \in ToSet(rules.components) :
            component.root = None =>
                \A r \in analysis[component.id] : r.refs \cap SourceFacts = {}

\* Every container port that a base file and its override both state for a
\* service, where neither tags the key, is a port of the service.
MergedPortsSurvive ==
    rules # Unset =>
        \A i \in DOMAIN tree :
            (tree[i].type = "compose" /\ ~tree[i].override /\ Pairs(tree, tree[i].dir)
                /\ ~Unparsable(Document(tree, i))) =>
            \A j \in ComposeIn(tree, tree[i].dir, TRUE) :
            \A s \in DOMAIN tree[i].document \cap DOMAIN tree[j].document :
                LET Has(document) == /\ document[s] # None /\ "ports" \in DOMAIN document[s]
                                     /\ document[s].ports.tag = "plain"
                    Containers(document) == {Number(p.container) : p \in ToSet(document[s].ports.value)}
                IN  Has(tree[i].document) /\ Has(tree[j].document) =>
                        (Containers(tree[i].document) \cup Containers(tree[j].document)) \ {None}
                            \subseteq PortsOf(rules, <<s>>)

\* An analysis fails only over a service two compose files state apart from
\* each other, an image whose merge tag no merge took off, or a profile that
\* names an unknown component.
RaisesOnlyOnRepeatedService ==
    phase = "raised" =>
        \/ \E i \in {k \in DOMAIN tree : tree[k].type = "compose" /\ tree[k].document # None} :
              \E s \in {x \in DOMAIN tree[i].document : tree[i].document[x] # None} :
                 HasTag(tree[i].document[s], "image")
        \/ \E i, j \in {k \in DOMAIN tree : tree[k].type = "compose" /\ tree[k].document # None} :
              /\ i # j
              /\ tree[i].dir = tree[j].dir => ~Pairs(tree, tree[i].dir)
              /\ DOMAIN tree[i].document \cap DOMAIN tree[j].document # {}
        \/ profile # None /\ ~ DOMAIN profile.ports \subseteq {c.id : c \in ToSet(rules.components)}

-----------------------------------------------------------------------------
(* The two readings of the candidates, and the manifests.                  *)

\* The topology the agent plans from and the intent phase 1 renders from are
\* built apart, and agree: a port is in conflict in one when the other asks
\* for it, and they name one port, and outside a conflict one command.
TopologyAgrees ==
    Reconciled =>
        \A id \in DOMAIN result.runtimes :
            LET component == topology.components[id]
                runtime == result.runtimes[id]
            IN  /\ Cardinality(component.ports) > 1 <=> PortQuestion(id) \in result.questions
                /\ Cardinality(component.ports) = 1 => runtime.port \in {p.value : p \in component.ports}
                /\ id \notin topology.conflicts =>
                      Present(component.command) # {} <=> Present(runtime.command) # {}
                /\ (component.command # None /\ runtime.command # None) =>
                      component.command.value = runtime.command.command

\* The agent's command is used only for a component none of whose
\* Dockerfiles has a CMD, and the topology marks it as an interpretation.
DeterministicWins ==
    Reconciled =>
        \A id \in DOMAIN result.runtimes :
            LET command == result.runtimes[id].command
            IN  (command # None /\ command.source = "llm_semantic_inference") =>
                    /\ \A i \in Facts("dockerfile_cmd") : Owner(evidence[i].dir, rules.components) # id
                    /\ topology.components[id].command.classification = "llm_interpretation"

\* Several CMDs of one component leave it without a command until somebody
\* decides.
OneCommandOrNone ==
    Reconciled =>
        \A id \in DOMAIN result.runtimes :
            Cardinality(Written(rules, id)) > 1 => result.runtimes[id].command = None

\* A file that gave a candidate and is reported as a coverage gap only
\* restates what an analyzed file states of the component.
GapsAreRestatements ==
    Reconciled =>
        LET InFile(c, i) == \E j \in c.refs : SameFile(evidence[i], evidence[j])
            Restated(candidates, Value(_), i) ==
                \A c \in {d \in candidates : InFile(d, i)} :
                    \E d \in candidates : \E k \in DOMAIN topology.coverage :
                        /\ d.id = c.id /\ Value(d) = Value(c)
                        /\ InFile(d, k) /\ topology.coverage[k] = "analyzed"
        IN  \A i \in {k \in DOMAIN topology.coverage : topology.coverage[k] = "coverage_gap"} :
                /\ Restated(ToSet(rules.ports), LAMBDA c : c.port, i)
                /\ Restated(ToSet(rules.commands), LAMBDA c : c.command, i)
                /\ ~ \E c \in ToSet(rules.components) \cup ToSet(rules.roles) : InFile(c, i)

\* An ingress is rendered only beside the service it points at.
IngressBacked ==
    Rendered => \A f \in rendered.files :
        f.kind = "ingress" => File(f.id, "service") \in rendered.files

\* A report that says level 2 can be tried leaves nothing out: every
\* application has its deployment, and the ingress asked for is there.
ReadyIsRendered ==
    (Rendered /\ ReportedReady) =>
        /\ \A id \in DOMAIN merged.intent :
              merged.intent[id].role = "application" => File(id, "deployment") \in rendered.files
        /\ (profile.ingress_host # None /\ IngressComponent(merged.intent) # None) =>
              File(IngressComponent(merged.intent), "ingress") \in rendered.files
=============================================================================
