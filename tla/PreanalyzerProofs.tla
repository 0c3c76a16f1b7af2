--------------------------- MODULE PreanalyzerProofs ---------------------------
(***************************************************************************)
(* What holds of a run of phase 1 for every tree, every profile and every  *)
(* command an agent may find.  Each stage leaves a function of what earlier *)
(* stages left, so that what its candidates, commands and files have in    *)
(* common with the tree follows from what the stages compute.              *)
(***************************************************************************)
EXTENDS Preanalyzer, CandidateProofs

------------------------------------------------------------------------------
\* From the intent of the rules to the manifests

\* Only an application has a port, and a service for it.
IsIntent(component) ==
    /\ {"role", "port", "registry", "service", "ingress"} \subseteq DOMAIN component
    /\ component.registry = None /\ component.ingress = None
    /\ component.service = component.port
    /\ component.role # "application" => component.port = None

LEMMA ReconciledIntent ==
    ASSUME NEW candidates, NEW found
    PROVE  /\ DOMAIN Reconcile(candidates, found).intent = {c.id : c \in ToSet(candidates.components)}
           /\ \A id \in DOMAIN Reconcile(candidates, found).intent :
                IsIntent(Reconcile(candidates, found).intent[id])
           /\ OpsQuestion("registry") \in Reconcile(candidates, found).questions
<1> DEFINE ids == {c.id : c \in ToSet(candidates.components)}
<1>1. \A id : IsIntent(ComponentIntent(candidates, found, id))
  BY DEF ComponentIntent, IsIntent
<1>2. /\ DOMAIN Reconcile(candidates, found).intent = ids
      /\ \A id \in ids : Reconcile(candidates, found).intent[id] = ComponentIntent(candidates, found, id)
      /\ OpsQuestion("registry") \in Reconcile(candidates, found).questions
  BY DEF Reconcile
<1>3. QED BY <1>1, <1>2

\* The host goes to an application of the intent, or to none.
LEMMA IngressOfApplication ==
    ASSUME NEW intent, IngressComponent(intent) # None
    PROVE  /\ IngressComponent(intent) \in DOMAIN intent
           /\ intent[IngressComponent(intent)].role = "application"
<1> DEFINE applications == {k \in DOMAIN Ids : Ids[k] \in DOMAIN intent /\ intent[Ids[k]].role = "application"}
<1>1. applications # {} /\ IngressComponent(intent) = Ids[Min(applications)]
  BY DEF IngressComponent
<1>2. applications \in SUBSET Nat BY IdsAssumption
<1>3. Min(applications) \in applications BY <1>1, <1>2, LeastPosition
<1>4. QED BY <1>1, <1>3

\* Merging a profile changes no role, and gives the registry to every
\* application and the host to the one that is its.
LEMMA MergedFields ==
    ASSUME NEW intent, NEW ops, \A id \in DOMAIN intent : IsIntent(intent[id])
    PROVE  /\ DOMAIN MergedIntent(intent, ops) = DOMAIN intent
           /\ \A id \in DOMAIN intent :
                /\ MergedIntent(intent, ops)[id].role = intent[id].role
                /\ MergedIntent(intent, ops)[id].registry =
                        IF intent[id].role = "application" THEN ops.registry ELSE None
                /\ MergedIntent(intent, ops)[id].ingress =
                        IF id = IngressComponent(intent) THEN ops.ingress_host ELSE None
                /\ intent[id].role = "application" =>
                        MergedIntent(intent, ops)[id].service = MergedIntent(intent, ops)[id].port
<1>1. DOMAIN MergedIntent(intent, ops) = DOMAIN intent
  BY DEF MergedIntent
<1>2. ASSUME NEW id \in DOMAIN intent
      PROVE  /\ MergedIntent(intent, ops)[id].role = intent[id].role
             /\ MergedIntent(intent, ops)[id].registry =
                    IF intent[id].role = "application" THEN ops.registry ELSE None
             /\ MergedIntent(intent, ops)[id].ingress =
                    IF id = IngressComponent(intent) THEN ops.ingress_host ELSE None
             /\ intent[id].role = "application" =>
                    MergedIntent(intent, ops)[id].service = MergedIntent(intent, ops)[id].port
  <2> DEFINE given == intent[id]
             application == given.role = "application"
             merge == MergedIntent(intent, ops)[id]
  <2>1. merge = [given EXCEPT
                    !.registry = IF application THEN ops.registry ELSE None,
                    !.ingress = IF id = IngressComponent(intent) THEN ops.ingress_host ELSE None,
                    !.service = Or(ProfilePort(ops, id), @),
                    !.port = IF application THEN Or(ProfilePort(ops, id), @) ELSE @]
    BY <1>2, Zenon DEF MergedIntent
  <2>2. {"role", "port", "registry", "service", "ingress"} \subseteq DOMAIN given
    BY <1>2 DEF IsIntent
  <2>3. given.service = given.port BY <1>2 DEF IsIntent
  <2> HIDE DEF given, merge
  <2>4. /\ merge.role = given.role
        /\ merge.registry = IF application THEN ops.registry ELSE None
        /\ merge.ingress = IF id = IngressComponent(intent) THEN ops.ingress_host ELSE None
        /\ merge.service = Or(ProfilePort(ops, id), given.service)
        /\ merge.port = IF application THEN Or(ProfilePort(ops, id), given.port) ELSE given.port
    BY <2>1, <2>2
  <2>5. QED BY <2>3, <2>4 DEF given, merge
<1>3. QED BY <1>1, <1>2

LEMMA MergedIngress ==
    ASSUME NEW intent, NEW ops, \A id \in DOMAIN intent : IsIntent(intent[id])
    PROVE  IngressComponent(MergedIntent(intent, ops)) = IngressComponent(intent)
<1>1. \A k \in DOMAIN Ids :
        /\ Ids[k] \in DOMAIN MergedIntent(intent, ops) <=> Ids[k] \in DOMAIN intent
        /\ Ids[k] \in DOMAIN intent => MergedIntent(intent, ops)[Ids[k]].role = intent[Ids[k]].role
  BY MergedFields
<1>2. {k \in DOMAIN Ids : /\ Ids[k] \in DOMAIN MergedIntent(intent, ops)
                          /\ MergedIntent(intent, ops)[Ids[k]].role = "application"}
      = {k \in DOMAIN Ids : Ids[k] \in DOMAIN intent /\ intent[Ids[k]].role = "application"}
  BY <1>1
<1>3. QED BY <1>2, Zenon DEF IngressComponent

\* What a rendering leaves out and what it holds back
LEMMA RenderedFiles ==
    ASSUME NEW intent
    PROVE  /\ Render(intent).holds \subseteq DOMAIN intent
           /\ \A f \in Render(intent).files :
                \E id \in DOMAIN intent : Renderable(intent[id]) /\ f \in FilesOf(id, intent[id])
           /\ \A id \in DOMAIN intent :
                Renderable(intent[id]) =>
                    /\ FilesOf(id, intent[id]) \subseteq Render(intent).files
                    /\ IngressHeld(intent[id]) => id \in Render(intent).holds
<1> DEFINE rendered_ids == {id \in DOMAIN intent : Renderable(intent[id])}
<1>1. /\ Render(intent).files = UNION {FilesOf(id, intent[id]) : id \in rendered_ids}
      /\ Render(intent).holds = {id \in rendered_ids : IngressHeld(intent[id])}
  BY DEF Render
<1>2. QED BY <1>1

------------------------------------------------------------------------------
\* The inductive invariant: what a stage leaves is a function of what earlier
\* stages left

Analysis ==
    /\ CommandsAnalyzed => analysis = RuntimeAnalysis(evidence, rules)
    /\ phase \in {"parse", "infer", "analyze"} => pending = {} /\ accepted = {}
    /\ pending \subseteq DOMAIN analysis
    /\ \A a \in accepted : a.id \in DOMAIN analysis /\ a.command \in AgentCommands

\* What the stages before the agent computed, also when one of them raised.
Computed ==
    /\ phase = "parse" \/ evidence = Evidence(tree)
    /\ phase \in {"parse", "infer"} => rules = Unset
    /\ phase \in {"parse", "infer", "analyze"} => analysis = <<>>
    /\ phase \in {"analyze", "ask", "merge", "render", "validate", "done"} => rules = Infer(evidence)
    /\ rules = Unset => analysis = <<>>
    /\ rules = Unset \/ rules = Infer(evidence)
    /\ analysis = <<>> \/ analysis = RuntimeAnalysis(evidence, rules)

\* What made a stage raise.
RaisedOver ==
    \/ TaggedImages(evidence) # {}
    \/ rules = Infer(evidence) /\ Duplicated(rules, RuntimeAnalysis(evidence, rules))
    \/ profile # None /\ ~ DOMAIN profile.ports \subseteq {c.id : c \in ToSet(rules.components)}

Stages ==
    /\ phase \in {"parse", "infer", "analyze", "ask", "merge", "render", "validate", "done", "raised"}
    /\ tree \in Trees /\ profile \in Profiles \cup {None}
    /\ Analysis
    /\ Computed
    /\ phase = "raised" => RaisedOver
    /\ Reconciled => result = Reconcile(rules, accepted) /\ topology = Topology(evidence, rules, result)
    /\ phase \in {"render", "validate", "done"} =>
          merged = IF profile = None
                   THEN [intent |-> result.intent, questions |-> result.questions, ready |-> FALSE]
                   ELSE Merge(result, profile)
    /\ Rendered => rendered = Render(merged.intent)
    /\ phase = "done" => report.achieved \in {0, 1}

LEMMA StagesTyped == Stages => TypeOK
<1> SUFFICES ASSUME Stages PROVE TypeOK OBVIOUS
<1>1. Reconciled => DOMAIN result.intent = {c.id : c \in ToSet(rules.components)}
  BY ReconciledIntent DEF Stages
<1>2. Rendered => rendered.holds \subseteq DOMAIN merged.intent
  BY RenderedFiles DEF Stages
<1>3. QED BY <1>1, <1>2, Zenon DEF Stages, Analysis, TypeOK

LEMMA InitStages == Init => Stages
  BY DEF Init, Stages, Analysis, Computed, CommandsAnalyzed, Reconciled, Rendered

LEMMA TasksOfAnalysis ==
    ASSUME NEW commands PROVE {t.component : t \in SemanticTasks(commands)} \subseteq DOMAIN commands
  BY DEF SemanticTasks, Task

LEMMA StagesStep == Stages /\ [Next]_vars => Stages'
<1> SUFFICES ASSUME Stages, [Next]_vars PROVE Stages' OBVIOUS
<1> USE DEF CommandsAnalyzed, Reconciled, Rendered
<1>1. CASE BuildEvidence
  <2>1. /\ phase = "parse" /\ evidence' = Evidence(tree) /\ phase' = "infer"
        /\ UNCHANGED <<tree, profile, rules, analysis, pending, accepted, result, topology, merged, rendered, report>>
    BY <1>1, Zenon DEF BuildEvidence
  <2>2. Analysis' BY <2>1, Zenon DEF Stages, Analysis
  <2>3. Computed' BY <2>1, Zenon DEF Stages, Computed
  <2>4. QED BY <2>1, <2>2, <2>3 DEF Stages
<1>2. CASE InferRules
  <2>1. /\ phase = "infer"
        /\ UNCHANGED <<tree, profile, evidence, analysis, pending, accepted, result, topology, merged, rendered, report>>
        /\ \/ phase' = "raised" /\ TaggedImages(evidence) # {} /\ rules' = rules
           \/ phase' = "analyze" /\ rules' = Infer(evidence)
    BY <1>2, Zenon DEF InferRules
  <2>2. Analysis' BY <2>1, Zenon DEF Stages, Analysis
  <2>3. Computed' BY <2>1, Zenon DEF Stages, Computed
  <2>4. phase' = "raised" => RaisedOver' BY <2>1, Zenon DEF RaisedOver
  <2>5. QED BY <2>1, <2>2, <2>3, <2>4 DEF Stages
<1>3. CASE AnalyzeCommands
  <2>1. /\ phase = "analyze" /\ analysis' = RuntimeAnalysis(evidence, rules)
        /\ UNCHANGED <<tree, profile, evidence, rules, accepted, result, topology, merged, rendered, report>>
        /\ \/ phase' = "raised" /\ Duplicated(rules, analysis') /\ UNCHANGED pending
           \/ phase' = "ask" /\ pending' = {t.component : t \in SemanticTasks(analysis')}
    BY <1>3, Zenon DEF AnalyzeCommands
  <2>2. pending = {} /\ accepted = {} BY <2>1 DEF Stages, Analysis
  <2>3. pending' \subseteq DOMAIN analysis' BY <2>1, <2>2, TasksOfAnalysis
  <2>4. Analysis' BY <2>1, <2>2, <2>3 DEF Analysis
  <2>5. rules = Infer(evidence) /\ evidence = Evidence(tree) BY <2>1 DEF Stages, Computed
  <2>6. rules # Unset BY <2>5, Zenon DEF Infer, Unset
  <2>7. Computed' BY <2>1, <2>5, <2>6, Zenon DEF Computed
  <2>8. phase' = "raised" => RaisedOver' BY <2>1, <2>5, Zenon DEF RaisedOver
  <2>9. QED BY <2>1, <2>4, <2>7, <2>8 DEF Stages
<1>4. ASSUME NEW id \in pending, RunTask(id) PROVE Stages'
  <2>1. /\ phase = "ask" /\ pending' = pending \ {id}
        /\ UNCHANGED <<phase, tree, profile, evidence, rules, analysis, result, topology, merged, rendered, report>>
    BY <1>4 DEF RunTask
  <2>2. \A a \in accepted' : a.id \in DOMAIN analysis /\ a.command \in AgentCommands
    <3>1. CASE UNCHANGED accepted BY <3>1 DEF Stages, Analysis
    <3>2. ASSUME NEW command \in AgentCommands,
                 accepted' = accepted \cup {[id |-> id, command |-> command, refs |-> Task(analysis, id).refs]}
          PROVE  \A a \in accepted' : a.id \in DOMAIN analysis /\ a.command \in AgentCommands
      BY <3>2 DEF Stages, Analysis
    <3>3. QED BY <1>4, <3>1, <3>2 DEF RunTask
  <2>3. Analysis' BY <2>1, <2>2 DEF Stages, Analysis
  <2>4. Computed' BY <2>1, Zenon DEF Stages, Computed
  <2>5. QED BY <2>1, <2>3, <2>4 DEF Stages
<1>5. CASE ReconcileRules
  <2>1. /\ phase = "ask" /\ result' = Reconcile(rules, accepted) /\ phase' = "merge"
        /\ topology' = Topology(evidence, rules, result')
        /\ UNCHANGED <<tree, profile, evidence, rules, analysis, pending, accepted, merged, rendered, report>>
    BY <1>5 DEF ReconcileRules
  <2>2. Analysis' BY <2>1 DEF Stages, Analysis
  <2>3. Computed' BY <2>1, Zenon DEF Stages, Computed
  <2>4. QED BY <2>1, <2>2, <2>3 DEF Stages
<1>6. CASE MergeProfile
  <2>1. /\ phase = "merge" /\ profile' \in Profiles
        /\ UNCHANGED <<tree, evidence, rules, analysis, pending, accepted, result, topology, rendered, report>>
        /\ \/ phase' = "raised" /\ profile' # None /\ ProfileRefused(result, profile')
           \/ /\ phase' = "render"
              /\ merged' = IF profile' = None
                           THEN [intent |-> result.intent, questions |-> result.questions, ready |-> FALSE]
                           ELSE Merge(result, profile')
    BY <1>6, Zenon DEF MergeProfile
  <2>2. Analysis' BY <2>1 DEF Stages, Analysis
  <2>3. Computed' BY <2>1, Zenon DEF Stages, Computed
  <2>4. DOMAIN result.intent = {c.id : c \in ToSet(rules.components)}
    BY <2>1, ReconciledIntent DEF Stages
  <2>5. phase' = "raised" => RaisedOver' BY <2>1, <2>4 DEF RaisedOver, ProfileRefused
  <2>6. QED BY <2>1, <2>2, <2>3, <2>5 DEF Stages
<1>7. CASE RenderManifests
  <2>1. /\ phase = "render" /\ rendered' = Render(merged.intent) /\ phase' = "validate"
        /\ UNCHANGED <<tree, profile, evidence, rules, analysis, pending, accepted, result, topology, merged, report>>
    BY <1>7 DEF RenderManifests
  <2>2. Analysis' BY <2>1 DEF Stages, Analysis
  <2>3. Computed' BY <2>1, Zenon DEF Stages, Computed
  <2>4. QED BY <2>1, <2>2, <2>3 DEF Stages
<1>8. CASE ValidateManifests
  <2>1. /\ phase = "validate" /\ phase' = "done" /\ report'.achieved \in {0, 1}
        /\ UNCHANGED <<tree, profile, evidence, rules, analysis, pending, accepted, result, topology, merged, rendered>>
    BY <1>8 DEF ValidateManifests, ValidationReport
  <2>2. Analysis' BY <2>1 DEF Stages, Analysis
  <2>3. Computed' BY <2>1, Zenon DEF Stages, Computed
  <2>4. QED BY <2>1, <2>2, <2>3 DEF Stages
<1>9. CASE UNCHANGED vars BY <1>9, Zenon DEF vars, Stages, Analysis, Computed, RaisedOver
<1>10. QED BY <1>1, <1>2, <1>3, <1>4, <1>5, <1>6, <1>7, <1>8, <1>9 DEF Next

\* Each stage leaves what the next one reads, whatever the tree and whatever
\* the agent accepts.
THEOREM TypeCorrect == Spec => []TypeOK
<1>1. QED BY InitStages, StagesStep, StagesTyped, PTL DEF Spec

------------------------------------------------------------------------------
\* The manifests

\* An application that is rendered points its ingress at its own service.
LEMMA MergedFromReconciled ==
    ASSUME Stages, Rendered
    PROVE  /\ \A id \in DOMAIN result.intent : IsIntent(result.intent[id])
           /\ \A id \in DOMAIN merged.intent :
                merged.intent[id].role = "application" =>
                    merged.intent[id].service = merged.intent[id].port
<1>1. \A id \in DOMAIN result.intent : IsIntent(result.intent[id])
  BY ReconciledIntent DEF Stages, Reconciled, Rendered
<1>2. CASE profile = None
  <2>1. merged.intent = result.intent BY <1>2 DEF Stages, Rendered
  <2>2. QED BY <1>1, <2>1 DEF IsIntent
<1>3. CASE profile # None
  <2>1. merged.intent = MergedIntent(result.intent, profile) BY <1>3 DEF Stages, Rendered, Merge
  <2>2. \A id \in DOMAIN merged.intent :
          merged.intent[id].role = "application" => merged.intent[id].service = merged.intent[id].port
    BY <1>1, <2>1, MergedFields
  <2>3. QED BY <1>1, <2>2
<1>4. QED BY <1>2, <1>3

\* An ingress is never rendered without the service it points at.
THEOREM IngressesAreBacked == Spec => []IngressBacked
<1>1. Stages => IngressBacked
  <2> SUFFICES ASSUME Stages, Rendered, NEW f \in rendered.files, f.kind = "ingress"
               PROVE  File(f.id, "service") \in rendered.files
    BY DEF IngressBacked
  <2>1. rendered = Render(merged.intent) BY DEF Stages
  <2>2. PICK id \in DOMAIN merged.intent :
          Renderable(merged.intent[id]) /\ f \in FilesOf(id, merged.intent[id])
    BY <2>1, RenderedFiles
  <2>3. f = File(id, "ingress") /\ merged.intent[id].ingress # None /\ ~IngressHeld(merged.intent[id])
    BY <2>2 DEF FilesOf, File
  <2>4. IngressPort(merged.intent[id]) # None BY <2>3 DEF IngressHeld
  <2>5. merged.intent[id].service = merged.intent[id].port
    BY <2>2, MergedFromReconciled DEF Renderable
  <2>6. merged.intent[id].service # None BY <2>4, <2>5 DEF IngressPort, Or
  <2>7. File(id, "service") \in FilesOf(id, merged.intent[id]) BY <2>6 DEF FilesOf
  <2>8. QED BY <2>1, <2>2, <2>3, <2>7, RenderedFiles DEF File
<1>2. QED BY <1>1, InitStages, StagesStep, PTL DEF Spec

\* What is reported ready leaves out no deployment, and not the ingress.
THEOREM ReadyIsComplete == Spec => []ReadyIsRendered
<1>1. Stages => ReadyIsRendered
  <2> SUFFICES ASSUME Stages, Rendered, ReportedReady
               PROVE  /\ \A id \in DOMAIN merged.intent :
                            merged.intent[id].role = "application" => File(id, "deployment") \in rendered.files
                      /\ (profile.ingress_host # None /\ IngressComponent(merged.intent) # None) =>
                            File(IngressComponent(merged.intent), "ingress") \in rendered.files
    BY DEF ReadyIsRendered
  <2>1. /\ rendered = Render(merged.intent) /\ rendered.holds = {} /\ merged.ready
        /\ result = Reconcile(rules, accepted)
    BY DEF Stages, Reconciled, Rendered, ReportedReady
  <2>2. profile # None /\ merged = Merge(result, profile)
    BY <2>1 DEF Stages, Rendered
  <2>3. merged.intent = MergedIntent(result.intent, profile)
    BY <2>2 DEF Merge
  <2>4. profile.registry # None
    <3>1. {q \in result.questions : ~Answered(q, profile)} = {}
      BY <2>1, <2>2 DEF Merge
    <3>2. Answered(OpsQuestion("registry"), profile)
      BY <2>1, <3>1, ReconciledIntent
    <3>3. QED BY <3>2 DEF Answered, OpsQuestion
  <2>5. \A id \in DOMAIN merged.intent :
          merged.intent[id].role = "application" =>
            /\ Renderable(merged.intent[id])
            /\ merged.intent[id].ingress =
                    IF id = IngressComponent(merged.intent) THEN profile.ingress_host ELSE None
    BY <2>3, <2>4, MergedFromReconciled, MergedFields, MergedIngress DEF Renderable
  <2>6. ASSUME NEW id \in DOMAIN merged.intent, merged.intent[id].role = "application"
        PROVE  File(id, "deployment") \in rendered.files
    <3>1. File(id, "deployment") \in FilesOf(id, merged.intent[id]) BY DEF FilesOf
    <3>2. QED BY <2>1, <2>5, <2>6, <3>1, RenderedFiles
  <2>7. ASSUME profile.ingress_host # None, IngressComponent(merged.intent) # None
        PROVE  File(IngressComponent(merged.intent), "ingress") \in rendered.files
    <3> DEFINE id == IngressComponent(merged.intent)
    <3>1. id \in DOMAIN merged.intent /\ merged.intent[id].role = "application"
      BY <2>7, IngressOfApplication
    <3>2. Renderable(merged.intent[id]) /\ merged.intent[id].ingress # None
      BY <2>5, <2>7, <3>1
    <3>3. ~IngressHeld(merged.intent[id]) BY <2>1, <3>1, <3>2, RenderedFiles
    <3>4. File(id, "ingress") \in FilesOf(id, merged.intent[id]) BY <3>2, <3>3 DEF FilesOf
    <3>5. QED BY <2>1, <3>1, <3>2, <3>4, RenderedFiles
  <2>8. QED BY <2>6, <2>7
<1>2. QED BY <1>1, InitStages, StagesStep, PTL DEF Spec

------------------------------------------------------------------------------
\* The runtime commands

LEMMA InferredCandidates ==
    ASSUME NEW ev
    PROVE  /\ Infer(ev).components = Components(ev)
           /\ Infer(ev).roles = RoleCandidates(ev)
           /\ Infer(ev).runtimes = RuntimeCandidates(ev, Components(ev))
           /\ Infer(ev).ports = PortCandidates(ev, Components(ev))
           /\ Infer(ev).commands = CommandCandidates(ev, Components(ev))
           /\ Infer(ev).edges = EdgeCandidates(ev)
           /\ Infer(ev).secrets = SecretCandidates(ev)
  BY Zenon DEF Infer

LEMMA ParsedEvidence ==
    ASSUME Stages, phase # "parse"
    PROVE  /\ IsTree(tree) /\ evidence = Evidence(tree)
           /\ IsSequence(evidence) /\ IsEvidence(evidence)
<1>1. IsTree(tree) BY TreesAssumption DEF Stages
<1>2. evidence = Evidence(tree) BY Zenon DEF Stages, Computed
<1>3. IsSequence(evidence) /\ IsEvidence(evidence) BY <1>1, <1>2, EvidenceFacts DEF IsEvidence
<1>4. QED BY <1>1, <1>2, <1>3

\* A component's analysis settles results that are the repository's.
LEMMA AnalyzedResults ==
    ASSUME Stages, NEW id \in DOMAIN analysis
    PROVE  /\ analysis[id] = Settled(ResultsOf(evidence, rules, id))
           /\ IsSequence(ResultsOf(evidence, rules, id))
           /\ \A r \in ToSet(ResultsOf(evidence, rules, id)) : IsResult(evidence, r)
           /\ \A c \in ToSet(rules.commands) : c.id = id =>
                LET holders == Analyzed(rules.components)
                IN  DockerCommand(evidence, ScriptsOf(evidence, holders, id), c,
                                  EntrypointWith(evidence, holders, c))
                        \in ToSet(ResultsOf(evidence, rules, id))
<1>1. analysis # <<>> OBVIOUS
<1>2. /\ phase # "parse" /\ rules = Infer(evidence)
      /\ analysis = RuntimeAnalysis(evidence, rules)
  BY <1>1, Zenon DEF Stages, Computed
<1>3. IsSequence(evidence) BY <1>2, ParsedEvidence
<1>4. rules.commands = CommandCandidates(evidence, Components(evidence)) BY <1>2, InferredCandidates
<1> DEFINE components == Components(evidence)
           candidates == CommandCandidates(evidence, components)
<1> HIDE DEF components
<1>5. IsSequence(candidates) /\ \A c \in ToSet(candidates) : IsCommandCandidate(evidence, components, c)
  BY <1>3, CommandCandidatesOf, Zenon
<1>9. rules.commands = candidates BY <1>4 DEF components
<1> HIDE DEF candidates
<1>10. /\ IsSequence(rules.commands)
       /\ \A c \in ToSet(rules.commands) : IsCommandCandidate(evidence, components, c)
  BY <1>5, <1>9
<1>6. /\ IsSequence(ResultsOf(evidence, rules, id))
      /\ \A r \in ToSet(ResultsOf(evidence, rules, id)) : IsResult(evidence, r)
      /\ \A c \in ToSet(rules.commands) : c.id = id =>
            LET holders == Analyzed(rules.components)
            IN  DockerCommand(evidence, ScriptsOf(evidence, holders, id), c,
                              EntrypointWith(evidence, holders, c))
                    \in ToSet(ResultsOf(evidence, rules, id))
  BY <1>3, <1>10, ResultsOfComponent, Zenon
<1>7. analysis[id] = Settled(ResultsOf(evidence, rules, id)) BY <1>2, Zenon DEF RuntimeAnalysis
<1>8. QED BY <1>6, <1>7

LEMMA ResolvedResults ==
    ASSUME Stages, NEW id \in DOMAIN analysis, NEW r \in analysis[id]
    PROVE  IsResult(evidence, r)
<1> DEFINE results == ResultsOf(evidence, rules, id)
<1>1. /\ analysis[id] = Settled(results) /\ IsSequence(results)
      /\ \A q \in ToSet(results) : IsResult(evidence, q)
  BY AnalyzedResults
<1> HIDE DEF results
<1>2. \A q \in Settled(results) : IsResult(evidence, q) BY <1>1, SettledResults, Zenon
<1>3. QED BY <1>1, <1>2

\* A resolved command is in the words of the repository, for every tree.
THEOREM ResolvedIsTheRepositorys == Spec => []ResolvedIsStated
<1>1. Stages => ResolvedIsStated
  <2> SUFFICES ASSUME Stages, NEW id \in DOMAIN analysis, NEW c \in CommandOf(analysis, id)
               PROVE  \/ \E i \in c.refs : c.tokens = CommandTokens(i)
                      \/ \E i \in c.refs \cap Facts("dockerfile_entrypoint"),
                            j \in c.refs \cap Facts("dockerfile_cmd") :
                            /\ SameFile(evidence[i], evidence[j])
                            /\ c.tokens = CommandTokens(i) \o CommandTokens(j)
    BY DEF ResolvedIsStated
  <2>1. StatedIn(evidence, c.tokens, c.refs)
    <3>1. c \in analysis[id] /\ IsCommand(c) BY Zenon DEF CommandOf
    <3>2. IsResult(evidence, c) BY <3>1, ResolvedResults
    <3>3. QED BY <3>1, <3>2, Zenon DEF IsResult
  <2>2. \A i : CommandTokens(i) = TokensOf(evidence, i) BY Zenon DEF CommandTokens, TokensOf
  <2>3. \A t : Facts(t) = FactsOf(evidence, t) BY Zenon DEF Facts, FactsOf
  <2> DEFINE tokens == c.tokens
             refs == c.refs
  <2>4. StatedIn(evidence, tokens, refs) BY <2>1
  <2> HIDE DEF tokens, refs
  <2>5. \/ \E i \in refs : tokens = CommandTokens(i)
        \/ \E i \in refs \cap Facts("dockerfile_entrypoint"), j \in refs \cap Facts("dockerfile_cmd") :
              SameFile(evidence[i], evidence[j]) /\ tokens = CommandTokens(i) \o CommandTokens(j)
    BY <2>2, <2>3, <2>4 DEF StatedIn
  <2>6. QED BY <2>5 DEF tokens, refs
<1>2. QED BY <1>1, InitStages, StagesStep, PTL DEF Spec

\* Scripts are given up as a cycle only when they form one, however they are
\* spread over the packages of a component.
THEOREM CyclesAreFound == Spec => []CyclesAreReal
<1>1. Stages => CyclesAreReal
  <2> SUFFICES ASSUME Stages, NEW id \in DOMAIN analysis, NEW g \in GapsOf(analysis, id),
                      g.reason = "package_script_cycle"
               PROVE  \E cycle \in SUBSET (g.refs \cap Facts("package_script")) :
                        /\ cycle # {}
                        /\ \A i \in cycle : \E j \in cycle :
                              Invoked(CommandTokens(i)) = evidence[j].value.name
    BY DEF CyclesAreReal
  <2>1. g \in analysis[id] /\ ~IsCommand(g) BY Zenon DEF GapsOf, CommandOf
  <2>2. IsResult(evidence, g) BY <2>1, ResolvedResults
  <2>3. HasCycle(evidence, g.refs) BY <2>1, <2>2, Zenon DEF IsResult
  <2>4. \A i : CommandTokens(i) = TokensOf(evidence, i) BY Zenon DEF CommandTokens, TokensOf
  <2>5. Facts("package_script") = FactsOf(evidence, "package_script") BY Zenon DEF Facts, FactsOf
  <2>6. QED BY <2>3, <2>4, <2>5 DEF HasCycle, ScriptName
<1>2. QED BY <1>1, InitStages, StagesStep, PTL DEF Spec

LEMMA ConflictIsActionable == Disposition("conflicting_explicit_commands") = "task_created"
  BY DEF Disposition, AllowedTools

\* A conflict makes a task, with what conflicts for candidates.
LEMMA TaskOfConflict ==
    ASSUME NEW commands, NEW id \in DOMAIN commands, NEW r \in commands[id],
           ~IsCommand(r), r.reason = "conflicting_explicit_commands",
           NEW a \in r.alternatives, a.refs # {}
    PROVE  \E t \in SemanticTasks(commands) : t.component = id /\ a \in t.candidates
<1>1. r \in GapsOf(commands, id) BY Zenon DEF GapsOf, CommandOf
<1>2. r \in Actionable(commands, id) BY <1>1, ConflictIsActionable, Zenon DEF Actionable
<1>3. Task(commands, id) \in SemanticTasks(commands) BY <1>2, Zenon DEF SemanticTasks
<1>4. Task(commands, id).component = id BY Zenon DEF Task
<1> DEFINE offered == CommandOf(commands, id) \cup UNION {g.alternatives : g \in Actionable(commands, id)}
<1>5. Task(commands, id).candidates = {c \in offered : c.refs # {}} BY Zenon DEF Task
<1>6. a \in offered BY <1>2
<1> HIDE DEF offered
<1>7. a \in Task(commands, id).candidates BY <1>5, <1>6
<1>8. QED BY <1>3, <1>4, <1>7, Zenon

\* A command among the results of a component is its command, or a candidate
\* of the task that is to choose.
LEMMA ResultIsKept ==
    ASSUME Stages, NEW id \in DOMAIN analysis, NEW c \in ToSet(ResultsOf(evidence, rules, id)), IsCommand(c)
    PROVE  KeptFor(id, c.tokens)
<1> DEFINE results == ResultsOf(evidence, rules, id)
<1>1. /\ analysis[id] = Settled(results) /\ IsSequence(results)
      /\ \A r \in ToSet(results) : IsResult(evidence, r)
  BY AnalyzedResults
<1>2. c \in ToSet(results) OBVIOUS
<1> HIDE DEF results
<1>3. \/ \E r \in Settled(results) : IsCommand(r) /\ r.tokens = c.tokens
      \/ \E r \in Settled(results) :
            /\ ~IsCommand(r) /\ r.reason = "conflicting_explicit_commands"
            /\ \E a \in r.alternatives : a.tokens = c.tokens /\ a.refs # {}
  BY <1>1, <1>2, SettledResults, Zenon
<1>4. ASSUME NEW r \in Settled(results), IsCommand(r), r.tokens = c.tokens
      PROVE  KeptFor(id, c.tokens)
  <2>1. r \in CommandOf(analysis, id) BY <1>1, <1>4 DEF CommandOf
  <2>2. c.tokens \in Tokens(CommandOf(analysis, id)) BY <1>4, <2>1, Zenon DEF Tokens
  <2>3. QED BY <2>2, Zenon DEF KeptFor
<1>5. ASSUME NEW r \in Settled(results), ~IsCommand(r), r.reason = "conflicting_explicit_commands",
             NEW a \in r.alternatives, a.tokens = c.tokens, a.refs # {}
      PROVE  KeptFor(id, c.tokens)
  <2>1. r \in analysis[id] BY <1>1
  <2>2. PICK t \in SemanticTasks(analysis) : t.component = id /\ a \in t.candidates
    BY <1>5, <2>1, TaskOfConflict
  <2>3. c.tokens \in Tokens(t.candidates) BY <1>5, <2>2, Zenon DEF Tokens
  <2>4. QED BY <2>2, <2>3, Zenon DEF KeptFor
<1>6. QED BY <1>3, <1>4, <1>5

------------------------------------------------------------------------------
\* The candidates

\* What the inferred rules are about.
LEMMA InferredRules ==
    ASSUME Stages, rules # Unset
    PROVE  /\ IsTree(tree) /\ evidence = Evidence(tree) /\ IsEvidence(evidence)
           /\ rules = Infer(evidence)
           /\ rules.components = Components(evidence)
           /\ IsRooted(rules.components)
           /\ \A c \in ToSet(rules.components) : c.id \in ToSet(Ids) /\ c.id # None
           /\ \A c, d \in ToSet(rules.components) : c.id = d.id => c.root = d.root
           /\ \A j, k \in DOMAIN rules.components :
                 (j # k /\ rules.components[j].id = rules.components[k].id) => StatedTwice(evidence)
<1>1. phase # "parse" /\ rules = Infer(evidence) BY Zenon DEF Stages, Computed
<1>2. IsTree(tree) /\ evidence = Evidence(tree) /\ IsEvidence(evidence) BY <1>1, ParsedEvidence
<1> DEFINE components == Components(evidence)
<1>3. rules.components = components BY <1>1, InferredCandidates
<1>4. /\ IsRooted(components)
      /\ \A c \in ToSet(components) : c.id \in ToSet(Ids)
      /\ \A c, d \in ToSet(components) : c.id = d.id => c.root = d.root
      /\ \A j, k \in DOMAIN components :
            (j # k /\ components[j].id = components[k].id) => StatedTwice(evidence)
  BY <1>2, ComponentsOf, Zenon
<1>5. None \notin ToSet(Ids) BY IdsAssumption
<1> HIDE DEF components
<1>6. \A c \in ToSet(components) : c.id # None BY <1>4, <1>5
<1>7. rules.components = Components(evidence) BY <1>3 DEF components
<1>8. QED BY <1>1, <1>2, <1>3, <1>4, <1>6, <1>7, Zenon

LEMMA InferredCommands ==
    ASSUME Stages, rules # Unset
    PROVE  /\ IsSequence(rules.commands)
           /\ \A c \in ToSet(rules.commands) : IsCommandCandidate(evidence, rules.components, c)
           /\ \A i \in FactsOf(evidence, "dockerfile_cmd") :
                 CommandOwner(rules.components, evidence[i].dir) \in ToSet(Ids) \ {None} =>
                    \E c \in ToSet(rules.commands) : c.fact = i
<1>1. IsSequence(evidence) BY InferredRules DEF IsEvidence
<1> DEFINE components == rules.components
           commands == CommandCandidates(evidence, components)
<1>2. rules.commands = commands BY InferredRules, InferredCandidates
<1> HIDE DEF components
<1>3. /\ IsSequence(commands)
      /\ \A c \in ToSet(commands) : IsCommandCandidate(evidence, components, c)
      /\ \A i \in FactsOf(evidence, "dockerfile_cmd") :
            CommandOwner(components, evidence[i].dir) \in ToSet(Ids) \ {None} =>
               \E c \in ToSet(commands) : c.fact = i
  BY <1>1, CommandCandidatesOf, Zenon
<1> HIDE DEF commands
<1>4. QED BY <1>2, <1>3 DEF components

\* Who owns a directory holds its files, or another component does.
LEMMA OwnedIsHeld ==
    ASSUME NEW components, IsRooted(components), \A c \in ToSet(components) : c.id # None,
           NEW dir, Owner(dir, components) # None
    PROVE  components # <<>> /\ Holder(dir, components) # None
<1> DEFINE Holds(root) == IF root \in {None, <<>>} THEN dir = <<>> ELSE IsPrefix(root, dir)
           owners == {k \in DOMAIN components :
                         components[k].root # None /\ RootHolds(components[k].root, dir)}
           holders == {k \in DOMAIN components : Holds(components[k].root)}
<1>1. owners # {} BY Zenon DEF Owner
<1>2. owners \subseteq holders BY DEF RootHolds
<1>3. Holder(dir, components) = IF holders = {} THEN None ELSE components[Min(holders)].id
  BY Zenon DEF Holder
<1>4. holders # {} /\ holders \subseteq DOMAIN components BY <1>1, <1>2
<1> HIDE DEF holders, owners
<1>5. holders \in SUBSET Nat BY <1>4, SequencePlaces DEF IsRooted
<1>6. Min(holders) \in holders BY <1>4, <1>5, LeastPosition
<1>7. components[Min(holders)] \in ToSet(components) BY <1>4, <1>6, SequencePlaces DEF IsRooted
<1>8. components # <<>> BY <1>7 DEF ToSet
<1>9. QED BY <1>3, <1>4, <1>7, <1>8

\* Whatever else the tree holds, what the Dockerfile of a component runs as
\* it is written is the component's command or stands in its task.
THEOREM DockerfilesAreKept == Spec => []DockerfileCommandsAreKept
<1>1. Stages => DockerfileCommandsAreKept
  <2> DEFINE components == rules.components
  <2> SUFFICES ASSUME Stages, CommandsAnalyzed, components # <<>>,
                      NEW i \in Facts("dockerfile_cmd"),
                      Owner(evidence[i].dir, components) # None,
                      RunsAsWritten(DockerfileCommand(i))
               PROVE  KeptFor(Owner(evidence[i].dir, components), DockerfileCommand(i).tokens)
    BY Zenon DEF DockerfileCommandsAreKept
  <2> DEFINE id == Owner(evidence[i].dir, components)
             whole == DockerfileCommand(i)
  <2>1. rules # Unset /\ analysis = RuntimeAnalysis(evidence, rules)
    <3>1. rules = Infer(evidence) BY Zenon DEF Stages, Computed, CommandsAnalyzed
    <3>2. QED BY <3>1, Zenon DEF Infer, Unset, Stages, Analysis
  <2>2. /\ IsRooted(components) /\ IsSequence(evidence)
        /\ \A c \in ToSet(components) : c.id # None /\ c.id \in ToSet(Ids)
    BY <2>1, InferredRules DEF IsEvidence
  <2> HIDE DEF components
  <2>3. PICK component \in ToSet(components) : component.id = id
    <3>1. PICK k \in DOMAIN components : components[k].root # None /\ components[k].id = id
      BY <2>2, OwnerHasRoot, Zenon
    <3>2. QED BY <2>2, <3>1, SequencePlaces DEF IsRooted
  <2>4. id \in DOMAIN analysis /\ Analyzed(components) = components
    <3>1. Analyzed(components) = components BY Zenon DEF Analyzed
    <3>2. DOMAIN analysis = {c.id : c \in ToSet(components)}
      BY <2>1, <3>1, Zenon DEF RuntimeAnalysis, components
    <3>3. QED BY <2>3, <3>1, <3>2
  <2>5. i \in FactsOf(evidence, "dockerfile_cmd") BY Zenon DEF Facts, FactsOf
  <2>6. PICK c \in ToSet(rules.commands) : c.fact = i
    <3>1. CommandOwner(components, evidence[i].dir) = id BY Zenon DEF CommandOwner
    <3>2. id \in ToSet(Ids) \ {None} BY <2>2, <2>3
    <3>3. QED BY <2>1, <2>5, <3>1, <3>2, InferredCommands DEF components
  <2>7. c.id = id /\ c.command = evidence[i].value /\ c.refs = {i}
    <3>1. IsCommandCandidate(evidence, components, c) BY <2>1, <2>6, InferredCommands DEF components
    <3>2. QED BY <2>6, <3>1, Zenon DEF IsCommandCandidate, CommandOwner
  <2> DEFINE entries == {e \in Facts("dockerfile_entrypoint") : SameFile(evidence[e], evidence[i])}
             scripts == ScriptsOf(evidence, components, id)
             entrypoint == IF entries = {} THEN None ELSE CHOOSE e \in entries : TRUE
             outcome == DockerCommand(evidence, scripts, c, entrypoint)
  \* The ENTRYPOINT of an owned file is one that somebody holds.
  <2>8. EntrypointWith(evidence, components, c) = entrypoint
    <3>1. \A e \in entries : Holder(evidence[e].dir, components) # None
      BY <2>2, OwnedIsHeld DEF SameFile
    <3> DEFINE same == {e \in Entrypoints(evidence, components) : SameFile(evidence[e], evidence[c.fact])}
    <3>2. same = entries
      BY <2>6, <3>1 DEF Entrypoints, Facts, FactsOf
    <3>3. EntrypointWith(evidence, components, c) =
            IF same = {} THEN None ELSE CHOOSE e \in same : TRUE
      BY Zenon DEF EntrypointWith
    <3> HIDE DEF entries, same
    <3>4. QED BY <3>2, <3>3
  <2>9. outcome \in ToSet(ResultsOf(evidence, rules, id))
    BY <2>4, <2>6, <2>7, <2>8, AnalyzedResults, Zenon DEF components
  <2>10. \A e \in entries : e # None
    <3>1. \A e \in entries : e \in Nat BY <2>2, SequencePlaces DEF Facts
    <3>2. QED BY <3>1, NoneAssumption
  <2>11. outcome.tokens = whole.tokens /\ IsCommand(outcome)
    <3> DEFINE Plainly(source, refs) == Stated(whole.tokens, source, "high", refs)
    <3>1. \A source, refs : Plainly(source, refs).tokens = whole.tokens /\ IsCommand(Plainly(source, refs))
      BY DEF Stated, IsCommand
    <3>2. \A source, refs : Standalone(evidence, scripts, whole, source, refs) = Plainly(source, refs)
      <4>1. /\ whole.form # "invalid" /\ ~HasCompound(whole) /\ ~IsShellScript(whole.tokens)
            /\ ~NeedsExpansion(whole.tokens) /\ Invoked(whole.tokens) = None
        BY Zenon DEF RunsAsWritten
      <4> HIDE DEF whole, scripts
      <4>2. \A source, refs :
              Standalone(evidence, scripts, whole, source, refs) = Stated(whole.tokens, source, "high", refs)
        BY <4>1, StandaloneAsWritten
      <4>3. QED BY <4>2
    <3> HIDE DEF Plainly
    <3>3. CASE entries = {}
      <4>1. whole = c.command BY <2>7, <3>3, Zenon DEF DockerfileCommand
      <4>2. outcome = Standalone(evidence, scripts, whole, {"dockerfile_cmd"}, c.refs)
        BY <3>3, <4>1, Zenon DEF DockerCommand
      <4>3. QED BY <3>1, <3>2, <4>2
    <3>4. CASE entries # {}
      <4> DEFINE first == evidence[entrypoint].value
      <4>1. entrypoint \in entries /\ entrypoint = CHOOSE e \in entries : TRUE BY <3>4
      <4>2. entrypoint # None BY <2>10, <4>1
      <4>3. whole.form # "invalid" BY Zenon DEF RunsAsWritten
      <4>4. /\ whole = IF {first.form, c.command.form} = {"exec"} THEN Combined(first, c.command)
                       ELSE [form |-> "invalid", tokens |-> <<>>]
        BY <2>7, <3>4, <4>1, Zenon DEF DockerfileCommand
      <4> HIDE DEF entries, entrypoint, whole, first
      <4>5. {first.form, c.command.form} = {"exec"} /\ whole = Combined(first, c.command)
        BY <4>3, <4>4
      <4>6. outcome = Standalone(evidence, scripts, whole, {"dockerfile_entrypoint", "dockerfile_cmd"},
                                c.refs \cup {entrypoint})
        <5>1. "invalid" \notin {first.form, c.command.form} BY <4>5
        <5>2. QED BY <4>2, <4>5, <5>1, Zenon DEF DockerCommand, first
      <4>7. QED BY <3>1, <3>2, <4>6
    <3>5. QED BY <3>3, <3>4
  <2> HIDE DEF outcome, whole, id
  <2>12. KeptFor(id, outcome.tokens) BY <2>4, <2>9, <2>11, ResultIsKept
  <2>13. QED BY <2>11, <2>12 DEF id, whole
<1>2. QED BY <1>1, InitStages, StagesStep, PTL DEF Spec

LEMMA InferredPorts ==
    ASSUME Stages, rules # Unset
    PROVE  /\ IsSequence(rules.ports)
           /\ \A c \in ToSet(rules.ports) :
                 /\ IsExposed(evidence, rules.components, c) \/ IsMapped(evidence, c)
                 /\ \E i \in DOMAIN evidence : c.refs = {i}
           /\ \A i \in FactsOf(evidence, "compose_port") : evidence[i].value.value # None =>
                 \E c \in ToSet(rules.ports) :
                    c.id = <<evidence[i].value.service>> /\ c.port = evidence[i].value.value
<1>1. IsSequence(evidence) BY InferredRules DEF IsEvidence
<1> DEFINE components == rules.components
           ports == PortCandidates(evidence, components)
<1>2. rules.ports = ports BY InferredRules, InferredCandidates
<1> HIDE DEF components
<1>3. /\ IsSequence(ports)
      /\ \A c \in ToSet(ports) :
            /\ IsExposed(evidence, components, c) \/ IsMapped(evidence, c)
            /\ \E i \in DOMAIN evidence : c.refs = {i}
      /\ \A i \in FactsOf(evidence, "compose_port") : evidence[i].value.value # None =>
            \E c \in ToSet(ports) :
               c.id = <<evidence[i].value.service>> /\ c.port = evidence[i].value.value
  BY <1>1, PortCandidatesOf, Zenon
<1> HIDE DEF ports
<1>4. QED BY <1>2, <1>3 DEF components

LEMMA InferredRuntimes ==
    ASSUME Stages, rules # Unset
    PROVE  /\ IsSequence(rules.runtimes) /\ IsSequence(rules.roles)
           /\ \A c \in ToSet(rules.runtimes) :
                 \E k \in DOMAIN rules.components :
                    rules.components[k].root # None /\ rules.components[k].id = c.id
<1>1. IsSequence(evidence) BY InferredRules DEF IsEvidence
<1> DEFINE components == rules.components
           runtimes == RuntimeCandidates(evidence, components)
<1>2. rules.runtimes = runtimes /\ rules.roles = RoleCandidates(evidence)
  BY InferredRules, InferredCandidates
<1>3. IsRooted(components) /\ \A c \in ToSet(components) : c.id # None BY InferredRules
<1> HIDE DEF components
<1>4. /\ IsSequence(runtimes)
      /\ \A c \in ToSet(runtimes) :
            \E k \in DOMAIN components : components[k].root # None /\ components[k].id = c.id
  BY <1>1, <1>3, RuntimeCandidatesOf
<1>5. IsSequence(rules.roles) BY <1>1, <1>2, RoleCandidatesOf
<1> HIDE DEF runtimes
<1>6. QED BY <1>2, <1>4, <1>5 DEF components

\* A service that only names an image is given nothing of a Dockerfile or a
\* package, for every tree.
THEOREM ImagesOwnNothing == Spec => []ImageOnlyOwnsNothing
<1>1. Stages => ImageOnlyOwnsNothing
  <2> SUFFICES ASSUME Stages, rules # Unset,
                      NEW component \in ToSet(rules.components), component.root = None,
                      NEW c \in ToSet(rules.ports) \cup ToSet(rules.commands) \cup ToSet(rules.runtimes),
                      c.id = component.id
               PROVE  c.refs \cap SourceFacts = {}
    BY Zenon DEF ImageOnlyOwnsNothing
  <2> DEFINE components == rules.components
  <2>1. /\ IsRooted(components) /\ c.id # None
        /\ \A d, e \in ToSet(components) : d.id = e.id => d.root = e.root
    BY InferredRules
  <2>2. \A k \in DOMAIN components : components[k] \in ToSet(components)
    BY <2>1, SequencePlaces DEF IsRooted
  <2>3. component \in ToSet(components) OBVIOUS
  <2> HIDE DEF components
  \* Nobody else of the name has a root.
  <2>4. \A k \in DOMAIN components : components[k].id = c.id => components[k].root = None
    BY <2>1, <2>2, <2>3
  <2>5. \A dir : Owner(dir, components) # c.id
    <3> SUFFICES ASSUME NEW dir, Owner(dir, components) = c.id PROVE FALSE OBVIOUS
    <3>1. Owner(dir, components) # None BY <2>1
    <3>2. PICK k \in DOMAIN components : components[k].root # None /\ components[k].id = Owner(dir, components)
      BY <2>1, <3>1, OwnerHasRoot, Zenon
    <3>3. QED BY <2>4, <3>2
  <2>6. CASE c \in ToSet(rules.ports)
    <3>1. IsExposed(evidence, components, c) \/ IsMapped(evidence, c)
      BY <2>6, InferredPorts, Zenon DEF components
    <3>2. PICK i \in FactsOf(evidence, "compose_port") : c.refs = {i}
      BY <2>5, <3>1, Zenon DEF IsExposed, IsMapped
    <3>3. i \notin SourceFacts BY <3>2 DEF SourceFacts, Facts, FactsOf
    <3>4. QED BY <3>2, <3>3
  <2>7. CASE c \in ToSet(rules.commands)
    <3>1. c.id = CommandOwner(components, evidence[c.fact].dir)
      BY <2>7, InferredCommands, Zenon DEF IsCommandCandidate, components
    <3>2. components # <<>> BY <2>3 DEF ToSet
    <3>3. QED BY <2>5, <3>1, <3>2, Zenon DEF CommandOwner
  <2>8. CASE c \in ToSet(rules.runtimes)
    <3>1. PICK k \in DOMAIN components : components[k].root # None /\ components[k].id = c.id
      BY <2>8, InferredRuntimes, Zenon DEF components
    <3>2. QED BY <2>4, <3>1
  <2>9. QED BY <2>6, <2>7, <2>8
<1>2. QED BY <1>1, InitStages, StagesStep, PTL DEF Spec

\* What reconciliation makes of a component.
LEMMA ReconciledRuntimes ==
    ASSUME Stages, Reconciled
    PROVE  /\ rules # Unset
           /\ result = Reconcile(rules, accepted) /\ topology = Topology(evidence, rules, result)
           /\ DOMAIN result.runtimes = {c.id : c \in ToSet(rules.components)}
           /\ \A id \in DOMAIN result.runtimes :
                 /\ result.runtimes[id].port = ReconciledPort(rules, id)
                 /\ result.runtimes[id].command = ReconciledCommand(rules, accepted, id)
           /\ result.questions = {PortQuestion(id) : id \in {i \in DOMAIN result.runtimes :
                                                                Cardinality(PortsOf(rules, i)) > 1}}
                                 \cup {OpsQuestion("registry"), OpsQuestion("namespace")}
<1>1. /\ result = Reconcile(rules, accepted) /\ topology = Topology(evidence, rules, result)
      /\ rules = Infer(evidence)
  BY Zenon DEF Stages, Computed, Reconciled
<1>2. rules # Unset BY <1>1, Zenon DEF Infer, Unset
<1> DEFINE ids == {c.id : c \in ToSet(rules.components)}
<1>3. result.runtimes = [id \in ids |-> [port |-> ReconciledPort(rules, id),
                                         command |-> ReconciledCommand(rules, accepted, id)]]
  BY <1>1, Zenon DEF Reconcile
<1>4. result.questions = {PortQuestion(id) : id \in {i \in ids : Cardinality(PortsOf(rules, i)) > 1}}
                         \cup {OpsQuestion("registry"), OpsQuestion("namespace")}
  BY <1>1, Zenon DEF Reconcile
<1> HIDE DEF ids
<1>5. /\ DOMAIN result.runtimes = ids
      /\ \A id \in ids : /\ result.runtimes[id].port = ReconciledPort(rules, id)
                         /\ result.runtimes[id].command = ReconciledCommand(rules, accepted, id)
  BY <1>3
<1>6. QED BY <1>1, <1>2, <1>4, <1>5 DEF ids

LEMMA TopologyFields ==
    ASSUME NEW candidates, NEW reconciliation, NEW id
    PROVE  LET component == TopologyComponent(candidates, reconciliation, id)
           IN  /\ component.command = TopologyCommand(candidates, reconciliation, id)
               /\ component.ports = TopologyPorts(candidates, id)
               /\ component.refs = RefsOf(ToSet(Of(candidates.components, id)) \cup ToSet(Of(candidates.roles, id)))
               /\ component.runtime = IF Of(candidates.runtimes, id) = <<>> THEN None
                                      ELSE Of(candidates.runtimes, id)[1]
  BY DEF TopologyComponent

LEMMA TopologyOfComponent ==
    ASSUME Stages, Reconciled, NEW id \in DOMAIN result.runtimes
    PROVE  /\ topology.components[id] = TopologyComponent(rules, result, id)
           /\ id \in topology.conflicts <=> CommandConflict(rules, id)
<1>1. PICK c \in ToSet(rules.components) : id = c.id BY ReconciledRuntimes
<1>2. id \in TopologyIds(rules) BY <1>1, Zenon DEF TopologyIds
<1>3. topology = Topology(evidence, rules, result) BY ReconciledRuntimes
<1>4. /\ topology.components = [i \in TopologyIds(rules) |-> TopologyComponent(rules, result, i)]
      /\ topology.conflicts = {i \in TopologyIds(rules) : CommandConflict(rules, i)}
  BY <1>3, Zenon DEF Topology
<1>5. QED BY <1>2, <1>4, Zenon

\* The candidates of a sequence about a component.
LEMMA OfComponent ==
    ASSUME NEW candidates, IsSequence(candidates), NEW id
    PROVE  /\ IsSequence(Of(candidates, id))
           /\ ToSet(Of(candidates, id)) = {c \in ToSet(candidates) : c.id = id}
           /\ Of(candidates, id) = <<>> <=> ~ \E c \in ToSet(candidates) : c.id = id
<1> DEFINE places == {k \in DOMAIN candidates : candidates[k].id = id}
<1>1. /\ IsSequence(At(candidates, places)) /\ ToSet(At(candidates, places)) = {candidates[k] : k \in places}
      /\ At(candidates, places) = <<>> <=> places = {}
  BY SequenceAt
<1>2. {candidates[k] : k \in places} = {c \in ToSet(candidates) : c.id = id}
  BY SequencePlaces
<1>3. places = {} <=> ~ \E c \in ToSet(candidates) : c.id = id
  BY SequencePlaces
<1> HIDE DEF places
<1>4. Of(candidates, id) = At(candidates, places) BY Zenon DEF Of, places
<1>5. QED BY <1>1, <1>2, <1>3, <1>4

\* What the agent found is used only where no Dockerfile of the component
\* has a CMD, and the topology says whose it is.
THEOREM DeterministicCommandsWin == Spec => []DeterministicWins
<1>1. Stages => DeterministicWins
  <2> SUFFICES ASSUME Stages, Reconciled, NEW id \in DOMAIN result.runtimes,
                      result.runtimes[id].command # None,
                      result.runtimes[id].command.source = "llm_semantic_inference"
               PROVE  /\ \A i \in Facts("dockerfile_cmd") : Owner(evidence[i].dir, rules.components) # id
                      /\ topology.components[id].command.classification = "llm_interpretation"
    BY Zenon DEF DeterministicWins
  <2>1. /\ rules # Unset /\ result.runtimes[id].command = ReconciledCommand(rules, accepted, id)
        /\ DOMAIN result.runtimes = {c.id : c \in ToSet(rules.components)}
    BY ReconciledRuntimes
  <2>2. IsSequence(rules.commands) BY <2>1, InferredCommands
  <2>3. Of(rules.commands, id) = <<>>
    <3> DEFINE stated == Of(rules.commands, id)
    <3>1. SUFFICES ASSUME stated # <<>> PROVE FALSE OBVIOUS
    <3>2. stated = At(rules.commands, {k \in DOMAIN rules.commands : rules.commands[k].id = id})
      BY Zenon DEF Of
    <3>3. ReconciledCommand(rules, accepted, id) =
            [command |-> Last(stated).command, source |-> "dockerfile_cmd", refs |-> Last(stated).refs]
      BY <3>1, <3>2, Zenon DEF ReconciledCommand
    <3>4. QED BY <2>1, <3>3
  <2>4. ASSUME NEW i \in Facts("dockerfile_cmd"), Owner(evidence[i].dir, rules.components) = id
        PROVE  FALSE
    <3>1. i \in FactsOf(evidence, "dockerfile_cmd") BY <2>4, Zenon DEF Facts, FactsOf
    <3>2. PICK component \in ToSet(rules.components) : id = component.id BY <2>1
    <3>3. id \in ToSet(Ids) \ {None} BY <2>1, <3>2, InferredRules
    <3>4. rules.components # <<>> BY <3>2 DEF ToSet
    <3>5. CommandOwner(rules.components, evidence[i].dir) = id BY <2>4, <3>4, Zenon DEF CommandOwner
    <3>6. PICK c \in ToSet(rules.commands) : c.fact = i BY <2>1, <3>1, <3>3, <3>5, InferredCommands
    <3>7. c.id = id BY <2>1, <3>5, <3>6, InferredCommands, Zenon DEF IsCommandCandidate
    <3>8. QED BY <2>2, <2>3, <3>6, <3>7, OfComponent
  <2>5. topology.components[id].command = TopologyCommand(rules, result, id)
    <3>1. topology.components[id] = TopologyComponent(rules, result, id) BY TopologyOfComponent, Zenon
    <3>2. TopologyComponent(rules, result, id).command = TopologyCommand(rules, result, id)
      BY TopologyFields, Zenon
    <3>3. QED BY <3>1, <3>2
  <2>6. ~CommandConflict(rules, id)
    <3>1. Written(rules, id) = {} BY <2>3 DEF Written, ToSet
    <3>2. QED BY <3>1, FS_EmptySet DEF CommandConflict
  <2> DEFINE command == result.runtimes[id].command
  <2>7. TopologyCommand(rules, result, id) =
            [value |-> command.command, refs |-> command.refs,
             classification |-> IF command.source = "llm_semantic_inference"
                                THEN "llm_interpretation" ELSE "rule_inference"]
    BY <2>3, <2>6, Zenon DEF TopologyCommand
  <2>8. topology.components[id].command.classification = "llm_interpretation" BY <2>5, <2>7
  <2>9. QED BY <2>4, <2>8
<1>2. QED BY <1>1, InitStages, StagesStep, PTL DEF Spec

------------------------------------------------------------------------------
\* What makes an analysis fail

\* A pair has one base file.
LEMMA BaseOfPair ==
    ASSUME NEW t, IsTree(t), NEW i \in DOMAIN t, NEW j \in DOMAIN t,
           t[i].type = "compose", t[j].type = "compose", ~t[i].override, ~t[j].override,
           t[i].dir = t[j].dir, Pairs(t, t[i].dir)
    PROVE  i = j
<1> DEFINE bases == ComposeIn(t, t[i].dir, FALSE)
<1>1. t[i].override = FALSE /\ t[j].override = FALSE BY TreeParts DEF IsArtifact
<1>2. i \in bases /\ j \in bases BY <1>1, Zenon DEF ComposeIn
<1>3. Cardinality(bases) = 1 BY Zenon DEF Pairs
<1>4. bases \subseteq DOMAIN t BY Zenon DEF ComposeIn
<1> HIDE DEF bases
<1>5. IsFiniteSet(bases) BY <1>4, SequencePlaces DEF IsTree
<1>6. PICK x : bases = {x} BY <1>3, <1>5, FS_Singleton
<1>7. QED BY <1>2, <1>6

\* Two files that state a service apart from each other.
Apart(t, i, j) ==
    /\ i # j
    /\ t[i].dir = t[j].dir => ~Pairs(t, t[i].dir)
    /\ DOMAIN t[i].document \cap DOMAIN t[j].document # {}

LEMMA StatedTwiceIsApart ==
    ASSUME NEW t, IsTree(t), StatedTwice(Evidence(t))
    PROVE  \E i, j \in {k \in DOMAIN t : t[k].type = "compose" /\ t[k].document # None} : Apart(t, i, j)
<1> DEFINE ev == Evidence(t)
<1>1. PICK p \in FactsOf(ev, "compose_service"), q \in FactsOf(ev, "compose_service") :
        p # q /\ ev[p].value = ev[q].value
  BY Zenon DEF StatedTwice
<1>2. PICK i, j, k, l : i # j /\ IsStatedBy(t, i, k, ev[p]) /\ IsStatedBy(t, j, l, ev[q])
  BY <1>1, ComposeEvidence
<1>3. ev[p].type = "compose_service" /\ ev[q].type = "compose_service" BY <1>1, Zenon DEF FactsOf
<1> DEFINE name == ServicesOf(t, i)[k].name
<1>4. /\ i \in DOMAIN t /\ t[i].type = "compose" /\ k \in DOMAIN ServicesOf(t, i)
      /\ j \in DOMAIN t /\ t[j].type = "compose" /\ l \in DOMAIN ServicesOf(t, j)
      /\ ServicesOf(t, j)[l].name = name
  <2>1. ev[p].value = ServicesOf(t, i)[k].name /\ ev[q].value = ServicesOf(t, j)[l].name
    BY <1>2, <1>3, Zenon DEF IsStatedBy, IsServiceFact
  <2>2. QED BY <1>1, <1>2, <2>1, Zenon DEF IsStatedBy
<1>5. /\ Pairs(t, t[i].dir) => ~t[i].override
      /\ \E w \in DOMAIN t :
            /\ t[w].type = "compose" /\ t[w].document # None /\ t[w].dir = t[i].dir
            /\ ~Pairs(t, t[i].dir) => w = i
            /\ name \in DOMAIN t[w].document
  BY <1>4, ServiceSource, Zenon
<1>6. /\ Pairs(t, t[j].dir) => ~t[j].override
      /\ \E w \in DOMAIN t :
            /\ t[w].type = "compose" /\ t[w].document # None /\ t[w].dir = t[j].dir
            /\ ~Pairs(t, t[j].dir) => w = j
            /\ name \in DOMAIN t[w].document
  BY <1>4, ServiceSource
<1> HIDE DEF name, ev
<1>7. PICK v \in DOMAIN t :
            /\ t[v].type = "compose" /\ t[v].document # None /\ t[v].dir = t[i].dir
            /\ ~Pairs(t, t[i].dir) => v = i
            /\ name \in DOMAIN t[v].document
  BY <1>5
<1>8. PICK w \in DOMAIN t :
            /\ t[w].type = "compose" /\ t[w].document # None /\ t[w].dir = t[j].dir
            /\ ~Pairs(t, t[j].dir) => w = j
            /\ name \in DOMAIN t[w].document
  BY <1>6
<1>9. t[i].dir = t[j].dir => ~Pairs(t, t[i].dir)
  BY <1>2, <1>4, <1>5, <1>6, BaseOfPair, Zenon
<1>10. v # w BY <1>2, <1>7, <1>8, <1>9, Zenon
<1>11. Apart(t, v, w) BY <1>7, <1>8, <1>9, <1>10 DEF Apart
<1>12. QED BY <1>7, <1>8, <1>11

LEMMA TaggedIsStated ==
    ASSUME NEW t, IsTree(t), NEW p \in TaggedImages(Evidence(t))
    PROVE  \E i \in {k \in DOMAIN t : t[k].type = "compose" /\ t[k].document # None} :
              \E s \in {x \in DOMAIN t[i].document : t[i].document[x] # None} :
                 HasTag(t[i].document[s], "image")
<1> DEFINE ev == Evidence(t)
<1>1. p \in FactsOf(ev, "compose_image") /\ ev[p].type = "compose_image" /\ ev[p].value.value = MergeTag
  BY Zenon DEF TaggedImages, FactsOf
<1>2. PICK i, k : IsStatedBy(t, i, k, ev[p]) BY <1>1, ComposeEvidence
<1>3. /\ i \in DOMAIN t /\ t[i].type = "compose" /\ k \in DOMAIN ServicesOf(t, i)
      /\ ServicesOf(t, i)[k].image = MergeTag /\ ServicesOf(t, i)[k].image # None
  BY <1>1, <1>2, Zenon DEF IsStatedBy, IsServiceFact
<1> DEFINE name == ServicesOf(t, i)[k].name
<1>4. \E w \in DOMAIN t :
         /\ t[w].type = "compose" /\ t[w].document # None
         /\ name \in DOMAIN t[w].document /\ t[w].document[name] # None
         /\ HasTag(t[w].document[name], "image")
  BY <1>3, ServiceSource
<1> HIDE DEF name
<1>5. QED BY <1>4

\* An analysis fails only over what its files or its profile do wrong: a
\* service stated apart, a merge tag that no merge took, or a component
\* nobody knows.
THEOREM RaisesAreExplained == Spec => []RaisesOnlyOnRepeatedService
<1>1. Stages => RaisesOnlyOnRepeatedService
  <2> DEFINE files == {k \in DOMAIN tree : tree[k].type = "compose" /\ tree[k].document # None}
             tagged == \E i \in files : \E s \in {x \in DOMAIN tree[i].document : tree[i].document[x] # None} :
                          HasTag(tree[i].document[s], "image")
             apart == \E i, j \in files : Apart(tree, i, j)
             refused == profile # None /\ ~ DOMAIN profile.ports \subseteq {c.id : c \in ToSet(rules.components)}
  <2> SUFFICES ASSUME Stages, phase = "raised" PROVE tagged \/ apart \/ refused
    BY Zenon DEF RaisesOnlyOnRepeatedService, Apart
  <2>1. IsTree(tree) /\ evidence = Evidence(tree) BY ParsedEvidence
  <2>2. RaisedOver BY DEF Stages
  <2>3. CASE TaggedImages(evidence) # {}
    <3>1. PICK p : p \in TaggedImages(evidence) BY <2>3
    <3>2. tagged BY <2>1, <3>1, TaggedIsStated
    <3>3. QED BY <3>2
  <2>4. CASE rules = Infer(evidence) /\ Duplicated(rules, RuntimeAnalysis(evidence, rules))
    <3>1. rules # Unset BY <2>4, Zenon DEF Infer, Unset
    <3>2. StatedTwice(evidence) BY <2>4, <3>1, InferredRules, Zenon DEF Duplicated
    <3>3. apart BY <2>1, <3>2, StatedTwiceIsApart
    <3>4. QED BY <3>3
  <2>5. QED BY <2>2, <2>3, <2>4, Zenon DEF RaisedOver
<1>2. QED BY <1>1, InitStages, StagesStep, PTL DEF Spec

------------------------------------------------------------------------------
\* The ports of merged files

\* The document of a pair is the merge of its files.
LEMMA DocumentOfPair ==
    ASSUME NEW t, NEW i \in DOMAIN t, ~t[i].override, Pairs(t, t[i].dir), Document(t, i) # None,
           NEW j \in ComposeIn(t, t[i].dir, TRUE), IsTree(t)
    PROVE  /\ Document(t, i) = MergeDocuments(t[i].document, t[j].document)
           /\ t[i].document # None /\ t[j].document # None
<1> DEFINE overrides == ComposeIn(t, t[i].dir, TRUE)
           chosen == CHOOSE k \in overrides : TRUE
           over == t[chosen].document
<1>1. Cardinality(overrides) = 1 BY Zenon DEF Pairs
<1>2. overrides \subseteq DOMAIN t /\ j \in overrides BY Zenon DEF ComposeIn
<1>3. Document(t, i) = IF ~Pairs(t, t[i].dir) THEN t[i].document
                       ELSE IF t[i].override THEN <<>>
                       ELSE IF t[i].document = None \/ over = None THEN None
                       ELSE IF \E s \in DOMAIN t[i].document : t[i].document[s] = None THEN None
                       ELSE MergeDocuments(t[i].document, over)
  BY Zenon DEF Document
<1> HIDE DEF overrides
<1>4. IsFiniteSet(overrides) BY <1>2, SequencePlaces DEF IsTree
<1>5. PICK x : overrides = {x} BY <1>1, <1>4, FS_Singleton
<1>6. chosen = j BY <1>2, <1>5
<1> HIDE DEF chosen
<1>7. over = t[j].document BY <1>6
<1> HIDE DEF over
<1>8. Document(t, i) = MergeDocuments(t[i].document, over) /\ t[i].document # None /\ over # None
  BY <1>3, Zenon
<1>9. QED BY <1>7, <1>8

HasPorts(raw) == raw # None /\ "ports" \in DOMAIN raw /\ raw["ports"].tag = "plain"

\* Two plain lists of ports are merged entry by entry.
LEMMA MergedPortsOfService ==
    ASSUME NEW base, NEW over, HasPorts(base), HasPorts(over)
    PROVE  /\ "ports" \in DOMAIN MergeService(base, over)
           /\ MergeService(base, over)["ports"].value = MergedPorts(base["ports"].value, over["ports"].value)
<1> DEFINE keys == {k \in DOMAIN base \cup DOMAIN over : k \in DOMAIN over => over[k].tag # "reset"}
           Merged(k) == IF k \notin DOMAIN over THEN base[k]
                        ELSE IF over[k].tag = "override" \/ k \notin DOMAIN base THEN Plain(over[k].value)
                        ELSE IF base[k].tag = "plain" THEN Plain(MergedValue(k, base[k].value, over[k].value))
                        ELSE IF k \in ListedKeys THEN base[k]
                        ELSE over[k]
<1>1. MergeService(base, over) = [k \in keys |-> Merged(k)] BY Zenon DEF MergeService
<1>2. "ports" \in keys BY DEF HasPorts
<1> HIDE DEF keys
<1>3. "ports" \in DOMAIN MergeService(base, over) /\ MergeService(base, over)["ports"] = Merged("ports")
  BY <1>1, <1>2, Zenon
<1> DEFINE b == base["ports"].value
           o == over["ports"].value
<1>4. Merged("ports") = Plain(MergedValue("ports", b, o))
  BY DEF HasPorts
<1>5. MergedValue("ports", b, o) = MergedPorts(b, o) BY DEF MergedValue
<1> HIDE DEF b, o
<1>6. Plain(MergedPorts(b, o)).value = MergedPorts(b, o) BY DEF Plain, Tagged
<1>7. QED BY <1>3, <1>4, <1>5, <1>6 DEF b, o

\* The services of a merged document have the ports of both files.
LEMMA ServiceOfPair ==
    ASSUME NEW t, IsTree(t), NEW i \in DOMAIN t, t[i].type = "compose", ~t[i].override,
           Pairs(t, t[i].dir), ~Unparsable(Document(t, i)),
           NEW j \in ComposeIn(t, t[i].dir, TRUE),
           NEW s \in DOMAIN t[i].document \cap DOMAIN t[j].document,
           HasPorts(t[i].document[s]), HasPorts(t[j].document[s])
    PROVE  \E k \in DOMAIN ServicesOf(t, i) :
              /\ ServicesOf(t, i)[k].name = s
              /\ ContainersOf(t[i].document[s]["ports"].value) \cup ContainersOf(t[j].document[s]["ports"].value)
                    \subseteq ContainersOf(ServicesOf(t, i)[k].ports)
<1> DEFINE base == t[i].document
           over == t[j].document
           document == Document(t, i)
<1>1. document # None BY DEF Unparsable
<1>2. document = MergeDocuments(base, over) /\ base # None /\ over # None
  BY <1>1, DocumentOfPair
<1>3. j \in DOMAIN t /\ t[j].type = "compose" BY Zenon DEF ComposeIn
<1>4. IsDocument(base) /\ IsDocument(over) BY <1>2, <1>3, TreeParts DEF IsArtifact
<1>5. s \in DOMAIN base /\ s \in DOMAIN over /\ HasPorts(base[s]) /\ HasPorts(over[s]) OBVIOUS
<1>6. \A k \in DOMAIN ServicesOf(t, i) :
          ServicesOf(t, i)[k] = ParseService(ServicesOf(t, i)[k].name, document[ServicesOf(t, i)[k].name])
  BY ServicesOfTree
<1>7. \A x \in DOMAIN document : \E k \in DOMAIN ServicesOf(t, i) : ServicesOf(t, i)[k].name = x
  BY ServicesOfTree
<1> HIDE DEF base, over, document
<1>8. s \in DOMAIN document /\ document[s] = MergeService(base[s], over[s])
  <2> DEFINE names == {x \in DOMAIN base \cup DOMAIN over : x \in DOMAIN over => over[x] # None}
  <2>1. document = [x \in names |-> IF x \notin DOMAIN over THEN base[x]
                        ELSE MergeService(IF x \in DOMAIN base THEN base[x] ELSE <<>>, over[x])]
    BY <1>2, Zenon DEF MergeDocuments
  <2>2. s \in names BY <1>5 DEF HasPorts
  <2> HIDE DEF names
  <2>3. QED BY <1>5, <2>1, <2>2
<1>9. PICK k \in DOMAIN ServicesOf(t, i) : ServicesOf(t, i)[k].name = s BY <1>7, <1>8
<1>10. ServicesOf(t, i)[k] = ParseService(s, document[s]) BY <1>6, <1>9
<1> DEFINE b == base[s]["ports"].value
           o == over[s]["ports"].value
<1>11. IsSequence(b) /\ IsSequence(o)
  BY <1>4, <1>5 DEF IsDocument, HasPorts, IsValue
<1>12. "ports" \in DOMAIN document[s] /\ document[s]["ports"].value = MergedPorts(b, o)
  BY <1>5, <1>8, MergedPortsOfService
<1> HIDE DEF b, o
<1>13. ServicesOf(t, i)[k].ports = MergedPorts(b, o)
  <2>1. ParseService(s, document[s]).ports = Key(document[s], "ports", <<>>) BY DEF ParseService
  <2>2. QED BY <1>10, <1>12, <2>1 DEF Key
<1>14. ContainersOf(b) \cup ContainersOf(o) \subseteq ContainersOf(ServicesOf(t, i)[k].ports)
  BY <1>11, <1>13, MergedPortsKeep
<1>15. QED BY <1>9, <1>14 DEF b, o, base, over

\* What a base file and its override both list stays, for every pair.
THEOREM MergedPortsAreKept == Spec => []MergedPortsSurvive
<1>1. Stages => MergedPortsSurvive
  <2> SUFFICES ASSUME Stages, rules # Unset, NEW i \in DOMAIN tree,
                      tree[i].type = "compose", ~tree[i].override, Pairs(tree, tree[i].dir),
                      ~Unparsable(Document(tree, i)),
                      NEW j \in ComposeIn(tree, tree[i].dir, TRUE),
                      NEW s \in DOMAIN tree[i].document \cap DOMAIN tree[j].document,
                      HasPorts(tree[i].document[s]), HasPorts(tree[j].document[s]),
                      NEW n \in ContainersOf(tree[i].document[s]["ports"].value)
                                \cup ContainersOf(tree[j].document[s]["ports"].value), n # None
               PROVE  n \in PortsOf(rules, <<s>>)
    BY Zenon DEF MergedPortsSurvive, HasPorts, ContainersOf
  <2>1. IsTree(tree) /\ evidence = Evidence(tree) BY InferredRules
  <2>2. PICK k \in DOMAIN ServicesOf(tree, i) :
          /\ ServicesOf(tree, i)[k].name = s
          /\ n \in ContainersOf(ServicesOf(tree, i)[k].ports)
    BY <2>1, ServiceOfPair
  <2>3. PICK port \in ToSet(ServicesOf(tree, i)[k].ports) : n = Number(port.container)
    BY <2>2 DEF ContainersOf
  <2>4. PICK p \in FactsOf(evidence, "compose_port") :
          evidence[p].value.service = s /\ evidence[p].value.value = n
    BY <2>1, <2>2, <2>3, ComposeEvidence
  <2>5. PICK c \in ToSet(rules.ports) : c.id = <<s>> /\ c.port = n
    BY <2>4, InferredPorts
  <2>6. QED BY <2>5 DEF PortsOf
<1>2. QED BY <1>1, InitStages, StagesStep, PTL DEF Spec

------------------------------------------------------------------------------
\* The two readings of the candidates

\* No command is the absence of one: None is no command of the reconciliation
\* and no command of the topology, with its fields in the order of either of
\* the definitions that write one.
NoneIsNoCommand ==
    /\ \A command, source, refs : None # [command |-> command, source |-> source, refs |-> refs]
    /\ \A value, classification, refs :
          None # [value |-> value, classification |-> classification, refs |-> refs]
    /\ \A value, classification, refs :
          None # [value |-> value, refs |-> refs, classification |-> classification]

\* As many members as places, when each place has its own.
Numbers(S, T, f) ==
    /\ f \in [S -> T]
    /\ \A x, y \in S : f[x] = f[y] => x = y
    /\ \A z \in T : \E x \in S : f[x] = z

LEMMA SameCount ==
    ASSUME NEW S, NEW T, NEW U, IsFiniteSet(S), NEW f, Numbers(S, T, f), NEW g, Numbers(S, U, g)
    PROVE  /\ IsFiniteSet(T) /\ IsFiniteSet(U)
           /\ Cardinality(T) \in Nat /\ Cardinality(T) = Cardinality(U)
<1>1. f \in Bijection(S, T) BY DEF Numbers, Bijection, Injection, IsInjective, Surjection
<1>2. g \in Bijection(S, U) BY DEF Numbers, Bijection, Injection, IsInjective, Surjection
<1>3. ExistsBijection(S, T) /\ ExistsBijection(S, U) BY <1>1, <1>2 DEF ExistsBijection
<1>4. /\ IsFiniteSet(T) /\ Cardinality(T) = Cardinality(S)
      /\ IsFiniteSet(U) /\ Cardinality(U) = Cardinality(S)
  BY <1>3, FS_Bijection
<1>5. QED BY <1>4, FS_CardinalityType

\* The ports of the topology are the ports of the candidates, each once.
LEMMA PortsOfTopology ==
    ASSUME NEW candidates, IsSequence(candidates.ports), NEW id
    PROVE  /\ {p.value : p \in TopologyPorts(candidates, id)} = PortsOf(candidates, id)
           /\ Cardinality(TopologyPorts(candidates, id)) = Cardinality(PortsOf(candidates, id))
           /\ Cardinality(PortsOf(candidates, id)) \in Nat /\ IsFiniteSet(PortsOf(candidates, id))
           /\ \A p \in TopologyPorts(candidates, id) :
                 \E c \in ToSet(candidates.ports) : c.id = id /\ p.value = c.port /\ p.refs = c.refs
<1> DEFINE ports == Of(candidates.ports, id)
           firsts == {k \in DOMAIN ports : \A j \in 1..(k - 1) : ports[j].port # ports[k].port}
           Kept(k) == [value |-> ports[k].port, refs |-> ports[k].refs]
           T == TopologyPorts(candidates, id)
           U == PortsOf(candidates, id)
<1>1. IsSequence(ports) /\ ToSet(ports) = {c \in ToSet(candidates.ports) : c.id = id}
  BY OfComponent
<1>2. T = {Kept(k) : k \in firsts} BY Zenon DEF TopologyPorts
<1>3. U = {c.port : c \in ToSet(ports)} BY <1>1 DEF PortsOf
<1> HIDE DEF ports, T, U
<1>4. /\ DOMAIN ports = 1..Len(ports) /\ Len(ports) \in Nat
      /\ firsts \in SUBSET Nat /\ IsFiniteSet(firsts)
      /\ \A k \in DOMAIN ports : ports[k] \in ToSet(ports)
      /\ \A c \in ToSet(ports) : \E k \in DOMAIN ports : c = ports[k]
  BY <1>1, SequencePlaces
\* Every port has its first place.
<1>5. \A z \in U : \E k \in firsts : ports[k].port = z
  <2> TAKE z \in U
  <2> DEFINE places == {k \in DOMAIN ports : ports[k].port = z}
  <2>1. places # {} BY <1>3, <1>4
  <2>2. places \in SUBSET Nat BY <1>4
  <2>3. PICK k \in places : \A j \in places : k <= j BY <2>1, <2>2, LeastNatural
  <2>4. \A j \in 1..(k - 1) : ports[j].port # ports[k].port
    <3> SUFFICES ASSUME NEW j \in 1..(k - 1), ports[j].port = ports[k].port PROVE FALSE OBVIOUS
    <3>1. k \in 1..Len(ports) BY <1>4
    <3>2. j \in 1..Len(ports) /\ ~(k <= j) BY <1>4, <3>1
    <3>3. j \in places BY <1>4, <3>2
    <3>4. QED BY <2>3, <3>2, <3>3
  <2>5. QED BY <2>3, <2>4
<1>6. \A j, k \in firsts : ports[j].port = ports[k].port => j = k
  <2> SUFFICES ASSUME NEW j \in firsts, NEW k \in firsts, ports[j].port = ports[k].port PROVE j = k
    OBVIOUS
  <2>1. j \in 1..Len(ports) /\ k \in 1..Len(ports) BY <1>4
  <2>2. j \notin 1..(k - 1) /\ k \notin 1..(j - 1) OBVIOUS
  <2>3. QED BY <1>4, <2>1, <2>2
<1>7. \A k \in firsts : ports[k].port \in U BY <1>3, <1>4
<1>8. \A k \in firsts : Kept(k).value = ports[k].port /\ Kept(k).refs = ports[k].refs OBVIOUS
<1> DEFINE f == [k \in firsts |-> Kept(k)]
           g == [k \in firsts |-> ports[k].port]
<1>9. /\ f \in [firsts -> T] /\ \A z \in T : \E k \in firsts : f[k] = z
      /\ \A k \in firsts : f[k].value = ports[k].port
  BY <1>2
<1>10. g \in [firsts -> U] /\ \A k \in firsts : g[k] = ports[k].port BY <1>7
<1>11. {p.value : p \in T} = U
  <2>1. \A k \in firsts : Kept(k) \in T BY <1>2
  <2>2. \A p \in T : \E k \in firsts : p = Kept(k) BY <1>2
  <2> HIDE DEF Kept, firsts
  <2>3. QED BY <1>5, <1>7, <1>8, <2>1, <2>2
<1>12. \A p \in T : \E c \in ToSet(candidates.ports) : c.id = id /\ p.value = c.port /\ p.refs = c.refs
  BY <1>1, <1>2, <1>4
<1> HIDE DEF f, g, firsts, Kept
<1>13. Cardinality(T) \in Nat /\ Cardinality(T) = Cardinality(U) /\ IsFiniteSet(U)
  <2>1. \A j, k \in firsts : f[j] = f[k] => j = k BY <1>6, <1>9
  <2>2. \A j, k \in firsts : g[j] = g[k] => j = k BY <1>6, <1>10
  <2>3. \A z \in U : \E k \in firsts : g[k] = z BY <1>5, <1>10
  <2>4. IsFiniteSet(firsts) /\ f \in [firsts -> T] /\ g \in [firsts -> U] BY <1>4, <1>9, <1>10
  <2>5. \A z \in T : \E k \in firsts : f[k] = z BY <1>9
  <2>6. Numbers(firsts, T, f) /\ Numbers(firsts, U, g)
    BY <2>1, <2>2, <2>3, <2>4, <2>5, Zenon DEF Numbers
  <2>7. QED BY <2>4, <2>6, SameCount, Zenon
<1>14. QED BY <1>11, <1>12, <1>13 DEF T, U

\* Without a conflict the candidates of a component have one command.
LEMMA OneWritten ==
    ASSUME NEW candidates, IsSequence(candidates.commands), NEW id, ~CommandConflict(candidates, id),
           NEW c \in ToSet(Of(candidates.commands, id)), NEW d \in ToSet(Of(candidates.commands, id))
    PROVE  c.command = d.command
<1> DEFINE stated == Of(candidates.commands, id)
           written == Written(candidates, id)
<1>1. written = {e.command : e \in ToSet(stated)} BY Zenon DEF Written
<1>2. IsSequence(stated) BY OfComponent
<1>3. IsFiniteSet(ToSet(stated))
  <2> DEFINE f == [k \in DOMAIN stated |-> stated[k]]
  <2>1. IsFiniteSet(DOMAIN stated) BY <1>2, SequencePlaces
  <2>2. f \in Surjection(DOMAIN stated, ToSet(stated)) BY <1>2, SequencePlaces DEF Surjection
  <2>3. QED BY <2>1, <2>2, FS_Surjection
<1>4. IsFiniteSet(written)
  <2> DEFINE f == [e \in ToSet(stated) |-> e.command]
  <2>1. f \in Surjection(ToSet(stated), written) BY <1>1 DEF Surjection
  <2>2. QED BY <1>3, <2>1, FS_Surjection
<1>5. Cardinality(written) <= 1 /\ Cardinality(written) \in Nat
  BY <1>4, FS_CardinalityType DEF CommandConflict
<1> HIDE DEF written
<1>6. c.command \in written /\ d.command \in written BY <1>1
<1>7. Cardinality(written) # 0 BY <1>4, <1>6, FS_EmptySet
<1>10. Cardinality(written) = 1 BY <1>5, <1>7
<1>8. PICK x : written = {x} BY <1>4, <1>10, FS_Singleton
<1>9. QED BY <1>6, <1>8

LEMMA CommandsOfTopology ==
    ASSUME Stages, Reconciled, NoneIsNoCommand, NEW id \in DOMAIN result.runtimes, ~CommandConflict(rules, id)
    PROVE  LET given == TopologyCommand(rules, result, id)
               reconciled == ReconciledCommand(rules, accepted, id)
           IN  /\ given # None <=> reconciled # None
               /\ reconciled # None => given.value = reconciled.command
<1> DEFINE stated == Of(rules.commands, id)
           given == TopologyCommand(rules, result, id)
           reconciled == ReconciledCommand(rules, accepted, id)
           found == {a \in accepted : a.id = id}
           chosen == CHOOSE a \in found : TRUE
<1>1. rules # Unset /\ result.runtimes[id].command = reconciled
  BY ReconciledRuntimes
<1>2. IsSequence(rules.commands) BY <1>1, InferredCommands
<1>3. reconciled = IF stated # <<>>
                   THEN [command |-> Last(stated).command, source |-> "dockerfile_cmd", refs |-> Last(stated).refs]
                   ELSE IF found = {} THEN None
                   ELSE [command |-> chosen.command, source |-> "llm_semantic_inference", refs |-> chosen.refs]
  BY Zenon DEF ReconciledCommand, Of
<1>4. given = IF stated # <<>> THEN
                 [value |-> stated[1].command, classification |-> "rule_inference", refs |-> stated[1].refs]
              ELSE IF reconciled # None THEN
                 [value |-> reconciled.command, refs |-> reconciled.refs,
                  classification |-> IF reconciled.source = "llm_semantic_inference"
                                     THEN "llm_interpretation" ELSE "rule_inference"]
              ELSE None
  BY <1>1, Zenon DEF TopologyCommand
<1>5. IsSequence(stated) BY <1>2, OfComponent
<1> HIDE DEF given, reconciled
<1>6. CASE stated = <<>>
  <2>1. CASE reconciled = None
    <3>1. given = None BY <1>4, <1>6, <2>1, Zenon
    <3>2. QED BY <2>1, <3>1 DEF given, reconciled
  <2>2. CASE reconciled # None
    <3>1. given = [value |-> reconciled.command, refs |-> reconciled.refs,
                   classification |-> IF reconciled.source = "llm_semantic_inference"
                                      THEN "llm_interpretation" ELSE "rule_inference"]
      BY <1>4, <1>6, <2>2
    <3>2. given.value = reconciled.command BY <3>1
    <3>3. given # None BY <3>1, Zenon DEF NoneIsNoCommand
    <3>4. QED BY <2>2, <3>2, <3>3 DEF given, reconciled
  <2>3. QED BY <2>1, <2>2 DEF given, reconciled
<1>7. CASE stated # <<>>
  <2> DEFINE first == stated[1]
             last == Last(stated)
  <2>1. first \in ToSet(stated) /\ last \in ToSet(stated)
    <3>1. Len(stated) \in Nat /\ DOMAIN stated = 1..Len(stated) /\ \A k \in DOMAIN stated : stated[k] \in ToSet(stated)
      BY <1>5, SequencePlaces
    <3>2. Len(stated) # 0 BY <1>5, <1>7 DEF IsSequence
    <3>3. 1 \in DOMAIN stated /\ Len(stated) \in DOMAIN stated BY <3>1, <3>2
    <3>4. QED BY <3>1, <3>3 DEF Last
  <2>2. first.command = last.command BY <1>2, <2>1, OneWritten, Zenon
  <2>3. /\ given = [value |-> first.command, classification |-> "rule_inference", refs |-> first.refs]
        /\ reconciled = [command |-> last.command, source |-> "dockerfile_cmd", refs |-> last.refs]
    BY <1>3, <1>4, <1>7, Zenon
  <2> HIDE DEF first, last
  <2>4. given # None /\ reconciled # None BY <2>3, Zenon DEF NoneIsNoCommand
  <2>5. given.value = first.command /\ reconciled.command = last.command BY <2>3
  <2>6. QED BY <2>2, <2>4, <2>5 DEF given, reconciled
<1>8. QED BY <1>6, <1>7

LEMMA OneIsChosen ==
    ASSUME NEW S, IsFiniteSet(S), Cardinality(S) = 1
    PROVE  (CHOOSE x \in S : TRUE) \in S
<1>1. S # {} BY FS_EmptySet
<1>2. QED BY <1>1

\* The topology an agent plans from and the intent the manifests are rendered
\* from name the same ports and commands, and are undecided together.
THEOREM TopologyAndIntentAgree ==
    ASSUME NoneIsNoCommand
    PROVE  Spec => []TopologyAgrees
<1>1. Stages => TopologyAgrees
  <2> SUFFICES ASSUME Stages, Reconciled, NEW id \in DOMAIN result.runtimes
               PROVE  LET component == topology.components[id]
                          runtime == result.runtimes[id]
                      IN  /\ Cardinality(component.ports) > 1 <=> PortQuestion(id) \in result.questions
                          /\ Cardinality(component.ports) = 1 => runtime.port \in {p.value : p \in component.ports}
                          /\ id \notin topology.conflicts =>
                                Present(component.command) # {} <=> Present(runtime.command) # {}
                          /\ (component.command # None /\ runtime.command # None) =>
                                component.command.value = runtime.command.command
    BY Zenon DEF TopologyAgrees
  <2> DEFINE component == topology.components[id]
             runtime == result.runtimes[id]
             ports == PortsOf(rules, id)
  <2>1. /\ rules # Unset /\ runtime.port = ReconciledPort(rules, id)
        /\ runtime.command = ReconciledCommand(rules, accepted, id)
        /\ result.questions = {PortQuestion(i) : i \in {k \in DOMAIN result.runtimes :
                                                           Cardinality(PortsOf(rules, k)) > 1}}
                              \cup {OpsQuestion("registry"), OpsQuestion("namespace")}
    BY ReconciledRuntimes
  <2>2. /\ component.command = TopologyCommand(rules, result, id)
        /\ component.ports = TopologyPorts(rules, id)
    <3>1. component = TopologyComponent(rules, result, id) BY TopologyOfComponent, Zenon
    <3>2. /\ TopologyComponent(rules, result, id).command = TopologyCommand(rules, result, id)
          /\ TopologyComponent(rules, result, id).ports = TopologyPorts(rules, id)
      BY TopologyFields, Zenon
    <3>3. QED BY <3>1, <3>2
  <2>3. id \in topology.conflicts <=> CommandConflict(rules, id) BY TopologyOfComponent, Zenon
  <2>4. /\ {p.value : p \in component.ports} = ports /\ IsFiniteSet(ports)
        /\ Cardinality(component.ports) = Cardinality(ports)
    BY <2>1, <2>2, InferredPorts, PortsOfTopology
  <2>5. PortQuestion(id) \in result.questions <=> Cardinality(ports) > 1
    <3>1. \A i : PortQuestion(i) = PortQuestion(id) => i = id BY DEF PortQuestion
    <3>2. PortQuestion(id) \notin {OpsQuestion("registry"), OpsQuestion("namespace")}
      BY DEF PortQuestion, OpsQuestion
    <3>3. QED BY <2>1, <3>1, <3>2
  <2>6. Cardinality(ports) = 1 => runtime.port \in ports
    BY <2>1, <2>4, OneIsChosen DEF ReconciledPort
  <2>7. id \notin topology.conflicts =>
            /\ component.command # None <=> runtime.command # None
            /\ runtime.command # None => component.command.value = runtime.command.command
    BY <2>1, <2>2, <2>3, CommandsOfTopology
  <2>8. id \in topology.conflicts => component.command = None
    BY <2>2, <2>3 DEF TopologyCommand
  <2> HIDE DEF component, runtime, ports
  <2>9. \A x : Present(x) # {} <=> x # None BY DEF Present
  <2>10. /\ Cardinality(component.ports) > 1 <=> PortQuestion(id) \in result.questions
         /\ Cardinality(component.ports) = 1 => runtime.port \in {p.value : p \in component.ports}
    BY <2>4, <2>5, <2>6
  <2>11. /\ id \notin topology.conflicts =>
               Present(component.command) # {} <=> Present(runtime.command) # {}
         /\ (component.command # None /\ runtime.command # None) =>
               component.command.value = runtime.command.command
    BY <2>7, <2>8, <2>9
  <2>12. QED BY <2>10, <2>11 DEF component, runtime
<1>2. QED BY <1>1, InitStages, StagesStep, PTL DEF Spec

------------------------------------------------------------------------------
\* Coverage

\* What the topology makes of every id, and what a cited fact does for its
\* file.
LEMMA CoverageOfTopology ==
    ASSUME Stages, Reconciled
    PROVE  /\ DOMAIN topology.coverage = FactsOf(evidence, "artifact_presence")
           /\ \A i \in DOMAIN topology.coverage : topology.coverage[i] \in {"analyzed", "coverage_gap"}
           /\ \A id \in TopologyIds(rules) :
                 \A field \in CanonicalFields(evidence, rules, TopologyComponent(rules, result, id), id) :
                    \A j \in field.refs : \A i \in DOMAIN topology.coverage :
                       SameFile(evidence[i], evidence[j]) => topology.coverage[i] = "analyzed"
<1> DEFINE fields == [id \in TopologyIds(rules) |->
                        CanonicalFields(evidence, rules, TopologyComponent(rules, result, id), id)]
           all == UNION {fields[id] : id \in DOMAIN fields}
           cited == ModuleRefs(evidence) \cup UNION {f.refs : f \in all}
           presences == FactsOf(evidence, "artifact_presence")
<1>1. topology = Topology(evidence, rules, result) BY ReconciledRuntimes
<1>2. topology.coverage = Coverage(evidence, all) BY <1>1, Zenon DEF Topology
<1>3. Coverage(evidence, all) =
        [i \in presences |-> IF \E j \in cited : SameFile(evidence[i], evidence[j])
                             THEN "analyzed" ELSE "coverage_gap"]
  BY Zenon DEF Coverage
<1>4. \A id \in TopologyIds(rules) :
        \A field \in CanonicalFields(evidence, rules, TopologyComponent(rules, result, id), id) :
           field \in all
  OBVIOUS
<1> HIDE DEF all, presences
<1>5. \A field \in all : \A j \in field.refs : j \in cited OBVIOUS
<1> HIDE DEF cited
<1>6. /\ DOMAIN topology.coverage = presences
      /\ \A i \in presences :
            topology.coverage[i] = IF \E j \in cited : SameFile(evidence[i], evidence[j])
                                   THEN "analyzed" ELSE "coverage_gap"
  BY <1>2, <1>3
<1>7. QED BY <1>4, <1>5, <1>6, Zenon DEF presences

\* A fact a component of the topology refers to is cited by its fields.
LEMMA ComponentIsCited ==
    ASSUME Stages, Reconciled, NEW id \in TopologyIds(rules),
           NEW j, \/ j \in ComponentRefs(TopologyComponent(rules, result, id))
                  \/ CommandConflict(rules, id) /\ j \in RefsOf(ToSet(Of(rules.commands, id))),
           NEW i \in DOMAIN topology.coverage, SameFile(evidence[i], evidence[j])
    PROVE  topology.coverage[i] = "analyzed"
<1> DEFINE component == TopologyComponent(rules, result, id)
           fields == CanonicalFields(evidence, rules, component, id)
           present == Field(id \o <<"present">>, "resolved", ComponentRefs(component))
           command == CommandField(rules, component, id)
<1>1. present \in fields /\ command \in fields BY Zenon DEF CanonicalFields
<1>2. present.refs = ComponentRefs(component) BY DEF Field
<1>3. CommandConflict(rules, id) => command.refs = RefsOf(ToSet(Of(rules.commands, id)))
  BY DEF CommandField, Field
<1> HIDE DEF component, present, command
<1>4. \E field \in fields : j \in field.refs BY <1>1, <1>2, <1>3 DEF component
<1>5. QED BY <1>4, CoverageOfTopology, Zenon DEF component

\* A cited fact is a fact of a file that is analyzed.
LEMMA CitedIsAnalyzed ==
    ASSUME Stages, Reconciled, NEW id \in TopologyIds(rules),
           NEW j \in DOMAIN evidence,
           \/ j \in ComponentRefs(TopologyComponent(rules, result, id))
           \/ CommandConflict(rules, id) /\ j \in RefsOf(ToSet(Of(rules.commands, id)))
    PROVE  \E k \in DOMAIN topology.coverage :
              SameFile(evidence[k], evidence[j]) /\ topology.coverage[k] = "analyzed"
<1>1. rules # Unset BY ReconciledRuntimes
<1>2. IsTree(tree) /\ evidence = Evidence(tree) BY <1>1, InferredRules
<1>3. PICK k \in FactsOf(evidence, "artifact_presence") : SameFile(evidence[k], evidence[j])
  BY <1>2, EvidenceFacts
<1>4. k \in DOMAIN topology.coverage BY CoverageOfTopology
<1>5. topology.coverage[k] = "analyzed" BY <1>3, <1>4, ComponentIsCited, Zenon
<1>6. QED BY <1>3, <1>4, <1>5

\* The first candidate of a port is cited.
LEMMA PortIsRestated ==
    ASSUME Stages, Reconciled, NEW c \in ToSet(rules.ports)
    PROVE  \E d \in ToSet(rules.ports) : \E k \in DOMAIN topology.coverage :
              /\ d.id = c.id /\ d.port = c.port
              /\ \E j \in d.refs : SameFile(evidence[k], evidence[j])
              /\ topology.coverage[k] = "analyzed"
<1> DEFINE id == c.id
           component == TopologyComponent(rules, result, id)
<1>1. rules # Unset BY ReconciledRuntimes
<1>2. IsSequence(rules.ports) /\ \A d \in ToSet(rules.ports) : \E i \in DOMAIN evidence : d.refs = {i}
  BY <1>1, InferredPorts
<1>3. id \in TopologyIds(rules) BY Zenon DEF TopologyIds
<1>4. c.port \in PortsOf(rules, id) BY DEF PortsOf
<1>5. PICK p \in TopologyPorts(rules, id) : p.value = c.port BY <1>2, <1>4, PortsOfTopology
<1>6. PICK d \in ToSet(rules.ports) : d.id = id /\ p.value = d.port /\ p.refs = d.refs
  BY <1>2, PortsOfTopology
<1>7. PICK j \in DOMAIN evidence : d.refs = {j} BY <1>2
<1>8. component.ports = TopologyPorts(rules, id) BY DEF TopologyComponent
<1> HIDE DEF component, id
<1>9. j \in ComponentRefs(component) BY <1>5, <1>6, <1>7, <1>8 DEF ComponentRefs, RefsOf
<1>10. PICK k \in DOMAIN topology.coverage : SameFile(evidence[k], evidence[j]) /\ topology.coverage[k] = "analyzed"
  BY <1>3, <1>9, CitedIsAnalyzed, Zenon DEF component
<1>11. QED BY <1>5, <1>6, <1>7, <1>10 DEF id

\* So is a candidate with the command of any candidate.
LEMMA CommandIsRestated ==
    ASSUME Stages, Reconciled, NoneIsNoCommand, NEW c \in ToSet(rules.commands)
    PROVE  \E d \in ToSet(rules.commands) : \E k \in DOMAIN topology.coverage :
              /\ d.id = c.id /\ d.command = c.command
              /\ \E j \in d.refs : SameFile(evidence[k], evidence[j])
              /\ topology.coverage[k] = "analyzed"
<1> DEFINE id == c.id
           component == TopologyComponent(rules, result, id)
           stated == Of(rules.commands, id)
           first == stated[1]
<1>1. rules # Unset BY ReconciledRuntimes
<1>2. IsSequence(rules.commands) /\ \A d \in ToSet(rules.commands) : IsCommandCandidate(evidence, rules.components, d)
  BY <1>1, InferredCommands
<1>3. \A d \in ToSet(rules.commands) : d.refs = {d.fact} /\ d.fact \in DOMAIN evidence
  BY <1>2, Zenon DEF IsCommandCandidate, FactsOf
<1>4. id \in TopologyIds(rules) BY Zenon DEF TopologyIds
<1>5. /\ IsSequence(stated) /\ stated # <<>>
      /\ ToSet(stated) = {d \in ToSet(rules.commands) : d.id = id}
  BY <1>2, OfComponent
<1> HIDE DEF stated
<1>6. c \in ToSet(stated) BY <1>5
\* One of them is cited: in a conflict all are, else the first.
<1>7. \E d \in ToSet(stated) : /\ d.command = c.command
                               /\ \/ d.fact \in ComponentRefs(component)
                                  \/ CommandConflict(rules, id) /\ d.fact \in RefsOf(ToSet(stated))
  <2>1. CASE CommandConflict(rules, id)
    <3>1. c.fact \in RefsOf(ToSet(stated)) BY <1>3, <1>6 DEF RefsOf
    <3>2. QED BY <1>6, <2>1, <3>1
  <2>2. CASE ~CommandConflict(rules, id)
    <3>1. first \in ToSet(stated)
      <4>1. Len(stated) \in Nat /\ DOMAIN stated = 1..Len(stated) /\ \A k \in DOMAIN stated : stated[k] \in ToSet(stated)
        BY <1>5, SequencePlaces
      <4>2. Len(stated) # 0 BY <1>5 DEF IsSequence
      <4>3. 1 \in DOMAIN stated BY <4>1, <4>2
      <4>4. QED BY <4>1, <4>3
    <3>2. first.command = c.command BY <1>2, <1>6, <2>2, <3>1, OneWritten, Zenon DEF stated
    <3>3. component.command =
            [value |-> first.command, classification |-> "rule_inference", refs |-> first.refs]
      <4>1. component.command = TopologyCommand(rules, result, id) BY DEF TopologyComponent
      <4>2. QED BY <1>5, <2>2, <4>1, Zenon DEF TopologyCommand, stated
    <3> HIDE DEF first, component
    <3>4. component.command # None /\ component.command.refs = first.refs
      <4>1. component.command # None BY <3>3, Zenon DEF NoneIsNoCommand
      <4>2. QED BY <3>3, <4>1
    <3>5. first.fact \in ComponentRefs(component)
      <4>1. first.fact \in first.refs BY <1>3, <1>5, <3>1
      <4>2. QED BY <3>4, <4>1 DEF ComponentRefs, RefsOf, Present
    <3>6. QED BY <3>1, <3>2, <3>5 DEF component
  <2>3. QED BY <2>1, <2>2
<1>8. PICK d \in ToSet(stated) : /\ d.command = c.command
                                 /\ \/ d.fact \in ComponentRefs(component)
                                    \/ CommandConflict(rules, id) /\ d.fact \in RefsOf(ToSet(stated))
  BY <1>7
<1>9. d \in ToSet(rules.commands) /\ d.id = id BY <1>5
<1>10. PICK k \in DOMAIN topology.coverage :
         SameFile(evidence[k], evidence[d.fact]) /\ topology.coverage[k] = "analyzed"
  BY <1>3, <1>4, <1>8, <1>9, CitedIsAnalyzed, Zenon DEF stated
<1>11. d.fact \in d.refs BY <1>3, <1>9
<1>12. QED BY <1>8, <1>9, <1>10, <1>11

\* A fact of a component or of a role is always cited.
LEMMA ComponentFactIsCited ==
    ASSUME Stages, Reconciled, NEW c \in ToSet(rules.components) \cup ToSet(rules.roles), NEW j \in c.refs,
           NEW i \in DOMAIN topology.coverage, SameFile(evidence[i], evidence[j])
    PROVE  topology.coverage[i] = "analyzed"
<1> DEFINE id == c.id
           component == TopologyComponent(rules, result, id)
           about == ToSet(Of(rules.components, id)) \cup ToSet(Of(rules.roles, id))
<1>1. rules # Unset BY ReconciledRuntimes
<1>2. IsSequence(rules.components) /\ IsSequence(rules.roles)
  BY <1>1, InferredRules, InferredRuntimes DEF IsRooted
<1>3. id \in TopologyIds(rules) BY Zenon DEF TopologyIds
<1>4. c \in about BY <1>2, OfComponent
<1>5. component.refs = RefsOf(about) BY DEF TopologyComponent
<1> HIDE DEF about, component
<1>6. j \in RefsOf(about) BY <1>4, Zenon DEF RefsOf
<1>7. j \in ComponentRefs(component) BY <1>5, <1>6, Zenon DEF ComponentRefs
<1>8. QED BY <1>3, <1>7, ComponentIsCited, Zenon DEF component

\* A coverage gap hides no port, no command and no component: what a file
\* nobody cites states is stated by a file that is analyzed.
THEOREM GapsHideNothing ==
    ASSUME NoneIsNoCommand
    PROVE  Spec => []GapsAreRestatements
<1>1. Stages => GapsAreRestatements
  <2> SUFFICES ASSUME Stages, Reconciled,
                      NEW i \in {k \in DOMAIN topology.coverage : topology.coverage[k] = "coverage_gap"}
               PROVE  /\ \A c \in ToSet(rules.ports) :
                            \E d \in ToSet(rules.ports) : \E k \in DOMAIN topology.coverage :
                               /\ d.id = c.id /\ d.port = c.port
                               /\ \E j \in d.refs : SameFile(evidence[k], evidence[j])
                               /\ topology.coverage[k] = "analyzed"
                      /\ \A c \in ToSet(rules.commands) :
                            \E d \in ToSet(rules.commands) : \E k \in DOMAIN topology.coverage :
                               /\ d.id = c.id /\ d.command = c.command
                               /\ \E j \in d.refs : SameFile(evidence[k], evidence[j])
                               /\ topology.coverage[k] = "analyzed"
                      /\ ~ \E c \in ToSet(rules.components) \cup ToSet(rules.roles) :
                              \E j \in c.refs : SameFile(evidence[i], evidence[j])
    BY DEF GapsAreRestatements
  <2>1. \A c \in ToSet(rules.ports) :
           \E d \in ToSet(rules.ports) : \E k \in DOMAIN topology.coverage :
              /\ d.id = c.id /\ d.port = c.port
              /\ \E j \in d.refs : SameFile(evidence[k], evidence[j])
              /\ topology.coverage[k] = "analyzed"
    BY PortIsRestated
  <2>2. \A c \in ToSet(rules.commands) :
           \E d \in ToSet(rules.commands) : \E k \in DOMAIN topology.coverage :
              /\ d.id = c.id /\ d.command = c.command
              /\ \E j \in d.refs : SameFile(evidence[k], evidence[j])
              /\ topology.coverage[k] = "analyzed"
    BY CommandIsRestated
  <2>3. topology.coverage[i] # "analyzed" /\ i \in DOMAIN topology.coverage OBVIOUS
  <2>4. ~ \E c \in ToSet(rules.components) \cup ToSet(rules.roles) :
             \E j \in c.refs : SameFile(evidence[i], evidence[j])
    BY <2>3, ComponentFactIsCited, Zenon
  <2>5. QED BY <2>1, <2>2, <2>4
<1>2. QED BY <1>1, InitStages, StagesStep, PTL DEF Spec

=================================================================================
