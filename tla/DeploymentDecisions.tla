-------------------------- MODULE DeploymentDecisions --------------------------
(***************************************************************************)
(* What k8s_agent decides about a deployment, as pure operators: the       *)
(* fields an analysed tree puts up for decision (analysis/intent_builder), *)
(* which of them policy lets pass (policy/engine), the questions asked     *)
(* (questions/manager), what an answers file must hold (questions/answers),*)
(* the merge of decisions into a profile and its holds (profile/builder),  *)
(* and what the renderer reads from it (render/renderer).                  *)
(*                                                                         *)
(* A proposed value that is not a command is "proposal": nothing looks     *)
(* into it.  The run-level candidate /cluster_validation is left out: it   *)
(* is never asked, held or rendered.                                       *)
(***************************************************************************)
EXTENDS Integers, FiniteSets, Sequences
LOCAL INSTANCE Functions

CONSTANTS
    Names,          \* names of directories and services, in sorted order
    Components,     \* component ids: the names in a path, one for a service
    Commands,       \* runtime commands
    Secrets,        \* names of secret-like environment variables
    Layouts,        \* ways the scan numbers its evidence, 0 for "no evidence"
    Target          \* "development", "staging" or "production"

None == "none"

\* The name is what is left of an id once it is cut at the first slash.
Segments == Range(Names)

ASSUME NamesAssumption == Names \in Seq(STRING) /\ IsInjective(Names)
ASSUME ComponentsAssumption == Components \subseteq Seq(Segments) \ {<<>>}
ASSUME TextAssumption == None \notin Secrets /\ None \notin Commands
                         /\ {"skip", "proposal"} \cap Commands = {}
ASSUME LayoutsAssumption == Layouts \subseteq Nat \ {0}

\* What the analysis says of a component.  "gap": the runtime command resolver
\* leaves a task to the semantic agent, also where a rule has found one command
\* (a shell script as entrypoint).
Fact == [role : {"application", "dependency", "infrastructure"},
         commands : SUBSET Commands, gap : BOOLEAN,
         port : {None, "medium", "high"}, secrets : SUBSET Secrets, layout : Layouts]

\* ApplicationTopology: the facts of its components.
IsTopology(facts) == DOMAIN facts \subseteq Components /\ \A c \in DOMAIN facts : facts[c] \in Fact

------------------------------------------------------------------------------
\* Fields and the candidates for them

CONFIRMATION_KINDS == {"external_exposure", "secret_ref", "pvc_size", "resource_requests",
                       "readiness_probe", "liveness_probe", "runtime_command"}
BLOCKED_KINDS == {"stateful_workload"}
PortKinds == {"service", "external_exposure", "readiness_probe", "liveness_probe"}
Kinds == CONFIRMATION_KINDS \cup BLOCKED_KINDS \cup {"deployment", "replicas", "service"}

\* A candidate is known by its field.  A conflict between commands is asked
\* about under a field of its own, /components/X/runtime/command.
Conflict == "conflicting_runtime_commands"
Field == [component : Components, kind : Kinds \cup {Conflict}, secret : Secrets \cup {None}]

FieldOf(c, kind) == [component |-> c, kind |-> kind, secret |-> None]

\* The two segments that IntentBuilder and QuestionManager put behind the id.
Suffix(f) ==
    CASE f.kind \in {"deployment", "replicas"} -> <<"workload", f.kind>>
      [] f.kind = "runtime_command" -> <<"workload", "command">>
      [] f.kind = "stateful_workload" -> <<"workload", "stateful">>
      [] f.kind = "service" -> <<"service", "port">>
      [] f.kind = "external_exposure" -> <<"network", "external_exposure">>
      [] f.kind = "readiness_probe" -> <<"probes", "readiness">>
      [] f.kind = "liveness_probe" -> <<"probes", "liveness">>
      [] f.kind = "resource_requests" -> <<"resources", "requests">>
      [] f.kind = "pvc_size" -> <<"storage", "pvc_size">>
      [] f.kind = "secret_ref" -> <<"secrets", f.secret>>
      [] f.kind = Conflict -> <<"runtime", "command">>

\* field_path: decisions, questions and values are known by it.  The model keeps
\* the field, since every path is of one field only (PathsAreDistinct of
\* ProfileDecisionsProofs); the renderer takes the path apart again.
Path(f) == <<"components">> \o f.component \o Suffix(f)

Unambiguous(fact) == \E command \in fact.commands : fact.commands = {command}
Conflicting(fact) == fact.commands # {} /\ ~Unambiguous(fact)

\* The fields whose candidates cite evidence; the others are policy defaults.
Evidenced == {"runtime_command", "service", "external_exposure", "secret_ref",
              "stateful_workload", Conflict}

\* IntentBuilder._component_candidates
Proposed(f, fact) ==
    \/ /\ fact.role = "application" /\ f.secret = None
       /\ \/ f.kind \in {"deployment", "replicas", "resource_requests"}
          \/ f.kind = "runtime_command" /\ Unambiguous(fact)
          \/ f.kind \in PortKinds /\ fact.port # None
    \/ /\ fact.role = "dependency" /\ f.secret = None
       /\ f.kind \in {"stateful_workload", "pvc_size"}
    \/ f.kind = "secret_ref" /\ f.secret \in fact.secrets

Intent(facts) ==
    {f \in Field : f.component \in DOMAIN facts /\ Proposed(f, facts[f.component])}

\* PolicyEngine.evaluate and replica_default
Disposition(f, fact) ==
    IF f.kind \in BLOCKED_KINDS THEN "blocked"
    ELSE IF f.kind \in CONFIRMATION_KINDS THEN "requires_confirmation"
    ELSE IF f.kind = "service" /\ fact.port # "high" THEN "requires_confirmation"
    ELSE IF f.kind = "replicas" /\ Target = "production" THEN "requires_confirmation"
    ELSE "auto_confirm"

WithDisposition(disposition, facts) ==
    {f \in Intent(facts) : Disposition(f, facts[f.component]) = disposition}

------------------------------------------------------------------------------
\* Questions and answers

\* AgentPlanner._semantic_tasks, the tasks for a conflict
ConflictFields(facts) ==
    {FieldOf(c, Conflict) : c \in {d \in DOMAIN facts : Conflicting(facts[d])}}

\* Mutant: policy defaults, which cite no evidence, are taken for settled.
AskedWithEvidence(facts) ==
    {f \in WithDisposition("requires_confirmation", facts) : f.kind \in Evidenced}
      \cup WithDisposition("blocked", facts)
      \cup ConflictFields(facts)

\* QuestionManager.build
Asked(facts) ==
    WithDisposition("requires_confirmation", facts)
      \cup WithDisposition("blocked", facts)
      \cup ConflictFields(facts)

\* candidate.value, None for a conflict
CandidateValue(f, fact) ==
    CASE f.kind = "runtime_command" -> CHOOSE command \in fact.commands : TRUE
      [] f.kind = Conflict -> None
      [] OTHER -> "proposal"

\* _question: the id is a hash of the reason, the field, the evidence and the
\* options.  Reason and options follow from the field; the value is not in it.
QuestionId(f, fact) ==
    [field |-> f, layout |-> IF f.kind \in Evidenced THEN fact.layout ELSE 0]

Questions(facts) ==
    {[id |-> QuestionId(f, facts[f.component]), field |-> f,
      value |-> CandidateValue(f, facts[f.component])] : f \in Asked(facts)}

\* _options_for
Options(kind) ==
    CASE kind = "external_exposure" -> {"private", "public"}
      [] kind = "secret_ref" -> {"existing_secret", "block"}
      [] kind = "pvc_size" -> {"1Gi", "custom"}
      [] kind = "stateful_workload" -> {"stop", "deployment_pvc"}
      [] kind = Conflict -> {"use_first", "use_second", "defer"}
      [] OTHER -> {"confirm", "skip"}

\* Mutant: a required answer may be missing.
AcceptedPartly(answers, questions) ==
    /\ DOMAIN answers \subseteq {q.id : q \in questions}
    /\ \A q \in questions :
            q.id \in DOMAIN answers => answers[q.id] \in Options(q.field.kind)

\* AnswerLoader.load: no unknown question, none missing (every question is
\* required), no invalid option
Accepted(answers, questions) ==
    /\ DOMAIN answers \subseteq {q.id : q \in questions}
    /\ {q.id : q \in questions} \subseteq DOMAIN answers
    /\ \A q \in questions :
            q.id \in DOMAIN answers => answers[q.id] \in Options(q.field.kind)

\* _answer_value
AnswerValue(q, option) ==
    IF option \in {"confirm", "existing_secret"} THEN q.value ELSE option

------------------------------------------------------------------------------
\* Decisions and the profile

Texts == {"proposal", None} \cup Commands
           \cup (UNION {Options(kind) : kind \in Kinds \cup {Conflict}})
Decision == [field : Field, value : Texts, by : {"user", "llm", "policy", "rule"}]

\* QuestionManager.to_decisions
UserDecisions(questions, answers) ==
    {[field |-> q.field, value |-> AnswerValue(q, answers[q.id]), by |-> "user"] :
        q \in {r \in questions : r.id \in DOMAIN answers}}

\* DeploymentProfileBuilder._intent_decisions
IntentDecisions(facts) ==
    {[field |-> f, value |-> CandidateValue(f, facts[f.component]),
      by |-> IF f.kind = "replicas" THEN "policy" ELSE "rule"] :
        f \in WithDisposition("auto_confirm", facts)}

\* The semantic executor runs if the plan has a semantic_action; it then goes
\* through every task the command resolver leaves.
NeedsSemantics(facts) ==
    \E c \in DOMAIN facts :
        \/ Conflicting(facts[c])
        \/ facts[c].role = "application" /\ facts[c].commands = {}

\* _semantic_profile_decisions: what the agents may have resolved, one command
\* for some of the tasks; nothing if no model is configured.
SemanticDecisions(facts) ==
    {{}} \cup
    IF NeedsSemantics(facts)
    THEN {{[field |-> FieldOf(c, "runtime_command"), value |-> resolved[c], by |-> "llm"] :
              c \in DOMAIN resolved} :
            resolved \in UNION {[cs -> Commands] :
                cs \in SUBSET {c \in DOMAIN facts : facts[c].gap}}}
    ELSE {}

\* Mutant: a verified command of the model counts as a confirmed fact above all.
PriorityOfModel(decision) ==
    CASE decision.by = "llm" -> 110
      [] decision.by = "user" -> 100
      [] decision.by = "policy" -> 60
      [] OTHER -> 50

\* _priority
Priority(decision) ==
    CASE decision.by = "user" -> 100
      [] decision.by = "llm" -> 70
      [] decision.by = "policy" -> 60
      [] OTHER -> 50

\* _merge_decisions
Merge(decisions) ==
    [f \in {d.field : d \in decisions} |->
        CHOOSE d \in decisions :
            /\ d.field = f
            /\ \A e \in decisions : e.field = f => Priority(e) <= Priority(d)]

\* _holds
Unresolved(facts, values) ==
    {f \in WithDisposition("requires_confirmation", facts) : f \notin DOMAIN values}
\* Mutant: a decision lifts a blocked candidate as it does an unresolved one.
BlockedUndecided(facts, values) ==
    {f \in WithDisposition("blocked", facts) : f \notin DOMAIN values}

Blocked(facts, values) == WithDisposition("blocked", facts)

\* Mutant: a blocked candidate does not keep a profile from being rendered.
BuildPastBlocked(facts, semantic, users) ==
    LET values == Merge(IntentDecisions(facts) \cup semantic \cup users)
    IN  [values |-> values,
         unresolved |-> Unresolved(facts, values), blocked |-> Blocked(facts, values),
         renderable |-> Unresolved(facts, values) = {},
         facts |-> facts, users |-> users]

\* DeploymentProfileBuilder.build, always without a previous profile.  "facts"
\* and "users" record what it was built from.
Build(facts, semantic, users) ==
    LET values == Merge(IntentDecisions(facts) \cup semantic \cup users)
    IN  [values |-> values,
         unresolved |-> Unresolved(facts, values), blocked |-> Blocked(facts, values),
         renderable |-> Unresolved(facts, values) = {} /\ Blocked(facts, values) = {},
         facts |-> facts, users |-> users]

------------------------------------------------------------------------------
\* Rendering

\* _components: a component is whatever stands between the second slash and the
\* third, which of an id with a slash is the first name only.
RenderedComponents(profile) == {Path(f)[2] : f \in DOMAIN profile.values}

\* _field_paths, of the fields that have no secret.  Its other path has three
\* segments, which no field has.
FieldsAt(values, name, kind) ==
    {f \in DOMAIN values : Path(f) = Path(FieldOf(<<name>>, kind))}

\* _value
Value(values, name, kind) ==
    LET found == FieldsAt(values, name, kind)
    IN  IF found = {} THEN None ELSE values[CHOOSE f \in found : TRUE].value

\* _value of "secret_ref": the paths with a prefix.  The first in sorted order
\* (here: the chosen one) is referenced if its value names a secret.
SecretFields(values, name) ==
    {f \in DOMAIN values : SubSeq(Path(f), 1, 3) = <<"components", name, "secrets">>}
SecretName(values, name) ==
    IF SecretFields(values, name) = {} THEN None
    ELSE LET first == CHOOSE f \in SecretFields(values, name) : TRUE
         IN  IF first.kind = "secret_ref" /\ values[first].value = "proposal"
             THEN first.secret ELSE None

\* _resources_for_component: of a Deployment its replicas (None is one), command,
\* secret and probes, and whether a Service and an Ingress go with it.
\* build_deployment adds probes wherever there is a port.
Resources(values, name) ==
    LET hasPort == Value(values, name, "service") = "proposal"
    IN  [replicas |-> Value(values, name, "replicas"),
         command |-> Value(values, name, "runtime_command"),
         secret |-> SecretName(values, name),
         probes |-> hasPort,
         service |-> hasPort,
         ingress |-> hasPort /\ Value(values, name, "external_exposure") = "public"]

Resource == [replicas : Texts, command : Texts, secret : Secrets \cup {None},
             probes : BOOLEAN, service : BOOLEAN, ingress : BOOLEAN]

\* int("skip") raises.
Unusable(profile) ==
    {name \in RenderedComponents(profile) : Value(profile.values, name, "replicas") = "skip"}
==============================================================================
