---------------------------- MODULE ProfileDecisions ----------------------------
(***************************************************************************)
(* From an analysed tree to manifests: how the commands of k8s_agent carry *)
(* questions, answers, the profile and manifests through a run directory.  *)
(*                                                                         *)
(* The run followed is the newest one: prepare and analyze begin in a      *)
(* fresh directory.  The answers file belongs to the user and outlives it. *)
(* Commands come one after the other (RunLifecycle has them overlap), any  *)
(* of them may be killed, and the tree may be edited.                      *)
(* Left out because RunLifecycle has it: how the source is acquired, and   *)
(* when a resumed run may reuse its analysis (here: whenever there is one).*)
(***************************************************************************)
EXTENDS DeploymentDecisions
LOCAL INSTANCE TLC
LOCAL INSTANCE FiniteSetsExt

CONSTANTS
    Topologies,     \* what the analysis may find the tree to be
    MaxCommands,    \* bound: commands the user types
    MaxFiles,       \* bound: answers files the user writes
    MaxEdits,       \* bound: edits of the tree
    MaxCrashes      \* bound: commands that are killed

\* <<>> stands for a missing analysis: a tree without components is left out.
ASSUME TopologiesAssumption == \A facts \in Topologies : IsTopology(facts) /\ facts # <<>>
ASSUME BoundsAssumption == /\ MaxCommands \in Nat /\ MaxFiles \in Nat
                           /\ MaxEdits \in Nat /\ MaxCrashes \in Nat

VARIABLES
    tree,           \* what an analysis would find now
    \* the run directory
    state,          \* run.yaml; CREATED also when there is no run
    analysis,       \* analysis/04-application-topology.yaml, <<>> when missing
    questions,      \* agent/questions.yaml
    profile,        \* profile/deployment-profile.yaml
    manifests,      \* generated/, by the name of a Deployment
    \* the command that runs
    command, step, answering, draft, result,
    \* the user
    answers,        \* the answers file: question id -> option; <<>> when missing
    left            \* what user and environment may still do

directory == <<state, analysis, questions, profile, manifests>>
job == <<command, step, answering, draft, result>>
vars == <<tree, directory, job, answers, left>>

NoProfile == [values |-> <<>>, unresolved |-> {}, blocked |-> {}, renderable |-> FALSE,
              facts |-> <<>>, users |-> {}]

States == {"CREATED", "ANALYZING", "WAITING_FOR_USER", "READY", "BLOCKED", "FAILED"}
Steps == {"idle", "analyze", "decide", "render", "save_questions", "save_profile", "finish"}

Init ==
    /\ tree \in Topologies
    /\ state = "CREATED" /\ analysis = <<>> /\ questions = {} /\ profile = NoProfile
    /\ manifests = <<>>
    /\ command = "none" /\ step = "idle" /\ answering = FALSE
    /\ draft = NoProfile /\ result = "FAILED"
    /\ answers = <<>>
    /\ left = [commands |-> MaxCommands, files |-> MaxFiles, edits |-> MaxEdits,
               crashes |-> MaxCrashes]

------------------------------------------------------------------------------
\* Commands

Type(name) ==
    /\ step = "idle" /\ left.commands > 0
    /\ left' = [left EXCEPT !.commands = @ - 1]
    /\ command' = name
    /\ UNCHANGED <<tree, answers>>

\* prepare, with --non-interactive and an answers file or without, and analyze
Begin(name, withAnswers) ==
    /\ Type(name)
    /\ state' = "ANALYZING" /\ analysis' = <<>> /\ questions' = {} /\ profile' = NoProfile
    /\ manifests' = <<>>
    /\ step' = "analyze" /\ answering' = withAnswers
    /\ UNCHANGED <<draft, result>>

Prepare == Begin("prepare", FALSE)
PrepareWithAnswers == answers # <<>> /\ Begin("prepare", TRUE)
Analyze == Begin("analyze", FALSE)

\* resume never passes an answers file on.
Resume(reuse) ==
    /\ Type("resume")
    /\ state \in {"ANALYZING", "WAITING_FOR_USER"}
    /\ reuse => analysis # <<>>
    /\ state' = "ANALYZING" /\ answering' = FALSE
    /\ step' = IF reuse THEN "decide" ELSE "analyze"
    /\ UNCHANGED <<analysis, questions, profile, manifests, draft, result>>

\* plan looks at no state, and decides nothing but what policy lets pass.
Plan ==
    /\ Type("plan")
    /\ analysis # <<>>
    /\ draft' = Build(analysis, {}, {})
    /\ step' = "save_questions" /\ answering' = FALSE
    /\ UNCHANGED <<directory, result>>

\* generate renders the saved profile, and leaves the state of the run alone.
Generate ==
    /\ Type("generate")
    /\ profile.renderable
    /\ draft' = profile
    /\ step' = "render" /\ answering' = FALSE
    /\ UNCHANGED <<directory, result>>

------------------------------------------------------------------------------
\* Steps of a command

UserAndTree == <<tree, answers, left>>

\* The process ends, and what it held in memory is gone.
Return ==
    /\ command' = "none" /\ step' = "idle" /\ answering' = FALSE
    /\ draft' = NoProfile /\ result' = "FAILED"

\* Phase 1 and TopologyBuilder; the analyze command ends after them.
RunPhase1 ==
    /\ step = "analyze"
    /\ analysis' = tree
    /\ IF command = "analyze"
       THEN state' = "WAITING_FOR_USER" /\ Return
       ELSE step' = "decide" /\ UNCHANGED <<state, command, answering, draft, result>>
    /\ UNCHANGED <<UserAndTree, questions, profile, manifests>>

RejectAnswers ==
    /\ step = "decide"
    /\ answering /\ ~Accepted(answers, Questions(analysis))
    /\ state' = "FAILED" /\ Return
    /\ UNCHANGED <<UserAndTree, analysis, questions, profile, manifests>>

\* _run_default_pipeline, up to the profile and its holds
Decide ==
    /\ step = "decide"
    /\ answering => Accepted(answers, Questions(analysis))
    /\ \E semantic \in SemanticDecisions(analysis) :
        draft' = Build(analysis, semantic,
                       IF answering THEN UserDecisions(Questions(analysis), answers) ELSE {})
    /\ result' = IF draft'.blocked # {} THEN "BLOCKED" ELSE "WAITING_FOR_USER"
    /\ step' = IF draft'.renderable THEN "render" ELSE "save_questions"
    /\ UNCHANGED <<UserAndTree, directory, command, answering>>

\* ManifestRenderer.render of the components of some names, over what is there
Render(p, names) ==
    [name \in DOMAIN manifests \cup names |->
        IF name \in names THEN [resources |-> Resources(p.values, name), of |-> p]
        ELSE manifests[name]]

\* Rendering; in the pipeline a verdict of validation and repair follows.
RenderManifests ==
    /\ step = "render"
    /\ Unusable(draft) = {}
    /\ manifests' = Render(draft, RenderedComponents(draft))
    /\ IF command = "generate" THEN Return
       ELSE /\ result' \in {"READY", "FAILED"}
            /\ step' = "save_questions"
            /\ UNCHANGED <<command, answering, draft>>
    /\ UNCHANGED <<UserAndTree, state, analysis, questions, profile>>

\* The names before one, in the order they are rendered in
Before(p, name) ==
    {Names[i] : i \in {j \in DOMAIN Names :
        /\ Names[j] \in RenderedComponents(p)
        /\ \E k \in DOMAIN Names : j < k /\ Names[k] = name}}

\* A component whose replicas cannot be read raises; those before it stay.
RenderRaises ==
    /\ step = "render"
    /\ \E name \in Unusable(draft) :
        /\ Before(draft, name) \cap Unusable(draft) = {}
        /\ manifests' = Render(draft, Before(draft, name))
    /\ state' = IF command = "generate" THEN state ELSE "FAILED"
    /\ Return
    /\ UNCHANGED <<UserAndTree, analysis, questions, profile>>

\* Mutant: questions that were asked already are not asked again.
SaveQuestionsOnce ==
    /\ step = "save_questions"
    /\ questions' = IF questions = {} THEN Questions(analysis) ELSE questions
    /\ step' = "save_profile"
    /\ UNCHANGED <<UserAndTree, state, analysis, profile, manifests, command, answering, draft, result>>

\* result.artifacts, in the order of their paths
SaveQuestions ==
    /\ step = "save_questions"
    /\ questions' = Questions(analysis)
    /\ step' = "save_profile"
    /\ UNCHANGED <<UserAndTree, state, analysis, profile, manifests, command, answering, draft, result>>

SaveProfile ==
    /\ step = "save_profile"
    /\ profile' = draft
    /\ IF command = "plan" THEN Return
       ELSE step' = "finish" /\ UNCHANGED <<command, answering, draft, result>>
    /\ UNCHANGED <<UserAndTree, state, analysis, questions, manifests>>

Finish ==
    /\ step = "finish"
    /\ state' = result /\ Return
    /\ UNCHANGED <<UserAndTree, analysis, questions, profile, manifests>>

------------------------------------------------------------------------------
\* The user and the environment

\* Answers that the saved questions allow
Files(asked) ==
    FoldSet(LAMBDA q, files : {file @@ q.id :> option :
                                file \in files, option \in Options(q.field.kind)},
            {<<>>}, asked)

\* One of those that skips nothing
Confirming(asked) == CHOOSE file \in Files(asked) : \A id \in DOMAIN file : file[id] # "skip"

\* One of those; or one (one is enough: it is refused) with an answer left out,
\* or with an answer that is no option of its question.  A command reads the
\* file once, so writing it between commands is enough.
WriteAnswers ==
    /\ step = "idle" /\ questions # {} /\ left.files > 0
    /\ left' = [left EXCEPT !.files = @ - 1]
    /\ \/ answers' \in Files(questions)
       \/ \E q \in questions :
            \/ answers' = [Confirming(questions) EXCEPT ![q.id] = "other"]
            \/ answers' = [id \in {r.id : r \in questions} \ {q.id} |->
                                Confirming(questions)[id]]
    /\ UNCHANGED <<tree, directory, job>>

\* Only RunPhase1 reads the tree, so editing it between commands is enough:
\* an edit while a command runs has the effect of one before or after it.
EditTree ==
    /\ step = "idle" /\ left.edits > 0
    /\ tree' \in Topologies \ {tree}
    /\ left' = [left EXCEPT !.edits = @ - 1]
    /\ UNCHANGED <<directory, job, answers>>

Die ==
    /\ left.crashes > 0
    /\ left' = [left EXCEPT !.crashes = @ - 1]
    /\ Return
    /\ UNCHANGED <<tree, state, analysis, questions, profile, answers>>

Crash == step # "idle" /\ Die /\ UNCHANGED manifests

CrashRendering ==
    /\ step = "render"
    /\ \E name \in RenderedComponents(draft) :
        /\ Before(draft, name) \cap Unusable(draft) = {}
        /\ manifests' = Render(draft, Before(draft, name))
    /\ Die

Next ==
    \/ Prepare \/ PrepareWithAnswers \/ Analyze \/ Plan \/ Generate
    \/ \E reuse \in BOOLEAN : Resume(reuse)
    \/ RunPhase1 \/ RejectAnswers \/ Decide
    \/ RenderManifests \/ RenderRaises
    \/ SaveQuestions \/ SaveProfile \/ Finish
    \/ WriteAnswers \/ EditTree \/ Crash \/ CrashRendering

Spec == Init /\ [][Next]_vars

------------------------------------------------------------------------------
\* Properties

\* DeploymentProfile: a renderable one has no holds.
IsProfile(p) ==
    /\ DOMAIN p.values \subseteq Field /\ \A f \in DOMAIN p.values : p.values[f] \in Decision
    /\ p.renderable \in BOOLEAN
    /\ p.unresolved \subseteq Field /\ p.blocked \subseteq Field
    /\ IsTopology(p.facts) /\ p.users \subseteq Decision
    /\ p.renderable => p.unresolved = {} /\ p.blocked = {}

IsQuestion(q) ==
    /\ q.id \in [field : Field, layout : Layouts \cup {0}]
    /\ q.field \in Field /\ q.value \in Texts

RunTyped ==
    /\ IsTopology(tree) /\ IsTopology(analysis)
    /\ state \in States /\ result \in States /\ step \in Steps
    /\ command \in {"none", "prepare", "analyze", "resume", "plan", "generate"}
    /\ answering \in BOOLEAN
    /\ \A q \in questions : IsQuestion(q)
    /\ left \in [commands : Nat, files : Nat, edits : Nat, crashes : Nat]

ProfilesTyped ==
    /\ IsProfile(profile) /\ IsProfile(draft)
    /\ DOMAIN manifests \subseteq Segments
    /\ \A name \in DOMAIN manifests :
            manifests[name].resources \in Resource /\ IsProfile(manifests[name].of)

\* Every variable has its type, and no profile is renderable with a hold
\* (DeploymentProfileBuilder.build).
TypeOK == RunTyped /\ ProfilesTyped

\* Manifests of a tree with an application are written only from a profile for
\* which the user has answered every question of the run: no default, no command
\* of the model, no later plan, generate or resume and no crash gets past an
\* open question.
RenderedOnlyAnswered ==
    \A name \in DOMAIN manifests :
        LET p == manifests[name].of
        IN  (\E c \in DOMAIN p.facts : p.facts[c].role = "application") =>
                \A f \in Asked(p.facts) : \E d \in p.users : d.field = f

\* What a manifest says on this field is what the user answered.  Answers on
\* probes, resource requests, volumes and conflicts the renderer never reads.
Agrees(resources, d) ==
    /\ d.field.kind = "replicas" => resources.replicas = d.value /\ d.value # "skip"
    /\ d.field.kind = "runtime_command" => resources.command = d.value
    /\ d.field.kind = "service" => (resources.service <=> d.value # "skip")
    /\ d.field.kind = "external_exposure" =>
            (resources.ingress <=> d.value = "public" /\ resources.service)

\* No automatic decision overrides the user on the way from the answers file
\* through the merge and the renderer's paths to the manifest of a component
\* whose id is one name.  A manifest references no secret that the user did not
\* confirm for that component, or for one in a directory "secrets" below it.
RenderedAsAnswered ==
    \A name \in DOMAIN manifests :
        LET resources == manifests[name].resources
            users == manifests[name].of.users
        IN  /\ \A d \in users : d.field.component = <<name>> => Agrees(resources, d)
            /\ resources.secret # None =>
                \E d \in users :
                    /\ d.field.secret = resources.secret /\ d.value = "proposal"
                    /\ d.field.component[1] = name
                    /\ Len(d.field.component) = 1 \/ d.field.component[2] = "secrets"

\* A tree with a stateful dependency is not rendered, in no part, whatever the
\* user answers to the question about it.
BlockedNeverRendered ==
    \A c \in DOMAIN manifests :
        LET facts == manifests[c].of.facts
        IN  \A d \in DOMAIN facts : facts[d].role # "dependency"

\* A profile built from an accepted answers file leaves nothing unresolved: the
\* questions, written by one component, cover the holds, found by another.
AnswersResolveHolds ==
    \A p \in {draft, profile} : p.users # {} => p.unresolved = {}

\* A run that waits for the user has on disk the questions a fresh run of the
\* same tree would ask, one for each hold of its profile; also after replans
\* and commands that were killed half-way.
WaitingRunAsks ==
    state = "WAITING_FOR_USER" =>
        \A f \in profile.unresolved :
            \E q \in questions : q.field = f /\ q \in Questions(analysis)

------------------------------------------------------------------------------
\* What documents say of the program, and TLC finds violated

\* questions/manager.py says of skipping a conflict between commands: "Manifest
\* generation remains blocked for this component."
DeferredNotRendered ==
    \A c \in DOMAIN manifests :
        ~ \E d \in manifests[c].of.users :
            d.field = FieldOf(<<c>>, Conflict) /\ d.value = "defer"

\* docs/user-flow.md: the user answers the questions and then resumes.  A
\* resume with complete answers at hand does not wait for them again.
AnsweredRunResumes ==
    step = "finish" /\ command = "resume" /\ Accepted(answers, questions)
        => result # "WAITING_FOR_USER"

\* questions/manager.py offers to "skip" a probe: "Leave this decision
\* unresolved."  A skipped probe is not rendered.
SkippedProbesLeftOut ==
    \A name \in DOMAIN manifests :
        \A d \in manifests[name].of.users :
            /\ d.field.component = <<name>> /\ d.value = "skip"
            /\ d.field.kind \in {"readiness_probe", "liveness_probe"}
            => ~manifests[name].resources.probes

\* prepare renders every application of the tree.  One whose id has a slash
\* (_component_id_for_root gives the directory) is rendered under its first name
\* only, and nothing the user answered about it is found.
EveryApplicationRendered ==
    step = "save_questions" /\ draft.renderable /\ command # "plan" =>
        \A c \in DOMAIN draft.facts :
            draft.facts[c].role = "application" => \E name \in DOMAIN manifests : c = <<name>>
==============================================================================
