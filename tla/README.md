# A TLA+ development of k8s-deploy-workflow

This directory holds TLA+ modules for `k8s-deploy-workflow`, the TLC
configurations that model-check them on small instances, and TLAPS proofs of the
properties that matter most. Paths below are relative to the repository unless
they name a module. `PROJECT.json` maps every definition that models code to the
lines it models and lists components, runs, mutants, findings, hazards and
theorems.

To repeat the work, in this directory:

    tlc -config MCRunLifecycle_concurrent.cfg MCRunLifecycle.tla
    tlapm RunLifecycleProofs.tla

## 1. The system

The program turns a source repository into Kubernetes manifests. It has two
layers. `src/preanalyzer` reads a tree, collects evidence, infers rules and may
ask a language model about what the rules leave open. `src/k8s_agent` wraps it
into a **run**: a directory under the run root with a state machine, saved
artifacts, questions to the user, rendered manifests, validation and repair.

| Component | State | Operations | Interacts with |
|---|---|---|---|
| Run state machine and store (`run/`, `models/run.py`) | `run.yaml`, `run.lock`, `events.jsonl` | `create`, `transition`, `load`, `save`, `acquire_lock`, `append` | every command |
| Application (`application.py`) | none of its own | `prepare`, `analyze`, `resume` with drift policies; `plan`, `generate`, `validate`, `export`, `status`, `explain` | run directory, source, orchestrator |
| Orchestrator (`agent/orchestrator.py`) | the record in hand | `run`, `_run_default_pipeline`, `_phase1` | store, phase 1, profile, renderer |
| Source acquisition (`source/`) | `source.yaml`, a temporary clone | `acquire`, fingerprint, clean-up | git, the user's tree |
| Phase-1 pipeline (`preanalyzer/pipeline.py`, `analysis/phase1_adapter.py`) | four analysis artifacts, the audit trace | `run_analysis`, `run_phase1_analysis` | scanner, parsers, rules, semantic agent |
| Parsers, evidence, rules (`preanalyzer/analyzer/`) | none | `parse`, `build_evidence`, `infer_rules`, the merge of compose files | the tree |
| Runtime commands (`runtime_command_resolver.py`, `semantic/task_builder.py`) | none | `analyze_runtime_commands`, the tasks for the agent | evidence, rules |
| Reconciliation, topology (`reconciliation/`, `k8s_agent/analysis/topology_builder.py`) | none | `reconcile`, `merge`, `build_from_reconciliation` | rules, accepted commands |
| Semantic agent (`preanalyzer/semantic/`) | turn count, budget ledger, results of one task | `run`, tool calls, verification | provider, tools, verifier |
| Profile decisions (`questions/`, `policy/`, `profile/`) | questions, answers, decisions, profile | ask, answer, default, merge | orchestrator |
| Rendering, validation, repair (`render/`, `validation/`, `repair/`) | `generated/`, reports | render, validate, repair up to three times | external tools |
| Reporting, CLI, evaluation, scripts | none | read, print, measure | run directory |

What is hard in it:

* **Overlapping commands.** `run.lock` is held only inside one transition. Two
  commands on one run interleave their pipelines, and each chooses its next
  transition from a record it read without the lock.
* **Deaths and Ctrl+C.** A killed process leaves its lock file; a
  `KeyboardInterrupt` unwinds it. Where either falls between two writes decides
  what a later command finds.
* **Staleness.** A resumed run reuses saved analysis. Whether that analysis is
  of the recorded source depends on the order in which source, analysis and tool
  metadata were written, and on edits and upgrades between commands.
* **Budgets.** The loop with the model must end, and inside its budgets,
  whatever the model answers.
* **Decisions.** Questions, answers, holds and manifests are joined by field
  paths that four places of the code make up. Answers of the user, commands of
  the model and policy defaults meet there, and four commands each build or read
  the profile.
* **Leftovers.** `generated/` is written over and never cleaned, and the bundle
  lists whatever lies there; validation and repair look at the listing as one
  heap in which files of an earlier profile stand beside the present ones.
* **Two readings of one tree.** Which file belongs to which component is decided
  by three functions, and ports and commands of a component are chosen twice,
  for the manifests of phase 1 and for the topology the agent plans from.

What makes each component correct:

* *Run state machine, application, orchestrator.* `run.yaml` moves along
  declared edges, a terminal state is final, the event log replays to the
  record, a run does not stay ANALYZING once its processes have ended in order,
  and READY manifests are of the recorded source. That nothing works on a
  terminal run would belong here, but the code does not keep it (section 5).
* *Semantic agent.* The loop ends, stays inside its budgets, hands on only
  commands a fact of the task or the present tree states, never resolves an
  ambiguity, and raises over one kind of answer only, two accepted candidates of
  one id.
* *Profile decisions.* A manifest says what the user answered, as far as the
  renderer reads it; nothing is
  written past an open question or a stateful dependency; the questions asked
  are those whose answers lift the holds; a waiting run asks for what it waits for.
* *Rendering, validation, repair.* The loop ends and tries no strategy twice for
  one code; no repair touches a file of the profile rendered last; a run gets
  READY only with a bundle without findings.
* *Parsers and rules.* A merge of compose files loses no port; an image is given
  nothing of the source beside it; a resolved command is one the tree states;
  what a component's Dockerfile runs as it is written becomes its command or
  reaches the agent; a chain of scripts is given up as a cycle only where there
  is one.
* *Topology, reconciliation, renderer of phase 1.* The two readings agree; a
  deterministic command wins over the agent's; a gap in coverage hides nothing;
  no ingress without its service, and no "ready" with a deployment left out.

## 2. Modules

    RunStates  <-- RunStateMachine            (abstract: what run.yaml promises)
        ^              ^ refines
        +------- RunLifecycle <-- MCRunLifecycle,
                     RunLifecycleProofs <-- SequentialRunProofs

    SemanticVerifier <-- SemanticAgent <-- MCSemanticAgent, SemanticAgentProofs
                              | refines
                         SemanticResolver     (abstract: what a consumer may rely on)

    DeploymentDecisions <-- ProfileDecisions <-- MCProfileDecisions,
      (pure operators)                           ProfileDecisionsProofs

    ManifestRepair <-- MCManifestRepair, ManifestRepairProofs

    OrderedSelection <-- ComposeFiles <-- RuleInference <-- RuntimeCommands
      <-- Reconciliation <-- ApplicationTopology <-- Preanalyzer <-- MCPreanalyzer
      (pure operators up to here; Preanalyzer composes them)

    OrderedSelectionProofs <-- CandidateProofs (about the operators)
      <-- PreanalyzerProofs (about Preanalyzer)

RunLifecycle follows the states of a run and leaves open what the pipeline
decides; ProfileDecisions follows those decisions through one run at a time, and
leaves out locks, drift and the choice of what is reused. Its `Decide` and
`RenderManifests` are the outcomes of `HoldManifests` and `ValidateManifests`
there. Its `SemanticDecisions` are any command for any task that has one, which
includes whatever SemanticAgent lets pass. ManifestRepair takes up where
ProfileDecisions renders: any renderable profile may come next there, and what
is followed is the directory of files. Preanalyzer is the inside of the analysis
of which ProfileDecisions takes the result as given (`Topologies`): its `RunTask`
accepts any command of `AgentCommands`, as its neighbour takes any of `Commands`.

The first two groups meet in one action: `RunPhase1` of RunLifecycle stands for a
whole analysis, which includes any number of SemanticAgent behaviours. That an
agent ends (`RunEnds`) is what lets RunLifecycle treat phase 1 as a step that
returns; that it can raise under repeated ids (section 5) is one of the ways
`PipelineRaises` happens, and so is the phase `"raised"` of Preanalyzer.

### RunStates, RunStateMachine, RunLifecycle

`RunStates` holds the transition table of `run/manager.py`. `RunStateMachine`
is the abstract specification: two fields that move along the table.
`RunLifecycle` is the code: one process per command line (`prepare`, `analyze`,
`resume` with or without a drift policy), each with a program counter, the frame
of the `RunManager.transition` call it is in, and the locals of the application
and orchestrator.

| Module state | Code |
|---|---|
| `lock` | `run.lock`, created with `O_EXCL`, removed in a `finally` |
| `run`, `events` | `run.yaml` (state and `last_successful_state`), the transition events of `events.jsonl` |
| `source`, `repo` | the fingerprint in `source.yaml`; the user's tree now |
| `analysis`, `meta`, `generated` | the phase-1 artifacts, `agent/runtime-metadata.yaml`, `generated/` |
| `frame`, `pc`, `kind`, `rec`, `work` | a transition call in progress, control, command line, record in hand, locals |
| `left`, `torn` | what the environment may still do; a history bit |

A transition is five steps (lock, read and check, save, append, unlock), because
a death may fall between any two and other commands run in between. A refused
lock raises RUN-202 at once: there is no waiting and no retry in the code.
Files carry the *version of the tree* they were computed from. The four
artifacts are written as two steps, the evidence model and its predecessors,
then the rules: `TopologyBuilder` reads those two. `append` always succeeds here; one that
raised (a full disk) would lose an event as a Ctrl+C does. Left out: informational
events, run ids (one run per model), and the contents of questions and
manifests, whose outcome (WAITING_FOR_USER, BLOCKED, READY, FAILED) is a free
choice. A GitHub source has a fixed revision and never drifts, which is the case
of no edits.

### SemanticVerifier, SemanticAgent, SemanticResolver

`SemanticVerifier` is the pure part: when a reference is verified, when a
candidate is accepted, what the overall verdict is, and how each of the two
consumers picks a command from a result (`_extract_accepted_command` of the
pre-analyzer, `_semantic_profile_decisions` of the orchestrator, through the
gateway). `SemanticAgent` is one call of `run_semantic_agent`: the turn loop
with its budget checks, transport retries of the provider, schema retries,
tool calls and their ledger, verification, and the environment that edits the
tree meanwhile. `SemanticResolver` is what a consumer may rely on: boundedly
many questions, then one stated command or none.

The model may answer *anything* the response schema accepts: any tool call, any
resolution whose candidates and statuses fit together (`WellShaped`). A
candidate is an id, a command, cited facts, cited evidence, and one bit `clean`
for the checks that do not depend on state (component, field, secret, task id,
trace). Commands are numbered in the order `sorted()` gives them. `"nothing"`
stands for the tool statuses `no_match`, `not_found` and `unsupported`.
Some code is unreachable and therefore not an action: the refusals of
`SemanticToolSession._precheck` for an exhausted budget (`AskedWithinBudget`
shows it), a context that does not match its task (the gateway builds it from
the task), and the verifier's reasons for semantic references of results that
were never collected.

### DeploymentDecisions, ProfileDecisions

`DeploymentDecisions` is what the code computes without a state, one operator
per function: the candidates of a topology (`Intent`), their dispositions, the
questions, the acceptance of an answers file, the decisions of user, model and
policy, their merge (`Build`), the paths by which all of them are joined (`Path`)
and what the renderer looks up by path (`FieldsAt`, `Value`, `Resources`).
`ProfileDecisions` is the run directory under the commands `prepare` (with an
answers file or without), `analyze`, `plan`, `generate` and `resume`, typed one
after the other by a user who writes the answers file in between.

| Module state | Code |
|---|---|
| `tree` | what an analysis of the user's tree would find now |
| `state` | `run.yaml` |
| `analysis` | `analysis/04-application-topology.yaml` |
| `questions`, `profile` | `agent/questions.yaml`, `profile/deployment-profile.yaml` |
| `manifests` | `generated/base/`, by the name in the file names, with the profile each was rendered from |
| `command`, `step`, `answering`, `draft`, `result` | the running command, how far it is, whether it has an answers file, the profile and the outcome it holds in memory |
| `answers` | the answers file, which belongs to the user |

A component is reduced to a role, its commands, whether the resolver of runtime
commands leaves a task for the model (`gap`), the confidence of its first port,
its secrets, and how the scan numbers its evidence (`layout`, part of a
question's id; the value asked about is not). A component's id is the sequence of
names between the slashes: that of a directory `services/api` has two
(`rule_inference.py:325`). A field is its component, its kind and, for secrets, a
name; `Conflict` is the kind of the separate path `/components/X/runtime/command`
that conflicts are asked about under. Intent, questions, answers and profile know
a field by `Path`, a sequence of segments, of which there is one for every field
(theorem `PathsAreDistinct`), so that the model may keep the field. The renderer
does not: `_components` takes the second segment for the component, and `_value`
builds its paths from that. `RenderedComponents`, `FieldsAt` and `SecretFields` do
the same, so that of `services/api` what is rendered is a component `services`,
for which none of the user's answers is found, unless one of that id exists too.
Values other than commands are `"proposal"`. Every question is required, so an
accepted file answers them all. A deployment has probes wherever it has a port
(`resources.py:22-23`), whatever was answered about them.

The steps of a command are those between which a death leaves something
different on disk: analysis, decisions (in memory), rendering (component by
component, in sorted order), questions, profile, state. `plan` ends after the
profile, `generate` after the rendering; neither looks at `run.yaml`. A
component whose replicas were answered with `skip` makes `int()` raise in the
middle of a rendering (`RenderRaises`).

Left out: `/cluster_validation`, which is never asked, held or rendered; a
topology without components; hostnames, for which nothing proposes a candidate;
conflicts and revisions of profiles, which no code reads (`generate
--profile-revision` compares with a number that is always 1).

### ManifestRepair

| Module state | Code |
|---|---|
| `state` | `run.yaml` |
| `saved` | `profile/deployment-profile.yaml` |
| `generated` | `generated/`: what is in each file |
| `bundle` | `generated/manifest-bundle.yaml`: the files and, for their checksums, their contents |
| `report` | `validation/13-validation-report.yaml`, and the listing it is about |
| `command`, `step` | the running command and how far it is |
| `profile`, `listing`, `verdict`, `tried`, `attempts` | the profile, the bundle, the last validation and the locals of `RepairController` it holds in memory |
| `rendered` | history: the profile whose files were all written last |

A file is its kind and the component it is named after, its content what later
code reads of it: the kind and name of the resource, the labels of the pods or
the selector, the ports. `"Empty"`, `"Broken"` and `"Unsafe"` are a file cut off
by a death, one that is no YAML, and one that a rule about a single resource
refuses. `kustomize` and `kubeconform` may say anything their code can make of
them (missing, failed, timed out); kubeconform cannot pass a listing, an attempt
or a broken file, none of which has a `kind`. Findings are taken in the order of
ids that are hashes, hence in any order. Commands come one at a time: `prepare` in a
fresh directory, `resume` in the directory of a killed run, `generate` and
`validate` at any time, since neither looks at `run.yaml`. The user may change
the saved profile and any generated manifest. A repair copies the labels of the
*first* deployment of the listing over the service, whichever component that
belongs to. Left out: environment, probes and resources of a container, and paths that escape the directory.

### OrderedSelection to Preanalyzer

Phase 1 is a pipeline of functions, and each module holds those of one stage.
`OrderedSelection` is what they share, Python's `sorted` and its comprehensions
with a condition. Both are stated by the rank of a member among those selected,
not by a fold that would have to be followed element by element: so they are
pure definitions that TLC evaluates and the proofs can reason about.
`ComposeFiles` merges a compose file with its override; `RuleInference` parses,
builds evidence and infers the candidates; `RuntimeCommands` resolves the
commands of a component or leaves gaps, and makes tasks of the gaps;
`Reconciliation` chooses, merges the deployment profile of phase 1, renders
and reports; `ApplicationTopology` is the topology `k8s_agent` builds from the
same rules. `Preanalyzer` is `run_analysis`: one action per stage, with the
result of each in a variable, the agent's answers (`RunTask`) and the outcomes of
the external validators free.

A tree is the sequence of its files in the order of the scanner, each already
split into instructions, scripts or services. A directory is the sequence of its
names, and so is a component's id. An evidence id is the position of the fact. A
command is its form and its tokens; tokens are strings because the resolver
looks at particular words (`npm`, `run`, `&&`), and what it recognizes by
pattern (script paths, variables, names of secrets) is a CONSTANT. A service maps
the keys that later stages read, each with its merge tag. Left out: the walk
through the tree and its limits, quoting, versions and frameworks, the extended
outputs, and confidences where nothing compares them.

The assumptions say what a tree is, not what is in it. `ServicesAssumption` and
`IdsAssumption`: the name of a service is listed once, in the order of the
strings, and the id of a component is a sequence of names. `NoneAssumption`:
Python's `None` is no port. `TreesAssumption`: a tree is a sequence of files, each
with the fields its parser reads, and what a file lists under a key is a sequence
(`IsTree`). Files that are no YAML, services that are `!reset`, merge tags left
where no merge takes them off, scripts that call themselves and services that two
files state are all trees.

## 3. Runs

| Run | Question | Answer | Distinct states |
|---|---|---|---|
| `concurrent` | Does `run.yaml` keep its promises when two commands overlap, with a death and a Ctrl+C? | yes | 91,810 |
| `drift` | Are READY manifests of the recorded source, over edits, replans, pinned resumes and an upgrade? | yes | 444,572 |
| `stale` | A statement of the plan about resuming | no, section 5 | |
| `budget` | Is every question asked inside the budgets, does the loop end, and over which answers does it raise? | yes; over repeated ids only | 156,735 |
| `verdict` | What may a consumer take, whatever the model proposes, with distinct candidate ids? | only stated commands | 867,654 |
| `duplicate` | The same with repeated ids | no, section 5 | |
| `decisions` | Do manifests say what the user answered, and nothing nobody decided, over every order of commands, answers, an edit and a death? | yes | 994,585 |
| `deferred` | A statement of the questions themselves | no, section 5 | |
| `repair` | Does the repair end, spare the present manifests, and let only a clean bundle be READY, over stale files, an edit of a manifest and a death? | yes | 96,573 |
| `regenerated` | A statement of the plan about rendering twice | no, section 5 | |
| `analysis` | Is what phase 1 concludes what the tree states, and do its two readings agree? | yes | 51,768 |
| `ownership` | A statement about services without a source | no, section 5 | |

**Bounds of RunLifecycle.** `concurrent` has a creator and one resume that may
overlap at every step, one death and one Ctrl+C. Two processes are enough for
every conflict over the lock and over the record: a third only repeats one side.
It has one version of the tree, because none of its properties looks at
content. `drift` has the three commands one after another, all six command
lines, two versions, two edits (away and back) and one upgrade. Overlap and deaths
are off there, because with either its property is false: which of two pipelines
READY is from is open (section 6), and what a death leaves is the run `stale`.
Violation runs have the smallest instance that shows their trace.

**Bounds of SemanticAgent.** `budget` takes every ceiling low and different
(six turns, three calls, one distinct tool, one file, two lines, one schema
retry, one transport retry), with three tools of which two are allowed and a
call that returns up to two lines, so that each ceiling is reached first in some
behaviour. No verdict influences the ledger, so its proposals are there for
`RaisesOnlyOnRepeatedIds` only: resolutions of up to two out of four candidates,
of which two verified ones share an id, and a verified and an unverified one
another. `verdict`
enumerates resolutions of up to two candidates out of fourteen (grounded in the
tree, in a fact of the task, in a foreign fact, in nothing, in a reference that
states another command, carrying a secret), one edit at any moment, and enough
budget to read both files.

**Bounds of ProfileDecisions.** `decisions` takes the target *production*, where
replicas are asked about as well, and six trees that between them have every
kind of field: a script with one command and a secret, twice, with different
commands and evidence; an application beside a helper with two commands (a
conflict makes the semantic executor run, which then also answers for the
application); an application beside a database; a web application whose port is
uncertain; and an application `api` above another, `api/web`, whose id has a slash
and is rendered under the first one's name. Three commands are enough for prepare, prepare with the answers and
then any other command, plan and generate included; with a fourth
(`MaxCommands = 4`, 1.8 million states) the properties hold as well, and all six
are theorems for any number. One answers file, because a second replaces
the first; one death, at any step; one edit, between commands, because only one
step of a command reads the tree.
Of the answers files, all the questions allow are tried, and of the files that
must be refused one per question and kind of mistake.

**Bounds of ManifestRepair.** Two components and two profiles, one with two
servers of which one is public, one in which the first has lost its port and the
second has another: a change of profile then leaves a stale service and a stale
ingress, which is how the loop gets something to repair without anybody editing.
`max_attempts` is 3 as in the code. Three commands are enough for a rendering, a
rendering of another profile in the same directory, and a third command over what
is left there. One change of the saved profile is what makes `generate` render
another one; one change or deletion of any manifest, at any moment; one death, in
the middle of a rendering included.

**Instance of Preanalyzer.** 1152 trees: every combination of five Dockerfiles or
none and two development Dockerfiles or none in `api/`, three packages or none,
eight sets of compose files (none, an image, a build, an override with one port
more, with the port replaced, a web service that depends on a database, a
second file that repeats a service, and an override without a base, whose merge
tag nothing takes off) and a package at the top or none. The
Dockerfiles have a `CMD` that runs a program, one that runs a script of the
package, an overwritten `CMD` after a second `FROM`, an `ENTRYPOINT` with a `CMD`,
one that is a shell script, and a compound command; the scripts end, chain, or
call each other in a ring. Only chains of the depth five are too long for these packages;
their outcome, a gap, is that of a cycle. `Profiles` has no profile, three that
differ in what they leave out, and one that moves a port.

`CHECK_DEADLOCK FALSE` appears everywhere because every system here stops: the
commands end, and so does a run of the agent.

**Fairness.** `RunLifecycle!FairSpec` is weak fairness of each process's steps.
No step of a process waits for another (a held lock raises), so an operating
system that schedules a live process is all it assumes. Starting a command,
edits, deaths and Ctrl+C are not fair. `SemanticAgent!FairSpec` is weak fairness
of the agent: a transport attempt has a timeout and every tool returns. Edits
are not fair, and no answer of the model is. `ManifestRepair!Spec` is weak
fairness of the running command: its steps write files or wait for a validator,
which has a timeout. Typing a command, edits and deaths are not fair.

Each property of a passing run has a mutant of the code that breaks it, listed
in `PROJECT.json`; the mutated operators stand next to the ones they mutate.

## 4. Proofs

TLC's instances are small. The theorems hold for all processes, versions,
budgets, tasks, models, trees, components and numbers of faults.

**RunLifecycleProofs.** `TypeCorrect`, `LockExclusive` (*LockProtectsTransition*),
`ReportsFinal` (*ReportedStateStands*), `LogFaithful` (*LogMatchesRecord*) and
`Refinement` (*ImplementsStateMachine*). The properties are not inductive, and
the invariant proved adds what they rest on:

* `Critical`: a process between check and unlock has the lock, so all others are
  outside; `LockOwned` is its converse, up to the dead: a held lock is held by
  a process inside a transition or by a killed one.
* `RecordKnown`: the record a process read inside the lock is still `run.yaml`
  when it saves, and its target is allowed from there. Refinement is this fact:
  the only step that writes `run.yaml` is `Save`.
* `TerminalStands`: a terminal record in hand is the present one; it holds
  because no edge leaves a terminal state.
* `LogKnown`: the log replays to the record with the lock free, and to the
  record before the save between save and append. It needs `HasLastSuccess`, that the
  last non-failure in the log is found (a maximum over a finite set).

The assumptions are the named ASSUMEs of RunLifecycle: the creator is a process,
`Nobody` is none, there is a version, bounds are naturals.

**SequentialRunProofs.** `ReadyMatchesSource` (*ReadyManifestsMatchSource*) holds
only for commands that do not overlap, and is proved for those (`Alone`: one
process runs). It assumes `Undisturbed` besides: no death, no Ctrl+C, and edits
between commands only; the run `stale` shows what one death leaves for the next
resume. Its invariant has two halves.
`Orderly` gives every label the states a run can be in there, from which it follows
that no transition is refused and that a run is settled between two commands.
`Faithful` gives every label what its files are of: between commands a waiting
run has the analysis of the recorded source and no manifests (`Leaves`); a process
that goes on to phase 1 has something to reuse that is of that source, or will
read that source (`Prepared`); or a pinned resume has analyzed a drifted tree, which
is the exception the property makes and lasts (`ExemptStays`).

**SemanticAgentProofs.** `TypeCorrect` and `AsksWithinBudget` need only the
ceilings to be in range, and so does `FailureExplained` (*RaisesOnlyOnRepeatedIds*),
which says of *all* answers over which one the agent raises; `TakesVerifiedOnly`,
`AmbiguityStands` and `Refinement` assume `DistinctIds`, which the code does not
enforce; the run `duplicate` shows the first of them fail without it. The budget argument is `WithinBudget`: an agent that goes on has
not exhausted a budget, is strictly below the ceilings that are checked before
a call, and has an open outcome. The verdict argument is `Sound`: the recorded
outcome is what the verifier gives for the tree as it was when it judged; an
edit cannot come later, because the run is then over. Picking the *first*
candidate of an id needs that a nonempty set of positions has a least element;
the lemma `LeastNatural` derives it from well-founded induction.

**ProfileDecisionsProofs.** `ProfilesAreTyped` (*TypeOK*), `AnswersResolve`
(*AnswersResolveHolds*), `OnlyAnsweredIsRendered` (*RenderedOnlyAnswered*),
`AnswersAreRendered` (*RenderedAsAnswered*), `BlockedIsNeverRendered`
(*BlockedNeverRendered*) and `WaitingRunsAsk` (*WaitingRunAsks*), for all components, commands, secrets, trees, targets
and bounds. The properties speak of profiles that may be old and of manifests
that may be of an earlier profile still, so the invariant `RunInv` says where they
come from: every profile is `Built` from some facts, some decisions of the model
and either no answers or an accepted file, and every manifest is `Rendered` from
such a profile that is renderable. The rest is about `Build` alone:

* `UserDecides`: an accepted file decides every field that was asked, once.
* `MergeChooses`: among the decisions on a field one of the highest priority
  exists and is taken; with the previous fact, `UserPrevails`.
* `BuiltAnswered`: an application always has the candidate `resource_requests`,
  which policy never lets pass and the model never decides, so its profile is
  renderable only after an accepted file, which answers everything else too.
* `PathsAreDistinct`: two fields never have one path, ids with slashes included; so
  joining by path, as intent, questions, answers and the profile do, joins by field.
* `UserFound`: of a field the user decided on a component whose id is one name, the
  renderer's look-up finds that decision; `BuiltAgrees` is the same of a whole
  manifest. Of an id with a slash neither is so, which is why *RenderedAsAnswered*
  speaks of the others. `SecretConfirmed`: what is referenced as a secret was
  confirmed for that component, or for one in a directory `secrets` below it.
* `AskingInv`, for `WaitingRunsAsk`: in a waiting run the profile on disk is of the
  present analysis and the questions on disk are those of that analysis. A command
  that changes the analysis makes the run ANALYZING first, and writes the
  questions before the profile. The holds of a profile are asked by the questions
  of its facts (`HoldsAreAsked`).

Besides the typing of constants, the assumptions are that the sorted names are
strings, each once (`NamesAssumption`), that an id has a name in it, that no
secret or command is called `none` and no command `skip` or `proposal`
(`TextAssumption`), which stand for what is absent, left open, or not looked
into, and that no tree is empty.

**ManifestRepairProofs.** `TypeCorrect`, `RepairIsBounded` (*RepairBounded*),
`RenderedStand` (*RenderedFilesStand*) and `ReadyVerified` (*ReadyIsVerified*), for any sets of components, ports and profiles and
any `max_attempts`. `BoundedInv` counts: an attempt is a code that was not tried,
and there are two. The other two properties rest on `FilesInv`:

* `BundleIsListing`: where the bundle stands there is never anything but a listing.
* `RenderedFilesStand` itself, and `RenderedAreListed`: while the pipeline validates
  and repairs, the files it rendered are in its listing.
* `RepairsSpareRendered`: no finding the repair would act on is about one of them.
* `RenderedHaveNoFinding`, the key lemma: a service of that profile has its
  deployment in the listing, hence the labels and the ports it looks for. So no finding
  with a strategy is about one of its files, and a repair writes another.
* `ReadyHasNoFindings`: a job about to write READY holds a verdict without findings
  about files that have not changed since.

**PreanalyzerProofs, CandidateProofs, OrderedSelectionProofs.** Every invariant of
the run `analysis`, for any trees, profiles and answers of the agent:

| Theorem | Property |
|---|---|
| `TypeCorrect` | *TypeOK* |
| `ResolvedIsTheRepositorys`, `CyclesAreFound` | *ResolvedIsStated*, *CyclesAreReal* |
| `DockerfilesAreKept` | *DockerfileCommandsAreKept* |
| `ImagesOwnNothing`, `MergedPortsAreKept` | *ImageOnlyOwnsNothing*, *MergedPortsSurvive* |
| `RaisesAreExplained` | *RaisesOnlyOnRepeatedService* |
| `DeterministicCommandsWin` | *DeterministicWins* |
| `TopologyAndIntentAgree`, `GapsHideNothing` | *TopologyAgrees*, *GapsAreRestatements* |
| `IngressesAreBacked`, `ReadyIsComplete` | *IngressBacked*, *ReadyIsRendered* |

The inductive invariant is `Stages`. Its part `Analysis`/`Computed` says that what a
stage has left is a function of what the stages before left, down to the tree, also
when one of them raised; `RaisedOver` says over what. The actions are thus done
with once, and the rest is about the functions, stage by stage in `CandidateProofs`:

* What a document becomes. `MergedPortsKeep`: a merge of two lists of ports loses
  no container port, because entries of one key map the same one
  (`PortKeyContainer`). `DocumentOfTree` and `ParsedServices`: what comes out of
  a tree is a sequence of services whose fields are what the later stages read.
* Where a fact is from. `EvidencePlaces` and `ComposeEvidence` give every place in
  the evidence a file and, for a compose fact, the service of it; `ArtifactFacts`
  of different files are kept apart by the concatenation they are joined with.
* Whom a candidate is about. `CommandCandidatesOf` and its like: the owner has a
  root, hence is no image; the sort by id loses and repeats nothing (`SortedPlaces`).
* What a command resolves to. `ResolutionExists`: the recursion over scripts has a
  solution although its paths are endless, since it stops at
  `MaxScriptChainDepth`. `PackageScriptResult` goes down from there: whatever the
  scripts call, what comes out is a gap or a command some script states.
  `HasCycle` goes up the chain of names already visited: the gap
  `package_script_cycle` needs a name met again, and the scripts between the two
  meetings call each other in a ring (`ChainGrows`, `ChainCloses`).
* What a Dockerfile runs. Somebody holds every Dockerfile of a component
  (`OwnedIsHeld`), its CMD is joined to the ENTRYPOINT of the same file
  (`EntrypointWith`), a command that runs as it is written resolves to itself
  (`StandaloneAsWritten`), and a settled result is the command or a candidate of
  the task (`ResultIsKept`).

The induction theorems of the library take an operator, which no installed prover
instantiates. The proofs go without: selections are stated by rank
(`OrderedSelection`); a recursion along a sequence (`MergedPorts`, the flattening of
lists) or down a chain of scripts is settled by `SetInduction`, about the set of
numbers for which a solution exists, or by the first place at which a fact could fail
(`LeastNatural`).

`TopologyAndIntentAgree` and `GapsHideNothing` have the hypothesis `NoneIsNoCommand`:
`None`, which stands for Python's `None`, is not the record of a command. The code
tells the two apart by `is None`; in TLA+, where `None` is any value, it has to be said.
It is a hypothesis of the theorems and no ASSUME, since it speaks of all records, which
TLC cannot enumerate; TLC's `None` is a model value and satisfies it.

**Only model-checked.** The three liveness properties, `AnalyzingEnds`, `RunEnds`
and `CommandEnds`, since neither liveness under fairness nor ENABLED is in the
prover's reach. Every other property of a passing run is a theorem.

## 5. Findings

Each is a statement of the documents or of the program's own texts that TLC finds
violated by what the code does; `PROJECT.json` quotes the lines.

* **stale**: a replan killed between writing `source.yaml` and the new analysis,
  or between two artifacts of it, is later resumed as undrifted. The old tree's
  artifacts are reused, and the run waits again, with questions about that tree.
* **duplicate**: with two candidates of one id, an unverified command is taken.
* **deferred**: a conflict between two commands that the user defers does not
  hold the component back: it is rendered without a command.
* **regenerated**: the same profile rendered a second time gives another bundle,
  which lists the first one's listing (and repairs and manifests of an earlier
  profile) as manifests; the plan of the agent says byte-identical
  (`docs/superpowers/plans/2026-07-13-kubernetes-deploy-agent-mvp-implementation-plan.md:991`).
* **ownership**: the resolver of runtime commands gives a service that only names an
  image the commands of the files at the top; the rules give it nothing.

More were found while modelling and have no run of their own. Those of the table
are stated in the modules, and a cfg with the property named shows them; "the
plan" is
`docs/superpowers/plans/2026-07-13-kubernetes-deploy-agent-mvp-implementation-plan.md`:

| Property | What happens |
|---|---|
| `RunLifecycle!InterruptLeavesCancelled` | Ctrl+C while `prepare` acquires its source records nothing: `except Exception` does not see it. The run stays ACQUIRING_SOURCE. |
| `RunLifecycle!TerminalRunIsQuiet` with `Concurrent = TRUE` | A run that a concurrent resume has ended is still written to; `generate` and `plan` (`application.py:91`), which are no processes here, write to any run without reading `run.yaml`. The plan, line 1216: "terminal 상태에서는 추가 action을 실행하지 않는다." (in a terminal state no further action is executed). |
| `SemanticAgent!AgentFailureContained` with repeated ids | With two accepted candidates of one id, the verifier builds a result its own validator refuses, and the exception ends a k8s-agent run as FAILED. |
| `ProfileDecisions!AnsweredRunResumes` | `resume` takes no answers file and none is saved, so an answered run that is resumed waits again. Only a new `prepare --non-interactive` reads the answers. |
| `ProfileDecisions!SkippedProbesLeftOut` | A probe the user skips is rendered: `resources.py:22-23` adds probes wherever there is a port. |
| `ProfileDecisions!EveryApplicationRendered` | An application whose id has a slash (`rule_inference.py:325`, `services/api`) is rendered as `services`, with none of the user's answers: `_components` (`renderer.py:70-76`) takes the second segment of a path for the component. |
| `ManifestRepair!ManifestReadyIsValidated` | After `generate` a READY run is still called `manifest-ready`, by a report about another bundle; the plan's line 1066 ties the two together. |
| `ManifestRepair!RepairedServicesSelectTheirOwn` | A repair takes the labels of the first deployment of the bundle, so a service that is stale or was edited ends up with another component's pods. The plan, line 988: "Service selector와 Pod label, targetPort와 containerPort가 일치한다." (selector and labels, targetPort and containerPort agree). |
| `Preanalyzer!StartScriptsAreRead` | One CMD or ENTRYPOINT anywhere in the tree drops the start scripts of *all* components, without a task (`runtime_command_resolver.py:112`). |
| `Preanalyzer!ImplicitRootCommandsAreKept` | Of a tree without components the CMD of `api/Dockerfile` becomes the root's command, and the ENTRYPOINT before it is dropped. |
| `Preanalyzer!OneCommandOrNone` | Of several CMDs of a component the reconciliation keeps the last (`reconciliation/engine.py:52`); `docs/superpowers/plans/2026-07-12-demo-e2e-manifests.md:436` takes a single candidate, else the agent's, else none. Nobody is told: the conflict is in the topology only. |

* The profile takes the first accepted command in sorted order where the
  pre-analyzer takes the recommended one.
* `continue-pinned` after an upgrade of the tools analyzes the drifted tree (the
  exception in `ReadyManifestsMatchSource`).
* Where a component has a resolved command, the alternatives of an ambiguous gap
  beside it are dropped.
* A command the resolver finds in an ENTRYPOINT alone never
  reaches the reconciliation, which reads the candidates of the rules.
* The report of phase 1 says level 1 was achieved even if the dry run failed
  (`ValidationReport` of Reconciliation).

## 6. Not modelled, and the plan

In order of what they decide about a run:

1. **StageCommands**: `plan`, `generate`, `validate`, `export` and `status` as
   further processes of RunLifecycle, overlapping with the others. They take no
   lock and look at no state. Here belongs the question which of two overlapping
   pipelines the profile and the manifests of a READY run are from.
2. **SourceAcquisition**: clone, workspace and clean-up, with time-outs and
   failures of git, refining `AcquireSource`.
3. **SemanticTools and budget**: what the tools read and when they refuse,
   refining the free status of `CallTool`.
4. The rest of the parsers: requirement formats, candidates of versions, the
   scanner's limits, and the extended outputs of `run_phase1_analysis`.

Left out altogether: report text, the command line's argument parsing and exit
codes, the evaluation harness, the scripts. They are sequential, keep no state
between calls and are covered by tests.
