----------------------------- MODULE ManifestRepair -----------------------------
(***************************************************************************)
(* The directory generated/ of a run: rendered, validated and repaired by  *)
(* the pipeline of prepare and resume, rendered again by generate and      *)
(* checked again by validate, while the user may edit what is in it.       *)
(*                                                                         *)
(* Rendering writes over what is there and removes nothing; the bundle     *)
(* lists every file under the directory, so what an earlier rendering, an  *)
(* earlier bundle or a repair left there is listed with the rest.          *)
(*                                                                         *)
(* A profile is reduced to the components it renders, their port and       *)
(* whether they are public; which profiles a run gets to is the subject of *)
(* ProfileDecisions, and here any of them may be next.                     *)
(***************************************************************************)
EXTENDS Integers, FiniteSets

CONSTANTS
    Components,     \* component ids; their order is that of the names
    Ports,          \* port numbers
    Profiles,       \* renderable profiles
    max_attempts,   \* of RepairController
    MaxCommands,    \* bound: commands the user types
    MaxEdits,       \* bound: changes of the saved profile by the user
    MaxRetouches,   \* bound: generated files changed or deleted by the user
    MaxCrashes      \* bound: commands that are killed

ASSUME ComponentsAssumption == Components \subseteq Nat \ {0}
ASSUME PortsAssumption == Ports \subseteq Nat \ {0}
ASSUME ProfilesAssumption ==
    Profiles \subseteq
        UNION {[cs -> [port : Ports \cup {0}, public : BOOLEAN]] : cs \in SUBSET Components}
ASSUME AttemptsAssumption == max_attempts \in Nat
ASSUME BoundsAssumption == /\ MaxCommands \in Nat /\ MaxEdits \in Nat
                           /\ MaxRetouches \in Nat /\ MaxCrashes \in Nat

VARIABLES
    state,          \* run.yaml
    saved,          \* profile/deployment-profile.yaml
    generated,      \* generated/: file -> content
    bundle,         \* generated/manifest-bundle.yaml: file -> content, for its checksum
    report,         \* validation/13-validation-report.yaml, and what it is about
    \* the command that runs
    command, step, profile, listing, verdict, tried, attempts,
    \* history: the profile the files were last rendered from
    rendered,
    left            \* what user and environment may still do

directory == <<state, saved, generated, bundle, report>>
job == <<command, step, profile, listing, verdict, tried, attempts>>
vars == <<directory, job, rendered, left>>

------------------------------------------------------------------------------
\* Files and their contents

Of(kind, c) == [kind |-> kind, of |-> c]
DeploymentFiles == {Of("deployment", c) : c \in Components}
ServiceFiles == {Of("service", c) : c \in Components}
IngressFiles == {Of("ingress", c) : c \in Components}
ResourceFiles == DeploymentFiles \cup ServiceFiles \cup IngressFiles
Kustomizations == {Of("base", 0), Of("overlay", 0)}
BundleFile == Of("bundle", 0)
AttemptFiles == {Of("attempt", n) : n \in 1..max_attempts}
File == ResourceFiles \cup Kustomizations \cup {BundleFile} \cup AttemptFiles

\* "name" is that of the resource, by the component it was rendered for;
\* "labels" those of a pod, or the selector of a service; "ports" those of the
\* containers, or the target of a service.  A listing, an attempt and a file
\* that is no YAML are no Kubernetes resources; an unsafe one is privileged,
\* mounts the host or is cluster-wide.
Content == [kind : {"Deployment", "Service", "Ingress", "Kustomization", "Listing",
                    "Attempt", "Broken", "Unsafe", "Empty"},
            name : Components \cup {0}, labels : Components \cup {0},
            ports : SUBSET Ports]

Text(kind) == [kind |-> kind, name |-> 0, labels |-> 0, ports |-> {}]
Resource(kind, c, ports) == [kind |-> kind, name |-> c, labels |-> c, ports |-> ports]

NoProfile == <<>>
NoBundle == <<>>
NoReport == [ready |-> FALSE, about |-> NoBundle]
NoVerdict == [findings |-> {}, ready |-> FALSE]

\* build_deployment, build_service, build_ingress and build_kustomization
PortOf(p, c) == IF p[c].port = 0 THEN {} ELSE {p[c].port}
Manifest(p, f) ==
    CASE f.kind = "deployment" -> Resource("Deployment", f.of, PortOf(p, f.of))
      [] f.kind = "service" -> Resource("Service", f.of, PortOf(p, f.of))
      [] f.kind = "ingress" -> Resource("Ingress", f.of, PortOf(p, f.of))
      [] OTHER -> Text("Kustomization")

\* _resources_for_component, for every component, and the kustomizations
Rendered(p) ==
    {Of("deployment", c) : c \in DOMAIN p}
      \cup {Of("service", c) : c \in {d \in DOMAIN p : p[d].port # 0}}
      \cup {Of("ingress", c) : c \in {d \in DOMAIN p : p[d].port # 0 /\ p[d].public}}
      \cup Kustomizations

\* The order in which the files are written
Rank(f) ==
    CASE f.kind = "deployment" -> 4 * f.of
      [] f.kind = "service" -> 4 * f.of + 1
      [] f.kind = "ingress" -> 4 * f.of + 2
      [] OTHER -> 0

Overwrite(files) ==
    [f \in DOMAIN generated \cup DOMAIN files |->
        IF f \in DOMAIN files THEN files[f] ELSE generated[f]]

------------------------------------------------------------------------------
\* Validation

Listed(kind, L) == {f \in L : generated[f].kind = kind}

\* _service_checks looks for the labels among those of all deployments, and
\* for the port among those of all containers.
PodLabels(L) == {generated[f].labels : f \in Listed("Deployment", L)}

\* Mutant: the containers of the first deployment stand for all.
PortsOfFirst(L) ==
    UNION {generated[f].ports :
        f \in {d \in Listed("Deployment", L) :
                \A e \in Listed("Deployment", L) : Rank(d) <= Rank(e)}}

container_ports(L) == UNION {generated[f].ports : f \in Listed("Deployment", L)}

Finding(code, f) == [code |-> code, file |-> f]

\* _duplicates
Duplicates(L) ==
    {f \in L : /\ generated[f].kind \in {"Deployment", "Service", "Ingress"}
               /\ \E g \in L : /\ g.kind = f.kind /\ g.of < f.of
                               /\ generated[g].kind = generated[f].kind
                               /\ generated[g].name = generated[f].name}

\* _service_checks
SelectingNoPod(L) == {f \in Listed("Service", L) : generated[f].labels \notin PodLabels(L)}
ReachingNoPort(L) ==
    {f \in Listed("Service", L) : ~ generated[f].ports \subseteq container_ports(L)}

\* InternalManifestValidator.validate_paths, and _syntax_findings which tells
\* of broken files once more
Findings(L) ==
    {Finding("yaml_syntax", f) : f \in Listed("Broken", L)}
      \cup {Finding("duplicate_resource", f) : f \in Duplicates(L)}
      \cup {Finding("service_selector_mismatch", f) : f \in SelectingNoPod(L)}
      \cup {Finding("service_target_port_mismatch", f) : f \in ReachingNoPort(L)}
      \cup {Finding("manifest-security", f) : f \in Listed("Unsafe", L)}

\* KustomizeValidator.validate: not installed is no finding; missing after all,
\* failed and timed out are.
Kustomize(L) == {"not-run", "pass", "fail"}

\* KubeconformValidator.validate: missing, failed and timed out are findings,
\* and so is a file without a "kind".
Kubeconform(L) ==
    {"fail"} \cup IF \A f \in L : generated[f].kind \notin {"Listing", "Attempt", "Broken"}
                 THEN {"pass"} ELSE {}

\* Mutant: ready is what the tools say.
VerdictOfTools(L, kustomize, kubeconform) ==
    [findings |-> Findings(L), ready |-> kustomize # "fail" /\ kubeconform = "pass"]

\* ValidationOrchestrator.validate
Verdict(L, kustomize, kubeconform) ==
    [findings |-> Findings(L),
     ready |-> Findings(L) = {} /\ kustomize # "fail" /\ kubeconform = "pass"]

Readable(L) == L \subseteq DOMAIN generated

------------------------------------------------------------------------------
\* Repair

\* strategy_for: both codes have the one strategy sync_service_to_deployment.
REPAIRABLE_CODES == {"service_selector_mismatch", "service_target_port_mismatch"}
Repairable == {item \in verdict.findings : item.code \in REPAIRABLE_CODES}

\* _first_deployment_path goes by the name of the file.
FirstDeployments(L) ==
    {f \in L \cap DeploymentFiles : \A g \in L \cap DeploymentFiles : f.of <= g.of}

\* apply_strategy
Synced(service, deployment) ==
    [service EXCEPT !.labels = deployment.labels,
                    !.ports = IF deployment.ports = {} THEN @ ELSE deployment.ports]

\* The files a repair reads; without them it raises.
CanSync(f, L) ==
    /\ f \in DOMAIN generated /\ generated[f].kind = "Service"
    /\ \E d \in FirstDeployments(L) : d \in DOMAIN generated /\ generated[d].kind = "Deployment"

------------------------------------------------------------------------------
\* Commands

NewJob(name, at, p) ==
    /\ command' = name /\ step' = at /\ profile' = p
    /\ listing' = NoBundle /\ verdict' = NoVerdict /\ tried' = {} /\ attempts' = 0

Init ==
    /\ state = "CREATED" /\ saved = NoProfile /\ generated = <<>>
    /\ bundle = NoBundle /\ report = NoReport
    /\ command = "none" /\ step = "idle" /\ profile = NoProfile
    /\ listing = NoBundle /\ verdict = NoVerdict /\ tried = {} /\ attempts = 0
    /\ rendered = NoProfile
    /\ left = [commands |-> MaxCommands, edits |-> MaxEdits, retouches |-> MaxRetouches,
               crashes |-> MaxCrashes]

Type(name, at, p) ==
    /\ step = "idle" /\ left.commands > 0
    /\ left' = [left EXCEPT !.commands = @ - 1]
    /\ NewJob(name, at, p)

\* A pipeline that gets to a renderable profile, in a fresh directory
Prepare(p) ==
    /\ Type("pipeline", "render", p)
    /\ state' = "ANALYZING" /\ saved' = NoProfile /\ generated' = <<>>
    /\ bundle' = NoBundle /\ report' = NoReport /\ rendered' = NoProfile

\* The same after a crash, in the directory of the killed run
Resume(p) ==
    /\ state = "ANALYZING"
    /\ Type("pipeline", "render", p)
    /\ UNCHANGED <<directory, rendered>>

\* generate and validate look at no state.
Generate ==
    /\ saved # NoProfile
    /\ Type("generate", "render", saved)
    /\ UNCHANGED <<directory, rendered>>

Validate ==
    /\ saved # NoProfile /\ bundle # NoBundle
    /\ step = "idle" /\ left.commands > 0
    /\ left' = [left EXCEPT !.commands = @ - 1]
    /\ command' = "validate" /\ step' = "validate" /\ listing' = bundle
    /\ UNCHANGED <<directory, profile, verdict, tried, attempts, rendered>>

------------------------------------------------------------------------------
\* Steps of a command

Return == NewJob("none", "idle", NoProfile)

\* ManifestRenderer.render
Render ==
    /\ step = "render"
    /\ generated' = Overwrite([f \in Rendered(profile) |-> Manifest(profile, f)])
    /\ listing' = generated'
    /\ step' = IF command = "generate" THEN "save_bundle" ELSE "validate"
    /\ rendered' = profile
    /\ UNCHANGED <<state, saved, bundle, report, command, profile, verdict, tried, attempts, left>>

\* A listed file is gone, or one the repair needs is not what it should be.
Raise ==
    /\ \/ step \in {"validate", "revalidate", "conclude"} /\ ~Readable(DOMAIN listing)
       \/ /\ step = "repair" /\ attempts < max_attempts
          /\ \E item \in Repairable :
                item.code \notin tried /\ ~CanSync(item.file, DOMAIN listing)
    /\ state' = IF command = "pipeline" THEN "FAILED" ELSE state
    /\ Return
    /\ UNCHANGED <<saved, generated, bundle, report, rendered, left>>

Judge ==
    \E kustomize \in Kustomize(DOMAIN listing), kubeconform \in Kubeconform(DOMAIN listing) :
        verdict' = Verdict(DOMAIN listing, kustomize, kubeconform)

\* The first validation of the pipeline, and that of the command
Check ==
    /\ step = "validate" /\ Readable(DOMAIN listing)
    /\ Judge
    /\ step' = IF command = "validate" THEN "save_report"
               ELSE IF verdict'.ready THEN "save_bundle" ELSE "repair"
    /\ UNCHANGED <<directory, command, profile, listing, tried, attempts, rendered, left>>

\* Mutant: a code is tried as often as it is found.
SyncUnbounded ==
    /\ step = "repair"
    /\ \E item \in Repairable, d \in FirstDeployments(DOMAIN listing) :
        /\ CanSync(item.file, DOMAIN listing)
        /\ generated' = [generated EXCEPT ![item.file] = Synced(@, generated[d])]
    /\ attempts' = attempts + 1
    /\ step' = "revalidate"
    /\ UNCHANGED <<state, saved, bundle, report, command, profile, listing, verdict, tried,
                   rendered, left>>

\* Mutant: and no attempt is counted.
SyncAgain ==
    /\ step = "repair"
    /\ \E item \in Repairable, d \in FirstDeployments(DOMAIN listing) :
        /\ CanSync(item.file, DOMAIN listing)
        /\ generated' = [generated EXCEPT ![item.file] = Synced(@, generated[d])]
    /\ step' = "revalidate"
    /\ UNCHANGED <<state, saved, bundle, report, command, profile, listing, verdict, tried,
                   attempts, rendered, left>>

\* One round of the loop of repair: the first finding with a strategy is
\* taken (findings are in the order of a hash: any of them may be it), and a
\* code that was tried is not tried again.  Its file is always a listed one.
Sync ==
    /\ step = "repair" /\ attempts < max_attempts
    /\ \E item \in Repairable, d \in FirstDeployments(DOMAIN listing) :
        /\ item.code \notin tried /\ CanSync(item.file, DOMAIN listing)
        /\ tried' = tried \cup {item.code}
        /\ generated' = [generated EXCEPT ![item.file] = Synced(@, generated[d])]
    /\ attempts' = attempts + 1
    /\ step' = "revalidate"
    /\ UNCHANGED <<state, saved, bundle, report, command, profile, listing, verdict, rendered, left>>

\* The whole bundle is validated again, and the attempt recorded beside it.
Revalidate ==
    /\ step = "revalidate" /\ Readable(DOMAIN listing)
    /\ Judge
    /\ generated' = Overwrite([f \in {Of("attempt", attempts)} |-> Text("Attempt")])
    /\ step' = IF verdict'.ready THEN "conclude" ELSE "repair"
    /\ UNCHANGED <<state, saved, bundle, report, command, profile, listing, tried, attempts,
                   rendered, left>>

\* No finding has a strategy, the next one was tried, or the attempts are over.
GiveUp ==
    /\ step = "repair"
    /\ attempts = max_attempts \/ Repairable = {} \/ \E item \in Repairable : item.code \in tried
    /\ step' = "conclude"
    /\ UNCHANGED <<directory, command, profile, listing, verdict, tried, attempts, rendered, left>>

\* The pipeline validates once more after a repair, whatever came of it.
Conclude ==
    /\ step = "conclude" /\ Readable(DOMAIN listing)
    /\ Judge
    /\ step' = "save_bundle"
    /\ UNCHANGED <<directory, command, profile, listing, tried, attempts, rendered, left>>

SaveBundle ==
    /\ step = "save_bundle"
    /\ bundle' = listing
    /\ generated' = Overwrite([f \in {BundleFile} |-> Text("Listing")])
    /\ IF command = "generate" THEN Return
       ELSE /\ step' = "save_profile"
            /\ UNCHANGED <<command, profile, listing, verdict, tried, attempts>>
    /\ UNCHANGED <<state, saved, report, rendered, left>>

SaveProfile ==
    /\ step = "save_profile"
    /\ saved' = profile
    /\ step' = "save_report"
    /\ UNCHANGED <<state, generated, bundle, report, command, profile, listing, verdict, tried,
                   attempts, rendered, left>>

SaveReport ==
    /\ step = "save_report"
    /\ report' = [ready |-> verdict.ready, about |-> listing]
    /\ IF command = "validate" THEN Return
       ELSE /\ step' = "finish"
            /\ UNCHANGED <<command, profile, listing, verdict, tried, attempts>>
    /\ UNCHANGED <<state, saved, generated, bundle, rendered, left>>

Finish ==
    /\ step = "finish"
    /\ state' = IF verdict.ready THEN "READY" ELSE "FAILED"
    /\ Return
    /\ UNCHANGED <<saved, generated, bundle, report, rendered, left>>

------------------------------------------------------------------------------
\* The user and the environment

\* "answers.yaml or profile/deployment-profile.yaml" are the user's to fill in.
EditProfile ==
    /\ saved # NoProfile /\ left.edits > 0
    /\ saved' \in Profiles \ {saved}
    /\ left' = [left EXCEPT !.edits = @ - 1]
    /\ UNCHANGED <<state, generated, bundle, report, job, rendered>>

\* What a manifest is changed to: what stands in another file, another port,
\* something unsafe, something that is no YAML.
HandEdits(f) ==
    {generated[g] : g \in {h \in DOMAIN generated : h.kind = f.kind}}
      \cup {[generated[f] EXCEPT !.ports = {port}] : port \in Ports}
      \cup {Text("Broken"), Text("Unsafe")}

Retouch ==
    /\ left.retouches > 0
    /\ left' = [left EXCEPT !.retouches = @ - 1]
    /\ \E f \in DOMAIN generated \cap ResourceFiles :
        \/ \E text \in HandEdits(f) : generated' = [generated EXCEPT ![f] = text]
        \/ generated' = [g \in DOMAIN generated \ {f} |-> generated[g]]
    /\ UNCHANGED <<state, saved, bundle, report, job, rendered>>

Die ==
    /\ left.crashes > 0
    /\ left' = [left EXCEPT !.crashes = @ - 1]
    /\ Return
    /\ UNCHANGED <<state, saved, bundle, report>>

Crash == step \notin {"idle", "render"} /\ Die /\ UNCHANGED <<generated, rendered>>

\* A file is opened, which empties it, and then written.
CrashRendering ==
    /\ step = "render"
    /\ \E f \in Rendered(profile) \cap ResourceFiles :
        generated' = Overwrite(
            [g \in {h \in Rendered(profile) \cap ResourceFiles : Rank(h) <= Rank(f)} |->
                IF g = f THEN Text("Empty") ELSE Manifest(profile, g)])
    /\ rendered' = NoProfile
    /\ Die

Step == \/ Render \/ Raise \/ Check \/ Sync \/ Revalidate \/ GiveUp \/ Conclude
        \/ SaveBundle \/ SaveProfile \/ SaveReport \/ Finish

Next ==
    \/ \E p \in Profiles : Prepare(p) \/ Resume(p)
    \/ Generate \/ Validate
    \/ Step
    \/ EditProfile \/ Retouch \/ Crash \/ CrashRendering

\* FinalReportBuilder._summary, read by status
Summary ==
    CASE state = "READY" /\ report.ready -> "manifest-ready"
      [] state = "FAILED" -> "failed"
      [] OTHER -> state

\* A command that runs goes on until it returns or is killed.
Spec == Init /\ [][Next]_vars /\ WF_vars(Step)

------------------------------------------------------------------------------
\* Properties

Commands == {"none", "pipeline", "generate", "validate"}
Steps == {"idle", "render", "validate", "repair", "revalidate", "conclude", "save_bundle",
          "save_profile", "save_report", "finish"}

IsProfile(p) ==
    /\ DOMAIN p \subseteq Components
    /\ \A c \in DOMAIN p : p[c] \in [port : Ports \cup {0}, public : BOOLEAN]

IsDirectory(files) == DOMAIN files \subseteq File /\ \A f \in DOMAIN files : files[f] \in Content

\* Every variable has its type; in a repair, findings are about listed files,
\* which is why the guard of _relative_finding_path never bites here.
TypeOK ==
    /\ state \in {"CREATED", "ANALYZING", "READY", "FAILED"}
    /\ IsProfile(saved) /\ IsProfile(profile) /\ IsProfile(rendered)
    /\ IsDirectory(generated) /\ IsDirectory(bundle) /\ IsDirectory(listing)
    /\ report.ready \in BOOLEAN /\ IsDirectory(report.about)
    /\ command \in Commands /\ step \in Steps
    /\ verdict.ready \in BOOLEAN /\ \A item \in verdict.findings : item.file \in DOMAIN listing
    /\ tried \subseteq REPAIRABLE_CODES /\ attempts \in 0..max_attempts
    /\ left \in [commands : Nat, edits : Nat, retouches : Nat, crashes : Nat]

\* The loop may not go on, nor give up, by its count alone: each attempt uses
\* up one of two codes, so that the third attempt of max_attempts never comes.
RepairBounded == attempts <= Cardinality(tried) /\ Cardinality(tried) <= 2

\* Validation looks at every file under generated/ as one heap, stale ones
\* included, and a repair copies the first deployment over a service.  As long
\* as nobody edits them, the manifests of the profile rendered last stay
\* exactly as they were rendered, whatever is repaired beside them.
RenderedFilesStand ==
    left.retouches = MaxRetouches /\ rendered # NoProfile =>
        \A f \in Rendered(rendered) :
            f \in DOMAIN generated /\ generated[f] = Manifest(rendered, f)

\* A run gets READY only with a bundle of which no file has a finding, also
\* when repairs changed it; unless the user edited files since.
ReadyIsVerified ==
    [][state # "READY" /\ state' = "READY" /\ left.retouches = MaxRetouches =>
            Findings(DOMAIN listing) = {}]_vars

\* A command ends, however the repair goes, unless it is killed.
CommandEnds == step # "idle" ~> step = "idle"

------------------------------------------------------------------------------
\* What documents say of the program, and TLC finds violated

\* The plan of the agent: the same profile makes a byte-identical bundle.
SameProfileSameBundle ==
    step = "save_bundle" /\ bundle # NoBundle /\ rendered = saved => listing = bundle

\* The plan: the selector of a service is the labels of its pods.  A repair takes
\* the first deployment of the bundle instead, so that a service which is stale
\* or was edited by hand may end up with the pods of another component.
RepairedServicesSelectTheirOwn ==
    [][step = "repair" /\ step' = "revalidate" =>
        \A f \in DOMAIN generated :
            generated'[f] # generated[f] => generated'[f].labels = generated'[f].name]_vars

\* The plan: "manifest-ready" only when every necessary validation succeeded,
\* that is, the saved report is about the saved bundle.
ManifestReadyIsValidated ==
    step = "idle" /\ Summary = "manifest-ready" => report.about = bundle
==============================================================================
