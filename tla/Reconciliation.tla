---------------------------- MODULE Reconciliation ----------------------------
(***************************************************************************)
(* From candidates to manifests in phase 1: reconciliation/engine.py,      *)
(* reconciliation/profile_merge.py, renderer/engine.py and                 *)
(* validator/pipeline.py of preanalyzer.                                   *)
(*                                                                         *)
(* An accepted command is a record [id, command, refs].  A profile is      *)
(* [registry, namespace, ingress_host, ports], where ports gives the       *)
(* components it names their service port, or None.                        *)
(***************************************************************************)
EXTENDS RuntimeCommands

-----------------------------------------------------------------------------
(* reconcile.                                                              *)

\* The surest role, then the first by name; without one, an application.
RoleOf(rules, id) ==
    LET candidates == {r \in ToSet(rules.roles) : r.id = id}
        Is(role) == \E r \in candidates : r.role = role
    IN  IF Is("dependency") THEN "dependency"
        ELSE IF Is("infrastructure") THEN "infrastructure"
        ELSE "application"

PortsOf(rules, id) == {p.port : p \in {q \in ToSet(rules.ports) : q.id = id}}

\* One port is the port; several are a question.
ReconciledPort(rules, id) ==
    IF Cardinality(PortsOf(rules, id)) = 1 THEN CHOOSE p \in PortsOf(rules, id) : TRUE ELSE None

\* Mutant: what the agent found comes first.
ReconciledCommandFound(rules, accepted, id) ==
    LET stated == At(rules.commands, {k \in DOMAIN rules.commands : rules.commands[k].id = id})
        found == {a \in accepted : a.id = id}
    IN  IF found # {}
        THEN LET a == CHOOSE a \in found : TRUE
             IN  [command |-> a.command, source |-> "llm_semantic_inference", refs |-> a.refs]
        ELSE IF stated = <<>> THEN None
        ELSE [command |-> Last(stated).command, source |-> "dockerfile_cmd", refs |-> Last(stated).refs]

\* cmds_by_comp keeps the last candidate of a component, and any candidate
\* comes before the command the agent found.
ReconciledCommand(rules, accepted, id) ==
    LET stated == At(rules.commands, {k \in DOMAIN rules.commands : rules.commands[k].id = id})
        found == {a \in accepted : a.id = id}
    IN  IF stated # <<>>
        THEN [command |-> Last(stated).command, source |-> "dockerfile_cmd", refs |-> Last(stated).refs]
        ELSE IF found = {} THEN None
        ELSE LET a == CHOOSE a \in found : TRUE
             IN  [command |-> a.command, source |-> "llm_semantic_inference", refs |-> a.refs]

PortQuestion(id) == [kind |-> "port", id |-> id]
OpsQuestion(kind) == [kind |-> kind, id |-> None]

\* The intent of a component.  Only an application has a workload, and a
\* service when its port is known.
ComponentIntent(rules, accepted, id) ==
    LET application == RoleOf(rules, id) = "application"
        port == IF application THEN ReconciledPort(rules, id) ELSE None
    IN  [role    |-> RoleOf(rules, id),
         command |-> IF application THEN ReconciledCommand(rules, accepted, id) ELSE None,
         port    |-> port,
         secrets |-> IF application THEN {s.name : s \in {t \in rules.secrets : t.id = id}} ELSE {},
         registry |-> None, service |-> port, ingress |-> None]

\* Mutant: only components with a stated role are reconciled.
ReconcileRoles(rules, accepted) ==
    LET ids == {c.id : c \in ToSet(rules.roles)}
    IN  [runtimes  |-> [id \in ids |-> [port |-> ReconciledPort(rules, id),
                                        command |-> ReconciledCommand(rules, accepted, id)]],
         intent    |-> [id \in ids |-> ComponentIntent(rules, accepted, id)],
         questions |-> {PortQuestion(id) : id \in {i \in ids : Cardinality(PortsOf(rules, i)) > 1}}
                       \cup {OpsQuestion("registry"), OpsQuestion("namespace")}]

\* reconcile.  No parser states a compose label, so Q-ING-001 is never asked.
Reconcile(rules, accepted) ==
    LET ids == {c.id : c \in ToSet(rules.components)}
    IN  [runtimes  |-> [id \in ids |-> [port |-> ReconciledPort(rules, id),
                                        command |-> ReconciledCommand(rules, accepted, id)]],
         intent    |-> [id \in ids |-> ComponentIntent(rules, accepted, id)],
         questions |-> {PortQuestion(id) : id \in {i \in ids : Cardinality(PortsOf(rules, i)) > 1}}
                       \cup {OpsQuestion("registry"), OpsQuestion("namespace")}]

-----------------------------------------------------------------------------
(* merge.                                                                  *)

\* merge refuses a profile that names a component it does not know.
ProfileRefused(result, profile) == ~ DOMAIN profile.ports \subseteq DOMAIN result.intent

\* The one the ingress host is given to: the first by its id.
IngressComponent(intent) ==
    LET applications == {k \in DOMAIN Ids : Ids[k] \in DOMAIN intent /\ intent[Ids[k]].role = "application"}
    IN  IF applications = {} THEN None ELSE Ids[Min(applications)]

ProfilePort(profile, id) == IF id \in DOMAIN profile.ports THEN profile.ports[id] ELSE None

Or(value, default) == IF value = None THEN default ELSE value

\* Mutant: the port of the profile reaches the workload only.
MergedIntentWorkload(intent, profile) ==
    [id \in DOMAIN intent |->
        LET application == intent[id].role = "application"
        IN  [intent[id] EXCEPT
                !.registry = IF application THEN profile.registry ELSE None,
                !.ingress = IF id = IngressComponent(intent) THEN profile.ingress_host ELSE None,
                !.port = IF application THEN Or(ProfilePort(profile, id), @) ELSE @]]

\* A port for a component without a workload gives it a service of its own.
MergedIntent(intent, profile) ==
    [id \in DOMAIN intent |->
        LET application == intent[id].role = "application"
            port == ProfilePort(profile, id)
        IN  [intent[id] EXCEPT
                !.registry = IF application THEN profile.registry ELSE None,
                !.ingress = IF id = IngressComponent(intent) THEN profile.ingress_host ELSE None,
                !.service = Or(port, @),
                !.port = IF application THEN Or(port, @) ELSE @]]

\* Mutant: any ops value answers both ops questions.
AnsweredTogether(question, profile) ==
    IF question.kind = "port" THEN ProfilePort(profile, question.id) # None
    ELSE profile.registry # None \/ profile.namespace # None

\* _port_question_satisfied and profile_field.
Answered(question, profile) ==
    CASE question.kind = "registry"  -> profile.registry # None
      [] question.kind = "namespace" -> profile.namespace # None
      [] question.kind = "port"      -> ProfilePort(profile, question.id) # None

\* Every question blocks the application from running.
Merge(result, profile) ==
    LET remaining == {q \in result.questions : ~Answered(q, profile)}
    IN  [intent |-> MergedIntent(result.intent, profile), questions |-> remaining, ready |-> remaining = {}]

-----------------------------------------------------------------------------
(* TemplateRenderer.render.  A file is [id, kind].                         *)

File(id, kind) == [id |-> id, kind |-> kind]

Renderable(component) == component.role = "application" /\ component.registry # None

\* The port an ingress points at.
IngressPort(component) == Or(component.service, component.port)
IngressHeld(component) == component.ingress # None /\ IngressPort(component) = None

FilesOf(id, component) ==
    {File(id, "serviceaccount"), File(id, "deployment")}
    \cup (IF component.secrets # {} THEN {File(id, "secret")} ELSE {})
    \cup (IF component.service # None THEN {File(id, "service")} ELSE {})
    \cup (IF component.ingress # None /\ ~IngressHeld(component) THEN {File(id, "ingress")} ELSE {})

Render(intent) ==
    LET rendered == {id \in DOMAIN intent : Renderable(intent[id])}
        held == {id \in rendered : IngressHeld(intent[id])}
        DeferredFor(id) ==
            IF intent[id].role # "application" THEN {[id |-> id, resource |-> "Workload"]}
            ELSE IF id \notin rendered THEN {[id |-> id, resource |-> "Deployment"]}
            ELSE IF id \in held THEN {[id |-> id, resource |-> "Ingress"]}
            ELSE {}
    IN  [files    |-> UNION {FilesOf(id, intent[id]) : id \in rendered},
         deferred |-> UNION {DeferredFor(id) : id \in DOMAIN intent},
         holds    |-> held]

-----------------------------------------------------------------------------
(* ValidationPipeline.run.  What the templates write is YAML; kubeconform  *)
(* and kubectl may be absent, pass or fail.                                *)

ToolOutcomes == {"pass", "fail", "skipped"}

ValidationReport(kubeconform, dry_run) ==
    [kubeconform |-> kubeconform,
     dry_run     |-> IF kubeconform = "pass" THEN dry_run ELSE "skipped",
     achieved    |-> IF kubeconform = "pass" THEN 1 ELSE 0]
=============================================================================
