---------------------------- MODULE RuleInference ----------------------------
(***************************************************************************)
(* Phase 1 from a tree to rule candidates: the parsers of Dockerfiles and  *)
(* package manifests, analyzer/evidence_builder.py and                     *)
(* analyzer/rule_inference.py of preanalyzer.                              *)
(*                                                                         *)
(* A tree is the sequence of its artifacts in path order.  A directory is  *)
(* the sequence of its names, the repository root <<>>; the id of a        *)
(* component is such a sequence too, so that a service and a directory may *)
(* have the same id, as their strings may.  A fact is known by its place   *)
(* in the evidence, which is what its evidence id numbers.                 *)
(***************************************************************************)
EXTENDS ComposeFiles

CONSTANTS
    Ids,             \* the ids of components, in the order of the strings
    SecretNames      \* names of variables that is_secret_name accepts

ASSUME IdsAssumption == Ids \in Seq(Seq(STRING)) /\ None \notin ToSet(Ids)

-----------------------------------------------------------------------------
(* Trees.                                                                  *)

IsSequence(s) == s \in Seq(ToSet(s))

\* What a file states under a key of a service.
IsValue(key, value) ==
    /\ key \in {"ports", "depends_on"} => IsSequence(value)
    /\ key = "environment" => IsFiniteSet(DOMAIN value)
    /\ key = "image" => value # MergeTag
    /\ key = "build" => value = None \/ IsSequence(value)

\* A !reset key has no value.
IsDocument(document) ==
    /\ DOMAIN document \subseteq ToSet(Services)
    /\ \A s \in {x \in DOMAIN document : document[x] # None} : \A k \in DOMAIN document[s] :
          document[s][k].tag # "reset" => IsValue(k, document[s][k].value)

\* What its parser finds in a file; the document of a file that is no YAML is
\* None.
IsArtifact(artifact) ==
    /\ IsSequence(artifact.dir)
    /\ artifact.type = "compose" =>
          /\ artifact.override \in BOOLEAN
          /\ artifact.document # None => IsDocument(artifact.document)
    /\ artifact.type = "dockerfile" =>
          /\ IsSequence(artifact.lines)
          /\ \A line \in ToSet(artifact.lines) : line.keyword = "EXPOSE" => IsSequence(line.ports)
    /\ artifact.type \in {"nodejs", "python"} => IsSequence(artifact.dependencies)
    /\ artifact.type = "nodejs" => IsSequence(artifact.scripts)

IsTree(tree) == IsSequence(tree) /\ \A artifact \in ToSet(tree) : IsArtifact(artifact)

-----------------------------------------------------------------------------
(* Parsing and evidence.                                                   *)

\* The lines of a keyword that no FROM follows: every FROM starts over.
OfLastStage(lines, keyword) ==
    {k \in DOMAIN lines : /\ lines[k].keyword = keyword
                          /\ \A j \in k..Len(lines) : lines[j].keyword # "FROM"}

\* dockerfile.parse: the last CMD and ENTRYPOINT, and every EXPOSE.
ParsedDockerfile(lines) ==
    LET Given(keyword) ==
            LET places == OfLastStage(lines, keyword)
            IN  IF places = {} THEN None ELSE lines[Max(places)].command
        exposes == At(lines, OfLastStage(lines, "EXPOSE"))
    IN  [cmd |-> Given("CMD"), entrypoint |-> Given("ENTRYPOINT"),
         expose |-> FlattenSeq([n \in DOMAIN exposes |-> exposes[n].ports])]

Fact(type, artifact, value) ==
    [type |-> type, dir |-> artifact.dir, file |-> artifact.name, value |-> value]

IfPresent(type, artifact, value) == IF value = None THEN <<>> ELSE <<Fact(type, artifact, value)>>

\* Fact type for each of values.
Each(type, artifact, values) == [k \in DOMAIN values |-> Fact(type, artifact, values[k])]

DockerfileFacts(artifact) ==
    LET parsed == ParsedDockerfile(artifact.lines)
    IN  Each("dockerfile_expose", artifact, parsed.expose)
        \o IfPresent("dockerfile_cmd", artifact, parsed.cmd)
        \o IfPresent("dockerfile_entrypoint", artifact, parsed.entrypoint)

\* The raw value of a variable never becomes a fact: only whether one is
\* present, carries credentials, or names a host.
ServiceFacts(artifact, service) ==
    LET variables == SetToSeq(DOMAIN service.environment)
        Valued(field, value) == [service |-> service.name, value |-> value]
    IN  <<Fact("compose_service", artifact, service.name)>>
        \o IfPresent("compose_image", artifact,
              IF service.image = None THEN None ELSE Valued("image", service.image))
        \o IfPresent("compose_build_context", artifact,
              IF service.context = None THEN None ELSE Valued("context", service.context))
        \o Each("compose_depends_on", artifact,
              [k \in DOMAIN service.depends_on |-> Valued("depends_on", service.depends_on[k])])
        \o Each("compose_port", artifact,
              [k \in DOMAIN service.ports |-> Valued("port", Number(service.ports[k].container))])
        \o Each("compose_environment", artifact,
              [k \in DOMAIN variables |->
                  [service |-> service.name, name |-> variables[k],
                   value |-> service.environment[variables[k]]]])

\* A file its parser refuses gives a warning and no fact.
ArtifactFacts(tree, i) ==
    LET artifact == tree[i]
    IN  CASE artifact.type = "compose" ->
                LET services == ServicesOf(tree, i)
                IN  FlattenSeq([k \in DOMAIN services |-> ServiceFacts(artifact, services[k])])
          [] artifact.type = "dockerfile" -> DockerfileFacts(artifact)
          [] artifact.type = "maven"      -> <<Fact("maven_packaging", artifact, "jar")>>
          [] artifact.type = "nodejs"     ->
                Each("package_dependency", artifact, artifact.dependencies)
                \o Each("package_script", artifact, artifact.scripts)
          [] artifact.type = "python"     ->
                Each("package_dependency", artifact, artifact.dependencies)
          [] OTHER -> <<>>

\* evidence_builder.build: what is there, then what is in it.
Evidence(tree) ==
    [i \in DOMAIN tree |-> Fact("artifact_presence", tree[i], tree[i].type)]
    \o FlattenSeq([i \in DOMAIN tree |-> ArtifactFacts(tree, i)])

\* The places of the facts of a type (facts_by_type).
FactsOf(ev, type) == {i \in DOMAIN ev : ev[i].type = type}

-----------------------------------------------------------------------------
(* Components and who owns an artifact.                                    *)

Component(id, root, refs) == [id |-> id, root |-> root, refs |-> refs]

\* build_context_by_service: of several contexts of one name the last.
BuildContext(ev, service) ==
    LET contexts == {i \in FactsOf(ev, "compose_build_context") : ev[i].value.service = service}
    IN  IF contexts = {} THEN None ELSE ev[Max(contexts)].value.value

\* _component_candidates_from_compose: one candidate per fact, so two files
\* that state one service give it two.
ComposeComponents(ev) ==
    LET facts == InOrder(FactsOf(ev, "compose_service"))
    IN  [k \in DOMAIN facts |->
            Component(<<ev[facts[k]].value>>, BuildContext(ev, ev[facts[k]].value), {facts[k]})]

IdOfRoot(dir) == IF dir = <<>> THEN <<"root">> ELSE dir

\* _component_candidates_from_packages: one candidate per directory with a
\* package manifest, known by its first fact.
PackageManifestFacts == {"maven_packaging", "package_dependency", "package_script"}

PackageComponents(ev) ==
    LET IsManifest(i) == ev[i].type \in PackageManifestFacts
        firsts == InOrder({i \in DOMAIN ev :
                              /\ IsManifest(i)
                              /\ ~ \E j \in 1..(i - 1) : IsManifest(j) /\ ev[j].dir = ev[i].dir})
    IN  [k \in DOMAIN firsts |->
            Component(IdOfRoot(ev[firsts[k]].dir), ev[firsts[k]].dir, {firsts[k]})]

\* sorted(..., key=component_id), which keeps the order of equal ids.
SortedById(candidates) ==
    LET Place(k) == CHOOSE n \in DOMAIN Ids : Ids[n] = candidates[k].id
        known == {k \in DOMAIN candidates : candidates[k].id \in ToSet(Ids)}
        before == [k \in known |-> {j \in known : \/ Place(j) < Place(k)
                                                  \/ (Place(j) = Place(k) /\ j < k)}]
    IN  Along(candidates, Ordered(known, before))

\* _reconcile_components: a package whose root a service builds, or whose id
\* is taken, adds no component.
Components(ev) ==
    LET compose == ComposeComponents(ev)
        packages == PackageComponents(ev)
        claimed == {c.root : c \in ToSet(compose)} \ {None}
        free == {k \in DOMAIN packages :
                    packages[k].root \notin claimed /\ packages[k].id \notin {c.id : c \in ToSet(compose)}}
        added == {k \in free : ~ \E j \in free : j < k /\ packages[j].id = packages[k].id}
    IN  SortedById(compose \o At(packages, added))

\* The longest root that holds the directory, of the first component with
\* it; an image-only service (no root) owns nothing.
RootHolds(root, dir) == IF root = <<>> THEN dir = <<>> ELSE IsPrefix(root, dir)

\* Mutant: a component without a root owns the files at the top.
OwnerOrTop(dir, components) ==
    LET Root(k) == IF components[k].root = None THEN <<>> ELSE components[k].root
        owners == {k \in DOMAIN components : RootHolds(Root(k), dir)}
        longest == {k \in owners : \A l \in owners : Len(Root(l)) <= Len(Root(k))}
    IN  IF owners = {} THEN None ELSE components[Min(longest)].id

\* _owning_component.
Owner(dir, components) ==
    LET owners == {k \in DOMAIN components :
                      components[k].root # None /\ RootHolds(components[k].root, dir)}
        longest == {k \in owners : \A l \in owners : Len(components[l].root) <= Len(components[k].root)}
    IN  IF owners = {} THEN None ELSE components[Min(longest)].id

-----------------------------------------------------------------------------
(* The other candidates.                                                   *)

\* An image that is no text has no lower().
TaggedImages(ev) == {i \in FactsOf(ev, "compose_image") : ev[i].value.value = MergeTag}

DependencyImages == {"postgres", "mysql", "mariadb", "redis"}
InfraImages == {"traefik", "nginx"}

\* _role_candidates, in the order reconcile and the topology read them.
RoleCandidates(ev) ==
    LET builds == InOrder(FactsOf(ev, "compose_build_context"))
        images == InOrder({i \in FactsOf(ev, "compose_image") :
                              ev[i].value.value \in DependencyImages \cup InfraImages})
    IN  [k \in DOMAIN builds |->
            [id |-> <<ev[builds[k]].value.service>>, role |-> "application",
             confidence |-> "medium", refs |-> {builds[k]}]]
        \o [k \in DOMAIN images |->
            [id |-> <<ev[images[k]].value.service>>,
             role |-> IF ev[images[k]].value.value \in DependencyImages THEN "dependency" ELSE "infrastructure",
             confidence |-> "high", refs |-> {images[k]}]]

\* _build_strategy_for.
BuildStrategy(ev, root) ==
    IF \E i \in FactsOf(ev, "artifact_presence") :
           /\ ev[i].value = "dockerfile" /\ ev[i].file = "Dockerfile"
           /\ ev[i].dir = IF root = None THEN <<>> ELSE root
    THEN "dockerfile" ELSE "dockerfile_needed"

\* _runtime_candidates: maven first; then one framework per component, by
\* the first of these its packages name.
Frameworks == <<"fastapi", "express", "react", "vite">>

RuntimeCandidates(ev, components) ==
    LET maven == InOrder({i \in FactsOf(ev, "maven_packaging") : Owner(ev[i].dir, components) # None})
        PackagesOf(id) == {ev[i].value : i \in {j \in FactsOf(ev, "package_dependency") :
                                                    Owner(ev[j].dir, components) = id}}
        \* root_by_component: of several components of one id the last.
        RootOf(id) == components[Max({k \in DOMAIN components : components[k].id = id})].root
        Runtime(id, language, framework, fact) ==
            [id |-> id, language |-> language, framework |-> framework,
             strategy |-> BuildStrategy(ev, RootOf(id)), refs |-> {fact}]
        \* _fact_for_package: the first of the component's facts that names it.
        FactFor(id, package) ==
            Min({i \in FactsOf(ev, "package_dependency") :
                    Owner(ev[i].dir, components) = id /\ ev[i].value = package})
        framed == At(components, {k \in DOMAIN components :
                                     PackagesOf(components[k].id) \cap ToSet(Frameworks) # {}})
        FrameworkOf(id) == Frameworks[Min({n \in DOMAIN Frameworks : Frameworks[n] \in PackagesOf(id)})]
    IN  [k \in DOMAIN maven |-> Runtime(Owner(ev[maven[k]].dir, components), "java", None, maven[k])]
        \o [k \in DOMAIN framed |->
               LET id == framed[k].id
                   framework == FrameworkOf(id)
               IN  Runtime(id, IF framework = "fastapi" THEN "python" ELSE "nodejs",
                           framework, FactFor(id, framework))]

\* _runtime_port_candidates: EXPOSE is surer than a port mapping.
PortCandidates(ev, components) ==
    LET exposed == InOrder({i \in FactsOf(ev, "dockerfile_expose") : Owner(ev[i].dir, components) # None})
        mapped == InOrder({i \in FactsOf(ev, "compose_port") : ev[i].value.value # None})
    IN  [k \in DOMAIN exposed |->
            [id |-> Owner(ev[exposed[k]].dir, components), port |-> ev[exposed[k]].value,
             confidence |-> "high", refs |-> {exposed[k]}]]
        \o [k \in DOMAIN mapped |->
            [id |-> <<ev[mapped[k]].value.service>>, port |-> ev[mapped[k]].value.value,
             confidence |-> "medium", refs |-> {mapped[k]}]]

\* _runtime_command_candidates: the CMDs of Dockerfiles somebody owns, or of
\* every Dockerfile of a tree without components.
CommandCandidates(ev, components) ==
    LET OwnerOr(dir) == IF components = <<>> THEN <<"root">> ELSE Owner(dir, components)
        owned == InOrder({i \in FactsOf(ev, "dockerfile_cmd") : OwnerOr(ev[i].dir) # None})
    IN  SortedById([k \in DOMAIN owned |->
            [id |-> OwnerOr(ev[owned[k]].dir), command |-> ev[owned[k]].value,
             confidence |-> "high", refs |-> {owned[k]}, fact |-> owned[k]]])

\* _dependency_edge_candidates: depends_on, and a database a URL points at.
EdgeCandidates(ev) ==
    LET services == {ev[i].value : i \in FactsOf(ev, "compose_service")}
    IN  {[source |-> <<ev[i].value.service>>, target |-> <<ev[i].value.value>>, type |-> "internal", refs |-> {i}] :
            i \in FactsOf(ev, "compose_depends_on")}
        \cup {[source |-> <<ev[i].value.service>>, target |-> <<ev[i].value.value.host>>, type |-> "database", refs |-> {i}] :
            i \in {j \in FactsOf(ev, "compose_environment") :
                      /\ ev[j].value.name = "DATABASE_URL" /\ ev[j].value.value.kind = "uri"
                      /\ ev[j].value.value.host \in services}}

\* _secret_candidates: a secret name with a value of its own, or a value with
\* credentials in it.  A bare key only passes on what the host has.
SecretCandidates(ev) ==
    {[id |-> <<ev[i].value.service>>, name |-> ev[i].value.name, refs |-> {i}] :
        i \in {j \in FactsOf(ev, "compose_environment") :
                  LET variable == ev[j].value
                  IN  \/ variable.name \in SecretNames /\ variable.value.kind \in {"plain", "uri"}
                      \/ variable.value.kind = "uri" /\ variable.value.credentials}}

\* rule_inference.infer.
Infer(ev) ==
    LET components == Components(ev)
    IN  [components |-> components,
         roles      |-> RoleCandidates(ev),
         runtimes   |-> RuntimeCandidates(ev, components),
         ports      |-> PortCandidates(ev, components),
         commands   |-> CommandCandidates(ev, components),
         edges      |-> EdgeCandidates(ev),
         secrets    |-> SecretCandidates(ev)]
=============================================================================
