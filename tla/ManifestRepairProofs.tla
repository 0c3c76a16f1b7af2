-------------------------- MODULE ManifestRepairProofs --------------------------
(***************************************************************************)
(* What holds of the directory generated/ for every set of components and  *)
(* profiles, every number of attempts and however often commands are typed *)
(* and killed, and files are edited.                                       *)
(***************************************************************************)
EXTENDS ManifestRepair, FiniteSetTheorems, TLAPS

------------------------------------------------------------------------------
\* The inductive invariant

\* Which command a step belongs to, and what a command has not judged yet
StepsOfCommands ==
    /\ step \in {"repair", "revalidate", "conclude", "save_profile", "finish"} =>
          command = "pipeline"
    /\ step \in {"render", "save_bundle"} => command \in {"pipeline", "generate"}
    /\ step \in {"validate", "save_report"} => command \in {"pipeline", "validate"}
    /\ step = "revalidate" => attempts >= 1
    /\ step \in {"idle", "render"} => verdict = NoVerdict

Unedited == left.retouches = MaxRetouches
EditsCounted == left.retouches <= MaxRetouches

\* Only the bundle is ever written where the bundle stands.
BundleIsListing == BundleFile \in DOMAIN generated => generated[BundleFile] = Text("Listing")

\* The pipeline lists what it rendered.
RenderedAreListed ==
    command = "pipeline" /\ step \in {"validate", "repair", "revalidate", "conclude"} =>
        Rendered(rendered) \subseteq DOMAIN listing

\* No rendered file has a finding the repair would write it for.
RepairsSpareRendered ==
    Unedited /\ rendered # NoProfile /\ step = "repair" =>
        \A item \in Repairable : item.file \notin Rendered(rendered)

\* From the last validation to the end of the pipeline
ReadyHasNoFindings ==
    /\ Unedited /\ command = "pipeline" /\ verdict.ready
    /\ step \in {"save_bundle", "save_profile", "save_report", "finish"}
    => DOMAIN listing \subseteq DOMAIN generated /\ Findings(DOMAIN listing) = {}

TypeInv == TypeOK /\ StepsOfCommands

FilesInv ==
    /\ TypeInv /\ EditsCounted /\ BundleIsListing
    /\ RenderedFilesStand /\ RenderedAreListed /\ RepairsSpareRendered
    /\ ReadyHasNoFindings

------------------------------------------------------------------------------
\* Files and contents

LEMMA TextsTyped ==
    /\ \A kind \in {"Kustomization", "Listing", "Attempt", "Broken", "Unsafe", "Empty"} :
          Text(kind) \in Content
    /\ \A kind \in {"Deployment", "Service", "Ingress"}, c \in Components, ports \in SUBSET Ports :
          Resource(kind, c, ports) \in Content
  BY DEF Text, Resource, Content

LEMMA RenderedTyped ==
    ASSUME NEW p, IsProfile(p)
    PROVE  /\ Rendered(p) \subseteq ResourceFiles \cup Kustomizations
           /\ \A f \in Rendered(p) : Manifest(p, f) \in Content
<1>1. Rendered(p) \subseteq ResourceFiles \cup Kustomizations
  BY DEF IsProfile, Rendered, ResourceFiles, DeploymentFiles, ServiceFiles, IngressFiles
<1>2. ASSUME NEW f \in Rendered(p) PROVE Manifest(p, f) \in Content
  <2>1. CASE f \in Kustomizations
    BY <2>1, TextsTyped DEF Kustomizations, Of, Manifest
  <2>2. CASE f \notin Kustomizations
    <3>1. PICK c \in DOMAIN p : f \in {Of("deployment", c), Of("service", c), Of("ingress", c)}
      BY <2>2 DEF Rendered
    <3>2. c \in Components /\ PortOf(p, c) \in SUBSET Ports
      BY DEF IsProfile, PortOf
    <3>3. Manifest(p, f) \in {Resource(kind, c, PortOf(p, c)) : kind \in {"Deployment", "Service", "Ingress"}}
      BY <3>1 DEF Manifest, Of
    <3>4. QED BY <3>2, <3>3, TextsTyped
  <2>3. QED BY <2>1, <2>2
<1>3. QED BY <1>1, <1>2

\* The rendered files, the listing and the attempts are files of their own.
LEMMA FilesApart ==
    /\ ResourceFiles \cup Kustomizations \subseteq File /\ BundleFile \in File
    /\ AttemptFiles \subseteq File
    /\ BundleFile \notin ResourceFiles \cup Kustomizations \cup AttemptFiles
    /\ AttemptFiles \cap (ResourceFiles \cup Kustomizations) = {}
<1>1. \A f \in ResourceFiles : f.kind \in {"deployment", "service", "ingress"}
  BY DEF ResourceFiles, DeploymentFiles, ServiceFiles, IngressFiles, Of
<1>2. \A f \in Kustomizations : f.kind \in {"base", "overlay"}
  BY DEF Kustomizations, Of
<1>3. \A f \in AttemptFiles : f.kind = "attempt"
  BY DEF AttemptFiles, Of
<1>4. BundleFile.kind = "bundle" BY DEF BundleFile, Of
<1>5. QED BY <1>1, <1>2, <1>3, <1>4 DEF File

LEMMA OverwriteTyped ==
    ASSUME NEW files, IsDirectory(generated), IsDirectory(files)
    PROVE  IsDirectory(Overwrite(files))
  BY DEF IsDirectory, Overwrite

LEMMA RenderingTyped ==
    ASSUME NEW p, IsProfile(p), IsDirectory(generated)
    PROVE  IsDirectory(Overwrite([f \in Rendered(p) |-> Manifest(p, f)]))
<1>1. IsDirectory([f \in Rendered(p) |-> Manifest(p, f)])
  BY RenderedTyped, FilesApart DEF IsDirectory
<1>2. QED BY <1>1, OverwriteTyped

LEMMA WritingTyped ==
    ASSUME IsDirectory(generated), NEW f \in File, NEW text \in Content
    PROVE  /\ IsDirectory(Overwrite([g \in {f} |-> text]))
           /\ IsDirectory([generated EXCEPT ![f] = text])
<1>1. IsDirectory([g \in {f} |-> text])
  BY DEF IsDirectory
<1>2. IsDirectory([generated EXCEPT ![f] = text])
  BY DEF IsDirectory
<1>3. QED BY <1>1, <1>2, OverwriteTyped

LEMMA NothingTyped ==
    IsProfile(NoProfile) /\ IsDirectory(NoBundle) /\ IsDirectory(<<>>)
<1>1. DOMAIN <<>> = {} OBVIOUS
<1>2. QED BY <1>1 DEF IsProfile, IsDirectory, NoProfile, NoBundle

LEMMA ProfilesTyped == \A p \in Profiles : IsProfile(p)
<1> TAKE p \in Profiles
<1>1. PICK cs \in SUBSET Components : p \in [cs -> [port : Ports \cup {0}, public : BOOLEAN]]
  BY ProfilesAssumption
<1>2. QED BY <1>1 DEF IsProfile

------------------------------------------------------------------------------
\* Findings

LEMMA FindingsListed == \A L : \A item \in Findings(L) : item.file \in L
  BY DEF Findings, Finding, Listed, Duplicates, SelectingNoPod, ReachingNoPort

LEMMA VerdictTyped ==
    ASSUME Judge
    PROVE  /\ verdict' \in [findings : {Findings(DOMAIN listing)}, ready : BOOLEAN]
           /\ verdict'.findings = Findings(DOMAIN listing)
           /\ verdict'.ready => Findings(DOMAIN listing) = {}
           /\ verdict'.ready \in BOOLEAN
           /\ \A item \in verdict'.findings : item.file \in DOMAIN listing
<1>1. PICK kustomize, kubeconform : verdict' = Verdict(DOMAIN listing, kustomize, kubeconform)
  BY DEF Judge
<1>2. QED BY <1>1, FindingsListed DEF Verdict

\* What a repair writes: a listed service gets the selector of a pod that is
\* listed, and stays a service.
LEMMA SyncWrites ==
    ASSUME TypeOK, NEW item \in Repairable, NEW d \in FirstDeployments(DOMAIN listing),
           CanSync(item.file, DOMAIN listing)
    PROVE  /\ item.file \in DOMAIN listing \cap DOMAIN generated
           /\ generated[item.file].kind = "Service"
           /\ d \in DOMAIN listing \cap DOMAIN generated /\ generated[d].kind = "Deployment"
           /\ Synced(generated[item.file], generated[d]) \in Content
           /\ Synced(generated[item.file], generated[d]).labels = generated[d].labels
           /\ item.code \in REPAIRABLE_CODES
<1>1. item.file \in DOMAIN listing /\ item.code \in REPAIRABLE_CODES
  BY DEF TypeOK, Repairable
<1>2. item.file \in DOMAIN generated /\ generated[item.file].kind = "Service"
  BY DEF CanSync
<1>3. PICK e \in FirstDeployments(DOMAIN listing) :
        e \in DOMAIN generated /\ generated[e].kind = "Deployment"
  BY DEF CanSync
<1>4. d = e
  <2>1. PICK c \in Components : d = Of("deployment", c)
    BY DEF FirstDeployments, DeploymentFiles
  <2>2. PICK b \in Components : e = Of("deployment", b)
    BY <1>3 DEF FirstDeployments, DeploymentFiles
  <2>3. c <= b /\ b <= c
    BY <1>3, <2>1, <2>2 DEF FirstDeployments, Of
  <2>4. c \in Nat /\ b \in Nat BY ComponentsAssumption
  <2>5. QED BY <2>1, <2>2, <2>3, <2>4
<1>5. d \in DOMAIN listing BY DEF FirstDeployments
<1>6. generated[item.file] \in Content /\ generated[d] \in Content
  BY <1>2, <1>3, <1>4 DEF TypeOK, IsDirectory
<1>7. /\ Synced(generated[item.file], generated[d]) \in Content
      /\ Synced(generated[item.file], generated[d]).labels = generated[d].labels
  BY <1>6 DEF Synced, Content
<1>8. QED BY <1>1, <1>2, <1>3, <1>4, <1>5, <1>7

------------------------------------------------------------------------------
\* Types, and which command a step belongs to

LEMMA InitTyped == Init => TypeInv
<1> SUFFICES ASSUME Init PROVE TypeInv OBVIOUS
<1>1. TypeOK
  <2>1. /\ state = "CREATED" /\ command = "none" /\ step = "idle" /\ attempts = 0 /\ tried = {}
        /\ report = NoReport /\ verdict = NoVerdict
    BY DEF Init
  <2>2. attempts \in 0..max_attempts BY <2>1, AttemptsAssumption
  <2>3. left \in [commands : Nat, edits : Nat, retouches : Nat, crashes : Nat]
    BY BoundsAssumption DEF Init
  <2>4. /\ IsProfile(saved) /\ IsProfile(profile) /\ IsProfile(rendered)
        /\ IsDirectory(generated) /\ IsDirectory(bundle) /\ IsDirectory(listing)
    BY NothingTyped DEF Init
  <2>5. report.ready \in BOOLEAN /\ IsDirectory(report.about)
    BY <2>1, NothingTyped DEF NoReport
  <2>6. verdict.ready \in BOOLEAN /\ verdict.findings = {}
    BY <2>1 DEF NoVerdict
  <2>7. QED BY <2>1, <2>2, <2>3, <2>4, <2>5, <2>6 DEF TypeOK, Commands, Steps
<1>2. QED BY <1>1 DEF TypeInv, StepsOfCommands, Init

\* A command that begins, or returns
LEMMA JobTyped ==
    ASSUME NEW name \in Commands, NEW at \in Steps, NEW p, IsProfile(p), NewJob(name, at, p)
    PROVE  /\ command' = name /\ step' = at /\ verdict' = NoVerdict
           /\ command' \in Commands /\ step' \in Steps /\ IsProfile(profile)' /\ IsDirectory(listing)'
           /\ verdict'.ready \in BOOLEAN /\ verdict'.findings = {}
           /\ tried' \subseteq REPAIRABLE_CODES /\ attempts' \in 0..max_attempts
  BY NothingTyped, AttemptsAssumption DEF NewJob, NoVerdict, IsProfile, IsDirectory

LEMMA ReturnTyped ==
    ASSUME Return
    PROVE  /\ command' = "none" /\ step' = "idle" /\ verdict' = NoVerdict
           /\ command' \in Commands /\ step' \in Steps /\ IsProfile(profile)' /\ IsDirectory(listing)'
           /\ verdict'.ready \in BOOLEAN /\ verdict'.findings = {}
           /\ tried' \subseteq REPAIRABLE_CODES /\ attempts' \in 0..max_attempts
<1>1. "none" \in Commands /\ "idle" \in Steps BY DEF Commands, Steps
<1>2. NewJob("none", "idle", NoProfile) BY DEF Return
<1>3. QED BY <1>1, <1>2, NothingTyped, JobTyped

LEMMA TypedCommands ==
    ASSUME TypeInv
    PROVE  /\ \A p \in Profiles : Prepare(p) \/ Resume(p) => TypeInv'
           /\ Generate => TypeInv'
           /\ Validate => TypeInv'
<1> USE DEF TypeInv
<1>1. /\ "pipeline" \in Commands /\ "generate" \in Commands /\ "validate" \in Commands
      /\ "render" \in Steps /\ "validate" \in Steps
  BY DEF Commands, Steps
<1>2. IsProfile(saved) /\ \A p \in Profiles : IsProfile(p) BY ProfilesTyped DEF TypeOK
<1>3. ASSUME NEW name \in {"pipeline", "generate"}, NEW q, IsProfile(q), Type(name, "render", q)
      PROVE  /\ StepsOfCommands'
             /\ left' \in [commands : Nat, edits : Nat, retouches : Nat, crashes : Nat]
             /\ command' \in Commands /\ step' \in Steps /\ IsProfile(profile)' /\ IsDirectory(listing)'
             /\ verdict'.ready \in BOOLEAN /\ verdict'.findings = {}
             /\ tried' \subseteq REPAIRABLE_CODES /\ attempts' \in 0..max_attempts
  <2>1. NewJob(name, "render", q) BY <1>3 DEF Type
  <2>2. left' \in [commands : Nat, edits : Nat, retouches : Nat, crashes : Nat]
    BY <1>3 DEF Type, TypeOK
  <2>3. /\ command' = name /\ step' = "render" /\ verdict' = NoVerdict
        /\ command' \in Commands /\ step' \in Steps /\ IsProfile(profile)' /\ IsDirectory(listing)'
        /\ verdict'.ready \in BOOLEAN /\ verdict'.findings = {}
        /\ tried' \subseteq REPAIRABLE_CODES /\ attempts' \in 0..max_attempts
    BY <2>1, <1>1, <1>3, JobTyped
  <2>4. QED BY <2>2, <2>3 DEF StepsOfCommands
<1>4. ASSUME NEW p \in Profiles, Prepare(p) PROVE TypeInv'
  <2>1. Type("pipeline", "render", p) BY <1>4 DEF Prepare
  <2>2. /\ state' = "ANALYZING" /\ IsProfile(saved)' /\ IsDirectory(generated)' /\ IsDirectory(bundle)'
        /\ report' = NoReport /\ IsProfile(rendered)'
    BY <1>4, NothingTyped DEF Prepare, IsProfile, IsDirectory
  <2>3. report'.ready \in BOOLEAN /\ IsDirectory(report'.about)
    BY <2>2, NothingTyped DEF NoReport
  <2>4. QED BY <2>1, <2>2, <2>3, <1>2, <1>3 DEF TypeOK, IsDirectory
<1>5. ASSUME NEW p \in Profiles, Resume(p) PROVE TypeInv'
  <2>1. Type("pipeline", "render", p) /\ UNCHANGED <<directory, rendered>>
    BY <1>5 DEF Resume
  <2>2. QED BY <2>1, <1>2, <1>3 DEF TypeOK, directory, IsProfile, IsDirectory
<1>6. ASSUME Generate PROVE TypeInv'
  <2>1. Type("generate", "render", saved) /\ UNCHANGED <<directory, rendered>>
    BY <1>6 DEF Generate
  <2>2. QED BY <2>1, <1>2, <1>3 DEF TypeOK, directory, IsProfile, IsDirectory
<1>7. ASSUME Validate PROVE TypeInv'
  <2>1. /\ step = "idle" /\ verdict = NoVerdict
    BY <1>7 DEF Validate, StepsOfCommands
  <2>2. /\ UNCHANGED <<state, saved, generated, bundle, report, profile, verdict, tried, attempts, rendered>>
        /\ command' = "validate" /\ step' = "validate" /\ listing' = bundle
    BY <1>7 DEF Validate, directory
  <2>3. left' \in [commands : Nat, edits : Nat, retouches : Nat, crashes : Nat]
    BY <1>7 DEF Validate, TypeOK
  <2>4. verdict'.findings = {} BY <2>1, <2>2 DEF NoVerdict
  <2>5. TypeOK' BY <2>2, <2>3, <2>4, <1>1 DEF TypeOK, IsProfile, IsDirectory
  <2>6. StepsOfCommands' BY <2>2 DEF StepsOfCommands
  <2>7. QED BY <2>5, <2>6
<1>8. QED BY <1>4, <1>5, <1>6, <1>7

\* Writing a listing or an attempt, and what a hand puts in a file
LEMMA TypedRendering ==
    ASSUME TypeInv
    PROVE  /\ Render => TypeInv'
           /\ CrashRendering => TypeInv'
<1> USE DEF TypeInv
<1>1. IsProfile(profile) /\ IsDirectory(generated) BY DEF TypeOK
<1>2. ASSUME Render PROVE TypeInv'
  <2>1. /\ generated' = Overwrite([f \in Rendered(profile) |-> Manifest(profile, f)])
        /\ listing' = generated' /\ rendered' = profile
        /\ step' = IF command = "generate" THEN "save_bundle" ELSE "validate"
        /\ UNCHANGED <<state, saved, bundle, report, command, profile, verdict, tried, attempts, left>>
    BY <1>2 DEF Render
  <2>2. IsDirectory(generated)' /\ IsDirectory(listing)' /\ IsProfile(rendered)'
    BY <1>1, <2>1, RenderingTyped DEF IsDirectory, IsProfile
  <2>3. step = "render" /\ command \in {"pipeline", "generate"} /\ verdict = NoVerdict
    BY <1>2 DEF Render, StepsOfCommands
  <2>4. verdict'.findings = {} BY <2>1, <2>3 DEF NoVerdict
  <2>5. TypeOK' BY <2>1, <2>2, <2>4 DEF TypeOK, Steps, IsProfile, IsDirectory
  <2>6. StepsOfCommands' BY <2>1, <2>3 DEF StepsOfCommands
  <2>7. QED BY <2>5, <2>6
<1>3. ASSUME CrashRendering PROVE TypeInv'
  <2>1. PICK f \in Rendered(profile) \cap ResourceFiles :
          generated' = Overwrite(
            [g \in {h \in Rendered(profile) \cap ResourceFiles : Rank(h) <= Rank(f)} |->
                IF g = f THEN Text("Empty") ELSE Manifest(profile, g)])
    BY <1>3 DEF CrashRendering
  <2>2. IsDirectory([g \in {h \in Rendered(profile) \cap ResourceFiles : Rank(h) <= Rank(f)} |->
                        IF g = f THEN Text("Empty") ELSE Manifest(profile, g)])
    BY <1>1, RenderedTyped, TextsTyped, FilesApart DEF IsDirectory
  <2>3. IsDirectory(generated)' BY <1>1, <2>1, <2>2, OverwriteTyped DEF IsDirectory
  <2>4. /\ left' \in [commands : Nat, edits : Nat, retouches : Nat, crashes : Nat]
        /\ Return /\ UNCHANGED <<state, saved, bundle, report>> /\ rendered' = NoProfile
    BY <1>3 DEF CrashRendering, Die, TypeOK
  <2>5. IsProfile(rendered)' BY <2>4, NothingTyped DEF IsProfile
  <2>6. TypeOK' BY <2>3, <2>4, <2>5, ReturnTyped DEF TypeOK, IsProfile, IsDirectory
  <2>7. StepsOfCommands' BY <2>4, ReturnTyped DEF StepsOfCommands
  <2>8. QED BY <2>6, <2>7
<1>4. QED BY <1>2, <1>3

\* A command that returns, and leaves all files but the report alone
LEMMA TypedReturn ==
    ASSUME TypeInv, Return, state' \in {state, "READY", "FAILED"},
           UNCHANGED <<saved, bundle, rendered>>, IsDirectory(generated)',
           report'.ready \in BOOLEAN, IsDirectory(report'.about),
           left' \in [commands : Nat, edits : Nat, retouches : Nat, crashes : Nat]
    PROVE  TypeInv'
<1>1. TypeOK' BY ReturnTyped DEF TypeInv, TypeOK, IsProfile, IsDirectory
<1>2. StepsOfCommands' BY ReturnTyped DEF StepsOfCommands
<1>3. QED BY <1>1, <1>2 DEF TypeInv

LEMMA TypedValidation ==
    ASSUME TypeInv
    PROVE  /\ Check => TypeInv'
           /\ Revalidate => TypeInv'
           /\ Conclude => TypeInv'
<1> USE DEF TypeInv
<1>1. ASSUME Check PROVE TypeInv'
  <2>0. /\ Judge /\ step = "validate"
        /\ UNCHANGED <<directory, command, profile, listing, tried, attempts, rendered, left>>
        /\ step' = IF command = "validate" THEN "save_report"
                   ELSE IF verdict'.ready THEN "save_bundle" ELSE "repair"
    BY <1>1 DEF Check
  <2>1. /\ step' \in {"save_report", "save_bundle", "repair"}
        /\ step' = "save_report" <=> command = "validate"
    BY <2>0
  <2>2. TypeOK' BY <2>0, <2>1, VerdictTyped DEF TypeOK, directory, Steps, IsProfile, IsDirectory
  <2>3. StepsOfCommands' BY <2>0, <2>1 DEF StepsOfCommands
  <2>4. QED BY <2>2, <2>3
<1>2. ASSUME Revalidate PROVE TypeInv'
  <2>1. /\ Judge /\ step = "revalidate"
        /\ UNCHANGED <<state, saved, bundle, report, command, profile, listing, tried, attempts, rendered, left>>
        /\ generated' = Overwrite([f \in {Of("attempt", attempts)} |-> Text("Attempt")])
        /\ step' \in {"conclude", "repair"}
    BY <1>2 DEF Revalidate
  <2>2. Of("attempt", attempts) \in AttemptFiles
    BY <2>1, AttemptsAssumption DEF StepsOfCommands, TypeOK, AttemptFiles
  <2>3. IsDirectory(generated)'
    <3>1. Of("attempt", attempts) \in File /\ Text("Attempt") \in Content
      BY <2>2, FilesApart, TextsTyped
    <3>2. IsDirectory(generated) BY DEF TypeOK
    <3>3. IsDirectory(Overwrite([f \in {Of("attempt", attempts)} |-> Text("Attempt")]))
      BY <3>1, <3>2, WritingTyped
    <3>4. QED BY <2>1, <3>3 DEF IsDirectory
  <2>4. TypeOK' BY <2>1, <2>3, VerdictTyped DEF TypeOK, Steps, IsProfile, IsDirectory
  <2>5. StepsOfCommands' BY <2>1 DEF StepsOfCommands
  <2>6. QED BY <2>4, <2>5
<1>3. ASSUME Conclude PROVE TypeInv'
  <2>1. /\ Judge /\ step = "conclude" /\ step' = "save_bundle"
        /\ UNCHANGED <<directory, command, profile, listing, tried, attempts, rendered, left>>
    BY <1>3 DEF Conclude
  <2>2. TypeOK' BY <2>1, VerdictTyped DEF TypeOK, directory, Steps, IsProfile, IsDirectory
  <2>3. StepsOfCommands' BY <2>1 DEF StepsOfCommands
  <2>4. QED BY <2>2, <2>3
<1>4. QED BY <1>1, <1>2, <1>3

LEMMA TypedRepair ==
    ASSUME TypeInv
    PROVE  /\ Raise => TypeInv'
           /\ Sync => TypeInv'
           /\ GiveUp => TypeInv'
<1> USE DEF TypeInv
<1>1. ASSUME Raise PROVE TypeInv'
  <2>1. Return /\ state' \in {state, "FAILED"} /\ UNCHANGED <<saved, generated, bundle, report, rendered, left>>
    BY <1>1 DEF Raise
  <2>2. QED BY <2>1, TypedReturn DEF TypeOK, IsDirectory
<1>2. ASSUME Sync PROVE TypeInv'
  <2>1. PICK item \in Repairable, d \in FirstDeployments(DOMAIN listing) :
          /\ CanSync(item.file, DOMAIN listing)
          /\ tried' = tried \cup {item.code}
          /\ generated' = [generated EXCEPT ![item.file] = Synced(@, generated[d])]
    BY <1>2 DEF Sync
  <2>2. /\ step = "repair" /\ attempts < max_attempts /\ attempts' = attempts + 1 /\ step' = "revalidate"
        /\ UNCHANGED <<state, saved, bundle, report, command, profile, listing, verdict, rendered, left>>
    BY <1>2 DEF Sync
  <2>3. /\ item.file \in DOMAIN generated /\ item.code \in REPAIRABLE_CODES
        /\ Synced(generated[item.file], generated[d]) \in Content
    BY <2>1, SyncWrites
  <2>4. item.file \in File BY <2>3 DEF TypeOK, IsDirectory
  <2>5. generated' = [generated EXCEPT ![item.file] = Synced(generated[item.file], generated[d])]
    BY <2>1
  <2>6. IsDirectory(generated)' BY <2>3, <2>4, <2>5, WritingTyped DEF TypeOK, IsDirectory
  <2>7. attempts' \in 0..max_attempts /\ attempts' >= 1
    BY <2>2, AttemptsAssumption DEF TypeOK
  <2>8. TypeOK' BY <2>1, <2>2, <2>3, <2>6, <2>7 DEF TypeOK, Steps, IsProfile, IsDirectory
  <2>9. StepsOfCommands' BY <2>2, <2>7 DEF StepsOfCommands
  <2>10. QED BY <2>8, <2>9
<1>3. ASSUME GiveUp PROVE TypeInv'
  <2>1. /\ step = "repair" /\ step' = "conclude"
        /\ UNCHANGED <<directory, command, profile, listing, verdict, tried, attempts, rendered, left>>
    BY <1>3 DEF GiveUp
  <2>2. TypeOK' BY <2>1 DEF TypeOK, directory, Steps, IsProfile, IsDirectory
  <2>3. StepsOfCommands' BY <2>1 DEF StepsOfCommands
  <2>4. QED BY <2>2, <2>3
<1>4. QED BY <1>1, <1>2, <1>3

LEMMA TypedSaving ==
    ASSUME TypeInv
    PROVE  /\ SaveBundle => TypeInv'
           /\ SaveProfile => TypeInv'
           /\ SaveReport => TypeInv'
           /\ Finish => TypeInv'
<1> USE DEF TypeInv
<1>1. ASSUME SaveBundle PROVE TypeInv'
  <2>1. /\ bundle' = listing /\ UNCHANGED <<state, saved, report, rendered, left>>
        /\ generated' = Overwrite([f \in {BundleFile} |-> Text("Listing")])
        /\ step = "save_bundle"
    BY <1>1 DEF SaveBundle
  <2>2. IsDirectory(generated)' /\ IsDirectory(bundle)'
    BY <2>1, WritingTyped, FilesApart, TextsTyped DEF TypeOK, IsDirectory
  <2>3. CASE command = "generate"
    <3>1. Return BY <1>1, <2>3 DEF SaveBundle
    <3>2. TypeOK' BY <2>1, <2>2, <3>1, ReturnTyped DEF TypeOK, IsProfile, IsDirectory
    <3>3. StepsOfCommands' BY <3>1, ReturnTyped DEF StepsOfCommands
    <3>4. QED BY <3>2, <3>3
  <2>4. CASE command # "generate"
    <3>1. step' = "save_profile" /\ UNCHANGED <<command, profile, listing, verdict, tried, attempts>>
      BY <1>1, <2>4 DEF SaveBundle
    <3>2. TypeOK' BY <2>1, <2>2, <3>1 DEF TypeOK, Steps, IsProfile, IsDirectory
    <3>3. StepsOfCommands' BY <2>1, <2>4, <3>1 DEF StepsOfCommands
    <3>4. QED BY <3>2, <3>3
  <2>5. QED BY <2>3, <2>4
<1>2. ASSUME SaveProfile PROVE TypeInv'
  <2>1. /\ step = "save_profile" /\ saved' = profile /\ step' = "save_report"
        /\ UNCHANGED <<state, generated, bundle, report, command, profile, listing, verdict, tried,
                       attempts, rendered, left>>
    BY <1>2 DEF SaveProfile
  <2>2. TypeOK' BY <2>1 DEF TypeOK, Steps, IsProfile, IsDirectory
  <2>3. StepsOfCommands' BY <2>1 DEF StepsOfCommands
  <2>4. QED BY <2>2, <2>3
<1>3. ASSUME SaveReport PROVE TypeInv'
  <2>1. /\ step = "save_report" /\ report' = [ready |-> verdict.ready, about |-> listing]
        /\ UNCHANGED <<state, saved, generated, bundle, rendered, left>>
    BY <1>3 DEF SaveReport
  <2>2. report'.ready \in BOOLEAN /\ IsDirectory(report'.about) BY <2>1 DEF TypeOK
  <2>3. CASE command = "validate"
    <3>1. Return BY <1>3, <2>3 DEF SaveReport
    <3>2. QED BY <2>1, <2>2, <3>1, TypedReturn DEF TypeOK, IsDirectory
  <2>4. CASE command # "validate"
    <3>1. step' = "finish" /\ UNCHANGED <<command, profile, listing, verdict, tried, attempts>>
      BY <1>3, <2>4 DEF SaveReport
    <3>2. TypeOK' BY <2>1, <2>2, <3>1 DEF TypeOK, Steps, IsProfile, IsDirectory
    <3>3. StepsOfCommands' BY <2>1, <2>4, <3>1 DEF StepsOfCommands
    <3>4. QED BY <3>2, <3>3
  <2>5. QED BY <2>3, <2>4
<1>4. ASSUME Finish PROVE TypeInv'
  <2>1. Return /\ state' \in {"READY", "FAILED"} /\ UNCHANGED <<saved, generated, bundle, report, rendered, left>>
    BY <1>4 DEF Finish
  <2>2. QED BY <2>1, TypedReturn DEF TypeOK, IsDirectory
<1>5. QED BY <1>1, <1>2, <1>3, <1>4

LEMMA HandEditsTyped ==
    ASSUME TypeOK, NEW f \in DOMAIN generated PROVE HandEdits(f) \subseteq Content
<1>1. \A g \in DOMAIN generated : generated[g] \in Content BY DEF TypeOK, IsDirectory
<1>2. \A port \in Ports : [generated[f] EXCEPT !.ports = {port}] \in Content
  BY <1>1 DEF Content
<1>3. QED BY <1>1, <1>2, TextsTyped DEF HandEdits

LEMMA TypedEnvironment ==
    ASSUME TypeInv
    PROVE  /\ EditProfile => TypeInv'
           /\ Retouch => TypeInv'
           /\ Crash => TypeInv'
<1> USE DEF TypeInv
<1>1. ASSUME EditProfile PROVE TypeInv'
  <2>1. /\ saved' \in Profiles /\ left' = [left EXCEPT !.edits = @ - 1] /\ left.edits > 0
        /\ UNCHANGED <<state, generated, bundle, report, job, rendered>>
    BY <1>1 DEF EditProfile
  <2>2. IsProfile(saved)' BY <2>1, ProfilesTyped DEF IsProfile
  <2>3. left' \in [commands : Nat, edits : Nat, retouches : Nat, crashes : Nat]
    BY <2>1 DEF TypeOK
  <2>4. TypeOK' BY <2>1, <2>2, <2>3 DEF TypeOK, job, IsProfile, IsDirectory
  <2>5. StepsOfCommands' BY <2>1 DEF StepsOfCommands, job
  <2>6. QED BY <2>4, <2>5
<1>2. ASSUME Retouch PROVE TypeInv'
  <2>1. /\ left' = [left EXCEPT !.retouches = @ - 1] /\ left.retouches > 0
        /\ UNCHANGED <<state, saved, bundle, report, job, rendered>>
    BY <1>2 DEF Retouch
  <2>2. PICK f \in DOMAIN generated \cap ResourceFiles :
          \/ \E text \in HandEdits(f) : generated' = [generated EXCEPT ![f] = text]
          \/ generated' = [g \in DOMAIN generated \ {f} |-> generated[g]]
    BY <1>2 DEF Retouch
  <2>5. IsDirectory(generated)'
    <3>1. CASE \E text \in HandEdits(f) : generated' = [generated EXCEPT ![f] = text]
      BY <3>1, HandEditsTyped, WritingTyped, FilesApart DEF TypeOK, IsDirectory
    <3>2. CASE generated' = [g \in DOMAIN generated \ {f} |-> generated[g]]
      BY <3>2 DEF TypeOK, IsDirectory
    <3>3. QED BY <2>2, <3>1, <3>2
  <2>6. left' \in [commands : Nat, edits : Nat, retouches : Nat, crashes : Nat]
    BY <2>1 DEF TypeOK
  <2>7. TypeOK' BY <2>1, <2>5, <2>6 DEF TypeOK, job, IsProfile, IsDirectory
  <2>8. StepsOfCommands' BY <2>1 DEF StepsOfCommands, job
  <2>9. QED BY <2>7, <2>8
<1>3. ASSUME Crash PROVE TypeInv'
  <2>1. /\ left' \in [commands : Nat, edits : Nat, retouches : Nat, crashes : Nat]
        /\ Return /\ UNCHANGED <<state, saved, bundle, report, generated, rendered>>
    BY <1>3 DEF Crash, Die, TypeOK
  <2>2. QED BY <2>1, TypedReturn DEF TypeOK, IsDirectory
<1>4. QED BY <1>1, <1>2, <1>3

LEMMA TypedStep == TypeInv /\ [Next]_vars => TypeInv'
<1> SUFFICES ASSUME TypeInv, [Next]_vars PROVE TypeInv' OBVIOUS
<1>1. CASE \E p \in Profiles : Prepare(p) \/ Resume(p) BY <1>1, TypedCommands
<1>2. CASE Generate \/ Validate BY <1>2, TypedCommands
<1>3. CASE Step
  BY <1>3, TypedRendering, TypedRepair, TypedValidation, TypedSaving DEF Step
<1>4. CASE EditProfile \/ Retouch \/ Crash BY <1>4, TypedEnvironment
<1>5. CASE CrashRendering BY <1>5, TypedRendering
<1>6. CASE UNCHANGED vars
  BY <1>6 DEF TypeInv, TypeOK, StepsOfCommands, vars, directory, job, IsProfile, IsDirectory
<1>7. QED BY <1>1, <1>2, <1>3, <1>4, <1>5, <1>6 DEF Next

\* Every variable has its type in every reachable state, and the findings of a
\* verdict are about listed files.
THEOREM TypeCorrect == Spec => []TypeOK
<1>1. Init => TypeInv BY InitTyped
<1>2. TypeInv /\ [Next]_vars => TypeInv' BY TypedStep
<1>3. TypeInv => TypeOK BY DEF TypeInv
<1>4. QED BY <1>1, <1>2, <1>3, PTL DEF Spec

------------------------------------------------------------------------------
\* The loop of repairs

LEMMA CodesCount ==
    /\ IsFiniteSet(REPAIRABLE_CODES) /\ Cardinality(REPAIRABLE_CODES) <= 2
    /\ \A codes \in SUBSET REPAIRABLE_CODES : IsFiniteSet(codes) /\ Cardinality(codes) <= 2
<1> DEFINE a == "service_selector_mismatch"
           b == "service_target_port_mismatch"
<1>1. IsFiniteSet({}) /\ Cardinality({}) = 0 BY FS_EmptySet
<1>2. IsFiniteSet({a}) /\ Cardinality({a}) = 1 BY FS_Singleton
<1>3. IsFiniteSet({a} \cup {b}) /\ Cardinality({a} \cup {b}) \in {1, 2}
  BY <1>2, FS_AddElement
<1>4. REPAIRABLE_CODES = {a} \cup {b} BY DEF REPAIRABLE_CODES
<1>5. IsFiniteSet(REPAIRABLE_CODES) /\ Cardinality(REPAIRABLE_CODES) \in {1, 2}
  BY <1>3, <1>4
<1>6. ASSUME NEW codes \in SUBSET REPAIRABLE_CODES
      PROVE  IsFiniteSet(codes) /\ Cardinality(codes) <= 2
  <2>1. /\ IsFiniteSet(codes) /\ Cardinality(codes) <= Cardinality(REPAIRABLE_CODES)
        /\ Cardinality(codes) \in Nat
    BY <1>5, FS_Subset, FS_CardinalityType
  <2>2. QED BY <2>1, <1>5
<1>7. QED BY <1>5, <1>6

BoundedInv == TypeInv /\ attempts <= Cardinality(tried)

LEMMA BoundedStep == BoundedInv /\ [Next]_vars => BoundedInv'
<1> SUFFICES ASSUME BoundedInv, [Next]_vars PROVE attempts' <= Cardinality(tried')
  BY TypedStep DEF BoundedInv
<1>1. attempts \in Nat /\ tried \subseteq REPAIRABLE_CODES /\ IsFiniteSet(tried)
  BY CodesCount, AttemptsAssumption DEF BoundedInv, TypeInv, TypeOK
<1>2. ASSUME tried' = {}, attempts' = 0 PROVE attempts' <= Cardinality(tried')
  BY <1>2, FS_EmptySet
<1>3. ASSUME UNCHANGED <<tried, attempts>> PROVE attempts' <= Cardinality(tried')
  BY <1>3 DEF BoundedInv
<1>4. CASE \E p \in Profiles : Prepare(p) \/ Resume(p)
  BY <1>2, <1>4 DEF Prepare, Resume, Type, NewJob
<1>5. CASE Generate BY <1>2, <1>5 DEF Generate, Type, NewJob
<1>6. CASE Validate \/ EditProfile \/ Retouch \/ Render \/ Check \/ Revalidate \/ GiveUp \/ Conclude \/ SaveProfile
  BY <1>3, <1>6 DEF Validate, EditProfile, Retouch, Render, Check, Revalidate, GiveUp, Conclude,
                    SaveProfile, job
<1>7. CASE Raise \/ Finish \/ Crash \/ CrashRendering
  BY <1>2, <1>7 DEF Raise, Finish, Crash, CrashRendering, Die, Return, NewJob
<1>8. CASE SaveBundle \/ SaveReport
  BY <1>2, <1>3, <1>8 DEF SaveBundle, SaveReport, Return, NewJob
<1>9. CASE Sync
  <2>1. PICK item \in Repairable : item.code \notin tried /\ tried' = tried \cup {item.code}
    BY <1>9 DEF Sync
  <2>2. Cardinality(tried') = Cardinality(tried) + 1
    BY <1>1, <2>1, FS_AddElement
  <2>3. attempts' = attempts + 1 BY <1>9 DEF Sync
  <2>4. Cardinality(tried) \in Nat BY <1>1, FS_CardinalityType
  <2>5. QED BY <1>1, <2>2, <2>3, <2>4 DEF BoundedInv
<1>10. CASE UNCHANGED vars BY <1>3, <1>10 DEF vars, job
<1>11. QED BY <1>4, <1>5, <1>6, <1>7, <1>8, <1>9, <1>10 DEF Next, Step

\* However often the repair loop goes round, each attempt takes one of the two
\* codes it can repair, and none is taken twice: the third of max_attempts
\* never comes.
THEOREM RepairIsBounded == Spec => []RepairBounded
<1>1. Init => BoundedInv
  BY InitTyped, FS_EmptySet DEF Init, BoundedInv
<1>2. BoundedInv => RepairBounded
  BY CodesCount DEF BoundedInv, TypeInv, TypeOK, RepairBounded
<1>3. QED BY <1>1, <1>2, BoundedStep, PTL DEF Spec

------------------------------------------------------------------------------
\* The files rendered last

\* Findings are about the contents of the listed files, and nothing else.
LEMMA FindingsSame ==
    ASSUME UNCHANGED listing, DOMAIN listing \subseteq DOMAIN generated,
           \A f \in DOMAIN listing : generated'[f] = generated[f]
    PROVE  Findings(DOMAIN listing)' = Findings(DOMAIN listing)
<1> DEFINE L == DOMAIN listing
<1>0. L' = L OBVIOUS
<1>1. \A kind : Listed(kind, L)' = Listed(kind, L) BY <1>0 DEF Listed
<1>2. PodLabels(L)' = PodLabels(L) BY <1>0, <1>1 DEF PodLabels, Listed
<1>3. container_ports(L)' = container_ports(L)
  <2>1. {generated'[f].ports : f \in Listed("Deployment", L)} =
          {generated[f].ports : f \in Listed("Deployment", L)}
    BY DEF Listed
  <2>2. QED BY <2>1, <1>1 DEF container_ports
<1>4. Duplicates(L)' = Duplicates(L)
  BY <1>0 DEF Duplicates
<1>5. SelectingNoPod(L)' = SelectingNoPod(L) /\ ReachingNoPort(L)' = ReachingNoPort(L)
  BY <1>1, <1>2, <1>3 DEF SelectingNoPod, ReachingNoPort, Listed
<1>6. QED BY <1>1, <1>4, <1>5 DEF Findings

\* A rendered service has its deployment beside it, so that no finding the
\* repair would write it for is about it.
LEMMA RenderedHaveNoFinding ==
    ASSUME NEW p, IsProfile(p), NEW L, Rendered(p) \subseteq L,
           \A f \in Rendered(p) : generated[f] = Manifest(p, f),
           NEW item \in Findings(L), item.code \in REPAIRABLE_CODES
    PROVE  item.file \notin Rendered(p)
<1> SUFFICES ASSUME item.file \in Rendered(p) PROVE FALSE OBVIOUS
<1> DEFINE f == item.file
<1>1. /\ f \in Listed("Service", L)
      /\ generated[f].labels \notin PodLabels(L) \/ ~ generated[f].ports \subseteq container_ports(L)
  BY DEF Findings, Finding, REPAIRABLE_CODES, SelectingNoPod, ReachingNoPort
<1>2. generated[f] = Manifest(p, f) /\ Manifest(p, f).kind = "Service"
  BY <1>1 DEF Listed
<1>3. f \notin Kustomizations BY <1>2 DEF Kustomizations, Manifest, Of, Text
<1>4. PICK c \in DOMAIN p : f \in {Of("deployment", c), Of("service", c), Of("ingress", c)}
  BY <1>3 DEF Rendered
<1>5. generated[f] = Resource("Service", c, PortOf(p, c))
  BY <1>2, <1>4 DEF Manifest, Of, Resource
<1>6. /\ Of("deployment", c) \in Rendered(p)
      /\ Manifest(p, Of("deployment", c)) = Resource("Deployment", c, PortOf(p, c))
  BY DEF Rendered, Manifest, Of
<1>7. /\ Of("deployment", c) \in Listed("Deployment", L)
      /\ generated[Of("deployment", c)] = Resource("Deployment", c, PortOf(p, c))
  BY <1>6 DEF Listed, Resource
<1>8. generated[f].labels \in PodLabels(L)
  BY <1>5, <1>7 DEF PodLabels, Resource
<1>9. generated[f].ports \subseteq container_ports(L)
  BY <1>5, <1>7 DEF container_ports, Resource
<1>10. QED BY <1>1, <1>8, <1>9

LEMMA RepairableSpareRendered ==
    ASSUME FilesInv, Judge, Rendered(rendered) \subseteq DOMAIN listing, UNCHANGED <<left, rendered>>
    PROVE  Unedited /\ rendered # NoProfile =>
                \A item \in Repairable' : item.file \notin Rendered(rendered)
<1> SUFFICES ASSUME Unedited, rendered # NoProfile, NEW item \in Repairable'
             PROVE  item.file \notin Rendered(rendered)
  OBVIOUS
<1>1. item \in Findings(DOMAIN listing) /\ item.code \in REPAIRABLE_CODES
  BY VerdictTyped DEF Repairable
<1>2. \A f \in Rendered(rendered) : generated[f] = Manifest(rendered, f)
  BY DEF FilesInv, RenderedFilesStand, Unedited
<1>3. IsProfile(rendered) BY DEF FilesInv, TypeInv, TypeOK
<1>4. QED BY <1>1, <1>2, <1>3, RenderedHaveNoFinding

\* Writing beside the rendered files leaves them as they are.
LEMMA WritingBeside ==
    ASSUME FilesInv, NEW f \in {BundleFile} \cup AttemptFiles, NEW text,
           generated' = Overwrite([g \in {f} |-> text]), UNCHANGED <<rendered, left>>
    PROVE  /\ RenderedFilesStand'
           /\ BundleFile \in DOMAIN generated' =>
                generated'[BundleFile] = IF f = BundleFile THEN text ELSE Text("Listing")
<1>1. \A g \in DOMAIN generated \ {f} : g \in DOMAIN generated' /\ generated'[g] = generated[g]
  BY DEF Overwrite
<1>2. f \in DOMAIN generated' /\ generated'[f] = text
  BY DEF Overwrite
<1>3. f \notin Rendered(rendered)
  BY RenderedTyped, FilesApart DEF FilesInv, TypeInv, TypeOK
<1>4. RenderedFilesStand'
  <2> SUFFICES ASSUME Unedited, rendered # NoProfile, NEW g \in Rendered(rendered)
               PROVE  g \in DOMAIN generated' /\ generated'[g] = Manifest(rendered, g)
    BY DEF RenderedFilesStand, Unedited
  <2>1. g \in DOMAIN generated /\ generated[g] = Manifest(rendered, g)
    BY DEF FilesInv, RenderedFilesStand, Unedited
  <2>2. QED BY <1>1, <1>3, <2>1
<1>5. BundleFile \in DOMAIN generated' =>
        generated'[BundleFile] = IF f = BundleFile THEN text ELSE Text("Listing")
  <2>1. BundleFile \in DOMAIN generated' /\ f # BundleFile => BundleFile \in DOMAIN generated
    BY DEF Overwrite
  <2>2. QED BY <1>1, <1>2, <2>1 DEF FilesInv, BundleIsListing
<1>6. QED BY <1>4, <1>5

LEMMA InitFiles == Init => FilesInv
<1> SUFFICES ASSUME Init PROVE FilesInv OBVIOUS
<1>1. TypeInv BY InitTyped
<1>2. EditsCounted BY BoundsAssumption DEF Init, EditsCounted
<1>3. rendered = NoProfile /\ step = "idle" /\ DOMAIN generated = {}
  BY DEF Init
<1>4. QED BY <1>1, <1>2, <1>3
       DEF FilesInv, BundleIsListing, RenderedFilesStand, RenderedAreListed, RepairsSpareRendered,
           ReadyHasNoFindings

\* What the facts about files say between commands
LEMMA IdleFiles ==
    ASSUME FilesInv, TypeInv', EditsCounted', step' \in {"idle", "render"},
           \/ rendered' = NoProfile /\ BundleIsListing'
           \/ UNCHANGED <<generated, rendered>> /\ left'.retouches = left.retouches
    PROVE  FilesInv'
<1>1. BundleIsListing' /\ RenderedFilesStand'
  BY DEF FilesInv, BundleIsListing, RenderedFilesStand
<1>2. QED BY <1>1
       DEF FilesInv, RenderedAreListed, RepairsSpareRendered, ReadyHasNoFindings

LEMMA FilesOfCommands ==
    ASSUME FilesInv, TypeInv'
    PROVE  /\ \A p \in Profiles : Prepare(p) \/ Resume(p) => FilesInv'
           /\ Generate \/ Validate => FilesInv'
<1>1. EditsCounted /\ left.retouches \in Nat BY DEF FilesInv, TypeInv, TypeOK
<1>2. ASSUME NEW p \in Profiles, Prepare(p) PROVE FilesInv'
  <2>1. step' = "render" /\ rendered' = NoProfile /\ generated' = <<>> /\ left'.retouches = left.retouches
    BY <1>2 DEF Prepare, Type, NewJob, FilesInv, TypeInv, TypeOK
  <2>2. BundleIsListing' BY <2>1 DEF BundleIsListing
  <2>3. QED BY <1>1, <2>1, <2>2, IdleFiles DEF EditsCounted
<1>3. ASSUME NEW p \in Profiles, Resume(p) PROVE FilesInv'
  <2>1. step' = "render" /\ UNCHANGED <<generated, rendered>> /\ left'.retouches = left.retouches
    BY <1>3 DEF Resume, Type, NewJob, directory, FilesInv, TypeInv, TypeOK
  <2>2. QED BY <1>1, <2>1, IdleFiles DEF EditsCounted
<1>4. ASSUME Generate PROVE FilesInv'
  <2>1. step' = "render" /\ UNCHANGED <<generated, rendered>> /\ left'.retouches = left.retouches
    BY <1>4 DEF Generate, Type, NewJob, directory, FilesInv, TypeInv, TypeOK
  <2>2. QED BY <1>1, <2>1, IdleFiles DEF EditsCounted
<1>5. ASSUME Validate PROVE FilesInv'
  <2>1. /\ step' = "validate" /\ command' = "validate"
        /\ UNCHANGED <<generated, rendered>> /\ left'.retouches = left.retouches
    BY <1>5 DEF Validate, directory, FilesInv, TypeInv, TypeOK
  <2>2. EditsCounted' /\ BundleIsListing' /\ RenderedFilesStand'
    BY <2>1 DEF FilesInv, EditsCounted, BundleIsListing, RenderedFilesStand
  <2>3. QED BY <2>1, <2>2 DEF FilesInv, RenderedAreListed, RepairsSpareRendered, ReadyHasNoFindings
<1>6. QED BY <1>2, <1>3, <1>4, <1>5

LEMMA FilesOfRendering ==
    ASSUME FilesInv, TypeInv'
    PROVE  Render \/ CrashRendering => FilesInv'
<1>1. IsProfile(profile) BY DEF FilesInv, TypeInv, TypeOK
<1>2. BundleFile \notin Rendered(profile) BY <1>1, RenderedTyped, FilesApart
<1>3. ASSUME Render PROVE FilesInv'
  <2>1. /\ generated' = Overwrite([f \in Rendered(profile) |-> Manifest(profile, f)])
        /\ listing' = generated' /\ rendered' = profile /\ UNCHANGED <<left, verdict, command>>
        /\ step = "render" /\ step' \in {"save_bundle", "validate"}
    BY <1>3 DEF Render
  <2>2. \A f \in Rendered(profile) : f \in DOMAIN generated' /\ generated'[f] = Manifest(profile, f)
    BY <2>1 DEF Overwrite
  <2>3. BundleFile \in DOMAIN generated' =>
            BundleFile \in DOMAIN generated /\ generated'[BundleFile] = generated[BundleFile]
    BY <1>2, <2>1 DEF Overwrite
  <2>4. EditsCounted' /\ BundleIsListing'
    BY <2>1, <2>3 DEF FilesInv, EditsCounted, BundleIsListing
  <2>5. RenderedFilesStand' BY <2>1, <2>2 DEF RenderedFilesStand
  <2>6. RenderedAreListed' BY <2>1, <2>2 DEF RenderedAreListed
  <2>7. ~verdict'.ready BY <2>1 DEF FilesInv, TypeInv, StepsOfCommands, NoVerdict
  <2>8. QED BY <2>1, <2>4, <2>5, <2>6, <2>7 DEF FilesInv, RepairsSpareRendered, ReadyHasNoFindings
<1>4. ASSUME CrashRendering PROVE FilesInv'
  <2>1. PICK f \in Rendered(profile) \cap ResourceFiles :
          generated' = Overwrite(
            [g \in {h \in Rendered(profile) \cap ResourceFiles : Rank(h) <= Rank(f)} |->
                IF g = f THEN Text("Empty") ELSE Manifest(profile, g)])
    BY <1>4 DEF CrashRendering
  <2>2. BundleFile \in DOMAIN generated' =>
            BundleFile \in DOMAIN generated /\ generated'[BundleFile] = generated[BundleFile]
    BY <1>2, <2>1 DEF Overwrite
  <2>3. BundleIsListing' BY <2>2 DEF FilesInv, BundleIsListing
  <2>4. rendered' = NoProfile /\ step' = "idle" /\ left'.retouches = left.retouches
    BY <1>4, ReturnTyped DEF CrashRendering, Die, FilesInv, TypeInv, TypeOK
  <2>5. QED BY <2>3, <2>4, IdleFiles DEF FilesInv, EditsCounted
<1>5. QED BY <1>3, <1>4

LEMMA FilesOfValidation ==
    ASSUME FilesInv, TypeInv'
    PROVE  Check \/ Revalidate \/ Conclude => FilesInv'
<1>1. ASSUME Check PROVE FilesInv'
  <2>1. /\ Judge /\ step = "validate" /\ Readable(DOMAIN listing)
        /\ UNCHANGED <<generated, command, listing, rendered, left>>
        /\ step' = IF command = "validate" THEN "save_report"
                   ELSE IF verdict'.ready THEN "save_bundle" ELSE "repair"
    BY <1>1 DEF Check, directory
  <2>2. EditsCounted' /\ BundleIsListing' /\ RenderedFilesStand'
    BY <2>1 DEF FilesInv, EditsCounted, BundleIsListing, RenderedFilesStand
  <2>3. RenderedAreListed'
    BY <2>1 DEF FilesInv, RenderedAreListed
  <2>4. RepairsSpareRendered'
    <3>1. ASSUME step' = "repair"
          PROVE  Rendered(rendered) \subseteq DOMAIN listing
      BY <2>1, <3>1 DEF FilesInv, RenderedAreListed, TypeInv, StepsOfCommands
    <3>2. QED BY <2>1, <3>1, RepairableSpareRendered DEF RepairsSpareRendered, Unedited
  <2>5. ReadyHasNoFindings'
    <3>1. verdict'.ready => Findings(DOMAIN listing) = {} BY <2>1, VerdictTyped
    <3>2. Findings(DOMAIN listing)' = Findings(DOMAIN listing)
      BY <2>1 DEF Findings, Listed, Duplicates, SelectingNoPod, ReachingNoPort, PodLabels, container_ports
    <3>3. QED BY <2>1, <3>1, <3>2 DEF ReadyHasNoFindings, Readable
  <2>6. QED BY <2>2, <2>3, <2>4, <2>5 DEF FilesInv
<1>2. ASSUME Revalidate PROVE FilesInv'
  <2>1. /\ Judge /\ step = "revalidate" /\ step' \in {"conclude", "repair"}
        /\ UNCHANGED <<command, listing, rendered, left>>
        /\ generated' = Overwrite([f \in {Of("attempt", attempts)} |-> Text("Attempt")])
    BY <1>2 DEF Revalidate
  <2>2. Of("attempt", attempts) \in AttemptFiles
    BY <2>1, AttemptsAssumption DEF FilesInv, TypeInv, StepsOfCommands, TypeOK, AttemptFiles
  <2>3. Of("attempt", attempts) # BundleFile BY <2>2, FilesApart
  <2>4. RenderedFilesStand' /\ BundleIsListing'
    BY <2>1, <2>2, <2>3, WritingBeside DEF BundleIsListing
  <2>5. Rendered(rendered) \subseteq DOMAIN listing
    BY <2>1 DEF FilesInv, RenderedAreListed, TypeInv, StepsOfCommands
  <2>6. RepairsSpareRendered'
    BY <2>1, <2>5, RepairableSpareRendered DEF RepairsSpareRendered, Unedited
  <2>7. EditsCounted' /\ RenderedAreListed' /\ ReadyHasNoFindings'
    BY <2>1, <2>5 DEF FilesInv, EditsCounted, RenderedAreListed, ReadyHasNoFindings
  <2>8. QED BY <2>4, <2>6, <2>7 DEF FilesInv
<1>3. ASSUME Conclude PROVE FilesInv'
  <2>1. /\ Judge /\ step' = "save_bundle" /\ Readable(DOMAIN listing)
        /\ UNCHANGED <<generated, command, listing, rendered, left>>
    BY <1>3 DEF Conclude, directory
  <2>2. EditsCounted' /\ BundleIsListing' /\ RenderedFilesStand' /\ RenderedAreListed' /\ RepairsSpareRendered'
    BY <2>1 DEF FilesInv, EditsCounted, BundleIsListing, RenderedFilesStand, RenderedAreListed,
                RepairsSpareRendered
  <2>3. verdict'.ready => Findings(DOMAIN listing) = {} BY <2>1, VerdictTyped
  <2>4. Findings(DOMAIN listing)' = Findings(DOMAIN listing)
    BY <2>1 DEF Findings, Listed, Duplicates, SelectingNoPod, ReachingNoPort, PodLabels, container_ports
  <2>5. ReadyHasNoFindings' BY <2>1, <2>3, <2>4 DEF ReadyHasNoFindings, Readable
  <2>6. QED BY <2>2, <2>5 DEF FilesInv
<1>4. QED BY <1>1, <1>2, <1>3

LEMMA FilesOfRepair ==
    ASSUME FilesInv, TypeInv'
    PROVE  Raise \/ Sync \/ GiveUp => FilesInv'
<1>1. ASSUME Raise PROVE FilesInv'
  <2>1. step' = "idle" /\ UNCHANGED <<generated, rendered, left>>
    BY <1>1, ReturnTyped DEF Raise
  <2>2. QED BY <2>1, IdleFiles DEF FilesInv, EditsCounted
<1>2. ASSUME Sync PROVE FilesInv'
  <2>1. PICK item \in Repairable, d \in FirstDeployments(DOMAIN listing) :
          /\ CanSync(item.file, DOMAIN listing)
          /\ generated' = [generated EXCEPT ![item.file] = Synced(generated[item.file], generated[d])]
    BY <1>2 DEF Sync
  <2>2. /\ step = "repair" /\ step' = "revalidate"
        /\ UNCHANGED <<command, listing, verdict, rendered, left>>
    BY <1>2 DEF Sync
  <2>3. generated[item.file].kind = "Service" /\ item.file \in DOMAIN generated
    BY <2>1, SyncWrites DEF FilesInv, TypeInv
  <2>4. item.file # BundleFile
    BY <2>3 DEF FilesInv, BundleIsListing, Text
  <2>5. BundleIsListing' BY <2>1, <2>4 DEF FilesInv, BundleIsListing
  <2>6. RenderedFilesStand'
    <3> SUFFICES ASSUME Unedited, rendered # NoProfile, NEW f \in Rendered(rendered)
                 PROVE  f \in DOMAIN generated' /\ generated'[f] = Manifest(rendered, f)
      BY <2>2 DEF RenderedFilesStand, Unedited
    <3>1. f # item.file BY <2>1, <2>2 DEF FilesInv, RepairsSpareRendered
    <3>2. f \in DOMAIN generated /\ generated[f] = Manifest(rendered, f)
      BY DEF FilesInv, RenderedFilesStand, Unedited
    <3>3. QED BY <2>1, <3>1, <3>2
  <2>7. EditsCounted' /\ RenderedAreListed' /\ RepairsSpareRendered' /\ ReadyHasNoFindings'
    BY <2>2 DEF FilesInv, EditsCounted, RenderedAreListed, RepairsSpareRendered, ReadyHasNoFindings
  <2>8. QED BY <2>5, <2>6, <2>7 DEF FilesInv
<1>3. ASSUME GiveUp PROVE FilesInv'
  <2>1. /\ step = "repair" /\ step' = "conclude"
        /\ UNCHANGED <<generated, command, listing, verdict, rendered, left>>
    BY <1>3 DEF GiveUp, directory
  <2>2. QED BY <2>1 DEF FilesInv, EditsCounted, BundleIsListing, RenderedFilesStand, RenderedAreListed,
                        RepairsSpareRendered, ReadyHasNoFindings
<1>4. QED BY <1>1, <1>2, <1>3

LEMMA FilesOfSaving ==
    ASSUME FilesInv, TypeInv'
    PROVE  SaveBundle \/ SaveProfile \/ SaveReport \/ Finish => FilesInv'
<1>1. ASSUME SaveBundle PROVE FilesInv'
  <2>1. /\ step = "save_bundle" /\ UNCHANGED <<rendered, left>>
        /\ generated' = Overwrite([f \in {BundleFile} |-> Text("Listing")])
    BY <1>1 DEF SaveBundle
  <2>2. RenderedFilesStand' /\ BundleIsListing'
    BY <2>1, WritingBeside DEF BundleIsListing
  <2>3. EditsCounted' BY <2>1 DEF FilesInv, EditsCounted
  <2>4. CASE command = "generate"
    <3>1. step' = "idle" BY <1>1, <2>4, ReturnTyped DEF SaveBundle
    <3>2. QED BY <2>2, <2>3, <3>1
           DEF FilesInv, RenderedAreListed, RepairsSpareRendered, ReadyHasNoFindings
  <2>5. CASE command # "generate"
    <3>1. step' = "save_profile" /\ UNCHANGED <<command, listing, verdict>>
      BY <1>1, <2>5 DEF SaveBundle
    <3>2. ReadyHasNoFindings'
      <4> SUFFICES ASSUME Unedited, command = "pipeline", verdict.ready
                   PROVE  /\ DOMAIN listing \subseteq DOMAIN generated'
                          /\ Findings(DOMAIN listing)' = {}
        BY <2>1, <3>1 DEF ReadyHasNoFindings, Unedited
      <4>1. DOMAIN listing \subseteq DOMAIN generated /\ Findings(DOMAIN listing) = {}
        BY <2>1 DEF FilesInv, ReadyHasNoFindings, Unedited
      <4>2. \A f \in DOMAIN generated : f \in DOMAIN generated' /\ generated'[f] = generated[f]
        BY <2>1 DEF Overwrite, FilesInv, BundleIsListing
      <4>3. \A f \in DOMAIN listing : generated'[f] = generated[f] BY <4>1, <4>2
      <4>4. Findings(DOMAIN listing)' = Findings(DOMAIN listing)
        BY <3>1, <4>1, <4>3, FindingsSame
      <4>5. QED BY <4>1, <4>2, <4>4
    <3>3. QED BY <2>2, <2>3, <3>1, <3>2 DEF FilesInv, RenderedAreListed, RepairsSpareRendered
  <2>6. QED BY <2>4, <2>5
<1>2. ASSUME SaveProfile PROVE FilesInv'
  <2>1. /\ step = "save_profile" /\ step' = "save_report"
        /\ UNCHANGED <<generated, command, listing, verdict, rendered, left>>
    BY <1>2 DEF SaveProfile
  <2>2. Findings(DOMAIN listing)' = Findings(DOMAIN listing)
    BY <2>1 DEF Findings, Listed, Duplicates, SelectingNoPod, ReachingNoPort, PodLabels, container_ports
  <2>3. QED BY <2>1, <2>2
         DEF FilesInv, EditsCounted, BundleIsListing, RenderedFilesStand, RenderedAreListed,
             RepairsSpareRendered, ReadyHasNoFindings, Unedited
<1>3. ASSUME SaveReport PROVE FilesInv'
  <2>1. step = "save_report" /\ UNCHANGED <<generated, rendered, left>> BY <1>3 DEF SaveReport
  <2>2. CASE command = "validate"
    <3>1. step' = "idle" BY <1>3, <2>2, ReturnTyped DEF SaveReport
    <3>2. QED BY <2>1, <3>1, IdleFiles DEF FilesInv, EditsCounted
  <2>3. CASE command # "validate"
    <3>1. step' = "finish" /\ UNCHANGED <<command, listing, verdict>> BY <1>3, <2>3 DEF SaveReport
    <3>2. Findings(DOMAIN listing)' = Findings(DOMAIN listing)
      BY <2>1, <3>1 DEF Findings, Listed, Duplicates, SelectingNoPod, ReachingNoPort, PodLabels, container_ports
    <3>3. QED BY <2>1, <3>1, <3>2
           DEF FilesInv, EditsCounted, BundleIsListing, RenderedFilesStand, RenderedAreListed,
               RepairsSpareRendered, ReadyHasNoFindings, Unedited
  <2>4. QED BY <2>2, <2>3
<1>4. ASSUME Finish PROVE FilesInv'
  <2>1. step' = "idle" /\ UNCHANGED <<generated, rendered, left>>
    BY <1>4, ReturnTyped DEF Finish
  <2>2. QED BY <2>1, IdleFiles DEF FilesInv, EditsCounted
<1>5. QED BY <1>1, <1>2, <1>3, <1>4

LEMMA FilesOfEnvironment ==
    ASSUME FilesInv, TypeInv'
    PROVE  EditProfile \/ Retouch \/ Crash => FilesInv'
<1>1. ASSUME EditProfile PROVE FilesInv'
  <2>1. /\ UNCHANGED <<generated, command, step, listing, verdict, rendered>>
        /\ left'.retouches = left.retouches
    BY <1>1 DEF EditProfile, job, FilesInv, TypeInv, TypeOK
  <2>2. Findings(DOMAIN listing)' = Findings(DOMAIN listing) /\ Repairable' = Repairable
    BY <2>1 DEF Findings, Listed, Duplicates, SelectingNoPod, ReachingNoPort, PodLabels, container_ports, Repairable
  <2>3. QED BY <2>1, <2>2
         DEF FilesInv, EditsCounted, BundleIsListing, RenderedFilesStand, RenderedAreListed,
             RepairsSpareRendered, ReadyHasNoFindings, Unedited
<1>2. ASSUME Retouch PROVE FilesInv'
  <2>1. /\ left' = [left EXCEPT !.retouches = @ - 1] /\ UNCHANGED <<job, rendered>>
    BY <1>2 DEF Retouch
  <2>2. left'.retouches < MaxRetouches
    BY <2>1, BoundsAssumption DEF FilesInv, EditsCounted, TypeInv, TypeOK
  <2>3. EditsCounted' /\ ~Unedited'
    BY <2>2, BoundsAssumption DEF EditsCounted, Unedited, TypeInv, TypeOK
  <2>4. BundleIsListing'
    <3>1. PICK f \in DOMAIN generated \cap ResourceFiles :
            \/ \E text : generated' = [generated EXCEPT ![f] = text]
            \/ generated' = [g \in DOMAIN generated \ {f} |-> generated[g]]
      BY <1>2 DEF Retouch
    <3>2. f # BundleFile BY FilesApart
    <3>3. QED BY <3>1, <3>2 DEF FilesInv, BundleIsListing
  <2>5. RenderedAreListed' BY <2>1 DEF FilesInv, RenderedAreListed, job
  <2>6. QED BY <2>3, <2>4, <2>5
         DEF FilesInv, RenderedFilesStand, RepairsSpareRendered, ReadyHasNoFindings, Unedited
<1>3. ASSUME Crash PROVE FilesInv'
  <2>1. step' = "idle" /\ UNCHANGED <<generated, rendered>> /\ left'.retouches = left.retouches
    BY <1>3, ReturnTyped DEF Crash, Die, FilesInv, TypeInv, TypeOK
  <2>2. QED BY <2>1, IdleFiles DEF FilesInv, EditsCounted
<1>4. QED BY <1>1, <1>2, <1>3

LEMMA FilesStep == FilesInv /\ [Next]_vars => FilesInv'
<1> SUFFICES ASSUME FilesInv, [Next]_vars PROVE FilesInv' OBVIOUS
<1>0. TypeInv' BY TypedStep DEF FilesInv
<1>1. CASE \E p \in Profiles : Prepare(p) \/ Resume(p) BY <1>0, <1>1, FilesOfCommands
<1>2. CASE Generate \/ Validate BY <1>0, <1>2, FilesOfCommands
<1>3. CASE Step
  BY <1>0, <1>3, FilesOfRendering, FilesOfRepair, FilesOfValidation, FilesOfSaving DEF Step
<1>4. CASE EditProfile \/ Retouch \/ Crash BY <1>0, <1>4, FilesOfEnvironment
<1>5. CASE CrashRendering BY <1>0, <1>5, FilesOfRendering
<1>6. CASE UNCHANGED vars
  <2>1. UNCHANGED <<generated, command, step, listing, verdict, rendered, left>>
    BY <1>6 DEF vars, directory, job
  <2>2. Findings(DOMAIN listing)' = Findings(DOMAIN listing) /\ Repairable' = Repairable
    BY <2>1 DEF Findings, Listed, Duplicates, SelectingNoPod, ReachingNoPort, PodLabels, container_ports, Repairable
  <2>3. QED BY <1>0, <2>1, <2>2
         DEF FilesInv, EditsCounted, BundleIsListing, RenderedFilesStand, RenderedAreListed,
             RepairsSpareRendered, ReadyHasNoFindings, Unedited
<1>7. QED BY <1>1, <1>2, <1>3, <1>4, <1>5, <1>6 DEF Next

\* As long as nobody edits generated files, those of the profile rendered last
\* stay as they were rendered, whatever stale file the repair writes to.
THEOREM RenderedStand == Spec => []RenderedFilesStand
<1>1. FilesInv => RenderedFilesStand BY DEF FilesInv
<1>2. QED BY <1>1, InitFiles, FilesStep, PTL DEF Spec

\* A run gets READY only with a bundle of which no file has a finding.
THEOREM ReadyVerified == Spec => ReadyIsVerified
<1> DEFINE Verified ==
      state # "READY" /\ state' = "READY" /\ left.retouches = MaxRetouches =>
        Findings(DOMAIN listing) = {}
<1>1. FilesInv /\ [Next]_vars => [Verified]_vars
  <2> SUFFICES ASSUME FilesInv, Next, state # "READY", state' = "READY",
                      left.retouches = MaxRetouches
               PROVE  Findings(DOMAIN listing) = {}
    OBVIOUS
  <2>1. Finish
    BY DEF Next, Step, Prepare, Resume, Generate, Validate, Type, directory, Render, Raise, Check, Sync,
           Revalidate, GiveUp, Conclude, SaveBundle, SaveProfile, SaveReport, EditProfile,
           Retouch, Crash, CrashRendering, Die
  <2>2. step = "finish" /\ verdict.ready BY <2>1 DEF Finish
  <2>3. QED BY <2>2 DEF FilesInv, TypeInv, StepsOfCommands, ReadyHasNoFindings, Unedited
<1>2. QED BY <1>1, InitFiles, FilesStep, PTL DEF Spec, ReadyIsVerified

=================================================================================
