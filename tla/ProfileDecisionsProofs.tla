------------------------- MODULE ProfileDecisionsProofs -------------------------
(***************************************************************************)
(* What holds of the profile and the manifests of a run for every set of   *)
(* components, commands, secrets and trees, every target and every         *)
(* sequence of commands, answers, edits and crashes.                       *)
(***************************************************************************)
EXTENDS ProfileDecisions, SequenceTheorems, TLAPS

------------------------------------------------------------------------------
\* Types of fields, questions and decisions

LEMMA IntentTyped ==
    ASSUME NEW facts, IsTopology(facts), NEW f \in Intent(facts)
    PROVE  /\ f \in Field /\ f.kind \in Kinds
           /\ f.component \in DOMAIN facts /\ facts[f.component] \in Fact
           /\ Proposed(f, facts[f.component])
<1>1. f \in Field /\ f.component \in DOMAIN facts /\ Proposed(f, facts[f.component])
  BY DEF Intent
<1>2. facts[f.component] \in Fact BY <1>1 DEF IsTopology
<1>3. f.kind \in Kinds
  BY <1>1 DEF Proposed, Kinds, PortKinds, CONFIRMATION_KINDS, BLOCKED_KINDS
<1>4. QED BY <1>1, <1>2, <1>3

LEMMA FieldOfTyped ==
    ASSUME NEW c \in Components, NEW kind \in Kinds \cup {Conflict}
    PROVE  FieldOf(c, kind) \in Field
  BY DEF FieldOf, Field

\* Only the fields of secrets name one.
WellFormed(f) == f \in Field /\ (f.kind = "secret_ref" <=> f.secret # None)

LEMMA ComponentNames ==
    ASSUME NEW c \in Components
    PROVE  c \in Seq(Segments) /\ Len(c) \in Nat \ {0} /\ c[1] \in Segments
<1>1. c \in Seq(Segments) /\ c # <<>> BY ComponentsAssumption
<1>2. Len(c) \in Nat \ {0} BY <1>1, EmptySeq
<1>3. QED BY <1>1, <1>2, ElementOfSeq

LEMMA TwoSegments ==
    ASSUME NEW S, NEW a \in S, NEW b \in S
    PROVE  <<a, b>> \in Seq(S) /\ Len(<<a, b>>) = 2
  OBVIOUS

LEMMA ThreeParts ==
    ASSUME NEW S, NEW a \in S, NEW c \in Seq(S), NEW s \in Seq(S), Len(s) = 2
    PROVE  /\ Len(<<a>> \o c \o s) = Len(c) + 3
           /\ (<<a>> \o c \o s)[1] = a
           /\ \A i \in 1..Len(c) : (<<a>> \o c \o s)[i + 1] = c[i]
           /\ (<<a>> \o c \o s)[Len(c) + 2] = s[1]
           /\ (<<a>> \o c \o s)[Len(c) + 3] = s[2]
<1> DEFINE t == <<a>> \o c
<1>1. <<a>> \in Seq(S) /\ Len(<<a>>) = 1 /\ <<a>>[1] = a OBVIOUS
<1>2. Len(c) \in Nat BY LenProperties
<1>3. /\ t \in Seq(S) /\ Len(t) = 1 + Len(c)
      /\ \A i \in 1 .. 1 + Len(c) : t[i] = IF i <= 1 THEN <<a>>[i] ELSE c[i - 1]
  <2>1. /\ t \in Seq(S) /\ Len(t) = Len(<<a>>) + Len(c)
        /\ \A i \in 1 .. Len(<<a>>) + Len(c) :
              t[i] = IF i <= Len(<<a>>) THEN <<a>>[i] ELSE c[i - Len(<<a>>)]
    BY <1>1, ConcatProperties
  <2>2. QED BY <1>1, <2>1
<1> HIDE DEF t
<1>4. /\ Len(t \o s) = Len(t) + Len(s)
      /\ \A i \in 1 .. Len(t) + Len(s) : (t \o s)[i] = IF i <= Len(t) THEN t[i] ELSE s[i - Len(t)]
  BY <1>3, ConcatProperties
<1>5. Len(t \o s) = Len(c) + 3 BY <1>2, <1>3, <1>4
<1>6. (t \o s)[1] = a BY <1>1, <1>2, <1>3, <1>4
<1>7. ASSUME NEW i \in 1..Len(c) PROVE (t \o s)[i + 1] = c[i]
  <2>1. (t \o s)[i + 1] = t[i + 1] BY <1>2, <1>3, <1>4
  <2>2. t[i + 1] = c[(i + 1) - 1] BY <1>2, <1>3
  <2>3. QED BY <1>2, <2>1, <2>2
<1>8. (t \o s)[Len(c) + 2] = s[1] BY <1>2, <1>3, <1>4
<1>9. (t \o s)[Len(c) + 3] = s[2] BY <1>2, <1>3, <1>4
<1>10. QED BY <1>5, <1>6, <1>7, <1>8, <1>9 DEF t

\* IntentBuilder._candidate: a path is "components", the id and two segments.
LEMMA PathSegments ==
    ASSUME NEW f \in Field
    PROVE  /\ Len(Path(f)) = Len(f.component) + 3
           /\ Path(f)[1] = "components"
           /\ \A i \in 1..Len(f.component) : Path(f)[i + 1] = f.component[i]
           /\ Path(f)[Len(f.component) + 2] = Suffix(f)[1]
           /\ Path(f)[Len(f.component) + 3] = Suffix(f)[2]
<1> DEFINE c == f.component
           s == Suffix(f)
           S == Segments \cup {"components", s[1], s[2]}
<1>1. c \in Seq(S) /\ Len(c) \in Nat \ {0}
  <2>1. c \in Seq(Segments) /\ Len(c) \in Nat \ {0} BY ComponentNames DEF Field
  <2>2. QED BY <2>1
<1>2. s = <<s[1], s[2]>>
  BY DEF Suffix, Field, Kinds, PortKinds, CONFIRMATION_KINDS, BLOCKED_KINDS, Conflict
<1> HIDE DEF s
<1>3. s \in Seq(S) /\ Len(s) = 2
  <2>1. s[1] \in S /\ s[2] \in S OBVIOUS
  <2>2. <<s[1], s[2]>> \in Seq(S) /\ Len(<<s[1], s[2]>>) = 2 BY <2>1, TwoSegments
  <2>3. QED BY <1>2, <2>2, Zenon
<1>4. "components" \in S OBVIOUS
<1>5. Path(f) = <<"components">> \o c \o s BY DEF Path, s
<1> HIDE DEF c, S
<1>6. /\ Len(<<"components">> \o c \o s) = Len(c) + 3
      /\ (<<"components">> \o c \o s)[1] = "components"
      /\ \A i \in 1..Len(c) : (<<"components">> \o c \o s)[i + 1] = c[i]
      /\ (<<"components">> \o c \o s)[Len(c) + 2] = s[1]
      /\ (<<"components">> \o c \o s)[Len(c) + 3] = s[2]
  BY <1>1, <1>3, <1>4, ThreeParts
<1>7. QED BY <1>5, <1>6, Zenon DEF c, s

LEMMA SuffixOfSecret ==
    ASSUME NEW f, f.kind = "secret_ref"
    PROVE  Suffix(f) = <<"secrets", f.secret>>
  BY DEF Suffix, Conflict

LEMMA SuffixesAreDistinct ==
    ASSUME NEW f, NEW g, WellFormed(f), WellFormed(g), f.component = g.component,
           Suffix(f)[1] = Suffix(g)[1], Suffix(f)[2] = Suffix(g)[2]
    PROVE  f = g
<1>1. f.kind = g.kind
  BY DEF WellFormed, Suffix, Field, Kinds, PortKinds, CONFIRMATION_KINDS, BLOCKED_KINDS, Conflict
<1>2. f.secret = g.secret
  <2>1. CASE f.kind = "secret_ref"
    <3>1. Suffix(f) = <<"secrets", f.secret>> /\ Suffix(g) = <<"secrets", g.secret>>
      BY <1>1, <2>1, SuffixOfSecret
    <3>2. <<"secrets", f.secret>>[2] = f.secret /\ <<"secrets", g.secret>>[2] = g.secret
      OBVIOUS
    <3>3. QED BY <3>1, <3>2, Zenon
  <2>2. CASE f.kind # "secret_ref"
    BY <1>1, <2>2 DEF WellFormed
  <2>3. QED BY <2>1, <2>2
<1>3. QED BY <1>1, <1>2 DEF WellFormed, Field

\* Two fields never have one path, also where ids have slashes: joining by path
\* is joining by field (QuestionManager, AnswerLoader, DeploymentProfileBuilder).
THEOREM PathsAreDistinct ==
    ASSUME NEW f, NEW g, WellFormed(f), WellFormed(g), Path(f) = Path(g)
    PROVE  f = g
<1>1. f \in Field /\ g \in Field BY DEF WellFormed
<1>2. /\ f.component \in Seq(Segments) /\ Len(f.component) \in Nat
      /\ g.component \in Seq(Segments) /\ Len(g.component) \in Nat
  BY <1>1, ComponentNames DEF Field
<1>3. Len(f.component) = Len(g.component) BY <1>1, <1>2, PathSegments
<1>4. ASSUME NEW i \in 1..Len(f.component) PROVE f.component[i] = g.component[i]
  <2>1. Path(f)[i + 1] = f.component[i] BY <1>1, PathSegments, Zenon
  <2>2. Path(g)[i + 1] = g.component[i] BY <1>1, <1>3, PathSegments, Zenon
  <2>3. QED BY <2>1, <2>2
<1>5. f.component = g.component BY <1>2, <1>3, <1>4, SeqEqual
<1>6. Suffix(f)[1] = Suffix(g)[1] /\ Suffix(f)[2] = Suffix(g)[2]
  BY <1>1, <1>5, PathSegments
<1>7. QED BY <1>5, <1>6, SuffixesAreDistinct

LEMMA FactsTyped ==
    ASSUME NEW facts, IsTopology(facts), NEW c \in DOMAIN facts
    PROVE  c \in Components /\ facts[c] \in Fact
  BY DEF IsTopology

LEMMA AskedTyped ==
    ASSUME NEW facts, IsTopology(facts), NEW f \in Asked(facts)
    PROVE  /\ f \in Field /\ f.component \in DOMAIN facts
           /\ \/ f.kind = Conflict /\ f.secret = None
              \/ f.kind # Conflict /\ f \in Intent(facts)
<1>1. CASE f \in ConflictFields(facts)
  <2>1. PICK c \in DOMAIN facts : f = FieldOf(c, Conflict)
    BY <1>1 DEF ConflictFields
  <2>2. c \in Components BY FactsTyped
  <2>3. QED BY <2>1, <2>2, FieldOfTyped DEF FieldOf
<1>2. CASE f \in Intent(facts)
  <2>1. f.kind # Conflict
    BY <1>2, IntentTyped DEF Kinds, CONFIRMATION_KINDS, BLOCKED_KINDS, Conflict
  <2>2. QED BY <1>2, <2>1, IntentTyped
<1>3. QED BY <1>1, <1>2 DEF Asked, WithDisposition

LEMMA LiteralTexts ==
    /\ None \in Texts /\ "proposal" \in Texts /\ Commands \subseteq Texts
    /\ \A kind \in Kinds \cup {Conflict} : Options(kind) \subseteq Texts
  BY DEF Texts

LEMMA CandidateTyped ==
    ASSUME NEW facts, IsTopology(facts), NEW f \in Asked(facts) \cup Intent(facts)
    PROVE  CandidateValue(f, facts[f.component]) \in Texts
<1>1. CASE f.kind = "runtime_command"
  <2>1. f \in Intent(facts) BY <1>1, AskedTyped DEF Conflict
  <2>2. facts[f.component] \in Fact /\ Proposed(f, facts[f.component])
    BY <2>1, IntentTyped
  <2>3. Unambiguous(facts[f.component])
    BY <1>1, <2>2 DEF Proposed, PortKinds
  <2>4. PICK found \in facts[f.component].commands : TRUE
    BY <2>3 DEF Unambiguous
  <2>5. facts[f.component].commands \subseteq Commands BY <2>2 DEF Fact
  <2>6. (CHOOSE cmd \in facts[f.component].commands : TRUE) \in Commands
    BY <2>4, <2>5
  <2>7. QED BY <1>1, <2>6, LiteralTexts DEF CandidateValue
<1>2. CASE f.kind # "runtime_command"
  BY <1>2, LiteralTexts DEF CandidateValue
<1>3. QED BY <1>1, <1>2

LEMMA QuestionsTyped ==
    ASSUME NEW facts, IsTopology(facts), NEW q \in Questions(facts)
    PROVE  /\ q.field \in Asked(facts) /\ q.field \in Field
           /\ q.id = QuestionId(q.field, facts[q.field.component])
           /\ q.value = CandidateValue(q.field, facts[q.field.component])
           /\ IsQuestion(q)
<1>1. PICK f \in Asked(facts) :
        q = [id |-> QuestionId(f, facts[f.component]), field |-> f,
             value |-> CandidateValue(f, facts[f.component])]
  BY DEF Questions
<1>2. f \in Field /\ f.component \in DOMAIN facts BY AskedTyped
<1>3. facts[f.component].layout \in Layouts BY <1>2, FactsTyped DEF Fact
<1>4. QuestionId(f, facts[f.component]) \in [field : Field, layout : Layouts \cup {0}]
  BY <1>2, <1>3 DEF QuestionId
<1>5. CandidateValue(f, facts[f.component]) \in Texts BY CandidateTyped
<1>6. QED BY <1>1, <1>2, <1>4, <1>5 DEF IsQuestion

------------------------------------------------------------------------------
\* What the three sources of decisions may decide

\* The decisions of an accepted answers file, or none.
FromUser(facts, users) ==
    \/ users = {}
    \/ \E file : Accepted(file, Questions(facts))
                   /\ users = UserDecisions(Questions(facts), file)

\* Answers decide every field that was asked, each of them once.
LEMMA UserDecides ==
    ASSUME NEW facts, IsTopology(facts), NEW users, FromUser(facts, users)
    PROVE  /\ \A d \in users : d \in Decision /\ d.by = "user" /\ d.field \in Asked(facts)
           /\ \A d, e \in users : d.field = e.field => d = e
           /\ users # {} => \A f \in Asked(facts) : \E d \in users : d.field = f
           /\ \A d \in users : d.field.kind = "service" => d.value \in {"proposal", "skip"}
<1>1. CASE users = {} BY <1>1
<1>2. ASSUME NEW file, Accepted(file, Questions(facts)),
             users = UserDecisions(Questions(facts), file)
      PROVE  /\ \A d \in users : d \in Decision /\ d.by = "user" /\ d.field \in Asked(facts)
             /\ \A d, e \in users : d.field = e.field => d = e
             /\ \A f \in Asked(facts) : \E d \in users : d.field = f
             /\ \A d \in users : d.field.kind = "service" => d.value \in {"proposal", "skip"}
  <2> DEFINE By(q) == [field |-> q.field, value |-> AnswerValue(q, file[q.id]), by |-> "user"]
  <2>1. \A q \in Questions(facts) : q.id \in DOMAIN file
    BY <1>2 DEF Accepted
  <2>2. users = {By(q) : q \in Questions(facts)}
    BY <1>2, <2>1 DEF UserDecisions
  <2>3. \A q \in Questions(facts) : AnswerValue(q, file[q.id]) \in Texts
    <3> TAKE q \in Questions(facts)
    <3>1. q.value \in Texts /\ q.field \in Field BY QuestionsTyped DEF IsQuestion
    <3>2. file[q.id] \in Options(q.field.kind) BY <1>2, <2>1 DEF Accepted
    <3>3. q.field.kind \in Kinds \cup {Conflict} BY <3>1 DEF Field
    <3>4. file[q.id] \in Texts BY <3>2, <3>3, LiteralTexts, Zenon
    <3>5. QED BY <3>1, <3>4 DEF AnswerValue
  <2>4. \A d \in users : d \in Decision /\ d.by = "user" /\ d.field \in Asked(facts)
    BY <2>2, <2>3, QuestionsTyped DEF Decision
  <2>5. \A q, r \in Questions(facts) : q.field = r.field => q = r
    BY DEF Questions
  <2>6. \A d, e \in users : d.field = e.field => d = e
    BY <2>2, <2>5
  <2>7. \A f \in Asked(facts) : \E d \in users : d.field = f
    <3> TAKE f \in Asked(facts)
    <3> DEFINE q == [id |-> QuestionId(f, facts[f.component]), field |-> f,
                     value |-> CandidateValue(f, facts[f.component])]
    <3>1. q \in Questions(facts) BY DEF Questions
    <3>2. By(q) \in users BY <2>2, <3>1
    <3>3. By(q).field = f OBVIOUS
    <3>4. QED BY <3>2, <3>3
  <2>8. \A q \in Questions(facts) :
            q.field.kind = "service" => AnswerValue(q, file[q.id]) \in {"proposal", "skip"}
    <3> TAKE q \in Questions(facts)
    <3> HAVE q.field.kind = "service"
    <3>1. q.value = "proposal" BY QuestionsTyped DEF CandidateValue, Conflict
    <3>2. file[q.id] \in {"confirm", "skip"} BY <1>2, <2>1 DEF Accepted, Options, Conflict
    <3>3. QED BY <3>1, <3>2 DEF AnswerValue
  <2>9. QED BY <2>2, <2>4, <2>6, <2>7, <2>8
<1>3. QED BY <1>1, <1>2 DEF FromUser

\* The model decides runtime commands only.
LEMMA ModelDecides ==
    ASSUME NEW facts, IsTopology(facts), NEW semantic \in SemanticDecisions(facts),
           NEW d \in semantic
    PROVE  /\ d \in Decision /\ d.by = "llm"
           /\ \E c \in DOMAIN facts : d.field = FieldOf(c, "runtime_command")
<1>1. PICK resolved \in UNION {[cs -> Commands] : cs \in SUBSET {c \in DOMAIN facts : facts[c].gap}} :
        semantic = {[field |-> FieldOf(c, "runtime_command"), value |-> resolved[c],
                     by |-> "llm"] : c \in DOMAIN resolved}
  BY DEF SemanticDecisions
<1>2. PICK c \in DOMAIN resolved :
        d = [field |-> FieldOf(c, "runtime_command"), value |-> resolved[c], by |-> "llm"]
  BY <1>1
<1>3. c \in DOMAIN facts /\ c \in Components BY FactsTyped
<1>4. FieldOf(c, "runtime_command") \in Field
  BY <1>3, FieldOfTyped DEF Kinds, CONFIRMATION_KINDS
<1>5. resolved[c] \in Texts BY LiteralTexts
<1>6. QED BY <1>2, <1>3, <1>4, <1>5 DEF Decision

\* Policy decides what it lets pass.
LEMMA PolicyDecides ==
    ASSUME NEW facts, IsTopology(facts), NEW d \in IntentDecisions(facts)
    PROVE  /\ d \in Decision /\ d.by \in {"policy", "rule"}
           /\ d.field \in WithDisposition("auto_confirm", facts)
<1>1. PICK f \in WithDisposition("auto_confirm", facts) :
        d = [field |-> f, value |-> CandidateValue(f, facts[f.component]),
             by |-> IF f.kind = "replicas" THEN "policy" ELSE "rule"]
  BY DEF IntentDecisions
<1>2. f \in Intent(facts) BY DEF WithDisposition
<1>3. f \in Field /\ CandidateValue(f, facts[f.component]) \in Texts
  BY <1>2, IntentTyped, CandidateTyped
<1>4. QED BY <1>1, <1>3 DEF Decision

------------------------------------------------------------------------------
\* The merge

LEMMA MergeChooses ==
    ASSUME NEW decisions, \A d \in decisions : d \in Decision,
           NEW f \in DOMAIN Merge(decisions)
    PROVE  /\ Merge(decisions)[f] \in decisions /\ Merge(decisions)[f].field = f
           /\ \A e \in decisions :
                e.field = f => Priority(e) <= Priority(Merge(decisions)[f])
<1> DEFINE For == {d \in decisions : d.field = f}
<1>1. \E d \in decisions : d.field = f BY DEF Merge
<1>2. \A d \in decisions : d.by \in {"user", "llm", "policy", "rule"} BY DEF Decision
<1>3. \E d \in decisions : d.field = f /\ \A e \in decisions : e.field = f => Priority(e) <= Priority(d)
  <2>1. CASE \E d \in For : d.by = "user" BY <2>1, <1>2 DEF Priority
  <2>2. CASE (\A d \in For : d.by # "user") /\ \E d \in For : d.by = "llm"
    BY <2>2, <1>2 DEF Priority
  <2>3. CASE (\A d \in For : d.by \notin {"user", "llm"}) /\ \E d \in For : d.by = "policy"
    BY <2>3, <1>2 DEF Priority
  <2>4. CASE \A d \in For : d.by = "rule" BY <2>4, <1>1 DEF Priority
  <2>5. QED BY <2>1, <2>2, <2>3, <2>4, <1>2
<1>4. Merge(decisions)[f] =
        CHOOSE d \in decisions :
            d.field = f /\ \A e \in decisions : e.field = f => Priority(e) <= Priority(d)
  BY DEF Merge
<1>5. QED BY <1>3, <1>4

LEMMA MergeDomain ==
    ASSUME NEW decisions PROVE DOMAIN Merge(decisions) = {d.field : d \in decisions}
  BY DEF Merge

------------------------------------------------------------------------------
\* Profiles

\* A profile that was built.
Built(p) ==
    \E facts, semantic, users :
        /\ IsTopology(facts) /\ semantic \in SemanticDecisions(facts)
        /\ FromUser(facts, users) /\ p = Build(facts, semantic, users)

\* Every value of a profile is decided by one of the sources.
LEMMA ValuesDecided ==
    ASSUME NEW facts, IsTopology(facts), NEW semantic \in SemanticDecisions(facts), NEW users,
           FromUser(facts, users),
           NEW f \in DOMAIN Build(facts, semantic, users).values
    PROVE  LET d == Build(facts, semantic, users).values[f]
               decisions == IntentDecisions(facts) \cup semantic \cup users
           IN  /\ d \in decisions /\ d \in Decision /\ d.field = f
               /\ f \in Field /\ f.component \in DOMAIN facts
               /\ \A e \in decisions : e.field = f => Priority(e) <= Priority(d)
<1> DEFINE decisions == IntentDecisions(facts) \cup semantic \cup users
           d == Merge(decisions)[f]
<1>1. Build(facts, semantic, users).values = Merge(decisions)
  BY DEF Build
<1>2. \A e \in decisions : e \in Decision
  BY UserDecides, ModelDecides, PolicyDecides
<1>3. /\ d \in decisions /\ d.field = f
      /\ \A e \in decisions : e.field = f => Priority(e) <= Priority(d)
  BY <1>1, <1>2, MergeChooses
<1>4. d \in Decision /\ f \in Field BY <1>2, <1>3 DEF Decision
<1>5. f.component \in DOMAIN facts
  <2>1. CASE d \in users BY <2>1, <1>3, UserDecides, AskedTyped
  <2>2. CASE d \in semantic
    <3>1. PICK c \in DOMAIN facts : d.field = FieldOf(c, "runtime_command")
      BY <2>2, ModelDecides
    <3>2. QED BY <3>1, <1>3 DEF FieldOf
  <2>3. CASE d \in IntentDecisions(facts)
    BY <2>3, <1>3, PolicyDecides, IntentTyped DEF WithDisposition
  <2>4. QED BY <1>3, <2>1, <2>2, <2>3
<1>6. QED BY <1>1, <1>3, <1>4, <1>5

LEMMA BuiltTyped ==
    ASSUME NEW p, Built(p) PROVE IsProfile(p)
<1>1. PICK facts, semantic, users :
        /\ IsTopology(facts) /\ semantic \in SemanticDecisions(facts)
        /\ FromUser(facts, users) /\ p = Build(facts, semantic, users)
  BY DEF Built
<1>2. \A f \in DOMAIN p.values : f \in Field /\ p.values[f] \in Decision
  BY <1>1, ValuesDecided
<1>3. p.unresolved \subseteq Field /\ p.blocked \subseteq Field
  BY <1>1 DEF Build, Unresolved, Blocked, WithDisposition, Intent
<1>4. IsTopology(p.facts) /\ p.users \subseteq Decision
  BY <1>1, UserDecides DEF Build
<1>5. p.renderable \in BOOLEAN /\ (p.renderable => p.unresolved = {} /\ p.blocked = {})
  BY <1>1 DEF Build
<1>6. QED BY <1>2, <1>3, <1>4, <1>5 DEF IsProfile

\* Accepted answers leave no hold that a decision could lift.
LEMMA BuiltResolved ==
    ASSUME NEW p, Built(p), p.users # {} PROVE p.unresolved = {}
<1>1. PICK facts, semantic, users :
        /\ IsTopology(facts) /\ semantic \in SemanticDecisions(facts)
        /\ FromUser(facts, users) /\ p = Build(facts, semantic, users)
  BY DEF Built
<1>2. p.users = users /\ DOMAIN p.values = {d.field : d \in IntentDecisions(facts) \cup semantic \cup users}
        /\ p.unresolved = Unresolved(facts, p.values)
  BY <1>1, MergeDomain DEF Build
<1>3. ASSUME NEW f \in WithDisposition("requires_confirmation", facts)
      PROVE  f \in DOMAIN p.values
  <2>1. f \in Asked(facts) BY DEF Asked
  <2>2. PICK d \in users : d.field = f BY <1>1, <1>2, <2>1, UserDecides
  <2>3. QED BY <1>2, <2>2
<1>4. QED BY <1>2, <1>3 DEF Unresolved

\* A renderable profile has no stateful dependency.
LEMMA BuiltUnblocked ==
    ASSUME NEW p, Built(p), p.renderable, NEW c \in DOMAIN p.facts
    PROVE  p.facts[c].role # "dependency"
<1>1. PICK facts, semantic, users :
        /\ IsTopology(facts) /\ semantic \in SemanticDecisions(facts)
        /\ FromUser(facts, users) /\ p = Build(facts, semantic, users)
  BY DEF Built
<1>2. p.facts = facts /\ WithDisposition("blocked", facts) = {}
  BY <1>1 DEF Build, Blocked
<1> DEFINE f == FieldOf(c, "stateful_workload")
<1>3. c \in Components BY <1>1, <1>2, FactsTyped
<1>4. f \in Field BY <1>3, FieldOfTyped DEF Kinds, BLOCKED_KINDS
<1>5. ASSUME facts[c].role = "dependency" PROVE FALSE
  <2>1. f \in Intent(facts) BY <1>2, <1>4, <1>5 DEF Intent, Proposed, FieldOf
  <2>2. Disposition(f, facts[f.component]) = "blocked"
    BY DEF Disposition, BLOCKED_KINDS, CONFIRMATION_KINDS, FieldOf
  <2>3. QED BY <1>2, <2>1, <2>2 DEF WithDisposition
<1>6. QED BY <1>2, <1>5

\* A renderable profile of an application is built from answers: only the user
\* decides on its resource requests.
LEMMA BuiltAnswered ==
    ASSUME NEW p, Built(p), p.renderable,
           NEW c \in DOMAIN p.facts, p.facts[c].role = "application"
    PROVE  \A f \in Asked(p.facts) : \E d \in p.users : d.field = f
<1>1. PICK facts, semantic, users :
        /\ IsTopology(facts) /\ semantic \in SemanticDecisions(facts)
        /\ FromUser(facts, users) /\ p = Build(facts, semantic, users)
  BY DEF Built
<1>2. p.facts = facts /\ p.users = users /\ Unresolved(facts, p.values) = {}
  BY <1>1 DEF Build
<1>3. c \in DOMAIN facts /\ facts[c].role = "application" BY <1>2
<1>4. users # {}
  <2> DEFINE f == FieldOf(c, "resource_requests")
  <2>1. f \in Field BY <1>1, <1>3, FactsTyped, FieldOfTyped DEF Kinds, CONFIRMATION_KINDS
  <2>2. f \in Intent(facts) BY <1>3, <2>1 DEF Intent, Proposed, FieldOf
  <2>3. Disposition(f, facts[f.component]) = "requires_confirmation"
    BY DEF Disposition, BLOCKED_KINDS, CONFIRMATION_KINDS, FieldOf
  <2>4. f \in DOMAIN p.values
    BY <1>2, <2>2, <2>3 DEF Unresolved, WithDisposition
  <2>5. p.values[f] \in IntentDecisions(facts) \cup semantic \cup users /\ p.values[f].field = f
    BY <1>1, <2>4, ValuesDecided
  <2>6. p.values[f] \notin IntentDecisions(facts)
    <3>1. f \notin WithDisposition("auto_confirm", facts) BY <2>3 DEF WithDisposition
    <3>2. QED BY <1>1, <2>5, <3>1, PolicyDecides
  <2>7. p.values[f] \notin semantic
    <3>1. \A d \in DOMAIN facts : f # FieldOf(d, "runtime_command") BY DEF FieldOf
    <3>2. QED BY <1>1, <2>5, <3>1, ModelDecides
  <2>8. QED BY <2>5, <2>6, <2>7
<1>5. QED BY <1>1, <1>2, <1>4, UserDecides

\* Only the secrets among the fields of a profile name one, and none but the
\* user decides on them.
LEMMA ValuesWellFormed ==
    ASSUME NEW p, Built(p), NEW f \in DOMAIN p.values
    PROVE  WellFormed(f) /\ (f.kind = "secret_ref" => p.values[f] \in p.users /\ p.values[f].field = f)
<1>1. PICK facts, semantic, users :
        /\ IsTopology(facts) /\ semantic \in SemanticDecisions(facts)
        /\ FromUser(facts, users) /\ p = Build(facts, semantic, users)
  BY DEF Built
<1> DEFINE d == p.values[f]
<1>2. /\ d \in IntentDecisions(facts) \cup semantic \cup users
      /\ d.field = f /\ f \in Field
  BY <1>1, ValuesDecided
<1>3. p.users = users BY <1>1 DEF Build
<1>4. ASSUME f \in Intent(facts) PROVE WellFormed(f)
  <2>1. Proposed(f, facts[f.component]) /\ facts[f.component] \in Fact
    BY <1>1, <1>4, IntentTyped
  <2>2. QED BY <1>2, <2>1, TextAssumption DEF WellFormed, Proposed, PortKinds, Fact
<1>5. CASE d \in semantic
  <2>1. PICK c \in DOMAIN facts : f = FieldOf(c, "runtime_command")
    BY <1>1, <1>2, <1>5, ModelDecides
  <2>2. QED BY <1>2, <2>1 DEF WellFormed, FieldOf
<1>6. CASE d \in IntentDecisions(facts)
  <2>1. f \in WithDisposition("auto_confirm", facts) BY <1>1, <1>2, <1>6, PolicyDecides
  <2>2. f \in Intent(facts) /\ Disposition(f, facts[f.component]) = "auto_confirm"
    BY <2>1 DEF WithDisposition
  <2>3. f.kind # "secret_ref" BY <2>2 DEF Disposition, BLOCKED_KINDS, CONFIRMATION_KINDS
  <2>4. QED BY <1>4, <2>2, <2>3
<1>7. CASE d \in users
  <2>1. f \in Asked(facts) BY <1>1, <1>2, <1>7, UserDecides
  <2>2. CASE f.kind = Conflict /\ f.secret = None
    BY <1>2, <2>2 DEF WellFormed, Conflict
  <2>3. CASE f \in Intent(facts) BY <1>2, <1>3, <1>4, <1>7, <2>3
  <2>4. QED BY <1>1, <2>1, <2>2, <2>3, AskedTyped
<1>8. QED BY <1>2, <1>5, <1>6, <1>7

\* What the user decided is the value of its field.
LEMMA UserPrevails ==
    ASSUME NEW p, Built(p), NEW d \in p.users
    PROVE  d.field \in DOMAIN p.values /\ p.values[d.field] = d
<1>1. PICK facts, semantic, users :
        /\ IsTopology(facts) /\ semantic \in SemanticDecisions(facts)
        /\ FromUser(facts, users) /\ p = Build(facts, semantic, users)
  BY DEF Built
<1> DEFINE f == d.field
           decisions == IntentDecisions(facts) \cup semantic \cup users
<1>2. d \in users /\ d.by = "user" BY <1>1, UserDecides DEF Build
<1>3. f \in DOMAIN p.values BY <1>1, <1>2, MergeDomain DEF Build
<1>4. /\ p.values[f] \in decisions /\ p.values[f].field = f /\ p.values[f] \in Decision
      /\ Priority(d) <= Priority(p.values[f])
  BY <1>1, <1>2, <1>3, ValuesDecided
<1>5. p.values[f].by = "user" BY <1>2, <1>4 DEF Priority, Decision
<1>6. p.values[f] \in users
  BY <1>1, <1>4, <1>5, ModelDecides, PolicyDecides
<1>7. QED BY <1>1, <1>2, <1>3, <1>4, <1>6, UserDecides

------------------------------------------------------------------------------
\* Manifests

LEMMA NamesRendered ==
    ASSUME NEW p, Built(p), NEW f \in DOMAIN p.values
    PROVE  f \in Field /\ Path(f)[2] = f.component[1] /\ f.component[1] \in Segments
<1>1. f \in Field BY ValuesWellFormed DEF WellFormed
<1>2. f.component \in Components BY <1>1 DEF Field
<1>3. Path(f)[1 + 1] = f.component[1] BY <1>1, <1>2, ComponentNames, PathSegments
<1>4. QED BY <1>1, <1>2, <1>3, ComponentNames

\* A look-up by path finds what the user decided on a field of the component.
LEMMA UserFound ==
    ASSUME NEW p, Built(p), NEW d \in p.users, NEW name, d.field.component = <<name>>,
           d.field.secret = None
    PROVE  Value(p.values, name, d.field.kind) = d.value
<1> DEFINE f == d.field
           found == FieldsAt(p.values, name, f.kind)
<1>1. f \in DOMAIN p.values /\ p.values[f] = d BY UserPrevails
<1>2. WellFormed(f) BY <1>1, ValuesWellFormed
<1>3. f = FieldOf(<<name>>, f.kind) BY <1>2 DEF WellFormed, Field, FieldOf
<1>4. found = {f}
  <2>1. f \in found BY <1>1, <1>3, Zenon DEF FieldsAt
  <2>2. ASSUME NEW g \in found PROVE g = f
    <3>1. g \in DOMAIN p.values /\ Path(g) = Path(f) BY <1>3, <2>2, Zenon DEF FieldsAt
    <3>2. WellFormed(g) BY <3>1, ValuesWellFormed
    <3>3. QED BY <1>2, <3>1, <3>2, PathsAreDistinct
  <2>3. QED BY <2>1, <2>2
<1> HIDE DEF f
<1>5. (CHOOSE g \in found : TRUE) = f BY <1>4
<1>6. found # {} BY <1>4
<1>7. Value(p.values, name, f.kind) = p.values[f].value BY <1>5, <1>6 DEF Value
<1>8. QED BY <1>1, <1>7 DEF f

\* What is rendered of a component agrees with what the user decided.
LEMMA BuiltAgrees ==
    ASSUME NEW p, Built(p), NEW name \in RenderedComponents(p), name \notin Unusable(p),
           NEW d \in p.users, d.field.component = <<name>>
    PROVE  Agrees(Resources(p.values, name), d)
<1> DEFINE resources == Resources(p.values, name)
<1>1. WellFormed(d.field) BY UserPrevails, ValuesWellFormed
<1>2. ASSUME d.field.kind # "secret_ref" PROVE Value(p.values, name, d.field.kind) = d.value
  BY <1>1, <1>2, UserFound DEF WellFormed
<1>3. ASSUME d.field.kind = "replicas" PROVE resources.replicas = d.value /\ d.value # "skip"
  BY <1>2, <1>3 DEF Resources, Unusable
<1>4. ASSUME d.field.kind = "runtime_command" PROVE resources.command = d.value
  BY <1>2, <1>4 DEF Resources
<1>5. ASSUME d.field.kind = "service" PROVE resources.service <=> d.value # "skip"
  <2>1. d.value \in {"proposal", "skip"} BY <1>5, UserDecides DEF Built, Build
  <2>2. QED BY <1>2, <1>5, <2>1 DEF Resources
<1>6. ASSUME d.field.kind = "external_exposure"
      PROVE  resources.ingress <=> d.value = "public" /\ resources.service
  BY <1>2, <1>6 DEF Resources
<1>7. QED BY <1>3, <1>4, <1>5, <1>6 DEF Agrees

\* The path of a secret's field begins with the name and "secrets": the field is
\* one of that component, or of one in a directory "secrets" below it.
LEMMA SecretPaths ==
    ASSUME NEW p, Built(p), NEW name, NEW f \in SecretFields(p.values, name)
    PROVE  /\ f \in DOMAIN p.values /\ f.component[1] = name
           /\ Len(f.component) = 1 \/ f.component[2] = "secrets"
<1>1. f \in DOMAIN p.values /\ SubSeq(Path(f), 1, 3) = <<"components", name, "secrets">>
  BY DEF SecretFields
<1>2. f \in Field /\ Path(f)[2] = f.component[1] BY <1>1, NamesRendered
<1>3. f.component \in Seq(Segments) /\ Len(f.component) \in Nat \ {0}
  BY <1>2, ComponentNames DEF Field
<1>4. Path(f)[2] = name /\ Path(f)[3] = "secrets"
  <2> DEFINE S == {Path(f)[i] : i \in 1..3}
  <2>1. \A i \in 1 .. 3 - 1 + 1 : SubSeq(Path(f), 1, 3)[i] = Path(f)[1 + i - 1]
    <3>1. \A i \in 1..3 : Path(f)[i] \in S OBVIOUS
    <3>2. QED BY <3>1, SubSeqProperties
  <2>2. Path(f)[1 + 2 - 1] = name /\ Path(f)[1 + 3 - 1] = "secrets"
    <3>1. 2 \in 1 .. 3 - 1 + 1 /\ 3 \in 1 .. 3 - 1 + 1 OBVIOUS
    <3> DEFINE expected == <<"components", name, "secrets">>
    <3>2. expected[2] = name /\ expected[3] = "secrets" OBVIOUS
    <3>3. SubSeq(Path(f), 1, 3) = expected BY <1>1
    <3> HIDE DEF expected
    <3>4. QED BY <2>1, <3>1, <3>2, <3>3
  <2>3. QED BY <2>2
<1>5. ASSUME Len(f.component) # 1 PROVE Path(f)[2 + 1] = f.component[2]
  <2>1. \A n \in Nat \ {0} : n # 1 => 2 \in 1..n OBVIOUS
  <2>2. 2 \in 1..Len(f.component) BY <1>3, <1>5, <2>1, Zenon
  <2>3. QED BY <1>2, <2>2, PathSegments, Zenon
<1>6. QED BY <1>1, <1>2, <1>4, <1>5

\* A secret that is referenced was confirmed by the user.
LEMMA SecretConfirmed ==
    ASSUME NEW p, Built(p), NEW name, SecretName(p.values, name) # None
    PROVE  \E d \in p.users :
            /\ d.field.secret = SecretName(p.values, name) /\ d.value = "proposal"
            /\ d.field.component[1] = name
            /\ Len(d.field.component) = 1 \/ d.field.component[2] = "secrets"
<1> DEFINE first == CHOOSE f \in SecretFields(p.values, name) : TRUE
<1>1. SecretFields(p.values, name) # {} BY DEF SecretName
<1>2. first \in SecretFields(p.values, name) BY <1>1
<1>3. /\ first.kind = "secret_ref" /\ p.values[first].value = "proposal"
      /\ SecretName(p.values, name) = first.secret
  BY <1>1 DEF SecretName
<1> HIDE DEF first
<1>4. /\ first \in DOMAIN p.values /\ first.component[1] = name
      /\ Len(first.component) = 1 \/ first.component[2] = "secrets"
  BY <1>2, SecretPaths
<1>5. p.values[first] \in p.users /\ p.values[first].field = first
  BY <1>3, <1>4, ValuesWellFormed
<1>6. QED BY <1>3, <1>4, <1>5

LEMMA ResourcesTyped ==
    ASSUME NEW p, Built(p), NEW name
    PROVE  Resources(p.values, name) \in Resource
<1>1. \A f \in DOMAIN p.values : f \in Field /\ p.values[f] \in Decision
  BY BuiltTyped DEF IsProfile
<1>2. \A kind : Value(p.values, name, kind) \in Texts
  <2> TAKE kind
  <2> DEFINE found == FieldsAt(p.values, name, kind)
  <2>1. CASE found = {} BY <2>1, LiteralTexts DEF Value
  <2>2. CASE found # {}
    <3>1. (CHOOSE f \in found : TRUE) \in DOMAIN p.values BY <2>2 DEF FieldsAt
    <3>2. QED BY <1>1, <2>2, <3>1 DEF Value, Decision
  <2>3. QED BY <2>1, <2>2
<1>3. SecretName(p.values, name) \in Secrets \cup {None}
  <2>1. CASE SecretFields(p.values, name) = {} BY <2>1 DEF SecretName
  <2>2. CASE SecretFields(p.values, name) # {}
    <3> DEFINE first == CHOOSE f \in SecretFields(p.values, name) : TRUE
    <3>1. first \in SecretFields(p.values, name) BY <2>2
    <3>2. first \in Field BY <1>1, <3>1 DEF SecretFields
    <3>3. QED BY <2>2, <3>2 DEF SecretName, Field
  <2>3. QED BY <2>1, <2>2
<1>4. QED BY <1>2, <1>3 DEF Resources, Resource

\* The manifest under a name, written from a profile that was built.
Rendered(manifest, name) ==
    \E p : /\ Built(p) /\ p.renderable
           /\ name \in RenderedComponents(p) /\ name \notin Unusable(p)
           /\ manifest = [resources |-> Resources(p.values, name), of |-> p]

LEMMA RenderedFacts ==
    ASSUME NEW name, NEW manifest, Rendered(manifest, name)
    PROVE  /\ name \in Segments /\ manifest.resources \in Resource /\ IsProfile(manifest.of)
           /\ \A c \in DOMAIN manifest.of.facts :
                /\ manifest.of.facts[c].role # "dependency"
                /\ manifest.of.facts[c].role = "application" =>
                    \A f \in Asked(manifest.of.facts) : \E d \in manifest.of.users : d.field = f
           /\ \A d \in manifest.of.users :
                d.field.component = <<name>> => Agrees(manifest.resources, d)
           /\ manifest.resources.secret # None =>
                \E d \in manifest.of.users :
                    /\ d.field.secret = manifest.resources.secret /\ d.value = "proposal"
                    /\ d.field.component[1] = name
                    /\ Len(d.field.component) = 1 \/ d.field.component[2] = "secrets"
<1>1. PICK p : /\ Built(p) /\ p.renderable
               /\ name \in RenderedComponents(p) /\ name \notin Unusable(p)
               /\ manifest = [resources |-> Resources(p.values, name), of |-> p]
  BY DEF Rendered
<1>2. manifest.of = p /\ manifest.resources = Resources(p.values, name) BY <1>1
<1>3. name \in Segments BY <1>1, NamesRendered DEF RenderedComponents
<1>4. manifest.resources.secret = SecretName(p.values, name) BY <1>2 DEF Resources
<1>5. manifest.resources \in Resource /\ IsProfile(manifest.of)
  BY <1>1, <1>2, ResourcesTyped, BuiltTyped
<1>6. \A c \in DOMAIN manifest.of.facts :
        /\ manifest.of.facts[c].role # "dependency"
        /\ manifest.of.facts[c].role = "application" =>
            \A f \in Asked(manifest.of.facts) : \E d \in manifest.of.users : d.field = f
  BY <1>1, <1>2, BuiltAnswered, BuiltUnblocked
<1>7. \A d \in manifest.of.users :
        d.field.component = <<name>> => Agrees(manifest.resources, d)
  BY <1>1, <1>2, BuiltAgrees
<1>8. ASSUME manifest.resources.secret # None
      PROVE  \E d \in manifest.of.users :
                /\ d.field.secret = manifest.resources.secret /\ d.value = "proposal"
                /\ d.field.component[1] = name
                /\ Len(d.field.component) = 1 \/ d.field.component[2] = "secrets"
  <2>1. Built(manifest.of) /\ SecretName(manifest.of.values, name) # None
    BY <1>1, <1>2, <1>4, <1>8
  <2>2. manifest.resources.secret = SecretName(manifest.of.values, name) BY <1>2, <1>4
  <2>3. QED BY <2>1, <2>2, SecretConfirmed
<1>9. QED BY <1>3, <1>5, <1>6, <1>7, <1>8

------------------------------------------------------------------------------
\* The inductive invariant: profiles were built, manifests rendered from such

ProfileInv ==
    /\ draft = NoProfile \/ Built(draft)
    /\ profile = NoProfile \/ Built(profile)
    /\ step = "render" => draft.renderable

ManifestInv == \A c \in DOMAIN manifests : Rendered(manifests[c], c)

RunInv == RunTyped /\ ProfileInv /\ ManifestInv

LEMMA NothingTyped == IsTopology(<<>>) /\ IsProfile(NoProfile)
<1>1. <<>> \in [{} -> Fact] OBVIOUS
<1>2. {} \in SUBSET Components OBVIOUS
<1>3. IsTopology(<<>>) BY <1>1, <1>2 DEF IsTopology
<1>4. QED BY <1>3 DEF NoProfile, IsProfile

LEMMA RunInvTyped == ASSUME RunInv PROVE TypeOK
<1>1. IsProfile(profile) /\ IsProfile(draft)
  BY BuiltTyped, NothingTyped DEF RunInv, ProfileInv
<1>2. \A c \in DOMAIN manifests :
        c \in Segments /\ manifests[c].resources \in Resource /\ IsProfile(manifests[c].of)
  BY RenderedFacts DEF RunInv, ManifestInv
<1>3. QED BY <1>1, <1>2 DEF RunInv, TypeOK, ProfilesTyped

LEMMA RunInvInitial == ASSUME Init PROVE RunInv
<1>1. RunTyped
  BY NothingTyped, TopologiesAssumption, BoundsAssumption DEF Init, RunTyped, States, Steps
<1>2. ProfileInv BY DEF Init, ProfileInv
<1>3. ManifestInv BY DEF Init, ManifestInv
<1>4. QED BY <1>1, <1>2, <1>3 DEF RunInv

\* Writing the manifests of some components keeps what is said of the others.
LEMMA RenderKeeps ==
    ASSUME RunInv, step = "render", NEW cs \in SUBSET (RenderedComponents(draft) \ Unusable(draft)),
           manifests' = Render(draft, cs)
    PROVE  ManifestInv'
<1>1. Built(draft) /\ draft.renderable
  BY DEF RunInv, ProfileInv, NoProfile
<1>2. ASSUME NEW c \in DOMAIN manifests' PROVE Rendered(manifests'[c], c)
  <2>1. CASE c \in cs
    <3>1. manifests'[c] = [resources |-> Resources(draft.values, c), of |-> draft]
      BY <2>1 DEF Render
    <3>2. QED BY <1>1, <2>1, <3>1 DEF Rendered
  <2>2. CASE c \notin cs
    <3>1. c \in DOMAIN manifests /\ manifests'[c] = manifests[c]
      BY <1>2, <2>2 DEF Render
    <3>2. QED BY <3>1 DEF RunInv, ManifestInv
  <2>3. QED BY <2>1, <2>2
<1>3. QED BY <1>2 DEF ManifestInv

LEMMA CommandsKeep ==
    ASSUME RunInv,
           Prepare \/ PrepareWithAnswers \/ Analyze \/ Plan \/ Generate
             \/ \E reuse \in BOOLEAN : Resume(reuse)
    PROVE  RunInv'
<1> USE DEF RunInv
<1>1. ASSUME NEW name \in {"prepare", "analyze", "resume", "plan", "generate"}, Type(name)
      PROVE  /\ left' \in [commands : Nat, files : Nat, edits : Nat, crashes : Nat]
             /\ IsTopology(tree') /\ command' = name
  BY <1>1 DEF Type, RunTyped
<1>2. ASSUME NEW name \in {"prepare", "analyze"}, NEW withAnswers \in BOOLEAN,
             Begin(name, withAnswers)
      PROVE  RunInv'
  <2>1. RunTyped' BY <1>1, <1>2, NothingTyped DEF Begin, RunTyped, States, Steps
  <2>2. ProfileInv' BY <1>2 DEF Begin, ProfileInv
  <2>3. ManifestInv' BY <1>2 DEF Begin, ManifestInv
  <2>4. QED BY <2>1, <2>2, <2>3
<1>3. ASSUME NEW reuse \in BOOLEAN, Resume(reuse) PROVE RunInv'
  <2>1. RunTyped' BY <1>1, <1>3 DEF Resume, RunTyped, States, Steps
  <2>2. ProfileInv' BY <1>3 DEF Resume, ProfileInv
  <2>3. ManifestInv' BY <1>3 DEF Resume, ManifestInv
  <2>4. QED BY <2>1, <2>2, <2>3
<1>4. CASE Plan
  <2>1. RunTyped' BY <1>1, <1>4 DEF Plan, directory, RunTyped, Steps
  <2>2. Built(draft')
    <3>1. {} \in SemanticDecisions(analysis) /\ FromUser(analysis, {})
      BY DEF SemanticDecisions, FromUser
    <3>2. QED BY <1>4, <3>1 DEF Plan, Built, RunTyped
  <2>3. ProfileInv' BY <1>4, <2>2 DEF Plan, directory, ProfileInv
  <2>4. ManifestInv' BY <1>4 DEF Plan, directory, ManifestInv
  <2>5. QED BY <2>1, <2>3, <2>4
<1>5. CASE Generate
  <2>1. RunTyped' BY <1>1, <1>5 DEF Generate, directory, RunTyped, Steps
  <2>2. ProfileInv' BY <1>5 DEF Generate, directory, ProfileInv
  <2>3. ManifestInv' BY <1>5 DEF Generate, directory, ManifestInv
  <2>4. QED BY <2>1, <2>2, <2>3
<1>6. QED BY <1>2, <1>3, <1>4, <1>5 DEF Prepare, PrepareWithAnswers, Analyze

LEMMA DecideKeeps == ASSUME RunInv, Decide PROVE RunInv'
<1> USE DEF RunInv
<1>1. RunTyped' BY DEF Decide, UserAndTree, directory, RunTyped, Steps, States
<1>2. Built(draft')
  <2> DEFINE users == IF answering THEN UserDecisions(Questions(analysis), answers) ELSE {}
  <2>1. PICK semantic \in SemanticDecisions(analysis) :
          draft' = Build(analysis, semantic, users)
    BY DEF Decide
  <2>2. FromUser(analysis, users) BY DEF Decide, FromUser
  <2>3. QED BY <2>1, <2>2 DEF Built, RunTyped
<1>3. ProfileInv' BY <1>2 DEF Decide, directory, ProfileInv
<1>4. ManifestInv' BY DEF Decide, directory, ManifestInv
<1>5. QED BY <1>1, <1>3, <1>4

LEMMA StepsKeep ==
    ASSUME RunInv,
           RunPhase1 \/ RejectAnswers \/ RenderManifests \/ RenderRaises
             \/ SaveQuestions \/ SaveProfile \/ Finish
    PROVE  RunInv'
<1> USE DEF RunInv, UserAndTree, Return
<1>1. CASE RunPhase1
  <2>1. RunTyped' BY <1>1 DEF RunPhase1, RunTyped, Steps, States
  <2>2. ProfileInv' BY <1>1 DEF RunPhase1, ProfileInv
  <2>3. ManifestInv' BY <1>1 DEF RunPhase1, ManifestInv
  <2>4. QED BY <2>1, <2>2, <2>3
<1>2. CASE RejectAnswers
  <2>1. RunTyped' BY <1>2 DEF RejectAnswers, RunTyped, Steps, States
  <2>2. ProfileInv' BY <1>2 DEF RejectAnswers, ProfileInv
  <2>3. ManifestInv' BY <1>2 DEF RejectAnswers, ManifestInv
  <2>4. QED BY <2>1, <2>2, <2>3
<1>3. CASE RenderManifests
  <2>1. RunTyped' BY <1>3 DEF RenderManifests, RunTyped, Steps, States
  <2>2. ProfileInv' BY <1>3 DEF RenderManifests, ProfileInv
  <2>3. ManifestInv' BY <1>3, RenderKeeps DEF RenderManifests
  <2>4. QED BY <2>1, <2>2, <2>3
<1>4. CASE RenderRaises
  <2>1. RunTyped' BY <1>4 DEF RenderRaises, RunTyped, Steps, States
  <2>2. ProfileInv' BY <1>4 DEF RenderRaises, ProfileInv
  <2>3. ManifestInv' BY <1>4, RenderKeeps DEF RenderRaises, Before
  <2>4. QED BY <2>1, <2>2, <2>3
<1>5. CASE SaveQuestions
  <2>1. \A q \in questions' : IsQuestion(q)
    BY <1>5, QuestionsTyped DEF SaveQuestions, RunTyped
  <2>2. RunTyped' BY <1>5, <2>1 DEF SaveQuestions, RunTyped, Steps
  <2>3. ProfileInv' BY <1>5 DEF SaveQuestions, ProfileInv
  <2>4. ManifestInv' BY <1>5 DEF SaveQuestions, ManifestInv
  <2>5. QED BY <2>2, <2>3, <2>4
<1>6. CASE SaveProfile
  <2>1. RunTyped' BY <1>6 DEF SaveProfile, RunTyped, Steps, States
  <2>2. ProfileInv' BY <1>6 DEF SaveProfile, ProfileInv
  <2>3. ManifestInv' BY <1>6 DEF SaveProfile, ManifestInv
  <2>4. QED BY <2>1, <2>2, <2>3
<1>7. CASE Finish
  <2>1. RunTyped' BY <1>7 DEF Finish, RunTyped, Steps, States
  <2>2. ProfileInv' BY <1>7 DEF Finish, ProfileInv
  <2>3. ManifestInv' BY <1>7 DEF Finish, ManifestInv
  <2>4. QED BY <2>1, <2>2, <2>3
<1>8. QED BY <1>1, <1>2, <1>3, <1>4, <1>5, <1>6, <1>7

LEMMA EnvironmentKeeps ==
    ASSUME RunInv, WriteAnswers \/ EditTree \/ Crash \/ CrashRendering
    PROVE  RunInv'
<1> USE DEF RunInv
<1>1. CASE WriteAnswers
  <2>1. RunTyped' BY <1>1 DEF WriteAnswers, directory, job, RunTyped
  <2>2. ProfileInv' BY <1>1 DEF WriteAnswers, directory, job, ProfileInv
  <2>3. ManifestInv' BY <1>1 DEF WriteAnswers, directory, ManifestInv
  <2>4. QED BY <2>1, <2>2, <2>3
<1>2. CASE EditTree
  <2>1. RunTyped' BY <1>2, TopologiesAssumption DEF EditTree, directory, job, RunTyped
  <2>2. ProfileInv' BY <1>2 DEF EditTree, directory, job, ProfileInv
  <2>3. ManifestInv' BY <1>2 DEF EditTree, directory, ManifestInv
  <2>4. QED BY <2>1, <2>2, <2>3
<1>3. ASSUME Die PROVE RunTyped' /\ ProfileInv'
  <2>1. left' \in [commands : Nat, files : Nat, edits : Nat, crashes : Nat]
    BY <1>3 DEF Die, RunTyped
  <2>2. RunTyped' BY <1>3, <2>1 DEF Die, Return, RunTyped, Steps, States
  <2>3. ProfileInv' BY <1>3 DEF Die, Return, ProfileInv
  <2>4. QED BY <2>2, <2>3
<1>4. CASE Crash BY <1>3, <1>4 DEF Crash, ManifestInv
<1>5. CASE CrashRendering
  <2>1. ManifestInv' BY <1>5, RenderKeeps DEF CrashRendering, Before
  <2>2. QED BY <1>3, <1>5, <2>1 DEF CrashRendering
<1>6. QED BY <1>1, <1>2, <1>4, <1>5

LEMMA RunInvKept == Spec => []RunInv
<1>1. RunInv /\ UNCHANGED vars => RunInv'
  BY DEF vars, directory, job, RunInv, RunTyped, ProfileInv, ManifestInv
<1>2. RunInv /\ Next => RunInv'
  BY CommandsKeep, DecideKeeps, StepsKeep, EnvironmentKeeps DEF Next
<1>3. QED BY <1>1, <1>2, RunInvInitial, PTL DEF Spec

------------------------------------------------------------------------------
\* Every variable always has its type, and no profile, on disk or in memory, is
\* renderable with a hold (DeploymentProfileBuilder.build).
THEOREM ProfilesAreTyped == Spec => []TypeOK
  BY RunInvKept, RunInvTyped, PTL

\* Accepted answers always lift every hold a decision can lift: QuestionManager
\* asks for whatever DeploymentProfileBuilder may hold.
THEOREM AnswersResolve == Spec => []AnswersResolveHolds
<1>1. RunInv => AnswersResolveHolds
  BY BuiltResolved DEF RunInv, ProfileInv, AnswersResolveHolds, NoProfile
<1>2. QED BY <1>1, RunInvKept, PTL

\* No manifest of an application is ever written unless the user has answered
\* every question of the run it comes from.
THEOREM OnlyAnsweredIsRendered == Spec => []RenderedOnlyAnswered
<1>1. RunInv => RenderedOnlyAnswered
  <2> SUFFICES ASSUME RunInv, NEW name \in DOMAIN manifests,
                      NEW c \in DOMAIN manifests[name].of.facts,
                      manifests[name].of.facts[c].role = "application"
               PROVE  \A f \in Asked(manifests[name].of.facts) :
                        \E d \in manifests[name].of.users : d.field = f
    BY DEF RenderedOnlyAnswered
  <2>1. Rendered(manifests[name], name) BY DEF RunInv, ManifestInv
  <2>2. QED BY <2>1, RenderedFacts
<1>2. QED BY <1>1, RunInvKept, PTL

\* No automatic decision ever overrides the user's in a manifest.
THEOREM AnswersAreRendered == Spec => []RenderedAsAnswered
<1>1. RunInv => RenderedAsAnswered
  BY RenderedFacts DEF RunInv, ManifestInv, RenderedAsAnswered
<1>2. QED BY <1>1, RunInvKept, PTL

\* No part of a tree with a stateful dependency is ever rendered.
THEOREM BlockedIsNeverRendered == Spec => []BlockedNeverRendered
<1>1. RunInv => BlockedNeverRendered
  BY RenderedFacts DEF RunInv, ManifestInv, BlockedNeverRendered
<1>2. QED BY <1>1, RunInvKept, PTL
------------------------------------------------------------------------------
\* What a waiting run asks

\* What the steps of a command know of the tree their profile is built from;
\* the questions and the profile of a waiting run are of one tree, that of the
\* saved analysis.
AskingInv ==
    /\ command = "analyze" => step = "analyze" /\ profile = NoProfile
    /\ step = "analyze" => state = "ANALYZING"
    /\ step = "render" => command = "generate" \/ draft.facts = analysis
    /\ step \in {"save_questions", "save_profile"} => draft.facts = analysis
    /\ step \in {"save_profile", "finish"} => questions = Questions(analysis)
    /\ step = "finish" => profile.facts = analysis
    /\ state = "WAITING_FOR_USER" =>
          \/ profile = NoProfile
          \/ profile.facts = analysis /\ questions = Questions(analysis)

LEMMA BuiltFacts ==
    ASSUME NEW facts, NEW semantic, NEW users
    PROVE  Build(facts, semantic, users).facts = facts
  BY DEF Build

LEMMA AskingKept == ASSUME AskingInv, [Next]_vars PROVE AskingInv'
<1> USE DEF AskingInv, UserAndTree, Return
<1>1. CASE Prepare \/ PrepareWithAnswers \/ Analyze
  BY <1>1 DEF Prepare, PrepareWithAnswers, Analyze, Begin, Type
<1>2. CASE Plan
  <2>1. draft'.facts = analysis BY <1>2, BuiltFacts DEF Plan
  <2>2. QED BY <1>2, <2>1 DEF Plan, Type, directory
<1>3. CASE Generate
  BY <1>3 DEF Generate, Type, directory
<1>4. CASE \E reuse \in BOOLEAN : Resume(reuse)
  BY <1>4 DEF Resume, Type
<1>5. CASE RunPhase1
  BY <1>5 DEF RunPhase1
<1>6. CASE RejectAnswers
  BY <1>6 DEF RejectAnswers
<1>7. CASE Decide
  <2>1. draft'.facts = analysis BY <1>7, BuiltFacts DEF Decide
  <2>2. QED BY <1>7, <2>1 DEF Decide, directory
<1>8. CASE RenderManifests
  BY <1>8 DEF RenderManifests
<1>9. CASE RenderRaises
  BY <1>9 DEF RenderRaises
<1>10. CASE SaveQuestions
  BY <1>10 DEF SaveQuestions
<1>11. CASE SaveProfile
  BY <1>11 DEF SaveProfile
<1>12. CASE Finish
  BY <1>12 DEF Finish
<1>13. CASE WriteAnswers \/ EditTree
  BY <1>13 DEF WriteAnswers, EditTree, directory, job
<1>14. CASE Crash \/ CrashRendering
  BY <1>14 DEF Crash, CrashRendering, Die
<1>15. CASE UNCHANGED vars
  BY <1>15 DEF vars, directory, job
<1>16. QED
  BY <1>1, <1>2, <1>3, <1>4, <1>5, <1>6, <1>7, <1>8, <1>9, <1>10, <1>11, <1>12, <1>13, <1>14, <1>15
  DEF Next

\* A hold that a decision can lift is one of the fields asked about.
LEMMA HoldsAreAsked ==
    ASSUME NEW p, Built(p), NEW f \in p.unresolved
    PROVE  \E q \in Questions(p.facts) : q.field = f
<1>1. PICK facts, semantic, users : p = Build(facts, semantic, users)
  BY DEF Built
<1>2. p.facts = facts /\ f \in WithDisposition("requires_confirmation", facts)
  BY <1>1 DEF Build, Unresolved
<1>3. f \in Asked(facts) BY <1>2 DEF Asked
<1> DEFINE q == [id |-> QuestionId(f, facts[f.component]), field |-> f,
                 value |-> CandidateValue(f, facts[f.component])]
<1>4. q \in Questions(facts) BY <1>3 DEF Questions
<1>5. q.field = f OBVIOUS
<1>6. QED BY <1>2, <1>4, <1>5

\* A run that waits for the user has on disk the questions whose answers lift
\* its holds (QuestionManager.build and DeploymentProfileBuilder._holds), after
\* any replans and deaths.
THEOREM WaitingRunsAsk == Spec => []WaitingRunAsks
<1>1. Init => AskingInv BY DEF Init, AskingInv
<1>2. RunInv /\ AskingInv => WaitingRunAsks
  <2> SUFFICES ASSUME RunInv, AskingInv, state = "WAITING_FOR_USER", NEW f \in profile.unresolved
               PROVE  \E q \in questions : q.field = f /\ q \in Questions(analysis)
    BY DEF WaitingRunAsks
  <2>1. profile # NoProfile BY DEF NoProfile
  <2>2. Built(profile) BY <2>1 DEF RunInv, ProfileInv
  <2>3. profile.facts = analysis /\ questions = Questions(analysis) BY <2>1 DEF AskingInv
  <2>4. QED BY <2>2, <2>3, HoldsAreAsked
<1>3. Spec => []AskingInv BY <1>1, AskingKept, PTL DEF Spec
<1>4. QED BY <1>2, <1>3, RunInvKept, PTL
==============================================================================
