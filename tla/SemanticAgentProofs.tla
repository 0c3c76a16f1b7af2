-------------------------- MODULE SemanticAgentProofs --------------------------
(***************************************************************************)
(* What holds of one run of the semantic agent for every task, budget,     *)
(* model and tree.  The facts about the command taken ask for a model that *)
(* gives the candidates of a resolution distinct ids.                      *)
(***************************************************************************)
EXTENDS SemanticAgent, FiniteSetTheorems, WellFoundedInduction, TLAPS

------------------------------------------------------------------------------
\* Least elements of sets of natural numbers, for the first of the sorted
\* commands

LEMMA LessThan == \E Less : /\ IsWellFoundedOn(Less, Nat)
                            /\ \A x, y \in Nat : <<y, x>> \in Less <=> y < x
<1>1. \A x, y \in Nat : <<y, x>> \in OpToRel(<, Nat) <=> y < x
  BY Zenon DEF OpToRel
<1>2. QED BY <1>1, NatLessThanWellFounded, Zenon

LEMMA LeastNatural ==
    ASSUME NEW S \in SUBSET Nat, S # {}
    PROVE  Min(S) \in S
<1>1. PICK Less : /\ IsWellFoundedOn(Less, Nat)
                  /\ \A x, y \in Nat : <<y, x>> \in Less <=> y < x
  BY LessThan, Zenon
<1>2. PICK m \in S : \A y \in S : <<y, m>> \notin Less
  BY <1>1, WFMin, Zenon
<1>3. \A x, y \in Nat : <<y, x>> \in Less <=> y < x
  BY <1>1
<1>4. \A y \in S : m <= y
  <2> TAKE y \in S
  <2>1. m \in Nat /\ y \in Nat OBVIOUS
  <2>2. ~(y < m) BY <1>2, <1>3, <2>1, Zenon
  <2>3. QED BY <2>1, <2>2
<1>5. QED BY <1>4, Zenon DEF Min

------------------------------------------------------------------------------
\* Types of resolutions and outcomes

LEMMA NoResolutionTyped == NoResolution \in Resolution /\ BudgetResolution \in Resolution
<1>1. <<>> \in Seq(Candidate) OBVIOUS
<1>2. {"tool_error", "budget_exhausted"} \subseteq ResolutionStatus
  BY DEF ResolutionStatus, Unresolved
<1>3. QED BY <1>1, <1>2 DEF NoResolution, BudgetResolution, Resolution

LEMMA AnswersTyped == Answers \subseteq Resolution
<1>1. SeqOf(Proposals, MaxCandidates) \subseteq Seq(Candidate)
  BY AnswersAssumption DEF SeqOf
<1>2. QED BY <1>1 DEF Answers, Resolution

LEMMA UnverifiedTyped ==
    ASSUME NEW status \in RunStatus PROVE Unverified(status) \in Outcome
  BY NoResolutionTyped DEF Unverified, Outcome

LEMMA CandidatesTyped ==
    ASSUME NEW resolution \in Resolution, NEW i \in DOMAIN resolution.candidates
    PROVE  resolution.candidates[i] \in Candidate
<1>1. resolution.candidates \in Seq(Candidate) BY DEF Resolution
<1>2. QED BY <1>1

\* The verifier gives every resolution one of its statuses.
LEMMA StatusTyped ==
    ASSUME NEW resolution \in Resolution, NEW acceptedIds
    PROVE  /\ OverallStatus(resolution, acceptedIds) \in VerificationStatus
           /\ StatusFor(OverallStatus(resolution, acceptedIds)) \in RunStatus
  BY DEF Resolution, ResolutionStatus, Unresolved, OverallStatus, VerificationStatus,
         StatusFor, RunStatus

LEMMA VerifiedTyped ==
    ASSUME NEW resolution \in Resolution, NEW evidence
    PROVE  Verified(resolution, evidence) \in Outcome
<1> DEFINE acceptedAt == AcceptedAt(tree, evidence, resolution)
           status == OverallStatus(resolution, {resolution.candidates[i].id : i \in acceptedAt})
           keptAt == KeptAt(status, acceptedAt)
<1>1. {resolution.candidates[i].id : i \in keptAt} \subseteq CandidateIds
  <2>1. keptAt \subseteq DOMAIN resolution.candidates
    BY DEF KeptAt, AcceptedAt
  <2>2. \A i \in DOMAIN resolution.candidates : resolution.candidates[i].id \in CandidateIds
    BY CandidatesTyped DEF Candidate
  <2>3. QED BY <2>1, <2>2
<1>2. status \in VerificationStatus /\ StatusFor(status) \in RunStatus
  BY StatusTyped
<1>3. Raised(resolution) \in Outcome
  BY UnverifiedTyped DEF Raised, Unverified, Outcome, RunStatus
<1>4. Verified(resolution, evidence) =
        IF Consistent(status, keptAt, resolution.candidates)
        THEN [status |-> StatusFor(status), verification |-> status,
              accepted |-> {resolution.candidates[i].id : i \in keptAt},
              resolution |-> resolution]
        ELSE Raised(resolution)
  BY DEF Verified
<1> HIDE DEF acceptedAt, status, keptAt
<1>5. QED BY <1>1, <1>2, <1>3, <1>4 DEF Outcome

------------------------------------------------------------------------------
\* The inductive invariant of the budget: an agent that goes on has an outcome
\* still open and a ledger below its ceilings

WithinBudget ==
    pc # "done" => /\ ~exhausted /\ ~Exhausts(ledger)
                   /\ Cardinality(ledger.tools) <= MaxDistinctTools
                   /\ outcome = Unverified("running")

BudgetInv == TypeOK /\ WithinBudget

LEMMA LedgerCounts ==
    ASSUME TypeOK
    PROVE  /\ Cardinality(ledger.files) \in Nat /\ Cardinality(ledger.tools) \in Nat
           /\ IsFiniteSet(ledger.tools)
<1>1. IsFiniteSet(AllowedTools) BY ToolsAssumption, FS_Subset
<1>2. ledger.files \subseteq Files /\ ledger.tools \subseteq AllowedTools
  BY DEF TypeOK, Ledger
<1>3. IsFiniteSet(ledger.files) /\ IsFiniteSet(ledger.tools)
  BY <1>1, <1>2, FilesAssumption, FS_Subset
<1>4. QED BY <1>3, FS_CardinalityType

\* With a question out one more call and one more retry keep the ledger typed.
LEMMA RoomForOneMore ==
    ASSUME BudgetInv, pc = "provider"
    PROVE  /\ ledger.calls + 1 \in 0..MaxToolCalls
           /\ ledger.retries + 1 \in 0..(MaxSchemaRetries + 1)
  BY BudgetAssumption
  DEF BudgetInv, TypeOK, Ledger, WithinBudget, Exhausts, Positive

LEMMA BudgetInit == Init => BudgetInv
<1> SUFFICES ASSUME Init PROVE BudgetInv OBVIOUS
<1> USE DEF Init
<1>1. ledger \in Ledger BY BudgetAssumption DEF Ledger, Positive
<1>2. TypeOK
  <2>1. turns \in 0..MaxAgentTurns /\ attempts \in 0..(TransportRetries + 1) /\ edits \in Nat
    BY BudgetAssumption, AnswersAssumption DEF Positive
  <2>2. outcome \in Outcome
    BY UnverifiedTyped DEF RunStatus
  <2>3. QED BY <1>1, <2>1, <2>2 DEF TypeOK
<1>3. WithinBudget
  BY FS_EmptySet, BudgetAssumption DEF WithinBudget, Exhausts, Positive
<1>4. QED BY <1>2, <1>3 DEF BudgetInv

\* A step that ends the run with a typed outcome and leaves the rest alone.
LEMMA BudgetEnd ==
    ASSUME BudgetInv, NEW result \in Outcome, End(result),
           UNCHANGED <<tree, turns, attempts, ledger, exhausted, collected, edits>>
    PROVE  BudgetInv'
  BY DEF BudgetInv, TypeOK, WithinBudget, End

\* A tool call counts one call, one tool and what it returned.
LEMMA CallToolBudget ==
    ASSUME BudgetInv, NEW tool \in Tools, NEW status \in ToolStatus,
           NEW read \in SUBSET Files, NEW lines \in ResultLines,
           CallTool(tool, status, read, lines)
    PROVE  BudgetInv'
<1> DEFINE found == collected \cup {[file |-> f, text |-> tree[f]] : f \in read}
<1>1. /\ pc = "provider" /\ tool \in AllowedTools /\ ToolFits(tool)
      /\ ledger' = [ledger EXCEPT !.calls = @ + 1, !.tools = @ \cup {tool},
                                  !.files = @ \cup read, !.lines = @ + lines]
      /\ collected' = found
      /\ exhausted' = (exhausted \/ Exhausts(ledger'))
      /\ UNCHANGED <<tree, turns, attempts, edits>>
  BY DEF CallTool
<1>2. \/ Fail("invalid_action") \/ Fail("tool_error")
      \/ End(Verified(BudgetResolution, found))
      \/ pc' = "turn" /\ ~exhausted' /\ UNCHANGED outcome
  BY DEF CallTool
<1>3. ledger' \in Ledger
  <2>1. ledger \in Ledger BY DEF BudgetInv, TypeOK
  <2>2. ledger.lines + lines \in Nat
    BY <2>1, AnswersAssumption DEF Ledger
  <2>3. ledger.calls + 1 \in 0..MaxToolCalls
    BY <1>1, RoomForOneMore
  <2>4. QED BY <1>1, <2>1, <2>2, <2>3 DEF Ledger
<1>4. found \subseteq Evidence
  BY DEF BudgetInv, TypeOK, Evidence
<1>5. outcome' \in Outcome /\ pc' \in {"turn", "done"}
  BY <1>2, UnverifiedTyped, VerifiedTyped, NoResolutionTyped
  DEF Fail, End, RunStatus, BudgetInv, TypeOK
<1>6. exhausted' \in BOOLEAN
  BY <1>1, Zenon DEF BudgetInv, TypeOK, Exhausts
<1>7. TypeOK'
  BY <1>1, <1>3, <1>4, <1>5, <1>6 DEF BudgetInv, TypeOK
<1>8. Cardinality(ledger'.tools) <= MaxDistinctTools
  <2>1. Cardinality(ledger.tools \cup {tool}) =
          IF tool \in ledger.tools THEN Cardinality(ledger.tools)
                                   ELSE Cardinality(ledger.tools) + 1
    BY LedgerCounts, FS_AddElement DEF BudgetInv
  <2>2. ledger'.tools = ledger.tools \cup {tool}
    BY <1>1 DEF BudgetInv, TypeOK, Ledger
  <2>3. QED
    BY <1>1, <2>1, <2>2 DEF BudgetInv, WithinBudget, ToolFits
<1>9. WithinBudget'
  <2>1. CASE pc' = "done" BY <2>1 DEF WithinBudget
  <2>2. CASE pc' = "turn" /\ ~exhausted' /\ UNCHANGED outcome
    BY <1>1, <1>8, <2>2 DEF BudgetInv, WithinBudget
  <2>3. QED BY <1>2, <2>1, <2>2 DEF Fail, End
<1>10. QED BY <1>7, <1>9 DEF BudgetInv

\* An input the tool refuses counts a call, a tool and a retry, and ends the run.
LEMMA InvalidInputBudget ==
    ASSUME BudgetInv, NEW tool \in Tools, InvalidInput(tool)
    PROVE  BudgetInv'
<1>1. ledger \in Ledger BY DEF BudgetInv, TypeOK
<1>2. ledger.calls + 1 \in 0..MaxToolCalls /\ ledger.retries + 1 \in 0..(MaxSchemaRetries + 1)
  BY RoomForOneMore DEF InvalidInput
<1>3. ledger' \in Ledger
  BY <1>1, <1>2 DEF InvalidInput, Ledger
<1>4. exhausted' \in BOOLEAN
  BY Zenon DEF BudgetInv, TypeOK, InvalidInput, Exhausts
<1>5. outcome' \in Outcome /\ pc' = "done"
  BY UnverifiedTyped DEF InvalidInput, Fail, End, RunStatus
<1>6. QED BY <1>3, <1>4, <1>5 DEF BudgetInv, TypeOK, WithinBudget, InvalidInput

\* A retry of the schema is admitted only below its limit.
LEMMA SchemaRetryBudget ==
    ASSUME BudgetInv, HandleProviderSchemaError
    PROVE  BudgetInv'
<1>1. CASE ledger.retries < MaxSchemaRetries
  <2>1. ledger \in Ledger BY DEF BudgetInv, TypeOK
  <2>2. /\ ledger' = [ledger EXCEPT !.retries = @ + 1]
        /\ pc' = "turn"
        /\ UNCHANGED <<tree, turns, attempts, exhausted, collected, outcome, edits>>
    BY <1>1 DEF HandleProviderSchemaError
  <2>3. ledger.retries + 1 \in 0..(MaxSchemaRetries + 1) /\ ledger.retries + 1 <= MaxSchemaRetries
    BY <1>1, <2>1, BudgetAssumption DEF Ledger, Positive
  <2>4. ledger' \in Ledger BY <2>1, <2>2, <2>3 DEF Ledger
  <2>5. TypeOK' BY <2>2, <2>4 DEF BudgetInv, TypeOK
  <2>6. ~Exhausts(ledger) BY DEF BudgetInv, WithinBudget, HandleProviderSchemaError
  <2>7. ~Exhausts(ledger')
    BY <2>1, <2>2, <2>3, <2>6, BudgetAssumption DEF Exhausts, Ledger, Positive
  <2>8. ledger'.tools = ledger.tools BY <2>1, <2>2 DEF Ledger
  <2>9. QED
    BY <2>2, <2>5, <2>7, <2>8 DEF BudgetInv, WithinBudget, HandleProviderSchemaError
<1>2. CASE ~(ledger.retries < MaxSchemaRetries)
  BY <1>2, BudgetEnd, UnverifiedTyped DEF HandleProviderSchemaError, Fail, RunStatus
<1>3. QED BY <1>1, <1>2

LEMMA BudgetNext == BudgetInv /\ [Next]_vars => BudgetInv'
<1> SUFFICES ASSUME BudgetInv, [Next]_vars PROVE BudgetInv' OBVIOUS
<1>1. CASE StopOnBudget
  BY <1>1, BudgetEnd, VerifiedTyped, NoResolutionTyped DEF StopOnBudget
<1>2. CASE AskProvider
  <2>1. turns + 1 \in 0..MaxAgentTurns /\ 1 \in 0..(TransportRetries + 1)
    BY <1>2, BudgetAssumption
    DEF AskProvider, ProviderBudgetExhausted, BudgetInv, TypeOK, Positive
  <2>2. QED BY <1>2, <2>1 DEF AskProvider, BudgetInv, TypeOK, WithinBudget
<1>3. CASE RetryTransport
  <2>1. attempts + 1 \in 0..(TransportRetries + 1)
    BY <1>3, BudgetAssumption DEF RetryTransport, BudgetInv, TypeOK
  <2>2. QED BY <1>3, <2>1 DEF RetryTransport, BudgetInv, TypeOK, WithinBudget
<1>4. CASE ProviderFails
  BY <1>4, BudgetEnd, UnverifiedTyped DEF ProviderFails, Fail, RunStatus
<1>5. CASE InvalidAction
  BY <1>5, BudgetEnd, UnverifiedTyped DEF InvalidAction, Fail, RunStatus
<1>6. CASE HandleProviderSchemaError BY <1>6, SchemaRetryBudget
<1>7. ASSUME NEW tool \in Tools, CallAnyTool(tool) PROVE BudgetInv'
  <2>1. CASE ToolNotAllowed(tool)
    BY <2>1, BudgetEnd, UnverifiedTyped DEF ToolNotAllowed, Fail, RunStatus
  <2>2. CASE TooManyTools(tool)
    BY <2>2, BudgetEnd, VerifiedTyped, NoResolutionTyped DEF TooManyTools
  <2>3. CASE InvalidInput(tool) BY <2>3, InvalidInputBudget
  <2>4. ASSUME NEW status \in ToolStatus, NEW read \in SUBSET Files, NEW lines \in ResultLines,
               CallTool(tool, status, read, lines)
        PROVE  BudgetInv'
    BY <2>4, CallToolBudget
  <2>5. QED BY <1>7, <2>1, <2>2, <2>3, <2>4 DEF CallAnyTool
<1>8. ASSUME NEW resolution \in Answers, HandleResolution(resolution) PROVE BudgetInv'
  BY <1>8, BudgetEnd, VerifiedTyped, AnswersTyped DEF HandleResolution
<1>9. CASE EditTree
  <2>1. tree' \in [Files -> Texts] /\ edits' \in Nat
    BY <1>9 DEF EditTree, BudgetInv, TypeOK
  <2>2. QED BY <1>9, <2>1 DEF EditTree, agentVars, BudgetInv, TypeOK, WithinBudget
<1>10. CASE UNCHANGED vars
  BY <1>10 DEF vars, agentVars, BudgetInv, TypeOK, WithinBudget
<1>11. QED
  BY <1>1, <1>2, <1>3, <1>4, <1>5, <1>6, <1>7, <1>8, <1>9, <1>10 DEF Next, Agent

LEMMA BudgetKept == Spec => []BudgetInv
  BY BudgetInit, BudgetNext, PTL DEF Spec

\* Every variable of the agent is of its type for every budget and answer.
THEOREM TypeCorrect == Spec => []TypeOK
<1>1. BudgetInv => TypeOK BY DEF BudgetInv
<1>2. QED BY <1>1, BudgetKept, PTL

\* The model is asked only while one more tool call and one more retry fit in
\* the budget, so SemanticToolSession never refuses a call.
THEOREM AsksWithinBudget == Spec => []AskedWithinBudget
<1>1. BudgetInv => AskedWithinBudget
  <2> SUFFICES ASSUME BudgetInv, pc = "provider"
               PROVE  /\ turns <= MaxAgentTurns /\ ~exhausted
                      /\ ledger.calls < MaxToolCalls
                      /\ Cardinality(ledger.tools) <= MaxDistinctTools
                      /\ Cardinality(ledger.files) <= MaxFilesRead
                      /\ ledger.lines <= MaxSourceLines /\ ledger.retries <= MaxSchemaRetries
    BY DEF AskedWithinBudget
  <2>1. TypeOK /\ ~exhausted /\ ~Exhausts(ledger) /\ Cardinality(ledger.tools) <= MaxDistinctTools
    BY DEF BudgetInv, WithinBudget
  <2>2. Cardinality(ledger.files) \in Nat BY <2>1, LedgerCounts
  <2>3. QED
    BY <2>1, <2>2, BudgetAssumption DEF TypeOK, Ledger, Exhausts, Positive
<1>2. QED BY <1>1, BudgetKept, PTL

------------------------------------------------------------------------------
\* What an outcome says, when the candidates of a resolution have distinct ids:
\* it was returned, the candidates of every accepted id are verified, and an
\* accepted one resolves to the recommended of them

Sound(t, evidence, result) ==
    /\ result.status # "raised"
    /\ HasDistinctIds(result.resolution)
    /\ \A i \in DOMAIN result.resolution.candidates :
          result.resolution.candidates[i].id \in result.accepted =>
             CandidateAccepted(t, evidence, result.resolution.candidates[i])
    /\ result.accepted \subseteq Ids(result.resolution.candidates)
    /\ result.verification = "accepted" =>
          /\ result.resolution.status = "resolved"
          /\ result.resolution.recommended \in result.accepted

LEMMA UnverifiedSound ==
    ASSUME NEW status \in RunStatus \ {"raised"}, NEW t, NEW evidence
    PROVE  Sound(t, evidence, Unverified(status))
  BY DEF Sound, Unverified, NoResolution, HasDistinctIds, Ids

\* With distinct ids the VerificationResult is always consistent, so a result
\* is returned, and it is sound.
LEMMA VerifiedSound ==
    ASSUME NEW resolution \in Resolution, HasDistinctIds(resolution), NEW evidence
    PROVE  Sound(tree, evidence, Verified(resolution, evidence))
<1> DEFINE acceptedAt == AcceptedAt(tree, evidence, resolution)
           acceptedIds == {resolution.candidates[i].id : i \in acceptedAt}
           status == OverallStatus(resolution, acceptedIds)
           keptAt == KeptAt(status, acceptedAt)
           result == [status |-> StatusFor(status), verification |-> status,
                      accepted |-> {resolution.candidates[i].id : i \in keptAt},
                      resolution |-> resolution]
<1>1. Verified(resolution, evidence) =
        IF Consistent(status, keptAt, resolution.candidates) THEN result
                                                             ELSE Raised(resolution)
  BY DEF Verified
<1>2. acceptedAt \subseteq DOMAIN resolution.candidates BY DEF AcceptedAt
<1>3. keptAt \subseteq acceptedAt BY DEF KeptAt
<1>4. \A i \in acceptedAt : CandidateAccepted(tree, evidence, resolution.candidates[i])
  BY DEF AcceptedAt
<1>5. Consistent(status, keptAt, resolution.candidates)
  <2>1. status \notin Accepting => keptAt = {} BY DEF KeptAt
  <2>2. \A i, j \in keptAt :
            resolution.candidates[i].id = resolution.candidates[j].id => i = j
    BY <1>2, <1>3 DEF HasDistinctIds
  <2>3. QED BY <2>1, <2>2, Zenon DEF Consistent
<1>6. status = "accepted" => /\ resolution.status = "resolved"
                             /\ resolution.recommended \in acceptedIds
                             /\ keptAt = acceptedAt
  <2>1. status = "accepted" => resolution.status = "resolved" /\ resolution.recommended \in acceptedIds
    BY DEF OverallStatus, Unresolved
  <2>2. status = "accepted" => keptAt = acceptedAt BY DEF KeptAt, Accepting
  <2>3. QED BY <2>1, <2>2
<1>7. StatusFor(status) # "raised"
  <2>1. status \in VerificationStatus BY StatusTyped
  <2>2. QED BY <2>1 DEF StatusFor, VerificationStatus, Unresolved
<1>8. Sound(tree, evidence, result)
  <2>1. \A i \in DOMAIN resolution.candidates :
            resolution.candidates[i].id \in result.accepted => i \in keptAt
    BY <1>2, <1>3 DEF HasDistinctIds
  <2>2. result.accepted \subseteq Ids(resolution.candidates)
    BY <1>2, <1>3 DEF Ids
  <2>3. status = "accepted" => resolution.recommended \in result.accepted
    BY <1>6
  <2>4. \A i \in DOMAIN resolution.candidates :
            resolution.candidates[i].id \in result.accepted =>
                CandidateAccepted(tree, evidence, resolution.candidates[i])
    BY <2>1, <1>3, <1>4
  <2> HIDE DEF keptAt, status, acceptedAt, acceptedIds
  <2>5. QED BY <1>6, <1>7, <2>2, <2>3, <2>4 DEF Sound
<1>9. QED BY <1>1, <1>5, <1>8

AgentInv == BudgetInv /\ (DistinctIds => Sound(tree, collected, outcome))

LEMMA AgentInit == Init => AgentInv
<1> SUFFICES ASSUME Init PROVE AgentInv OBVIOUS
<1>1. Sound(tree, collected, outcome) BY UnverifiedSound DEF Init, RunStatus
<1>2. QED BY <1>1, BudgetInit DEF AgentInv

\* The resolutions the agent verifies: the model's, or its own without candidates.
LEMMA VerifiedDistinct ==
    ASSUME DistinctIds, NEW resolution \in Answers \cup {BudgetResolution}
    PROVE  resolution \in Resolution /\ HasDistinctIds(resolution)
<1>1. CASE resolution \in Answers BY <1>1, AnswersTyped DEF Answers
<1>2. CASE resolution = BudgetResolution
  BY <1>2, NoResolutionTyped DEF BudgetResolution, NoResolution, HasDistinctIds
<1>3. QED BY <1>1, <1>2

\* Every step of an agent that goes on leaves it without an outcome; every
\* other one ends it with a status or with what the verifier said of the tree
\* and of the evidence collected by then.
Ends ==
    /\ UNCHANGED <<tree, turns>>
    /\ pc # "done" /\ pc' = "done"
    /\ \/ \E status \in RunStatus \ {"raised"} : outcome' = Unverified(status)
       \/ \E resolution \in Answers \cup {BudgetResolution} :
             outcome' = Verified(resolution, collected')

LEMMA EndingSteps == Next => pc' # "done" \/ Ends
<1> SUFFICES ASSUME Next PROVE pc' # "done" \/ Ends OBVIOUS
<1> USE DEF End, Fail, Ends
<1>1. CASE StopOnBudget BY <1>1 DEF StopOnBudget
<1>2. CASE AskProvider BY <1>2 DEF AskProvider
<1>3. CASE RetryTransport BY <1>3 DEF RetryTransport
<1>4. CASE ProviderFails BY <1>4 DEF ProviderFails, RunStatus
<1>5. CASE InvalidAction BY <1>5 DEF InvalidAction, RunStatus
<1>6. CASE HandleProviderSchemaError BY <1>6 DEF HandleProviderSchemaError, RunStatus
<1>7. ASSUME NEW tool \in Tools
      PROVE  /\ ToolNotAllowed(tool) => Ends
             /\ TooManyTools(tool) => Ends
             /\ InvalidInput(tool) => Ends
  BY DEF ToolNotAllowed, TooManyTools, InvalidInput, RunStatus
<1>8. ASSUME NEW tool \in Tools, NEW status \in ToolStatus, NEW read \in SUBSET Files,
             NEW lines \in ResultLines, CallTool(tool, status, read, lines)
      PROVE  pc' # "done" \/ Ends
  BY <1>8 DEF CallTool, RunStatus
<1>9. ASSUME NEW resolution \in Answers, HandleResolution(resolution) PROVE Ends
  BY <1>9 DEF HandleResolution
<1>10. CASE EditTree BY <1>10 DEF EditTree, agentVars
<1>11. QED
  BY <1>1, <1>2, <1>3, <1>4, <1>5, <1>6, <1>7, <1>8, <1>9, <1>10 DEF Next, Agent, CallAnyTool

LEMMA AgentNext == AgentInv /\ [Next]_vars => AgentInv'
<1> SUFFICES ASSUME AgentInv, [Next]_vars PROVE AgentInv' OBVIOUS
<1>1. BudgetInv' BY BudgetNext DEF AgentInv
<1>2. ASSUME DistinctIds PROVE Sound(tree', collected', outcome')
  <2>1. CASE UNCHANGED vars
    BY <1>2, <2>1 DEF AgentInv, vars, agentVars
  <2>2. CASE pc' # "done"
    <3>1. outcome' = Unverified("running") BY <1>1, <2>2 DEF BudgetInv, WithinBudget
    <3>2. QED BY <3>1, UnverifiedSound DEF RunStatus
  <2>3. CASE Ends
    <3>1. ASSUME NEW status \in RunStatus \ {"raised"}, outcome' = Unverified(status)
          PROVE  Sound(tree', collected', outcome')
      BY <3>1, UnverifiedSound
    <3>2. ASSUME NEW resolution \in Answers \cup {BudgetResolution},
                 outcome' = Verified(resolution, collected')
          PROVE  Sound(tree', collected', outcome')
      <4>1. Sound(tree, collected', Verified(resolution, collected'))
        BY <1>2, VerifiedDistinct, VerifiedSound
      <4>2. QED BY <3>2, <4>1, <2>3 DEF Ends
    <3>3. QED BY <2>3, <3>1, <3>2 DEF Ends
  <2>4. QED BY <2>1, <2>2, <2>3, EndingSteps
<1>3. QED BY <1>1, <1>2 DEF AgentInv

LEMMA AgentKept == Spec => []AgentInv
  BY AgentInit, AgentNext, PTL DEF Spec

------------------------------------------------------------------------------
\* The commands taken

\* The command of an accepted candidate is verified.
LEMMA AcceptedVerified ==
    ASSUME NEW candidate, CandidateAccepted(tree, collected, candidate)
    PROVE  VerifiedCommand(candidate.command)
  BY DEF CandidateAccepted, Grounded, VerifiedFacts, VerifiedEvidence, VerifiedCommand

\* An accepted outcome has a candidate with each accepted id, and verified ones only.
LEMMA PipelineVerified ==
    ASSUME AgentInv, DistinctIds, TakenByPipeline # NoCommand
    PROVE  TakenByPipeline \in Commands /\ VerifiedCommand(TakenByPipeline)
<1> DEFINE resolution == outcome.resolution
           i == FirstWith(resolution.candidates, resolution.recommended)
<1>1. outcome.verification = "accepted" /\ TakenByPipeline = resolution.candidates[i].command
  BY DEF TakenByPipeline, PipelineCommand
<1>2. resolution \in Resolution BY DEF AgentInv, BudgetInv, TypeOK, Outcome
<1>3. /\ HasDistinctIds(resolution)
      /\ resolution.recommended \in outcome.accepted
      /\ resolution.recommended \in Ids(resolution.candidates)
      /\ \A k \in DOMAIN resolution.candidates :
            resolution.candidates[k].id \in outcome.accepted =>
                CandidateAccepted(tree, collected, resolution.candidates[k])
  BY <1>1 DEF AgentInv, Sound
<1>4. i \in DOMAIN resolution.candidates /\ resolution.candidates[i].id = resolution.recommended
  <2>1. PICK k \in DOMAIN resolution.candidates :
            resolution.candidates[k].id = resolution.recommended
    BY <1>3 DEF Ids
  <2>2. \A j \in 1..(k - 1) : resolution.candidates[j].id # resolution.recommended
    <3>1. DOMAIN resolution.candidates = 1..Len(resolution.candidates)
          /\ Len(resolution.candidates) \in Nat
      BY <1>2 DEF Resolution
    <3>2. QED BY <1>3, <2>1, <3>1 DEF HasDistinctIds
  <2>3. QED BY <2>1, <2>2, Zenon DEF FirstWith
<1>5. resolution.candidates[i] \in Candidate BY <1>2, <1>4, CandidatesTyped
<1>6. CandidateAccepted(tree, collected, resolution.candidates[i]) BY <1>3, <1>4
<1> HIDE DEF i, resolution
<1>7. QED BY <1>1, <1>5, <1>6, AcceptedVerified DEF Candidate

LEMMA ProfileVerified ==
    ASSUME AgentInv, DistinctIds, TakenByProfile # NoCommand
    PROVE  VerifiedCommand(TakenByProfile)
<1> DEFINE resolution == outcome.resolution
           commands == AcceptedCommands(outcome.accepted, resolution)
<1>1. outcome.verification = "accepted" /\ commands # {} /\ TakenByProfile = Min(commands)
  BY DEF TakenByProfile, ProfileCommand
<1>2. resolution \in Resolution BY DEF AgentInv, BudgetInv, TypeOK, Outcome
<1>3. commands \in SUBSET Nat
  <2>1. \A k \in DOMAIN resolution.candidates : resolution.candidates[k].command \in Commands
    BY <1>2, CandidatesTyped DEF Candidate
  <2>2. QED BY <2>1, CommandsAssumption DEF AcceptedCommands
<1>4. Min(commands) \in commands BY <1>1, <1>3, LeastNatural
<1>5. PICK k \in DOMAIN resolution.candidates :
          /\ resolution.candidates[k].id \in outcome.accepted
          /\ Min(commands) = resolution.candidates[k].command
  BY <1>4 DEF AcceptedCommands
<1>6. CandidateAccepted(tree, collected, resolution.candidates[k])
  BY <1>5 DEF AgentInv, Sound
<1>7. QED BY <1>1, <1>5, <1>6, AcceptedVerified

\* With distinct candidate ids neither consumer takes a command that the
\* verifier has not found in the tree or in a fact of the task.
THEOREM TakesVerifiedOnly == ASSUME DistinctIds PROVE Spec => []TakenCommandsVerified
<1>1. AgentInv => TakenCommandsVerified
  BY PipelineVerified, ProfileVerified DEF TakenCommandsVerified
<1>2. QED BY <1>1, AgentKept, PTL

\* What a resolution is when judging it raises, in a tree and with evidence t and e.
Repeats(t, e, resolution) ==
    /\ resolution.clean /\ resolution.status \in {"resolved", "ambiguous"}
    /\ \E i, j \in AcceptedAt(t, e, resolution) :
          i # j /\ resolution.candidates[i].id = resolution.candidates[j].id

\* Where no id is accepted twice the VerificationResult is consistent.
LEMMA RaisedRepeats ==
    ASSUME NEW resolution \in Resolution, NEW evidence,
           Verified(resolution, evidence).status = "raised"
    PROVE  /\ Verified(resolution, evidence).resolution = resolution
           /\ Repeats(tree, evidence, resolution)
<1> DEFINE acceptedAt == AcceptedAt(tree, evidence, resolution)
           status == OverallStatus(resolution, {resolution.candidates[i].id : i \in acceptedAt})
           keptAt == KeptAt(status, acceptedAt)
           result == [status |-> StatusFor(status), verification |-> status,
                      accepted |-> {resolution.candidates[i].id : i \in keptAt},
                      resolution |-> resolution]
<1>1. Verified(resolution, evidence) =
        IF Consistent(status, keptAt, resolution.candidates) THEN result
                                                             ELSE Raised(resolution)
  BY DEF Verified
<1>2. StatusFor(status) # "raised"
  <2>1. status \in VerificationStatus BY StatusTyped
  <2>2. QED BY <2>1 DEF StatusFor, VerificationStatus, Unresolved
<1>3. ~Consistent(status, keptAt, resolution.candidates)
  BY <1>1, <1>2
<1>4. status \notin Accepting => keptAt = {} BY DEF KeptAt
<1>5. keptAt \subseteq acceptedAt BY DEF KeptAt
<1>6. PICK i, j \in keptAt : i # j /\ resolution.candidates[i].id = resolution.candidates[j].id
  BY <1>3, <1>4, Zenon DEF Consistent
<1>7. status \in Accepting BY <1>4, <1>6
<1>8. resolution.clean /\ resolution.status \in {"resolved", "ambiguous"}
  BY <1>7 DEF OverallStatus, Accepting, Unresolved, Resolution, ResolutionStatus
<1>9. Raised(resolution).resolution = resolution BY DEF Raised, Unverified
<1>10. QED BY <1>1, <1>3, <1>5, <1>6, <1>8, <1>9 DEF Repeats

\* run_semantic_agent raises only over a resolution in which two candidates of
\* one id are accepted, whatever the model answers and however ids repeat.
THEOREM FailureExplained == Spec => []RaisesOnlyOnRepeatedIds
<1> DEFINE Explained ==
        outcome.status = "raised" => Repeats(tree, collected, outcome.resolution)
<1>1. Init => Explained BY DEF Init, Unverified
<1>2. AgentInv /\ Explained /\ [Next]_vars => Explained'
  <2> SUFFICES ASSUME AgentInv, Explained, [Next]_vars, (outcome.status = "raised")'
      PROVE  Repeats(tree', collected', outcome'.resolution)
    OBVIOUS
  <2>1. CASE UNCHANGED vars BY <2>1 DEF vars, agentVars
  <2>2. CASE pc' # "done"
    <3>1. outcome' = Unverified("running")
      BY <2>2, AgentNext DEF AgentInv, BudgetInv, WithinBudget
    <3>2. QED BY <3>1 DEF Unverified
  <2>3. CASE Ends
    <3>1. ASSUME NEW status \in RunStatus \ {"raised"}, outcome' = Unverified(status)
          PROVE  FALSE
      BY <3>1 DEF Unverified
    <3>2. ASSUME NEW resolution \in Answers \cup {BudgetResolution},
                 outcome' = Verified(resolution, collected')
          PROVE  Repeats(tree', collected', outcome'.resolution)
      <4>1. resolution \in Resolution
        BY AnswersTyped, NoResolutionTyped DEF BudgetResolution
      <4>2. QED BY <3>2, <4>1, <2>3, RaisedRepeats DEF Ends
    <3>3. QED BY <2>3, <3>1, <3>2 DEF Ends
  <2>4. QED BY <2>1, <2>2, <2>3, EndingSteps
<1>3. Explained => RaisesOnlyOnRepeatedIds
  BY DEF Repeats, RaisesOnlyOnRepeatedIds
<1>4. QED BY <1>1, <1>2, <1>3, AgentKept, PTL DEF Spec

\* With distinct candidate ids an ambiguous resolution gives no command.
THEOREM AmbiguityStands == ASSUME DistinctIds PROVE Spec => []AmbiguityNeverResolved
<1>1. AgentInv => AmbiguityNeverResolved
  BY DEF AgentInv, Sound, AmbiguityNeverResolved, TakenByPipeline, TakenByProfile,
         PipelineCommand, ProfileCommand
<1>2. QED BY <1>1, AgentKept, PTL

------------------------------------------------------------------------------
\* Refinement

\* What the pre-analyzer takes is stated at that moment.
VerdictStates == TakenByPipeline \in Texts /\ Resolver!Stated(TakenByPipeline)

LEMMA VerdictStated == ASSUME DistinctIds PROVE AgentInv => VerdictStates
<1> SUFFICES ASSUME AgentInv
             PROVE  TakenByPipeline \in Texts /\ Resolver!Stated(TakenByPipeline)
  BY DEF VerdictStates
<1>1. CASE TakenByPipeline = NoCommand BY <1>1 DEF Texts, Resolver!Stated
<1>2. CASE TakenByPipeline # NoCommand
  <2>1. TakenByPipeline \in Texts /\ VerifiedCommand(TakenByPipeline)
    BY <1>2, PipelineVerified DEF Texts
  <2>2. \A e \in collected : e.file \in Files
    BY DEF AgentInv, BudgetInv, TypeOK, Evidence
  <2>3. QED BY <2>1, <2>2 DEF VerifiedCommand, Resolver!Stated
<1>3. QED BY <1>1, <1>2

\* Of the steps of an agent that goes on, only a question is seen in SemanticResolver.
LEMMA QuietSteps ==
    Next => AskProvider \/ EditTree \/ (UNCHANGED <<tree, turns>> /\ pc # "done")
<1> SUFFICES ASSUME Agent, ~AskProvider PROVE UNCHANGED <<tree, turns>> /\ pc # "done"
  BY DEF Next
<1>1. CASE StopOnBudget BY <1>1 DEF StopOnBudget
<1>2. CASE RetryTransport BY <1>2 DEF RetryTransport
<1>3. CASE ProviderFails \/ InvalidAction BY <1>3 DEF ProviderFails, InvalidAction
<1>4. CASE HandleProviderSchemaError BY <1>4 DEF HandleProviderSchemaError
<1>5. ASSUME NEW tool \in Tools, CallAnyTool(tool)
      PROVE  UNCHANGED <<tree, turns>> /\ pc # "done"
  BY <1>5 DEF CallAnyTool, ToolNotAllowed, TooManyTools, InvalidInput, CallTool
<1>6. ASSUME NEW resolution \in Answers, HandleResolution(resolution)
      PROVE  UNCHANGED <<tree, turns>> /\ pc # "done"
  BY <1>6 DEF HandleResolution
<1>7. QED BY <1>1, <1>2, <1>3, <1>4, <1>5, <1>6 DEF Agent

\* With distinct candidate ids the agent, as the pre-analyzer sees it, is a
\* SemanticResolver.
THEOREM Refinement == ASSUME DistinctIds PROVE Spec => ImplementsResolver
<1>1. Init => Resolver!Init
  BY DEF Init, Resolver!Init, Done
<1>2. AgentInv /\ AgentInv' /\ [Next]_vars => [Resolver!Next]_(Resolver!vars)
  <2> SUFFICES ASSUME AgentInv, AgentInv', [Next]_vars
               PROVE  Resolver!Next \/ UNCHANGED Resolver!vars
    OBVIOUS
  <2>1. CASE UNCHANGED vars
    BY <2>1 DEF vars, agentVars, Resolver!vars, Done, TakenByPipeline
  <2>2. CASE Ends
    <3>1. ~Done /\ Done' BY <2>2 DEF Ends, Done
    <3>2. VerdictStates' BY VerdictStated, PTL
    <3>3. QED BY <2>2, <3>1, <3>2
          DEF Ends, VerdictStates, Resolver!Next, Resolver!Conclude, Resolver!Stated
  <2>3. CASE Next /\ pc' # "done"
    <3>1. ~Done' BY <2>3 DEF Done
    <3>2. CASE AskProvider
      <4>1. turns < MaxAgentTurns
        BY <3>2, BudgetAssumption
        DEF AskProvider, ProviderBudgetExhausted, AgentInv, BudgetInv, TypeOK, Positive
      <4>2. QED
        BY <3>1, <3>2, <4>1 DEF AskProvider, Resolver!Next, Resolver!Ask, Done
    <3>3. CASE EditTree
      <4>1. tree' \in [Files -> Texts] BY DEF AgentInv, BudgetInv, TypeOK
      <4>2. QED BY <3>1, <3>3, <4>1 DEF EditTree, agentVars, Resolver!Next, Resolver!Edit, Done
    <3>4. CASE UNCHANGED <<tree, turns>> /\ pc # "done"
      BY <3>1, <3>4 DEF Resolver!vars, Done
    <3>5. AskProvider \/ EditTree \/ (UNCHANGED <<tree, turns>> /\ pc # "done")
      BY <2>3, QuietSteps
    <3>6. QED BY <3>2, <3>3, <3>4, <3>5
  <2>4. QED BY <2>1, <2>2, <2>3, EndingSteps
<1>3. QED BY <1>1, <1>2, AgentKept, PTL DEF Spec, ImplementsResolver, Resolver!Spec
==============================================================================
