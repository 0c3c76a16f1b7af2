----------------------------- MODULE SemanticAgent -----------------------------
(***************************************************************************)
(* One task of the semantic agent (preanalyzer/semantic): the loop that    *)
(* asks a language model for one action at a time, runs the tool it asks   *)
(* for inside a budget, and verifies its resolution against the tree.      *)
(*                                                                         *)
(* The model may answer anything; the tree may be edited while it thinks.  *)
(* A question is one or more attempts of the transport.  Verification and  *)
(* one tool call each read the tree in one step.                           *)
(***************************************************************************)
EXTENDS SemanticVerifier, SequencesExt

CONSTANTS
    Tools,              \* names the model may ask for
    AllowedTools,       \* SemanticTask.allowed_tools
    Proposals,          \* candidates the model may put in a resolution
    MaxCandidates,      \* bound: candidates in one resolution
    DistinctIds,        \* BOOLEAN: the model gives its candidates distinct ids
    ResultLines,        \* lines one call may return
    MaxEdits,           \* bound: edits of the tree
    TransportRetries,   \* OpenAICompatibleDecisionProvider.max_retries
    \* SemanticTaskBudget
    MaxAgentTurns, MaxToolCalls, MaxDistinctTools, MaxFilesRead, MaxSourceLines,
    MaxSchemaRetries

Positive == Nat \ {0}

ASSUME ToolsAssumption == AllowedTools \subseteq Tools /\ IsFiniteSet(Tools)
ASSUME FilesAssumption == IsFiniteSet(Files)
ASSUME AnswersAssumption == /\ Proposals \subseteq Candidate
                            /\ MaxCandidates \in Nat /\ MaxEdits \in Nat
                            /\ DistinctIds \in BOOLEAN /\ ResultLines \subseteq Nat
ASSUME BudgetAssumption == /\ MaxAgentTurns \in Positive /\ MaxToolCalls \in Positive
                           /\ MaxDistinctTools \in Positive /\ MaxFilesRead \in Positive
                           /\ MaxSourceLines \in Positive /\ MaxSchemaRetries \in Positive
                           /\ TransportRetries \in Nat

VARIABLES
    tree,       \* the text each file states now
    pc,         \* "turn", "provider" (a question is out) or "done"
    turns,      \* turn_count
    attempts,   \* of the transport, for the question that is out
    ledger,     \* BudgetLedger
    exhausted,  \* the ledger has latched
    collected,  \* evidence of the tool results
    outcome,    \* SemanticAgentRunResult
    edits       \* edits of the tree left

agentVars == <<pc, turns, attempts, ledger, exhausted, collected, outcome>>
vars == <<tree, agentVars, edits>>

RunStatus == {"running", "completed", "budget_exhausted", "tool_error", "provider_error",
              "invalid_action", "verification_rejected", "raised"}

NoResolution == [status |-> "tool_error", candidates |-> <<>>, recommended |-> NoCandidate,
                 clean |-> TRUE]
Unverified(status) == [status |-> status, verification |-> "none", accepted |-> {},
                       resolution |-> NoResolution]

Outcome == [status : RunStatus, verification : VerificationStatus \cup {"none"},
            accepted : SUBSET CandidateIds, resolution : Resolution]

Ledger == [calls : 0..MaxToolCalls, tools : SUBSET AllowedTools, files : SUBSET Files,
           lines : Nat, retries : 0..(MaxSchemaRetries + 1)]

TypeOK ==
    /\ tree \in [Files -> Texts]
    /\ pc \in {"turn", "provider", "done"}
    /\ turns \in 0..MaxAgentTurns /\ attempts \in 0..(TransportRetries + 1)
    /\ ledger \in Ledger /\ exhausted \in BOOLEAN
    /\ collected \subseteq Evidence
    /\ outcome \in Outcome
    /\ edits \in Nat

Init ==
    /\ tree \in [Files -> Texts]
    /\ pc = "turn" /\ turns = 0 /\ attempts = 0
    /\ ledger = [calls |-> 0, tools |-> {}, files |-> {}, lines |-> 0, retries |-> 0]
    /\ exhausted = FALSE /\ collected = {}
    /\ outcome = Unverified("running")
    /\ edits = MaxEdits

------------------------------------------------------------------------------
\* How a run ends

End(result) == pc' = "done" /\ outcome' = result

Fail(status) == End(Unverified(status))

\* _run_status_for_verification
StatusFor(verification) ==
    CASE verification \in {"accepted", "ambiguous", "insufficient_evidence"} -> "completed"
      [] verification \in {"budget_exhausted", "tool_error"} -> verification
      [] OTHER -> "verification_rejected"

\* run_semantic_agent raises; the resolution it judged is kept for the record.
Raised(resolution) == [Unverified("raised") EXCEPT !.resolution = resolution]

\* _verified_result, of the evidence collected so far.  A validation error of
\* the VerificationResult leaves run_semantic_agent as an exception.
Verified(resolution, evidence) ==
    LET acceptedAt == AcceptedAt(tree, evidence, resolution)
        status == OverallStatus(resolution, {resolution.candidates[i].id : i \in acceptedAt})
        keptAt == KeptAt(status, acceptedAt)
    IN  IF Consistent(status, keptAt, resolution.candidates)
        THEN [status |-> StatusFor(status), verification |-> status,
              accepted |-> {resolution.candidates[i].id : i \in keptAt},
              resolution |-> resolution]
        ELSE Raised(resolution)

\* budget_exhausted_result: the verifier passes its status through.
BudgetResolution == [NoResolution EXCEPT !.status = "budget_exhausted"]

------------------------------------------------------------------------------
\* The loop

\* provider_budget_exhausted
ProviderBudgetExhausted == turns >= MaxAgentTurns \/ exhausted

StopOnBudget ==
    /\ pc = "turn" /\ ProviderBudgetExhausted
    /\ End(Verified(BudgetResolution, collected))
    /\ UNCHANGED <<tree, turns, attempts, ledger, exhausted, collected, edits>>

AskProvider ==
    /\ pc = "turn" /\ ~ProviderBudgetExhausted
    /\ turns' = turns + 1 /\ attempts' = 1
    /\ pc' = "provider"
    /\ UNCHANGED <<tree, ledger, exhausted, collected, outcome, edits>>

\* Mutant of RetryTransport: every other timeout starts the count again.
RetryTransportForever ==
    /\ pc = "provider" /\ attempts <= TransportRetries
    /\ attempts' = 1 - attempts
    /\ UNCHANGED <<tree, pc, turns, ledger, exhausted, collected, outcome, edits>>

\* A TimeoutError of the transport is retried inside decide() ...
RetryTransport ==
    /\ pc = "provider" /\ attempts <= TransportRetries
    /\ attempts' = attempts + 1
    /\ UNCHANGED <<tree, pc, turns, ledger, exhausted, collected, outcome, edits>>

\* ... and after the last attempt, like every other failure of the provider,
\* ends the run.  Only the connection's own errors end it before.
ProviderFails ==
    /\ pc = "provider"
    /\ Fail("provider_error")
    /\ UNCHANGED <<tree, turns, attempts, ledger, exhausted, collected, edits>>

\* A ValueError or TypeError out of decide(), or an object that is no action.
InvalidAction ==
    /\ pc = "provider"
    /\ Fail("invalid_action")
    /\ UNCHANGED <<tree, turns, attempts, ledger, exhausted, collected, edits>>

\* Mutant of HandleProviderSchemaError: the limit is not looked at.
HandleProviderSchemaErrorUnlimited ==
    /\ pc = "provider"
    /\ ledger' = [ledger EXCEPT !.retries = @ + 1]
    /\ pc' = "turn" /\ UNCHANGED outcome
    /\ UNCHANGED <<tree, turns, attempts, exhausted, collected, edits>>

\* An answer that is no valid action: asked again while retries are left.
HandleProviderSchemaError ==
    /\ pc = "provider"
    /\ IF ledger.retries < MaxSchemaRetries
         THEN /\ ledger' = [ledger EXCEPT !.retries = @ + 1]
              /\ pc' = "turn" /\ UNCHANGED outcome
         ELSE Fail("provider_error") /\ UNCHANGED ledger
    /\ UNCHANGED <<tree, turns, attempts, exhausted, collected, edits>>

HandleResolution(resolution) ==
    /\ pc = "provider"
    /\ End(Verified(resolution, collected))
    /\ UNCHANGED <<tree, turns, attempts, ledger, exhausted, collected, edits>>

HasDistinctIds(resolution) ==
    \A i, j \in DOMAIN resolution.candidates :
        resolution.candidates[i].id = resolution.candidates[j].id => i = j

\* The resolutions the model may give: anything the validator lets through.
Answers ==
    {r \in [status : ResolutionStatus, candidates : SeqOf(Proposals, MaxCandidates),
             recommended : CandidateIds \cup {NoCandidate}, clean : BOOLEAN] :
        /\ WellShaped(r)
        /\ DistinctIds => HasDistinctIds(r)}

------------------------------------------------------------------------------
\* handle_tool_call.  The refusals of SemanticToolSession._precheck are not
\* modelled: no question is out once they could apply (AskedWithinBudget).

ToolStatus == {"ok", "nothing", "refused", "error"}
\* "nothing": no_match, not_found and unsupported; "refused": blocked.
\* An invalid input, which also counts as a schema retry, is InvalidInput.

ToolNotAllowed(tool) ==
    /\ pc = "provider" /\ tool \notin AllowedTools
    /\ Fail("invalid_action")
    /\ UNCHANGED <<tree, turns, attempts, ledger, exhausted, collected, edits>>

\* A tool not used before fits while max_distinct_tools is not reached.
ToolFits(tool) ==
    tool \in ledger.tools \/ Cardinality(ledger.tools) + 1 <= MaxDistinctTools

TooManyTools(tool) ==
    /\ pc = "provider" /\ tool \in AllowedTools /\ ~ToolFits(tool)
    /\ End(Verified(BudgetResolution, collected))
    /\ UNCHANGED <<tree, turns, attempts, ledger, exhausted, collected, edits>>

\* Mutant of Exhausts: one call too many.
ExhaustsLate(l) ==
    \/ Cardinality(l.files) > MaxFilesRead
    \/ l.lines > MaxSourceLines
    \/ l.retries > MaxSchemaRetries
    \/ l.calls > MaxToolCalls

\* The ceilings _record looks at after a call.
Exhausts(l) ==
    \/ Cardinality(l.files) > MaxFilesRead
    \/ l.lines > MaxSourceLines
    \/ l.retries > MaxSchemaRetries
    \/ l.calls >= MaxToolCalls

\* A tool that finds something returns the text of some files of the tree as
\* it is now, and at least one line.
CallTool(tool, status, read, lines) ==
    LET used == [ledger EXCEPT !.calls = @ + 1, !.tools = @ \cup {tool},
                               !.files = @ \cup read, !.lines = @ + lines]
        found == collected \cup {[file |-> f, text |-> tree[f]] : f \in read}
    IN  /\ pc = "provider" /\ tool \in AllowedTools /\ ToolFits(tool)
        /\ (status = "ok") = (read # {}) /\ (status = "ok") = (lines > 0)
        /\ ledger' = used /\ collected' = found
        /\ exhausted' = (exhausted \/ Exhausts(used))
        /\ CASE status = "refused" -> Fail("invalid_action")
             [] status = "error"   -> Fail("tool_error")
             [] OTHER -> IF exhausted' THEN End(Verified(BudgetResolution, found))
                                       ELSE pc' = "turn" /\ UNCHANGED outcome
        /\ UNCHANGED <<tree, turns, attempts, edits>>

\* Arguments that do not fit the schema of the tool.
InvalidInput(tool) ==
    /\ pc = "provider" /\ tool \in AllowedTools /\ ToolFits(tool)
    /\ ledger' = [ledger EXCEPT !.calls = @ + 1, !.tools = @ \cup {tool}, !.retries = @ + 1]
    /\ exhausted' = (exhausted \/ Exhausts(ledger'))
    /\ Fail("invalid_action")
    /\ UNCHANGED <<tree, turns, attempts, collected, edits>>

------------------------------------------------------------------------------
\* The specification

EditTree ==
    /\ pc # "done" /\ edits > 0
    /\ \E f \in Files, text \in Texts : tree' = [tree EXCEPT ![f] = text]
    /\ edits' = edits - 1
    /\ UNCHANGED agentVars

CallAnyTool(tool) ==
    \/ ToolNotAllowed(tool)
    \/ TooManyTools(tool)
    \/ InvalidInput(tool)
    \/ \E status \in ToolStatus, read \in SUBSET Files, lines \in ResultLines :
           CallTool(tool, status, read, lines)

Agent ==
    \/ StopOnBudget
    \/ AskProvider
    \/ RetryTransport \/ ProviderFails \/ InvalidAction \/ HandleProviderSchemaError
    \/ \E tool \in Tools : CallAnyTool(tool)
    \/ \E resolution \in Answers : HandleResolution(resolution)

Next == Agent \/ EditTree

Spec == Init /\ [][Next]_vars

\* Every attempt of the transport has a timeout and every tool returns, so the
\* agent always takes another step.
FairSpec == Spec /\ WF_vars(Agent)

------------------------------------------------------------------------------
\* Properties

Done == pc = "done"

\* The commands the two consumers of the outcome take from it.
TakenByPipeline == IF Done THEN PipelineCommand(outcome.verification, outcome.resolution)
                           ELSE NoCommand
TakenByProfile == IF Done THEN ProfileCommand(outcome.verification, outcome.accepted,
                                              outcome.resolution)
                          ELSE NoCommand

\* While a question is out every limit of the task still admits one more tool
\* call: the agent never asks the model for something it would have to refuse,
\* so the refusals of SemanticToolSession._precheck are never met.
AskedWithinBudget ==
    pc = "provider" =>
        /\ turns <= MaxAgentTurns /\ ~exhausted
        /\ ledger.calls < MaxToolCalls
        /\ Cardinality(ledger.tools) <= MaxDistinctTools
        /\ Cardinality(ledger.files) <= MaxFilesRead
        /\ ledger.lines <= MaxSourceLines /\ ledger.retries <= MaxSchemaRetries

\* A command is verified when a phase-1 fact of the task states it, or a tool
\* read it in this run from a file that still states it.
VerifiedCommand(command) ==
    \/ \E f \in TaskFacts : FactCommand[f] = command
    \/ \E e \in collected : e.text = command /\ tree[e.file] = command

\* No consumer takes a command the verifier has not verified, whatever the
\* model proposes and however the tree changed after a tool read it
\* (_verify_candidate, then the selection by id in pipeline.py and gateway.py).
TakenCommandsVerified ==
    \A command \in {TakenByPipeline, TakenByProfile} \ {NoCommand} : VerifiedCommand(command)

\* The only answer that makes run_semantic_agent raise is one in which it would
\* accept two candidates of one id: the result then names the id once and has
\* two accepted candidates.  A refusal, an unfinished or a rejected resolution
\* never raises, whichever of its candidates pass and however ids repeat.
RaisesOnlyOnRepeatedIds ==
    outcome.status = "raised" =>
        /\ outcome.resolution.clean
        /\ outcome.resolution.status \in {"resolved", "ambiguous"}
        /\ \E i, j \in AcceptedAt(tree, collected, outcome.resolution) :
              /\ i # j
              /\ outcome.resolution.candidates[i].id = outcome.resolution.candidates[j].id

\* Whatever the model answers, run_semantic_agent returns a result: no answer
\* makes it raise into the run that asked.  False with repeated ids.
AgentFailureContained == outcome.status # "raised"

\* A resolution the model calls ambiguous is never turned into a command, not
\* even when the verifier accepts only one of its candidates.
AmbiguityNeverResolved ==
    outcome.resolution.status = "ambiguous" =>
        TakenByPipeline = NoCommand /\ TakenByProfile = NoCommand

\* The agent ends: turns, retries of the schema and attempts of the transport
\* are all bounded (run_semantic_agent's while True, decide's for).
RunEnds == <>Done

\* No verdict yet in SemanticResolver, whose texts are numbers.
Open == -1

Resolver == INSTANCE SemanticResolver WITH
    FactCommands <- {FactCommand[f] : f \in TaskFacts},
    asked <- turns,
    verdict <- IF Done THEN TakenByPipeline ELSE Open

\* As seen by the pre-analyzer the agent is a SemanticResolver: at most
\* MaxAgentTurns questions, then one verdict that the tree or a fact states.
ImplementsResolver == Resolver!Spec
==============================================================================
