--------------------------- MODULE SemanticVerifier ---------------------------
(***************************************************************************)
(* What the deterministic verifier decides about a resolution of the       *)
(* language model (semantic/verifier.py), and which command each of the    *)
(* two consumers then takes from it: preanalyzer/pipeline.py, and          *)
(* k8s_agent with llm/gateway.py and agent/orchestrator.py.                *)
(*                                                                         *)
(* A file is the one text it states; a piece of tool evidence is a file    *)
(* with the text it had when it was read (its id is a hash of both).       *)
(* Commands are numbered in the order sorted() gives their strings.        *)
(* Everything else a candidate or a resolution can be rejected for (its    *)
(* component, its target field, a secret literal, the task id, the trace)  *)
(* is the one bit `clean`.                                                 *)
(***************************************************************************)
EXTENDS Integers, Sequences, FiniteSets, FiniteSetsExt

CONSTANTS
    Files,        \* files of the component a tool can read
    Commands,     \* runtime commands
    NoCommand,    \* a text that is no command; also: no command taken
    Facts,        \* ids of phase-1 evidence
    TaskFacts,    \* those the task names
    FactCommand,  \* the command each fact states, or NoCommand
    CandidateIds,
    NoCandidate   \* no recommendation

Texts == Commands \cup {NoCommand}

ASSUME CommandsAssumption == Commands \subseteq Nat /\ NoCommand \in Int \ Commands
ASSUME FactsAssumption == TaskFacts \subseteq Facts /\ FactCommand \in [Facts -> Texts]
ASSUME IdsAssumption == NoCandidate \notin CandidateIds

Evidence == [file : Files, text : Texts]
Candidate == [id : CandidateIds, command : Commands, facts : SUBSET Facts,
              evidence : SUBSET Evidence, clean : BOOLEAN]

Unresolved == {"insufficient_evidence", "budget_exhausted", "tool_error"}
ResolutionStatus == {"resolved", "ambiguous"} \cup Unresolved
VerificationStatus == {"accepted", "ambiguous", "rejected"} \cup Unresolved

Resolution == [status : ResolutionStatus, candidates : Seq(Candidate),
               recommended : CandidateIds \cup {NoCandidate}, clean : BOOLEAN]

Ids(candidates) == {candidates[i].id : i \in DOMAIN candidates}

\* The model validator of SemanticResolution.  Nothing asks for distinct ids.
WellShaped(resolution) ==
    LET ids == Ids(resolution.candidates)
    IN  CASE resolution.status = "resolved"  -> resolution.recommended \in ids
          [] resolution.status = "ambiguous" -> /\ Cardinality(ids) >= 2
                                                /\ resolution.recommended = NoCandidate
          [] OTHER                           -> resolution.recommended = NoCandidate

------------------------------------------------------------------------------
\* verify_semantic_resolution: of a tree and the evidence collected in the run

\* Mutant of VerifiedEvidence: the file is not read again.
VerifiedEvidenceUnread(tree, collected, candidate) == candidate.evidence \cap collected

\* References the verifier accepts: collected evidence that the file it came
\* from still states, and facts of the task.
VerifiedEvidence(tree, collected, candidate) ==
    {e \in candidate.evidence \cap collected : tree[e.file] = e.text}
VerifiedFacts(candidate) == candidate.facts \cap TaskFacts

Grounded(tree, collected, candidate) ==
    \/ \E f \in VerifiedFacts(candidate) : FactCommand[f] = candidate.command
    \/ \E e \in VerifiedEvidence(tree, collected, candidate) : e.text = candidate.command

\* Accepted: every reference is verified and one of them states the command.
CandidateAccepted(tree, collected, candidate) ==
    /\ candidate.clean
    /\ VerifiedFacts(candidate) = candidate.facts
    /\ VerifiedEvidence(tree, collected, candidate) = candidate.evidence
    /\ Grounded(tree, collected, candidate)

AcceptedAt(tree, collected, resolution) ==
    {i \in DOMAIN resolution.candidates :
        /\ resolution.clean
        /\ CandidateAccepted(tree, collected, resolution.candidates[i])}

\* Mutant of OverallStatus: any accepted candidate makes it accepted.
OverallStatusOfAny(resolution, acceptedIds) ==
    IF ~resolution.clean THEN "rejected"
    ELSE IF resolution.status \in Unresolved THEN resolution.status
    ELSE IF acceptedIds = {} THEN "rejected"
    ELSE IF resolution.status = "resolved" THEN "accepted"
    ELSE "ambiguous"

OverallStatus(resolution, acceptedIds) ==
    IF ~resolution.clean THEN "rejected"
    ELSE IF resolution.status \in Unresolved THEN resolution.status
    ELSE IF resolution.status = "resolved" THEN
         IF resolution.recommended \in acceptedIds THEN "accepted" ELSE "rejected"
    ELSE IF acceptedIds # {} THEN "ambiguous" ELSE "rejected"

Accepting == {"accepted", "ambiguous"}

\* Mutant of KeptAt: the candidates are not turned to rejected again.
KeptAtAll(status, acceptedAt) == acceptedAt

\* The candidates still accepted in the result of that status.
KeptAt(status, acceptedAt) == IF status \in Accepting THEN acceptedAt ELSE {}

\* The model validator of VerificationResult, which raises otherwise: the list
\* of accepted ids, without repetitions, is that of the accepted candidates.
Consistent(status, keptAt, candidates) ==
    /\ status \notin Accepting => keptAt = {}
    /\ \A i, j \in keptAt : candidates[i].id = candidates[j].id => i = j

------------------------------------------------------------------------------
\* What becomes of a result: of a run with a verification status, the accepted
\* ids and the resolution

FirstWith(candidates, id) ==
    CHOOSE i \in DOMAIN candidates :
        /\ candidates[i].id = id
        /\ \A j \in 1..(i - 1) : candidates[j].id # id

\* _extract_accepted_command: the first candidate with the recommended id.
PipelineCommand(verification, resolution) ==
    IF verification = "accepted"
    THEN resolution.candidates[FirstWith(resolution.candidates, resolution.recommended)].command
    ELSE NoCommand

\* VerifiedSemanticResult.accepted_commands: of every candidate with an accepted id.
AcceptedCommands(accepted, resolution) ==
    {resolution.candidates[i].command :
        i \in {j \in DOMAIN resolution.candidates : resolution.candidates[j].id \in accepted}}

\* Mutant of ProfileCommand: the status is not asked for.
ProfileCommandOfAny(verification, accepted, resolution) ==
    LET commands == AcceptedCommands(accepted, resolution)
    IN  IF commands # {} THEN Min(commands) ELSE NoCommand

\* _semantic_profile_decisions: the first of the sorted accepted commands.
ProfileCommand(verification, accepted, resolution) ==
    LET commands == AcceptedCommands(accepted, resolution)
    IN  IF verification = "accepted" /\ commands # {} THEN Min(commands) ELSE NoCommand
==============================================================================
