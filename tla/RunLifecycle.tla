----------------------------- MODULE RunLifecycle -----------------------------
(***************************************************************************)
(* One run of k8s-agent and every process that works on its directory:     *)
(* the process that creates the run (`prepare` or `analyze`) and any       *)
(* number of `resume` processes, possibly at the same time.                *)
(*                                                                         *)
(* Shared state is the run directory: run.lock, run.yaml, events.jsonl,    *)
(* source.yaml, the phase-1 artifacts, agent/runtime-metadata.yaml and     *)
(* generated/.  A process is a program counter, the frame of the           *)
(* RunManager.transition call it is in, and the locals of the              *)
(* orchestrator.  Content is abstracted to versions of the source tree:    *)
(* an artifact is the version it was computed from.                        *)
(*                                                                         *)
(* The lock file is held by RunManager.create and RunManager.transition    *)
(* only; everything else a process writes, it writes without it.           *)
(***************************************************************************)
EXTENDS Integers, Sequences, FiniteSets, FiniteSetsExt, RunStates

CONSTANTS
    Procs,              \* agent processes (one per command line)
    Creator,            \* the one that runs prepare or analyze
    Nobody,             \* no lock file
    Commands,           \* the command lines to choose from
    Versions,           \* contents the user's source tree can have
    NoVersion,          \* a file that is not written
    Concurrent,         \* BOOLEAN: processes may overlap
    EditsWhileRunning,  \* BOOLEAN: the tree may change under a process
    MaxEdits, MaxUpgrades, MaxCrashes, MaxInterrupts   \* bounds

Creating == {"prepare", "analyze"}
\* resume without a policy and with each DriftPolicy
Resuming == {"resume", "replan", "continue-pinned", "new-run"}

ASSUME ProcsAssumption    == Creator \in Procs /\ Nobody \notin Procs
ASSUME VersionsAssumption == Versions # {} /\ NoVersion \notin Versions
ASSUME CommandsAssumption == Commands \subseteq Creating \cup Resuming
ASSUME BoundsAssumption   == /\ Concurrent \in BOOLEAN
                             /\ EditsWhileRunning \in BOOLEAN
                             /\ MaxEdits \in Nat /\ MaxUpgrades \in Nat
                             /\ MaxCrashes \in Nat /\ MaxInterrupts \in Nat

VARIABLES
    lock,       \* run.lock: the process that created it, or Nobody
    run,        \* run.yaml: [state, last]
    events,     \* the transitions logged in events.jsonl
    source,     \* source.yaml: the fingerprinted version
    analysis,   \* the PHASE1_ARTIFACTS, by position
    meta,       \* runtime-metadata.yaml holds this TOOL_VERSIONS
    generated,  \* versions the manifests in generated/ were rendered from
    repo,       \* the version now in the source tree
    pc, frame, kind, rec, work,    \* the processes
    left,       \* what the environment may still do
    torn        \* history: a Ctrl+C fell between a save and its event

record == <<lock, run, events>>
files  == <<source, analysis, meta, generated>>
locals == <<kind, rec, work>>
env    == <<repo, left, torn>>
vars   == <<record, files, env, pc, frame, locals>>

------------------------------------------------------------------------------
\* Types

\* The four PHASE1_ARTIFACTS are always written in one order; the first three
\* (the last of them the evidence model) count as one write, the rules as the
\* second: TopologyBuilder reads the evidence and the rules.
Artifacts == {"evidence", "rules"}
MaybeVersion == Versions \cup {NoVersion}
RunRecord == [state : StateOrAbsent, last : StateOrAbsent]
NoRun == [state |-> "ABSENT", last |-> "ABSENT"]

InTransition == {"lock", "check", "save", "append", "unlock"}
InPipeline   == {"pipeline", "phase1", "rules", "topology", "decide",
                 "validate", "artifacts", "finish"}
Ended        == {"returned", "raised", "interrupted", "killed"}
Labels == {"idle", "created", "acquire", "source", "resume", "drift", "replan",
           "load", "begin", "handler"}
          \cup InTransition \cup InPipeline \cup Ended

\* Where a caller of RunManager.transition goes on.
Continuations == {"created", "acquire", "begin", "pipeline", "handler", "returned", "raised"}
Frame == [target : RunState, ok : Continuations, err : Continuations, current : RunRecord]
Work  == [mode : {"fresh", "reuse", "pinned"}, seen : MaybeVersion, basis : SUBSET MaybeVersion,
          result : RunState]
Faults == {"edit", "upgrade", "crash", "interrupt"}

RecordTypes ==
    /\ lock \in Procs \cup {Nobody}
    /\ run \in RunRecord
    /\ events \in Seq([from : StateOrAbsent, to : RunState])

FileTypes ==
    /\ source \in MaybeVersion
    /\ analysis \in [Artifacts -> MaybeVersion]
    /\ meta \in BOOLEAN
    /\ generated \in SUBSET MaybeVersion

ControlTypes ==
    /\ pc \in [Procs -> Labels]
    /\ frame \in [Procs -> Frame]

LocalTypes ==
    /\ kind \in [Procs -> Creating \cup Resuming]
    /\ rec \in [Procs -> StateOrAbsent]
    /\ work \in [Procs -> Work]

EnvTypes ==
    /\ repo \in Versions
    /\ left \in [Faults -> Nat]
    /\ torn \in BOOLEAN

TypeOK == RecordTypes /\ FileTypes /\ ControlTypes /\ LocalTypes /\ EnvTypes

Running(p) == pc[p] \notin Ended \cup {"idle"}
AllQuiet == \A p \in Procs : ~Running(p)

------------------------------------------------------------------------------
\* Control flow of a process

Goto(p, label) == pc' = [pc EXCEPT ![p] = label]

\* Enters RunManager.transition(target); it continues at `ok`, or at `err`
\* when it raises RUN-201 or RUN-202.
Call(p, target, ok, err) ==
    /\ frame' = [frame EXCEPT ![p] = [target |-> target, ok |-> ok, err |-> err,
                                      current |-> NoRun]]
    /\ Goto(p, "lock")

\* Leaves it: the frame is popped.
NoFrame == [target |-> "CREATED", ok |-> "created", err |-> "raised", current |-> NoRun]
Return(p, label) ==
    /\ frame' = [frame EXCEPT ![p] = NoFrame]
    /\ Goto(p, label)

Init ==
    /\ lock = Nobody /\ run = NoRun /\ events = <<>>
    /\ source = NoVersion /\ analysis = [a \in Artifacts |-> NoVersion]
    /\ meta = FALSE /\ generated = {}
    /\ repo \in Versions
    /\ pc = [p \in Procs |-> "idle"]
    /\ frame = [p \in Procs |-> NoFrame]
    /\ kind = [p \in Procs |-> "resume"]
    /\ rec = [p \in Procs |-> "ABSENT"]
    /\ work = [p \in Procs |-> [mode |-> "fresh", seen |-> NoVersion,
                                basis |-> {}, result |-> "FAILED"]]
    /\ left = [f \in Faults |-> CASE f = "edit" -> MaxEdits
                                 [] f = "upgrade" -> MaxUpgrades
                                 [] f = "crash" -> MaxCrashes
                                 [] f = "interrupt" -> MaxInterrupts]
    /\ torn = FALSE

------------------------------------------------------------------------------
\* RunManager.create and RunManager.transition

\* Mutant of AcquireLock: the file is opened without O_EXCL.
AcquireLockShared(p) ==
    /\ pc[p] = "lock"
    /\ lock' = p
    /\ Goto(p, "check")
    /\ UNCHANGED <<run, events, files, env, frame, locals>>

\* acquire_lock creates run.lock with O_EXCL.
AcquireLock(p) ==
    /\ pc[p] = "lock" /\ lock = Nobody
    /\ lock' = p
    /\ Goto(p, "check")
    /\ UNCHANGED <<run, events, files, env, frame, locals>>

\* run.lock exists: RUN-202 at once, no waiting and no retry.
LockContended(p) ==
    /\ pc[p] = "lock" /\ lock # Nobody
    /\ Return(p, frame[p].err)
    /\ UNCHANGED <<record, files, env, locals>>

\* Mutant of CheckAllowed: the record in hand is trusted instead of read again.
CheckAllowedStale(p) ==
    /\ pc[p] = "check" /\ TransitionAllowed(rec[p], frame[p].target)
    /\ frame' = [frame EXCEPT ![p].current = [state |-> rec[p], last |-> run.last]]
    /\ Goto(p, "save")
    /\ UNCHANGED <<record, files, env, locals>>

\* Mutant of AppendEvent: the event is appended only for successful moves.
AppendEventOnSuccess(p) ==
    /\ pc[p] = "append"
    /\ events' = IF frame[p].target \in Unsuccessful THEN events
                 ELSE Append(events, [from |-> frame[p].current.state,
                                      to |-> frame[p].target])
    /\ Goto(p, "unlock")
    /\ UNCHANGED <<lock, run, files, env, frame, locals>>

\* Under the lock, run.yaml is read and the edge is declared.
CheckAllowed(p) ==
    /\ pc[p] = "check" /\ TransitionAllowed(run.state, frame[p].target)
    /\ frame' = [frame EXCEPT ![p].current = run]
    /\ Goto(p, "save")
    /\ UNCHANGED <<record, files, env, locals>>

\* RUN-201; leaving the context manager unlinks run.lock.
CheckRefused(p) ==
    /\ pc[p] = "check" /\ ~TransitionAllowed(run.state, frame[p].target)
    /\ lock' = Nobody
    /\ Return(p, frame[p].err)
    /\ UNCHANGED <<run, events, files, env, locals>>

\* RunStore.save replaces run.yaml.
Save(p) ==
    /\ pc[p] = "save"
    /\ run' = [state |-> frame[p].target,
               last  |-> LastSuccessful(frame[p].current.last, frame[p].target)]
    /\ Goto(p, "append")
    /\ UNCHANGED <<lock, events, files, env, frame, locals>>

\* EventLog.append of the state_transition (or run_created) event.
AppendEvent(p) ==
    /\ pc[p] = "append"
    /\ events' = Append(events, [from |-> frame[p].current.state, to |-> frame[p].target])
    /\ Goto(p, "unlock")
    /\ UNCHANGED <<lock, run, files, env, frame, locals>>

\* The lock file is unlinked and the caller holds the new record.
ReleaseLock(p) ==
    /\ pc[p] = "unlock"
    /\ lock' = Nobody
    /\ rec' = [rec EXCEPT ![p] = frame[p].target]
    /\ Return(p, frame[p].ok)
    /\ UNCHANGED <<run, events, files, env, kind, work>>

Transition(p) == \/ AcquireLock(p) \/ LockContended(p)
                 \/ CheckAllowed(p) \/ CheckRefused(p)
                 \/ Save(p) \/ AppendEvent(p) \/ ReleaseLock(p)

------------------------------------------------------------------------------
\* AgentApplication: prepare, analyze, resume

\* A command line is started.  A run id is known once the run exists.
Start(p, k) ==
    /\ pc[p] = "idle"
    /\ Concurrent \/ AllQuiet
    /\ kind' = [kind EXCEPT ![p] = k]
    /\ \/ /\ p = Creator /\ k \in Creating
          /\ Call(p, "CREATED", "created", "raised")
       \/ /\ p # Creator /\ k \in Resuming /\ run.state # "ABSENT"
          /\ Goto(p, "resume") /\ UNCHANGED frame
    /\ UNCHANGED <<record, files, env, rec, work>>

\* The first transition of prepare and of analyze is outside their try.
StartAcquiring(p) ==
    /\ pc[p] = "created"
    /\ Call(p, "ACQUIRING_SOURCE", "acquire", "raised")
    /\ UNCHANGED <<record, files, env, locals>>

\* _acquire_source fingerprints the tree as it is now ...
AcquireSource(p) ==
    /\ pc[p] = "acquire"
    /\ work' = [work EXCEPT ![p].seen = repo]
    /\ Goto(p, "source")
    /\ UNCHANGED <<record, files, env, frame, kind, rec>>

\* ... or raises (unreadable path, git failure), as may the write of
\* source.yaml; `except Exception` records it and raises again.
AcquireFails(p) ==
    /\ pc[p] \in {"acquire", "source"}
    /\ Call(p, "FAILED", "raised", "raised")
    /\ UNCHANGED <<record, files, env, locals>>

\* source.yaml is written.  prepare hands over to the orchestrator, analyze
\* moves to ANALYZING itself, inside the try that ends in FAILED, and always
\* runs phase 1.
SaveSource(p) ==
    /\ pc[p] = "source"
    /\ source' = work[p].seen
    /\ IF kind[p] = "analyze"
         THEN Call(p, "ANALYZING", "pipeline", "handler")
         ELSE Goto(p, "load") /\ UNCHANGED frame
    /\ UNCHANGED <<record, analysis, meta, generated, env, locals>>

\* resume reads run.yaml, without the lock, and answers at once for a
\* terminal run.
ResumeLoad(p) ==
    /\ pc[p] = "resume"
    /\ rec' = [rec EXCEPT ![p] = run.state]
    /\ Goto(p, IF run.state \in TERMINAL_STATES THEN "returned" ELSE "drift")
    /\ UNCHANGED <<record, files, env, frame, kind, work>>

\* source.yaml was never written: FileNotFoundError, the run is not resumable.
ResumeWithoutSource(p) ==
    /\ pc[p] = "drift" /\ source = NoVersion
    /\ Goto(p, "raised")
    /\ UNCHANGED <<record, files, env, frame, locals>>

Drifted == repo # source

\* The tree is the saved one: whatever the policy, the analysis is reused.
ResumeUnchanged(p) ==
    /\ pc[p] = "drift" /\ source # NoVersion /\ ~Drifted
    /\ work' = [work EXCEPT ![p].mode = "reuse"]
    /\ Goto(p, "load")
    /\ UNCHANGED <<record, files, env, frame, kind, rec>>

\* Exit 3 without a policy; new-run goes on in another run directory.
ResumeStops(p) ==
    /\ pc[p] = "drift" /\ source # NoVersion /\ Drifted
    /\ kind[p] \in {"resume", "new-run"}
    /\ Goto(p, "returned")
    /\ UNCHANGED <<record, files, env, frame, locals>>

ResumePinned(p) ==
    /\ pc[p] = "drift" /\ source # NoVersion /\ Drifted
    /\ kind[p] = "continue-pinned"
    /\ work' = [work EXCEPT ![p].mode = "pinned"]
    /\ Goto(p, "load")
    /\ UNCHANGED <<record, files, env, frame, kind, rec>>

\* Mutant of ResumeReplan: the replanned run may reuse the old analysis.
ResumeReplanReusing(p) ==
    /\ pc[p] = "drift" /\ source # NoVersion /\ Drifted
    /\ kind[p] = "replan"
    /\ work' = [work EXCEPT ![p] = [@ EXCEPT !.seen = repo, !.mode = "reuse"]]
    /\ Goto(p, "replan")
    /\ UNCHANGED <<record, files, env, frame, kind, rec>>

\* replan resolves the tree a second time; source.yaml is written after it.
ResumeReplan(p) ==
    /\ pc[p] = "drift" /\ source # NoVersion /\ Drifted
    /\ kind[p] = "replan"
    /\ work' = [work EXCEPT ![p] = [@ EXCEPT !.seen = repo, !.mode = "fresh"]]
    /\ Goto(p, "replan")
    /\ UNCHANGED <<record, files, env, frame, kind, rec>>

SaveReplannedSource(p) ==
    /\ pc[p] = "replan"
    /\ source' = work[p].seen
    /\ Goto(p, "load")
    /\ UNCHANGED <<record, analysis, meta, generated, env, frame, locals>>

Application(p) == \/ StartAcquiring(p) \/ AcquireSource(p) \/ AcquireFails(p)
                  \/ SaveSource(p)
                  \/ ResumeLoad(p) \/ ResumeWithoutSource(p) \/ ResumeUnchanged(p)
                  \/ ResumeStops(p) \/ ResumePinned(p) \/ ResumeReplan(p)
                  \/ SaveReplannedSource(p)

------------------------------------------------------------------------------
\* AgentOrchestrator.run and its default pipeline

\* The record is read outside the try; a terminal run gets no pipeline.
LoadRun(p) ==
    /\ pc[p] = "load"
    /\ rec' = [rec EXCEPT ![p] = run.state]
    /\ Goto(p, IF run.state \in TERMINAL_STATES THEN "returned" ELSE "begin")
    /\ UNCHANGED <<record, files, env, frame, kind, work>>

\* The transitions before the pipeline, chosen by the record in hand: a run
\* found ANALYZING (left by a dead process or owned by a live one) is entered
\* as it is.
BeginAnalyzing(p) ==
    /\ pc[p] = "begin"
    /\ IF rec[p] = "ANALYZING"
         THEN Goto(p, "pipeline") /\ UNCHANGED frame
         ELSE Call(p, IF rec[p] = "CREATED" THEN "ACQUIRING_SOURCE" ELSE "ANALYZING",
                   "begin", "handler")
    /\ UNCHANGED <<record, files, env, locals>>

\* _existing_phase1: the metadata names these tools and no artifact is missing.
Reusable == meta /\ \A a \in Artifacts : analysis[a] # NoVersion

ReusePhase1(p) ==
    /\ pc[p] = "pipeline" /\ work[p].mode # "fresh" /\ Reusable
    /\ Goto(p, "topology")
    /\ UNCHANGED <<record, files, env, frame, locals>>

\* run_phase1_analysis reads the tree as it is now, then writes the artifacts.
RunPhase1(p) ==
    /\ pc[p] = "pipeline" /\ ~(work[p].mode # "fresh" /\ Reusable)
    /\ work' = [work EXCEPT ![p].seen = repo]
    /\ Goto(p, "phase1")
    /\ UNCHANGED <<record, files, env, frame, kind, rec>>

WriteEvidence(p) ==
    /\ pc[p] = "phase1"
    /\ analysis' = [analysis EXCEPT !["evidence"] = work[p].seen]
    /\ Goto(p, "rules")
    /\ UNCHANGED <<record, source, meta, generated, env, frame, locals>>

WriteRules(p) ==
    /\ pc[p] = "rules"
    /\ analysis' = [analysis EXCEPT !["rules"] = work[p].seen]
    /\ Goto(p, "topology")
    /\ UNCHANGED <<record, source, meta, generated, env, frame, locals>>

\* TopologyBuilder.build reads the evidence and the rules from the directory.
BuildTopology(p) ==
    /\ pc[p] = "topology"
    /\ LET result == IF kind[p] = "analyze" THEN "WAITING_FOR_USER" ELSE work[p].result
       IN  work' = [work EXCEPT ![p] = [@ EXCEPT !.basis = {analysis[a] : a \in Artifacts},
                                                 !.result = result]]
    /\ Goto(p, IF kind[p] = "analyze" THEN "artifacts" ELSE "decide")
    /\ UNCHANGED <<record, files, env, frame, kind, rec>>

\* The profile has blocked or unresolved holds: nothing is rendered.
HoldManifests(p, state) ==
    /\ pc[p] = "decide"
    /\ work' = [work EXCEPT ![p].result = state]
    /\ Goto(p, "artifacts")
    /\ UNCHANGED <<record, files, env, frame, kind, rec>>

\* A file is written over; one of an earlier rendering that has no successor
\* stays in generated/ and is listed in the new bundle.
RenderManifests(p) ==
    /\ pc[p] = "decide"
    /\ generated' \in {work[p].basis, work[p].basis \cup generated}
    /\ Goto(p, "validate")
    /\ UNCHANGED <<record, source, analysis, meta, env, frame, locals>>

\* Validation, repair and the second validation end ready or not.
ValidateManifests(p, state) ==
    /\ pc[p] = "validate"
    /\ work' = [work EXCEPT ![p].result = state]
    /\ Goto(p, "artifacts")
    /\ UNCHANGED <<record, files, env, frame, kind, rec>>

\* The result's artifacts are saved, runtime-metadata.yaml among them.
SaveArtifacts(p) ==
    /\ pc[p] = "artifacts"
    /\ meta' = TRUE
    /\ Goto(p, "finish")
    /\ UNCHANGED <<record, source, analysis, generated, env, frame, locals>>

\* The result is never the state in hand, ANALYZING: it is always a transition.
Finish(p) ==
    /\ pc[p] = "finish"
    /\ Call(p, work[p].result, "returned", "handler")
    /\ UNCHANGED <<record, files, env, locals>>

\* An exception in the try, or RUN-201/RUN-202 of a transition in it.
PipelineRaises(p) ==
    /\ pc[p] \in InPipeline
    /\ Goto(p, "handler")
    /\ UNCHANGED <<record, files, env, frame, locals>>

\* Mutant of RecordFailure: the except clause reports and records nothing.
RecordFailureForgotten(p) ==
    /\ pc[p] = "handler"
    /\ Goto(p, "raised")
    /\ UNCHANGED <<record, files, env, frame, locals>>

\* The except clause: the orchestrator returns the FAILED record, analyze
\* raises again; when this transition is refused too, it raises out of both.
RecordFailure(p) ==
    /\ pc[p] = "handler"
    /\ Call(p, "FAILED", IF kind[p] = "analyze" THEN "raised" ELSE "returned", "raised")
    /\ UNCHANGED <<record, files, env, locals>>

Orchestrator(p) == \/ LoadRun(p) \/ BeginAnalyzing(p)
                   \/ ReusePhase1(p) \/ RunPhase1(p)
                   \/ WriteEvidence(p) \/ WriteRules(p)
                   \/ BuildTopology(p)
                   \/ \E s \in {"BLOCKED", "WAITING_FOR_USER"} : HoldManifests(p, s)
                   \/ RenderManifests(p)
                   \/ \E s \in {"READY", "FAILED"} : ValidateManifests(p, s)
                   \/ SaveArtifacts(p) \/ Finish(p)
                   \/ PipelineRaises(p) \/ RecordFailure(p)

------------------------------------------------------------------------------
\* The environment

Spend(fault) == left[fault] > 0 /\ left' = [left EXCEPT ![fault] = @ - 1]

EditSource(v) ==
    /\ Spend("edit") /\ v # repo
    /\ EditsWhileRunning \/ AllQuiet
    /\ repo' = v
    /\ UNCHANGED <<record, files, torn, pc, frame, locals>>

\* A release with other TOOL_VERSIONS is installed between two commands.
UpgradeTools ==
    /\ Spend("upgrade") /\ AllQuiet
    /\ meta' = FALSE
    /\ UNCHANGED <<record, source, analysis, generated, repo, torn, pc, frame, locals>>

\* A process is killed: its lock file, if any, stays.
Crash(p) ==
    /\ Spend("crash") /\ Running(p)
    /\ Goto(p, "killed")
    /\ UNCHANGED <<record, files, repo, torn, frame, locals>>

\* The try of AgentOrchestrator.run; analyze catches no KeyboardInterrupt.
CatchesInterrupt(p) ==
    /\ kind[p] # "analyze"
    /\ \/ pc[p] \in InPipeline \cup {"begin"}
       \/ pc[p] \in InTransition /\ frame[p].err = "handler"

\* Ctrl+C at any point.  A lock in hand is released on the way out; in the
\* try the run is then moved to CANCELLED, elsewhere nothing is recorded.
Interrupt(p) ==
    /\ Spend("interrupt") /\ Running(p)
    /\ lock' = IF lock = p THEN Nobody ELSE lock
    /\ torn' = (torn \/ pc[p] = "append")
    /\ IF CatchesInterrupt(p)
         THEN Call(p, "CANCELLED", "returned", "raised")
         ELSE Return(p, "interrupted")
    /\ UNCHANGED <<run, events, files, repo, locals>>

Environment == \/ \E v \in Versions : EditSource(v)
               \/ UpgradeTools
               \/ \E p \in Procs : Crash(p) \/ Interrupt(p)

------------------------------------------------------------------------------
Step(p) == Transition(p) \/ Application(p) \/ Orchestrator(p)

Next == \/ \E p \in Procs, k \in Commands : Start(p, k)
        \/ \E p \in Procs : Step(p)
        \/ Environment

Spec == Init /\ [][Next]_vars

\* A process that is not dead keeps running: no step of it waits for another.
FairSpec == Spec /\ \A p \in Procs : WF_vars(Step(p))

------------------------------------------------------------------------------
\* Safety

\* A process between acquire_lock and the unlink owns run.lock: two processes
\* are never both in RunManager.transition, whoever died or was interrupted.
LockProtectsTransition ==
    \A p \in Procs : pc[p] \in {"check", "save", "append", "unlock"} => lock = p

\* What a log of transitions replays to: the state it ends in, the last one
\* entered that is no failure, and no gap between an event and the next.
LoggedState(log) == IF log = <<>> THEN "ABSENT" ELSE log[Len(log)].to
Successes(log) == {i \in DOMAIN log : log[i].to \notin Unsuccessful}
LoggedSuccess(log) ==
    IF Successes(log) = {} THEN "ABSENT" ELSE log[Max(Successes(log))].to
Replays(log, r) ==
    /\ r = [state |-> LoggedState(log), last |-> LoggedSuccess(log)]
    /\ \A i \in 1..(Len(log) - 1) : log[i].to = log[i + 1].from

\* While nobody holds the lock, events.jsonl replays to run.yaml: every event
\* starts where the one before it ended, and the last ones give the recorded
\* state and last_successful_state.  A process killed between the save and the
\* append leaves the lock behind it, so the gap is never built upon; a Ctrl+C
\* there (`torn`) loses an event for good.  So would an append that raises, a
\* full disk say, which is not modelled: every append here succeeds.
LogMatchesRecord == lock = Nobody /\ ~torn => Replays(events, run)

\* A terminal state a command reported to its user is still the run's state:
\* no concurrent command turned the READY, FAILED, BLOCKED or CANCELLED run it
\* announced into something else.
ReportedStateStands ==
    \A p \in Procs : pc[p] = "returned" /\ rec[p] \in TERMINAL_STATES
                     => run.state = rec[p]

\* READY manifests come from one analysis, of the version source.yaml names.
\* The exception is a pinned resume that found nothing to reuse and analyzed
\* the drifted tree.
ReadyManifestsMatchSource ==
    run.state = "READY" =>
        \/ generated = {source}
        \/ \E p \in Procs : work[p].mode = "pinned" /\ work[p].seen # NoVersion

\* Ctrl+C leaves a run that had begun CANCELLED, or as terminal as it was.
InterruptLeavesCancelled ==
    \A p \in Procs : pc[p] = "interrupted" /\ kind[p] = "prepare"
                     => run.state \in TERMINAL_STATES \cup {"ABSENT"}

\* Where a resume that found no drift has moved the run back to waiting, the
\* artifacts its questions come from are of the source that source.yaml records,
\* whatever was interrupted before.  False: a replan that dies between source.yaml
\* and its new analysis, or between two artifacts of it, leaves old ones behind,
\* and the resume reuses them.
ResumedAnalysisMatchesSource ==
    \A p \in Procs :
        pc[p] = "unlock" /\ frame[p].target = "WAITING_FOR_USER" /\ work[p].mode = "reuse"
            => \A a \in Artifacts : analysis[a] = source

\* No process works on a run that is terminal.  True of the commands here while
\* they do not overlap; false where they do: a pipeline writes its files without
\* looking at run.yaml again, which another command may have made terminal.
TerminalRunIsQuiet ==
    [][run.state \in TERMINAL_STATES => UNCHANGED <<source, analysis, generated>>]_vars

\* run.yaml keeps the promise of RunStateMachine.
StateMachine == INSTANCE RunStateMachine WITH state <- run.state, last <- run.last
ImplementsStateMachine == StateMachine!Spec

------------------------------------------------------------------------------
\* Liveness

\* A run does not stay ANALYZING when its processes end in order: whatever
\* they do to each other's transitions, the last of them moves it on, unless
\* one was killed or stopped by Ctrl+C.
AnalyzingEnds ==
    run.state = "ANALYZING" ~>
        \/ run.state # "ANALYZING"
        \/ \E p \in Procs : pc[p] \in {"killed", "interrupted"}
==============================================================================
