-------------------------- MODULE RunLifecycleProofs --------------------------
(***************************************************************************)
(* What holds of a run directory for every number of agent processes,      *)
(* every set of source versions and every number of faults.                *)
(***************************************************************************)
EXTENDS RunLifecycle, TLAPS

------------------------------------------------------------------------------
\* The control flow of a process

\* The labels a step can move a process to, spelled out.
LEMMA LabelsListed ==
    Labels = {"idle", "created", "acquire", "source", "resume", "drift", "replan",
              "load", "begin", "handler",
              "lock", "check", "save", "append", "unlock",
              "pipeline", "phase1", "rules", "topology", "decide",
              "validate", "artifacts", "finish",
              "returned", "raised", "interrupted", "killed"}
  BY DEF Labels, InTransition, InPipeline, Ended

\* A jump to a label keeps the types of the control state.
LEMMA GotoTypes ==
    ASSUME ControlTypes, NEW p \in Procs, NEW l \in Labels, Goto(p, l), UNCHANGED frame
    PROVE  ControlTypes'
  BY DEF ControlTypes, Goto

\* So does entering RunManager.transition ...
LEMMA CallTypes ==
    ASSUME ControlTypes, NEW p \in Procs, NEW target \in RunState,
           NEW ok \in Continuations, NEW err \in Continuations, Call(p, target, ok, err)
    PROVE  ControlTypes'
<1>1. NoRun \in RunRecord
  BY DEF NoRun, RunRecord, StateOrAbsent
<1>2. QED BY <1>1, LabelsListed DEF ControlTypes, Call, Goto, Frame

\* ... and leaving it.
LEMMA ReturnTypes ==
    ASSUME ControlTypes, NEW p \in Procs, NEW l \in Labels, Return(p, l)
    PROVE  ControlTypes'
<1>1. NoFrame \in Frame
  BY DEF NoFrame, NoRun, Frame, Continuations, RunRecord, StateOrAbsent, RunState
<1>2. QED BY <1>1 DEF ControlTypes, Return, Goto

------------------------------------------------------------------------------
\* Type correctness

\* Every value written to the run directory, and every local of a process, is
\* of its type, whatever process writes it.
THEOREM TypeCorrect == Spec => []TypeOK
<1>1. Init => TypeOK
  <2> SUFFICES ASSUME Init PROVE TypeOK OBVIOUS
  <2> USE DEF Init
  <2>1. RecordTypes BY DEF RecordTypes, NoRun, RunRecord, StateOrAbsent
  <2>2. FileTypes BY DEF FileTypes, MaybeVersion
  <2>3. ControlTypes 
    <3>1. NoFrame \in Frame
      BY DEF NoFrame, NoRun, Frame, Continuations, RunRecord, StateOrAbsent, RunState
    <3>2. QED BY <3>1, LabelsListed DEF ControlTypes
  <2>4. LocalTypes 
    BY DEF LocalTypes, Resuming, StateOrAbsent, Work, MaybeVersion, RunState
  <2>5. EnvTypes BY BoundsAssumption DEF EnvTypes, Faults
  <2>6. QED BY <2>1, <2>2, <2>3, <2>4, <2>5 DEF TypeOK
<1>2. ASSUME TypeOK, [Next]_vars PROVE TypeOK'
  <2> USE <1>2 DEF TypeOK, record, files, locals, env
  <2>1. ASSUME NEW p \in Procs, NEW k \in Commands, Start(p, k) PROVE TypeOK'
    <3>1. ControlTypes'
      BY <2>1, GotoTypes, CallTypes, LabelsListed DEF Start, RunState, Continuations
    <3>2. LocalTypes'
      BY <2>1, CommandsAssumption DEF Start, LocalTypes
    <3>3. QED BY <2>1, <3>1, <3>2 DEF Start, RecordTypes, FileTypes, EnvTypes
  <2>2. ASSUME NEW p \in Procs, Transition(p) PROVE TypeOK'
    <3> /\ frame[p] \in Frame /\ frame[p].target \in RunState
        /\ frame[p].ok \in Labels /\ frame[p].err \in Labels
        /\ frame[p].current \in RunRecord
      BY LabelsListed DEF ControlTypes, Frame, Continuations
    <3>a. CASE AcquireLock(p)
      BY <3>a, GotoTypes, LabelsListed 
      DEF AcquireLock, RecordTypes, FileTypes, LocalTypes, EnvTypes
    <3>b. CASE LockContended(p)
      BY <3>b, ReturnTypes DEF LockContended, RecordTypes, FileTypes, LocalTypes, EnvTypes
    <3>c. CASE CheckAllowed(p)
      BY <3>c, LabelsListed
      DEF CheckAllowed, Goto, ControlTypes, Frame, RecordTypes, FileTypes, LocalTypes, EnvTypes
    <3>d. CASE CheckRefused(p)
      BY <3>d, ReturnTypes DEF CheckRefused, RecordTypes, FileTypes, LocalTypes, EnvTypes
    <3>e. CASE Save(p)
      <4>1. run' \in RunRecord
        BY <3>e DEF Save, LastSuccessful, RunRecord, StateOrAbsent
      <4>2. QED
        BY <3>e, <4>1, GotoTypes, LabelsListed
        DEF Save, RecordTypes, FileTypes, LocalTypes, EnvTypes
    <3>f. CASE AppendEvent(p)
      <4>1. [from |-> frame[p].current.state, to |-> frame[p].target]
              \in [from : StateOrAbsent, to : RunState]
        BY DEF RunRecord
      <4>2. events' \in Seq([from : StateOrAbsent, to : RunState])
        BY <3>f, <4>1 DEF AppendEvent, RecordTypes
      <4>3. QED
        BY <3>f, <4>2, GotoTypes, LabelsListed
        DEF AppendEvent, RecordTypes, FileTypes, LocalTypes, EnvTypes
    <3>g. CASE ReleaseLock(p)
      <4>1. ControlTypes' BY <3>g, ReturnTypes DEF ReleaseLock
      <4>2. QED 
        BY <3>g, <4>1
        DEF ReleaseLock, RecordTypes, FileTypes, LocalTypes, EnvTypes, StateOrAbsent
    <3>h. QED BY <2>2, <3>a, <3>b, <3>c, <3>d, <3>e, <3>f, <3>g DEF Transition
  <2>3. ASSUME NEW p \in Procs, Application(p) PROVE TypeOK'
    <3> USE GotoTypes, CallTypes, LabelsListed
        DEF RecordTypes, FileTypes, EnvTypes, Continuations
    <3>1. CASE StartAcquiring(p)
      BY <3>1 DEF StartAcquiring, LocalTypes, RunState
    <3>2. CASE AcquireFails(p)
      BY <3>2 DEF AcquireFails, LocalTypes, RunState
    <3>3. CASE AcquireSource(p)
      <4>1. LocalTypes' BY <3>3 DEF AcquireSource, LocalTypes, Work, MaybeVersion
      <4>2. QED BY <3>3, <4>1 DEF AcquireSource
    <3>4. CASE SaveSource(p)
      <4>1. ControlTypes' BY <3>4 DEF SaveSource, RunState
      <4>2. source' \in MaybeVersion BY <3>4 DEF SaveSource, LocalTypes, Work
      <4>3. QED BY <3>4, <4>1, <4>2 DEF SaveSource, LocalTypes
    <3>5. CASE ResumeLoad(p)
      <4>1. LocalTypes' BY <3>5 DEF ResumeLoad, LocalTypes, RunRecord
      <4>2. ControlTypes' BY <3>5 DEF ResumeLoad
      <4>3. QED BY <3>5, <4>1, <4>2 DEF ResumeLoad
    <3>6. CASE ResumeWithoutSource(p)
      BY <3>6 DEF ResumeWithoutSource, LocalTypes
    <3>7. CASE ResumeUnchanged(p)
      <4>1. LocalTypes' BY <3>7 DEF ResumeUnchanged, LocalTypes, Work
      <4>2. QED BY <3>7, <4>1 DEF ResumeUnchanged
    <3>8. CASE ResumeStops(p)
      BY <3>8 DEF ResumeStops, LocalTypes
    <3>9. CASE ResumePinned(p)
      <4>1. LocalTypes' BY <3>9 DEF ResumePinned, LocalTypes, Work
      <4>2. QED BY <3>9, <4>1 DEF ResumePinned
    <3>10. CASE ResumeReplan(p)
      <4>1. repo \in MaybeVersion BY DEF MaybeVersion
      <4>2. LocalTypes' BY <3>10, <4>1 DEF ResumeReplan, LocalTypes, Work
      <4>3. QED BY <3>10, <4>2 DEF ResumeReplan
    <3>11. CASE SaveReplannedSource(p)
      <4>1. source' \in MaybeVersion BY <3>11 DEF SaveReplannedSource, LocalTypes, Work
      <4>2. QED BY <3>11, <4>1 DEF SaveReplannedSource, LocalTypes
    <3>12. QED
      BY <2>3, <3>1, <3>2, <3>3, <3>4, <3>5, <3>6, <3>7, <3>8, <3>9, <3>10, <3>11
      DEF Application
  <2>4. ASSUME NEW p \in Procs, Orchestrator(p) PROVE TypeOK'
    <3> USE GotoTypes, CallTypes, LabelsListed
        DEF RecordTypes, FileTypes, EnvTypes, Continuations
    <3>1. CASE LoadRun(p)
      <4>1. LocalTypes' BY <3>1 DEF LoadRun, LocalTypes, RunRecord
      <4>2. ControlTypes' BY <3>1 DEF LoadRun
      <4>3. QED BY <3>1, <4>1, <4>2 DEF LoadRun
    <3>2. CASE BeginAnalyzing(p)
      <4>1. ControlTypes' BY <3>2 DEF BeginAnalyzing, RunState
      <4>2. QED BY <3>2, <4>1 DEF BeginAnalyzing, LocalTypes
    <3>3. CASE ReusePhase1(p)
      BY <3>3 DEF ReusePhase1, LocalTypes
    <3>4. CASE RunPhase1(p)
      <4>1. LocalTypes' BY <3>4 DEF RunPhase1, LocalTypes, Work, MaybeVersion
      <4>2. QED BY <3>4, <4>1 DEF RunPhase1
    <3>5. CASE WriteEvidence(p)
      <4>1. analysis' \in [Artifacts -> MaybeVersion]
        BY <3>5 DEF WriteEvidence, LocalTypes, Work
      <4>2. QED BY <3>5, <4>1 DEF WriteEvidence, LocalTypes
    <3>6. CASE WriteRules(p)
      <4>1. analysis' \in [Artifacts -> MaybeVersion]
        BY <3>6 DEF WriteRules, LocalTypes, Work
      <4>2. QED BY <3>6, <4>1 DEF WriteRules, LocalTypes
    <3>7. CASE BuildTopology(p)
      <4>1. {analysis[a] : a \in Artifacts} \in SUBSET MaybeVersion
        OBVIOUS
      <4>2. "WAITING_FOR_USER" \in RunState BY DEF RunState
      <4>3. LocalTypes'
        <5> DEFINE result == IF kind[p] = "analyze" THEN "WAITING_FOR_USER"
                             ELSE work[p].result
        <5>1. work[p] \in Work /\ result \in RunState
          BY <4>2 DEF LocalTypes, Work
        <5>2. work' = [work EXCEPT ![p] = [@ EXCEPT !.basis = {analysis[a] : a \in Artifacts},
                                                    !.result = result]]
          BY <3>7 DEF BuildTopology
        <5> HIDE DEF result
        <5>3. [work[p] EXCEPT !.basis = {analysis[a] : a \in Artifacts},
                              !.result = result] \in Work
          BY <4>1, <5>1 DEF Work
        <5>4. QED BY <3>7, <5>2, <5>3 DEF BuildTopology, LocalTypes
      <4>4. ControlTypes' BY <3>7 DEF BuildTopology
      <4>5. QED BY <3>7, <4>3, <4>4 DEF BuildTopology
    <3>8. ASSUME NEW s \in {"BLOCKED", "WAITING_FOR_USER"}, HoldManifests(p, s)
          PROVE  TypeOK'
      <4>1. s \in RunState BY DEF RunState
      <4>2. LocalTypes' BY <3>8, <4>1 DEF HoldManifests, LocalTypes, Work
      <4>3. QED BY <3>8, <4>2 DEF HoldManifests
    <3>9. CASE RenderManifests(p)
      <4>1. generated' \in SUBSET MaybeVersion
        BY <3>9 DEF RenderManifests, LocalTypes, Work
      <4>2. QED BY <3>9, <4>1 DEF RenderManifests, LocalTypes
    <3>10. ASSUME NEW s \in {"READY", "FAILED"}, ValidateManifests(p, s)
           PROVE  TypeOK'
      <4>1. s \in RunState BY DEF RunState
      <4>2. LocalTypes' BY <3>10, <4>1 DEF ValidateManifests, LocalTypes, Work
      <4>3. QED BY <3>10, <4>2 DEF ValidateManifests
    <3>11. CASE SaveArtifacts(p)
      BY <3>11 DEF SaveArtifacts, LocalTypes
    <3>12. CASE Finish(p)
      <4>1. work[p].result \in RunState BY DEF LocalTypes, Work
      <4>2. QED BY <3>12, <4>1 DEF Finish, LocalTypes
    <3>13. CASE PipelineRaises(p)
      BY <3>13 DEF PipelineRaises, LocalTypes
    <3>14. CASE RecordFailure(p)
      <4>1. ControlTypes' BY <3>14 DEF RecordFailure, RunState
      <4>2. QED BY <3>14, <4>1 DEF RecordFailure, LocalTypes
    <3>15. QED
      BY <2>4, <3>1, <3>2, <3>3, <3>4, <3>5, <3>6, <3>7, <3>8, <3>9, <3>10,
         <3>11, <3>12, <3>13, <3>14 DEF Orchestrator
  <2>5. CASE Environment
    <3> USE DEF RecordTypes, FileTypes, LocalTypes
    <3>1. ASSUME NEW fault \in Faults, Spend(fault) PROVE left' \in [Faults -> Nat]
      BY <3>1 DEF Spend, EnvTypes
    <3>2. ASSUME NEW v \in Versions, EditSource(v) PROVE TypeOK'
      BY <3>1, <3>2 DEF EditSource, EnvTypes, ControlTypes, Faults
    <3>3. CASE UpgradeTools
      BY <3>1, <3>3 DEF UpgradeTools, EnvTypes, ControlTypes, Faults
    <3>4. ASSUME NEW p \in Procs, Crash(p) PROVE TypeOK'
      BY <3>1, <3>4, GotoTypes, LabelsListed DEF Crash, EnvTypes, Faults
    <3>5. ASSUME NEW p \in Procs, Interrupt(p) PROVE TypeOK'
      <4>1. ControlTypes'
        BY <3>5, CallTypes, ReturnTypes, LabelsListed
        DEF Interrupt, RunState, Continuations
      <4>2. EnvTypes' BY <3>1, <3>5 DEF Interrupt, EnvTypes, Faults
      <4>3. QED BY <3>5, <4>1, <4>2 DEF Interrupt
    <3>6. QED BY <2>5, <3>2, <3>3, <3>4, <3>5 DEF Environment
  <2>6. CASE UNCHANGED vars
    BY <2>6 DEF vars, RecordTypes, FileTypes, ControlTypes, LocalTypes, EnvTypes
  <2>7. QED BY <2>1, <2>2, <2>3, <2>4, <2>5, <2>6 DEF Next, Step
<1>3. QED BY <1>1, <1>2, PTL DEF Spec

------------------------------------------------------------------------------
\* The inductive invariant

\* Between acquire_lock and the unlink.
Critical == {"check", "save", "append", "unlock"}

\* Who owns run.lock is in the critical section or was killed there.
LockOwned == \A p \in Procs : lock = p => pc[p] \in Critical \cup {"killed"}

\* What a process in RunManager.transition knows of run.yaml while it holds
\* the lock: the record it read is still there until it replaces it, and the
\* record it wrote is still there until it unlocks.
RecordKnown ==
    \A p \in Procs :
        /\ pc[p] = "save" => /\ frame[p].current = run
                             /\ TransitionAllowed(run.state, frame[p].target)
        /\ pc[p] = "append" => run = [state |-> frame[p].target,
                                      last |-> LastSuccessful(frame[p].current.last,
                                                              frame[p].target)]
        /\ pc[p] = "unlock" => run.state = frame[p].target

\* A terminal state a process has seen is for good.
TerminalStands == \A p \in Procs : rec[p] \in TERMINAL_STATES => run.state = rec[p]

HasLastSuccess(log) ==
    Successes(log) # {} => \E i \in Successes(log) : \A j \in Successes(log) : i >= j

\* The log replays to run.yaml except between the save and the append, where
\* it replays to the record before; a last successful event exists when any does.
LogKnown ==
    /\ HasLastSuccess(events)
    /\ ~torn /\ lock = Nobody => Replays(events, run)
    /\ \A p \in Procs :
         ~torn => /\ pc[p] \in Critical \ {"append"} => Replays(events, run)
                  /\ pc[p] = "append" => Replays(events, frame[p].current)

IInv == TypeOK /\ LockProtectsTransition /\ LockOwned /\ RecordKnown
        /\ TerminalStands /\ LogKnown

------------------------------------------------------------------------------
\* What each kind of step does to the lock, the record and the log

\* A step of p outside the critical section: it neither takes the lock nor
\* writes run.yaml or events.jsonl, and learns at most the state that stands.
Outside(p) ==
    /\ UNCHANGED <<lock, run, events, torn>>
    /\ pc[p] \notin Critical \cup {"killed"}
    /\ pc'[p] \notin Critical \cup {"killed"}
    /\ \A q \in Procs \ {p} : pc'[q] = pc[q] /\ frame'[q] = frame[q] /\ rec'[q] = rec[q]
    /\ rec'[p] \in {rec[p], run.state}

LEMMA ApplicationOutside ==
    ASSUME TypeOK, NEW p \in Procs, Application(p) PROVE Outside(p)
<1> USE DEF TypeOK, ControlTypes, LocalTypes, record, files, env, locals,
            Outside, Critical, Goto, Call
<1>1. CASE StartAcquiring(p) BY <1>1 DEF StartAcquiring
<1>2. CASE AcquireSource(p) BY <1>2 DEF AcquireSource
<1>3. CASE AcquireFails(p) BY <1>3 DEF AcquireFails
<1>4. CASE SaveSource(p) BY <1>4 DEF SaveSource
<1>5. CASE ResumeLoad(p) BY <1>5 DEF ResumeLoad
<1>6. CASE ResumeWithoutSource(p) BY <1>6 DEF ResumeWithoutSource
<1>7. CASE ResumeUnchanged(p) BY <1>7 DEF ResumeUnchanged
<1>8. CASE ResumeStops(p) BY <1>8 DEF ResumeStops
<1>9. CASE ResumePinned(p) BY <1>9 DEF ResumePinned
<1>10. CASE ResumeReplan(p) BY <1>10 DEF ResumeReplan
<1>11. CASE SaveReplannedSource(p) BY <1>11 DEF SaveReplannedSource
<1>12. QED
  BY <1>1, <1>2, <1>3, <1>4, <1>5, <1>6, <1>7, <1>8, <1>9, <1>10, <1>11 DEF Application

LEMMA OrchestratorOutside ==
    ASSUME TypeOK, NEW p \in Procs, Orchestrator(p) PROVE Outside(p)
<1> USE DEF TypeOK, ControlTypes, LocalTypes, record, files, env, locals,
            Outside, Critical, Goto, Call
<1>1. CASE LoadRun(p) BY <1>1 DEF LoadRun
<1>2. CASE BeginAnalyzing(p) BY <1>2 DEF BeginAnalyzing
<1>3. CASE ReusePhase1(p) BY <1>3 DEF ReusePhase1
<1>4. CASE RunPhase1(p) BY <1>4 DEF RunPhase1
<1>5. CASE WriteEvidence(p) BY <1>5 DEF WriteEvidence
<1>6. CASE WriteRules(p) BY <1>6 DEF WriteRules
<1>7. CASE BuildTopology(p) BY <1>7 DEF BuildTopology
<1>8. CASE \E s \in {"BLOCKED", "WAITING_FOR_USER"} : HoldManifests(p, s)
  BY <1>8 DEF HoldManifests
<1>9. CASE RenderManifests(p) BY <1>9 DEF RenderManifests
<1>10. CASE \E s \in {"READY", "FAILED"} : ValidateManifests(p, s)
  BY <1>10 DEF ValidateManifests
<1>11. CASE SaveArtifacts(p) BY <1>11 DEF SaveArtifacts
<1>12. CASE Finish(p) BY <1>12 DEF Finish
<1>13. CASE PipelineRaises(p) BY <1>13 DEF PipelineRaises, InPipeline
<1>14. CASE RecordFailure(p) BY <1>14 DEF RecordFailure
<1>15. QED
  BY <1>1, <1>2, <1>3, <1>4, <1>5, <1>6, <1>7, <1>8, <1>9, <1>10, <1>11, <1>12,
     <1>13, <1>14 DEF Orchestrator

\* Every step is one of these: a step in the critical section, a crash, a
\* Ctrl+C, a step outside of it, or one that touches no process.
LEMMA StepCases ==
    ASSUME TypeOK, [Next]_vars
    PROVE  \/ \E p \in Procs : \/ AcquireLock(p) \/ CheckAllowed(p) \/ CheckRefused(p)
                              \/ Save(p) \/ AppendEvent(p) \/ ReleaseLock(p)
                              \/ Crash(p) \/ Interrupt(p) \/ Outside(p)
           \/ UNCHANGED <<lock, run, events, torn, pc, frame, rec>>
<1>1. ASSUME NEW p \in Procs, NEW k \in Commands, Start(p, k) PROVE Outside(p)
  BY <1>1 DEF TypeOK, ControlTypes, LocalTypes, record, files, env, Start, Call, Goto,
              Outside, Critical
<1>2. ASSUME NEW p \in Procs, LockContended(p) PROVE Outside(p)
  <2>1. frame[p].err \notin Critical \cup {"killed"}
    BY DEF TypeOK, ControlTypes, Frame, Continuations, Critical
  <2>2. QED
    BY <1>2, <2>1 DEF TypeOK, ControlTypes, LocalTypes, record, files, env, locals,
                      LockContended, Return, Goto, Outside, Critical
<1>3. ASSUME EditSource(repo') \/ UpgradeTools \/ UNCHANGED vars
      PROVE  UNCHANGED <<lock, run, events, torn, pc, frame, rec>>
  BY <1>3 DEF EditSource, UpgradeTools, vars, record, env, locals
<1>4. \A v \in Versions : EditSource(v) => EditSource(repo')
  BY DEF EditSource
<1>5. QED
  BY <1>1, <1>2, <1>3, <1>4, ApplicationOutside, OrchestratorOutside
  DEF Next, Step, Transition, Environment

------------------------------------------------------------------------------
\* Mutual exclusion and the record under the lock

\* The control state of a process whose step is a critical one.
LEMMA LockStep ==
    ASSUME TypeOK, LockProtectsTransition, LockOwned, [Next]_vars
    PROVE  LockProtectsTransition' /\ LockOwned'
<1> USE ProcsAssumption
    DEF TypeOK, RecordTypes, ControlTypes, LockProtectsTransition, LockOwned, Critical
<1>1. ASSUME NEW p \in Procs, AcquireLock(p)
      PROVE  LockProtectsTransition' /\ LockOwned'
  BY <1>1 DEF AcquireLock, Goto
<1>2. ASSUME NEW p \in Procs, CheckAllowed(p) \/ Save(p) \/ AppendEvent(p)
      PROVE  LockProtectsTransition' /\ LockOwned'
  BY <1>2 DEF CheckAllowed, Save, AppendEvent, Goto, record
<1>3. ASSUME NEW p \in Procs, CheckRefused(p) \/ ReleaseLock(p)
      PROVE  LockProtectsTransition' /\ LockOwned'
  <2>1. frame[p].err \notin Critical /\ frame[p].ok \notin Critical
    BY DEF Frame, Continuations
  <2>2. QED BY <1>3, <2>1 DEF CheckRefused, ReleaseLock, Return, Goto
<1>4. ASSUME NEW p \in Procs, Crash(p)
      PROVE  LockProtectsTransition' /\ LockOwned'
  BY <1>4 DEF Crash, Goto, record
<1>5. ASSUME NEW p \in Procs, Interrupt(p)
      PROVE  LockProtectsTransition' /\ LockOwned'
  BY <1>5 DEF Interrupt, Call, Return, Goto
<1>6. ASSUME NEW p \in Procs, Outside(p)
      PROVE  LockProtectsTransition' /\ LockOwned'
  BY <1>6 DEF Outside
<1>7. ASSUME UNCHANGED <<lock, run, events, torn, pc, frame, rec>>
      PROVE  LockProtectsTransition' /\ LockOwned'
  BY <1>7
<1>8. QED BY <1>1, <1>2, <1>3, <1>4, <1>5, <1>6, <1>7, StepCases

LEMMA RecordStep ==
    ASSUME TypeOK, LockProtectsTransition, RecordKnown, [Next]_vars
    PROVE  RecordKnown'
<1> USE DEF TypeOK, RecordTypes, ControlTypes, LockProtectsTransition, RecordKnown
<1>1. ASSUME NEW p \in Procs, AcquireLock(p) PROVE RecordKnown'
  BY <1>1 DEF AcquireLock, Goto
<1>2. ASSUME NEW p \in Procs, CheckAllowed(p) PROVE RecordKnown'
  BY <1>2 DEF CheckAllowed, Goto, record, Frame
<1>3. ASSUME NEW p \in Procs, Save(p) PROVE RecordKnown'
  BY <1>3 DEF Save, Goto
<1>4. ASSUME NEW p \in Procs, AppendEvent(p) PROVE RecordKnown'
  BY <1>4 DEF AppendEvent, Goto
<1>5. ASSUME NEW p \in Procs, CheckRefused(p) \/ ReleaseLock(p) PROVE RecordKnown'
  <2>1. frame[p].err \notin Critical /\ frame[p].ok \notin Critical
    BY DEF Frame, Continuations, Critical
  <2>2. QED BY <1>5, <2>1 DEF CheckRefused, ReleaseLock, Return, Goto, Critical
<1>6. ASSUME NEW p \in Procs, Crash(p) PROVE RecordKnown'
  BY <1>6 DEF Crash, Goto, record
<1>7. ASSUME NEW p \in Procs, Interrupt(p) PROVE RecordKnown'
  BY <1>7 DEF Interrupt, Call, Return, Goto
<1>8. ASSUME NEW p \in Procs, Outside(p) PROVE RecordKnown'
  BY <1>8 DEF Outside, Critical
<1>9. ASSUME UNCHANGED <<lock, run, events, torn, pc, frame, rec>> PROVE RecordKnown'
  BY <1>9
<1>10. QED BY <1>1, <1>2, <1>3, <1>4, <1>5, <1>6, <1>7, <1>8, <1>9, StepCases

LEMMA TerminalStep ==
    ASSUME TypeOK, RecordKnown, TerminalStands, [Next]_vars
    PROVE  TerminalStands'
<1> USE DEF TypeOK, LocalTypes, TerminalStands
<1>1. ASSUME NEW p \in Procs, Save(p) PROVE TerminalStands'
  BY <1>1 DEF Save, RecordKnown, TransitionAllowed, locals
<1>2. ASSUME NEW p \in Procs, ReleaseLock(p) PROVE TerminalStands'
  BY <1>2 DEF ReleaseLock, RecordKnown
<1>3. ASSUME NEW p \in Procs, Outside(p) PROVE TerminalStands'
  BY <1>3 DEF Outside
<1>4. ASSUME NEW p \in Procs, \/ AcquireLock(p) \/ CheckAllowed(p) \/ CheckRefused(p)
                              \/ AppendEvent(p) \/ Crash(p) \/ Interrupt(p)
      PROVE  TerminalStands'
  BY <1>4 DEF AcquireLock, CheckAllowed, CheckRefused, AppendEvent, Crash, Interrupt,
              record, locals
<1>5. ASSUME UNCHANGED <<lock, run, events, torn, pc, frame, rec>> PROVE TerminalStands'
  BY <1>5
<1>6. QED BY <1>1, <1>2, <1>3, <1>4, <1>5, StepCases

------------------------------------------------------------------------------
\* The event log

\* What an appended event does to a log: it keeps a last successful event,
\* and a log that replays to `current` goes on to replay to the record after
\* the move from it.
LEMMA AppendReplays ==
    ASSUME NEW log \in Seq([from : StateOrAbsent, to : RunState]), HasLastSuccess(log),
           NEW current \in RunRecord, NEW target \in RunState
    PROVE  LET log2 == Append(log, [from |-> current.state, to |-> target])
           IN  /\ HasLastSuccess(log2)
               /\ Replays(log, current) =>
                    Replays(log2, [state |-> target,
                                   last |-> LastSuccessful(current.last, target)])
<1> DEFINE n == Len(log)
           e == [from |-> current.state, to |-> target]
           log2 == Append(log, e)
<1>1. /\ n \in Nat /\ DOMAIN log = 1..n
      /\ Len(log2) = n + 1 /\ DOMAIN log2 = 1..(n + 1)
      /\ \A i \in 1..n : log2[i] = log[i]
      /\ log2[n + 1] = e
      /\ e.from = current.state /\ e.to = target
  OBVIOUS
<1> HIDE DEF n, e, log2
<1>2. LoggedState(log2) = target
  <2>1. log2 # <<>> BY <1>1
  <2>2. QED BY <1>1, <2>1 DEF LoggedState
<1>3. ASSUME Replays(log, current), NEW i \in 1..n
      PROVE  log2[i].to = log2[i + 1].from
  <2>1. CASE i = n
    <3>1. log # <<>> BY <1>1, <2>1 DEF n
    <3>2. current.state = log[n].to BY <1>3, <3>1 DEF Replays, LoggedState, n
    <3>3. QED BY <1>1, <2>1, <3>2
  <2>2. CASE i # n
    <3>1. i \in 1..(n - 1) /\ i + 1 \in 1..n BY <1>1, <2>2
    <3>2. log[i].to = log[i + 1].from BY <1>3, <3>1 DEF Replays, n
    <3>3. log2[i] = log[i] /\ log2[i + 1] = log[i + 1] BY <1>1, <3>1
    <3>4. QED BY <3>2, <3>3
  <2>3. QED BY <2>1, <2>2
<1>4. HasLastSuccess(log2) /\ LoggedSuccess(log2) = LastSuccessful(LoggedSuccess(log), target)
  <2>1. CASE target \in Unsuccessful
    <3>1. Successes(log2) = Successes(log)
      BY <1>1, <2>1 DEF Successes
    <3>2. CASE Successes(log) = {}
      BY <2>1, <3>1, <3>2 DEF LoggedSuccess, LastSuccessful, HasLastSuccess
    <3>3. CASE Successes(log) # {}
      <4>1. Max(Successes(log)) \in Successes(log)
        BY <3>3 DEF HasLastSuccess, Max
      <4>2. log2[Max(Successes(log))] = log[Max(Successes(log))]
        BY <1>1, <4>1 DEF Successes
      <4>3. QED
        BY <2>1, <3>1, <3>3, <4>2 DEF LoggedSuccess, LastSuccessful, HasLastSuccess
    <3>4. QED BY <3>2, <3>3
  <2>2. CASE target \notin Unsuccessful
    <3>1. /\ n + 1 \in Successes(log2)
          /\ \A j \in Successes(log2) : j \in Nat /\ n + 1 >= j
      BY <1>1, <2>2 DEF Successes
    <3>2. Max(Successes(log2)) = n + 1
      <4>1. /\ Max(Successes(log2)) \in Successes(log2)
            /\ \A j \in Successes(log2) : Max(Successes(log2)) >= j
        BY <3>1 DEF Max
      <4>2. QED BY <1>1, <3>1, <4>1
    <3>3. QED
      BY <1>1, <2>2, <3>1, <3>2 DEF LoggedSuccess, LastSuccessful, HasLastSuccess
  <2>3. QED BY <2>1, <2>2
<1>5. QED
  <2>1. ASSUME Replays(log, current)
        PROVE  Replays(log2, [state |-> target,
                              last |-> LastSuccessful(current.last, target)])
    <3>1. current.last = LoggedSuccess(log) BY <2>1 DEF Replays
    <3>2. \A i \in 1..(Len(log2) - 1) : log2[i].to = log2[i + 1].from
      BY <1>1, <1>3, <2>1
    <3>3. QED BY <1>2, <1>4, <3>1, <3>2 DEF Replays
  <2>2. QED BY <1>4, <2>1 DEF log2, e

LEMMA LogStep ==
    ASSUME TypeOK, LockProtectsTransition, LockOwned, RecordKnown, LogKnown, [Next]_vars
    PROVE  LogKnown'
<1> USE DEF TypeOK, RecordTypes, ControlTypes, LockProtectsTransition, LockOwned,
            LogKnown, Critical
<1>1. ASSUME NEW p \in Procs, AcquireLock(p) PROVE LogKnown'
  BY <1>1 DEF AcquireLock, Goto, env
<1>2. ASSUME NEW p \in Procs, CheckAllowed(p) PROVE LogKnown'
  BY <1>2 DEF CheckAllowed, Goto, record, env
<1>3. ASSUME NEW p \in Procs, CheckRefused(p) PROVE LogKnown'
  <2>1. frame[p].err \notin Critical
    BY DEF Frame, Continuations
  <2>2. QED BY <1>3, <2>1 DEF CheckRefused, Return, Goto, env
<1>4. ASSUME NEW p \in Procs, Save(p) PROVE LogKnown'
  BY <1>4, ProcsAssumption DEF Save, RecordKnown, Goto, env
<1>5. ASSUME NEW p \in Procs, AppendEvent(p) PROVE LogKnown'
  <2>1. frame[p].current \in RunRecord /\ frame[p].target \in RunState
    BY DEF Frame
  <2>2. HasLastSuccess(events)'
    BY <1>5, <2>1, AppendReplays DEF AppendEvent
  <2>3. ~torn => Replays(events, run)'
    BY <1>5, <2>1, AppendReplays DEF AppendEvent, RecordKnown, env
  <2>4. QED BY <1>5, <2>2, <2>3, ProcsAssumption DEF AppendEvent, Goto, env
<1>6. ASSUME NEW p \in Procs, ReleaseLock(p) PROVE LogKnown'
  <2>1. frame[p].ok \notin Critical
    BY DEF Frame, Continuations
  <2>2. QED BY <1>6, <2>1 DEF ReleaseLock, Return, Goto, env
<1>7. ASSUME NEW p \in Procs, Crash(p) PROVE LogKnown'
  BY <1>7 DEF Crash, Goto, record
<1>8. ASSUME NEW p \in Procs, Interrupt(p) PROVE LogKnown'
  BY <1>8, ProcsAssumption DEF Interrupt, Call, Return, Goto, Running, Ended
<1>9. ASSUME NEW p \in Procs, Outside(p) PROVE LogKnown'
  BY <1>9 DEF Outside
<1>10. ASSUME UNCHANGED <<lock, run, events, torn, pc, frame, rec>> PROVE LogKnown'
  BY <1>10
<1>11. QED
  BY <1>1, <1>2, <1>3, <1>4, <1>5, <1>6, <1>7, <1>8, <1>9, <1>10, StepCases

------------------------------------------------------------------------------
\* Safety

\* The inductive invariant holds of every run directory, at every moment.
THEOREM Invariance == Spec => []IInv
<1>1. Init => LockProtectsTransition /\ LockOwned /\ RecordKnown /\ TerminalStands
  BY ProcsAssumption
  DEF Init, LockProtectsTransition, LockOwned, RecordKnown, TerminalStands, TERMINAL_STATES
<1>2. Init => LogKnown
  <2> SUFFICES ASSUME Init PROVE LogKnown OBVIOUS
  <2>1. Successes(events) = {} /\ Len(events) = 0
    BY DEF Init, Successes
  <2>2. Replays(events, run)
    BY <2>1 DEF Init, Replays, LoggedState, LoggedSuccess, NoRun
  <2>3. QED BY <2>1, <2>2 DEF Init, LogKnown, HasLastSuccess, Critical
<1>3. TypeOK /\ LockProtectsTransition /\ LockOwned /\ [Next]_vars
        => LockProtectsTransition' /\ LockOwned'
  BY LockStep
<1>4. TypeOK /\ LockProtectsTransition /\ RecordKnown /\ [Next]_vars => RecordKnown'
  BY RecordStep
<1>5. TypeOK /\ RecordKnown /\ TerminalStands /\ [Next]_vars => TerminalStands'
  BY TerminalStep
<1>6. TypeOK /\ LockProtectsTransition /\ LockOwned /\ RecordKnown /\ LogKnown /\ [Next]_vars
        => LogKnown'
  BY LogStep
<1>7. QED
  BY <1>1, <1>2, <1>3, <1>4, <1>5, <1>6, TypeCorrect, PTL DEF Spec, IInv

\* run.lock keeps two processes from being in RunManager.transition at once,
\* for any number of processes, crashes and Ctrl+Cs.
THEOREM LockExclusive == Spec => []LockProtectsTransition
BY Invariance, PTL DEF IInv

\* The terminal state a command reports is never taken back.
THEOREM ReportsFinal == Spec => []ReportedStateStands
<1>1. IInv => ReportedStateStands
  BY DEF IInv, TerminalStands, ReportedStateStands
<1>2. QED BY <1>1, Invariance, PTL

\* Whenever the lock is free, events.jsonl replays to run.yaml, unless a
\* Ctrl+C fell between a save and its event.
THEOREM LogFaithful == Spec => []LogMatchesRecord
<1>1. IInv => LogMatchesRecord
  BY DEF IInv, LogKnown, LogMatchesRecord
<1>2. QED BY <1>1, Invariance, PTL

\* RunLifecycle implements RunStateMachine: only Save writes run.yaml, and it
\* writes a declared move from the record that is there.
THEOREM Refinement == Spec => ImplementsStateMachine
<1>1. Init => StateMachine!Init
  BY DEF Init, NoRun, StateMachine!Init
<1>2. ASSUME IInv, [Next]_vars PROVE [StateMachine!Next]_(StateMachine!vars)
  <2> USE <1>2 DEF IInv, TypeOK
  <2>1. ASSUME NEW p \in Procs, Save(p) PROVE StateMachine!Next
    <3>1. frame[p].target \in RunState BY DEF ControlTypes, Frame
    <3>2. /\ frame[p].current = run
          /\ TransitionAllowed(run.state, frame[p].target)
      BY <2>1 DEF Save, RecordKnown
    <3>3. StateMachine!Move(frame[p].target)
      BY <2>1, <3>2
      DEF Save, TransitionAllowed, LastSuccessful, Unsuccessful, TERMINAL_STATES,
          StateMachine!Move, StateMachine!TransitionAllowed, StateMachine!LastSuccessful,
          StateMachine!Unsuccessful, StateMachine!TERMINAL_STATES,
          ALLOWED_TRANSITIONS, StateMachine!ALLOWED_TRANSITIONS,
          StateOrAbsent, StateMachine!StateOrAbsent, RunState, StateMachine!RunState
    <3>4. QED
      BY <3>1, <3>3 DEF StateMachine!Next, RunState, StateMachine!RunState
  <2>2. ASSUME NEW p \in Procs, \/ AcquireLock(p) \/ CheckAllowed(p) \/ CheckRefused(p)
                                \/ AppendEvent(p) \/ ReleaseLock(p)
                                \/ Crash(p) \/ Interrupt(p) \/ Outside(p)
        PROVE  UNCHANGED run
    BY <2>2 DEF AcquireLock, CheckAllowed, CheckRefused, AppendEvent, ReleaseLock, Crash,
                Interrupt, Outside, record
  <2>3. QED BY <2>1, <2>2, StepCases DEF StateMachine!vars
<1>3. QED BY <1>1, <1>2, Invariance, PTL DEF Spec, ImplementsStateMachine, StateMachine!Spec
==============================================================================
