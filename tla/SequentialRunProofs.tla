-------------------------- MODULE SequentialRunProofs --------------------------
(***************************************************************************)
(* What holds of a run directory when its commands are typed one after the *)
(* other: for every number of commands, every set of source versions and   *)
(* every number of edits and upgrades between them.                        *)
(***************************************************************************)
EXTENDS RunLifecycleProofs

------------------------------------------------------------------------------
\* One process at a time

Alone == \A p, q \in Procs : Running(p) /\ Running(q) => p = q

\* A step of p, which runs and is the only one whose state changes.
Moves(p) ==
    /\ Running(p)
    /\ \A q \in Procs \ {p} : /\ pc'[q] = pc[q] /\ frame'[q] = frame[q]
                              /\ rec'[q] = rec[q] /\ work'[q] = work[q] /\ kind'[q] = kind[q]

LEMMA StepMoves ==
    ASSUME TypeOK, NEW p \in Procs, Step(p) \/ Crash(p) \/ Interrupt(p)
    PROVE  Moves(p)
<1> USE DEF TypeOK, ControlTypes, LocalTypes, record, files, env, locals,
            Moves, Running, Ended, Goto, Call, Return
<1>1. CASE Transition(p)
  BY <1>1 DEF Transition, AcquireLock, LockContended, CheckAllowed, CheckRefused, Save,
              AppendEvent, ReleaseLock
<1>2. CASE Application(p)
  <2>1. CASE \/ StartAcquiring(p) \/ AcquireSource(p) \/ AcquireFails(p) \/ SaveSource(p)
             \/ ResumeLoad(p) \/ ResumeWithoutSource(p)
    BY <2>1 DEF StartAcquiring, AcquireSource, AcquireFails, SaveSource, ResumeLoad,
                ResumeWithoutSource
  <2>2. CASE \/ ResumeUnchanged(p) \/ ResumeStops(p) \/ ResumePinned(p) \/ ResumeReplan(p)
             \/ SaveReplannedSource(p)
    BY <2>2 DEF ResumeUnchanged, ResumeStops, ResumePinned, ResumeReplan, SaveReplannedSource
  <2>3. QED BY <1>2, <2>1, <2>2 DEF Application
<1>3. CASE Orchestrator(p)
  <2>1. CASE \/ LoadRun(p) \/ BeginAnalyzing(p) \/ ReusePhase1(p) \/ RunPhase1(p)
             \/ WriteEvidence(p) \/ WriteRules(p)
    BY <2>1 DEF LoadRun, BeginAnalyzing, ReusePhase1, RunPhase1, WriteEvidence, WriteRules
  <2>2. CASE \/ BuildTopology(p) \/ RenderManifests(p)
             \/ \E s \in {"BLOCKED", "WAITING_FOR_USER"} : HoldManifests(p, s)
             \/ \E s \in {"READY", "FAILED"} : ValidateManifests(p, s)
    BY <2>2 DEF BuildTopology, RenderManifests, HoldManifests, ValidateManifests
  <2>3. CASE SaveArtifacts(p) \/ Finish(p) \/ PipelineRaises(p) \/ RecordFailure(p)
    BY <2>3 DEF SaveArtifacts, Finish, PipelineRaises, RecordFailure, InPipeline
  <2>4. QED BY <1>3, <2>1, <2>2, <2>3 DEF Orchestrator
<1>4. CASE Crash(p) BY <1>4 DEF Crash
<1>5. CASE Interrupt(p) BY <1>5 DEF Interrupt
<1>6. QED BY <1>1, <1>2, <1>3, <1>4, <1>5 DEF Step

\* What a command changes when it is typed.
LEMMA StartMoves ==
    ASSUME TypeOK, NEW p \in Procs, NEW k \in Commands, Start(p, k)
    PROVE  /\ pc[p] = "idle"
           /\ \A q \in Procs \ {p} : /\ pc'[q] = pc[q] /\ frame'[q] = frame[q]
                                     /\ rec'[q] = rec[q] /\ work'[q] = work[q]
                                     /\ kind'[q] = kind[q]
           /\ UNCHANGED <<record, files, env, rec, work>>
  BY DEF TypeOK, ControlTypes, LocalTypes, Start, Goto, Call

LEMMA AloneKept == ASSUME TypeOK, ~Concurrent, Alone, [Next]_vars PROVE Alone'
<1> USE DEF Alone
<1>1. ASSUME NEW p \in Procs, NEW k \in Commands, Start(p, k) PROVE Alone'
  <2>1. AllQuiet BY <1>1 DEF Start
  <2>2. QED BY <1>1, <2>1, StartMoves DEF AllQuiet, Running
<1>2. ASSUME NEW p \in Procs, Step(p) \/ Crash(p) \/ Interrupt(p) PROVE Alone'
  BY <1>2, StepMoves DEF Moves, Running
<1>3. ASSUME UNCHANGED pc PROVE Alone'
  BY <1>3 DEF Running
<1>4. QED
  BY <1>1, <1>2, <1>3 DEF Next, Environment, EditSource, UpgradeTools, vars

------------------------------------------------------------------------------
\* The order of an undisturbed run

\* Commands are typed one after the other, the tree is edited between them,
\* and nothing kills or interrupts them.
Undisturbed ==
    ~Concurrent /\ ~EditsWhileRunning /\ MaxCrashes = 0 /\ MaxInterrupts = 0

FaultFree ==
    /\ left["crash"] = 0 /\ left["interrupt"] = 0
    /\ \A p \in Procs : pc[p] \notin {"killed", "interrupted"}

\* The states between two commands
Settled == {"ABSENT", "WAITING_FOR_USER", "READY", "BLOCKED", "FAILED", "CANCELLED"}

\* The state a transition leads to is the one its caller goes on in.
Leads(f) ==
    /\ f.ok = "created" <=> f.target = "CREATED"
    /\ f.ok = "acquire" => f.target = "ACQUIRING_SOURCE"
    /\ f.ok \in {"begin", "pipeline"} => f.target = "ANALYZING"
    /\ f.ok \in {"returned", "raised"} => f.target \in Settled
    /\ f.ok # "handler"

StateAt(p) ==
    /\ pc[p] = "created" => run.state = "CREATED"
    /\ pc[p] \in {"acquire", "source"} => run.state = "ACQUIRING_SOURCE"
    /\ pc[p] = "resume" => run.state \in Settled \ {"ABSENT"}
    /\ pc[p] \in {"drift", "replan"} => run.state = "WAITING_FOR_USER"
    /\ pc[p] = "load" => run.state \in {"ACQUIRING_SOURCE", "WAITING_FOR_USER"}
    /\ pc[p] = "begin" =>
          /\ rec[p] = run.state
          /\ run.state \in {"ACQUIRING_SOURCE", "WAITING_FOR_USER", "ANALYZING"}
    /\ pc[p] \in InPipeline \cup {"handler"} => run.state = "ANALYZING"
    /\ pc[p] \in {"artifacts", "finish"} =>
          work[p].result \in {"WAITING_FOR_USER", "READY", "BLOCKED", "FAILED"}
    /\ pc[p] \in InTransition => Leads(frame[p])
    /\ pc[p] \in {"lock", "check", "save"} => TransitionAllowed(run.state, frame[p].target)
    /\ pc[p] \in {"append", "unlock"} => run.state = frame[p].target

\* Every process knows the state it works in, so that no transition is ever
\* refused; between commands a run is settled.
Orderly ==
    /\ FaultFree /\ Alone
    /\ \A p \in Procs : StateAt(p)
    /\ AllQuiet => run.state \in Settled
    /\ pc[Creator] = "idle" => run.state = "ABSENT"
    /\ \A p \in Procs \ {Creator} : pc[p] # "idle" => run.state # "ABSENT"

\* What a step of the one process that runs has to keep.
Keeps(p) ==
    /\ Moves(p) /\ UNCHANGED left
    /\ run' = run \/ run'.state \in RunState
    /\ StateAt(p)'
    /\ pc'[p] \notin {"idle", "killed", "interrupted"}
    /\ pc'[p] \in {"returned", "raised"} => run'.state \in Settled

LEMMA OrderlyStep ==
    ASSUME Orderly, NEW p \in Procs, Keeps(p) PROVE Orderly'
<1> USE ProcsAssumption DEF Keeps, Orderly, Moves
<1>1. \A q \in Procs \ {p} : pc'[q] = pc[q] /\ pc[q] \in Ended \cup {"idle"}
  BY DEF Alone, Running
<1>2. ASSUME NEW q \in Procs PROVE StateAt(q)'
  BY <1>1 DEF StateAt, Ended, InPipeline, InTransition
<1>3. FaultFree' /\ Alone'
  BY <1>1 DEF FaultFree, Alone, Running
<1>4. AllQuiet' => run'.state \in Settled
  BY <1>3 DEF AllQuiet, Running, Ended, FaultFree
<1>5. pc'[Creator] = "idle" => run'.state = "ABSENT"
  BY DEF Running
<1>6. ASSUME NEW q \in Procs \ {Creator}, pc'[q] # "idle" PROVE run'.state # "ABSENT"
  <2>1. pc[q] # "idle" BY <1>6 DEF Running
  <2>2. QED BY <2>1 DEF RunState
<1>7. QED BY <1>2, <1>3, <1>4, <1>5, <1>6

\* The lock is free for the one process that runs, and the edge is declared.
LEMMA NeverRefused ==
    ASSUME TypeOK, LockOwned, Orderly, NEW p \in Procs
    PROVE  ~LockContended(p) /\ ~CheckRefused(p)
<1>1. StateAt(p) /\ FaultFree /\ Alone BY DEF Orderly
<1>2. ASSUME LockContended(p) PROVE FALSE
  <2>1. lock \in Procs /\ pc[lock] \in Critical
    BY <1>1, <1>2 DEF LockContended, LockOwned, FaultFree, TypeOK, RecordTypes
  <2>2. lock = p
    BY <1>1, <1>2, <2>1 DEF LockContended, Alone, Running, Ended, Critical
  <2>3. QED BY <1>2, <2>1, <2>2 DEF LockContended, Critical
<1>3. QED BY <1>1, <1>2 DEF CheckRefused, StateAt

LEMMA OrderlyInTransition ==
    ASSUME TypeOK, LockOwned, RecordKnown, Orderly, NEW p \in Procs, Transition(p)
    PROVE  Keeps(p)
<1>1. Moves(p) BY StepMoves DEF Step
<1>2. StateAt(p) /\ FaultFree /\ Alone BY DEF Orderly
<1> USE DEF TypeOK, RecordTypes, ControlTypes, LocalTypes, record, files, env, locals, StateAt,
        InPipeline, InTransition, Goto, Return, Keeps
<1>3. CASE AcquireLock(p) BY <1>1, <1>2, <1>3 DEF AcquireLock
<1>4. CASE CheckAllowed(p)
  <2>1. /\ frame'[p].target = frame[p].target /\ frame'[p].ok = frame[p].ok
        /\ frame'[p].err = frame[p].err
    BY <1>4 DEF CheckAllowed, Frame
  <2>2. QED BY <1>1, <1>2, <1>4, <2>1 DEF CheckAllowed, Leads
<1>5. CASE Save(p)
  <2>1. frame[p].target \in RunState BY DEF Frame
  <2>2. QED BY <1>1, <1>2, <1>5, <2>1 DEF Save
<1>6. CASE AppendEvent(p) BY <1>1, <1>2, <1>6 DEF AppendEvent
<1>7. CASE ReleaseLock(p)
  <2>1. frame[p].ok \in Continuations BY DEF Frame
  <2>2. QED BY <1>1, <1>2, <1>7, <2>1 DEF ReleaseLock, Leads, Continuations
<1>8. QED BY <1>3, <1>4, <1>5, <1>6, <1>7, NeverRefused DEF Transition

\* The edges the code takes are declared.
LEMMA Declared ==
    /\ TransitionAllowed("ABSENT", "CREATED")
    /\ TransitionAllowed("CREATED", "ACQUIRING_SOURCE")
    /\ \A state \in {"ACQUIRING_SOURCE", "ANALYZING"} : TransitionAllowed(state, "FAILED")
    /\ \A state \in {"ACQUIRING_SOURCE", "WAITING_FOR_USER"} :
          TransitionAllowed(state, "ANALYZING")
    /\ \A state \in {"WAITING_FOR_USER", "READY", "BLOCKED", "FAILED"} :
          TransitionAllowed("ANALYZING", state)
  BY DEF TransitionAllowed, ALLOWED_TRANSITIONS, TERMINAL_STATES, StateOrAbsent, RunState

LEMMA OrderlyInApplication ==
    ASSUME TypeOK, Orderly, NEW p \in Procs, Application(p) PROVE Keeps(p)
<1>1. Moves(p) BY StepMoves DEF Step
<1>2. StateAt(p) BY DEF Orderly
<1> USE Declared
    DEF TypeOK, RecordTypes, ControlTypes, LocalTypes, record, files, env, locals, StateAt,
        InPipeline, InTransition, Goto, Call, Leads, Settled, Keeps
<1>3. CASE StartAcquiring(p) BY <1>1, <1>2, <1>3 DEF StartAcquiring
<1>4. CASE AcquireSource(p) BY <1>1, <1>2, <1>4 DEF AcquireSource
<1>5. CASE AcquireFails(p) BY <1>1, <1>2, <1>5 DEF AcquireFails
<1>6. CASE SaveSource(p) BY <1>1, <1>2, <1>6 DEF SaveSource
<1>7. CASE ResumeLoad(p) BY <1>1, <1>2, <1>7 DEF ResumeLoad, TERMINAL_STATES
<1>8. CASE ResumeWithoutSource(p) BY <1>1, <1>2, <1>8 DEF ResumeWithoutSource
<1>9. CASE ResumeUnchanged(p) BY <1>1, <1>2, <1>9 DEF ResumeUnchanged
<1>10. CASE ResumeStops(p) BY <1>1, <1>2, <1>10 DEF ResumeStops
<1>11. CASE ResumePinned(p) BY <1>1, <1>2, <1>11 DEF ResumePinned
<1>12. CASE ResumeReplan(p) BY <1>1, <1>2, <1>12 DEF ResumeReplan
<1>13. CASE SaveReplannedSource(p) BY <1>1, <1>2, <1>13 DEF SaveReplannedSource
<1>14. QED
  BY <1>3, <1>4, <1>5, <1>6, <1>7, <1>8, <1>9, <1>10, <1>11, <1>12, <1>13 DEF Application

LEMMA OrderlyInOrchestrator ==
    ASSUME TypeOK, Orderly, NEW p \in Procs, Orchestrator(p) PROVE Keeps(p)
<1>1. Moves(p) BY StepMoves DEF Step
<1>2. StateAt(p) BY DEF Orderly
<1> USE Declared
    DEF TypeOK, RecordTypes, ControlTypes, LocalTypes, record, files, env, locals, StateAt,
        InPipeline, InTransition, Goto, Call, Leads, Settled, Keeps
<1>3. CASE LoadRun(p) BY <1>1, <1>2, <1>3 DEF LoadRun, TERMINAL_STATES
<1>4. CASE BeginAnalyzing(p) BY <1>1, <1>2, <1>4 DEF BeginAnalyzing
<1>5. CASE ReusePhase1(p) BY <1>1, <1>2, <1>5 DEF ReusePhase1
<1>6. CASE RunPhase1(p) BY <1>1, <1>2, <1>6 DEF RunPhase1
<1>7. CASE WriteEvidence(p) BY <1>1, <1>2, <1>7 DEF WriteEvidence
<1>8. CASE WriteRules(p) BY <1>1, <1>2, <1>8 DEF WriteRules
<1>9. CASE BuildTopology(p)
  <2>1. work'[p].result = IF kind[p] = "analyze" THEN "WAITING_FOR_USER" ELSE work[p].result
    BY <1>9 DEF BuildTopology, Work
  <2>2. QED BY <1>1, <1>2, <1>9, <2>1 DEF BuildTopology
<1>10. ASSUME NEW s \in {"BLOCKED", "WAITING_FOR_USER"}, HoldManifests(p, s) PROVE Keeps(p)
  <2>1. work'[p].result = s BY <1>10 DEF HoldManifests, Work
  <2>2. QED BY <1>1, <1>2, <1>10, <2>1 DEF HoldManifests
<1>11. CASE RenderManifests(p) BY <1>1, <1>2, <1>11 DEF RenderManifests
<1>12. ASSUME NEW s \in {"READY", "FAILED"}, ValidateManifests(p, s) PROVE Keeps(p)
  <2>1. work'[p].result = s BY <1>12 DEF ValidateManifests, Work
  <2>2. QED BY <1>1, <1>2, <1>12, <2>1 DEF ValidateManifests
<1>13. CASE SaveArtifacts(p) BY <1>1, <1>2, <1>13 DEF SaveArtifacts
<1>14. CASE Finish(p) BY <1>1, <1>2, <1>14 DEF Finish
<1>15. CASE PipelineRaises(p) BY <1>1, <1>2, <1>15 DEF PipelineRaises
<1>16. CASE RecordFailure(p) BY <1>1, <1>2, <1>16 DEF RecordFailure
<1>17. QED
  BY <1>3, <1>4, <1>5, <1>6, <1>7, <1>8, <1>9, <1>10, <1>11, <1>12, <1>13, <1>14, <1>15, <1>16
  DEF Orchestrator

\* Nothing fails while there is nothing left that may.
LEMMA NoFault ==
    ASSUME Orderly, NEW p \in Procs PROVE ~Crash(p) /\ ~Interrupt(p)
  BY DEF Orderly, FaultFree, Crash, Interrupt, Spend

LEMMA OrderlyAtStart ==
    ASSUME TypeOK, ~Concurrent, Orderly, NEW p \in Procs, NEW k \in Commands, Start(p, k)
    PROVE  Orderly'
<1>1. AllQuiet /\ run.state \in Settled BY DEF Start, Orderly
<1>2. StateAt(p)'
  BY <1>1, Declared
  DEF TypeOK, ControlTypes, record, StateAt, Start, Goto, Call, Leads, InPipeline,
      InTransition, Orderly
<1>3. ASSUME NEW q \in Procs \ {p} PROVE StateAt(q)'
  BY StartMoves DEF StateAt, Orderly, record
<1>4. FaultFree' /\ pc'[p] \in {"lock", "resume"}
  BY StartMoves DEF TypeOK, ControlTypes, Start, Goto, Call, FaultFree, Orderly, env
<1>5. ~AllQuiet' BY <1>4 DEF AllQuiet, Running, Ended
<1>6. pc'[Creator] = "idle" => run'.state = "ABSENT"
  BY <1>4, StartMoves, ProcsAssumption DEF Orderly, record
<1>7. ASSUME NEW q \in Procs \ {Creator}, pc'[q] # "idle" PROVE run'.state # "ABSENT"
  BY <1>7, StartMoves DEF Orderly, record, Start
<1>8. QED BY <1>2, <1>3, <1>4, <1>5, <1>6, <1>7, <1>1, StartMoves, AloneKept DEF Orderly, Next

LEMMA OrderlyInEnvironment ==
    ASSUME TypeOK, Orderly, Environment \/ UNCHANGED vars PROVE Orderly'
<1>1. UNCHANGED <<run, pc, frame, rec, work>> /\ FaultFree'
  BY NoFault
  DEF Environment, EditSource, UpgradeTools, Spend, vars, record, env, locals,
      TypeOK, EnvTypes, Faults, Orderly, FaultFree
<1>2. QED BY <1>1 DEF Orderly, StateAt, Alone, AllQuiet, Running

LEMMA OrderlyKept == ASSUME IInv, ~Concurrent, Orderly, [Next]_vars PROVE Orderly'
<1>1. ASSUME NEW p \in Procs, Step(p) PROVE Keeps(p)
  BY <1>1, OrderlyInTransition, OrderlyInApplication, OrderlyInOrchestrator DEF Step, IInv
<1>2. QED
  BY <1>1, OrderlyStep, OrderlyAtStart, OrderlyInEnvironment DEF Next, IInv

------------------------------------------------------------------------------
\* The files of an undisturbed run

Analyzed == \A a \in Artifacts : analysis[a] = source

\* The exception of RunLifecycle!ReadyManifestsMatchSource: a pinned resume
\* analyzed the drifted tree.
Exempt == \E p \in Procs : work[p].mode = "pinned" /\ work[p].seen # NoVersion

\* What a process that goes on to phase 1 has before it: what it may reuse is
\* of the recorded source, and what it will read is the recorded source.
Prepared(p) ==
    /\ generated = {}
    /\ work[p].mode # "pinned" => source = repo
    /\ work[p].mode # "fresh" => Analyzed

\* What a run leaves that has come to a state.
Leaves(state) ==
    /\ state = "READY" => generated = {source}
    /\ state = "WAITING_FOR_USER" => generated = {} /\ Analyzed

FilesAt(p) ==
    /\ pc[p] \in {"created", "acquire"} => generated = {}
    /\ pc[p] \in {"source", "replan"} => generated = {} /\ work[p].seen = repo
    /\ pc[p] \in {"resume", "drift"} => Leaves(run.state)
    /\ pc[p] \in {"load", "begin", "pipeline"} => Prepared(p)
    /\ pc[p] = "phase1" => generated = {} /\ work[p].seen = source
    /\ pc[p] = "rules" =>
          generated = {} /\ work[p].seen = source /\ analysis["evidence"] = source
    /\ pc[p] \in {"topology", "decide"} => generated = {} /\ Analyzed
    /\ pc[p] = "decide" => work[p].basis = {source}
    /\ pc[p] = "validate" => generated = {source}
    /\ pc[p] \in {"artifacts", "finish"} => Leaves(work[p].result)
    /\ pc[p] \in InTransition =>
          /\ frame[p].target \in {"CREATED", "ACQUIRING_SOURCE"} => generated = {}
          /\ frame[p].target = "ANALYZING" => Prepared(p)
          /\ Leaves(frame[p].target)

FilesFaithful ==
    /\ \A p \in Procs : FilesAt(p)
    /\ AllQuiet => Leaves(run.state)
    /\ run.state = "ABSENT" => generated = {}
    /\ run.state = "READY" => generated = {source}

\* What a command reuses it decides once, at the drift check.
FreshFirst ==
    \A p \in Procs :
        \/ pc[p] \in {"idle", "created", "acquire", "source", "resume", "drift", "replan"}
        \/ pc[p] \in InTransition /\ frame[p].ok \in {"created", "acquire"}
        => work[p].mode = "fresh"

Faithful == FreshFirst /\ (Exempt \/ FilesFaithful)

LEMMA FreshKept == ASSUME TypeOK, LockOwned, Orderly, FreshFirst, [Next]_vars PROVE FreshFirst'
<1> USE DEF TypeOK, ControlTypes, LocalTypes, record, files, env, locals, FreshFirst,
            InTransition, Goto, Call, Return
<1>1. ASSUME NEW p \in Procs, NEW k \in Commands, Start(p, k) PROVE FreshFirst'
  BY <1>1 DEF Start
<1>2. ASSUME NEW p \in Procs, Transition(p) PROVE FreshFirst'
  <2>1. CASE AcquireLock(p) BY <2>1 DEF AcquireLock
  <2>2. CASE CheckAllowed(p) BY <2>2 DEF CheckAllowed, Frame
  <2>3. CASE Save(p) BY <2>3 DEF Save
  <2>4. CASE AppendEvent(p) BY <2>4 DEF AppendEvent
  <2>5. CASE ReleaseLock(p)
    <3>1. frame[p].ok \in Continuations BY DEF Frame
    <3>2. QED BY <2>5, <3>1 DEF ReleaseLock, Continuations
  <2>6. QED BY <1>2, <2>1, <2>2, <2>3, <2>4, <2>5, NeverRefused DEF Transition
<1>3. ASSUME NEW p \in Procs, Application(p) PROVE FreshFirst'
  <2>1. CASE StartAcquiring(p) \/ AcquireFails(p) \/ SaveSource(p) \/ ResumeLoad(p)
    BY <2>1 DEF StartAcquiring, AcquireFails, SaveSource, ResumeLoad
  <2>2. CASE AcquireSource(p)
    <3>1. work'[p].mode = work[p].mode BY <2>2 DEF AcquireSource, Work
    <3>2. QED BY <2>2, <3>1 DEF AcquireSource
  <2>3. CASE ResumeWithoutSource(p) \/ ResumeStops(p) \/ SaveReplannedSource(p)
    BY <2>3 DEF ResumeWithoutSource, ResumeStops, SaveReplannedSource
  <2>4. CASE ResumeUnchanged(p) \/ ResumePinned(p)
    BY <2>4 DEF ResumeUnchanged, ResumePinned
  <2>5. CASE ResumeReplan(p)
    <3>1. work'[p].mode = "fresh" BY <2>5 DEF ResumeReplan, Work
    <3>2. QED BY <2>5, <3>1 DEF ResumeReplan
  <2>6. QED BY <1>3, <2>1, <2>2, <2>3, <2>4, <2>5 DEF Application
<1>4. ASSUME NEW p \in Procs, Orchestrator(p) PROVE FreshFirst'
  <2>1. CASE LoadRun(p) \/ BeginAnalyzing(p) \/ ReusePhase1(p) \/ RunPhase1(p)
    BY <2>1 DEF LoadRun, BeginAnalyzing, ReusePhase1, RunPhase1
  <2>2. CASE WriteEvidence(p) \/ WriteRules(p) \/ BuildTopology(p) \/ RenderManifests(p)
    BY <2>2 DEF WriteEvidence, WriteRules, BuildTopology, RenderManifests
  <2>3. CASE \/ \E s \in {"BLOCKED", "WAITING_FOR_USER"} : HoldManifests(p, s)
             \/ \E s \in {"READY", "FAILED"} : ValidateManifests(p, s)
    BY <2>3 DEF HoldManifests, ValidateManifests
  <2>4. CASE SaveArtifacts(p) \/ PipelineRaises(p) \/ RecordFailure(p) \/ Finish(p)
    BY <2>4 DEF SaveArtifacts, PipelineRaises, RecordFailure, Finish
  <2>5. QED BY <1>4, <2>1, <2>2, <2>3, <2>4 DEF Orchestrator
<1>5. ASSUME Environment \/ UNCHANGED vars PROVE FreshFirst'
  BY <1>5, NoFault DEF Environment, EditSource, UpgradeTools, vars
<1>6. QED BY <1>1, <1>2, <1>3, <1>4, <1>5 DEF Next, Step

\* The exception lasts.
LEMMA ExemptStays ==
    ASSUME TypeOK, Orderly, FreshFirst, Exempt, [Next]_vars PROVE Exempt'
<1> PICK p \in Procs : work[p].mode = "pinned" /\ work[p].seen # NoVersion
  BY DEF Exempt
<1> USE VersionsAssumption
    DEF TypeOK, ControlTypes, LocalTypes, EnvTypes, record, files, env, locals, FreshFirst
<1>1. ASSUME NEW q \in Procs, q # p, Step(q) PROVE work'[p] = work[p]
  BY <1>1, StepMoves DEF Moves
<1>2. ASSUME Application(p) PROVE work'[p] = work[p]
  BY <1>2
  DEF Application, StartAcquiring, AcquireSource, AcquireFails, SaveSource, ResumeLoad,
      ResumeWithoutSource, ResumeUnchanged, ResumeStops, ResumePinned, ResumeReplan,
      SaveReplannedSource
<1>3. ASSUME Orchestrator(p) PROVE work'[p].mode = "pinned" /\ work'[p].seen # NoVersion
  <2>1. CASE BuildTopology(p) BY <2>1 DEF BuildTopology, Work
  <2>2. CASE RunPhase1(p) BY <2>2 DEF RunPhase1, Work
  <2>3. CASE \/ \E s \in {"BLOCKED", "WAITING_FOR_USER"} : HoldManifests(p, s)
             \/ \E s \in {"READY", "FAILED"} : ValidateManifests(p, s)
    BY <2>3 DEF HoldManifests, ValidateManifests, Work
  <2>4. QED
    BY <1>3, <2>1, <2>2, <2>3
    DEF Orchestrator, LoadRun, BeginAnalyzing, ReusePhase1, WriteEvidence, WriteRules,
        RenderManifests, SaveArtifacts, Finish, PipelineRaises, RecordFailure
<1>4. ASSUME Transition(p) PROVE work'[p] = work[p]
  BY <1>4 DEF Transition, AcquireLock, LockContended, CheckAllowed, CheckRefused, Save,
              AppendEvent, ReleaseLock
<1>5. ASSUME \/ \E q \in Procs, k \in Commands : Start(q, k)
             \/ Environment \/ UNCHANGED vars
      PROVE  work'[p] = work[p]
  BY <1>5, StartMoves, NoFault DEF Environment, EditSource, UpgradeTools, vars
<1>6. QED BY <1>1, <1>2, <1>3, <1>4, <1>5 DEF Next, Step, Exempt

\* What a step of the one process that runs has to keep of the files.
KeepsFiles(p) ==
    /\ FilesAt(p)'
    /\ pc'[p] \in {"returned", "raised"} => Leaves(run.state)'
    /\ run' = run \/ (UNCHANGED <<source, analysis, generated>> /\ Leaves(run.state)')
    /\ \/ UNCHANGED <<source, generated>>
       \/ run' = run /\ run.state \in {"ACQUIRING_SOURCE", "WAITING_FOR_USER", "ANALYZING"}

LEMMA FilesStep ==
    ASSUME Orderly, FilesFaithful, NEW p \in Procs, Keeps(p), KeepsFiles(p)
    PROVE  FilesFaithful'
<1> USE DEF Keeps, KeepsFiles, Moves, FilesFaithful
<1>1. \A q \in Procs \ {p} : pc'[q] = pc[q] /\ pc[q] \in Ended \cup {"idle"}
  BY DEF Alone, Running, Orderly
<1>2. ASSUME NEW q \in Procs PROVE FilesAt(q)'
  BY <1>1 DEF FilesAt, Ended, InTransition
<1>3. AllQuiet' => Leaves(run.state)'
  BY DEF AllQuiet, Running, Ended
<1>4. (run.state = "ABSENT" => generated = {})'
  BY DEF RunState
<1>5. (run.state = "READY" => generated = {source})'
  BY DEF Leaves
<1>6. QED BY <1>2, <1>3, <1>4, <1>5

LEMMA FilesInTransition ==
    ASSUME TypeOK, LockOwned, RecordKnown, Orderly, FilesFaithful,
           NEW p \in Procs, Transition(p)
    PROVE  KeepsFiles(p)
<1>1. StateAt(p) /\ FilesAt(p) BY DEF Orderly, FilesFaithful
<1> USE DEF TypeOK, ControlTypes, record, files, env, locals, StateAt, FilesAt, Prepared,
            Leaves, Analyzed, InTransition, Goto, Return, KeepsFiles
<1>2. CASE AcquireLock(p) BY <1>1, <1>2 DEF AcquireLock
<1>3. CASE CheckAllowed(p)
  <2>1. frame'[p].target = frame[p].target BY <1>3 DEF CheckAllowed, Frame
  <2>2. QED BY <1>1, <1>3, <2>1 DEF CheckAllowed
<1>4. CASE Save(p) BY <1>1, <1>4 DEF Save
<1>5. CASE AppendEvent(p) BY <1>1, <1>5 DEF AppendEvent
<1>6. CASE ReleaseLock(p)
  <2>1. frame[p].ok \in Continuations BY DEF Frame
  <2>2. QED BY <1>1, <1>6, <2>1 DEF ReleaseLock, Leads, Continuations
<1>7. QED BY <1>2, <1>3, <1>4, <1>5, <1>6, NeverRefused DEF Transition

LEMMA FilesInApplication ==
    ASSUME TypeOK, Orderly, FreshFirst, FilesFaithful, NEW p \in Procs, Application(p)
    PROVE  KeepsFiles(p)
<1>1. StateAt(p) /\ FilesAt(p) BY DEF Orderly, FilesFaithful
<1>2. pc[p] \in {"source", "drift", "replan"} => work[p].mode = "fresh" BY DEF FreshFirst
<1> USE DEF TypeOK, ControlTypes, LocalTypes, record, files, env, locals, StateAt, FilesAt,
            Prepared, Leaves, Analyzed, InTransition, Goto, Call, KeepsFiles
<1>3. CASE StartAcquiring(p) BY <1>1, <1>3 DEF StartAcquiring
<1>4. CASE AcquireSource(p)
  <2>1. work'[p].seen = repo BY <1>4 DEF AcquireSource, Work
  <2>2. QED BY <1>1, <1>4, <2>1 DEF AcquireSource
<1>5. CASE AcquireFails(p) BY <1>1, <1>5 DEF AcquireFails
<1>6. CASE SaveSource(p) BY <1>1, <1>2, <1>6 DEF SaveSource
<1>7. CASE ResumeLoad(p) BY <1>1, <1>7 DEF ResumeLoad
<1>8. CASE ResumeWithoutSource(p) BY <1>1, <1>8 DEF ResumeWithoutSource
<1>9. CASE ResumeUnchanged(p)
  <2>1. source = repo BY <1>9 DEF ResumeUnchanged, Drifted
  <2>2. QED BY <1>1, <1>9, <2>1 DEF ResumeUnchanged
<1>10. CASE ResumeStops(p) BY <1>1, <1>10 DEF ResumeStops
<1>11. CASE ResumePinned(p)
  <2>1. work'[p].mode = "pinned" BY <1>11 DEF ResumePinned, Work
  <2>2. QED BY <1>1, <1>11, <2>1 DEF ResumePinned
<1>12. CASE ResumeReplan(p)
  <2>1. work'[p].seen = repo BY <1>12 DEF ResumeReplan, Work
  <2>2. QED BY <1>1, <1>12, <2>1 DEF ResumeReplan
<1>13. CASE SaveReplannedSource(p) BY <1>1, <1>2, <1>13 DEF SaveReplannedSource
<1>14. QED
  BY <1>3, <1>4, <1>5, <1>6, <1>7, <1>8, <1>9, <1>10, <1>11, <1>12, <1>13 DEF Application

LEMMA FilesInOrchestrator ==
    ASSUME TypeOK, Orderly, FilesFaithful, ~Exempt', NEW p \in Procs, Orchestrator(p)
    PROVE  KeepsFiles(p)
<1>1. StateAt(p) /\ FilesAt(p) BY DEF Orderly, FilesFaithful
<1> USE DEF TypeOK, FileTypes, ControlTypes, LocalTypes, record, files, env, locals, StateAt,
            FilesAt, Prepared, Leaves, InTransition, InPipeline, Goto, Call, KeepsFiles
<1>2. CASE LoadRun(p) BY <1>1, <1>2 DEF LoadRun, Analyzed, TERMINAL_STATES
<1>3. CASE BeginAnalyzing(p) BY <1>1, <1>3 DEF BeginAnalyzing, Analyzed
<1>4. CASE ReusePhase1(p) BY <1>1, <1>4 DEF ReusePhase1, Analyzed
<1>5. CASE RunPhase1(p)
  <2>1. work'[p].seen = repo /\ work'[p].mode = work[p].mode /\ repo # NoVersion
    BY <1>5, VersionsAssumption DEF RunPhase1, Work, EnvTypes
  <2>2. work[p].mode # "pinned" BY <2>1 DEF Exempt
  <2>3. QED BY <1>1, <1>5, <2>1, <2>2 DEF RunPhase1
<1>6. CASE WriteEvidence(p)
  <2>1. analysis'["evidence"] = work[p].seen BY <1>6 DEF WriteEvidence, Artifacts
  <2>2. QED BY <1>1, <1>6, <2>1 DEF WriteEvidence
<1>7. CASE WriteRules(p)
  <2>1. \A a \in Artifacts : analysis'[a] = source
    BY <1>1, <1>7 DEF WriteRules, Artifacts
  <2>2. QED BY <1>1, <1>7, <2>1 DEF WriteRules, Analyzed
<1>8. CASE BuildTopology(p)
  <2>1. {analysis[a] : a \in Artifacts} = {source}
    BY <1>1, <1>8 DEF BuildTopology, Analyzed, Artifacts
  <2>2. /\ work'[p].basis = {source}
        /\ kind[p] = "analyze" => work'[p].result = "WAITING_FOR_USER"
    BY <1>8, <2>1 DEF BuildTopology, Work
  <2>3. QED BY <1>1, <1>8, <2>2 DEF BuildTopology, Analyzed
<1>9. ASSUME NEW s \in {"BLOCKED", "WAITING_FOR_USER"}, HoldManifests(p, s)
      PROVE  KeepsFiles(p)
  <2>1. work'[p].result = s BY <1>9 DEF HoldManifests, Work
  <2>2. QED BY <1>1, <1>9, <2>1 DEF HoldManifests, Analyzed
<1>10. CASE RenderManifests(p)
  <2>1. generated' = {source} BY <1>1, <1>10 DEF RenderManifests
  <2>2. QED BY <1>1, <1>10, <2>1 DEF RenderManifests
<1>11. ASSUME NEW s \in {"READY", "FAILED"}, ValidateManifests(p, s)
       PROVE  KeepsFiles(p)
  <2>1. work'[p].result = s BY <1>11 DEF ValidateManifests, Work
  <2>2. QED BY <1>1, <1>11, <2>1 DEF ValidateManifests
<1>12. CASE SaveArtifacts(p) BY <1>1, <1>12 DEF SaveArtifacts, Analyzed
<1>13. CASE Finish(p) BY <1>1, <1>13 DEF Finish, Analyzed
<1>14. CASE PipelineRaises(p) BY <1>1, <1>14 DEF PipelineRaises
<1>15. CASE RecordFailure(p) BY <1>1, <1>15 DEF RecordFailure
<1>16. QED
  BY <1>2, <1>3, <1>4, <1>5, <1>6, <1>7, <1>8, <1>9, <1>10, <1>11, <1>12, <1>13, <1>14, <1>15
  DEF Orchestrator

LEMMA FilesAtStart ==
    ASSUME TypeOK, ~Concurrent, Orderly, FilesFaithful, NEW p \in Procs, NEW k \in Commands,
           Start(p, k)
    PROVE  FilesFaithful'
<1>1. AllQuiet /\ Leaves(run.state) BY DEF Start, FilesFaithful
<1>2. p = Creator => generated = {} BY StartMoves DEF Orderly, FilesFaithful
<1>3. FilesAt(p)'
  BY <1>1, <1>2
  DEF TypeOK, ControlTypes, record, files, env, FilesAt, Leaves, Analyzed, Start, Goto, Call,
      InTransition
<1>4. ASSUME NEW q \in Procs \ {p} PROVE FilesAt(q)'
  BY <1>1, StartMoves DEF AllQuiet, Running, Ended, FilesAt, InTransition
<1>5. QED
  BY <1>1, <1>3, <1>4, StartMoves DEF FilesFaithful, record, files, Leaves, Analyzed

LEMMA FilesInEnvironment ==
    ASSUME TypeOK, Undisturbed, Orderly, FilesFaithful, Environment \/ UNCHANGED vars
    PROVE  FilesFaithful'
<1>1. CASE UNCHANGED vars
  BY <1>1
  DEF vars, record, files, env, locals, FilesFaithful, FilesAt, Prepared, Leaves, Analyzed,
      AllQuiet, Running
<1>2. CASE Environment
  <2>1. UNCHANGED <<run, source, analysis, generated, pc>>
    BY <1>2, NoFault DEF Environment, EditSource, UpgradeTools, record, files
  <2>2. AllQuiet BY <1>2, NoFault DEF Environment, EditSource, UpgradeTools, Undisturbed
  <2>3. \A q \in Procs : FilesAt(q)'
    BY <2>1, <2>2 DEF AllQuiet, Running, Ended, FilesAt, InTransition
  <2>4. QED BY <2>1, <2>2, <2>3 DEF FilesFaithful, Leaves, Analyzed
<1>3. QED BY <1>1, <1>2

LEMMA FaithfulKept ==
    ASSUME IInv, Undisturbed, Orderly, Faithful, [Next]_vars PROVE Faithful'
<1> USE DEF IInv, Faithful
<1>1. FreshFirst' BY FreshKept
<1>2. CASE Exempt BY <1>1, <1>2, ExemptStays
<1>3. CASE ~Exempt /\ ~Exempt'
  <2>1. FilesFaithful BY <1>3
  <2>2. ASSUME NEW p \in Procs, Step(p) PROVE FilesFaithful'
    <3>1. Keeps(p)
      BY <2>2, OrderlyInTransition, OrderlyInApplication, OrderlyInOrchestrator DEF Step
    <3>2. KeepsFiles(p)
      BY <1>3, <2>1, <2>2, FilesInTransition, FilesInApplication, FilesInOrchestrator DEF Step
    <3>3. QED BY <2>1, <3>1, <3>2, FilesStep
  <2>3. QED BY <1>1, <2>1, <2>2, FilesAtStart, FilesInEnvironment DEF Next, Undisturbed
<1>4. QED BY <1>1, <1>2, <1>3

\* What RunLifecycle!ReadyManifestsMatchSource says of a run: its manifests are
\* of one analysis of the recorded source, over any number of edits, upgrades,
\* replans and pinned resumes, if nothing overlaps, edits, kills or interrupts a
\* command (the run `stale` shows what one death does).
THEOREM ReadyMatchesSource ==
    ASSUME Undisturbed PROVE Spec => []ReadyManifestsMatchSource
<1>1. Init => Orderly
  BY ProcsAssumption
  DEF Init, Undisturbed, Orderly, FaultFree, Faults, Alone, Running, StateAt, InPipeline,
      InTransition, Settled, NoRun
<1>2. Init => Faithful
  BY DEF Init, Faithful, FreshFirst, FilesFaithful, FilesAt, InTransition, Leaves, NoRun
<1>3. IInv /\ Orderly /\ Faithful /\ [Next]_vars => Orderly' /\ Faithful'
  BY OrderlyKept, FaithfulKept DEF Undisturbed
<1>4. Faithful => ReadyManifestsMatchSource
  BY DEF Faithful, Exempt, FilesFaithful, ReadyManifestsMatchSource
<1>5. QED BY <1>1, <1>2, <1>3, <1>4, Invariance, PTL DEF Spec

=================================================================================
