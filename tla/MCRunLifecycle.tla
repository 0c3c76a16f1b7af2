---------------------------- MODULE MCRunLifecycle ----------------------------
(***************************************************************************)
(* RunLifecycle on small instances.  The creator and the resume processes  *)
(* are model values; a source version is a number.                         *)
(***************************************************************************)
EXTENDS RunLifecycle

CONSTANTS creator, resumeA, resumeB, nobody

MCTwoProcs   == {creator, resumeA}
MCThreeProcs == {creator, resumeA, resumeB}
MCCommands == {"prepare", "resume"}
MCReplanCommands == {"prepare", "resume", "replan"}
MCAllCommands == Creating \cup Resuming
MCOneVersion == {1}
MCTwoVersions == {1, 2}
MCNoVersion == 0
==============================================================================
