---------------------------- MODULE ProgramContract ----------------------------
(***************************************************************************)
(* What the print command promises, without its stages: it reads versions  *)
(* of the file or cluster as long as it has to, and its outcome is one     *)
(* that the command line and these versions allow, whatever happens to the *)
(* file or cluster meanwhile.                                              *)
(***************************************************************************)
EXTENDS Sequences

CONSTANTS
  Configs,           \* the command lines
  FileVersions,      \* what can be in the file
  ClusterVersions,   \* what can be in the cluster
  ReadsOn(_, _),     \* whether a command that has read these versions reads on
  Outcomes(_, _)     \* the outcomes of a command that has read these versions

VARIABLES config, world, seen, outcome

Source == IF config.file THEN FileVersions ELSE ClusterVersions

Init == config \in Configs /\ world \in Source /\ seen = <<>> /\ outcome = <<>>

\* A version that cannot be read ends the command.
ReadWorld ==
  /\ outcome = <<>> /\ ReadsOn(config, seen)
  /\ seen' = Append(seen, world)
  /\ outcome' \in IF world.readable THEN {<<>>} ELSE Outcomes(config, seen')
  /\ UNCHANGED <<config, world>>

End ==
  /\ outcome = <<>> /\ ~ReadsOn(config, seen)
  /\ outcome' \in Outcomes(config, seen)
  /\ UNCHANGED <<config, world, seen>>

Change == world' \in Source /\ UNCHANGED <<config, seen, outcome>>

Spec == Init /\ [][ReadWorld \/ End \/ Change]_<<config, world, seen, outcome>>
===============================================================================
