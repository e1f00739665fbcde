------------------------------ MODULE MCDaemon ------------------------------
(***************************************************************************)
(* Instances of Daemon for TLC.  Job identifiers and daemons are model     *)
(* values; the project of a job is one of the definitions below.           *)
(***************************************************************************)
EXTENDS DaemonInv, TLC

CONSTANTS j1, j2, j3, p1, p2

(* Two jobs that compete for one project.                                  *)
TwoJobs == {j1, j2}
OneProject == {p1}
SharedProject == [j \in Jobs |-> p1]

TwoProjects == {p1, p2}

(* A recurring job and its successor in one project, a plain job in        *)
(* another.                                                                *)
ThreeJobs == {j1, j2, j3}
MixedProjects == [j \in Jobs |-> IF j = j3 THEN p2 ELSE p1]
RecurringPair == {j1, j2}

NoJobs == {}

DaemonSymmetry == Permutations(Daemons)
SharedSymmetry == Permutations(Jobs) \cup Permutations(Daemons)
=============================================================================
