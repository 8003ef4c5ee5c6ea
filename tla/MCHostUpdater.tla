---------------------------- MODULE MCHostUpdater ----------------------------
(***************************************************************************)
(* Instances of HostUpdater: three releases of each component; the last    *)
(* server release migrates the database and client release 2 needs server  *)
(* release 2.  GitHub has withdrawn client release 3 (manual steps now).   *)
(***************************************************************************)
EXTENDS HostUpdater

Plain == [manual |-> FALSE, minFrom |-> 1, requiresServer |-> 1]

MCCached == [c \in Components |-> [v \in Versions |->
  IF c = "client" /\ v = 2 THEN [Plain EXCEPT !.requiresServer = 2] ELSE Plain]]

MCGitHub == [MCCached EXCEPT !["client"][MaxVersion].manual = TRUE]

LastMigrates == [v \in Versions |-> IF v = MaxVersion THEN 2 ELSE 1]
=============================================================================
