------------------------------ MODULE Redirects ------------------------------
(***************************************************************************)
(* Publishing the w3id.org redirect of the identifier base                 *)
(* (metadata/pid/github.py, run by `fdp pid w3id-pr`): fork, branch, two   *)
(* files, pull request, one call of the GitHub API after the other.        *)
(* GitHub, where every call may fail and maintainers merge, is external.   *)
(***************************************************************************)
EXTENDS Naturals, FiniteSets

CONSTANTS
  Runs,        \* invocations that may overlap
  Targets,     \* serving origins: a deployment moves
  MaxRuns, MaxFaults,   \* bounds: invocations, failing calls
  Nil

Files == {".htaccess", "README.md"}
Contents == [Files -> Targets \cup {Nil}]
Naming(target) == [f \in Files |-> target]

\* What the constants must satisfy; the module that makes the instance assumes it.
RedirectsAssumption == Nil \notin Targets /\ MaxRuns \in Nat /\ MaxFaults \in Nat

VARIABLES
  upstream,  \* the files of the prefix on w3id.org's default branch
  fork,      \* the fork exists
  branch,    \* the files of the prefix on the fork's branch, or Nil: no branch
  pull,      \* the branch has an open pull request
  run,       \* what each invocation has still to do
  begun, faults,
  told       \* history: the target whose publication was reported, undisturbed since

vars == <<upstream, fork, branch, pull, run, begun, faults, told>>

Idle == [pc |-> "idle", target |-> Nil, base |-> Naming(Nil), left |-> {}, blob |-> Nil,
         alone |-> FALSE]

Goto(p, to) == run' = [run EXCEPT ![p].pc = to]
Others(p) == {q \in Runs \ {p} : run[q] # Idle}

\* publish starts; an invocation that overlaps with another may undo its work.
Begin(p) ==
  /\ run[p] = Idle /\ begun < MaxRuns /\ begun' = begun + 1
  /\ \E t \in Targets :
       run' = [q \in Runs |-> IF q = p THEN [Idle EXCEPT !.pc = "fork", !.target = t, !.left = Files,
                                                         !.alone = Others(p) = {}]
                              ELSE [run[q] EXCEPT !.alone = FALSE]]
  /\ UNCHANGED <<upstream, fork, branch, pull, faults, told>>

\* _ok: a call that GitHub answers with an error ends the run.
Fails(p) ==
  /\ run[p] # Idle /\ faults < MaxFaults /\ faults' = faults + 1
  /\ run' = [run EXCEPT ![p] = Idle]
  /\ UNCHANGED <<upstream, fork, branch, pull, begun, told>>

\* _ensure_fork.
EnsureFork(p) ==
  /\ run[p].pc = "fork" /\ fork' = TRUE /\ Goto(p, "base")
  /\ UNCHANGED <<upstream, branch, pull, begun, faults, told>>

\* _upstream_base.
ReadBase(p) ==
  /\ run[p].pc = "base"
  /\ run' = [run EXCEPT ![p].pc = "sync", ![p].base = upstream]
  /\ UNCHANGED <<upstream, fork, branch, pull, begun, faults, told>>

\* _sync_branch: the branch is made, or forced back, to the base; GitHub may close a
\* pull request that is left without a commit.
SyncBranch(p) ==
  /\ run[p].pc = "sync" /\ branch' = run[p].base /\ told' = Nil
  /\ pull' \in {pull, FALSE}
  /\ Goto(p, "file")
  /\ UNCHANGED <<upstream, fork, begun, faults>>

NextFile(p) == CHOOSE f \in run[p].left : f = ".htaccess" \/ ".htaccess" \notin run[p].left

\* A variant of ReadBlob that takes a file for published once it is there.
ReadBlobMissing(p) ==
  /\ run[p].pc = "file"
  /\ IF run[p].left = {} THEN Goto(p, "pull")
     ELSE LET f == NextFile(p) IN
          run' = [run EXCEPT ![p].pc = IF branch[f] = Nil THEN f ELSE "file",
                             ![p].blob = branch[f], ![p].left = @ \ {f}]
  /\ UNCHANGED <<upstream, fork, branch, pull, begun, faults, told>>

\* _put_file: the blob that is there ...
ReadBlob(p) ==
  /\ run[p].pc = "file"
  /\ IF run[p].left = {} THEN Goto(p, "pull")
     ELSE LET f == NextFile(p) IN
          run' = [run EXCEPT ![p].pc = f, ![p].blob = branch[f], ![p].left = @ \ {f}]
  /\ UNCHANGED <<upstream, fork, branch, pull, begun, faults, told>>

\* ... is replaced; GitHub refuses when it is another by now.
PutFile(p, f) ==
  /\ run[p].pc = f
  /\ IF branch[f] = run[p].blob
     THEN branch' = [branch EXCEPT ![f] = run[p].target] /\ Goto(p, "file")
     ELSE run' = [run EXCEPT ![p] = Idle] /\ UNCHANGED branch
  /\ UNCHANGED <<upstream, fork, pull, begun, faults, told>>

\* The run reports the pull request.
Reports(p) ==
  /\ told' = IF run[p].alone THEN run[p].target ELSE told
  /\ run' = [run EXCEPT ![p] = Idle]

\* _ensure_pull_request finds an open one ...
FindPull(p) ==
  /\ run[p].pc = "pull"
  /\ IF pull THEN Reports(p) ELSE Goto(p, "create") /\ UNCHANGED told
  /\ UNCHANGED <<upstream, fork, branch, pull, begun, faults>>

\* ... or opens one; GitHub refuses a second, and one without changes.
CreatePull(p) ==
  /\ run[p].pc = "create"
  /\ IF ~pull /\ branch # upstream THEN pull' = TRUE /\ Reports(p)
     ELSE run' = [run EXCEPT ![p] = Idle] /\ UNCHANGED <<pull, told>>
  /\ UNCHANGED <<upstream, fork, branch, begun, faults>>

\* Maintainers merge what the branch holds at the time.
Merge ==
  /\ pull /\ pull' = FALSE /\ upstream' = branch
  /\ UNCHANGED <<fork, branch, run, begun, faults, told>>

-----------------------------------------------------------------------------
Init ==
  /\ upstream = Naming(Nil) /\ fork \in BOOLEAN /\ branch = Nil /\ pull = FALSE
  /\ run = [p \in Runs |-> Idle] /\ begun = 0 /\ faults = 0 /\ told = Nil

Next ==
  \/ \E p \in Runs : \/ Begin(p) \/ Fails(p) \/ EnsureFork(p) \/ ReadBase(p) \/ SyncBranch(p)
                     \/ ReadBlob(p) \/ FindPull(p) \/ CreatePull(p)
  \/ \E p \in Runs, f \in Files : PutFile(p, f)
  \/ Merge

Spec == Init /\ [][Next]_vars

-----------------------------------------------------------------------------
\* A publication that is reported by a run no other overlapped with is there, whole,
\* in an open pull request or merged, until another run starts the branch anew:
\* after failing calls, and merges in the middle of a run, as well.
RedirectPublished ==
  told # Nil => \/ pull /\ branch = Naming(told)
                \/ upstream = Naming(told)
=============================================================================
