---------------------------- MODULE ReleaseCheck ----------------------------
(***************************************************************************)
(* The release check (updates.py): the loop of each server and the checks  *)
(* administrators force, against the one row of release_check that the     *)
(* servers share and the releases the project publishes on GitHub.  The    *)
(* checks of one server exclude each other; those of two servers do not.   *)
(*                                                                         *)
(* Releases are numbered as they appear, so a list of releases and its     *)
(* ETag are both a number; what is read of each release is left out.  One  *)
(* component stands for server and client: each has a part of the row of   *)
(* its own.  The switch updates.check is read through a cached reader: see *)
(* RuntimeSettings.                                                        *)
(***************************************************************************)
EXTENDS Naturals, FiniteSets

CONSTANTS
  Servers,
  Tasks,        \* of each server: its loop, and the checks administrators force
  MaxReleases,  \* bound: releases that are published
  MaxTurns,     \* bound: changes of the switch
  MaxRaises,    \* bound: calls of the database that raise
  Nil

\* What the constants must satisfy; the module that makes the instance assumes it.
ReleaseAssumption ==
  /\ Tasks \subseteq {"loop", "forced"} \X Servers
  /\ MaxReleases \in Nat /\ MaxTurns \in Nat /\ MaxRaises \in Nat /\ Nil \notin Nat

VARIABLES
  published,   \* releases on GitHub
  switch,      \* updates.check
  lately,      \* what a reader may return of it
  checked,     \* release_check.checked_at: never, within the interval, or before it
  cache,       \* its payload: the ETag and the releases
  task,        \* the checks at work, with the payload each has loaded
  asked,       \* servers that forced a check less than a minute ago
  turns, raises

row  == <<checked, cache>>
vars == <<published, switch, lately, row, task, asked, turns, raises>>

None == [etag |-> Nil, known |-> 0]
Rest == [pc |-> "rest", cache |-> None]

At(t, pc)   == task[t].pc = pc
Go(t, pc)   == task' = [task EXCEPT ![t].pc = pc]
Locked(s)   == \E t \in Tasks : t[2] = s /\ task[t].pc \in {"fetch", "save"}

-----------------------------------------------------------------------------
(* GitHub, administrators and the clock.                                   *)

Publish ==
  /\ published < MaxReleases /\ published' = published + 1
  /\ UNCHANGED <<switch, lately, row, task, asked, turns, raises>>

Turn ==
  /\ turns < MaxTurns /\ turns' = turns + 1
  /\ switch' = ~switch /\ lately' = lately \cup {~switch}
  /\ UNCHANGED <<published, row, task, asked, raises>>

\* The copies of the switch expire.
CopiesExpire ==
  /\ lately # {switch} /\ lately' = {switch}
  /\ UNCHANGED <<published, switch, row, task, asked, turns, raises>>

\* check_interval_hours pass; a minute passes.
IntervalPasses ==
  /\ checked = "lately" /\ checked' = "before"
  /\ UNCHANGED <<published, switch, lately, cache, task, asked, turns, raises>>

MinutePasses ==
  /\ asked # {} /\ asked' = {}
  /\ UNCHANGED <<published, switch, lately, row, task, turns, raises>>

-----------------------------------------------------------------------------
(* UpdateChecker.                                                          *)

\* check_if_due: the switch ...
Begin(t) ==
  /\ t[1] = "loop" /\ At(t, "rest") /\ TRUE \in lately
  /\ Go(t, "due")
  /\ UNCHANGED <<published, switch, lately, row, asked, turns, raises>>

\* ... then whether the last check is older than the interval.
Due(t) ==
  /\ At(t, "due")
  /\ Go(t, IF checked = "lately" THEN "rest" ELSE "lock")
  /\ UNCHANGED <<published, switch, lately, row, asked, turns, raises>>

\* check_now: at most one a minute, noted before it is made.
Force(t) ==
  /\ t[1] = "forced" /\ At(t, "rest") /\ TRUE \in lately /\ t[2] \notin asked
  /\ asked' = asked \cup {t[2]}
  /\ Go(t, "lock")
  /\ UNCHANGED <<published, switch, lately, row, turns, raises>>

\* The lock, and the row as it is then.
Load(t) ==
  /\ At(t, "lock") /\ ~Locked(t[2])
  /\ task' = [task EXCEPT ![t] = [pc |-> "fetch", cache |-> cache]]
  /\ UNCHANGED <<published, switch, lately, row, asked, turns, raises>>

\* GitHubReleaseSource.fetch when GitHub answers: nothing new, or the list.
Answer(old) == IF old.etag = published THEN old ELSE [etag |-> published, known |-> published]

Fetch(t) ==
  /\ At(t, "fetch")
  /\ task' = [task EXCEPT ![t] = [pc |-> "save", cache |-> Answer(@.cache)]]
  /\ UNCHANGED <<published, switch, lately, row, asked, turns, raises>>

\* A variant of FetchFails that keeps the ETag of an answer it cannot read.
FetchFailsKnowing(t) ==
  /\ At(t, "fetch")
  /\ task' = [task EXCEPT ![t].pc = "save", ![t].cache.etag = published]
  /\ UNCHANGED <<published, switch, lately, row, asked, turns, raises>>

\* It does not answer, or not with a list: the error is saved with what is known.
FetchFails(t) ==
  /\ At(t, "fetch")
  /\ Go(t, "save")
  /\ UNCHANGED <<published, switch, lately, row, asked, turns, raises>>

Save(t) ==
  /\ At(t, "save")
  /\ checked' = "lately" /\ cache' = task[t].cache
  /\ task' = [task EXCEPT ![t] = Rest]
  /\ UNCHANGED <<published, switch, lately, asked, turns, raises>>

\* A call of the database raises: the lock is released, the loop goes on.
Raises(t) ==
  /\ task[t].pc \in {"due", "lock", "save"} /\ raises < MaxRaises /\ raises' = raises + 1
  /\ task' = [task EXCEPT ![t] = Rest]
  /\ UNCHANGED <<published, switch, lately, row, asked, turns>>

-----------------------------------------------------------------------------
Init ==
  /\ published = 0 /\ switch \in BOOLEAN /\ lately = {switch}
  /\ checked = "never" /\ cache = None
  /\ task = [t \in Tasks |-> Rest] /\ asked = {} /\ turns = 0 /\ raises = 0

Step(t) == Due(t) \/ Load(t) \/ Fetch(t) \/ FetchFails(t) \/ Save(t)

Next ==
  \/ Publish \/ Turn \/ CopiesExpire \/ IntervalPasses \/ MinutePasses
  \/ \E t \in Tasks : Begin(t) \/ Force(t) \/ Step(t) \/ Raises(t)

Spec == Init /\ [][Next]_vars

\* The loops run, every check goes on, time passes, and again and again GitHub answers.
Fairness ==
  /\ WF_vars(CopiesExpire) /\ WF_vars(IntervalPasses)
  /\ \A t \in Tasks : WF_vars(Begin(t)) /\ WF_vars(Step(t)) /\ SF_vars(Load(t)) /\ SF_vars(Fetch(t))

-----------------------------------------------------------------------------
(* Properties.                                                             *)

\* While the check stays switched on, the row lists all that is published again and again,
\* whatever checks fail, raise, or save over each other's.
ReleasesNoticed == <>[]switch => []<>(cache.known = published)
=============================================================================
