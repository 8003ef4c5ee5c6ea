----------------------------- MODULE MCServices -----------------------------
(***************************************************************************)
(* Parts that share nothing, of which a behaviour takes one, so that one   *)
(* run asks of all what comes of them when things overlap: the requests on *)
(* records (the instance MCLdpService), the decisions (AuthzIndex), the    *)
(* release check, the index announcements and the labels.  The fairness of *)
(* a part stands in its property: a behaviour of another part says nothing *)
(* of it.                                                                  *)
(***************************************************************************)
EXTENDS MCLdpService

VARIABLES
  part,
  link, offer, mode, index, flag, pc, task, ctx, todo, item, at, path, pol, verdict, pend,
  writer, allowed, invented, raced, mixed, outdated, writes,                 \* decisions
  published, switch, lately, checked, cache, check, asked, turns, raises,    \* releases
  rows, status, quiet, ping, due, changes, misses,                           \* announcements
  has, scope, hot, inline, durable, inflight, fetch, look, edits, failures   \* labels

decisions == <<link, offer, mode, index, flag, pc, task, ctx, todo, item, at, path, pol, verdict,
               pend, writer, allowed, invented, raced, mixed, outdated, writes>>
releases      == <<published, switch, lately, checked, cache, check, asked, turns, raises>>
announcements == <<rows, status, quiet, ping, due, changes, misses>>
labels        == <<has, scope, hot, inline, durable, inflight, fetch, look, edits, failures>>

Both == {"s1", "s2"}
Pair == {"catalog", "dataset"}

\* The dataset is part of the catalog, neither has rights of its own, and an edit makes the
\* catalog part of the dataset.
Decisions_ == INSTANCE AuthzIndex WITH
  Records <- Pair, Policies <- {"public"}, Contexts <- {"anon"}, Anonymous <- "anon",
  Key <- [c \in {"anon"} |-> c], Procs <- {"p1", "p2"}, Writers <- {},
  SystemDefault <- "public", MaxDepth <- 3,
  SeedLink <- [r \in Pair |-> [rights |-> Nil, parent |-> IF r = "catalog" THEN Nil ELSE "catalog"]],
  SeedOffer <- [p \in {"public"} |-> {"anon"}], Offers <- {},
  Links <- {[rights |-> Nil, parent |-> "dataset"]},
  Modes <- {"open"}, SeedMode <- "odrl", MaxWrites <- 2, granted <- allowed

Releases == INSTANCE ReleaseCheck WITH
  Servers <- Both, Tasks <- {<<"loop", "s1">>, <<"forced", "s2">>},
  MaxReleases <- 1, MaxTurns <- 1, MaxRaises <- 1, task <- check

Announcements == INSTANCE IndexAnnouncements WITH
  Urls <- {"u1", "u2"}, EnvTargets <- {"u1"}, Writers <- {"w1"}, Admins <- {},
  MaxChanges <- 2, MaxFaults <- 1, faults <- misses

Labels_ == INSTANCE Labels WITH
  Lookups <- {"l1", "l2"}, MaxEdits <- 2, MaxFaults <- 1, faults <- failures

ASSUME ServicesAssumption ==
  /\ Decisions_!AuthzAssumption /\ Releases!ReleaseAssumption
  /\ Announcements!AnnouncementsAssumption /\ Labels_!LabelsAssumption

-----------------------------------------------------------------------------
Inits ==
  /\ Init /\ Decisions_!Init /\ Announcements!Init
  /\ part \in {"requests", "decisions", "releases", "announcements", "labels"}
  /\ Releases!Init /\ (part # "releases" => switch)
  /\ Labels_!Init /\ (part # "labels" => scope = "off")

Serves(A)    == part = "requests" /\ A
                /\ UNCHANGED <<part, decisions, releases, announcements, labels>>
Decides(A)   == part = "decisions" /\ A
                /\ UNCHANGED <<part, vars, releases, announcements, labels>>
Checks(A)    == part = "releases" /\ A
                /\ UNCHANGED <<part, vars, decisions, announcements, labels>>
Announces(A) == part = "announcements" /\ A
                /\ UNCHANGED <<part, vars, decisions, releases, labels>>
Labelled(A)  == part = "labels" /\ A
                /\ UNCHANGED <<part, vars, decisions, releases, announcements>>
Nexts ==
  \/ \E p \in Handlers :
       \/ Serves(ClientReads(p)) \/ Serves(Receive(p)) \/ Serves(Refuse(p))
       \/ Serves(Put(p)) \/ Serves(PostCheckRecord(p)) \/ Serves(PostCreate(p))
       \/ Serves(Delete(p)) \/ Serves(Transition(p)) \/ Serves(ReplaceRecord(p))
       \/ Serves(ReadMeta(p)) \/ Serves(ReadState(p)) \/ Serves(ReplaceMeta(p))
       \/ Serves(DropRecord(p)) \/ Serves(DropMeta(p)) \/ Serves(DropAudit(p))
       \/ Serves(ReadParent(p)) \/ Serves(PublishEvent(p)) \/ Serves(Respond(p))
       \/ Serves(Raise(p)) \/ Serves(LoseAuditRow(p))
  \/ \E p \in {"p1", "p2"} :
       \/ Decides(Decisions_!Begin(p)) \/ Decides(Decisions_!LookupHit(p)) \/ Decides(Decisions_!LookupMiss(p))
       \/ Decides(Decisions_!WalkUp(p)) \/ Decides(Decisions_!WalkEnds(p)) \/ Decides(Decisions_!Decide(p))
       \/ Decides(Decisions_!Aborted(p)) \/ Decides(Decisions_!Commit(p)) \/ Decides(Decisions_!DecideOpen(p))
       \/ Decides(Decisions_!UpsertFlag(p)) \/ Decides(Decisions_!IndexingEnds(p)) \/ Decides(Decisions_!RebuildDrops(p))
       \/ Decides(Decisions_!RebuildClears(p)) \/ Decides(Decisions_!EditRecord(p)) \/ Decides(Decisions_!SwitchMode(p))
  \/ Checks(Releases!Publish)        \/ Checks(Releases!Turn) \/ Checks(Releases!CopiesExpire)
  \/ Checks(Releases!IntervalPasses) \/ Checks(Releases!MinutePasses)
  \/ \E t \in {<<"loop", "s1">>, <<"forced", "s2">>} :
       \/ Checks(Releases!Begin(t)) \/ Checks(Releases!Due(t))   \/ Checks(Releases!Force(t))
       \/ Checks(Releases!Load(t))  \/ Checks(Releases!Fetch(t)) \/ Checks(Releases!FetchFails(t))
       \/ Checks(Releases!Save(t))  \/ Checks(Releases!Raises(t))
  \/ \E u \in {"u1", "u2"} : Announces(Announcements!Add(u)) \/ Announces(Announcements!Remove(u))
  \/ Announces(Announcements!RecordChanges("w1"))
  \/ \E x \in {"loop", "w1"} :
       \/ Announces(Announcements!Scheduled(x))   \/ Announces(Announcements!Lock(x))
       \/ Announces(Announcements!ReadTargets(x)) \/ Announces(Announcements!ReadRaises(x))
       \/ Announces(Announcements!Post(x))        \/ Announces(Announcements!Record(x))
       \/ Announces(Announcements!RecordFails(x))
  \/ Announces(Announcements!QuietEnds) \/ Announces(Announcements!Restart)
  \/ \E s \in {"graph", "inline", "remote"} : Labelled(Labels_!Edit(s))
  \/ \E l \in {"l1", "l2"} : \/ Labelled(Labels_!Ask(l))   \/ Labelled(Labels_!ReadInline(l))
                             \/ Labelled(Labels_!Query(l)) \/ Labelled(Labels_!ReadDurable(l))
                             \/ Labelled(Labels_!ReadInlineRaises(l))
  \/ Labelled(Labels_!HotExpires) \/ Labelled(Labels_!InlineExpires)
  \/ Labelled(Labels_!DurableExpires)
  \/ Labelled(Labels_!Answered)   \/ Labelled(Labels_!FetchFails)
  \/ Labelled(Labels_!Persist)    \/ Labelled(Labels_!Restart)

Services ==
  Inits /\ [][Nexts]_<<part, vars, decisions, releases, announcements, labels>>

-----------------------------------------------------------------------------
(* Properties.                                                             *)

\* A walk over any dct:isPartOf graph ends, and the process with it (AuthzIndex).
EveryDecisionEnds == part = "decisions" /\ Decisions_!Fairness => Decisions_!DecisionsEnd

\* What is published is known again and again (ReleaseCheck), and every index is told after
\* every change (IndexAnnouncements).
NewsSpreads ==
  /\ part = "releases" /\ Releases!Fairness => Releases!ReleasesNoticed
  /\ part = "announcements" /\ Announcements!Fairness => Announcements!ChangesAnnounced

\* The label of the graph and the healed label are served in the end (Labels).
LabelsConverge == part = "labels" /\ Labels_!Fairness => Labels_!LabelsConverge
=============================================================================
