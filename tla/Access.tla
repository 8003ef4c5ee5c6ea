------------------------------- MODULE Access -------------------------------
(***************************************************************************)
(* Who may see what, in parts of which a behaviour takes one: the          *)
(* decisions and their index (AuthzIndex); a request that reads records    *)
(* (ReadAccess); the policies and licences that administrators write       *)
(* (ManagedDocuments); and what is cached or kept of it elsewhere, the     *)
(* copies of a setting such as access.control (RuntimeSettings), the       *)
(* signing keys (SigningKeys), and saved searches (SavedSearches).  The    *)
(* parts share no state.                                                   *)
(***************************************************************************)
EXTENDS AuthzIndex

CONSTANTS
  Readings, Hierarchies, Askers, MaxEdits,                       \* reads
  Servers, Readers, Home, Values, Default, CopyTTL, MaxStored, Drifted,   \* settings
  Managed, Licenses, Resources, Callers, Actions, Bodies, Texts, SeedBodies,
  Editors, MaxTime, MaxSaves,                                    \* documents
  Calls, Kids, KeyTTL, MaxLag, MaxRotations,                     \* keys
  Subjects, Admins, Requests, Ids, Names                         \* searches

VARIABLES
  part,
  state, may, parent, isolates, kind, who, stage, steps, record, left, visited,
  asked, base, scope, shown, written, clause, unscoped, held, edits,
  row, ago, copy, fetching, telling, behind, stored,
  doc, names, decided, moment, editor, saves, given, late,
  published, gone, cached, lock, call, rotations, refused,
  search, made, request, last, clashed, dead

reading == <<state, may, parent, isolates, kind, who, stage, steps, record, left, visited,
             asked, base, scope, shown, written, clause, unscoped, held, edits>>

setting == <<row, ago, copy, fetching, telling, behind, stored>>

documents == <<doc, names, decided, moment, editor, saves, given, late>>

signing == <<published, gone, cached, lock, call, rotations, refused>>

searching == <<search, made, request, last, clashed, dead>>

Reading == INSTANCE ReadAccess WITH
  Records <- Readings, Callers <- Askers, pc <- stage, item <- record, todo <- left

Settings == INSTANCE RuntimeSettings WITH
  TTL <- CopyTTL, MaxWrites <- MaxStored, reading <- fetching, writes <- stored

Documents_ == INSTANCE ManagedDocuments WITH
  Policies <- Managed, Records <- Resources, Offers <- Bodies, SeedOffers <- SeedBodies,
  Writers <- Editors, MaxWrites <- MaxSaves,
  index <- decided, clock <- moment, writer <- editor, writes <- saves, granted <- given

Keys_ == INSTANCE SigningKeys WITH TTL <- KeyTTL

Searches == INSTANCE SavedSearches WITH row <- search, raced <- clashed

ASSUME AccessAssumption ==
  /\ Reading!ReadAssumption /\ Settings!SettingsAssumption /\ Documents_!DocumentsAssumption
  /\ Keys_!KeysAssumption /\ Searches!SearchesAssumption

-----------------------------------------------------------------------------
\* The part a behaviour does not take is at rest.
NoRequest ==
  /\ state = [r \in Readings |-> Nil] /\ may = {} /\ parent = [r \in Readings |-> Nil]
  /\ isolates = TRUE /\ kind = "get" /\ who = "anonymous" /\ stage = "done"
  /\ steps = <<>> /\ record = Nil /\ left = {} /\ visited = {} /\ asked = {} /\ base = {}
  /\ scope = {} /\ shown = {} /\ written = {} /\ clause = "none" /\ unscoped = FALSE
  /\ held = {} /\ edits = 0

\* A request among the records; beside them there are published ones that nobody may read.
\* Only /expanded and /page look at the hierarchy.
AnyRequest ==
  /\ Reading!Init
  /\ kind \notin {"expanded", "page"} => parent = CHOOSE h \in Hierarchies : TRUE
  /\ \A r \in Readings \ Records : state[r] = "published"
  /\ may \subseteq {"read", "modify"} \X Records /\ asked \subseteq Records

AccessInit ==
  /\ Init
  /\ part \in {"decisions", "reads", "settings", "documents", "keys", "searches"}
  /\ IF part = "reads" THEN AnyRequest ELSE NoRequest
  /\ Settings!Init /\ (part # "settings" => row = Nil)
  /\ Documents_!Init
  /\ part # "documents" =>
       \A r \in Resources : names[<<r, "policy">>] = CHOOSE p \in Managed : SeedBodies[p] # Nil
  /\ Keys_!Init /\ (part # "keys" => published = {CHOOSE k \in Kids : TRUE})
  /\ Searches!Init

Deciding(A)  == part = "decisions" /\ A
                /\ UNCHANGED <<part, reading, setting, documents, signing, searching>>
Answering(A) == part = "reads" /\ A
                /\ UNCHANGED <<part, vars, setting, documents, signing, searching>>
Setting(A)   == part = "settings" /\ A
                /\ UNCHANGED <<part, vars, reading, documents, signing, searching>>
Governing(A) == part = "documents" /\ A
                /\ UNCHANGED <<part, vars, reading, setting, signing, searching>>
Signing(A)   == part = "keys" /\ A
                /\ UNCHANGED <<part, vars, reading, setting, documents, searching>>
Searching(A) == part = "searches" /\ A
                /\ UNCHANGED <<part, vars, reading, setting, documents, signing>>

AccessNext ==
  \/ \E p \in Procs : Deciding(Begin(p))
  \/ \E p \in Procs : Deciding(LookupHit(p))
  \/ \E p \in Procs : Deciding(LookupMiss(p))
  \/ \E p \in Procs : Deciding(WalkUp(p))
  \/ \E p \in Procs : Deciding(WalkEnds(p))
  \/ \E p \in Procs : Deciding(Decide(p))
  \/ \E p \in Procs : Deciding(Aborted(p))
  \/ \E p \in Procs : Deciding(Commit(p))
  \/ \E p \in Procs : Deciding(UpsertFlag(p))
  \/ \E p \in Procs : Deciding(IndexingEnds(p))
  \/ \E p \in Procs : Deciding(RebuildDrops(p))
  \/ \E p \in Procs : Deciding(RebuildClears(p))
  \/ \E p \in Procs : Deciding(DecideOpen(p))
  \/ \E p \in Procs : Deciding(EditRecord(p))
  \/ \E p \in Procs : Deciding(SwitchMode(p))
  \/ \E w \in Writers : Deciding(PutPolicy(w))
  \/ \E w \in Writers : Deciding(CheckUnreferenced(w))
  \/ \E w \in Writers : Deciding(DropPolicy(w))
  \/ \E w \in Writers : Deciding(Invalidate(w))
  \/ \E r \in Records, to \in {"published", "draft", Nil} : Answering(Reading!Moves(r, to))
  \/ \E r \in Records, a \in {"read", "modify"} : Answering(Reading!Grants(a, r))
  \/ \E r \in Records, a \in {"read", "modify"} : Answering(Reading!Revokes(a, r))
  \/ Answering(Reading!Start)
  \/ Answering(Reading!Authorize)
  \/ Answering(Reading!AskPublished)
  \/ Answering(Reading!Curate)
  \/ Answering(Reading!Fetch)
  \/ Answering(Reading!StartUpdate)
  \/ Answering(Reading!CheckTargets)
  \/ Answering(Reading!UpdateScope)
  \/ Answering(Reading!StartQuery)
  \/ Answering(Reading!Readable)
  \/ Answering(Reading!Others)
  \/ Answering(Reading!Curatable)
  \/ Answering(Reading!Drafts)
  \/ Answering(Reading!Run)
  \/ \E r \in Readers : \/ Setting(Settings!Begin(r))       \/ Setting(Settings!Fetch(r))
                        \/ Setting(Settings!FetchRaises(r)) \/ Setting(Settings!Store(r))
  \/ \E s \in Servers, v \in Values : Setting(Settings!Write(s, v))
  \/ \E s \in Servers : \/ Setting(Settings!Delete(s)) \/ Setting(Settings!ClearAll(s))
                        \/ Setting(Settings!Notify(s))
  \/ Setting(Settings!Tick)
  \/ \E w \in Editors :
       \/ Governing(Documents_!Put(w))   \/ Governing(Documents_!CheckDelete(w))
       \/ Governing(Documents_!Drop(w))
       \/ Governing(Documents_!Clear(w)) \/ Governing(Documents_!ClearFails(w))
  \/ \E r \in Resources, k \in {"policy", "license"} : Governing(Documents_!Name(r, k))
  \/ \E c \in Callers, a \in Actions, r \in Resources : Governing(Documents_!Ask(c, a, r))
  \/ Governing(Documents_!Tick)
  \/ \E c \in Calls :
       \/ Signing(Keys_!Begin(c)) \/ Signing(Keys_!Locked(c)) \/ Signing(Keys_!Answers(c))
       \/ Signing(Keys_!Fails(c)) \/ Signing(Keys_!Keep(c))   \/ Signing(Keys_!End(c))
  \/ Signing(Keys_!Rotate) \/ Signing(Keys_!Tick)
  \/ \E s \in Subjects : Searching(Searches!Create(s))
  \/ \E q \in Requests, s \in Subjects :
       \/ Searching(Searches!AdmitUpdate(q, s)) \/ Searching(Searches!AdmitDelete(q, s))
  \/ \E q \in Requests :
       \/ Searching(Searches!Load(q)) \/ Searching(Searches!Flush(q))
       \/ Searching(Searches!Delete(q))

AccessVars == <<vars, reading, setting, documents, signing, searching, part>>
AccessSpec == AccessInit /\ [][AccessNext]_AccessVars

-----------------------------------------------------------------------------
(* Properties; IndexCoherent and PermitsWereGranted are of AuthzIndex.     *)

\* What an answer holds and an update writes, its caller was entitled to while the request
\* was at work (ReadAccess).
ReadsEntitled == Reading!ReadsEntitled

\* A copy of a setting is recent, and never older than an own write (RuntimeSettings); a
\* copy of the signing keys holds no key withdrawn before it was fetched, and no call is
\* refused a key that is published throughout (SigningKeys).
CopiesCurrent == Settings!SettingsCurrent /\ Keys_!KeysCurrent

\* Every cached decision is one that a policy in force gave since the cache was cleared, no
\* delete leaves a record without the document it names (ManagedDocuments), and no update
\* of a saved search undoes another or a delete (SavedSearches).
ManagedKept == Documents_!DocumentsGovern /\ Searches!SearchesKept
=============================================================================
