----------------------------- MODULE ReadAccess -----------------------------
(***************************************************************************)
(* What one request may see: the read paths (metadata/ldp/router.py,       *)
(* extensions.py, instances.py, data/router.py, access/) with the state    *)
(* gate they share (lifecycle.py), against records that are published,     *)
(* withdrawn and deleted and rights that change while the request is at    *)
(* work, between any two of its calls.                                     *)
(*                                                                         *)
(* Requests that read change nothing, so one is modelled.  The rights are  *)
(* those of its caller, what the policy decision point answers at the      *)
(* moment (AuthzIndex has how they are derived and cached); a batch of     *)
(* decisions is one step, records being told apart by nothing that could   *)
(* depend on each other.  What matters of a state is whether it is         *)
(* PUBLISHED.                                                              *)
(***************************************************************************)
EXTENDS Naturals, Sequences, FiniteSets

CONSTANTS
  Records,
  Hierarchies,   \* dct:isPartOf of each record, or Nil; its inverse lists members
  Callers,       \* among "anonymous", "member", "admin"
  MaxEdits,      \* bound: changes while the request is at work
  Nil

\* The calls each path makes for every record it is about to show.
Course == [get       |-> <<"authorize", "fetch", "published", "curate">>,
           expanded  |-> <<"authorize", "published", "curate", "fetch">>,
           page      |-> <<"authorize", "published", "curate", "fetch">>,
           instances |-> <<"authorize", "published", "curate">>,
           data      |-> <<"fetch", "authorize", "published">>]

Walks == DOMAIN Course
Kinds == Walks \cup {"sparql", "update"}

\* What the constants must satisfy; the module that makes the instance assumes it.
ReadAssumption ==
  /\ Hierarchies \subseteq [Records -> Records \cup {Nil}] /\ Nil \notin Records
  /\ Callers \subseteq {"anonymous", "member", "admin"} /\ MaxEdits \in Nat

VARIABLES
  state,    \* of each record: "published", "draft", or Nil: there is none
  may,      \* the actions and records the caller is permitted
  parent,
  isolates, \* the triple store passed the isolation self-test
  kind, who,
  pc,       \* "start", "walk", the call a query is at, "done"
  steps,    \* of a walk: the calls still to make for item
  item, todo, visited,
  asked,    \* the graphs a query names, the targets of an update as its parser lists them
  base, scope,  \* the candidates at hand, and the graphs found permitted
  shown,    \* records whose content the answer may hold
  written,  \* records that the update that was executed may have changed
  clause,   \* what its text says of its dataset: "none", "from", "using" or "with"
  unscoped, \* history: a query had no dataset, or an update was not confined to its own
  held,     \* history: what held of each record at some moment of the request
  edits

world   == <<state, may, parent, isolates>>
request == <<kind, who, asked>>
walking == <<steps, item, todo, visited>>
asking  == <<base, scope>>
effect  == <<written, clause, unscoped>>
answer  == <<shown, effect>>
vars    == <<world, request, pc, walking, asking, answer, held, edits>>

Admin     == who = "admin"
Existing  == {r \in Records : state[r] # Nil}
Published == {r \in Records : state[r] = "published"}
Permitted(action, rs) == {r \in rs : <<action, r>> \in may}

\* What holds of the records now, for the caller.
Facts(st, m) == {<<"published", r>> : r \in {x \in Records : st[x] = "published"}} \cup m

-----------------------------------------------------------------------------
(* The world.                                                              *)

Edit(st, m) ==
  /\ pc # "done" /\ edits < MaxEdits /\ edits' = edits + 1
  /\ state' = st /\ may' = m /\ held' = held \cup Facts(st, m)
  /\ UNCHANGED <<parent, isolates, request, pc, walking, asking, answer>>

\* A record is published, withdrawn or deleted; its rights change for the caller.
Moves(r, to) == state[r] \notin {Nil, to} /\ Edit([state EXCEPT ![r] = to], may)
Grants(a, r) == <<a, r>> \notin may /\ Edit(state, may \cup {<<a, r>>})
Revokes(a, r) == <<a, r>> \in may /\ Edit(state, may \ {<<a, r>>})

-----------------------------------------------------------------------------
(* The walks: GET and HEAD, /expanded, /page, /instances and /data.        *)

\* The next record, or the answer.
Continue(left) ==
  IF left = {} THEN pc' = "done" /\ todo' = {} /\ UNCHANGED <<steps, item>>
  ELSE \E r \in left : /\ item' = r /\ todo' = left \ {r}
                       /\ steps' = Course[kind] /\ UNCHANGED pc

\* The calls for item succeeded up to here.
Passed(left) ==
  IF Len(steps) = 1 THEN shown' = shown \cup {item} /\ Continue(left)
  ELSE steps' = Tail(steps) /\ todo' = left /\ UNCHANGED <<pc, item, shown>>

\* An item the caller may not see refuses the request, a relative is left out.
Refused ==
  /\ UNCHANGED shown
  /\ IF kind = "instances" \/ shown # {} THEN Continue(todo)
     ELSE pc' = "done" /\ UNCHANGED <<steps, item, todo>>

At(call) == pc = "walk" /\ Head(steps) = call

Start ==
  /\ pc = "start" /\ kind \in Walks
  /\ IF kind = "instances"
     THEN /\ visited' = Existing
          /\ IF Existing = {} THEN pc' = "done" /\ UNCHANGED <<steps, item, todo>>
             ELSE \E r \in Existing : /\ item' = r /\ todo' = Existing \ {r}
                                      /\ steps' = Course[kind] /\ pc' = "walk"
     ELSE \E r \in Records : /\ item' = r /\ todo' = {} /\ visited' = {r}
                             /\ steps' = Course[kind] /\ pc' = "walk"
  /\ UNCHANGED <<world, request, asking, answer, held, edits>>

\* authorize(ctx, READ, item).
Authorize ==
  /\ At("authorize")
  /\ IF <<"read", item>> \in may THEN Passed(todo) ELSE Refused
  /\ UNCHANGED <<world, request, visited, asking, effect, held, edits>>

\* StateReader.is_published, the data provider's only question.
AskPublished ==
  /\ At("published")
  /\ IF item \notin Published
     THEN IF kind = "data" \/ who = "anonymous" THEN Refused ELSE Passed(todo)
     ELSE IF steps = <<"published">> \/ Tail(steps) = <<"curate">>
          THEN shown' = shown \cup {item} /\ Continue(todo)
          ELSE /\ steps' = IF steps[2] = "curate" THEN Tail(Tail(steps)) ELSE Tail(steps)
               /\ UNCHANGED <<pc, item, todo, shown>>
  /\ UNCHANGED <<world, request, visited, asking, effect, held, edits>>

\* _can_curate: an administrator, or who may modify an unpublished record.
Curate ==
  /\ At("curate")
  /\ IF Admin \/ <<"modify", item>> \in may THEN Passed(todo) ELSE Refused
  /\ UNCHANGED <<world, request, visited, asking, effect, held, edits>>

\* get_graph; of /expanded it adds the parent, of the container of /page its members, which
\* are listed even if they are gone.
Fetch ==
  /\ At("fetch")
  /\ LET relatives == CASE kind = "expanded" -> {parent[item]} \ ({Nil} \cup visited)
                        [] kind = "page" /\ shown = {} -> {r \in Records : parent[r] = item} \ visited
                        [] OTHER -> {}
     IN IF state[item] = Nil /\ (kind = "page" => shown = {})
        THEN UNCHANGED visited /\ Refused
        ELSE visited' = visited \cup relatives /\ Passed(todo \cup relatives)
  /\ UNCHANGED <<world, request, asking, effect, held, edits>>

-----------------------------------------------------------------------------
(* The SPARQL endpoint.                                                    *)

Go(to) == pc' = to
Ask(from) == pc = from /\ UNCHANGED <<world, request, walking, held, edits>>
Keep == UNCHANGED answer

\* An update of an anonymous caller is refused; candidates of the rest.
StartUpdate ==
  /\ kind = "update" /\ Ask("start")
  /\ IF who = "anonymous" THEN Go("done") /\ UNCHANGED asking
     ELSE base' = Existing /\ scope' = {} /\ Go("modifiable")
  /\ Keep

\* updatable_graphs and authorize_update: every graph the parser lists must be modifiable.
CheckTargets ==
  /\ Ask("modifiable")
  /\ LET modifiable == IF Admin THEN base ELSE Permitted("modify", base) IN
     Go(IF asked \subseteq modifiable THEN "scope" ELSE "done")
  /\ UNCHANGED asking /\ Keep

\* update_read_scope: the candidates anew ...
UpdateScope ==
  /\ Ask("scope")
  /\ base' = Existing /\ Go("readable") /\ UNCHANGED scope /\ Keep

\* visible_read_graphs: the published records, of an administrator all ...
StartQuery ==
  /\ kind = "sparql" /\ Ask("start")
  /\ base' = (IF Admin THEN Existing ELSE Published) /\ UNCHANGED scope
  /\ Go("readable") /\ Keep

\* ... those the caller may read ...
Readable ==
  /\ Ask("readable")
  /\ scope' = scope \cup (IF Admin THEN base ELSE Permitted("read", base))
  /\ UNCHANGED base
  /\ Go(IF kind = "update" \/ who # "member" THEN "run" ELSE "others") /\ Keep

\* ... and of the others those it may modify ...
Others ==
  /\ Ask("others")
  /\ base' = Existing \ base /\ UNCHANGED scope
  /\ Go("curatable") /\ Keep

Curatable ==
  /\ Ask("curatable")
  /\ base' = Permitted("modify", base) /\ UNCHANGED scope
  /\ Go("drafts") /\ Keep

\* ... and read.
Drafts ==
  /\ Ask("drafts")
  /\ scope' = scope \cup Permitted("read", base) /\ UNCHANGED base
  /\ Go("run") /\ Keep

\* rewrite_read: a graph that is named must be visible; what is sent with the query.
Projection == IF kind = "sparql" /\ asked # {} THEN asked ELSE scope
Allowed    == kind = "update" \/ asked \subseteq scope

\* What a text may say of its own dataset: FROM, where a query names graphs; USING or WITH.
Clauses == CASE kind = "update" -> {"none", "using", "with"}
             [] kind = "sparql" /\ asked # {} -> {"none", "from"}
             [] OTHER -> {"none"}

\* The dataset of an update's own text stands beside the one that is sent with it.
Own(c) == c \in {"using", "with"}

\* The store is sent at most one graph, or isolates several; graphs that a FROM clause names
\* are not sent.
Isolated(c) == isolates \/ c = "from" \/ Cardinality(Projection) <= 1

\* A variant that serves several graphs from a store that does not isolate them.
SafeAlways(c) == TRUE

\* multigraph_safe_provider, which is asked for queries only.
Safe(c) == kind = "update" \/ Isolated(c)

\* What the store may read: the dataset it is given; every graph when it is given none, does
\* not isolate several, or finds a dataset in the text.
Confined(c) == Projection # {} /\ Isolated(c) /\ ~Own(c)
Answer(c)   == IF Confined(c) THEN Projection \cap Existing ELSE Existing

\* What an update may change.  Of a Modify with WITH the parser lists the WITH graph alone,
\* whatever graphs its templates name; of every other operation all that it may change.
Changes(c) == IF kind # "update" THEN {} ELSE IF c = "with" THEN Records ELSE asked

\* The store executes the text, or refuses one that has a dataset beside the one it is sent.
Run ==
  /\ Ask("run")
  /\ \E c \in Clauses :
       \/ /\ Allowed /\ Safe(c)
          /\ shown' = Answer(c) /\ written' = Changes(c) /\ clause' = c
          /\ unscoped' = (Projection = {} \/ (kind = "update" /\ ~Confined(c)))
       \/ /\ ~(Allowed /\ Safe(c)) \/ Own(c)
          /\ Keep
  /\ Go("done") /\ UNCHANGED asking

-----------------------------------------------------------------------------
Init ==
  /\ state \in [Records -> {"published", "draft"}]
  /\ may \in SUBSET ({"read", "modify"} \X Records)
  /\ parent \in Hierarchies /\ isolates \in BOOLEAN
  /\ kind \in Kinds /\ who \in Callers /\ (kind = "data" => who = "anonymous")
  /\ asked \in SUBSET Records /\ (kind \in Walks => asked = {}) /\ (kind = "update" => asked # {})
  /\ kind \in Walks => isolates
  /\ pc = "start" /\ steps = <<>> /\ item = Nil /\ todo = {} /\ visited = {}
  /\ base = {} /\ scope = {} /\ shown = {} /\ written = {} /\ clause = "none" /\ unscoped = FALSE
  /\ held = Facts(state, may) /\ edits = 0

Step ==
  \/ Start \/ Authorize \/ AskPublished \/ Curate \/ Fetch
  \/ StartUpdate \/ CheckTargets \/ UpdateScope
  \/ StartQuery \/ Readable \/ Others \/ Curatable \/ Drafts \/ Run

Next ==
  \/ \E r \in Records : \/ \E to \in {"published", "draft", Nil} : Moves(r, to)
                        \/ \E a \in {"read", "modify"} : Grants(a, r) \/ Revokes(a, r)
  \/ Step

Spec == Init /\ [][Next]_vars

-----------------------------------------------------------------------------
(* Properties.                                                             *)

\* Whoever reads over SPARQL as an administrator sees every record; over the other paths
\* an administrator, too, needs the right to read.
Entitled(r) ==
  \/ Admin /\ kind \in {"sparql", "update"}
  \/ /\ <<"read", r>> \in held
     /\ kind = "update" \/ Admin \/ {<<"published", r>>, <<"modify", r>>} \cap held # {}

\* A record is in an answer only if, while the request was at work, the caller was permitted
\* to read it and it was published or the caller's to modify; whatever its relatives are, in
\* whatever order the calls were answered, and whatever the store can isolate.  What is not
\* told of: a query without any readable graph, which goes to the store without a dataset;
\* an update whose text has a dataset of its own; an update over several graphs on a store
\* that does not isolate them, where the endpoint refuses only queries.
AnswersEntitled == unscoped \/ \A r \in shown : Entitled(r)

\* An update changes a record only if the caller was permitted to modify it meanwhile; not
\* told of are the graphs that the templates of an update with WITH name beside those listed.
UpdatesEntitled ==
  \A r \in written :
    (clause = "with" => r \in asked) => Admin \/ <<"modify", r>> \in held

ReadsEntitled == AnswersEntitled /\ UpdatesEntitled
=============================================================================
