-------------------------- MODULE ManagedDocuments --------------------------
(***************************************************************************)
(* The policies and licences that administrators manage                    *)
(* (metadata/policies.py, metadata/licenses.py), the ODRL profile that a   *)
(* policy must conform to (policy/parser.py, model.py), the decision it    *)
(* gives (policy/evaluator.py) and the key under which the decision is     *)
(* cached (policy/cache.py).                                               *)
(*                                                                         *)
(* Here a decision is one step: AuthzIndex has its walk and its            *)
(* interleavings, with offers that are just sets of contexts.              *)
(***************************************************************************)
EXTENDS Naturals, FiniteSets

CONSTANTS
  Policies, Licenses, Records, Nil,
  Callers,      \* who asks: subject (or Nil), roles and groups
  Actions,      \* what they ask for
  Offers,       \* the bodies a policy is written with, some out of the profile
  Texts,        \* the bodies a licence is written with
  SeedOffers,   \* the policies at the start: a profile's offers were not parsed
  Writers,
  MaxTime,      \* bound: moments the policies tell apart
  MaxWrites     \* bound: puts, deletes and edits of records

Documents == Policies \cup Licenses
Kinds == {"policy", "license"}
Kind(d) == IF d \in Policies THEN "policy" ELSE "license"

\* What the constants must satisfy; the module that makes the instance assumes it.
DocumentsAssumption ==
  /\ Policies \cap Licenses = {} /\ Nil \notin Documents
  /\ MaxTime \in Nat /\ MaxWrites \in Nat
  /\ SeedOffers \in [Policies -> Offers \cup {Nil}] /\ Nil \notin Offers \cup Texts

VARIABLES
  doc,       \* the body stored at each document's IRI, or Nil
  names,     \* the dct:rights and dct:license of each record, or Nil
  index,     \* authz_index: the decision of each key, action and record, or Nil
  clock,
  writer,    \* what each administrator's request has still to do
  writes,
  granted,   \* history: the decisions since the index was last cleared
  late       \* history: references made to a document being deleted, or not there

vars == <<doc, names, index, clock, writer, writes, granted, late>>

-----------------------------------------------------------------------------
(* The profile.  A body says whether it is an odrl:Offer, its odrl:conflict *)
(* and its rules; a constraint is a left operand, an operator and a right  *)
(* operand, which is an IRI, a text, or a date with or without a zone.     *)

Operators == {"eq", "neq", "lt", "gt", "lteq", "gteq"}
Dates == {"dateTime", "naive"}
LeftOperands == {"assignee", "role", "group", "dateTime"}
KnownActions == {"read", "modify", "delete", "distribute"}
Conflicts == {"perm", "invalid", "deny"}

ConstraintConforms(c) ==
  /\ Nil \notin {c.left, c.op, c.right}
  /\ c.op \in Operators
  /\ c.left \in LeftOperands
  /\ c.left # "dateTime" => c.op \in {"eq", "neq"}
  /\ c.left = "assignee" => c.right.kind = "iri"
  /\ c.left = "dateTime" => c.right.kind \in Dates

RuleConforms(rule) ==
  /\ rule.typed
  /\ rule.action \in KnownActions
  /\ \A c \in rule.constraints : ConstraintConforms(c)

OfferConforms(body) ==
  /\ body.offer
  /\ body.conflict \in {Nil} \cup Conflicts
  /\ \A rule \in body.rules : RuleConforms(rule)

\* The licence shape: one title, at most one description, a source that is an IRI.
LicenseConforms(body) ==
  /\ body.titles = 1 /\ body.descriptions <= 1
  /\ body.source # "text"

Conforms(d, body) == IF d \in Policies THEN OfferConforms(body) ELSE LicenseConforms(body)

-----------------------------------------------------------------------------
(* The evaluation.                                                         *)

Compare(op, a, b) ==
  CASE op = "eq" -> a = b [] op = "neq" -> a # b
    [] op = "lt" -> a < b [] op = "gt" -> a > b
    [] op = "lteq" -> a <= b [] op = "gteq" -> a >= b

Holds(op, truth) == IF (op = "eq") = truth THEN "yes" ELSE "no"

\* A date without a zone equals no moment, and comparing them raises.
ConstraintOutcome(c, caller, now) ==
  CASE c.left = "assignee" -> Holds(c.op, caller.subject = c.right.value)
    [] c.left = "role"     -> Holds(c.op, c.right.value \in caller.roles)
    [] c.left = "group"    -> Holds(c.op, c.right.value \in caller.groups)
    [] c.left = "dateTime" ->
         IF c.right.kind = "naive"
         THEN IF c.op \in {"eq", "neq"} THEN Holds(c.op, FALSE) ELSE "raises"
         ELSE IF Compare(c.op, now, c.right.at) THEN "yes" ELSE "no"

\* A rule matches when all its constraints do; they are tried in any order up to
\* the first that does not.
RuleOutcomes(rule, caller, now) ==
  LET each == {ConstraintOutcome(c, caller, now) : c \in rule.constraints}
  IN IF each \subseteq {"yes"} THEN {"yes"} ELSE each \ {"yes"}

Verdict(conflict, permitted, prohibited) ==
  IF permitted /\ (prohibited => conflict = "perm") THEN "permit" ELSE "deny"

\* evaluate: the decision, and that it may raise.
Evaluations(body, caller, action, now) ==
  LET rules == {rule \in body.rules : rule.action = action}
      may(o)  == \E rule \in rules : o \in RuleOutcomes(rule, caller, now)
      must(o) == \E rule \in rules : RuleOutcomes(rule, caller, now) = {o}
      some(kind) == \E rule \in rules : /\ rule.kind = kind
                                        /\ RuleOutcomes(rule, caller, now) = {"yes"}
  IN (IF must("raises") THEN {}
      ELSE {Verdict(body.conflict, some("permission"), some("prohibition"))})
     \cup {o \in {"raises"} : may(o)}

\* _fetch_and_parse and authorize: a policy that is absent or does not conform denies.
Decisions(d, nm, now, caller, action, r) ==
  LET p == nm[<<r, "policy">>] IN
  IF p = Nil THEN {"deny"}
  ELSE IF d[p] = Nil THEN {"deny"}
  ELSE IF ~OfferConforms(d[p]) THEN {"deny"}
  ELSE Evaluations(d[p], caller, action, now)

\* A variant of SubjectKey that leaves the roles out.
SubjectAlone(caller) == <<caller.subject>>

\* compute_subject_key: neither the groups nor the moment are part of it.
SubjectKey(caller) == <<caller.subject, caller.roles>>

Keys == {SubjectKey(caller) : caller \in Callers}
Row(caller, action, r) == <<SubjectKey(caller), action, r>>
Empty == [row \in Keys \X Actions \X Records |-> Nil]

\* The decisions that the store gives at a moment.
Given(d, nm, now) ==
  UNION {{<<c.subject, c.roles, a, r, o>> : o \in Decisions(d, nm, now, c, a, r)} :
           c \in Callers, a \in Actions, r \in Records}

-----------------------------------------------------------------------------
Idle == [pc |-> "idle", doc |-> Nil]
Goto(w, to, d) == writer' = [writer EXCEPT ![w] = [pc |-> to, doc |-> d]]

Write == writes < MaxWrites /\ writes' = writes + 1

\* The store changes to d and nm.
Stored(d, nm) == doc' = d /\ names' = nm /\ granted' = granted \cup Given(d, nm, clock)

\* What follows a write of d: a policy's clears the index.
Then(w, d) == IF d \in Policies THEN Goto(w, "clear", d) ELSE Goto(w, "idle", Nil)

\* put: a body that does not conform is refused.
Put(w) ==
  /\ writer[w] = Idle /\ Write
  /\ \E d \in Documents : \E body \in IF d \in Policies THEN Offers ELSE Texts :
       /\ Conforms(d, body)
       /\ Stored([doc EXCEPT ![d] = body], names)
       /\ Then(w, d)
  /\ UNCHANGED <<index, clock, late>>

Exists(d) == doc[d] # Nil /\ (d \in Policies => doc[d].offer)
Referenced(d) == \E r \in Records, k \in Kinds : names[<<r, k>>] = d

\* delete: the checks ...
CheckDelete(w) ==
  /\ writer[w] = Idle /\ Write
  /\ \E d \in Documents : ~Referenced(d) /\ Exists(d) /\ Goto(w, "drop", d)
  /\ UNCHANGED <<doc, names, index, clock, granted, late>>

\* ... and delete_graph.
Drop(w) ==
  /\ writer[w].pc = "drop"
  /\ Stored([doc EXCEPT ![writer[w].doc] = Nil], names)
  /\ Then(w, writer[w].doc)
  /\ UNCHANGED <<index, clock, writes, late>>

\* invalidate_all.
Clear(w) ==
  /\ writer[w].pc = "clear"
  /\ index' = Empty /\ granted' = Given(doc, names, clock)
  /\ Goto(w, "idle", Nil)
  /\ UNCHANGED <<doc, names, clock, writes, late>>

\* Postgres fails, and the request: the index keeps its rows.
ClearFails(w) ==
  /\ writer[w].pc = "clear"
  /\ Goto(w, "idle", Nil)
  /\ UNCHANGED <<doc, names, index, clock, writes, granted, late>>

\* An LDP write of a record, which may name any document and clears nothing.
Name(r, k) ==
  /\ Write
  /\ \E d \in Documents \cup {Nil} :
       /\ d # names[<<r, k>>] /\ (d # Nil => Kind(d) = k)
       /\ Stored(doc, [names EXCEPT ![<<r, k>>] = d])
       /\ late' = IF d # Nil /\ (d \notin {x \in Documents : doc[x] # Nil}
                                 \/ \E w \in Writers : writer[w] = [pc |-> "drop", doc |-> d])
                  THEN late \cup {<<r, k>>} ELSE late \ {<<r, k>>}
  /\ UNCHANGED <<index, clock, writer>>

\* authorize: what is not cached is decided, and cached unless the evaluation raises.
Ask(caller, action, r) ==
  /\ index[Row(caller, action, r)] = Nil
  /\ \E o \in Decisions(doc, names, clock, caller, action, r) \ {"raises"} :
       index' = [index EXCEPT ![Row(caller, action, r)] = o]
  /\ UNCHANGED <<doc, names, clock, writer, writes, granted, late>>

Tick ==
  /\ clock < MaxTime /\ clock' = clock + 1
  /\ granted' = granted \cup Given(doc, names, clock')
  /\ UNCHANGED <<doc, names, index, writer, writes, late>>

-----------------------------------------------------------------------------
\* A profile was applied: its records name its policies, and nothing is cached.
Init ==
  /\ doc = [d \in Documents |-> IF d \in Policies THEN SeedOffers[d] ELSE Nil]
  /\ names \in {nm \in [Records \X Kinds -> Documents \cup {Nil}] :
                  \A r \in Records : /\ nm[<<r, "license">>] = Nil
                                     /\ nm[<<r, "policy">>] \in {p \in Policies : doc[p] # Nil}}
  /\ index = Empty /\ clock = 0
  /\ writer = [w \in Writers |-> Idle] /\ writes = 0
  /\ granted = Given(doc, names, 0) /\ late = {}

Next ==
  \/ \E w \in Writers : Put(w) \/ CheckDelete(w) \/ Drop(w) \/ Clear(w) \/ ClearFails(w)
  \/ \E r \in Records, k \in Kinds : Name(r, k)
  \/ \E c \in Callers, a \in Actions, r \in Records : Ask(c, a, r)
  \/ Tick

Spec == Init /\ [][Next]_vars

\* Time passes, callers come back, and a request that was admitted goes on.
FairSpec ==
  /\ Spec /\ WF_vars(Tick)
  /\ \A w \in Writers : WF_vars(Drop(w)) /\ WF_vars(Clear(w) \/ ClearFails(w))
  /\ \A c \in Callers, a \in Actions, r \in Records : WF_vars(Ask(c, a, r))

-----------------------------------------------------------------------------
(* Properties.                                                             *)

\* The cached decisions are keyed and spelled as the index expects.
TypeOK ==
  /\ DOMAIN doc = Documents /\ names \in [Records \X Kinds -> Documents \cup {Nil}]
  /\ index \in [Keys \X Actions \X Records -> {Nil, "permit", "deny"}]
  /\ clock \in 0..MaxTime /\ writes \in 0..MaxWrites
  /\ writer \in [Writers -> [pc : {"idle", "drop", "clear"}, doc : Documents \cup {Nil}]]
  /\ late \subseteq Records \X Kinds

\* What the index tells a caller is what a policy in force since the index was
\* last cleared said of a caller with that subject and those roles.
Governed ==
  \A c \in Callers, a \in Actions, r \in Records :
    LET o == index[Row(c, a, r)]
    IN o # Nil => <<c.subject, c.roles, a, r, o>> \in granted

\* A record names a document that is not there only if it came to name it while it
\* was being deleted, or was not there already.
ReferencesKept ==
  \A r \in Records, k \in Kinds :
    LET d == names[<<r, k>>]
    IN d # Nil => (doc[d] # Nil \/ <<r, k>> \in late)

\* Deletes, edits and failing requests leave every record governed by the policy it
\* names, and no record without the document it named.
DocumentsGovern == Governed /\ ReferencesKept

Stale(c, a, r) ==
  LET o == index[Row(c, a, r)]
  IN o # Nil /\ o \notin Decisions(doc, names, clock, c, a, r)

\* A cached decision that the policy no longer gives goes away in the end, whatever
\* it was that outdated it ("a short TTL on top of that catches anything we missed").
StaleExpires ==
  \A c \in Callers, a \in Actions, r \in Records : Stale(c, a, r) ~> ~Stale(c, a, r)
=============================================================================
