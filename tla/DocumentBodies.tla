--------------------------- MODULE DocumentBodies ---------------------------
(***************************************************************************)
(* Who asks and what administrators write, for instances of                *)
(* ManagedDocuments: a person with and without a role and a group, and     *)
(* somebody unknown; bodies that use every kind of constraint, each        *)
(* conflict strategy, and what the profile refuses.                        *)
(***************************************************************************)
EXTENDS Naturals

CONSTANT Nil

Caller(s, rs, gs) == [subject |-> s, roles |-> rs, groups |-> gs]

People == {Caller(Nil, {}, {}), Caller("ann", {}, {}), Caller("ann", {"curator"}, {"lab"})}

C(l, o, rt) == [left |-> l, op |-> o, right |-> rt]
Iri(v)  == [kind |-> "iri", value |-> v]
Date(t) == [kind |-> "dateTime", at |-> t]
Rule(k, a, cs) == [kind |-> k, typed |-> TRUE, action |-> a, constraints |-> cs]
Permit(cs) == Rule("permission", "read", cs)
Prohibit(cs) == Rule("prohibition", "read", cs)
Offer(conflict, rules) == [offer |-> TRUE, conflict |-> conflict, rules |-> rules]

Curators == Offer("deny", {Permit({C("role", "eq", Iri("curator"))}),
                           Rule("permission", "modify", {})})
Window   == Offer(Nil, {Permit({C("dateTime", "gteq", Date(1))}),
                        Prohibit({C("dateTime", "gt", Date(1)), C("group", "neq", Iri("lab"))})})
AllButAnn(strategy) == Offer(strategy, {Permit({}), Prohibit({C("assignee", "eq", Iri("ann"))})})
NoZone == Offer(Nil, {Permit({C("dateTime", "lt", [kind |-> "naive"]),
                              C("assignee", "eq", Iri("ann"))})})

\* Out of the profile: no odrl:Offer, an unknown conflict, an untyped rule, a duty's
\* action, an ordering of roles, a person who is a text, a date that is none.
Refused == {
  [offer |-> FALSE, conflict |-> Nil, rules |-> {Permit({})}],
  Offer("other", {Permit({})}),
  Offer(Nil, {[Permit({}) EXCEPT !.typed = FALSE]}),
  Offer(Nil, {Rule("permission", "use", {})}),
  Offer(Nil, {Permit({C("role", "gt", Iri("curator"))})}),
  Offer(Nil, {Permit({C("assignee", "eq", [kind |-> "text", value |-> "ann"])})}),
  Offer(Nil, {Permit({C("dateTime", "lt", [kind |-> "text", value |-> "soon"])})}),
  Offer(Nil, {Permit({C("spatial", "eq", Iri("here"))})}),
  Offer(Nil, {Permit({C("role", Nil, Iri("curator"))})})}

AllBodies == {Curators, Window, NoZone} \cup {AllButAnn(s) : s \in {"perm", "invalid"}} \cup Refused

License(n, s) == [titles |-> n, descriptions |-> 0, source |-> s]
Statements == {License(1, "iri"), License(0, Nil), License(1, "text")}

\* The second policy of the profile is out of the FDP profile.
SeedsOf(pols, first) ==
  [p \in pols |-> IF p = first THEN Curators ELSE Offer("other", {Permit({})})]
=============================================================================
