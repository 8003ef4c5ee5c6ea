---------------------------- MODULE MCLdpService ----------------------------
(***************************************************************************)
(* Instances of LdpService for TLC: a root and a catalog, both containers  *)
(* seeded by the profile, and a dataset below them.                        *)
(***************************************************************************)
EXTENDS LdpService

CONSTANTS root, cat, ds, b0, b1

MCRecords    == {root, cat, ds}
MCContainers == {root, cat}
MCBodies     == {b0, b1}

RootGraph == [body |-> b0, parent |-> Nil,  members |-> {cat}]
CatGraph(members) == [body |-> b0, parent |-> root, members |-> members]
DsGraph   == [body |-> b0, parent |-> cat,  members |-> {}]

\* The dataset is still to be created, or is there under the catalog.
SeedWithoutDs == [r \in MCRecords |->
  IF r = root THEN RootGraph ELSE IF r = cat THEN CatGraph({}) ELSE Nil]
SeedWithDs == [r \in MCRecords |->
  IF r = root THEN RootGraph ELSE IF r = cat THEN CatGraph({ds}) ELSE DsGraph]

Req(method, iri, pre, body, parent, state, admin) ==
  [method |-> method, iri |-> iri, container |-> cat, pre |-> pre, body |-> body,
   parent |-> parent, state |-> state, admin |-> admin]

\* Requests on the dataset: creates under either parent, edits, moves, deletes.
Puts(pres, parents, states) ==
  {Req("PUT", ds, pre, b1, parent, state, FALSE) :
     pre \in pres, parent \in parents, state \in states}
Posts(parents, states) ==
  {Req("POST", ds, "none", b1, parent, state, FALSE) : parent \in parents, state \in states}
Patches(parents) == {Req("PATCH", ds, "etag", b1, parent, "DRAFT", FALSE) : parent \in parents}
Deletes(iris, pres) ==
  {Req("DELETE", iri, pre, b0, Nil, "DRAFT", FALSE) : iri \in iris, pre \in pres}
States(iris, targets, admins) ==
  {Req("STATE", iri, "none", b0, Nil, state, admin) :
     iri \in iris, state \in targets, admin \in admins}
ContainerPuts(pres) ==
  {Req("PUT", cat, pre, b1, root, "DRAFT", FALSE) : pre \in pres}

ExclusiveRequests ==
  Puts({"none", "etag", "star"}, {cat, root}, {"DRAFT"}) \cup Posts({cat, Nil}, {"PUBLISHED"})
    \cup Patches({Keep}) \cup Deletes({ds, cat}, {"etag"})
    \cup States({ds}, {"PUBLISHED", "ARCHIVED", "DRAFT"}, {TRUE})
    \cup ContainerPuts({"none", "etag"})

ConcurrentRequests ==
  Puts({"none", "etag"}, {cat}, {"PUBLISHED"}) \cup Posts({cat}, {"DRAFT"})
    \cup Deletes({ds, cat}, {"etag"}) \cup States({ds}, {"PUBLISHED", "ARCHIVED"}, {FALSE})
=============================================================================
