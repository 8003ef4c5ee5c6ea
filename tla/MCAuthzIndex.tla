---------------------------- MODULE MCAuthzIndex ----------------------------
(***************************************************************************)
(* Instances of AuthzIndex: a catalog and a dataset, an anonymous visitor   *)
(* and a signed-in one.                                                    *)
(***************************************************************************)
EXTENDS AuthzIndex, TLC

MCRecords == {"catalog", "dataset"}
MCPolicies == {"public", "members"}
People == {"anon", "alice"}

\* Processes differ in nothing but their name.
Symmetry == Permutations(Procs)

\* One index row per context.
OneKeyEach == [c \in Contexts |-> c]

L(rights, parent) == [rights |-> rights, parent |-> parent]

OnePolicy == {"public"}

\* The dataset names a policy, the catalog none.
OwnRights == [r \in Records |-> L(IF r = "catalog" THEN Nil ELSE "public", Nil)]

\* The dataset inherits its rights from the catalog.
Inherited == [r \in Records |-> IF r = "catalog" THEN L("public", Nil) ELSE L(Nil, "catalog")]

Everybody == [p \in Policies |-> IF p = "public" THEN Contexts ELSE {"alice"}]

PublicForAll == [p \in Policies |-> IF p = "public" THEN Contexts ELSE {}]
Members == [p \in Policies |-> {"alice"}]

NoOffer == {}
Shut == {{}}
NoLinks == {}
\* What the dataset is edited to: other rights, or those of the catalog.
ToMembers == {L("members", "catalog")}
IntoCatalog == {L(Nil, "catalog")}
BothModes == {"open", "odrl"}
NoModes == {}
=============================================================================
