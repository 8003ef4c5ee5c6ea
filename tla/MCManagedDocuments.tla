------------------------- MODULE MCManagedDocuments -------------------------
(***************************************************************************)
(* A policy that permits until a moment, and readers without a role.       *)
(***************************************************************************)
EXTENDS ManagedDocuments

Menu == INSTANCE DocumentBodies

Readers == {c \in Menu!People : c.roles = {}}
Timed == [p \in Policies |-> Menu!Offer(Nil, {Menu!Permit({Menu!C("dateTime", "lt", Menu!Date(1))})})]
Written == {Timed[p] : p \in Policies}
=============================================================================
