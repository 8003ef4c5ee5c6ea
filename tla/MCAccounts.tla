----------------------------- MODULE MCAccounts -----------------------------
(***************************************************************************)
(* An instance of Accounts: two people and two requests at a time.         *)
(***************************************************************************)
EXTENDS Accounts, TLC

CONSTANTS p1, p2

People == {"ann", "ben"}
Patch(role, status, profile) == [role |-> role, status |-> status, profile |-> profile]
SomeBodies == {Patch("plain", Nil, FALSE), Patch(Nil, "disabled", FALSE), Patch(Nil, Nil, TRUE)}

Admin == [status |-> "enabled", role |-> "admin"]
With(ben, most, places, edits, raises) ==
  [accounts |-> "ann" :> Admin @@ "ben" :> ben, procs |-> most, rows |-> places,
   changes |-> edits, faults |-> raises]
Nobody(status) == [status |-> status, role |-> "plain"]

\* Two administrators; an account yet to be created; the keys of one person.
SomeInstances ==
  {With(Admin, {p1}, 0, 2, 1), With(Nobody("never"), {p1}, 0, 1, 1),
   With(Nobody("gone"), {p1, p2}, 1, 1, 1), With(Nobody("gone"), {p1, p2}, 2, 0, 0)}
=============================================================================
