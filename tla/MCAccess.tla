------------------------------ MODULE MCAccess ------------------------------
(***************************************************************************)
(* Instances of Access: a catalog and a dataset, one of which is part of   *)
(* the other or each of the other, and a record that nobody may read; two  *)
(* servers, one of which has two calls of its cached reader; two policies, *)
(* one of them out of the profile, and a licence; two keys; two subjects.  *)
(***************************************************************************)
EXTENDS MCAuthzIndex, Access

Secret     == "secret"
MCReadings == MCRecords \cup {Secret}

PartOf == {[r \in MCReadings |-> IF r = "dataset" THEN "catalog" ELSE Nil],
           [r \in MCReadings |-> CASE r = "dataset" -> "catalog" [] r = "catalog" -> "dataset"
                                  [] r = Secret -> Nil]}

AnyCaller == {"anonymous", "member", "admin"}

Both   == {"s1", "s2"}
Two    == {"r1", "r2"}
OnOne  == [r \in Two |-> "s1"]

Menu == INSTANCE DocumentBodies

Curated   == {"curated", "other"}
MCBodies  == Menu!AllBodies
MCTexts   == Menu!Statements
MCPeople  == Menu!People
MCSeeds   == Menu!SeedsOf(Curated, "curated")
=============================================================================
