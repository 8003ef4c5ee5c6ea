------------------------- MODULE MCProfileBootstrap -------------------------
(* The configured bundle, one with a root of another name, one with two roots, and one with a
   seed that its schema refuses. *)
EXTENDS ProfileBootstrap

Bundle(defs) ==
  [meta |-> <<"meta shape">>, schemas |-> <<"schema">>, offers |-> <<>>, defs |-> defs,
   root |-> <<"root">>, seeds |-> <<>>, bad |-> {}]

MCBundles   == <<Bundle(<<"repository", "catalog">>), Bundle(<<"fdp", "catalog">>), Bundle(<<"repository", "fdp">>),
                 [Bundle(<<"repository">>) EXCEPT !.bad = {"seed"}, !.seeds = <<"seed">>]>>
MCLicenses  == <<>>
MCSlugs     == {"repository", "fdp", "catalog", "dataset"}
MCRootSlugs == {"repository", "fdp"}
MCChildren  == [s \in MCSlugs |-> IF s \in MCRootSlugs THEN {"catalog"} ELSE {}]
MCSchemaOf  == [s \in MCSlugs |-> "schema"]
MCNames     == {"catalog", "class schema", "dataset", "fdp", "meta shape",
                 "old meta shape", "rd shape", "repository", "root", "schema", "seed"}
MCLegacy    == [n \in {"old meta shape"} |-> "meta shape"]
MCMoved     == [n \in {"class schema"} |-> "schema"]
=============================================================================
