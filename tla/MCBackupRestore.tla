--------------------------- MODULE MCBackupRestore ---------------------------
(***************************************************************************)
(* An instance of Operations.                                              *)
(***************************************************************************)
EXTENDS Operations

CONSTANTS rec, meta

GraphsDef == <<rec, meta>>

\* Archives hold what the last numbered write left, as the initial store may.
Loaded == [scope |-> "full", graphs |-> [g \in {rec, meta} |-> MaxWrite], bound |-> TRUE,
           rows |-> {MaxWrite}, rev |-> Newest, base |-> "own", sealed |-> FALSE, bad |-> {}]
Stored == [Loaded EXCEPT !.scope = "store"]

Dump(via, scope, seal) ==
  [kind |-> "dump", via |-> via, scope |-> scope, audit |-> TRUE, seal |-> seal]
Restore(via, a) ==
  [kind |-> "restore", via |-> via, archive |-> a, pass |-> "none", merge |-> FALSE,
   overwrite |-> TRUE, audit |-> TRUE, dry |-> FALSE, rebase |-> FALSE]

RequestsDef ==
  { Dump("http", "full", TRUE), Dump("http", "store", FALSE),
    [Restore("http", Nil) EXCEPT !.pass = "right"],
    Restore("http", [Loaded EXCEPT !.rev = 1]),
    [Restore("http", Loaded) EXCEPT !.dry = TRUE],
    [Restore("http", [Stored EXCEPT !.bad = {"audit"}, !.bound = FALSE]) EXCEPT
       !.overwrite = FALSE, !.merge = TRUE],
    [Restore("cli", [Loaded EXCEPT !.rev = 1, !.base = "other", !.bound = FALSE]) EXCEPT !.rebase = TRUE],
    [Restore("cli", [Loaded EXCEPT !.sealed = TRUE, !.bad = {"rows"}]) EXCEPT
       !.overwrite = FALSE, !.pass = "right"] }

\* Records that contain each other, one below two others, and a link off the origin.
TreesDef == {[r \in {"root", "a", "b"} |->
  CASE r = "root" -> {"a", "b"} [] r = "a" -> {"b", "root", "elsewhere"} [] r = "b" -> {"a"}]}
=============================================================================
