---------------------------- MODULE SavedSearches ----------------------------
(***************************************************************************)
(* Saved searches (metadata/search/saved.py): their owner renames and      *)
(* deletes them, an administrator also shares them.  A request reads the   *)
(* row to see whether it may, then changes it in a transaction of its own, *)
(* which loads the row again and updates the columns it assigned another   *)
(* value.                                                                  *)
(***************************************************************************)
EXTENDS Naturals, FiniteSets

CONSTANTS
  Subjects, Admins,
  Requests,
  Ids,         \* the searches that are ever made; an id is never used again
  Names, Nil

\* What the constants must satisfy; the module that makes the instance assumes it.
SearchesAssumption == Admins \subseteq Subjects /\ Nil \notin Subjects \cup Names

VARIABLES
  row,      \* search_saved_queries: owner, name and shared flag of each id, or Nil
  made,     \* ids that were given out
  request,  \* what each request is about to do
  last,     \* history: the last value given to each column ...
  raced,    \* ... and the columns two transactions wrote at once
  dead      \* history: ids whose delete committed

vars == <<row, made, request, last, raced, dead>>

Columns == {"name", "shared"}
Idle == [pc |-> "idle", who |-> Nil, id |-> Nil, name |-> Nil, shared |-> Nil, seen |-> Nil]

\* The columns a request assigns, and those its transaction updates.
Assigns(q) == {f \in Columns : request[q][f] # Nil}

\* A variant of Updates: the row is written back as it was loaded, changes applied.
UpdatesWhole(q) == Columns

Updates(q) == {f \in Assigns(q) : request[q][f] # request[q].seen[f]}

Create(s) ==
  /\ \E i \in Ids \ made, n \in Names :
       /\ row' = [row EXCEPT ![i] = [owner |-> s, name |-> n, shared |-> FALSE]]
       /\ last' = [last EXCEPT ![i] = [name |-> n, shared |-> FALSE]]
       /\ made' = made \cup {i}
  /\ UNCHANGED <<request, raced, dead>>

MayChange(s, i) == s = row[i].owner \/ s \in Admins

\* update: the row is there, the caller may change it, and share it.
AdmitUpdate(q, s) ==
  /\ request[q] = Idle
  /\ \E i \in Ids, n \in Names \cup {Nil}, sh \in BOOLEAN \cup {Nil} :
       /\ row[i] # Nil /\ MayChange(s, i) /\ (sh # Nil => s \in Admins)
       /\ request' = [request EXCEPT ![q] = [Idle EXCEPT !.pc = "load", !.who = s, !.id = i,
                                                         !.name = n, !.shared = sh]]
  /\ UNCHANGED <<row, made, last, raced, dead>>

\* The transaction loads the row; without one it does nothing, and the read that
\* follows finds none either.
Load(q) ==
  /\ request[q].pc = "load"
  /\ request' = [request EXCEPT ![q] = IF row[request[q].id] = Nil THEN Idle
                                       ELSE [@ EXCEPT !.pc = "flush", !.seen = row[request[q].id]]]
  /\ UNCHANGED <<row, made, last, raced, dead>>

Overlaps(q, f) ==
  \E o \in Requests \ {q} : /\ request[o].pc = "flush" /\ request[o].id = request[q].id
                            /\ f \in Assigns(o)

Written(q, f) == IF request[q][f] = Nil THEN request[q].seen[f] ELSE request[q][f]

\* It commits; a row that was deleted meanwhile makes it fail.
Flush(q) ==
  LET i == request[q].id IN
  /\ request[q].pc = "flush"
  /\ IF row[i] = Nil THEN UNCHANGED <<row, last, raced>>
     ELSE /\ row' = [row EXCEPT ![i] = [owner  |-> row[i].owner,
               name   |-> IF "name" \in Updates(q) THEN Written(q, "name") ELSE row[i].name,
               shared |-> IF "shared" \in Updates(q) THEN Written(q, "shared") ELSE row[i].shared]]
          /\ last' = [last EXCEPT ![i] = [f \in Columns |-> IF f \in Assigns(q) THEN request[q][f]
                                                            ELSE last[i][f]]]
          /\ raced' = raced \cup {<<i, f>> : f \in {g \in Assigns(q) : Overlaps(q, g)}}
  /\ request' = [request EXCEPT ![q] = Idle]
  /\ UNCHANGED <<made, dead>>

AdmitDelete(q, s) ==
  /\ request[q] = Idle
  /\ \E i \in Ids : /\ row[i] # Nil /\ MayChange(s, i)
                    /\ request' = [request EXCEPT ![q] = [Idle EXCEPT !.pc = "delete", !.id = i]]
  /\ UNCHANGED <<row, made, last, raced, dead>>

Delete(q) ==
  /\ request[q].pc = "delete"
  /\ row' = [row EXCEPT ![request[q].id] = Nil] /\ dead' = dead \cup {request[q].id}
  /\ request' = [request EXCEPT ![q] = Idle]
  /\ UNCHANGED <<made, last, raced>>

Init ==
  /\ row = [i \in Ids |-> Nil] /\ made = {} /\ request = [q \in Requests |-> Idle]
  /\ last = [i \in Ids |-> [f \in Columns |-> Nil]] /\ raced = {} /\ dead = {}

Next ==
  \/ \E s \in Subjects : Create(s)
  \/ \E q \in Requests, s \in Subjects : AdmitUpdate(q, s) \/ AdmitDelete(q, s)
  \/ \E q \in Requests : Load(q) \/ Flush(q) \/ Delete(q)

Spec == Init /\ [][Next]_vars

-----------------------------------------------------------------------------
\* A column shows the last value it was given, whatever was written to the other
\* column meanwhile, except where two requests gave it one at once; and a search that
\* was deleted does not come back with an update that was under way.
SearchesKept ==
  \A i \in Ids :
    /\ i \in dead => row[i] = Nil
    /\ row[i] # Nil => \A f \in Columns : <<i, f>> \in raced \/ row[i][f] = last[i][f]
=============================================================================
