------------------------ MODULE PublicationLifecycle ------------------------
(***************************************************************************)
(* What ADR-0010 and metadata/meta.py promise about the life of a record,  *)
(* one atomic step per request: provenance is stamped once, a content edit *)
(* bumps the version and keeps everything else, and the publication state  *)
(* moves only along the state machine.                                     *)
(***************************************************************************)
EXTENDS Naturals

CONSTANTS Records, Nil
VARIABLE life       \* life[r]: Nil, or the provenance and state of record r

Others(r) == \A q \in Records \ {r} : life'[q] = life[q]

Created(r) ==
  /\ life[r] = Nil
  /\ life'[r] # Nil
  /\ life'[r].born # 0 /\ life'[r].version = 1
  /\ life'[r].state \in {"DRAFT", "PUBLISHED"}

Edited(r) ==
  /\ life[r] # Nil
  /\ life'[r] = [life[r] EXCEPT !.version = @ + 1]

Moves == { <<"DRAFT", "PUBLISHED">>, <<"PUBLISHED", "DRAFT">>,
           <<"PUBLISHED", "ARCHIVED">>, <<"ARCHIVED", "DRAFT">> }

Moved(r) ==
  /\ life[r] # Nil
  /\ \E m \in Moves : life[r].state = m[1] /\ life'[r] = [life[r] EXCEPT !.state = m[2]]

Deleted(r) == life[r] # Nil /\ life'[r] = Nil

Init == \A r \in Records :
          life[r] = Nil \/ (life[r].born # 0 /\ life[r].version = 1 /\ life[r].state = "PUBLISHED")

Next == \E r \in Records :
          Others(r) /\ (Created(r) \/ Edited(r) \/ Moved(r) \/ Deleted(r))

Spec == Init /\ [][Next]_life
=============================================================================
