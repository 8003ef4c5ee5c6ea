--------------------------- MODULE MetadataRecords ---------------------------
(***************************************************************************)
(* The values the FDP keeps about one metadata record, and the pure        *)
(* functions that compute the next value: the record graph and its         *)
(* <record>/meta sibling (metadata/repository.py, meta.py), the            *)
(* publication state machine (states.py) and the forward containment link  *)
(* of a parent (containment.py).  No state: LdpService holds the store.    *)
(***************************************************************************)
EXTENDS Naturals

CONSTANTS
  Records,    \* canonical record IRIs
  Bodies,     \* what a record graph says besides dct:isPartOf and ldp:contains
  Nil,        \* an absent graph, or no dct:isPartOf
  Keep        \* a PATCH body that leaves dct:isPartOf as it is

ASSUME NilAssumption == Nil \notin Records /\ Keep \notin Records \cup {Nil}

\* A non-empty record graph.  Graphs are equal exactly when their ETags are.
Graph == [body : Bodies, parent : Records \cup {Nil}, members : SUBSET Records]

MetadataState == {"DRAFT", "PUBLISHED", "ARCHIVED"}
DefaultState  == "DRAFT"
SeedState     == "PUBLISHED"

\* born stands for dct:created and dct:creator, which are set together (0:
\* neither is present); version for owl:versionInfo (0: not present).
Meta == [born : Nat, version : Nat, state : MetadataState]

\* _TRANSITIONS: the moves of the state machine; TRUE marks an admin-only move.
Transitions ==
  { <<"DRAFT", "PUBLISHED", FALSE>>, <<"PUBLISHED", "DRAFT", FALSE>>,
    <<"PUBLISHED", "ARCHIVED", FALSE>>, <<"ARCHIVED", "DRAFT", TRUE>> }

TransitionAllowed(from, to, admin) ==
  \E needsAdmin \in BOOLEAN :
     <<from, to, needsAdmin>> \in Transitions /\ (needsAdmin => admin)

\* A variant of BuildMetaGraph that sets the state on every write.
BuildMetaGraphResetsState(prior, stamp, initialState) ==
  IF prior = Nil
  THEN [born |-> stamp, version |-> 1, state |-> initialState]
  ELSE [prior EXCEPT !.version = @ + 1, !.state = initialState]

\* build_meta_graph: a content write bumps the version, and sets provenance
\* and state only when the prior meta graph has no dct:created.
BuildMetaGraph(prior, stamp, initialState) ==
  IF prior = Nil
  THEN [born |-> stamp, version |-> 1, state |-> initialState]
  ELSE IF prior.born = 0
  THEN [born |-> stamp, version |-> prior.version + 1, state |-> initialState]
  ELSE [prior EXCEPT !.version = @ + 1]

\* StateService._write_state: swap the state triple of whatever meta graph is
\* there; an absent one becomes a graph that holds nothing but the state.
SwapState(prior, to) ==
  IF prior = Nil THEN [born |-> 0, version |-> 0, state |-> to]
                 ELSE [prior EXCEPT !.state = to]

\* MetadataRepository.get_meta: does the meta graph carry a dct:created stamp?
HasCreated(m) == IF m = Nil THEN FALSE ELSE m.born # 0

\* The _apply step of ContainmentManager: the parent graph with the link to
\* child added or removed, and whether that is a change at all.
LinkChanges(parentGraph, child, add) ==
  IF parentGraph = Nil THEN FALSE ELSE (child \in parentGraph.members) # add

WithLink(parentGraph, child, add) ==
  [parentGraph EXCEPT !.members = IF add THEN @ \cup {child} ELSE @ \ {child}]

\* _parent_of: the dct:isPartOf of a graph; none for an absent graph.
ParentOf(graph) == IF graph = Nil THEN Nil ELSE graph.parent
===============================================================================
