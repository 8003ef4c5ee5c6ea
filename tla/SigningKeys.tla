----------------------------- MODULE SigningKeys -----------------------------
(***************************************************************************)
(* The signing keys of the identity provider as a server caches them       *)
(* (identity/jwks.py): a call that finds no usable copy, or not its key,   *)
(* takes the lock, looks again, and fetches the set, once more if its key  *)
(* is still missing.  The provider, which rotates its keys, is external.   *)
(***************************************************************************)
EXTENDS Naturals, FiniteSets

CONSTANTS
  Calls,
  Kids,          \* key ids, published or made up
  TTL,           \* cache_ttl, in ticks
  MaxLag,        \* bound: ticks a response takes
  MaxRotations,  \* bound: changes of the published set
  Nil

\* What the constants must satisfy; the module that makes the instance assumes it.
KeysAssumption == TTL \in Nat \ {0} /\ MaxLag \in Nat /\ MaxRotations \in Nat /\ Nil \notin Calls

VARIABLES
  published,  \* the keys the provider publishes
  gone,       \* ticks since each key was last published
  cached,     \* the copy: its keys, its age, and the ticks its response took; or Nil
  lock,       \* the call that holds it, or Nil
  call,       \* where each call is, its key, what it fetched, and how long ago
  rotations,
  refused     \* history: a call was refused a key that was published all along

vars == <<published, gone, cached, lock, call, rotations, refused>>

Idle == [pc |-> "idle", kid |-> Nil, got |-> {}, lag |-> 0, valid |-> FALSE]
Fresh == cached # Nil /\ cached.age < TTL
Oldest == TTL + MaxLag + 1
Goto(c, to) == call' = [call EXCEPT ![c].pc = to]

\* get_signing_key: the copy does not serve the call.
Begin(c) ==
  /\ call[c].pc = "idle"
  /\ \E k \in Kids : /\ ~(Fresh /\ k \in cached.keys)
                     /\ call' = [call EXCEPT ![c] = [Idle EXCEPT !.pc = "wait", !.kid = k,
                                                                 !.valid = k \in published]]
  /\ UNCHANGED <<published, gone, cached, lock, rotations, refused>>

\* A variant of Locked that fetches only when the copy has expired.
LockedOnce(c) ==
  /\ call[c].pc = "wait" /\ lock = Nil /\ lock' = c
  /\ Goto(c, IF ~Fresh \/ call[c].kid \in cached.keys THEN "fetch" ELSE "end")
  /\ UNCHANGED <<published, gone, cached, rotations, refused>>

\* Under the lock it looks again: what another call fetched may serve it.
Locked(c) ==
  /\ call[c].pc = "wait" /\ lock = Nil /\ lock' = c
  /\ Goto(c, IF ~Fresh THEN "fetch" ELSE IF call[c].kid \in cached.keys THEN "end" ELSE "again")
  /\ UNCHANGED <<published, gone, cached, rotations, refused>>

\* _refresh: the provider answers with its set ...
Answers(c) ==
  /\ call[c].pc \in {"fetch", "again"}
  /\ call' = [call EXCEPT ![c].pc = IF @ = "fetch" THEN "store" ELSE "last",
                          ![c].got = published, ![c].lag = 0]
  /\ UNCHANGED <<published, gone, cached, lock, rotations, refused>>

\* ... or fails, and so does the call; the copy stays.
Fails(c) ==
  /\ call[c].pc \in {"fetch", "again"}
  /\ call' = [call EXCEPT ![c] = Idle] /\ lock' = Nil
  /\ UNCHANGED <<published, gone, cached, rotations, refused>>

\* The set becomes the copy, and its time starts.
Keep(c) ==
  /\ call[c].pc \in {"store", "last"}
  /\ cached' = [keys |-> call[c].got, age |-> 0, lag |-> call[c].lag]
  /\ Goto(c, IF call[c].pc = "last" \/ call[c].kid \in call[c].got THEN "end" ELSE "again")
  /\ UNCHANGED <<published, gone, lock, rotations, refused>>

\* The key, or UnknownSigningKey.
End(c) ==
  /\ call[c].pc = "end"
  /\ refused' = (refused \/ (call[c].kid \notin cached.keys /\ call[c].valid))
  /\ call' = [call EXCEPT ![c] = Idle] /\ lock' = Nil
  /\ UNCHANGED <<published, gone, cached, rotations>>

-----------------------------------------------------------------------------
\* The provider publishes a key or withdraws one.
Rotate ==
  /\ rotations < MaxRotations /\ rotations' = rotations + 1
  /\ \E k \in Kids : published' = IF k \in published THEN published \ {k} ELSE published \cup {k}
  /\ gone' = [k \in Kids |-> IF k \in published' THEN 0 ELSE gone[k]]
  /\ call' = [c \in Calls |-> [call[c] EXCEPT !.valid = @ /\ call[c].kid \in published']]
  /\ UNCHANGED <<cached, lock, refused>>

Tick ==
  /\ \A c \in Calls : call[c].pc \in {"store", "last"} => call[c].lag < MaxLag
  /\ gone' = [k \in Kids |-> IF k \in published \/ gone[k] = Oldest THEN gone[k] ELSE gone[k] + 1]
  /\ cached' = IF Fresh THEN [cached EXCEPT !.age = @ + 1] ELSE cached
  /\ call' = [c \in Calls |-> IF call[c].pc \in {"store", "last"}
                              THEN [call[c] EXCEPT !.lag = @ + 1] ELSE call[c]]
  /\ UNCHANGED <<published, lock, rotations, refused>>

Init ==
  /\ published \in {{k} : k \in Kids}
  /\ gone = [k \in Kids |-> IF k \in published THEN 0 ELSE Oldest]
  /\ cached = Nil /\ lock = Nil /\ call = [c \in Calls |-> Idle]
  /\ rotations = 0 /\ refused = FALSE

Next ==
  \/ \E c \in Calls : Begin(c) \/ Locked(c) \/ Answers(c) \/ Fails(c) \/ Keep(c) \/ End(c)
  \/ Rotate \/ Tick

Spec == Init /\ [][Next]_vars

-----------------------------------------------------------------------------
\* A usable copy has no key that was withdrawn longer ago than the copy is old, its
\* response's travel included; and no overlap of calls, failing fetch or rotation
\* makes a call refuse a key that was published from its start to its end.
KeysCurrent ==
  /\ Fresh => \A k \in cached.keys : gone[k] <= cached.age + cached.lag
  /\ ~refused
=============================================================================
