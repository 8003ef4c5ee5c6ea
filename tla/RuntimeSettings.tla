--------------------------- MODULE RuntimeSettings ---------------------------
(***************************************************************************)
(* One key of the runtime settings (metadata/settings.py): its row in      *)
(* Postgres, which the servers of a deployment share, and the copy that    *)
(* the CachedSettingReader of each server keeps for TTL ticks of its       *)
(* clock.  A write commits and then tells the readers of its own server;   *)
(* those of the others converge when their copies expire.                  *)
(*                                                                         *)
(* Ages are counted in ticks, up to TTL, where they stay.                  *)
(***************************************************************************)
EXTENDS Naturals, FiniteSets

CONSTANTS
  Servers,
  Readers,     \* calls of the cached readers that run together ...
  Home,        \* ... and the server of each
  Values,      \* what validates against the schema of the key
  Default,     \* the registered default
  TTL,
  MaxWrites,   \* bound: writes
  Nil, Drifted \* no row; a row that no longer validates

\* What the constants must satisfy; the module that makes the instance assumes it.
SettingsAssumption ==
  /\ Home \in [Readers -> Servers]
  /\ Default \in Values /\ {Nil, Drifted} \cap Values = {}
  /\ TTL \in Nat \ {0} /\ MaxWrites \in Nat

VARIABLES
  row,       \* of runtime_settings
  ago,       \* ticks since each value was in force
  copy,      \* of each server: the value and the ticks since loaded_at, or Nil
  reading,   \* of each call: how far it is, its age, and what it fetched
  telling,   \* of each server: its writes that have committed and told nobody
  behind,    \* history: servers whose copy a write may have left behind
  writes

vars == <<row, ago, copy, reading, telling, behind, writes>>

Idle == [pc |-> "idle", age |-> 0, value |-> Nil]

\* read_with_default: a row that is absent or does not validate is the default.
Effective == IF row \in Values THEN row ELSE Default

Older(age) == IF age < TTL THEN age + 1 ELSE TTL

\* The copy of s is returned as it is.
Usable(s) == copy[s] # Nil /\ copy[s].age < TTL

-----------------------------------------------------------------------------
(* CachedSettingReader.                                                    *)

\* A call that finds no usable copy; it takes the time before it reads.
Begin(r) ==
  /\ reading[r].pc = "idle" /\ ~Usable(Home[r])
  /\ reading' = [reading EXCEPT ![r].pc = "fetch"]
  /\ UNCHANGED <<row, ago, copy, telling, behind, writes>>

\* The row; or the database raises and so does the call.
Fetch(r) ==
  /\ reading[r].pc = "fetch"
  /\ reading' = [reading EXCEPT ![r] = [@ EXCEPT !.pc = "store", !.value = Effective]]
  /\ UNCHANGED <<row, ago, copy, telling, behind, writes>>

FetchRaises(r) ==
  /\ reading[r].pc = "fetch"
  /\ reading' = [reading EXCEPT ![r] = Idle]
  /\ UNCHANGED <<row, ago, copy, telling, behind, writes>>

\* A variant of Store that takes the time after the read.
StoreAsNew(r) ==
  /\ reading[r].pc = "store"
  /\ copy' = [copy EXCEPT ![Home[r]] = [value |-> reading[r].value, age |-> 0]]
  /\ reading' = [reading EXCEPT ![r] = Idle]
  /\ UNCHANGED <<row, ago, telling, behind, writes>>

Store(r) ==
  /\ reading[r].pc = "store"
  /\ copy' = [copy EXCEPT ![Home[r]] = [value |-> reading[r].value, age |-> reading[r].age]]
  /\ reading' = [reading EXCEPT ![r] = Idle]
  /\ UNCHANGED <<row, ago, telling, behind, writes>>

-----------------------------------------------------------------------------
(* SettingsRepository.                                                     *)

\* The transaction of a write at s.
Commit(s, to) ==
  /\ writes < MaxWrites /\ writes' = writes + 1
  /\ row' = to
  /\ ago' = [ago EXCEPT ![IF to \in Values THEN to ELSE Default] = 0]
  /\ telling' = [telling EXCEPT ![s] = @ + 1]
  /\ behind' = Servers
  /\ UNCHANGED <<copy, reading>>

\* PUT /settings/{key}
Write(s, v) == Commit(s, v)

\* DELETE /settings/{key}: the delete that finds no row tells nobody.
Removed   == row # Nil
Delete(s) == Removed /\ Commit(s, Nil)

\* The factory reset clears every key and tells the readers of all.
ClearAll(s) == Commit(s, Nil)

\* _notify: the listener drops the copy.
Notify(s) ==
  /\ telling[s] > 0
  /\ telling' = [telling EXCEPT ![s] = @ - 1]
  /\ copy' = [copy EXCEPT ![s] = Nil]
  /\ behind' = IF \E r \in Readers : Home[r] = s /\ reading[r].pc = "store" THEN behind
               ELSE behind \ {s}
  /\ UNCHANGED <<row, ago, reading, writes>>

Tick ==
  /\ ago' = [v \in Values |-> IF v = Effective THEN 0 ELSE Older(ago[v])]
  /\ copy' = [s \in Servers |-> IF copy[s] = Nil THEN Nil ELSE [copy[s] EXCEPT !.age = Older(@)]]
  /\ reading' = [r \in Readers |-> IF reading[r] = Idle THEN Idle
                                   ELSE [reading[r] EXCEPT !.age = Older(@)]]
  /\ UNCHANGED <<row, telling, behind, writes>>

-----------------------------------------------------------------------------
Init ==
  /\ row \in {Nil, Drifted}
  /\ ago = [v \in Values |-> IF v = Default THEN 0 ELSE TTL]
  /\ copy = [s \in Servers |-> Nil] /\ reading = [r \in Readers |-> Idle]
  /\ telling = [s \in Servers |-> 0] /\ behind = {} /\ writes = 0

Next ==
  \/ \E r \in Readers : Begin(r) \/ Fetch(r) \/ FetchRaises(r) \/ Store(r)
  \/ \E s \in Servers : \/ \E v \in Values : Write(s, v)
                        \/ Delete(s) \/ ClearAll(s) \/ Notify(s)
  \/ Tick

Spec == Init /\ [][Next]_vars

-----------------------------------------------------------------------------
(* Properties.                                                             *)

\* On every server, a value that would be returned from memory was in force no
\* longer ago than its copy is old, so less than TTL ticks ago.
CopiesRecent == \A s \in Servers : Usable(s) => ago[copy[s].value] <= copy[s].age

\* A server whose own write was the last, told its reader, and met no call that
\* had already fetched, never returns an older value.
OwnWritesSeen == \A s \in Servers \ behind : Usable(s) => copy[s].value = Effective

\* What "dropped immediately when this repository writes the key and otherwise
\* expires after ttl_seconds" gives a caller.
SettingsCurrent == CopiesRecent /\ OwnWritesSeen
=============================================================================
