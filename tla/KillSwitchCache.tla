--------------------------- MODULE KillSwitchCache ---------------------------
(***************************************************************************)
(* The kill-switch probe of a Hermes agent (security/killswitch.ts): every *)
(* autonomous action first asks isActive(), which answers from a cache of  *)
(* CacheMs or reads the row of table kill_switch.                          *)
(*                                                                         *)
(* The tasks of one agent process share the cache and ask at the same      *)
(* time.  A call notes the clock, then awaits the read; the row is read at *)
(* one instant and its value arrives at a later one, so that values may    *)
(* arrive in another order than they were read.  Time is discrete; all     *)
(* steps between two ticks happen at the same time.                        *)
(***************************************************************************)
EXTENDS Integers

CONSTANTS
  Callers,  \* calls of isActive in progress at one time: the tasks of the agent
  CacheMs,  \* KILL_SWITCH_CACHE_MS, in ticks
  MaxTime   \* bound on the clock

ASSUME CacheAssumption == CacheMs \in Nat \ {0} /\ MaxTime \in Nat

VARIABLES
  actif,    \* kill_switch.actif in Postgres
  now,      \* the clock of the process
  cache,    \* the cached value and the time of the call that read it
  call,     \* what each call awaits
  asked,    \* `now` as each call noted it
  row,      \* the value read for each call
  active,   \* what the last call returned
  \* history, read by properties only
  failed,   \* the last call returned without a value of its own or a fresh one
  lastOff   \* the last time the switch was off; -1: never so far

switch == <<actif, now, lastOff>>
probe == <<cache, call, asked, row, active, failed>>
probeVars == <<switch, probe>>

NoCache == [known |-> FALSE, value |-> TRUE, at |-> 0]

ProbeInit ==
  /\ actif \in BOOLEAN /\ now = 0 /\ lastOff = IF actif THEN -1 ELSE 0
  /\ cache = NoCache
  /\ call = [c \in Callers |-> "idle"]
  /\ asked = [c \in Callers |-> 0]
  /\ row = [c \in Callers |-> TRUE]
  /\ active = [c \in Callers |-> TRUE]
  /\ failed = [c \in Callers |-> FALSE]

----------------------------------------------------------------------------
(* The world: the bridge moves the switch, time passes *)

MoveSwitch ==
  /\ actif' = ~actif
  /\ lastOff' = IF actif THEN now ELSE lastOff
  /\ UNCHANGED <<now, probe>>

Tick ==
  /\ now < MaxTime
  /\ now' = now + 1
  /\ lastOff' = IF actif THEN lastOff ELSE now + 1
  /\ UNCHANGED <<actif, probe>>

----------------------------------------------------------------------------
(* isActive *)

Fresh == cache.known /\ now - cache.at < CacheMs

Return(c, value, onError) ==
  /\ active' = [active EXCEPT ![c] = value]
  /\ failed' = [failed EXCEPT ![c] = onError]
  /\ call' = [call EXCEPT ![c] = "returned"]

\* The call up to its await.
IsActive(c) ==
  /\ call[c] = "idle"
  /\ asked' = [asked EXCEPT ![c] = now]
  /\ \/ Fresh /\ Return(c, cache.value, FALSE)
     \/ ~Fresh /\ call' = [call EXCEPT ![c] = "reading"] /\ UNCHANGED <<active, failed>>
  /\ UNCHANGED <<switch, cache, row>>

\* SELECT actif FROM kill_switch WHERE id = 1
ReadRow(c) ==
  /\ call[c] = "reading"
  /\ row' = [row EXCEPT ![c] = actif]
  /\ call' = [call EXCEPT ![c] = "read"]
  /\ UNCHANGED <<switch, cache, asked, active, failed>>

\* Mutant: the entry is dated when the value arrives.
StoreDatedOnArrival(c) ==
  /\ call[c] = "read"
  /\ cache' = [known |-> TRUE, value |-> row[c], at |-> now]
  /\ Return(c, row[c], FALSE)
  /\ UNCHANGED <<switch, asked, row>>

\* The value arrives.  The entry is dated by the call, not by its arrival.
Store(c) ==
  /\ call[c] = "read"
  /\ cache' = [known |-> TRUE, value |-> row[c], at |-> asked[c]]
  /\ Return(c, row[c], FALSE)
  /\ UNCHANGED <<switch, asked, row>>

\* Mutant: without a cached value a failed read counts as inactive.
ReadFailsOpen(c) ==
  /\ call[c] \in {"reading", "read"}
  /\ Return(c, cache.known /\ cache.value, TRUE)
  /\ UNCHANGED <<switch, cache, asked, row>>

\* The read fails: the cached value, however old, or active.
ReadFails(c) ==
  /\ call[c] \in {"reading", "read"}
  /\ Return(c, ~cache.known \/ cache.value, TRUE)
  /\ UNCHANGED <<switch, cache, asked, row>>

\* The caller goes on with the value it got; the locals of the call are gone.
Resume(c) ==
  /\ call[c] = "returned"
  /\ call' = [call EXCEPT ![c] = "idle"]
  /\ asked' = [asked EXCEPT ![c] = 0] /\ row' = [row EXCEPT ![c] = TRUE]
  /\ active' = [active EXCEPT ![c] = TRUE]
  /\ UNCHANGED <<switch, cache, failed>>

\* The process restarts: the cache and the calls are gone.
Restart ==
  /\ cache' = NoCache
  /\ call' = [c \in Callers |-> "idle"]
  /\ asked' = [c \in Callers |-> 0] /\ row' = [c \in Callers |-> TRUE]
  /\ active' = [c \in Callers |-> TRUE]
  /\ UNCHANGED <<switch, failed>>

Probe(c) == IsActive(c) \/ ReadRow(c) \/ Store(c) \/ ReadFails(c)

ProbeNext == MoveSwitch \/ Tick \/ Restart \/ \E c \in Callers : Probe(c) \/ Resume(c)

ProbeSpec == ProbeInit /\ [][ProbeNext]_probeVars
----------------------------------------------------------------------------
(* Properties *)

\* Types of the probe's state.
ProbeTypeOK ==
  /\ actif \in BOOLEAN /\ now \in Nat /\ lastOff \in Int
  /\ cache \in [known : BOOLEAN, value : BOOLEAN, at : Nat]
  /\ call \in [Callers -> {"idle", "reading", "read", "returned"}]
  /\ asked \in [Callers -> Nat] /\ row \in [Callers -> BOOLEAN]
  /\ active \in [Callers -> BOOLEAN] /\ failed \in [Callers -> BOOLEAN]

\* "Cache bounded to 2 s max" (killswitch.ts): unless its read failed, a call
\* that returned "inactive" is right about an instant less than CacheMs before
\* it was asked, whatever the order in which overlapping reads arrived.
BoundedStaleness ==
  \A c \in Callers :
    call[c] = "returned" /\ ~active[c] /\ ~failed[c] => lastOff > asked[c] - CacheMs

\* "Fail-closed" (killswitch.ts): also with failed reads, no call returns
\* "inactive" as long as the switch has never been off.
NeverOffFromNothing ==
  \A c \in Callers : call[c] = "returned" /\ ~active[c] => lastOff >= 0
=============================================================================
