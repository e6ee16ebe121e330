----------------------- MODULE KillSwitchCacheProofs -----------------------
(***************************************************************************)
(* Proofs about the kill-switch probe: for any number of callers, any      *)
(* cache time and any clock, an "inactive" is at most CacheMs old.         *)
(***************************************************************************)
EXTENDS KillSwitchCache, TLAPS

\* History and clock: a switch that is off now was off last now.
ClockOK == lastOff \in -1 .. now /\ (~actif => lastOff = now)

\* What the cache says was true when its entry was asked for, or later.
CacheTrue == cache.at <= now /\ (cache.known /\ ~cache.value => lastOff >= cache.at)

\* So is what was read for a call and has not arrived.
RowTrue ==
  \A c \in Callers : /\ asked[c] <= now
                     /\ call[c] = "read" /\ ~row[c] => lastOff >= asked[c]

\* The inductive invariant.
ProbeInv ==
  ProbeTypeOK /\ ClockOK /\ CacheTrue /\ RowTrue /\ BoundedStaleness /\ NeverOffFromNothing

----------------------------------------------------------------------------
(* Each action preserves the types and the invariant. *)

\* The initial states satisfy the invariant (constructor of KillSwitch).
LEMMA InitInv == ProbeInit => ProbeInv
<1> SUFFICES ASSUME ProbeInit PROVE ProbeInv  OBVIOUS
<1>1. ProbeTypeOK  BY DEF ProbeInit, ProbeTypeOK, NoCache
<1>2. ClockOK  BY DEF ProbeInit, ClockOK
<1>3. CacheTrue /\ RowTrue  BY DEF ProbeInit, CacheTrue, RowTrue, NoCache
<1>4. BoundedStaleness /\ NeverOffFromNothing
  BY DEF ProbeInit, BoundedStaleness, NeverOffFromNothing
<1> QED  BY <1>1, <1>2, <1>3, <1>4 DEF ProbeInv

\* Steps outside the probe change neither the cache nor a call, and the last
\* time the switch was off only moves forward.
LEMMA WorldInv == ProbeInv /\ (MoveSwitch \/ Tick) => ProbeInv'
<1> SUFFICES ASSUME ProbeInv, MoveSwitch \/ Tick PROVE ProbeInv'  OBVIOUS
<1> USE DEF ProbeInv, ProbeTypeOK, ClockOK
<1>1. /\ now' \in Nat /\ lastOff' \in Int /\ actif' \in BOOLEAN
      /\ now <= now' /\ lastOff <= lastOff' /\ UNCHANGED probe
  <2>1. CASE MoveSwitch
    <3>1. UNCHANGED <<now, probe>> /\ actif' \in BOOLEAN  BY <2>1 DEF MoveSwitch
    <3>2. lastOff' = IF actif THEN now ELSE lastOff  BY <2>1 DEF MoveSwitch
    <3> QED  BY <3>1, <3>2
  <2>2. CASE Tick
    BY <2>2 DEF Tick
  <2> QED  BY <2>1, <2>2
<1>2. ClockOK'  BY DEF MoveSwitch, Tick
<1>3. ProbeTypeOK'  BY <1>1 DEF probe
<1>4. CacheTrue'  BY <1>1 DEF CacheTrue, probe
<1>5. RowTrue'
  <2> SUFFICES ASSUME NEW c \in Callers
               PROVE (asked[c] <= now /\ (call[c] = "read" /\ ~row[c] => lastOff >= asked[c]))'
    BY DEF RowTrue
  <2> QED  BY <1>1 DEF RowTrue, probe
<1>6. (BoundedStaleness /\ NeverOffFromNothing)'
  BY <1>1, CacheAssumption DEF BoundedStaleness, NeverOffFromNothing, probe
<1> QED  BY <1>2, <1>3, <1>4, <1>5, <1>6

\* The steps of a call: what arrives or is answered from the cache was true
\* when the call was made, or less than CacheMs before.
LEMMA ProbeStepInv == ASSUME ProbeInv, NEW c \in Callers, Probe(c) \/ Resume(c) PROVE ProbeInv'
<1> USE DEF ProbeInv, ProbeTypeOK, ClockOK
<1>1. UNCHANGED switch  BY DEF Probe, IsActive, ReadRow, Store, ReadFails, Resume
<1>2. ClockOK'  BY <1>1 DEF switch
<1>3. CASE IsActive(c)
  <2>1. ProbeTypeOK'  BY <1>1, <1>3 DEF IsActive, Return, switch
  <2>2. CacheTrue' /\ RowTrue'
    BY <1>1, <1>3 DEF IsActive, Return, switch, CacheTrue, RowTrue
  <2>3. (BoundedStaleness /\ NeverOffFromNothing)'
    BY <1>1, <1>3, CacheAssumption
    DEF IsActive, Return, Fresh, switch, CacheTrue, BoundedStaleness, NeverOffFromNothing
  <2> QED  BY <1>2, <2>1, <2>2, <2>3
<1>4. CASE ReadRow(c)
  <2>1. ProbeTypeOK'  BY <1>1, <1>4 DEF ReadRow, switch
  <2>2. CacheTrue' /\ RowTrue'  BY <1>1, <1>4 DEF ReadRow, switch, CacheTrue, RowTrue
  <2>3. (BoundedStaleness /\ NeverOffFromNothing)'
    BY <1>1, <1>4 DEF ReadRow, switch, BoundedStaleness, NeverOffFromNothing
  <2> QED  BY <1>2, <2>1, <2>2, <2>3
<1>5. CASE Store(c)
  <2>1. ProbeTypeOK'  BY <1>1, <1>5 DEF Store, Return, switch
  <2>2. CacheTrue' /\ RowTrue'
    BY <1>1, <1>5 DEF Store, Return, switch, CacheTrue, RowTrue
  <2>3. (BoundedStaleness /\ NeverOffFromNothing)'
    BY <1>1, <1>5, CacheAssumption
    DEF Store, Return, switch, RowTrue, BoundedStaleness, NeverOffFromNothing
  <2> QED  BY <1>2, <2>1, <2>2, <2>3
<1>6. CASE ReadFails(c)
  <2>1. ProbeTypeOK'  BY <1>1, <1>6 DEF ReadFails, Return, switch
  <2>2. CacheTrue' /\ RowTrue'
    BY <1>1, <1>6 DEF ReadFails, Return, switch, CacheTrue, RowTrue
  <2>3. (BoundedStaleness /\ NeverOffFromNothing)'
    BY <1>1, <1>6
    DEF ReadFails, Return, switch, CacheTrue, BoundedStaleness, NeverOffFromNothing
  <2> QED  BY <1>2, <2>1, <2>2, <2>3
<1>7. CASE Resume(c)
  <2>1. ProbeTypeOK'  BY <1>1, <1>7 DEF Resume, switch
  <2>2. CacheTrue' /\ RowTrue'  BY <1>1, <1>7 DEF Resume, switch, CacheTrue, RowTrue
  <2>3. (BoundedStaleness /\ NeverOffFromNothing)'
    BY <1>1, <1>7 DEF Resume, switch, BoundedStaleness, NeverOffFromNothing
  <2> QED  BY <1>2, <2>1, <2>2, <2>3
<1> QED  BY <1>3, <1>4, <1>5, <1>6, <1>7 DEF Probe

\* A restart forgets the cache and the calls.
LEMMA RestartInv == ProbeInv /\ Restart => ProbeInv'
BY DEF ProbeInv, ProbeTypeOK, ClockOK, CacheTrue, RowTrue, BoundedStaleness,
       NeverOffFromNothing, Restart, NoCache, switch

\* A step that leaves the probe alone.
LEMMA StutterInv == ProbeInv /\ UNCHANGED probeVars => ProbeInv'
BY DEF ProbeInv, ProbeTypeOK, ClockOK, CacheTrue, RowTrue, BoundedStaleness,
       NeverOffFromNothing, probeVars, switch, probe

----------------------------------------------------------------------------
(* Theorems *)

\* The invariant holds in every reachable state.
THEOREM ProbeInvariant == ProbeSpec => []ProbeInv
<1>1. ProbeInv /\ [ProbeNext]_probeVars => ProbeInv'
  BY WorldInv, ProbeStepInv, RestartInv, StutterInv DEF ProbeNext
<1> QED  BY <1>1, InitInv, PTL DEF ProbeSpec

\* Fail-closed and bounded staleness (killswitch.ts), for every number of
\* overlapping calls and every cache time.
THEOREM ProbeSound == ProbeSpec => [](BoundedStaleness /\ NeverOffFromNothing)
<1>1. ProbeInv => BoundedStaleness /\ NeverOffFromNothing  BY DEF ProbeInv
<1> QED  BY <1>1, ProbeInvariant, PTL
=============================================================================
