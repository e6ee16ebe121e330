----------------------------- MODULE AuditChain -----------------------------
(***************************************************************************)
(* The hash-chained audit log of buzz-hermes-bridge (audit.ts).            *)
(*                                                                         *)
(* appendAudit reads the last hash in one transaction and inserts its row  *)
(* with another statement; nothing holds a lock between the two, so the    *)
(* appends of concurrent requests (and of other processes on the same      *)
(* table) interleave there.  The module has only this; what the rows say   *)
(* is in module Pipeline.                                                  *)
(*                                                                         *)
(* sha256(prev || payload) is modelled as an injective function with no    *)
(* collisions: the sequence of all payloads hashed so far.  The empty      *)
(* string, the hash before the first row, is then <<>>.                    *)
(***************************************************************************)
EXTENDS Integers, Sequences

CONSTANTS
  Writers,   \* appends in progress at one time: concurrent requests
  Payloads,  \* canonical payloads
  Labels,    \* what the columns source, action and correlation_id say
  MaxRows    \* bound on the length of the log

ASSUME MaxRowsAssumption == MaxRows \in Nat

VARIABLES
  log,      \* audit_log ordered by seq
  pc,       \* "idle", or "insert" between the two calls of appendAudit
  payload,  \* what the writer appends
  prev,     \* the last hash it read
  stale,    \* history: writers whose prev is no longer the last hash
  forked    \* history: a row was inserted from such a prev

vars == <<log, pc, payload, prev, stale, forked>>

Hash == Seq(Payloads)
Row == [payload : Payloads, label : Labels, prev_hash : Hash, hash : Hash]

\* Mutant: the payload alone is hashed.
HashWithoutPrev(prevHash, p) == <<p>>

\* computeAuditHash: the label of a row is not part of what is hashed.
ComputeAuditHash(prevHash, p) == Append(prevHash, p)

\* Mutant: the oldest row instead of the newest.
LastHashAscending(rows) == IF rows = <<>> THEN <<>> ELSE rows[1].hash

\* Mutant: an empty table gives null, not the empty string.
LastHashNull(rows) == IF rows = <<>> THEN "null" ELSE rows[Len(rows)].hash

\* SELECT hash FROM audit_log ORDER BY seq DESC LIMIT 1
LastHash(rows) == IF rows = <<>> THEN <<>> ELSE rows[Len(rows)].hash

\* The hash the row after position i - 1 must name as its predecessor.
HashBefore(rows, i) == IF i = 1 THEN <<>> ELSE rows[i - 1].hash

\* verifyAuditChain, run on one snapshot of the table: no row is broken.
VerifyAuditChain(rows) ==
  \A i \in 1 .. Len(rows) :
    /\ rows[i].prev_hash = HashBefore(rows, i)
    /\ rows[i].hash = ComputeAuditHash(HashBefore(rows, i), rows[i].payload)

----------------------------------------------------------------------------
Init ==
  /\ log = <<>>
  /\ pc = [w \in Writers |-> "idle"]
  /\ payload \in [Writers -> Payloads]
  /\ prev = [w \in Writers |-> <<>>]
  /\ stale = {} /\ forked = FALSE

Pending == {w \in Writers : pc[w] = "insert"}

\* First half of appendAudit.  MaxRows bounds the log.
ReadLastHash(w, p) ==
  /\ pc[w] = "idle"
  /\ Len(log) < MaxRows
  /\ prev' = [prev EXCEPT ![w] = LastHash(log)]
  /\ payload' = [payload EXCEPT ![w] = p]
  /\ pc' = [pc EXCEPT ![w] = "insert"]
  /\ UNCHANGED <<log, stale, forked>>

\* Mutant: the predecessor is read again for its column, not for the hash.
InsertRowReadingAgain(w, l) ==
  /\ pc[w] = "insert"
  /\ Len(log) < MaxRows
  /\ log' = Append(log, [payload |-> payload[w], label |-> l, prev_hash |-> LastHash(log),
                         hash |-> ComputeAuditHash(prev[w], payload[w])])
  /\ pc' = [pc EXCEPT ![w] = "idle"]
  /\ forked' = (forked \/ w \in stale)
  /\ stale' = Pending \ {w}
  /\ UNCHANGED <<payload, prev>>

\* Second half: hash, INSERT.  The label comes with the entry, as the payload
\* does; nothing reads it before the insertion.
InsertRow(w, l) ==
  /\ pc[w] = "insert"
  /\ Len(log) < MaxRows
  /\ log' = Append(log, [payload |-> payload[w], label |-> l, prev_hash |-> prev[w],
                         hash |-> ComputeAuditHash(prev[w], payload[w])])
  /\ pc' = [pc EXCEPT ![w] = "idle"]
  /\ forked' = (forked \/ w \in stale)
  /\ stale' = Pending \ {w}
  /\ UNCHANGED <<payload, prev>>

\* The insertion fails, or the process dies before it: no row.
InsertFails(w) ==
  /\ pc[w] = "insert"
  /\ pc' = [pc EXCEPT ![w] = "idle"]
  /\ stale' = stale \ {w}
  /\ UNCHANGED <<log, payload, prev, forked>>

Next ==
  \E w \in Writers :
    \/ \E p \in Payloads : ReadLastHash(w, p)
    \/ \E l \in Labels : InsertRow(w, l)
    \/ InsertFails(w)

Spec == Init /\ [][Next]_vars

----------------------------------------------------------------------------
(* Properties *)

\* Types of the log and of the writers' state.
TypeOK ==
  /\ log \in Seq(Row)
  /\ pc \in [Writers -> {"idle", "insert"}]
  /\ payload \in [Writers -> Payloads] /\ prev \in [Writers -> Hash]
  /\ stale \subseteq Writers /\ forked \in BOOLEAN

\* GET /audit/verify answers ok exactly as long as no row was appended from a
\* hash that had stopped being the last one: overlapping appends are the only
\* way the bridge itself can break its chain, and they always break it.
BrokenExactlyByStaleAppend == VerifyAuditChain(log) <=> ~forked

\* Even when it forks, the log is a tree: every row names the start or an
\* earlier row as its predecessor, and its own hash is the hash of both.
EveryRowLinked ==
  \A i \in 1 .. Len(log) :
    /\ log[i].prev_hash = <<>> \/ \E j \in 1 .. i - 1 : log[j].hash = log[i].prev_hash
    /\ log[i].hash = ComputeAuditHash(log[i].prev_hash, log[i].payload)

\* In a log that verifies, a row altered after the fact makes the verification
\* fail exactly when its payload is another one (the falsification test of the
\* bridge, for every row): a row whose source, action or correlation_id alone was
\* rewritten still verifies.  A row missing before the end is noticed too; rows
\* missing at the end, or all rewritten with new hashes, are not.
TamperEvident ==
  VerifyAuditChain(log) => \A i \in 1 .. Len(log) :
    /\ \A p \in Payloads, l \in Labels :
         VerifyAuditChain([log EXCEPT ![i] = [@ EXCEPT !.payload = p, !.label = l]]) <=> p = log[i].payload
    /\ i < Len(log) =>
         ~VerifyAuditChain(SubSeq(log, 1, i - 1) \o SubSeq(log, i + 1, Len(log)))
=============================================================================
