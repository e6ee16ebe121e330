-------------------------- MODULE AuditChainProofs --------------------------
(***************************************************************************)
(* Theorems about AuditChain, for every number of writers, every set of    *)
(* payloads and every bound on the log.                                    *)
(***************************************************************************)
EXTENDS AuditChain, SequenceTheorems, TLAPS

\* Every step keeps the log and the writers well typed.
LEMMA TypeNext == TypeOK /\ [Next]_vars => TypeOK'
<1> SUFFICES ASSUME TypeOK, [Next]_vars PROVE TypeOK'
  OBVIOUS
<1> USE DEF TypeOK
<1>1. ASSUME NEW w \in Writers, NEW p \in Payloads, ReadLastHash(w, p)
      PROVE  TypeOK'
  <2>1. LastHash(log) \in Hash
    <3>1. CASE log = <<>>
      BY <3>1 DEF LastHash, Hash
    <3>2. CASE log # <<>>
      <4>1. Len(log) \in 1 .. Len(log)
        BY <3>2
      <4>2. log[Len(log)] \in Row
        BY <4>1
      <4> QED
        BY <3>2, <4>2 DEF LastHash, Row
    <3> QED
      BY <3>1, <3>2
  <2> QED
    BY <1>1, <2>1 DEF ReadLastHash
<1>2. ASSUME NEW w \in Writers, NEW l \in Labels, InsertRow(w, l)
      PROVE  TypeOK'
  <2>1. ComputeAuditHash(prev[w], payload[w]) \in Hash
    BY DEF ComputeAuditHash, Hash
  <2>2. log' \in Seq(Row)
    BY <1>2, <2>1 DEF InsertRow, Row
  <2> QED
    BY <1>2, <2>2 DEF InsertRow, Pending
<1>3. ASSUME NEW w \in Writers, InsertFails(w)
      PROVE  TypeOK'
  BY <1>3 DEF InsertFails
<1>4. CASE UNCHANGED vars
  BY <1>4 DEF vars
<1> QED
  BY <1>1, <1>2, <1>3, <1>4 DEF Next

\* The log and the writers' state are always well typed.
THEOREM TypeCorrect == Spec => []TypeOK
<1>1. Init => TypeOK
  <2> SUFFICES ASSUME Init PROVE TypeOK
    OBVIOUS
  <2>1. <<>> \in Seq(Row) /\ <<>> \in Hash
    BY DEF Hash
  <2>2. prev \in [Writers -> Hash]
    BY <2>1 DEF Init
  <2> QED
    BY <2>1, <2>2 DEF Init, TypeOK
<1> QED
  BY <1>1, TypeNext, PTL DEF Spec

----------------------------------------------------------------------------
\* In an unforked log the i-th hash has length i (it covers i payloads), so a
\* writer whose read was superseded holds a strictly shorter hash than the
\* last one, and any other writer holds the last one itself.
ChainInv ==
  /\ stale \subseteq Pending
  /\ forked => ~VerifyAuditChain(log)
  /\ ~forked =>
       /\ VerifyAuditChain(log)
       /\ \A i \in 1 .. Len(log) : Len(log[i].hash) = i
       /\ \A w \in Pending : Len(prev[w]) <= Len(log)
       /\ \A w \in Pending \cap stale : Len(prev[w]) < Len(log)
       /\ \A w \in Pending \ stale : prev[w] = LastHash(log)

\* Appending a row keeps the verdict on the rows before it.
LEMMA VerifyAppend ==
  ASSUME NEW rows \in Seq(Row), NEW row \in Row
  PROVE  VerifyAuditChain(Append(rows, row)) <=>
           /\ VerifyAuditChain(rows)
           /\ row.prev_hash = LastHash(rows)
           /\ row.hash = ComputeAuditHash(LastHash(rows), row.payload)
<1> DEFINE more == Append(rows, row)
           n == Len(rows)
<1>1. /\ n \in Nat /\ Len(more) = n + 1 /\ more[n + 1] = row
      /\ \A i \in 1 .. n : more[i] = rows[i]
  OBVIOUS
<1>2. \A i \in 1 .. n : HashBefore(more, i) = HashBefore(rows, i)
  BY <1>1 DEF HashBefore
<1>3. HashBefore(more, n + 1) = LastHash(rows)
  BY <1>1 DEF HashBefore, LastHash
<1> HIDE DEF more
<1>4. 1 .. n + 1 = (1 .. n) \cup {n + 1}
  BY <1>1
<1>5. VerifyAuditChain(more) <=>
        /\ \A i \in 1 .. n :
             /\ rows[i].prev_hash = HashBefore(rows, i)
             /\ rows[i].hash = ComputeAuditHash(HashBefore(rows, i), rows[i].payload)
        /\ row.prev_hash = LastHash(rows)
        /\ row.hash = ComputeAuditHash(LastHash(rows), row.payload)
  BY <1>1, <1>2, <1>3, <1>4 DEF VerifyAuditChain
<1> QED
  BY <1>5 DEF VerifyAuditChain, more

\* An insert keeps the invariant, from a fresh hash or a superseded one.
LEMMA ChainInsert ==
  ASSUME TypeOK, ChainInv, NEW w \in Writers, NEW l \in Labels, InsertRow(w, l)
  PROVE  ChainInv'
<1> DEFINE row == [payload |-> payload[w], label |-> l, prev_hash |-> prev[w],
                   hash |-> ComputeAuditHash(prev[w], payload[w])]
<1>1. /\ w \in Pending /\ log' = Append(log, row) /\ prev' = prev
      /\ forked' = (forked \/ w \in stale) /\ stale' = Pending \ {w}
      /\ Pending' = Pending \ {w}
  BY DEF InsertRow, Pending, TypeOK
<1>2. row \in Row /\ log \in Seq(Row) /\ prev[w] \in Seq(Payloads) /\ payload[w] \in Payloads
  BY DEF Row, Hash, ComputeAuditHash, TypeOK
<1>3. row.prev_hash = prev[w] /\ row.payload = payload[w]
      /\ row.hash = Append(prev[w], payload[w])
  BY DEF ComputeAuditHash
<1> HIDE DEF row
<1>4. VerifyAuditChain(log)' <=> VerifyAuditChain(log) /\ prev[w] = LastHash(log)
  <2>1. VerifyAuditChain(log') <=> VerifyAuditChain(log) /\ prev[w] = LastHash(log)
    BY <1>1, <1>2, <1>3, VerifyAppend DEF ComputeAuditHash
  <2> QED
    BY <2>1 DEF VerifyAuditChain, HashBefore, ComputeAuditHash
<1>5. /\ Len(log) \in Nat /\ Len(log') = Len(log) + 1 /\ log'[Len(log) + 1] = row
      /\ \A i \in 1 .. Len(log) : log'[i] = log[i]
  BY <1>1, <1>2
<1>6. ~forked /\ w \in stale => prev[w] # LastHash(log)
  <2> SUFFICES ASSUME ~forked, w \in stale, prev[w] = LastHash(log) PROVE FALSE
    OBVIOUS
  <2>1. Len(prev[w]) < Len(log)
    BY <1>1 DEF ChainInv
  <2>2. Len(log) > 0 /\ log # <<>>
    BY <1>2, <1>5, <2>1
  <2>3. LastHash(log) = log[Len(log)].hash /\ Len(log[Len(log)].hash) = Len(log)
    BY <1>5, <2>2 DEF LastHash, ChainInv
  <2> QED
    BY <1>5, <2>1, <2>3
<1>7. CASE forked'
  <2>1. ~VerifyAuditChain(log)'
    BY <1>1, <1>4, <1>6, <1>7 DEF ChainInv
  <2> QED
    BY <1>1, <1>7, <2>1 DEF ChainInv
<1>8. CASE ~forked'
  <2>1. ~forked /\ w \notin stale /\ prev[w] = LastHash(log) /\ VerifyAuditChain(log)'
    BY <1>1, <1>4, <1>8 DEF ChainInv
  <2>2. Len(LastHash(log)) = Len(log)
    BY <1>2, <1>5, <2>1 DEF ChainInv, LastHash
  <2>3. Len(row.hash) = Len(log) + 1
    BY <1>2, <1>3, <2>1, <2>2
  <2>4. \A i \in 1 .. Len(log') : Len(log'[i].hash) = i
    BY <1>5, <2>1, <2>3 DEF ChainInv
  <2>5. \A v \in Pending' : Len(prev[v]) < Len(log')
    <3>1. \A v \in Pending : Len(prev[v]) <= Len(log) /\ Len(prev[v]) \in Nat
      BY <2>1 DEF ChainInv, TypeOK, Pending, Hash
    <3> QED
      BY <1>1, <1>5, <3>1
  <2>6. Pending' \ stale' = {}
    BY <1>1
  <2>7. \A v \in Pending' : Len(prev[v]) <= Len(log')
    BY <1>1, <1>2, <1>5, <2>5 DEF TypeOK, Pending, Hash
  <2> QED
    BY <1>1, <1>8, <2>1, <2>4, <2>5, <2>6, <2>7 DEF ChainInv
<1> QED
  BY <1>7, <1>8

\* Every step keeps the invariant.
LEMMA ChainNext == TypeOK /\ ChainInv /\ [Next]_vars => ChainInv'
<1> SUFFICES ASSUME TypeOK, ChainInv, [Next]_vars PROVE ChainInv'
  OBVIOUS
<1>1. ASSUME NEW w \in Writers, NEW p \in Payloads, ReadLastHash(w, p)
      PROVE  ChainInv'
  <2>1. /\ Pending' = Pending \cup {w} /\ prev'[w] = LastHash(log)
        /\ \A v \in Pending : prev'[v] = prev[v]
        /\ UNCHANGED <<log, stale, forked>>
    BY <1>1 DEF ReadLastHash, Pending, TypeOK
  <2>2. w \notin stale
    BY <1>1 DEF ReadLastHash, ChainInv, Pending
  <2>3. ~forked => Len(LastHash(log)) = Len(log)
    BY DEF ChainInv, LastHash, TypeOK
  <2> QED
    BY <2>1, <2>2, <2>3 DEF ChainInv, VerifyAuditChain, HashBefore, ComputeAuditHash, LastHash
<1>2. ASSUME NEW w \in Writers, NEW l \in Labels, InsertRow(w, l)
      PROVE  ChainInv'
  BY <1>2, ChainInsert
<1>3. ASSUME NEW w \in Writers, InsertFails(w)
      PROVE  ChainInv'
  <2>1. /\ Pending' = Pending \ {w} /\ stale' = stale \ {w}
        /\ UNCHANGED <<log, prev, forked>>
    BY <1>3 DEF InsertFails, Pending, TypeOK
  <2> QED
    BY <2>1 DEF ChainInv, VerifyAuditChain, HashBefore, ComputeAuditHash, LastHash
<1>4. CASE UNCHANGED vars
  BY <1>4 DEF vars, ChainInv, VerifyAuditChain, HashBefore, ComputeAuditHash, LastHash, Pending
<1> QED
  BY <1>1, <1>2, <1>3, <1>4 DEF Next

\* The chain is whole or forked in every reachable state.
LEMMA ChainInvariant == Spec => []ChainInv
<1>1. Init => ChainInv
  BY DEF Init, ChainInv, VerifyAuditChain, Pending
<1> QED
  BY <1>1, TypeCorrect, ChainNext, PTL DEF Spec

\* GET /audit/verify answers ok exactly when no append used a superseded hash.
THEOREM ChainBrokenExactlyByStaleAppend == Spec => []BrokenExactlyByStaleAppend
<1>1. ChainInv => BrokenExactlyByStaleAppend
  BY DEF ChainInv, BrokenExactlyByStaleAppend
<1> QED
  BY <1>1, ChainInvariant, PTL

----------------------------------------------------------------------------
(* Forks and tampering *)

\* EveryRowLinked needs to know that what a writer has read is a hash of the
\* log, or the hash before its first row: rows are never removed.
LinkInv ==
  /\ EveryRowLinked
  /\ \A w \in Pending : prev[w] = <<>> \/ \E j \in 1 .. Len(log) : log[j].hash = prev[w]

\* Appending a row whose predecessor is in the log keeps every row linked.
LEMMA LinkInsert ==
  ASSUME TypeOK, LinkInv, NEW w \in Writers, NEW l \in Labels, InsertRow(w, l)
  PROVE  LinkInv'
<1> DEFINE row == [payload |-> payload[w], label |-> l, prev_hash |-> prev[w],
                   hash |-> ComputeAuditHash(prev[w], payload[w])]
<1>1. /\ w \in Pending /\ log' = Append(log, row) /\ prev' = prev /\ Pending' = Pending \ {w}
  BY DEF InsertRow, Pending, TypeOK
<1>2. row \in Row /\ log \in Seq(Row)
  BY DEF Row, Hash, ComputeAuditHash, TypeOK
<1>3. row.prev_hash = prev[w] /\ row.hash = ComputeAuditHash(row.prev_hash, row.payload)
  OBVIOUS
<1> HIDE DEF row
<1>4. /\ Len(log) \in Nat /\ Len(log') = Len(log) + 1 /\ log'[Len(log) + 1] = row
      /\ \A i \in 1 .. Len(log) : log'[i] = log[i]
  BY <1>1, <1>2
<1>5. ASSUME NEW i \in 1 .. Len(log')
      PROVE  /\ log'[i].prev_hash = <<>> \/ \E j \in 1 .. i - 1 : log'[j].hash = log'[i].prev_hash
             /\ log'[i].hash = ComputeAuditHash(log'[i].prev_hash, log'[i].payload)
  <2>1. CASE i \in 1 .. Len(log)
    <3>1. \A j \in 1 .. i : log'[j] = log[j]
      BY <1>4, <2>1
    <3> QED
      BY <2>1, <3>1 DEF LinkInv, EveryRowLinked
  <2>2. CASE i = Len(log) + 1
    <3>1. prev[w] = <<>> \/ \E j \in 1 .. Len(log) : log[j].hash = prev[w]
      BY <1>1 DEF LinkInv
    <3>2. 1 .. i - 1 = 1 .. Len(log)
      BY <1>4, <2>2
    <3> QED
      BY <1>3, <1>4, <2>2, <3>1, <3>2
  <2> QED
    BY <1>4, <2>1, <2>2
<1>6. ASSUME NEW v \in Pending'
      PROVE  prev[v] = <<>> \/ \E j \in 1 .. Len(log') : log'[j].hash = prev[v]
  BY <1>1, <1>4 DEF LinkInv
<1>7. EveryRowLinked'
  BY <1>5 DEF EveryRowLinked, ComputeAuditHash
<1> QED
  BY <1>1, <1>6, <1>7 DEF LinkInv

\* Even when it forks, the log is a tree of hashes.
THEOREM EveryRowLinkedHolds == Spec => []EveryRowLinked
<1>1. Init => LinkInv
  BY DEF Init, LinkInv, EveryRowLinked, Pending
<1>2. TypeOK /\ LinkInv /\ [Next]_vars => LinkInv'
  <2> SUFFICES ASSUME TypeOK, LinkInv, [Next]_vars PROVE LinkInv'
    OBVIOUS
  <2>1. ASSUME UNCHANGED log
        PROVE  EveryRowLinked'
    BY <2>1 DEF LinkInv, EveryRowLinked, ComputeAuditHash
  <2>2. ASSUME NEW w \in Writers, NEW p \in Payloads, ReadLastHash(w, p)
        PROVE  LinkInv'
    <3>1. /\ Pending' = Pending \cup {w} /\ prev'[w] = LastHash(log) /\ log' = log
          /\ \A v \in Pending : prev'[v] = prev[v]
      BY <2>2 DEF ReadLastHash, Pending, TypeOK
    <3>2. LastHash(log) = <<>> \/ \E j \in 1 .. Len(log) : log[j].hash = LastHash(log)
      BY DEF LastHash, TypeOK
    <3> QED
      BY <2>1, <3>1, <3>2 DEF LinkInv
  <2>3. ASSUME NEW w \in Writers, InsertFails(w)
        PROVE  LinkInv'
    <3>1. Pending' \subseteq Pending /\ UNCHANGED <<log, prev>>
      BY <2>3 DEF InsertFails, Pending, TypeOK
    <3> QED
      BY <2>1, <3>1 DEF LinkInv
  <2>4. CASE UNCHANGED vars
    BY <2>1, <2>4 DEF vars, LinkInv, Pending
  <2> QED
    BY <2>2, <2>3, <2>4, LinkInsert DEF Next
<1>3. LinkInv => EveryRowLinked
  BY DEF LinkInv
<1> QED
  BY <1>1, <1>2, <1>3, TypeCorrect, PTL DEF Spec

\* In a log that verifies, a row altered in place verifies exactly with the
\* payload its hash was computed from; its label is free.
LEMMA AlterationShows ==
  ASSUME TypeOK, VerifyAuditChain(log), NEW i \in 1 .. Len(log),
         NEW p \in Payloads, NEW l \in Labels
  PROVE  VerifyAuditChain([log EXCEPT ![i] = [@ EXCEPT !.payload = p, !.label = l]]) <=> p = log[i].payload
<1> DEFINE row == [log[i] EXCEPT !.payload = p, !.label = l]
           altered == [log EXCEPT ![i] = row]
<1>0. log \in Seq(Row) /\ Len(log) \in Nat /\ log[i] \in Row
  BY DEF TypeOK
<1>8. /\ row \in Row
      /\ row.prev_hash = log[i].prev_hash /\ row.hash = log[i].hash /\ row.payload = p
  BY <1>0 DEF Row
<1> HIDE DEF row
<1>1. /\ Len(altered) = Len(log) /\ altered[i] = row
      /\ \A j \in 1 .. Len(log) : j # i => altered[j] = log[j]
  BY <1>0, <1>8
<1>2. /\ altered[i].prev_hash = log[i].prev_hash /\ altered[i].hash = log[i].hash
      /\ altered[i].payload = p
  BY <1>8, <1>1
<1> HIDE DEF altered
<1>3. \A j \in 1 .. Len(log) : HashBefore(altered, j) = HashBefore(log, j)
  <2> SUFFICES ASSUME NEW j \in 1 .. Len(log), j # 1
               PROVE  altered[j - 1].hash = log[j - 1].hash
    BY DEF HashBefore
  <2>1. j - 1 \in 1 .. Len(log)
    BY <1>0
  <2> QED
    BY <1>1, <1>2, <2>1
<1>4. HashBefore(log, i) \in Seq(Payloads)
  <2>1. CASE i = 1
    BY <2>1 DEF HashBefore
  <2>2. CASE i # 1
    <3>1. i - 1 \in 1 .. Len(log)
      BY <1>0, <2>2
    <3>2. log[i - 1] \in Row
      BY <1>0, <3>1
    <3> QED
      BY <2>2, <3>2 DEF HashBefore, Row, Hash
  <2> QED
    BY <2>1, <2>2
<1>5. log[i].hash = Append(HashBefore(log, i), log[i].payload)
  BY DEF VerifyAuditChain, ComputeAuditHash
<1>6. ASSUME p # log[i].payload
      PROVE  ~VerifyAuditChain(altered)
  <2>1. log[i].payload \in Payloads
    BY <1>0 DEF Row
  <2>2. Append(HashBefore(log, i), p) # Append(HashBefore(log, i), log[i].payload)
    BY <1>4, <1>6, <2>1
  <2>3. altered[i].hash # Append(HashBefore(altered, i), altered[i].payload)
    BY <1>2, <1>3, <1>5, <2>2
  <2> QED
    BY <1>1, <2>3 DEF VerifyAuditChain, ComputeAuditHash
<1>7. ASSUME p = log[i].payload
      PROVE  VerifyAuditChain(altered)
  <2>1. \A j \in 1 .. Len(log) : /\ altered[j].prev_hash = log[j].prev_hash
                                 /\ altered[j].hash = log[j].hash
                                 /\ altered[j].payload = log[j].payload
    BY <1>1, <1>2, <1>7
  <2> QED
    BY <1>1, <1>3, <2>1 DEF VerifyAuditChain
<1> QED
  BY <1>6, <1>7 DEF altered, row

\* A row whose predecessor was taken out names a longer hash than the one now
\* before it, for hashes grow by one payload per row.
LEMMA RemovalShows ==
  ASSUME TypeOK, VerifyAuditChain(log), \A i \in 1 .. Len(log) : Len(log[i].hash) = i,
         NEW i \in 1 .. Len(log), i < Len(log)
  PROVE  ~VerifyAuditChain(SubSeq(log, 1, i - 1) \o SubSeq(log, i + 1, Len(log)))
<1> DEFINE head == SubSeq(log, 1, i - 1)
           tail == SubSeq(log, i + 1, Len(log))
           shorter == head \o tail
<1>0. log \in Seq(Row) /\ Len(log) \in Nat
  BY DEF TypeOK
<1>1. /\ head \in Seq(Row) /\ Len(head) = i - 1
      /\ \A j \in 1 .. i - 1 : head[j] = log[j]
  BY <1>0
<1>2. tail \in Seq(Row) /\ Len(tail) = Len(log) - i /\ tail[1] = log[i + 1]
  BY <1>0
<1> HIDE DEF head, tail
<1>3. /\ Len(shorter) = Len(log) - 1 /\ shorter[i] = log[i + 1]
      /\ \A j \in 1 .. i - 1 : shorter[j] = log[j]
  <2>1. /\ Len(shorter) = Len(head) + Len(tail)
        /\ \A k \in 1 .. Len(head) + Len(tail) :
             shorter[k] = IF k <= Len(head) THEN head[k] ELSE tail[k - Len(head)]
    BY <1>1, <1>2, ConcatProperties
  <2> HIDE DEF shorter
  <2>2. Len(log) \in Nat
    BY <1>0
  <2>3. Len(shorter) = Len(log) - 1
    BY <1>1, <1>2, <2>1, <2>2
  <2>4. shorter[i] = log[i + 1]
    <3>1. i \in 1 .. Len(head) + Len(tail) /\ ~(i <= Len(head)) /\ i - Len(head) = 1
      BY <1>1, <1>2, <2>2
    <3>2. shorter[i] = tail[i - Len(head)]
      BY <2>1, <3>1
    <3> QED
      BY <1>2, <3>1, <3>2
  <2>5. ASSUME NEW j \in 1 .. i - 1
        PROVE  shorter[j] = log[j]
    <3>1. j \in 1 .. Len(head) + Len(tail) /\ j <= Len(head)
      BY <1>1, <1>2, <2>2
    <3>2. shorter[j] = head[j]
      BY <2>1, <3>1
    <3> QED
      BY <1>1, <3>2
  <2> QED
    BY <2>3, <2>4, <2>5
<1> HIDE DEF shorter
<1>4. HashBefore(shorter, i) = HashBefore(log, i)
  <2>1. CASE i = 1
    BY <2>1 DEF HashBefore
  <2>2. CASE i # 1
    BY <1>3, <2>2 DEF HashBefore
  <2> QED
    BY <2>1, <2>2
<1>5. log[i + 1].prev_hash = log[i].hash
  BY <1>0 DEF VerifyAuditChain, HashBefore
<1>6. Len(HashBefore(log, i)) = i - 1
  <2>1. CASE i = 1
    BY <2>1 DEF HashBefore
  <2>2. CASE i # 1
    BY <1>0, <2>2 DEF HashBefore
  <2> QED
    BY <2>1, <2>2
<1>7. log[i].hash # HashBefore(log, i)
  BY <1>0, <1>6
<1>8. ASSUME VerifyAuditChain(shorter)
      PROVE  FALSE
  <2>1. i \in 1 .. Len(shorter)
    BY <1>0, <1>3
  <2>2. shorter[i].prev_hash = HashBefore(shorter, i)
    BY <1>8, <2>1 DEF VerifyAuditChain
  <2> QED
    BY <1>3, <1>4, <1>5, <1>7, <2>2
<1> QED
  BY <1>8 DEF shorter, head, tail

\* Of the changes of one row, GET /audit/verify finds those of its payload and no
\* other; a row missing before the end is found too.
THEOREM TamperEvidentHolds == Spec => []TamperEvident
<1>1. TypeOK /\ ChainInv => TamperEvident
  <2> SUFFICES ASSUME TypeOK, ChainInv, VerifyAuditChain(log), NEW i \in 1 .. Len(log)
               PROVE  /\ \A p \in Payloads, l \in Labels :
                           VerifyAuditChain([log EXCEPT ![i] = [@ EXCEPT !.payload = p, !.label = l]])
                             <=> p = log[i].payload
                      /\ i < Len(log) =>
                           ~VerifyAuditChain(SubSeq(log, 1, i - 1) \o SubSeq(log, i + 1, Len(log)))
    BY DEF TamperEvident
  <2>1. \A j \in 1 .. Len(log) : Len(log[j].hash) = j
    BY DEF ChainInv
  <2>2. \A p \in Payloads, l \in Labels :
          VerifyAuditChain([log EXCEPT ![i] = [@ EXCEPT !.payload = p, !.label = l]]) <=> p = log[i].payload
    BY AlterationShows
  <2>3. i < Len(log) => ~VerifyAuditChain(SubSeq(log, 1, i - 1) \o SubSeq(log, i + 1, Len(log)))
    BY <2>1, RemovalShows
  <2> QED
    BY <2>2, <2>3
<1> QED
  BY <1>1, TypeCorrect, ChainInvariant, PTL
=============================================================================
