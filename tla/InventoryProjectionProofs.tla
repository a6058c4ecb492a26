---------------------- MODULE InventoryProjectionProofs ----------------------
(***************************************************************************)
(* Proofs about InventoryProjection for every set of items, stores and     *)
(* buckets and every bound: the transition outbox keeps its shape, and the *)
(* projection of an unmarked store is exact.                               *)
(***************************************************************************)
EXTENDS InventoryProjection, FiniteSetTheorems, TLAPS

-----------------------------------------------------------------------------
(* Lemmas about the operators the model is built from.                      *)

\* An item whose earliest pending version is v is projected at its source.
LEMMA ProjectedAtEarliest ==
    ASSUME NEW rows, NEW here, NEW v, Earliest(rows, v)
    PROVE  ProjectedLoc(rows, here) = rows[v].minus
<1>1. v \in Version /\ PendingRows(rows) # {}
    BY DEF Earliest, PendingRows
<1>2. \A w \in Version : Earliest(rows, w) => w = v
    BY <1>1, BoundsAssumption DEF Earliest, PendingRows, Version
<1>3. (CHOOSE w \in Version : Earliest(rows, w)) = v
    BY <1>1, <1>2
<1> QED BY <1>1, <1>3 DEF ProjectedLoc

\* When the pending versions are an interval, its first one is the earliest.
LEMMA EarliestOfSuffix ==
    ASSUME NEW rows, NEW n \in Nat, NEW top \in 0..MaxVersion,
           PendingRows(rows) = (n + 1)..top
    PROVE  /\ n < top => Earliest(rows, n + 1)
           /\ n >= top => PendingRows(rows) = {}
           /\ \A v : Earliest(rows, v) => v = n + 1 /\ v <= top
    BY BoundsAssumption DEF Earliest, Version

\* Rows that agree on status and source project alike.
LEMMA SameProjection ==
    ASSUME NEW rows, NEW rows2, NEW here,
           PendingRows(rows) = {} \/ \E v \in Version : Earliest(rows, v),
           \A v \in Version : /\ rows2[v].status = rows[v].status
                              /\ rows2[v].minus = rows[v].minus
    PROVE  ProjectedLoc(rows2, here) = ProjectedLoc(rows, here)
<1>1. PendingRows(rows2) = PendingRows(rows)
    BY DEF PendingRows
<1>2. \A v \in Version : Earliest(rows2, v) <=> Earliest(rows, v)
    BY <1>1 DEF Earliest
<1>3. CASE PendingRows(rows) = {}
    BY <1>1, <1>3 DEF ProjectedLoc
<1>4. CASE \E v \in Version : Earliest(rows, v)
    <2>1. PICK v \in Version : Earliest(rows, v)
        BY <1>4
    <2> QED BY <2>1, <1>2, ProjectedAtEarliest
<1> QED BY <1>3, <1>4

\* What one more attempt leaves of a row.
LEMMA AttemptedRow ==
    ASSUME NEW t \in Transition, NEW st \in Status, t.attempts < MaxAttempts
    PROVE  /\ Attempted(t, st) \in Transition
           /\ Attempted(t, st).status = st
           /\ Attempted(t, st).minus = t.minus
           /\ Attempted(t, st).plus = t.plus
           /\ Attempted(t, st).attempts = t.attempts + 1
           /\ Attempted(t, st).reconciled = t.reconciled
<1> DEFINE u == Attempted(t, st)
<1>1. /\ t.attempts \in 0..MaxAttempts /\ t.attempts + 1 \in 0..MaxAttempts
      /\ t.minus \in Location /\ t.plus \in Location /\ t.reconciled \in BOOLEAN
    BY BoundsAssumption DEF Transition
<1> DEFINE t1 == [t EXCEPT !.status = st]
<1>2. /\ t1 \in Transition /\ t1.status = st /\ t1.minus = t.minus
      /\ t1.plus = t.plus /\ t1.reconciled = t.reconciled
    BY DEF Transition
<1>3. u = [t1 EXCEPT !.attempts = t.attempts + 1]
    BY DEF Attempted
<1> HIDE DEF t1, u
<1> QED BY <1>1, <1>2, <1>3 DEF Transition, u

-----------------------------------------------------------------------------
(* The outbox keeps its shape.                                              *)

LEMMA InitOutboxInv == Init => OutboxInv
<1> SUFFICES ASSUME Init PROVE OutboxInv
    OBVIOUS
<1> USE BoundsAssumption
<1>1. TypeOK
    BY DEF Init, TypeOK, Location, Version, Transition, NoTransition, Status,
           NoRows, RebuildPc
<1>2. RowsMatchVersion /\ TransitionsChain
    BY DEF Init, RowsMatchVersion, TransitionsChain, Version, NoTransition
<1>3. PendingIsSuffix
    <2>1. ASSUME NEW e \in Epc
          PROVE  Pending(e) = (0 + 1)..version[e]
        BY DEF Init, Pending, PendingRows, Version, NoTransition
    <2> QED BY <2>1 DEF PendingIsSuffix, Init
<1> QED BY <1>1, <1>2, <1>3 DEF OutboxInv

\* A new transition extends the suffix of pending versions by one.
LEMMA EmitOutboxInv ==
    ASSUME OutboxInv, NEW e \in Epc, NEW target \in Location,
           loc[e] # target, EmitTransition(e, target),
           removed' \in [Epc -> BOOLEAN], UNCHANGED <<proj, marked, rebuild>>
    PROVE  OutboxInv'
<1> USE BoundsAssumption
<1> DEFINE new == version[e] + 1
           row == [status |-> "pending", minus |-> loc[e], plus |-> target,
                   attempts |-> 0, reconciled |-> FALSE]
<1>1. /\ new \in Version
      /\ version \in [Epc -> 0..MaxVersion]
      /\ version' = [version EXCEPT ![e] = new]
      /\ loc' = [loc EXCEPT ![e] = target]
      /\ outbox' = [outbox EXCEPT ![e][new] = row]
      /\ loc \in [Epc -> Location]
      /\ row \in Transition
      /\ outbox \in [Epc -> [Version -> Transition]]
    BY DEF OutboxInv, TypeOK, EmitTransition, Version, Transition, Status
<1> HIDE DEF new
<1>2. TypeOK'
    <2>1. outbox' \in [Epc -> [Version -> Transition]]
        BY <1>1
    <2>2. version' \in [Epc -> 0..MaxVersion] /\ loc' \in [Epc -> Location]
        BY <1>1 DEF Version
    <2> QED BY <2>1, <2>2 DEF OutboxInv, TypeOK, rebuild
<1>3. \A x \in Epc, v \in Version :
        outbox'[x][v] = IF x = e /\ v = new THEN row ELSE outbox[x][v]
    BY <1>1
<1>4. \A x \in Epc : /\ version'[x] = IF x = e THEN new ELSE version[x]
                     /\ loc'[x] = IF x = e THEN target ELSE loc[x]
    BY <1>1
<1>5. RowsMatchVersion'
    <2>1. row.status = "pending" /\ row.minus # row.plus
            /\ row.attempts < MaxAttempts
        OBVIOUS
    <2>2. RowsMatchVersion
        BY DEF OutboxInv
    <2> HIDE DEF row
    <2> QED BY <1>1, <1>3, <1>4, <2>1, <2>2 DEF RowsMatchVersion, Version, new
<1>6. TransitionsChain'
    <2>1. row.plus = target /\ row.minus = loc[e]
        OBVIOUS
    <2>2. TransitionsChain
        BY DEF OutboxInv
    <2> HIDE DEF row
    <2> QED BY <1>1, <1>3, <1>4, <2>1, <2>2 DEF TransitionsChain, Version, new
<1>7. PendingIsSuffix'
    <2> SUFFICES ASSUME NEW x \in Epc
                 PROVE  \E n \in 0..version'[x] :
                            Pending(x)' = (n + 1)..version'[x]
        BY DEF PendingIsSuffix
    <2>1. PICK n \in 0..version[x] : Pending(x) = (n + 1)..version[x]
        BY DEF OutboxInv, PendingIsSuffix
    <2>2. CASE x # e
        <3>1. Pending(x)' = Pending(x) /\ version'[x] = version[x]
            BY <1>3, <1>4, <2>2 DEF Pending, PendingRows
        <3> QED BY <3>1, <2>1
    <2>3. CASE x = e
        <3>1. Pending(e)' = Pending(e) \cup {new}
            BY <1>1, <1>3 DEF Pending, PendingRows
        <3>2. version[e] \in 0..MaxVersion
            BY <1>1
        <3>3. (n + 1)..new = ((n + 1)..version[e]) \cup {new}
            BY <2>1, <2>3, <3>2 DEF new
        <3>4. n \in 0..new
            BY <2>1, <2>3, <3>2 DEF new
        <3> QED BY <3>1, <3>3, <3>4, <2>1, <2>3, <1>4
    <2> QED BY <2>2, <2>3
<1> QED BY <1>2, <1>5, <1>6, <1>7 DEF OutboxInv

\* The earliest pending version is the first of the suffix.
LEMMA EarliestIsFirst ==
    ASSUME OutboxInv, NEW e \in Epc, NEW v, EarliestPending(e, v)
    PROVE  /\ v \in Version
           /\ v <= version[e]
           /\ Pending(e) = v..version[e]
           /\ outbox[e][v].status = "pending"
<1> USE BoundsAssumption
<1>1. PICK n \in 0..version[e] : Pending(e) = (n + 1)..version[e]
    BY DEF OutboxInv, PendingIsSuffix
<1>2. version[e] \in 0..MaxVersion
    BY DEF OutboxInv, TypeOK
<1>3. n \in Nat /\ version[e] \in Nat
    BY <1>2
<1>4. PendingRows(outbox[e]) = (n + 1)..version[e]
    BY <1>1 DEF Pending
<1>5. Earliest(outbox[e], v)
    BY DEF EarliestPending
<1>6. v \in (n + 1)..version[e] /\ \A w \in (n + 1)..version[e] : v <= w
    BY <1>4, <1>5 DEF Earliest
<1>7. v = n + 1 /\ v <= version[e]
    BY <1>3, <1>6
<1> QED BY <1>1, <1>5, <1>7 DEF EarliestPending, Earliest, Pending, PendingRows

\* Publishing, failing or quarantining the earliest pending version keeps the
\* shape: the row changes its status and attempts only.
LEMMA WorkerOutboxInv ==
    ASSUME OutboxInv, NEW e \in Epc, NEW v, EarliestPending(e, v),
           NEW row \in Transition,
           row.minus = outbox[e][v].minus, row.plus = outbox[e][v].plus,
           row.status # "absent",
           row.status = "pending" => row.attempts < MaxAttempts,
           outbox' = [outbox EXCEPT ![e][v] = row],
           UNCHANGED <<items, rebuild>>,
           proj' \in [Bucket -> Nat], marked' \subseteq Store
    PROVE  OutboxInv'
<1> USE BoundsAssumption
<1>1. /\ v \in Version /\ v <= version[e]
      /\ Pending(e) = v..version[e]
      /\ outbox[e][v].status = "pending"
    BY EarliestIsFirst
<1>2. /\ outbox \in [Epc -> [Version -> Transition]]
      /\ version \in [Epc -> 0..MaxVersion]
      /\ loc' = loc /\ version' = version
    BY DEF OutboxInv, TypeOK, items
<1>3. TypeOK'
    <2>1. outbox' \in [Epc -> [Version -> Transition]]
        BY <1>1, <1>2
    <2> QED BY <2>1 DEF OutboxInv, TypeOK, items, rebuild
<1>4. \A x \in Epc, w \in Version :
        outbox'[x][w] = IF x = e /\ w = v THEN row ELSE outbox[x][w]
    BY <1>1, <1>2
<1>5. RowsMatchVersion'
    <2>1. RowsMatchVersion
        BY DEF OutboxInv
    <2> QED BY <1>1, <1>2, <1>4, <2>1 DEF RowsMatchVersion
<1>6. TransitionsChain'
    <2>1. TransitionsChain
        BY DEF OutboxInv
    <2>2. \A x \in Epc, w \in Version :
            /\ outbox'[x][w].minus = outbox[x][w].minus
            /\ outbox'[x][w].plus = outbox[x][w].plus
        BY <1>4
    <2>3. \A x \in Epc, w \in Version : w < version[x] => w + 1 \in Version
        BY <1>2 DEF Version
    <2> QED BY <1>2, <2>1, <2>2, <2>3 DEF TransitionsChain
<1>7. PendingIsSuffix'
    <2> SUFFICES ASSUME NEW x \in Epc
                 PROVE  \E n \in 0..version[x] :
                            Pending(x)' = (n + 1)..version[x]
        BY <1>2 DEF PendingIsSuffix
    <2>1. CASE x # e \/ row.status = "pending"
        <3>1. Pending(x)' = Pending(x)
            BY <1>1, <1>4, <2>1 DEF Pending, PendingRows
        <3> QED BY <3>1 DEF OutboxInv, PendingIsSuffix
    <2>2. CASE x = e /\ row.status # "pending"
        <3>1. Pending(e)' = Pending(e) \ {v}
            BY <1>1, <1>4, <2>2 DEF Pending, PendingRows
        <3>2. v \in 0..version[e] /\ (v..version[e]) \ {v} = (v + 1)..version[e]
            BY <1>1, <1>2 DEF Version
        <3> QED BY <3>1, <3>2, <1>1, <2>2
    <2> QED BY <2>1, <2>2
<1> QED BY <1>3, <1>5, <1>6, <1>7 DEF OutboxInv

\* A rebuild's commit changes no field the shape depends on.
LEMMA CommitOutboxInv == OutboxInv /\ RebuildCommit => OutboxInv'
<1> SUFFICES ASSUME OutboxInv, RebuildCommit PROVE OutboxInv'
    OBVIOUS
<1> USE BoundsAssumption
<1>1. /\ outbox \in [Epc -> [Version -> Transition]]
      /\ version \in [Epc -> 0..MaxVersion]
      /\ loc' = loc /\ version' = version
    BY DEF OutboxInv, TypeOK, items, RebuildCommit
<1>2. \A x \in Epc, w \in Version :
        outbox'[x][w] = IF <<x, w>> \in reconciling
                        THEN [outbox[x][w] EXCEPT !.reconciled = TRUE]
                        ELSE outbox[x][w]
    BY DEF RebuildCommit
<1>3. \A x \in Epc, w \in Version :
        /\ outbox'[x][w] \in Transition
        /\ outbox'[x][w].status = outbox[x][w].status
        /\ outbox'[x][w].minus = outbox[x][w].minus
        /\ outbox'[x][w].plus = outbox[x][w].plus
        /\ outbox'[x][w].attempts = outbox[x][w].attempts
    <2>1. \A t \in Transition :
            LET u == [t EXCEPT !.reconciled = TRUE]
            IN  /\ u \in Transition
                /\ u.status = t.status /\ u.minus = t.minus
                /\ u.plus = t.plus /\ u.attempts = t.attempts
        BY DEF Transition
    <2> TAKE x \in Epc, w \in Version
    <2>2. outbox[x][w] \in Transition
        BY <1>1
    <2>3. CASE <<x, w>> \in reconciling
        BY <2>1, <2>2, <2>3, <1>2
    <2>4. CASE <<x, w>> \notin reconciling
        BY <2>2, <2>4, <1>2
    <2> QED BY <2>3, <2>4
<1>4. outbox' \in [Epc -> [Version -> Transition]]
    BY <1>3 DEF RebuildCommit
<1>5. TypeOK'
    BY <1>4 DEF OutboxInv, TypeOK, items, RebuildCommit, RebuildPc, NoRows
<1>6. RowsMatchVersion' /\ TransitionsChain'
    <2>1. \A x \in Epc, w \in Version : w < version[x] => w + 1 \in Version
        BY <1>1 DEF Version
    <2> QED BY <1>1, <1>3, <2>1 DEF OutboxInv, RowsMatchVersion, TransitionsChain
<1>7. PendingIsSuffix'
    <2>1. \A x \in Epc : Pending(x)' = Pending(x)
        BY <1>3 DEF Pending, PendingRows
    <2> QED BY <2>1, <1>1 DEF OutboxInv, PendingIsSuffix
<1> QED BY <1>5, <1>6, <1>7 DEF OutboxInv

\* Every step of the specification keeps the outbox's shape.
LEMMA NextOutboxInv == OutboxInv /\ [Next]_vars => OutboxInv'
<1> SUFFICES ASSUME OutboxInv, [Next]_vars PROVE OutboxInv'
    OBVIOUS
<1> USE BoundsAssumption, BucketAssumption
<1>1. TypeOK
    BY DEF OutboxInv
<1>2. ASSUME NEW e \in Epc, NEW b \in Bucket, ProcessObservation(e, b)
      PROVE  OutboxInv'
    <2>1. removed' \in [Epc -> BOOLEAN]
        BY <1>1, <1>2 DEF ProcessObservation, TypeOK
    <2> QED BY <2>1, <1>2, EmitOutboxInv DEF ProcessObservation, Location
<1>3. ASSUME NEW e \in Epc, AcceptAuthoritativeRemoval(e)
      PROVE  OutboxInv'
    <2>1. removed' \in [Epc -> BOOLEAN]
        BY <1>1, <1>3 DEF AcceptAuthoritativeRemoval, TypeOK
    <2> QED BY <2>1, <1>3, EmitOutboxInv
            DEF AcceptAuthoritativeRemoval, Location
<1>4. ASSUME NEW e \in Epc, NEW v \in Version, PublishTransition(e, v)
      PROVE  OutboxInv'
    <2> DEFINE row == Attempted(outbox[e][v], "published")
    <2>1. outbox[e][v] \in Transition /\ outbox[e][v].attempts < MaxAttempts
        BY <1>1, <1>4 DEF TypeOK, OutboxInv, RowsMatchVersion, PublishTransition,
                          EarliestPending, Earliest, PendingRows
    <2>2. /\ row \in Transition /\ row.status = "published"
          /\ row.minus = outbox[e][v].minus /\ row.plus = outbox[e][v].plus
        BY <2>1, AttemptedRow DEF Status
    <2>3. outbox' = [outbox EXCEPT ![e][v] = row]
        BY <1>1, <1>4 DEF PublishTransition, TypeOK
    <2>4. proj' \in [Bucket -> Nat]
        <3>1. \A b \in Bucket : proj[b] + Delta(outbox[e][v], b) \in Nat
            BY <1>1, <1>4 DEF PublishTransition, Applicable, Delta, TypeOK
        <3> QED BY <3>1, <1>4 DEF PublishTransition
    <2>5. marked' \subseteq Store
        BY <1>1, <1>4 DEF PublishTransition, TypeOK
    <2> HIDE DEF row
    <2> QED BY <2>2, <2>3, <2>4, <2>5, <1>4, WorkerOutboxInv DEF PublishTransition
<1>5. ASSUME NEW e \in Epc, NEW v \in Version, AttemptFails(e, v)
      PROVE  OutboxInv'
    <2> DEFINE row == Attempted(outbox[e][v], "pending")
    <2>1. outbox[e][v] \in Transition /\ outbox[e][v].attempts + 1 < MaxAttempts
            /\ outbox[e][v].status = "pending"
        BY <1>1, <1>5 DEF TypeOK, AttemptFails, EarliestPending, Earliest, PendingRows
    <2>2. /\ row \in Transition /\ row.status = "pending"
          /\ row.attempts < MaxAttempts
          /\ row.minus = outbox[e][v].minus /\ row.plus = outbox[e][v].plus
        <3>1. outbox[e][v].attempts \in Nat
            BY <2>1 DEF Transition
        <3> QED BY <2>1, <3>1, AttemptedRow DEF Status
    <2>3. outbox' = [outbox EXCEPT ![e][v] = row]
        BY <1>1, <1>5 DEF AttemptFails, TypeOK
    <2>4. proj' \in [Bucket -> Nat] /\ marked' \subseteq Store
        BY <1>1, <1>5 DEF AttemptFails, TypeOK
    <2> HIDE DEF row
    <2> QED BY <2>2, <2>3, <2>4, <1>5, WorkerOutboxInv DEF AttemptFails
<1>6. ASSUME NEW e \in Epc, NEW v \in Version, QuarantineTransition(e, v)
      PROVE  OutboxInv'
    <2> DEFINE row == Attempted(outbox[e][v], "quarantined")
    <2>1. outbox[e][v] \in Transition /\ outbox[e][v].attempts < MaxAttempts
        BY <1>1, <1>6 DEF TypeOK, OutboxInv, RowsMatchVersion, QuarantineTransition,
                          EarliestPending, Earliest, PendingRows
    <2>2. /\ row \in Transition /\ row.status = "quarantined"
          /\ row.minus = outbox[e][v].minus /\ row.plus = outbox[e][v].plus
        BY <2>1, AttemptedRow DEF Status
    <2>3. outbox' = [outbox EXCEPT ![e][v] = row]
        BY <1>1, <1>6 DEF QuarantineTransition, TypeOK
    <2>4. TransitionStoreIds(e, v) \subseteq Store
        BY DEF TransitionStoreIds
    <2>5. proj' \in [Bucket -> Nat] /\ marked' \subseteq Store
        BY <2>4, <1>1, <1>6 DEF QuarantineTransition, TypeOK
    <2> HIDE DEF row
    <2> QED BY <2>2, <2>3, <2>5, <1>6, WorkerOutboxInv DEF QuarantineTransition
<1>7. CASE /\ UNCHANGED <<items, outbox, proj, marked>>
           /\ rebuildPc' \in RebuildPc /\ snapshot' \in [Bucket -> Nat]
           /\ reconciling' \subseteq Epc \X Version
    BY <1>7 DEF OutboxInv, TypeOK, RowsMatchVersion, PendingIsSuffix,
                TransitionsChain, Pending, items
<1>8. CASE RebuildScan
    <2>1. ASSUME NEW b \in Bucket PROVE ItemCount(b) \in Nat
        BY ItemsAssumption, FS_Subset, FS_CardinalityType DEF ItemCount
    <2> QED BY <2>1, <1>1, <1>7, <1>8 DEF RebuildScan, RebuildPc, TypeOK
<1>9. CASE RebuildBegin \/ RebuildVerify \/ RebuildReconcile \/ RebuildAbort
                \/ UNCHANGED vars
    BY <1>1, <1>7, <1>9 DEF RebuildBegin, RebuildVerify, RebuildReconcile,
            RebuildAbort, RebuildPc, NoRows, TypeOK, vars, rebuild
<1> QED BY <1>2, <1>3, <1>4, <1>5, <1>6, <1>8, <1>9, CommitOutboxInv DEF Next

\* Type correctness, with the shape of the outbox that process_observation,
\* accept_authoritative_removal and the worker maintain, for every instance.
THEOREM OutboxShape == Spec => []OutboxInv
    BY InitOutboxInv, NextOutboxInv, PTL DEF Spec

\* The type invariant on its own.
THEOREM TypeCorrect == Spec => []TypeOK
<1>1. OutboxInv => TypeOK
    BY DEF OutboxInv
<1> QED BY <1>1, OutboxShape, PTL

-----------------------------------------------------------------------------
(* What each step does to the projected place of every item.                *)

\* Two sets of items that differ at most in one item.
LEMMA CountMove ==
    ASSUME NEW F \in SUBSET Epc, NEW G \in SUBSET Epc, NEW e \in Epc,
           \A x \in Epc : x # e => (x \in G <=> x \in F)
    PROVE  /\ e \in F /\ e \notin G => Cardinality(G) = Cardinality(F) - 1
           /\ e \notin F /\ e \in G => Cardinality(G) = Cardinality(F) + 1
           /\ (e \in F <=> e \in G) => Cardinality(G) = Cardinality(F)
<1>1. IsFiniteSet(F) /\ Cardinality(F) \in Nat
    BY ItemsAssumption, FS_Subset, FS_CardinalityType
<1>2. CASE e \in F /\ e \notin G
    <2>1. G = F \ {e}
        BY <1>2
    <2> QED BY <1>1, <1>2, <2>1, FS_RemoveElement
<1>3. CASE e \notin F /\ e \in G
    <2>1. G = F \cup {e}
        BY <1>3
    <2> QED BY <1>1, <1>3, <2>1, FS_AddElement
<1>4. CASE e \in F <=> e \in G
    <2>1. G = F
        BY <1>4
    <2> QED BY <1>1, <1>4, <2>1
<1> QED BY <1>2, <1>3, <1>4

\* A suffix of pending versions has an earliest one unless it is empty.
LEMMA HasEarliest ==
    ASSUME OutboxInv, NEW e \in Epc
    PROVE  Pending(e) = {} \/ \E v \in Version : EarliestPending(e, v)
<1> USE BoundsAssumption
<1>1. PICK n \in 0..version[e] : Pending(e) = (n + 1)..version[e]
    BY DEF OutboxInv, PendingIsSuffix
<1>2. version[e] \in 0..MaxVersion
    BY DEF OutboxInv, TypeOK
<1>3. n < version[e] => EarliestPending(e, n + 1)
    BY <1>1, <1>2, EarliestOfSuffix DEF EarliestPending, Pending
<1>4. n >= version[e] => Pending(e) = {}
    BY <1>1, <1>2, EarliestOfSuffix DEF Pending
<1> QED BY <1>1, <1>2, <1>3, <1>4 DEF Version

\* A new transition moves the item but not its projected place.
LEMMA EmitProjection ==
    ASSUME OutboxInv, NEW e \in Epc, NEW target, EmitTransition(e, target),
           NEW x \in Epc
    PROVE  ProjectedAt(x)' = ProjectedAt(x)
<1> USE BoundsAssumption
<1> DEFINE new == version[e] + 1
<1>1. /\ version[e] \in 0..MaxVersion /\ new \in Version
      /\ outbox \in [Epc -> [Version -> Transition]]
      /\ loc \in [Epc -> Location]
    BY DEF OutboxInv, TypeOK, EmitTransition, Version
<1>2. CASE x # e
    <2>1. outbox'[x] = outbox[x] /\ loc'[x] = loc[x]
        BY <1>1, <1>2 DEF EmitTransition
    <2> QED BY <2>1 DEF ProjectedAt
<1>3. CASE x = e
    <2>1. /\ \A v \in Version : v # new => outbox'[e][v] = outbox[e][v]
          /\ outbox'[e][new].status = "pending" /\ outbox'[e][new].minus = loc[e]
        BY <1>1 DEF EmitTransition
    <2>2. PendingRows(outbox'[e]) = PendingRows(outbox[e]) \cup {new}
        BY <1>1, <2>1 DEF PendingRows
    <2>3. CASE Pending(e) = {}
        <3>1. ProjectedAt(e) = loc[e]
            BY <2>3 DEF ProjectedAt, ProjectedLoc, Pending
        <3>2. Earliest(outbox'[e], new)
            BY <2>2, <2>3, <1>1 DEF Earliest, Pending, Version
        <3>3. ProjectedLoc(outbox'[e], loc'[e]) = outbox'[e][new].minus
            BY <3>2, ProjectedAtEarliest
        <3> QED BY <1>3, <2>1, <3>1, <3>3 DEF ProjectedAt
    <2>4. ASSUME NEW v \in Version, EarliestPending(e, v)
          PROVE  ProjectedAt(e)' = ProjectedAt(e)
        <3>1. v \in Version /\ v <= version[e]
            BY <2>4, EarliestIsFirst
        <3>2. v # new /\ v <= new
            BY <3>1, <1>1 DEF Version
        <3>3. Earliest(outbox'[e], v)
            BY <2>2, <2>4, <3>2 DEF Earliest, EarliestPending
        <3>4. ProjectedLoc(outbox'[e], loc'[e]) = outbox'[e][v].minus
            BY <3>3, ProjectedAtEarliest
        <3>5. ProjectedLoc(outbox[e], loc[e]) = outbox[e][v].minus
            BY <2>4, ProjectedAtEarliest DEF EarliestPending
        <3> QED BY <2>1, <3>1, <3>2, <3>4, <3>5 DEF ProjectedAt
    <2> QED BY <1>3, <2>3, <2>4, HasEarliest
<1> QED BY <1>2, <1>3

\* A step that keeps status and source of every row keeps the projected places.
LEMMA StableProjection ==
    ASSUME OutboxInv, loc' = loc, NEW x \in Epc,
           \A v \in Version : /\ outbox'[x][v].status = outbox[x][v].status
                              /\ outbox'[x][v].minus = outbox[x][v].minus
    PROVE  ProjectedAt(x)' = ProjectedAt(x) /\ Pending(x)' = Pending(x)
<1>1. PendingRows(outbox[x]) = {} \/ \E v \in Version : Earliest(outbox[x], v)
    BY HasEarliest DEF Pending, EarliestPending
<1>2. ProjectedLoc(outbox'[x], loc[x]) = ProjectedLoc(outbox[x], loc[x])
    BY <1>1, SameProjection
<1> QED BY <1>2 DEF ProjectedAt, Pending, PendingRows

\* Settling the earliest pending version moves the projected place along it.
LEMMA SettleProjection ==
    ASSUME OutboxInv, NEW e \in Epc, NEW v \in Version, EarliestPending(e, v),
           NEW st \in {"published", "quarantined"}, UNCHANGED items,
           outbox' = [outbox EXCEPT ![e][v] = Attempted(outbox[e][v], st)]
    PROVE  /\ ProjectedAt(e) = outbox[e][v].minus
           /\ ProjectedAt(e)' = outbox[e][v].plus
           /\ \A x \in Epc : x # e => ProjectedAt(x)' = ProjectedAt(x)
           /\ outbox[e][v].minus # outbox[e][v].plus
<1> USE BoundsAssumption
<1>1. /\ outbox \in [Epc -> [Version -> Transition]]
      /\ version[e] \in 0..MaxVersion
      /\ loc' = loc
      /\ RowsMatchVersion /\ TransitionsChain
    BY DEF OutboxInv, TypeOK, items
<1>2. v <= version[e] /\ Pending(e) = v..version[e] /\ outbox[e][v].status = "pending"
    BY EarliestIsFirst
<1>3. ProjectedAt(e) = outbox[e][v].minus
    BY ProjectedAtEarliest DEF EarliestPending, ProjectedAt
<1>4. ASSUME NEW x \in Epc, x # e
      PROVE  ProjectedAt(x)' = ProjectedAt(x)
    <2>1. outbox'[x] = outbox[x]
        BY <1>1, <1>4
    <2> QED BY <2>1, <1>1 DEF ProjectedAt
<1>5. outbox[e][v].minus # outbox[e][v].plus
    BY <1>1, <1>2 DEF RowsMatchVersion
<1>6. outbox'[e][v].status = st
    <2>1. outbox[e][v].attempts < MaxAttempts
        BY <1>1, <1>2 DEF RowsMatchVersion
    <2> QED BY <1>1, <2>1, AttemptedRow DEF Status
<1>7. \A w \in Version : w # v => outbox'[e][w] = outbox[e][w]
    BY <1>1
<1>8. PendingRows(outbox'[e]) = (v + 1)..version[e]
    <2>1. PendingRows(outbox'[e]) = PendingRows(outbox[e]) \ {v}
        BY <1>6, <1>7 DEF PendingRows
    <2>2. PendingRows(outbox[e]) = v..version[e]
        BY <1>2 DEF Pending
    <2>3. (v..version[e]) \ {v} = (v + 1)..version[e]
        BY <1>1 DEF Version
    <2> QED BY <2>1, <2>2, <2>3
<1>9. ProjectedAt(e)' = outbox[e][v].plus
    <2>1. v \in Nat
        BY DEF Version
    <2>2. CASE v < version[e]
        <3>1. Earliest(outbox'[e], v + 1)
            BY <1>1, <1>8, <2>1, <2>2, EarliestOfSuffix
        <3>2. v + 1 \in Version /\ v + 1 # v
            BY <1>1, <2>1, <2>2 DEF Version
        <3>3. ProjectedLoc(outbox'[e], loc'[e]) = outbox[e][v + 1].minus
            <4>1. ProjectedLoc(outbox'[e], loc'[e]) = outbox'[e][v + 1].minus
                BY <3>1, ProjectedAtEarliest
            <4> QED BY <4>1, <3>2, <1>7
        <3> QED BY <3>3, <2>2, <1>1 DEF ProjectedAt, TransitionsChain
    <2>3. CASE v = version[e]
        <3>1. PendingRows(outbox'[e]) = {}
            BY <1>1, <1>8, <2>1, <2>3
        <3> QED BY <3>1, <1>1, <2>3 DEF ProjectedAt, ProjectedLoc, TransitionsChain
    <2> QED BY <1>1, <1>2, <2>1, <2>2, <2>3
<1> QED BY <1>3, <1>4, <1>5, <1>9

-----------------------------------------------------------------------------
(* The projection of an unmarked store is exact.                            *)

\* The counts follow the projected places.
LEMMA SameCounts ==
    ASSUME \A x \in Epc : ProjectedAt(x)' = ProjectedAt(x), NEW b
    PROVE  ProjectedCount(b)' = ProjectedCount(b)
<1>1. {x \in Epc : ProjectedAt(x)' = b} = {x \in Epc : ProjectedAt(x) = b}
    OBVIOUS
<1> QED BY <1>1 DEF ProjectedCount

LEMMA SettledCounts ==
    ASSUME NEW e \in Epc, NEW t, ProjectedAt(e) = t.minus, ProjectedAt(e)' = t.plus,
           t.minus # t.plus,
           \A x \in Epc : x # e => ProjectedAt(x)' = ProjectedAt(x),
           NEW b
    PROVE  ProjectedCount(b)' = ProjectedCount(b) + Delta(t, b)
<1> DEFINE F == {x \in Epc : ProjectedAt(x) = b}
           G == {x \in Epc : ProjectedAt(x)' = b}
<1>1. /\ F \in SUBSET Epc /\ G \in SUBSET Epc
      /\ e \in F <=> t.minus = b
      /\ e \in G <=> t.plus = b
      /\ \A x \in Epc : x # e => (x \in G <=> x \in F)
    OBVIOUS
<1>2. ProjectedCount(b) = Cardinality(F) /\ ProjectedCount(b)' = Cardinality(G)
    BY DEF ProjectedCount
<1>3. Cardinality(F) \in Nat
    BY ItemsAssumption, FS_Subset, FS_CardinalityType
<1> HIDE DEF F, G
<1>4. /\ e \in F /\ e \notin G => Cardinality(G) = Cardinality(F) - 1
      /\ e \notin F /\ e \in G => Cardinality(G) = Cardinality(F) + 1
      /\ (e \in F <=> e \in G) => Cardinality(G) = Cardinality(F)
    BY <1>1, CountMove
<1> QED BY <1>1, <1>2, <1>3, <1>4 DEF Delta

LEMMA InitProjectionInv == Init => ProjectionInv
<1> SUFFICES ASSUME Init PROVE ProjectionInv
    OBVIOUS
<1>1. UnmarkedProjectionExact
    <2> SUFFICES ASSUME NEW b \in Bucket PROVE proj[b] = ProjectedCount(b)
        BY DEF UnmarkedProjectionExact
    <2>1. ASSUME NEW e \in Epc PROVE ProjectedAt(e) = NoLocation
        <3>1. PendingRows(outbox[e]) = {}
            BY DEF Init, PendingRows, NoTransition
        <3> QED BY <3>1 DEF Init, ProjectedAt, ProjectedLoc
    <2>2. {e \in Epc : ProjectedAt(e) = b} = {}
        BY <2>1, BucketAssumption
    <2> QED BY <2>2, FS_EmptySet DEF ProjectedCount, Init, NoRows
<1>2. QuarantineFailsClosed /\ SnapshotSound
    BY DEF Init, QuarantineFailsClosed, SnapshotSound, NoTransition
<1> QED BY <1>1, <1>2, InitOutboxInv DEF ProjectionInv

\* Producers: only a pending row is added, and projected places stay.
LEMMA EmitProjectionInv ==
    ASSUME ProjectionInv, NEW e \in Epc, NEW target, EmitTransition(e, target),
           UNCHANGED <<proj, marked, rebuild>>
    PROVE  UnmarkedProjectionExact' /\ QuarantineFailsClosed' /\ SnapshotSound'
<1> USE BoundsAssumption
<1>1. OutboxInv
    BY DEF ProjectionInv
<1>2. \A b : ProjectedCount(b)' = ProjectedCount(b)
    BY <1>1, EmitProjection, SameCounts
<1>3. UnmarkedProjectionExact'
    BY <1>2 DEF ProjectionInv, UnmarkedProjectionExact
<1> DEFINE new == version[e] + 1
<1>4. /\ new \in Version
      /\ outbox'[e][new].status = "pending"
      /\ \A x \in Epc, v \in Version :
            (x # e \/ v # new) => outbox'[x][v] = outbox[x][v]
    BY <1>1 DEF OutboxInv, TypeOK, EmitTransition, Version
<1> HIDE DEF new
<1>5. QuarantineFailsClosed'
    <2>1. \A x \in Epc, v \in Version :
            outbox'[x][v].status = "quarantined" => outbox'[x][v] = outbox[x][v]
        BY <1>4
    <2> QED BY <2>1 DEF ProjectionInv, QuarantineFailsClosed
<1>6. SnapshotSound'
    <2>1. ~NothingPending'
        BY <1>4 DEF NothingPending, Pending, PendingRows
    <2>2. \A x \in Epc, v \in Version :
            outbox'[x][v].status = "quarantined" => outbox'[x][v] = outbox[x][v]
        BY <1>4
    <2> QED BY <1>2, <2>1, <2>2 DEF ProjectionInv, SnapshotSound, rebuild
<1> QED BY <1>3, <1>5, <1>6

\* Publishing moves the projected place and the counts of the projection alike.
LEMMA PublishProjectionInv ==
    ASSUME ProjectionInv, NEW e \in Epc, NEW v \in Version, PublishTransition(e, v)
    PROVE  UnmarkedProjectionExact' /\ QuarantineFailsClosed' /\ SnapshotSound'
<1>1. /\ OutboxInv /\ EarliestPending(e, v) /\ UNCHANGED items
      /\ outbox' = [outbox EXCEPT ![e][v] = Attempted(outbox[e][v], "published")]
      /\ outbox \in [Epc -> [Version -> Transition]]
    BY DEF ProjectionInv, OutboxInv, TypeOK, PublishTransition
<1>2. \A b : ProjectedCount(b)' = ProjectedCount(b) + Delta(outbox[e][v], b)
    <2>1. /\ ProjectedAt(e) = outbox[e][v].minus
          /\ ProjectedAt(e)' = outbox[e][v].plus
          /\ \A x \in Epc : x # e => ProjectedAt(x)' = ProjectedAt(x)
          /\ outbox[e][v].minus # outbox[e][v].plus
        BY <1>1, SettleProjection
    <2> QED BY <2>1, SettledCounts
<1>3. UnmarkedProjectionExact'
    BY <1>2 DEF ProjectionInv, UnmarkedProjectionExact, PublishTransition
<1>4. \A x \in Epc, w \in Version :
        outbox'[x][w].status = "quarantined" => outbox'[x][w] = outbox[x][w]
    <2>1. outbox'[e][v].status = "published"
        <3>1. outbox[e][v] \in Transition /\ outbox[e][v].attempts < MaxAttempts
            BY <1>1 DEF OutboxInv, RowsMatchVersion, EarliestPending, Earliest,
                        PendingRows
        <3> QED BY <1>1, <3>1, AttemptedRow DEF Status
    <2> QED BY <1>1, <2>1
<1>5. QuarantineFailsClosed'
    BY <1>4 DEF ProjectionInv, QuarantineFailsClosed, PublishTransition
<1>6. SnapshotSound'
    BY DEF SnapshotSound, PublishTransition, rebuild
<1> QED BY <1>3, <1>5, <1>6

\* A failed attempt that is not the last changes a counter only.
LEMMA FailProjectionInv ==
    ASSUME ProjectionInv, NEW e \in Epc, NEW v \in Version, AttemptFails(e, v)
    PROVE  UnmarkedProjectionExact' /\ QuarantineFailsClosed' /\ SnapshotSound'
<1>1. /\ OutboxInv /\ EarliestPending(e, v) /\ loc' = loc
      /\ outbox' = [outbox EXCEPT ![e][v] = Attempted(outbox[e][v], "pending")]
      /\ outbox \in [Epc -> [Version -> Transition]]
      /\ outbox[e][v].status = "pending"
    BY DEF ProjectionInv, OutboxInv, TypeOK, AttemptFails, items,
           EarliestPending, Earliest, PendingRows
<1>2. /\ outbox'[e][v].status = outbox[e][v].status
      /\ outbox'[e][v].minus = outbox[e][v].minus
    <2>1. outbox[e][v] \in Transition /\ outbox[e][v].attempts < MaxAttempts
        BY <1>1 DEF OutboxInv, RowsMatchVersion
    <2> QED BY <1>1, <2>1, AttemptedRow DEF Status
<1>3. \A x \in Epc, w \in Version :
        /\ outbox'[x][w].status = outbox[x][w].status
        /\ outbox'[x][w].minus = outbox[x][w].minus
        /\ outbox'[x][w].status = "quarantined" => outbox'[x][w] = outbox[x][w]
    BY <1>1, <1>2
<1>4. \A x \in Epc : ProjectedAt(x)' = ProjectedAt(x) /\ Pending(x)' = Pending(x)
    BY <1>1, <1>3, StableProjection
<1>5. \A b : ProjectedCount(b)' = ProjectedCount(b)
    BY <1>4, SameCounts
<1>6. NothingPending' <=> NothingPending
    BY <1>4 DEF NothingPending
<1>7. UnmarkedProjectionExact' /\ QuarantineFailsClosed'
    BY <1>3, <1>5 DEF ProjectionInv, UnmarkedProjectionExact,
                      QuarantineFailsClosed, AttemptFails
<1>8. SnapshotSound'
    BY <1>3, <1>5, <1>6 DEF ProjectionInv, SnapshotSound, AttemptFails, rebuild
<1> QED BY <1>7, <1>8

\* Quarantine moves the projected place without the projection, but marks both
\* stores; no rebuild is between its scan and its commit.
LEMMA QuarantineProjectionInv ==
    ASSUME ~RebuildOutlastsRetries, ProjectionInv,
           NEW e \in Epc, NEW v \in Version, QuarantineTransition(e, v)
    PROVE  UnmarkedProjectionExact' /\ QuarantineFailsClosed' /\ SnapshotSound'
<1>1. /\ OutboxInv /\ EarliestPending(e, v) /\ UNCHANGED items
      /\ outbox' = [outbox EXCEPT ![e][v] = Attempted(outbox[e][v], "quarantined")]
      /\ outbox \in [Epc -> [Version -> Transition]]
    BY DEF ProjectionInv, OutboxInv, TypeOK, QuarantineTransition
<1>2. \A b : ProjectedCount(b)' = ProjectedCount(b) + Delta(outbox[e][v], b)
    <2>1. /\ ProjectedAt(e) = outbox[e][v].minus
          /\ ProjectedAt(e)' = outbox[e][v].plus
          /\ \A x \in Epc : x # e => ProjectedAt(x)' = ProjectedAt(x)
          /\ outbox[e][v].minus # outbox[e][v].plus
        BY <1>1, SettleProjection
    <2> QED BY <2>1, SettledCounts
<1>3. \A b \in {outbox[e][v].minus, outbox[e][v].plus} \cap Bucket :
        StoreOf[b] \in marked'
    BY DEF QuarantineTransition, TransitionStoreIds
<1>4. UnmarkedProjectionExact'
    <2> SUFFICES ASSUME NEW b \in Bucket, StoreOf[b] \notin marked'
                 PROVE  proj'[b] = ProjectedCount(b)'
        BY DEF UnmarkedProjectionExact
    <2>1. b # outbox[e][v].minus /\ b # outbox[e][v].plus
        BY <1>3
    <2>2. Delta(outbox[e][v], b) = 0
        BY <2>1 DEF Delta
    <2>3. proj'[b] = ProjectedCount(b) /\ proj[b] \in Nat /\ proj' = proj
        BY DEF ProjectionInv, UnmarkedProjectionExact, QuarantineTransition,
               OutboxInv, TypeOK
    <2> QED BY <1>2, <2>2, <2>3
<1>5. QuarantineFailsClosed'
    <2>1. /\ outbox'[e][v].minus = outbox[e][v].minus
          /\ outbox'[e][v].plus = outbox[e][v].plus
        <3>1. outbox[e][v] \in Transition /\ outbox[e][v].attempts < MaxAttempts
            BY <1>1 DEF OutboxInv, RowsMatchVersion, EarliestPending, Earliest,
                        PendingRows
        <3> QED BY <1>1, <3>1, AttemptedRow DEF Status
    <2>2. \A x \in Epc, w \in Version :
            (x # e \/ w # v) => outbox'[x][w] = outbox[x][w]
        BY <1>1
    <2>3. marked \subseteq marked' /\ QuarantineFailsClosed
        BY DEF QuarantineTransition, ProjectionInv
    <2> QED BY <1>3, <2>1, <2>2, <2>3 DEF QuarantineFailsClosed
<1>6. SnapshotSound'
    BY DEF SnapshotSound, QuarantineTransition, rebuild
<1> QED BY <1>4, <1>5, <1>6

\* The rebuild's own steps.
LEMMA RebuildProjectionInv ==
    ASSUME ProjectionInv,
           RebuildBegin \/ RebuildScan \/ RebuildVerify \/ RebuildReconcile
             \/ RebuildAbort \/ UNCHANGED vars
    PROVE  UnmarkedProjectionExact' /\ QuarantineFailsClosed' /\ SnapshotSound'
<1>1. UNCHANGED <<items, outbox, proj, marked>>
    BY DEF RebuildBegin, RebuildScan, RebuildVerify, RebuildReconcile,
           RebuildAbort, vars
<1>2. \A b : ProjectedCount(b)' = ProjectedCount(b)
    BY <1>1 DEF ProjectedCount, ProjectedAt, items
<1>3. UnmarkedProjectionExact' /\ QuarantineFailsClosed'
    BY <1>1, <1>2 DEF ProjectionInv, UnmarkedProjectionExact, QuarantineFailsClosed
<1>4. NothingPending' <=> NothingPending
    BY <1>1 DEF NothingPending, Pending
<1>5. CASE RebuildScan
    <2>1. ASSUME NothingPending, NEW b \in Bucket PROVE ItemCount(b) = ProjectedCount(b)
        <3>1. \A e \in Epc : ProjectedAt(e) = loc[e]
            BY <2>1 DEF NothingPending, Pending, ProjectedAt, ProjectedLoc
        <3>2. {e \in Epc : ProjectedAt(e) = b} = {e \in Epc : loc[e] = b}
            BY <3>1
        <3> QED BY <3>2 DEF ItemCount, ProjectedCount
    <2> QED BY <2>1, <1>2, <1>3, <1>4, <1>5 DEF RebuildScan, SnapshotSound
<1>6. CASE RebuildReconcile
    <2>1. \A e \in Epc, v \in Version :
            (outbox'[e][v].status = "quarantined" /\ ~outbox'[e][v].reconciled)
                => <<e, v>> \in reconciling'
        BY <1>1, <1>6 DEF RebuildReconcile
    <2> QED BY <2>1, <1>2, <1>3, <1>6 DEF RebuildReconcile, SnapshotSound, ProjectionInv
<1>7. CASE RebuildVerify
    BY <1>2, <1>3, <1>7 DEF RebuildVerify, SnapshotSound, ProjectionInv
<1>8. CASE RebuildBegin \/ RebuildAbort
    BY <1>3, <1>8 DEF RebuildBegin, RebuildAbort, SnapshotSound
<1>9. CASE UNCHANGED vars
    BY <1>1, <1>2, <1>3, <1>4, <1>9 DEF SnapshotSound, ProjectionInv, vars, rebuild
<1> QED BY <1>5, <1>6, <1>7, <1>8, <1>9

\* The commit replaces the projection by a snapshot that is still exact.
LEMMA CommitProjectionInv ==
    ASSUME ProjectionInv, RebuildCommit
    PROVE  UnmarkedProjectionExact' /\ QuarantineFailsClosed' /\ SnapshotSound'
<1>1. /\ OutboxInv /\ outbox \in [Epc -> [Version -> Transition]] /\ loc' = loc
    BY DEF ProjectionInv, OutboxInv, TypeOK, RebuildCommit, items
<1>2. \A x \in Epc, w \in Version :
        /\ outbox'[x][w].status = outbox[x][w].status
        /\ outbox'[x][w].minus = outbox[x][w].minus
        /\ ~outbox'[x][w].reconciled =>
                <<x, w>> \notin reconciling /\ ~outbox[x][w].reconciled
    <2> TAKE x \in Epc, w \in Version
    <2>1. /\ outbox[x][w] \in Transition
          /\ outbox'[x][w] = IF <<x, w>> \in reconciling
                             THEN [outbox[x][w] EXCEPT !.reconciled = TRUE]
                             ELSE outbox[x][w]
        BY <1>1 DEF RebuildCommit
    <2>2. CASE <<x, w>> \in reconciling
        BY <2>1, <2>2 DEF Transition
    <2>3. CASE <<x, w>> \notin reconciling
        BY <2>1, <2>3
    <2> QED BY <2>2, <2>3
<1>3. \A x \in Epc : ProjectedAt(x)' = ProjectedAt(x)
    BY <1>1, <1>2, StableProjection
<1>4. \A b : ProjectedCount(b)' = ProjectedCount(b)
    BY <1>3, SameCounts
<1>5. UnmarkedProjectionExact'
    BY <1>4 DEF ProjectionInv, SnapshotSound, RebuildCommit, UnmarkedProjectionExact
<1>6. QuarantineFailsClosed'
    BY <1>2 DEF ProjectionInv, SnapshotSound, RebuildCommit, QuarantineFailsClosed
<1>7. SnapshotSound'
    BY DEF SnapshotSound, RebuildCommit
<1> QED BY <1>5, <1>6, <1>7

LEMMA NextProjectionInv ==
    ASSUME ~RebuildOutlastsRetries, ProjectionInv, [Next]_vars
    PROVE  ProjectionInv'
<1>1. OutboxInv'
    BY NextOutboxInv DEF ProjectionInv
<1>2. ASSUME NEW e \in Epc, NEW b \in Bucket, ProcessObservation(e, b)
      PROVE  UnmarkedProjectionExact' /\ QuarantineFailsClosed' /\ SnapshotSound'
    BY <1>2, EmitProjectionInv DEF ProcessObservation
<1>3. ASSUME NEW e \in Epc, AcceptAuthoritativeRemoval(e)
      PROVE  UnmarkedProjectionExact' /\ QuarantineFailsClosed' /\ SnapshotSound'
    BY <1>3, EmitProjectionInv DEF AcceptAuthoritativeRemoval
<1>4. UnmarkedProjectionExact' /\ QuarantineFailsClosed' /\ SnapshotSound'
    BY <1>2, <1>3, PublishProjectionInv, FailProjectionInv, QuarantineProjectionInv,
       RebuildProjectionInv, CommitProjectionInv DEF Next
<1> QED BY <1>1, <1>4 DEF ProjectionInv

\* The inductive invariant, where no transition is both created and quarantined
\* between a rebuild's scan and its commit.
LEMMA ProjectionInvariant ==
    ASSUME ~RebuildOutlastsRetries PROVE Spec => []ProjectionInv
<1>1. Init => ProjectionInv
    BY InitProjectionInv
<1>2. ProjectionInv /\ [Next]_vars => ProjectionInv'
    BY NextProjectionInv
<1> QED BY <1>1, <1>2, PTL DEF Spec

\* For any number of items, stores and buckets, the projection that
\* apply_inventory_deltas and rebuild_inventory_projection maintain counts, in
\* every store not marked for reconciliation, exactly the settled transitions.
THEOREM ProjectionExact ==
    ASSUME ~RebuildOutlastsRetries PROVE Spec => []UnmarkedProjectionExact
<1>1. ProjectionInv => UnmarkedProjectionExact
    BY DEF ProjectionInv
<1> QED BY <1>1, ProjectionInvariant, PTL

\* Once drained, an unmarked store's projected quantities are its item counts.
THEOREM DrainedExact ==
    ASSUME ~RebuildOutlastsRetries PROVE Spec => []DrainedProjectionExact
<1>1. ProjectionInv => DrainedProjectionExact
    <2> SUFFICES ASSUME ProjectionInv, NothingPending, NEW b \in Bucket,
                        StoreOf[b] \notin marked
                 PROVE  proj[b] = ItemCount(b)
        BY DEF DrainedProjectionExact
    <2>1. \A e \in Epc : ProjectedAt(e) = loc[e]
        BY DEF NothingPending, Pending, ProjectedAt, ProjectedLoc
    <2>2. {e \in Epc : ProjectedAt(e) = b} = {e \in Epc : loc[e] = b}
        BY <2>1
    <2>3. ItemCount(b) = ProjectedCount(b)
        BY <2>2 DEF ItemCount, ProjectedCount
    <2> QED BY <2>3 DEF ProjectionInv, UnmarkedProjectionExact
<1> QED BY <1>1, ProjectionInvariant, PTL

\* A quarantined transition keeps every store it touches marked until a rebuild
\* has reconciled it.
THEOREM FailsClosed ==
    ASSUME ~RebuildOutlastsRetries PROVE Spec => []QuarantineFailsClosed
<1>1. ProjectionInv => QuarantineFailsClosed
    BY DEF ProjectionInv
<1> QED BY <1>1, ProjectionInvariant, PTL

\* Applying a transition can only fail with a negative quantity in a store that
\* is already marked.
THEOREM NeverUnderflows ==
    ASSUME ~RebuildOutlastsRetries PROVE Spec => []UnmarkedNeverUnderflows
<1>1. ProjectionInv => UnmarkedNeverUnderflows
    <2> SUFFICES ASSUME ProjectionInv, NEW e \in Epc, NEW v \in Version,
                        EarliestPending(e, v), NEW b \in Bucket,
                        StoreOf[b] \notin marked
                 PROVE  proj[b] + Delta(outbox[e][v], b) >= 0
        BY DEF UnmarkedNeverUnderflows
    <2>1. proj[b] \in Nat /\ proj[b] = ProjectedCount(b)
        BY DEF ProjectionInv, OutboxInv, TypeOK, UnmarkedProjectionExact
    <2>2. CASE outbox[e][v].minus # b
        BY <2>1, <2>2 DEF Delta
    <2>3. CASE outbox[e][v].minus = b
        <3> DEFINE F == {x \in Epc : ProjectedAt(x) = b}
        <3>1. e \in F
            BY <2>3, ProjectedAtEarliest DEF ProjectedAt, EarliestPending
        <3>2. IsFiniteSet(F)
            BY ItemsAssumption, FS_Subset
        <3>3. Cardinality(F) # 0
            BY <3>1, <3>2, FS_EmptySet
        <3>4. proj[b] >= 1
            BY <2>1, <3>3 DEF ProjectedCount
        <3> QED BY <2>1, <3>4 DEF Delta
    <2> QED BY <2>2, <2>3
<1> QED BY <1>1, ProjectionInvariant, PTL

\* Transitions of one item are published or quarantined in version order,
\* whatever rebuilds and retries do.
THEOREM VersionOrder == Spec => SettlesInVersionOrder
<1> DEFINE InOrder ==
        \A e \in Epc, v \in Version :
            (outbox[e][v].status = "pending" /\ outbox'[e][v].status # "pending") =>
                \A w \in Version : w < v => outbox[e][w].status # "pending"
<1>1. ASSUME OutboxInv, [Next]_vars PROVE [InOrder]_vars
    <2> USE BoundsAssumption
    <2>1. outbox \in [Epc -> [Version -> Transition]]
        BY <1>1 DEF OutboxInv, TypeOK
    <2>2. ASSUME NEW e \in Epc, NEW v \in Version, EarliestPending(e, v), NEW row,
                 outbox' = [outbox EXCEPT ![e][v] = row]
          PROVE  InOrder
        BY <2>1, <2>2 DEF EarliestPending, Earliest, PendingRows, Version
    <2>3. ASSUME NEW e \in Epc, NEW target, EmitTransition(e, target)
          PROVE  InOrder
        <3>1. version[e] + 1 \in Version
            BY <1>1, <2>3 DEF OutboxInv, TypeOK, EmitTransition, Version
        <3>2. \A x \in Epc, w \in Version :
                outbox'[x][w] = outbox[x][w] \/ outbox'[x][w].status = "pending"
            BY <2>1, <2>3, <3>1 DEF EmitTransition
        <3> QED BY <3>2
    <2>4. CASE RebuildCommit
        <3> SUFFICES ASSUME NEW x \in Epc, NEW w \in Version
                     PROVE  outbox'[x][w].status = outbox[x][w].status
            OBVIOUS
        <3>1. outbox[x][w] \in Transition
            BY <2>1
        <3> QED BY <3>1, <2>4 DEF RebuildCommit, Transition
    <2>5. CASE UNCHANGED outbox
        BY <2>5
    <2> QED BY <1>1, <2>2, <2>3, <2>4, <2>5
            DEF Next, ProcessObservation, AcceptAuthoritativeRemoval,
                PublishTransition, AttemptFails, QuarantineTransition,
                RebuildBegin, RebuildScan, RebuildVerify, RebuildReconcile, RebuildAbort
<1> QED BY <1>1, OutboxShape, PTL DEF Spec, SettlesInVersionOrder

=============================================================================
